------------------------ MODULE PartitionersProofs --------------------------
(***************************************************************************)
(* For any files, cores and footprint: what the chunks are given is the    *)
(* file as far as it was loaded, no chunk is empty, there are no more      *)
(* chunks than cores, and both partitioners cut a text at the same places. *)
(***************************************************************************)
EXTENDS Partitioners, SequenceTheorems, DataInduction, TLAPS

(* The types, and how many chunks there may be at which place of the loops. *)
Bounded ==
  /\ file \in Seq(Char)
  /\ num_core \in Nat \ {0}
  /\ start_pos \in Nat
  /\ stream \in Seq(Char)
  /\ sum_size \in Nat
  /\ chunk \in Seq(Char)
  /\ chunks \in Seq(Seq(Char))
  /\ given \in Seq(Char)
  /\ phase \in {"load", "extend", "cut", "scan", "rest", "run", "end", "overrun"}
  /\ phase \in {"cut", "scan"} => Len(chunks) + 1 < num_core
  /\ phase = "rest" => Len(chunks) < num_core
  /\ phase = "run" => Len(chunks) <= num_core

(* Between two pieces: pos characters were loaded and given, and the next one
   is no space, so that ltrim leaves the next piece as it is. *)
LoadedTo(pos) ==
  /\ pos <= Len(file)
  /\ pos < Len(file) => file[pos + 1] # "space"

GivenTo(pos) == given = SubSeq(file, 1, pos)

(* The piece in memory is the text of the file behind the first from bytes. *)
PieceFrom(from) ==
  /\ from \in Nat
  /\ stream # <<>>
  /\ from + Len(stream) <= Len(file)
  /\ stream = SubSeq(file, from + 1, from + Len(stream))
  /\ stream[1] # "space"

(* The chunk being cut is the text of the piece behind what was cut before. *)
CutChunk ==
  /\ chunk # <<>>
  /\ sum_size + Len(chunk) <= Len(stream)
  /\ chunk = SubSeq(stream, sum_size + 1, sum_size + Len(chunk))

(* The places of text, piece and chunk at every place of the loops. *)
Placed ==
  /\ phase \in {"load", "extend", "end"} => LoadedTo(start_pos) /\ GivenTo(start_pos)
  /\ phase = "extend" => PieceFrom(start_pos)
  /\ phase \in {"cut", "scan", "rest", "run"} =>
       /\ LoadedTo(start_pos)
       /\ PieceFrom(start_pos - Len(stream))
       /\ \A c \in DOMAIN chunks : chunks[c] # <<>>
  /\ phase \in {"cut", "scan", "rest"} =>
       /\ sum_size < Len(stream)
       /\ GivenTo(start_pos - Len(stream) + sum_size)
  /\ phase = "scan" => CutChunk
  /\ phase = "run" => GivenTo(start_pos)

PartInv == Bounded /\ (StartsWithText => Placed)

-----------------------------------------------------------------------------
(* The text of a file from one place to another. *)
LEMMA TextFacts ==
  ASSUME NEW s \in Seq(Char), NEW m \in Nat, NEW n \in Nat, m <= n, n <= Len(s)
  PROVE  /\ SubSeq(s, m + 1, n) \in Seq(Char)
         /\ Len(SubSeq(s, m + 1, n)) = n - m
         /\ m < n => SubSeq(s, m + 1, n) # <<>> /\ SubSeq(s, m + 1, n)[1] = s[m + 1]
<1>1. \A i \in m + 1 .. n : s[i] \in Char
  BY ElementOfSeq
<1>2. /\ SubSeq(s, m + 1, n) \in Seq(Char)
      /\ Len(SubSeq(s, m + 1, n)) = IF m + 1 <= n THEN n - (m + 1) + 1 ELSE 0
      /\ \A i \in 1 .. n - (m + 1) + 1 : SubSeq(s, m + 1, n)[i] = s[m + 1 + i - 1]
  BY <1>1, SubSeqProperties
<1>3. Len(SubSeq(s, m + 1, n)) = n - m
  BY <1>2
<1>4. ASSUME m < n PROVE SubSeq(s, m + 1, n) # <<>> /\ SubSeq(s, m + 1, n)[1] = s[m + 1]
  BY <1>2, <1>3, <1>4
<1> QED
  BY <1>2, <1>3, <1>4

(* A text of a place at least is not empty. *)
LEMMA TextNotEmpty ==
  ASSUME NEW s \in Seq(Char), NEW m \in Nat, NEW n \in Nat, m < n, n <= Len(s)
  PROVE  /\ SubSeq(s, m + 1, n) \in Seq(Char)
         /\ Len(SubSeq(s, m + 1, n)) = n - m
         /\ SubSeq(s, m + 1, n) # <<>>
         /\ SubSeq(s, m + 1, n)[1] = s[m + 1]
<1>1. m <= n
  OBVIOUS
<1> QED
  BY <1>1, TextFacts

(* One more character. *)
LEMMA TextExtended ==
  ASSUME NEW s \in Seq(Char), NEW m \in Nat, NEW n \in Nat, m <= n, n < Len(s)
  PROVE  Append(SubSeq(s, m + 1, n), s[n + 1]) = SubSeq(s, m + 1, n + 1)
<1>1. /\ SubSeq(s, m + 1, n) \in Seq(Char) /\ Len(SubSeq(s, m + 1, n)) = n - m
      /\ SubSeq(s, m + 1, n + 1) \in Seq(Char) /\ Len(SubSeq(s, m + 1, n + 1)) = n + 1 - m
  BY TextFacts
<1>2. s[n + 1] \in Char
  BY ElementOfSeq
<1>3. /\ Append(SubSeq(s, m + 1, n), s[n + 1]) \in Seq(Char)
      /\ Len(Append(SubSeq(s, m + 1, n), s[n + 1])) = n + 1 - m
      /\ \A i \in 1 .. n - m : Append(SubSeq(s, m + 1, n), s[n + 1])[i] = SubSeq(s, m + 1, n)[i]
      /\ Append(SubSeq(s, m + 1, n), s[n + 1])[n - m + 1] = s[n + 1]
  <2>1. PICK t \in Seq(Char) : t = SubSeq(s, m + 1, n) /\ Len(t) = n - m
    BY <1>1
  <2>2. PICK c \in Char : c = s[n + 1]
    BY <1>2
  <2>3. /\ Append(t, c) \in Seq(Char) /\ Len(Append(t, c)) = n + 1 - m
        /\ \A i \in 1 .. n - m : Append(t, c)[i] = t[i]
        /\ Append(t, c)[n - m + 1] = c
    BY <2>1, AppendProperties
  <2> QED
    BY <2>1, <2>2, <2>3
<1>4. \A i \in 1 .. n + 1 - m : SubSeq(s, m + 1, n + 1)[i] = s[m + i]
  OBVIOUS
<1>5. \A i \in 1 .. n - m : SubSeq(s, m + 1, n)[i] = s[m + i]
  OBVIOUS
<1>6. \A i \in 1 .. n + 1 - m :
        Append(SubSeq(s, m + 1, n), s[n + 1])[i] = SubSeq(s, m + 1, n + 1)[i]
  BY <1>3, <1>4, <1>5
<1> QED
  BY <1>1, <1>3, <1>6, SeqEqual

(* A chunk with text joins chunks with text. *)
LEMMA NoneEmpty ==
  ASSUME NEW c \in Seq(Seq(Char)), NEW t \in Seq(Char), t # <<>>,
         \A i \in DOMAIN c : c[i] # <<>>
  PROVE  \A i \in DOMAIN Append(c, t) : Append(c, t)[i] # <<>>
<1>1. PICK n \in Nat : n = Len(c) /\ DOMAIN c = 1 .. n
  OBVIOUS
<1>2. DOMAIN Append(c, t) = 1 .. n + 1
  BY <1>1
<1>3. Append(c, t)[n + 1] = t /\ \A i \in 1 .. n : Append(c, t)[i] = c[i]
  BY <1>1
<1> QED
  BY <1>1, <1>2, <1>3

(* Two texts one behind the other. *)
LEMMA TextsJoin ==
  ASSUME NEW s \in Seq(Char), NEW k \in Nat, NEW n \in Nat, k <= n, n <= Len(s)
  PROVE  SubSeq(s, 1, k) \o SubSeq(s, k + 1, n) = SubSeq(s, 1, n)
<1>1. 1 \in 1 .. Len(s) + 1 /\ k \in 1 - 1 .. Len(s) /\ n \in k .. Len(s)
  OBVIOUS
<1> QED
  BY <1>1, ConcatAdjacentSubSeq

(* A text of a text. *)
LEMMA TextOfText ==
  ASSUME NEW s \in Seq(Char), NEW b \in Nat, NEW e \in Nat, b <= e, e <= Len(s),
         NEW m \in Nat, NEW n \in Nat, m <= n, b + n <= e
  PROVE  SubSeq(SubSeq(s, b + 1, e), m + 1, n) = SubSeq(s, b + m + 1, b + n)
<1> DEFINE t == SubSeq(s, b + 1, e)
           u == SubSeq(t, m + 1, n)
           v == SubSeq(s, b + m + 1, b + n)
<1>1. t \in Seq(Char) /\ Len(t) = e - b
  BY TextFacts
<1>2. u \in Seq(Char) /\ Len(u) = n - m
  <2> HIDE DEF t
  <2> QED
    BY <1>1, TextFacts
<1>3. v \in Seq(Char) /\ Len(v) = n - m
  <2>1. b + m \in Nat /\ b + n \in Nat /\ b + m <= b + n /\ b + n <= Len(s)
    OBVIOUS
  <2>2. SubSeq(s, (b + m) + 1, b + n) \in Seq(Char)
        /\ Len(SubSeq(s, (b + m) + 1, b + n)) = (b + n) - (b + m)
    BY <2>1, TextFacts
  <2> QED
    BY <2>2
<1>4. \A i \in 1 .. n - m : u[i] = v[i]
  <2>1. \A i \in 1 .. e - b : t[i] = s[b + i]
    OBVIOUS
  <2>2. \A i \in 1 .. n - m : u[i] = t[m + i]
    OBVIOUS
  <2>3. \A i \in 1 .. n - m : v[i] = s[b + m + i]
    OBVIOUS
  <2> HIDE DEF t, u, v
  <2> QED
    BY <2>1, <2>2, <2>3
<1> HIDE DEF u, v
<1>5. u = v
  BY <1>2, <1>3, <1>4, SeqEqual
<1> QED
  BY <1>5 DEF u, v

(* ltrim makes a text of a text, and leaves one that begins with no space. *)
LEMMA TrimFacts ==
  ASSUME NEW s \in Seq(Char)
  PROVE  /\ ltrim(s) \in Seq(Char)
         /\ s # <<>> /\ s[1] # "space" => ltrim(s) = s
<1> DEFINE words == {n \in DOMAIN s : s[n] # "space"}
<1>1. words \subseteq 1 .. Len(s) /\ Len(s) \in Nat
  OBVIOUS
<1>2. ASSUME words # {} PROVE Min(words) \in words /\ \A y \in words : Min(words) <= y
  <2>1. words \subseteq Nat
    BY <1>1
  <2> HIDE DEF words
  <2> QED
    BY <1>2, <2>1, MinFacts
<1>3. ltrim(s) \in Seq(Char)
  <2>1. CASE words = {}
    BY <2>1 DEF ltrim
  <2>2. CASE words # {}
    <3>1. PICK k \in 1 .. Len(s) : k = Min(words)
      BY <1>1, <1>2, <2>2
    <3>2. SubSeq(s, (k - 1) + 1, Len(s)) \in Seq(Char)
      BY <1>1, TextFacts
    <3>3. (k - 1) + 1 = k
      OBVIOUS
    <3> QED
      BY <2>2, <3>1, <3>2, <3>3 DEF ltrim
  <2> QED
    BY <2>1, <2>2
<1>4. ASSUME s # <<>>, s[1] # "space" PROVE ltrim(s) = s
  <2>1. 1 \in words
    BY <1>4, EmptySeq
  <2>2. Min(words) = 1
    <3>1. PICK k \in 1 .. Len(s) : k = Min(words)
      BY <1>1, <1>2, <2>1
    <3>2. k <= 1
      BY <1>2, <2>1, <3>1
    <3> QED
      BY <3>1, <3>2
  <2>3. SubSeq(s, 1, Len(s)) = s
    BY SubSeqFull
  <2> QED
    BY <2>1, <2>2, <2>3 DEF ltrim
<1> QED
  BY <1>3, <1>4

(* Min of the community modules, of two numbers. *)
LEMMA MinOfTwo ==
  ASSUME NEW a \in Nat, NEW b \in Nat
  PROVE  Min({a, b}) = IF a <= b THEN a ELSE b
BY MinFacts

(* Where the text starts with no space, substring is the text between the places. *)
LEMMA SubstringFacts ==
  ASSUME NEW s \in Seq(Char), NEW b \in Nat, NEW e \in Nat
  PROVE  /\ substring(s, b, e) \in Seq(Char)
         /\ s # <<>> /\ s[1] # "space" /\ e <= Len(s) =>
              substring(s, b, e) = SubSeq(s, b + 1, e)
<1>1. PICK t \in Seq(Char) : t = ltrim(s)
  BY TrimFacts
<1>2. Len(t) \in Nat
  OBVIOUS
<1>3. PICK n \in Nat : /\ n = Min({e, Len(t)})
                       /\ n = IF e <= Len(t) THEN e ELSE Len(t)
                       /\ n <= Len(t)
  <2>1. Min({e, Len(t)}) = IF e <= Len(t) THEN e ELSE Len(t)
    BY <1>2, MinOfTwo
  <2> QED
    BY <1>2, <2>1
<1>4. substring(s, b, e) = SubSeq(t, b + 1, n)
  BY <1>1, <1>3 DEF substring
<1>5. substring(s, b, e) \in Seq(Char)
  <2>1. CASE b <= n
    BY <1>3, <1>4, <2>1, TextFacts
  <2>2. CASE ~(b <= n)
    <3>1. n < b + 1
      BY <2>2, <1>3
    <3>2. SubSeq(t, b + 1, n) = <<>>
      BY <3>1, SubSeqEmpty
    <3> QED
      BY <1>4, <3>2, EmptySeq
  <2> QED
    BY <2>1, <2>2
<1>6. s # <<>> /\ s[1] # "space" /\ e <= Len(s) => substring(s, b, e) = SubSeq(s, b + 1, e)
  BY <1>1, <1>3, <1>4, TrimFacts
<1> QED
  BY <1>5, <1>6

(* chunk_size is one at least. *)
LEMMA ChunkSize ==
  ASSUME Bounded
  PROVE  chunk_size \in Nat \ {0}
<1>1. \A a \in Nat, b \in Nat \ {0} : a \div b \in Nat
  OBVIOUS
<1>2. Len(stream) \in Nat /\ num_core \in Nat \ {0}
  BY DEF Bounded
<1>3. PICK q \in Nat : q = Len(stream) \div num_core
  BY <1>1, <1>2
<1> QED
  BY <1>3 DEF chunk_size

(* The types and the number of chunks: a chunk is begun only where one more and
   the last one still have a core. *)
LEMMA StaysBounded == Bounded /\ [Next]_vars => Bounded'
<1> SUFFICES ASSUME Bounded, [Next]_vars PROVE Bounded'
  OBVIOUS
<1>0. /\ file \in Seq(Char) /\ num_core \in Nat \ {0} /\ start_pos \in Nat
      /\ stream \in Seq(Char) /\ sum_size \in Nat /\ chunk \in Seq(Char)
      /\ chunks \in Seq(Seq(Char)) /\ given \in Seq(Char)
      /\ chunk_size \in Nat \ {0}
      /\ MEMORY_FOOTPRINT \in Nat \ {0}
  BY ChunkSize, FootprintAssumption DEF Bounded
<1>1. CASE Load
  <2>1. CASE Remaining <= 0
    BY <1>1, <2>1 DEF Load, Bounded, partVars
  <2>2. CASE ~(Remaining <= 0)
    <3>0. Remaining \in Int
      BY <1>0 DEF Remaining
    <3>1. PICK r \in Nat \ {0} : r = Remaining
      BY <2>2, <3>0
    <3>2. PICK n \in Nat : n = Min({r, MEMORY_FOOTPRINT}) /\ n <= r
      <4>1. Min({r, MEMORY_FOOTPRINT}) = IF r <= MEMORY_FOOTPRINT THEN r ELSE MEMORY_FOOTPRINT
        BY <1>0, MinOfTwo
      <4> QED
        BY <4>1, <1>0
    <3>3. SubSeq(file, start_pos + 1, start_pos + n) \in Seq(Char)
      <4>1. start_pos + n \in Nat /\ start_pos <= start_pos + n /\ start_pos + n <= Len(file)
        BY <1>0, <3>1, <3>2 DEF Remaining
      <4> QED
        BY <4>1, <1>0, TextFacts
    <3> QED
      BY <1>1, <2>2, <3>1, <3>2, <3>3 DEF Load, Bounded, partVars
  <2> QED
    BY <2>1, <2>2
<1>2. CASE Extend
  <2>1. file[NextInFile] \in Char
    BY <1>2, <1>0, ElementOfSeq DEF Extend, Loaded, NextInFile
  <2>2. stream' \in Seq(Char)
    BY <1>2, <1>0, <2>1 DEF Extend
  <2> QED
    BY <1>2, <2>2 DEF Extend, Bounded, partVars
<1>3. CASE BeginPartition
  <2>1. start_pos' \in Nat
    BY <1>3, <1>0 DEF BeginPartition
  <2>2. /\ sum_size' = 0 /\ chunk' = <<>> /\ chunks' = <<>> /\ Len(chunks') = 0
        /\ phase' = IF num_core = 1 THEN "rest" ELSE "cut"
        /\ UNCHANGED <<file, num_core, stream, given>>
    BY <1>3 DEF BeginPartition
  <2> QED
    BY <1>0, <2>1, <2>2 DEF Bounded
<1>4. CASE BeginChunk
  <2>1. substring(stream, sum_size, sum_size + chunk_size) \in Seq(Char)
    BY <1>0, SubstringFacts
  <2> QED
    BY <1>4, <2>1 DEF BeginChunk, Bounded
<1>5. CASE ExtendChunk
  <2>1. stream[NextInPiece] \in Char
    BY <1>5, <1>0, ElementOfSeq DEF ExtendChunk, NextInPiece
  <2>2. chunk' \in Seq(Char)
    BY <1>5, <1>0, <2>1 DEF ExtendChunk
  <2> QED
    BY <1>5, <2>2 DEF ExtendChunk, Bounded
<1>6. CASE EndChunk
  <2>1. /\ chunks' = Append(chunks, chunk)
        /\ chunks' \in Seq(Seq(Char))
        /\ given' \in Seq(Char) /\ sum_size' \in Nat
    BY <1>6, <1>0 DEF EndChunk
  <2>2. Len(chunks') = Len(chunks) + 1 /\ Len(chunks) + 1 < num_core
    BY <1>6, <1>0, <2>1 DEF EndChunk, Bounded
  <2>3. PICK n \in Nat : n = Len(chunks') /\ n = Len(chunks) + 1
    BY <1>0, <2>2
  <2>4. phase' \in {"rest", "cut"} /\ (phase' = "cut" => n # num_core - 1)
    BY <1>6, <2>3 DEF EndChunk, Enough
  <2>5. n < num_core /\ (n # num_core - 1 => n + 1 < num_core)
    BY <1>0, <2>2, <2>3
  <2> QED
    BY <1>6, <2>1, <2>3, <2>4, <2>5 DEF EndChunk, Bounded
<1>7. CASE LastChunk
  <2>1. PICK rest \in Seq(Char) : chunks' = Append(chunks, rest) /\ given' = given \o rest
    <3>1. sum_size # Len(stream) =>
            substring(stream, sum_size, Len(stream)) \in Seq(Char)
      BY <1>0, SubstringFacts
    <3>2. <<>> \in Seq(Char)
      OBVIOUS
    <3> QED
      BY <1>7, <3>1, <3>2 DEF LastChunk
  <2>2. /\ chunks' \in Seq(Seq(Char)) /\ given' \in Seq(Char)
        /\ Len(chunks') = Len(chunks) + 1 /\ Len(chunks) < num_core
    BY <1>7, <1>0, <2>1 DEF LastChunk, Bounded
  <2>3. Len(chunks') <= num_core
    <3>1. PICK n \in Nat : n = Len(chunks)
      BY <1>0
    <3>2. n + 1 <= num_core
      BY <2>2, <3>1, <1>0
    <3> QED
      BY <2>2, <3>1, <3>2
  <2> QED
    BY <1>7, <2>2, <2>3 DEF LastChunk, Bounded
<1>8. CASE Overrun
  BY <1>8 DEF Overrun, Bounded, partVars
<1>9. CASE RunChunks
  BY <1>9 DEF RunChunks, Bounded, partVars
<1>10. CASE UNCHANGED vars
  BY <1>10 DEF vars, Bounded, partVars
<1> QED
  BY <1>1, <1>2, <1>3, <1>4, <1>5, <1>6, <1>7, <1>8, <1>9, <1>10 DEF Next

(* A boundary is in front of a quote. *)
LEMMA BoundaryIsQuote ==
  ASSUME NEW s, NEW c, Boundary(s, c)
  PROVE  c # "space"
BY DEF Boundary

(* Piece and chunk stay where they are in the text, for a file that does not
   begin with a space. *)
LEMMA StaysPlaced == Bounded /\ StartsWithText /\ Placed /\ [Next]_vars => Placed'
<1> SUFFICES ASSUME Bounded, StartsWithText, Placed, [Next]_vars PROVE Placed'
  OBVIOUS
<1>0. /\ file \in Seq(Char) /\ num_core \in Nat \ {0} /\ start_pos \in Nat
      /\ stream \in Seq(Char) /\ sum_size \in Nat /\ chunk \in Seq(Char)
      /\ chunks \in Seq(Seq(Char)) /\ given \in Seq(Char)
      /\ chunk_size \in Nat \ {0}
      /\ MEMORY_FOOTPRINT \in Nat \ {0}
      /\ Len(file) \in Nat /\ Len(stream) \in Nat /\ Len(chunk) \in Nat
  BY ChunkSize, FootprintAssumption DEF Bounded
<1>1. CASE Load
  <2>1. CASE Remaining <= 0
    BY <1>1, <2>1 DEF Load, Placed, LoadedTo, GivenTo, partVars
  <2>2. CASE ~(Remaining <= 0)
    <3>1. PICK r \in Nat \ {0} : r = Len(file) - start_pos /\ r = Remaining
      <4>1. Remaining \in Int
        BY <1>0 DEF Remaining
      <4> QED
        BY <2>2, <4>1 DEF Remaining
    <3>2. PICK n \in Nat \ {0} : n = Min({r, MEMORY_FOOTPRINT}) /\ n <= r
      <4>1. Min({r, MEMORY_FOOTPRINT}) = IF r <= MEMORY_FOOTPRINT THEN r ELSE MEMORY_FOOTPRINT
        BY <1>0, MinOfTwo
      <4> QED
        BY <4>1, <1>0
    <3>3. /\ phase = "load" /\ phase' = "extend"
          /\ stream' = SubSeq(file, start_pos + 1, start_pos + n)
          /\ UNCHANGED <<file, num_core, start_pos, sum_size, chunk, chunks, given>>
      BY <1>1, <2>2, <3>1, <3>2 DEF Load, partVars
    <3>4. LoadedTo(start_pos) /\ GivenTo(start_pos)
      BY <3>3 DEF Placed
    <3>5. start_pos + n \in Nat /\ start_pos < start_pos + n /\ start_pos + n <= Len(file)
      BY <1>0, <3>1, <3>2
    <3>6. /\ stream' # <<>> /\ stream'[1] = file[start_pos + 1]
          /\ Len(stream') = (start_pos + n) - start_pos
      <4>1. PICK q \in Nat : q = start_pos + n /\ start_pos < q /\ q <= Len(file)
        BY <3>5
      <4>2. /\ SubSeq(file, start_pos + 1, q) # <<>>
            /\ SubSeq(file, start_pos + 1, q)[1] = file[start_pos + 1]
            /\ Len(SubSeq(file, start_pos + 1, q)) = q - start_pos
        BY <1>0, <4>1, TextNotEmpty
      <4> QED
        BY <3>3, <4>1, <4>2
    <3>7. Len(stream') = n
      BY <3>6, <1>0
    <3>8. file[start_pos + 1] # "space"
      BY <3>4, <3>5, <1>0 DEF LoadedTo
    <3>9. PieceFrom(start_pos)'
      BY <1>0, <3>3, <3>5, <3>6, <3>7, <3>8 DEF PieceFrom
    <3> QED
      BY <3>3, <3>4, <3>9 DEF Placed, LoadedTo, GivenTo
  <2> QED
    BY <2>1, <2>2
<1>2. CASE Extend
  <2>1. /\ phase = "extend" /\ phase' = phase
        /\ start_pos + Len(stream) + 1 <= Len(file)
        /\ stream' = Append(stream, file[start_pos + Len(stream) + 1])
        /\ UNCHANGED <<file, num_core, start_pos, sum_size, chunk, chunks, given>>
    BY <1>2 DEF Extend, Loaded, NextInFile, partVars
  <2>2. LoadedTo(start_pos) /\ GivenTo(start_pos) /\ PieceFrom(start_pos)
    BY <2>1 DEF Placed
  <2>3. PICK e \in Nat : e = start_pos + Len(stream)
    BY <1>0
  <2>4. start_pos <= e /\ e < Len(file)
    BY <1>0, <2>1, <2>3
  <2>5. stream' = SubSeq(file, start_pos + 1, e + 1)
    <3>1. Append(SubSeq(file, start_pos + 1, e), file[e + 1]) = SubSeq(file, start_pos + 1, e + 1)
      BY <1>0, <2>4, TextExtended
    <3> QED
      BY <2>1, <2>2, <2>3, <3>1 DEF PieceFrom
  <2>6. PICK q \in Nat : q = e + 1
    OBVIOUS
  <2>7. start_pos < q /\ q <= Len(file)
    BY <1>0, <2>4, <2>6
  <2>8. /\ SubSeq(file, start_pos + 1, q) # <<>>
        /\ SubSeq(file, start_pos + 1, q)[1] = file[start_pos + 1]
        /\ Len(SubSeq(file, start_pos + 1, q)) = q - start_pos
    BY <1>0, <2>7, TextNotEmpty
  <2>9. stream' = SubSeq(file, start_pos + 1, q)
    BY <2>5, <2>6
  <2>10. start_pos + Len(stream') = q
    BY <1>0, <2>8, <2>9
  <2>11. file[start_pos + 1] # "space"
    BY <1>0, <2>2, <2>4 DEF LoadedTo
  <2>12. PieceFrom(start_pos)'
    BY <1>0, <2>1, <2>7, <2>8, <2>9, <2>10, <2>11 DEF PieceFrom
  <2> QED
    BY <2>1, <2>2, <2>12 DEF Placed, LoadedTo, GivenTo
<1>3. CASE BeginPartition
  <2>1. /\ phase = "extend" /\ phase' \in {"rest", "cut"}
        /\ start_pos' = start_pos + Len(stream)
        /\ sum_size' = 0 /\ chunks' = <<>>
        /\ start_pos + Len(stream) + 1 <= Len(file) =>
             Boundary(stream, file[start_pos + Len(stream) + 1])
        /\ UNCHANGED <<file, num_core, stream, given>>
    BY <1>3 DEF BeginPartition, Loaded, NextInFile
  <2>2. LoadedTo(start_pos) /\ GivenTo(start_pos) /\ PieceFrom(start_pos)
    BY <2>1 DEF Placed
  <2>3. PICK e \in Nat : e = start_pos + Len(stream) /\ e <= Len(file) /\ e - Len(stream) = start_pos
    BY <1>0, <2>2 DEF PieceFrom
  <2>4. e < Len(file) => file[e + 1] # "space"
    BY <1>0, <2>1, <2>3, BoundaryIsQuote
  <2>5. start_pos' = e /\ start_pos' - Len(stream') = start_pos
    BY <2>1, <2>3
  <2>6. LoadedTo(start_pos)'
    BY <2>1, <2>3, <2>4, <2>5 DEF LoadedTo
  <2>7. PieceFrom(start_pos - Len(stream))'
    BY <2>1, <2>2, <2>5 DEF PieceFrom
  <2>8. sum_size' < Len(stream')
    BY <1>0, <2>1, <2>2, EmptySeq DEF PieceFrom
  <2>9. GivenTo(start_pos - Len(stream) + sum_size)'
    <3>1. start_pos' - Len(stream') + sum_size' = start_pos
      BY <1>0, <2>1, <2>5
    <3> QED
      BY <3>1, <2>1, <2>2 DEF GivenTo
  <2> QED
    BY <2>1, <2>6, <2>7, <2>8, <2>9 DEF Placed
<1>4. CASE BeginChunk
  <2>1. /\ phase = "cut"
        /\ UNCHANGED <<file, num_core, start_pos, stream, sum_size, chunks, given>>
    BY <1>4 DEF BeginChunk
  <2>2. /\ PieceFrom(start_pos - Len(stream)) /\ LoadedTo(start_pos)
        /\ \A c \in DOMAIN chunks : chunks[c] # <<>>
        /\ sum_size < Len(stream) /\ GivenTo(start_pos - Len(stream) + sum_size)
    BY <2>1 DEF Placed
  <2>3. CASE Readable(stream, sum_size + chunk_size)
    <3>1. PICK e \in Nat : e = sum_size + chunk_size /\ sum_size < e
      BY <1>0
    <3>2. e <= Len(stream)
      BY <1>0, <2>2, <2>3, <3>1, TrimFacts DEF Readable, PieceFrom
    <3>3. phase' = "scan" /\ chunk' = SubSeq(stream, sum_size + 1, e)
      <4>1. phase' = "scan" /\ chunk' = substring(stream, sum_size, e)
        BY <1>4, <2>3, <3>1 DEF BeginChunk
      <4>2. stream # <<>> /\ stream[1] # "space"
        BY <2>2 DEF PieceFrom
      <4>3. substring(stream, sum_size, e) = SubSeq(stream, sum_size + 1, e)
        BY <1>0, <3>1, <3>2, <4>2, SubstringFacts
      <4> QED
        BY <4>1, <4>3
    <3>4. chunk' # <<>> /\ Len(chunk') = e - sum_size
      <4>1. /\ SubSeq(stream, sum_size + 1, e) # <<>>
            /\ Len(SubSeq(stream, sum_size + 1, e)) = e - sum_size
        BY <1>0, <3>1, <3>2, TextNotEmpty
      <4> QED
        BY <3>3, <4>1
    <3>5. sum_size + Len(chunk') = e
      BY <1>0, <3>4
    <3>6. CutChunk'
      BY <2>1, <3>2, <3>3, <3>4, <3>5 DEF CutChunk
    <3> QED
      BY <2>1, <2>2, <3>3, <3>6 DEF Placed, PieceFrom, LoadedTo, GivenTo
  <2>4. CASE ~Readable(stream, sum_size + chunk_size)
    BY <1>4, <2>4 DEF BeginChunk, Placed
  <2> QED
    BY <2>3, <2>4
<1>5. CASE ExtendChunk
  <2>1. /\ phase = "scan" /\ phase' = phase
        /\ sum_size + Len(chunk) + 1 <= Len(stream)
        /\ chunk' = Append(chunk, stream[sum_size + Len(chunk) + 1])
        /\ UNCHANGED <<file, num_core, start_pos, stream, sum_size, chunks, given>>
    BY <1>5 DEF ExtendChunk, NextInPiece
  <2>2. /\ PieceFrom(start_pos - Len(stream)) /\ LoadedTo(start_pos)
        /\ \A c \in DOMAIN chunks : chunks[c] # <<>>
        /\ sum_size < Len(stream) /\ GivenTo(start_pos - Len(stream) + sum_size)
        /\ CutChunk
    BY <2>1 DEF Placed
  <2>3. PICK e \in Nat : e = sum_size + Len(chunk)
    BY <1>0
  <2>4. sum_size <= e /\ e < Len(stream)
    BY <1>0, <2>1, <2>3
  <2>5. chunk' = SubSeq(stream, sum_size + 1, e + 1)
    <3>1. chunk = SubSeq(stream, sum_size + 1, e)
      BY <2>2, <2>3 DEF CutChunk
    <3>2. chunk' = Append(chunk, stream[e + 1])
      BY <2>1, <2>3
    <3>3. Append(SubSeq(stream, sum_size + 1, e), stream[e + 1]) = SubSeq(stream, sum_size + 1, e + 1)
      BY <1>0, <2>4, TextExtended
    <3> QED
      BY <3>1, <3>2, <3>3
  <2>6. PICK q \in Nat : q = e + 1
    OBVIOUS
  <2>7. sum_size < q /\ q <= Len(stream)
    BY <1>0, <2>4, <2>6
  <2>8. /\ SubSeq(stream, sum_size + 1, q) # <<>>
        /\ Len(SubSeq(stream, sum_size + 1, q)) = q - sum_size
    BY <1>0, <2>7, TextNotEmpty
  <2>9. chunk' = SubSeq(stream, sum_size + 1, q)
    BY <2>5, <2>6
  <2>10. sum_size + Len(chunk') = q
    BY <1>0, <2>8, <2>9
  <2>11. CutChunk'
    BY <2>1, <2>7, <2>8, <2>9, <2>10 DEF CutChunk
  <2> QED
    BY <2>1, <2>2, <2>11 DEF Placed, PieceFrom, LoadedTo, GivenTo
<1>6. CASE EndChunk
  <2>1. /\ phase = "scan" /\ phase' \in {"rest", "cut"}
        /\ sum_size + Len(chunk) + 1 <= Len(stream)
        /\ chunks' = Append(chunks, chunk)
        /\ given' = given \o chunk
        /\ sum_size' = sum_size + Len(chunk)
        /\ UNCHANGED <<file, num_core, start_pos, stream, chunk>>
    BY <1>6 DEF EndChunk, NextInPiece
  <2>2. /\ PieceFrom(start_pos - Len(stream)) /\ LoadedTo(start_pos)
        /\ \A c \in DOMAIN chunks : chunks[c] # <<>>
        /\ sum_size < Len(stream) /\ GivenTo(start_pos - Len(stream) + sum_size)
        /\ CutChunk
    BY <2>1 DEF Placed
  <2>3. PICK e \in Nat : e = sum_size + Len(chunk) /\ sum_size <= e /\ e < Len(stream)
    BY <1>0, <2>1
  <2>4. PICK b \in Nat : b = start_pos - Len(stream)
    BY <2>2 DEF PieceFrom
  <2>5. /\ b + Len(stream) <= Len(file)
        /\ stream = SubSeq(file, b + 1, b + Len(stream))
        /\ given = SubSeq(file, 1, b + sum_size)
        /\ chunk = SubSeq(stream, sum_size + 1, e)
    BY <2>2, <2>3, <2>4 DEF PieceFrom, GivenTo, CutChunk
  <2>6. chunk = SubSeq(file, b + sum_size + 1, b + e)
    <3>1. PICK p \in Nat : p = b + Len(stream)
      BY <1>0
    <3>2. b <= p /\ p <= Len(file) /\ b + e <= p /\ stream = SubSeq(file, b + 1, p)
      BY <1>0, <2>3, <2>5, <3>1
    <3> QED
      BY <1>0, <2>3, <2>5, <3>2, TextOfText
  <2>7. given' = SubSeq(file, 1, b + e)
    <3>1. b + sum_size \in Nat /\ b + e \in Nat /\ b + sum_size <= b + e /\ b + e <= Len(file)
      BY <1>0, <2>3, <2>5
    <3>2. SubSeq(file, 1, b + sum_size) \o SubSeq(file, b + sum_size + 1, b + e)
            = SubSeq(file, 1, b + e)
      BY <1>0, <3>1, TextsJoin
    <3> QED
      BY <2>1, <2>5, <2>6, <3>2
  <2>8. GivenTo(start_pos - Len(stream) + sum_size)' /\ sum_size' < Len(stream')
    BY <2>1, <2>3, <2>4, <2>7 DEF GivenTo
  <2>9. \A c \in DOMAIN chunks' : chunks'[c] # <<>>
    <3>1. chunks' = Append(chunks, chunk) /\ chunk # <<>>
      BY <2>1, <2>2 DEF CutChunk
    <3> QED
      BY <1>0, <2>2, <3>1, NoneEmpty
  <2> QED
    BY <2>1, <2>2, <2>8, <2>9 DEF Placed, PieceFrom, LoadedTo
<1>7. CASE LastChunk
  <2>1. /\ phase = "rest" /\ phase' = "run"
        /\ UNCHANGED <<file, num_core, start_pos, stream, sum_size, chunk>>
    BY <1>7 DEF LastChunk
  <2>2. /\ PieceFrom(start_pos - Len(stream)) /\ LoadedTo(start_pos)
        /\ \A c \in DOMAIN chunks : chunks[c] # <<>>
        /\ sum_size < Len(stream) /\ GivenTo(start_pos - Len(stream) + sum_size)
    BY <2>1 DEF Placed
  <2>3. PICK rest : /\ rest = SubSeq(stream, sum_size + 1, Len(stream))
                    /\ chunks' = Append(chunks, rest) /\ given' = given \o rest
    <3>1. sum_size # Len(stream)
      BY <2>2, <1>0
    <3>2. substring(stream, sum_size, Len(stream)) = SubSeq(stream, sum_size + 1, Len(stream))
      <4>1. stream # <<>> /\ stream[1] # "space" /\ Len(stream) <= Len(stream)
        BY <1>0, <2>2 DEF PieceFrom
      <4> QED
        BY <1>0, <4>1, SubstringFacts
    <3> QED
      BY <1>7, <3>1, <3>2 DEF LastChunk
  <2>4. rest \in Seq(Char) /\ rest # <<>>
    <3>1. PICK q \in Nat : q = Len(stream) /\ sum_size < q /\ q <= Len(stream)
      BY <1>0, <2>2
    <3>2. /\ SubSeq(stream, sum_size + 1, q) \in Seq(Char)
          /\ SubSeq(stream, sum_size + 1, q) # <<>>
      BY <1>0, <3>1, TextNotEmpty
    <3> QED
      BY <2>3, <3>1, <3>2
  <2>5. PICK b \in Nat : b = start_pos - Len(stream) /\ start_pos = b + Len(stream)
    <3>1. start_pos - Len(stream) \in Nat
      BY <2>2 DEF PieceFrom
    <3>2. start_pos = (start_pos - Len(stream)) + Len(stream)
      BY <1>0
    <3> QED
      BY <3>1, <3>2
  <2>6. /\ start_pos <= Len(file) /\ b <= start_pos
        /\ stream = SubSeq(file, b + 1, start_pos)
        /\ given = SubSeq(file, 1, b + sum_size)
        /\ b + sum_size \in Nat /\ b + sum_size <= start_pos
    BY <1>0, <2>2, <2>5 DEF PieceFrom, GivenTo
  <2>7. rest = SubSeq(file, b + sum_size + 1, start_pos)
    <3>1. b + Len(stream) <= start_pos /\ sum_size <= Len(stream)
      BY <1>0, <2>2, <2>5
    <3>2. rest = SubSeq(SubSeq(file, b + 1, start_pos), sum_size + 1, Len(stream))
      BY <2>3, <2>6
    <3>3. rest = SubSeq(file, b + sum_size + 1, b + Len(stream))
      BY <1>0, <2>6, <3>1, <3>2, TextOfText
    <3> QED
      BY <2>5, <3>3
  <2>8. given' = SubSeq(file, 1, start_pos)
    <3>1. SubSeq(file, 1, b + sum_size) \o SubSeq(file, b + sum_size + 1, start_pos)
            = SubSeq(file, 1, start_pos)
      BY <1>0, <2>6, TextsJoin
    <3> QED
      BY <2>3, <2>6, <2>7, <3>1
  <2>9. \A c \in DOMAIN chunks' : chunks'[c] # <<>>
    <3>1. chunks' = Append(chunks, rest)
      BY <2>3
    <3> QED
      BY <1>0, <2>2, <2>4, <3>1, NoneEmpty
  <2> QED
    BY <2>1, <2>2, <2>8, <2>9 DEF Placed, PieceFrom, LoadedTo, GivenTo
<1>8. CASE Overrun
  BY <1>8 DEF Overrun, Placed
<1>9. CASE RunChunks
  BY <1>9 DEF RunChunks, Placed, LoadedTo, GivenTo, partVars
<1>10. CASE UNCHANGED vars
  BY <1>10 DEF vars, partVars, Placed, LoadedTo, GivenTo, PieceFrom, CutChunk
<1> QED
  BY <1>1, <1>2, <1>3, <1>4, <1>5, <1>6, <1>7, <1>8, <1>9, <1>10 DEF Next

(* No piece is loaded yet. *)
LEMMA PartBegin == Init => PartInv
<1> SUFFICES ASSUME Init PROVE PartInv
  OBVIOUS
<1>1. /\ file \in Seq(Char) /\ num_core \in Nat \ {0}
      /\ start_pos = 0 /\ stream = <<>> /\ sum_size = 0 /\ chunk = <<>> /\ chunks = <<>>
      /\ given = <<>> /\ phase = "load"
  BY TextsAssumption, CoresAssumption DEF Init
<1>2. Bounded
  BY <1>1 DEF Bounded
<1>3. SubSeq(file, 1, 0) = <<>>
  BY <1>1, SubSeqEmpty
<1>4. StartsWithText => LoadedTo(0)
  BY <1>1 DEF StartsWithText, LoadedTo
<1> QED
  BY <1>1, <1>2, <1>3, <1>4 DEF PartInv, Placed, GivenTo

(* Every step of loading and cutting keeps the invariant, and the file. *)
LEMMA PartStays ==
  PartInv /\ [Next]_vars => /\ PartInv' /\ (StartsWithText' <=> StartsWithText)
                           /\ file' = file /\ num_core' = num_core
<1>1. [Next]_vars => file' = file /\ num_core' = num_core
  BY DEF Next, vars, Load, Extend, BeginPartition, BeginChunk, ExtendChunk, EndChunk,
         LastChunk, Overrun, RunChunks
<1>2. [Next]_vars => (StartsWithText' <=> StartsWithText)
  BY <1>1 DEF StartsWithText
<1> QED
  BY <1>1, <1>2, StaysBounded, StaysPlaced DEF PartInv

(* The invariant the theorems rest on. *)
LEMMA PartInvariant == Spec => []PartInv
BY PartBegin, PartStays, PTL DEF Spec

-----------------------------------------------------------------------------
(***************************************************************************)
(* The chunks one behind the other.                                        *)
(***************************************************************************)
(* The texts one behind the other, up to each of them. *)
IsFlattening(h, c) ==
  h = [i \in 1 .. Len(c) |-> IF i = 1 THEN c[i] ELSE h[i-1] \o c[i]]

(* Every sequence of texts has such a function. *)
LEMMA FlatteningExists ==
  ASSUME NEW c \in Seq(Seq(Char))
  PROVE  \E h : IsFlattening(h, c) /\ h \in [1 .. Len(c) -> Seq(Char)]
<1> DEFINE V == Seq(Char)
           n == Len(c)
           g == [i \in 1 .. n |-> [x \in V |-> x \o c[i]]]
<1>1. n \in Nat /\ <<>> \in V
  OBVIOUS
<1>2. g \in [1 .. n -> [V -> V]]
  <2>1. ASSUME NEW i \in 1 .. n, NEW x \in V PROVE x \o c[i] \in V
    <3>1. c[i] \in Seq(Char)
      BY ElementOfSeq
    <3> QED
      BY <3>1
  <2> QED
    BY <2>1
<1>3. PICK f : IsRecursion(f, n, V, <<>>, g)
  <2> HIDE DEF V, n, g
  <2> QED
    BY <1>1, <1>2, RecursionExists
<1>4. f \in [0 .. n -> V] /\ f[0] = <<>>
  BY <1>3 DEF IsRecursion
<1>5. ASSUME NEW i \in 1 .. n PROVE f[i] = f[i-1] \o c[i] /\ f[i-1] \in V
  <2>1. i - 1 \in 0 .. n
    BY <1>1
  <2>2. f[i-1] \in V
    BY <1>4, <2>1
  <2>3. f[i] = g[i][f[i-1]]
    <3> HIDE DEF g
    <3> QED
      BY <1>3 DEF IsRecursion
  <2>4. g[i][f[i-1]] = f[i-1] \o c[i]
    <3> HIDE DEF V
    <3> QED
      BY <2>2
  <2> QED
    BY <2>2, <2>3, <2>4
<1> DEFINE h == [i \in 1 .. n |-> f[i]]
<1>6. h \in [1 .. n -> V]
  BY <1>4
<1>7. ASSUME NEW i \in 1 .. n PROVE h[i] = IF i = 1 THEN c[i] ELSE h[i-1] \o c[i]
  <2>1. c[i] \in Seq(Char)
    BY ElementOfSeq
  <2>2. CASE i = 1
    <3>1. f[i-1] = <<>>
      BY <1>4, <2>2
    <3>2. f[i] = <<>> \o c[i]
      BY <1>5, <3>1
    <3>3. \A t \in Seq(Char) : <<>> \o t = t
      OBVIOUS
    <3> QED
      BY <2>1, <2>2, <3>2, <3>3
  <2>3. CASE i # 1
    <3>1. i - 1 \in 1 .. n
      BY <2>3
    <3> QED
      BY <1>5, <2>3, <3>1
  <2> QED
    BY <2>2, <2>3
<1>8. h = [i \in 1 .. n |-> IF i = 1 THEN c[i] ELSE h[i-1] \o c[i]]
  <2> HIDE DEF h
  <2> QED
    BY <1>6, <1>7
<1> QED
  <2> HIDE DEF h
  <2> QED
    BY <1>6, <1>8 DEF IsFlattening

(* And only one. *)
LEMMA FlatteningsAgree ==
  ASSUME NEW c \in Seq(Seq(Char)), NEW d \in Seq(Seq(Char)),
         NEW m \in Nat, m <= Len(c), m <= Len(d), \A i \in 1 .. m : c[i] = d[i],
         NEW h, IsFlattening(h, c), NEW k, IsFlattening(k, d)
  PROVE  \A i \in 1 .. m : h[i] = k[i] /\ h[i] \in Seq(Char)
<1> DEFINE Same(i) == i > 0 => h[i] = k[i] /\ h[i] \in Seq(Char)
           P == {i \in 0 .. m : Same(i)}
<1>1. 0 \in P
  OBVIOUS
<1>2. ASSUME NEW i \in Nat, i < m, i \in P PROVE i + 1 \in P
  <2>1. PICK j \in 1 .. m : j = i + 1
    BY <1>2
  <2>2. /\ h[j] = (IF j = 1 THEN c[j] ELSE h[j-1] \o c[j])
        /\ k[j] = (IF j = 1 THEN d[j] ELSE k[j-1] \o d[j])
    <3>1. j \in 1 .. Len(c) /\ j \in 1 .. Len(d)
      BY <2>1
    <3> QED
      BY <3>1 DEF IsFlattening
  <2>3. c[j] = d[j] /\ c[j] \in Seq(Char)
    BY <2>1, ElementOfSeq
  <2>4. CASE j = 1
    BY <2>1, <2>2, <2>3, <2>4
  <2>5. CASE j # 1
    <3>1. j - 1 = i /\ i > 0
      BY <2>1, <2>5
    <3>2. h[i] = k[i] /\ h[i] \in Seq(Char)
      BY <1>2, <3>1
    <3>3. h[j] = h[i] \o c[j] /\ k[j] = k[i] \o c[j]
      BY <2>2, <2>3, <2>5, <3>1
    <3>4. h[i] \o c[j] \in Seq(Char)
      BY <2>3, <3>2
    <3>5. h[j] = k[j] /\ h[j] \in Seq(Char)
      BY <3>2, <3>3, <3>4
    <3>6. Same(j) /\ j \in 0 .. m
      BY <3>5
    <3> QED
      BY <2>1, <3>6
  <2> QED
    BY <2>4, <2>5
<1>3. 0 .. m \subseteq P
  <2> HIDE DEF P
  <2> QED
    BY <1>1, <1>2, BoundedInduction
<1> QED
  BY <1>3

(* Its last value is FlattenSeq. *)
LEMMA FlattenIs ==
  ASSUME NEW c \in Seq(Seq(Char)), c # <<>>
  PROVE  \E h : /\ IsFlattening(h, c) /\ FlattenSeq(c) = h[Len(c)]
                /\ \A i \in 1 .. Len(c) : h[i] \in Seq(Char)
<1> DEFINE H == CHOOSE h : IsFlattening(h, c)
<1>1. IsFlattening(H, c)
  BY FlatteningExists
<1>2. Len(c) # 0
  BY EmptySeq
<1>3. FlattenSeq(c) = H[Len(c)]
  BY <1>2, Zenon DEF FlattenSeq, IsFlattening
<1> HIDE DEF H
<1>4. \A i \in 1 .. Len(c) : H[i] \in Seq(Char)
  BY <1>1, FlatteningsAgree
<1> QED
  BY <1>1, <1>3, <1>4

(* One text more. *)
LEMMA FlattenAppend ==
  ASSUME NEW c \in Seq(Seq(Char)), NEW t \in Seq(Char)
  PROVE  /\ FlattenSeq(Append(c, t)) = FlattenSeq(c) \o t
         /\ FlattenSeq(c) \in Seq(Char)
<1> DEFINE d == Append(c, t)
<1>1. /\ d \in Seq(Seq(Char)) /\ d # <<>> /\ Len(d) = Len(c) + 1 /\ d[Len(c) + 1] = t
      /\ \A i \in 1 .. Len(c) : d[i] = c[i]
  BY AppendProperties
<1> HIDE DEF d
<1>2. PICK k : IsFlattening(k, d) /\ FlattenSeq(d) = k[Len(d)]
  BY <1>1, FlattenIs
<1>3. CASE c = <<>>
  <2>1. Len(c) = 0 /\ Len(d) = 1 /\ d[1] = t /\ 1 \in 1 .. Len(d)
    BY <1>1, <1>3
  <2>2. FlattenSeq(c) = <<>>
    BY <1>3, <2>1 DEF FlattenSeq
  <2>3. k[1] = d[1]
    BY <1>2, <2>1 DEF IsFlattening
  <2>4. <<>> \o t = t /\ <<>> \in Seq(Char)
    OBVIOUS
  <2> QED
    BY <1>2, <2>1, <2>2, <2>3, <2>4 DEF d
<1>4. CASE c # <<>>
  <2>1. PICK n \in Nat \ {0} : n = Len(c)
    BY <1>4, EmptySeq
  <2>2. PICK h : /\ IsFlattening(h, c) /\ FlattenSeq(c) = h[n]
                 /\ \A i \in 1 .. n : h[i] \in Seq(Char)
    BY <1>4, <2>1, FlattenIs
  <2>3. h[n] = k[n]
    <3>1. n <= Len(c) /\ n <= Len(d) /\ \A i \in 1 .. n : c[i] = d[i]
      BY <1>1, <2>1
    <3>2. IsFlattening(h, c) /\ IsFlattening(k, d) /\ d \in Seq(Seq(Char))
      BY <1>1, <1>2, <2>2
    <3>3. \A i \in 1 .. n : h[i] = k[i] /\ h[i] \in Seq(Char)
      BY <3>1, <3>2, FlatteningsAgree
    <3> QED
      BY <3>3
  <2>4. PICK m \in Nat : m = n + 1 /\ m # 1 /\ m - 1 = n
    BY <2>1
  <2>5. k[m] = k[n] \o d[m]
    <3>1. m \in 1 .. Len(d)
      BY <1>1, <2>1, <2>4
    <3> QED
      BY <1>2, <2>4, <3>1 DEF IsFlattening
  <2>6. FlattenSeq(d) = FlattenSeq(c) \o t
    BY <1>1, <1>2, <2>1, <2>2, <2>3, <2>4, <2>5
  <2> QED
    BY <2>1, <2>2, <2>6 DEF d
<1> QED
  BY <1>3, <1>4

-----------------------------------------------------------------------------
(***************************************************************************)
(* Where a text is cut, by whatever loop: behind a chunk of size characters *)
(* at least the next boundary is searched for, as long as more than size   *)
(* characters remain and more than one chunk is still to come.             *)
(***************************************************************************)
(* No chunk of a text that begins behind b may end from b + size on, up to e. *)
NoCut(text, size, b, e) ==
  \A p \in b + size .. e - 1 : ~Boundary(SubSeq(text, b + 1, p), text[p + 1])

(* The search for the end of such a chunk stops at e. *)
IsCut(text, size, b, e) ==
  /\ b + size <= e /\ e < Len(text)
  /\ Boundary(SubSeq(text, b + 1, e), text[e + 1])
  /\ NoCut(text, size, b, e)

(* Behind n chunks, which end at place at, one more is searched for. *)
Searches(text, cores, size, n, at) ==
  IF n = 0 THEN cores # 1 ELSE at + size < Len(text) /\ n # cores - 1

(* The chunks c are those searches give, and P are the places they end at. *)
IsCutting(text, cores, size, c, P) ==
  /\ P \in [0 .. Len(c) -> 0 .. Len(text)] /\ P[0] = 0
  /\ \A i \in 1 .. Len(c) :
       /\ Searches(text, cores, size, i - 1, P[i-1])
       /\ IsCut(text, size, P[i-1], P[i])
       /\ c[i] = SubSeq(text, P[i-1] + 1, P[i])

CutTo(text, cores, size, c, at) ==
  \E P : IsCutting(text, cores, size, c, P) /\ P[Len(c)] = at

(* All chunks: behind the last search comes the rest. *)
CutWhole(text, cores, size, c) ==
  \E b \in Seq(Seq(Char)), at \in 0 .. Len(text) :
    /\ CutTo(text, cores, size, b, at)
    /\ ~Searches(text, cores, size, Len(b), at)
    /\ c = Append(b, SubSeq(text, at + 1, Len(text)))

(* All chunks where the last search finds the end of the text. *)
CutAtEnd(text, cores, size, c) ==
  \E b \in Seq(Seq(Char)), at \in 0 .. Len(text) :
    /\ CutTo(text, cores, size, b, at)
    /\ Searches(text, cores, size, Len(b), at)
    /\ NoCut(text, size, at, Len(text))
    /\ c = Append(b, SubSeq(text, at + 1, Len(text)))

(* Without a chunk nothing is cut. *)
LEMMA CutOfNone ==
  ASSUME NEW text \in Seq(Char), NEW cores, NEW size
  PROVE  CutTo(text, cores, size, <<>>, 0)
<1> DEFINE P == [i \in 0 .. 0 |-> 0]
<1>1. IsCutting(text, cores, size, <<>>, P) /\ P[Len(<<>>)] = 0
  BY DEF IsCutting
<1> QED
  BY <1>1 DEF CutTo

(* One more search gives one more chunk. *)
LEMMA CutOfMore ==
  ASSUME NEW text \in Seq(Char), NEW cores, NEW size, NEW c \in Seq(Seq(Char)),
         NEW b \in 0 .. Len(text), NEW e \in 0 .. Len(text),
         CutTo(text, cores, size, c, b), Searches(text, cores, size, Len(c), b),
         IsCut(text, size, b, e)
  PROVE  CutTo(text, cores, size, Append(c, SubSeq(text, b + 1, e)), e)
<1> DEFINE t == SubSeq(text, b + 1, e)
<1>1. PICK P : IsCutting(text, cores, size, c, P) /\ P[Len(c)] = b
  BY DEF CutTo
<1>2. PICK n \in Nat : n = Len(c)
  OBVIOUS
<1>3. PICK m \in Nat : m = n + 1
  OBVIOUS
<1> DEFINE Q == [i \in 0 .. m |-> IF i = m THEN e ELSE P[i]]
           d == Append(c, t)
<1>4. Len(d) = m /\ d[m] = t /\ \A i \in 1 .. n : d[i] = c[i]
  BY <1>2, <1>3
<1>5. P \in [0 .. n -> 0 .. Len(text)] /\ P[0] = 0 /\ P[n] = b
  BY <1>1, <1>2 DEF IsCutting
<1>6. Q \in [0 .. m -> 0 .. Len(text)] /\ Q[0] = 0 /\ Q[m] = e
  BY <1>3, <1>5
<1> HIDE DEF d, t
<1>7. ASSUME NEW i \in 1 .. m
      PROVE  /\ Searches(text, cores, size, i - 1, Q[i-1])
             /\ IsCut(text, size, Q[i-1], Q[i])
             /\ d[i] = SubSeq(text, Q[i-1] + 1, Q[i])
  <2>1. CASE i = m
    <3>1. Q[i-1] = b /\ Q[i] = e /\ i - 1 = n
      BY <1>3, <1>5, <2>1
    <3> HIDE DEF Q
    <3> QED
      BY <1>2, <1>4, <2>1, <3>1 DEF t
  <2>2. CASE i # m
    <3>1. i \in 1 .. n /\ Q[i-1] = P[i-1] /\ Q[i] = P[i]
      BY <1>3, <2>2
    <3> HIDE DEF Q
    <3> QED
      BY <1>1, <1>2, <1>4, <3>1 DEF IsCutting
  <2> QED
    BY <2>1, <2>2
<1>8. IsCutting(text, cores, size, d, Q) /\ Q[Len(d)] = e
  <2> HIDE DEF Q
  <2> QED
    BY <1>4, <1>6, <1>7 DEF IsCutting
<1> QED
  BY <1>8 DEF CutTo, d, t

(* No search goes on behind where one has stopped. *)
LEMMA CutUnique ==
  ASSUME NEW text, NEW size \in Nat, NEW b \in Nat, NEW e \in Nat, NEW f \in Nat,
         IsCut(text, size, b, e), b + size <= f, NoCut(text, size, b, f)
  PROVE  f <= e
<1> SUFFICES ASSUME e < f PROVE FALSE
  OBVIOUS
<1>1. e \in b + size .. f - 1
  BY DEF IsCut
<1> QED
  BY <1>1 DEF IsCut, NoCut

SameAt(n, c, d, P, Q) == P[n] = Q[n] /\ (n > 0 => c[n] = d[n])

(* As far as two ways of cutting a text go on they are the same. *)
LEMMA CuttingsAgree ==
  ASSUME NEW text \in Seq(Char), NEW cores, NEW size \in Nat,
         NEW c \in Seq(Seq(Char)), NEW P, IsCutting(text, cores, size, c, P),
         NEW d \in Seq(Seq(Char)), NEW Q, IsCutting(text, cores, size, d, Q),
         NEW n \in Nat, n <= Len(c), n <= Len(d)
  PROVE  SameAt(n, c, d, P, Q)
<1> DEFINE T == {k \in 0 .. n : SameAt(k, c, d, P, Q)}
<1>1. 0 \in T
  BY DEF IsCutting, SameAt
<1>2. ASSUME NEW i \in Nat, i < n, i \in T PROVE i + 1 \in T
  <2>1. PICK j \in 1 .. n : j = i + 1 /\ j - 1 = i
    BY <1>2
  <2>2. j \in 1 .. Len(c) /\ j \in 1 .. Len(d)
    BY <2>1
  <2>3. /\ IsCut(text, size, P[i], P[j]) /\ IsCut(text, size, Q[i], Q[j])
        /\ c[j] = SubSeq(text, P[i] + 1, P[j]) /\ d[j] = SubSeq(text, Q[i] + 1, Q[j])
    BY <2>1, <2>2 DEF IsCutting
  <2>4. P[i] \in Nat /\ P[j] \in Nat /\ Q[j] \in Nat
    <3>1. /\ P \in [0 .. Len(c) -> 0 .. Len(text)]
          /\ Q \in [0 .. Len(d) -> 0 .. Len(text)]
      BY DEF IsCutting
    <3>2. i \in 0 .. Len(c) /\ j \in 0 .. Len(c) /\ j \in 0 .. Len(d)
      BY <2>1
    <3>3. 0 .. Len(text) \subseteq Nat
      OBVIOUS
    <3> QED
      BY <3>1, <3>2, <3>3
  <2>5. P[i] = Q[i]
    BY <1>2 DEF SameAt
  <2>6. P[j] <= Q[j] /\ Q[j] <= P[j]
    <3>1. PICK a \in Nat, p \in Nat, q \in Nat : a = P[i] /\ p = P[j] /\ q = Q[j]
      BY <2>4
    <3>2. IsCut(text, size, a, p) /\ IsCut(text, size, a, q)
      BY <2>3, <2>5, <3>1
    <3>3. /\ a + size <= p /\ NoCut(text, size, a, p)
          /\ a + size <= q /\ NoCut(text, size, a, q)
      BY <3>2 DEF IsCut
    <3>4. p <= q
      BY <3>2, <3>3, CutUnique
    <3>5. q <= p
      BY <3>2, <3>3, CutUnique
    <3> QED
      BY <3>1, <3>4, <3>5
  <2>7. P[j] = Q[j]
    BY <2>4, <2>6
  <2>8. j \in T
    <3>1. c[j] = d[j]
      BY <2>3, <2>5, <2>7
    <3> QED
      BY <2>7, <3>1 DEF SameAt
  <2> QED
    BY <2>1, <2>8
<1>3. 0 .. n \subseteq T
  <2> HIDE DEF T
  <2> QED
    BY <1>1, <1>2, BoundedInduction
<1> QED
  BY <1>3

(* Two cuttings of as many chunks are the same. *)
LEMMA SameCuttings ==
  ASSUME NEW text \in Seq(Char), NEW cores, NEW size \in Nat,
         NEW c \in Seq(Seq(Char)), NEW P, IsCutting(text, cores, size, c, P),
         NEW d \in Seq(Seq(Char)), NEW Q, IsCutting(text, cores, size, d, Q),
         Len(c) = Len(d)
  PROVE  c = d
<1>1. ASSUME NEW i \in 1 .. Len(c) PROVE c[i] = d[i]
  <2>1. i \in Nat /\ i > 0 /\ i <= Len(c) /\ i <= Len(d)
    OBVIOUS
  <2>2. SameAt(i, c, d, P, Q)
    BY <2>1, CuttingsAgree
  <2> QED
    BY <2>1, <2>2 DEF SameAt
<1> QED
  BY <1>1, SeqEqual

(* A cutting that still searches is not as long as one that is complete. *)
LEMMA CompleteIsLonger ==
  ASSUME NEW text \in Seq(Char), NEW cores, NEW size \in Nat,
         NEW c \in Seq(Seq(Char)), NEW P, IsCutting(text, cores, size, c, P),
         ~Searches(text, cores, size, Len(c), P[Len(c)]),
         NEW d \in Seq(Seq(Char)), NEW Q, IsCutting(text, cores, size, d, Q)
  PROVE  Len(d) <= Len(c) /\ P[Len(d)] = Q[Len(d)]
<1>1. PICK n \in Nat, m \in Nat : n = Len(c) /\ m = Len(d)
  OBVIOUS
<1>2. ASSUME n < m PROVE FALSE
  <2>1. P[n] = Q[n]
    BY <1>1, <1>2, CuttingsAgree DEF SameAt
  <2>2. PICK j \in 1 .. m : j = n + 1 /\ j - 1 = n
    BY <1>2
  <2>3. Searches(text, cores, size, n, Q[n])
    BY <1>1, <2>2 DEF IsCutting
  <2> QED
    BY <1>1, <2>1, <2>3
<1>3. m <= n
  BY <1>2
<1>4. P[m] = Q[m]
  <2>1. m <= Len(c) /\ m <= Len(d)
    BY <1>1, <1>3
  <2> QED
    BY <2>1, CuttingsAgree DEF SameAt
<1> QED
  BY <1>1, <1>3, <1>4

(* There is one way to cut a text. *)
LEMMA OneCutting ==
  ASSUME NEW text \in Seq(Char), NEW cores, NEW size \in Nat, NEW c, NEW d,
         CutWhole(text, cores, size, c), CutWhole(text, cores, size, d)
  PROVE  c = d
<1>1. PICK a, p, P :
        /\ a \in Seq(Seq(Char)) /\ p \in 0 .. Len(text)
        /\ IsCutting(text, cores, size, a, P) /\ P[Len(a)] = p
        /\ ~Searches(text, cores, size, Len(a), p)
        /\ c = Append(a, SubSeq(text, p + 1, Len(text)))
  BY DEF CutWhole, CutTo
<1>2. PICK b, q, Q :
        /\ b \in Seq(Seq(Char)) /\ q \in 0 .. Len(text)
        /\ IsCutting(text, cores, size, b, Q) /\ Q[Len(b)] = q
        /\ ~Searches(text, cores, size, Len(b), q)
        /\ d = Append(b, SubSeq(text, q + 1, Len(text)))
  BY DEF CutWhole, CutTo
<1>3. Len(b) <= Len(a) /\ P[Len(b)] = Q[Len(b)]
  BY <1>1, <1>2, CompleteIsLonger
<1>4. Len(a) <= Len(b)
  BY <1>1, <1>2, CompleteIsLonger
<1>5. PICK n \in Nat : n = Len(a) /\ n = Len(b)
  BY <1>3, <1>4
<1>6. p = q
  BY <1>1, <1>2, <1>3, <1>5
<1>7. a = b
  <2>1. IsCutting(text, cores, size, a, P) /\ IsCutting(text, cores, size, b, Q)
    BY <1>1, <1>2
  <2>2. a \in Seq(Seq(Char)) /\ b \in Seq(Seq(Char)) /\ Len(a) = Len(b)
    BY <1>1, <1>2, <1>5
  <2> QED
    BY <2>1, <2>2, SameCuttings
<1> QED
  BY <1>1, <1>2, <1>6, <1>7

(* Where the last search finds the end of the text, cutting it whole is not
   possible. *)
LEMMA NoBoundaryLeft ==
  ASSUME NEW text \in Seq(Char), NEW cores, NEW size \in Nat, NEW c, NEW d,
         CutWhole(text, cores, size, c), CutAtEnd(text, cores, size, d)
  PROVE  FALSE
<1>1. PICK a, p, P :
        /\ a \in Seq(Seq(Char)) /\ p \in 0 .. Len(text)
        /\ IsCutting(text, cores, size, a, P) /\ P[Len(a)] = p
        /\ ~Searches(text, cores, size, Len(a), p)
  BY DEF CutWhole, CutTo
<1>2. PICK b, q, Q :
        /\ b \in Seq(Seq(Char)) /\ q \in 0 .. Len(text)
        /\ IsCutting(text, cores, size, b, Q) /\ Q[Len(b)] = q
        /\ Searches(text, cores, size, Len(b), q)
        /\ NoCut(text, size, q, Len(text))
  BY DEF CutAtEnd, CutTo
<1>3. Len(b) <= Len(a) /\ P[Len(b)] = Q[Len(b)]
  BY <1>1, <1>2, CompleteIsLonger
<1>4. PICK n \in Nat, m \in Nat : n = Len(a) /\ m = Len(b)
  BY <1>1, <1>2
<1>5. m # n
  BY <1>1, <1>2, <1>3, <1>4
<1>6. PICK j \in 1 .. n : j = m + 1 /\ j - 1 = m
  BY <1>3, <1>4, <1>5
<1>7. IsCut(text, size, q, P[j]) /\ P[j] \in 0 .. Len(text)
  BY <1>1, <1>2, <1>3, <1>4, <1>6 DEF IsCutting
<1>8. PICK e \in Nat, l \in Nat : e = P[j] /\ l = Len(text) /\ q \in Nat /\ e < l
  <2>1. q \in Nat
    BY <1>2
  <2> QED
    BY <1>7, <2>1 DEF IsCut
<1>9. l <= e
  <2>1. q + size <= l
    BY <1>7, <1>8 DEF IsCut
  <2> QED
    BY <1>2, <1>7, <1>8, <2>1, CutUnique
<1> QED
  BY <1>8, <1>9

-----------------------------------------------------------------------------
(***************************************************************************)
(* The chunks in memory are those of such a cutting (partitionInputStream). *)
(***************************************************************************)
SearchesPiece(n, at) == Searches(stream, num_core, chunk_size, n, at)

(* The chunks of a piece are what the searches in it give. *)
Sought ==
  /\ phase \in {"cut", "scan", "rest"} =>
       /\ CutTo(stream, num_core, chunk_size, chunks, sum_size)
       /\ phase # "rest" <=> SearchesPiece(Len(chunks), sum_size)
  /\ phase = "scan" =>
       /\ chunk_size <= Len(chunk)
       /\ NoCut(stream, chunk_size, sum_size, sum_size + Len(chunk))
  /\ phase = "run" => CutWhole(stream, num_core, chunk_size, chunks)
  /\ phase \in {"load", "end"} =>
       \/ stream = <<>>
       \/ /\ CutWhole(stream, num_core, chunk_size, chunks)
          /\ PieceFrom(start_pos - Len(stream))

(* One place more without a boundary. *)
LEMMA NoCutOfMore ==
  ASSUME NEW text, NEW size \in Nat, NEW b \in Nat, NEW e \in Nat,
         NoCut(text, size, b, e), ~Boundary(SubSeq(text, b + 1, e), text[e + 1])
  PROVE  NoCut(text, size, b, e + 1)
<1> SUFFICES ASSUME NEW p \in b + size .. e
             PROVE  ~Boundary(SubSeq(text, b + 1, p), text[p + 1])
  BY DEF NoCut
<1>1. CASE p = e
  BY <1>1
<1>2. CASE p # e
  <2>1. p \in b + size .. e - 1
    BY <1>2
  <2> QED
    BY <2>1 DEF NoCut
<1> QED
  BY <1>1, <1>2

(* In front of the first place a chunk may end at there is no boundary. *)
LEMMA NoCutOfNone ==
  ASSUME NEW text, NEW size \in Nat, NEW b \in Nat, NEW e \in Nat, e <= b + size
  PROVE  NoCut(text, size, b, e)
BY DEF NoCut

(* Every step of loading and cutting a piece keeps its chunks those of the
   cutting. *)
LEMMA StaysSought ==
  Bounded /\ StartsWithText /\ Placed /\ Sought /\ [Next]_vars => Sought'
<1> SUFFICES ASSUME Bounded, StartsWithText, Placed, Sought, [Next]_vars PROVE Sought'
  OBVIOUS
<1>0. /\ file \in Seq(Char) /\ num_core \in Nat \ {0} /\ start_pos \in Nat
      /\ stream \in Seq(Char) /\ sum_size \in Nat /\ chunk \in Seq(Char)
      /\ chunks \in Seq(Seq(Char))
      /\ chunk_size \in Nat \ {0}
      /\ Len(stream) \in Nat /\ Len(chunk) \in Nat /\ Len(chunks) \in Nat
  BY ChunkSize DEF Bounded
<1>1. CASE Load
  <2>1. phase = "load" /\ phase' \in {"end", "extend"}
        /\ (phase' = "end" => stream' = stream)
        /\ UNCHANGED <<file, num_core, start_pos, sum_size, chunk, chunks>>
    BY <1>1 DEF Load, partVars
  <2>2. phase' = "end" => chunk_size' = chunk_size
    BY <2>1 DEF chunk_size
  <2> QED
    BY <2>1, <2>2 DEF Sought, PieceFrom
<1>2. CASE Extend
  BY <1>2 DEF Extend, Sought
<1>3. CASE BeginPartition
  <2>1. /\ phase' = (IF num_core = 1 THEN "rest" ELSE "cut")
        /\ sum_size' = 0 /\ chunks' = <<>> /\ stream' = stream /\ num_core' = num_core
        /\ chunk_size' = chunk_size
    BY <1>3 DEF BeginPartition, chunk_size
  <2>2. CutTo(stream, num_core, chunk_size, <<>>, 0)
    BY <1>0, CutOfNone
  <2>3. SearchesPiece(0, 0) <=> num_core # 1
    BY DEF SearchesPiece, Searches
  <2>4. SearchesPiece(Len(chunks), sum_size)' <=> SearchesPiece(0, 0)
    BY <2>1 DEF SearchesPiece
  <2> QED
    BY <2>1, <2>2, <2>3, <2>4 DEF Sought
<1>4. CASE BeginChunk
  <2>1. /\ phase = "cut"
        /\ UNCHANGED <<file, num_core, start_pos, stream, sum_size, chunks, given>>
        /\ chunk_size' = chunk_size
    BY <1>4 DEF BeginChunk, chunk_size
  <2>2. CASE ~Readable(stream, sum_size + chunk_size)
    BY <1>4, <2>2 DEF BeginChunk, Sought
  <2>3. CASE Readable(stream, sum_size + chunk_size)
    <3>1. PICK e \in Nat : e = sum_size + chunk_size /\ sum_size < e
      BY <1>0
    <3>2. stream # <<>> /\ stream[1] # "space"
      BY <2>1 DEF Placed, PieceFrom
    <3>3. e <= Len(stream)
      BY <1>0, <2>3, <3>1, <3>2, TrimFacts DEF Readable
    <3>4. phase' = "scan" /\ chunk' = SubSeq(stream, sum_size + 1, e)
      <4>1. phase' = "scan" /\ chunk' = substring(stream, sum_size, e)
        BY <1>4, <2>3, <3>1 DEF BeginChunk
      <4>2. substring(stream, sum_size, e) = SubSeq(stream, sum_size + 1, e)
        BY <1>0, <3>1, <3>2, <3>3, SubstringFacts
      <4> QED
        BY <4>1, <4>2
    <3>5. Len(chunk') = chunk_size
      <4>1. Len(SubSeq(stream, sum_size + 1, e)) = e - sum_size
        BY <1>0, <3>1, <3>3, TextNotEmpty
      <4> QED
        BY <1>0, <3>1, <3>4, <4>1
    <3>6. NoCut(stream, chunk_size, sum_size, e)
      BY <1>0, <3>1, NoCutOfNone
    <3>7. /\ chunk_size' <= Len(chunk')
          /\ NoCut(stream, chunk_size, sum_size, sum_size + Len(chunk))'
      BY <1>0, <2>1, <3>1, <3>5, <3>6
    <3>8. /\ CutTo(stream, num_core, chunk_size, chunks, sum_size)'
          /\ SearchesPiece(Len(chunks), sum_size)'
      BY <2>1 DEF Sought, SearchesPiece
    <3> QED
      BY <3>4, <3>7, <3>8 DEF Sought
  <2> QED
    BY <2>2, <2>3
<1>5. CASE ExtendChunk
  <2>1. /\ phase = "scan" /\ phase' = phase
        /\ sum_size + Len(chunk) + 1 <= Len(stream)
        /\ ~Boundary(chunk, stream[sum_size + Len(chunk) + 1])
        /\ chunk' = Append(chunk, stream[sum_size + Len(chunk) + 1])
        /\ UNCHANGED <<file, num_core, start_pos, stream, sum_size, chunks, given>>
        /\ chunk_size' = chunk_size
    BY <1>5 DEF ExtendChunk, NextInPiece, chunk_size
  <2>2. PICK e \in Nat : e = sum_size + Len(chunk)
    BY <1>0
  <2>3. chunk = SubSeq(stream, sum_size + 1, e)
    BY <2>1, <2>2 DEF Placed, CutChunk
  <2>4. NoCut(stream, chunk_size, sum_size, e + 1)
    <3>1. NoCut(stream, chunk_size, sum_size, e)
      BY <2>1, <2>2 DEF Sought
    <3>2. ~Boundary(SubSeq(stream, sum_size + 1, e), stream[e + 1])
      BY <2>1, <2>2, <2>3
    <3> QED
      BY <1>0, <2>2, <3>1, <3>2, NoCutOfMore
  <2>5. Len(chunk') = Len(chunk) + 1
    BY <1>0, <2>1
  <2>6. sum_size' + Len(chunk') = e + 1
    BY <1>0, <2>1, <2>2, <2>5
  <2>7. NoCut(stream, chunk_size, sum_size, sum_size + Len(chunk))'
    BY <2>1, <2>4, <2>6
  <2>8. chunk_size' <= Len(chunk')
    BY <1>0, <2>1, <2>5 DEF Sought
  <2>9. /\ CutTo(stream, num_core, chunk_size, chunks, sum_size)'
        /\ SearchesPiece(Len(chunks), sum_size)'
    BY <2>1 DEF Sought, SearchesPiece
  <2> QED
    BY <2>1, <2>7, <2>8, <2>9 DEF Sought
<1>6. CASE EndChunk
  <2>1. /\ phase = "scan"
        /\ sum_size + Len(chunk) + 1 <= Len(stream)
        /\ Boundary(chunk, stream[sum_size + Len(chunk) + 1])
        /\ chunks' = Append(chunks, chunk)
        /\ sum_size' = sum_size + Len(chunk)
        /\ phase' = (IF Enough(sum_size', Len(chunks')) THEN "rest" ELSE "cut")
        /\ UNCHANGED <<file, num_core, start_pos, stream, chunk>>
        /\ chunk_size' = chunk_size
    BY <1>6 DEF EndChunk, NextInPiece, chunk_size
  <2>2. PICK e \in Nat : e = sum_size + Len(chunk) /\ e < Len(stream) /\ e = sum_size'
    BY <1>0, <2>1
  <2>3. chunk = SubSeq(stream, sum_size + 1, e)
    BY <2>1, <2>2 DEF Placed, CutChunk
  <2>4. IsCut(stream, chunk_size, sum_size, e)
    <3>1. NoCut(stream, chunk_size, sum_size, e) /\ chunk_size <= Len(chunk)
      BY <2>1, <2>2 DEF Sought
    <3>2. Boundary(SubSeq(stream, sum_size + 1, e), stream[e + 1])
      BY <2>1, <2>2, <2>3
    <3>3. sum_size + chunk_size <= e
      BY <1>0, <2>2, <3>1
    <3> QED
      BY <2>2, <3>1, <3>2, <3>3 DEF IsCut
  <2>5. CutTo(stream, num_core, chunk_size, chunks', e)
    <3>1. /\ CutTo(stream, num_core, chunk_size, chunks, sum_size)
          /\ Searches(stream, num_core, chunk_size, Len(chunks), sum_size)
      BY <2>1 DEF Sought, SearchesPiece
    <3>2. sum_size \in 0 .. Len(stream) /\ e \in 0 .. Len(stream)
      BY <1>0, <2>2
    <3> QED
      BY <1>0, <2>1, <2>3, <2>4, <3>1, <3>2, CutOfMore
  <2>6. PICK n \in Nat \ {0} : n = Len(chunks')
    BY <1>0, <2>1
  <2>7. SearchesPiece(n, e) <=> ~Enough(e, n)
    <3>1. e + chunk_size \in Nat
      BY <1>0
    <3> QED
      BY <1>0, <2>6, <3>1 DEF SearchesPiece, Searches, Enough
  <2>8. SearchesPiece(Len(chunks), sum_size)' <=> SearchesPiece(n, e)
    BY <2>1, <2>2, <2>6 DEF SearchesPiece
  <2>9. phase' \in {"rest", "cut"} /\ (phase' # "rest" <=> ~Enough(e, n))
    BY <2>1, <2>2, <2>6
  <2>10. CutTo(stream, num_core, chunk_size, chunks, sum_size)'
    BY <2>1, <2>2, <2>5
  <2> QED
    BY <2>7, <2>8, <2>9, <2>10 DEF Sought
<1>7. CASE LastChunk
  <2>1. /\ phase = "rest" /\ phase' = "run"
        /\ UNCHANGED <<file, num_core, start_pos, stream, sum_size, chunk>>
        /\ chunk_size' = chunk_size
    BY <1>7 DEF LastChunk, chunk_size
  <2>2. stream # <<>> /\ stream[1] # "space" /\ sum_size < Len(stream)
    BY <2>1 DEF Placed, PieceFrom
  <2>3. chunks' = Append(chunks, SubSeq(stream, sum_size + 1, Len(stream)))
    <3>1. substring(stream, sum_size, Len(stream)) = SubSeq(stream, sum_size + 1, Len(stream))
      <4>1. Len(stream) <= Len(stream)
        BY <1>0
      <4> QED
        BY <1>0, <2>2, <4>1, SubstringFacts
    <3>2. sum_size # Len(stream)
      BY <1>0, <2>2
    <3> QED
      BY <1>7, <3>1, <3>2 DEF LastChunk
  <2>4. /\ CutTo(stream, num_core, chunk_size, chunks, sum_size)
        /\ ~Searches(stream, num_core, chunk_size, Len(chunks), sum_size)
    BY <2>1 DEF Sought, SearchesPiece
  <2>5. sum_size \in 0 .. Len(stream)
    BY <1>0, <2>2
  <2>6. CutWhole(stream, num_core, chunk_size, chunks')
    BY <1>0, <2>3, <2>4, <2>5 DEF CutWhole
  <2> QED
    BY <2>1, <2>6 DEF Sought
<1>8. CASE Overrun
  BY <1>8 DEF Overrun, Sought
<1>9. CASE RunChunks
  <2>1. /\ phase = "run" /\ phase' = "load" /\ chunk_size' = chunk_size
        /\ UNCHANGED <<file, num_core, start_pos, stream, chunks>>
    BY <1>9 DEF RunChunks, partVars, chunk_size
  <2>2. CutWhole(stream, num_core, chunk_size, chunks) /\ PieceFrom(start_pos - Len(stream))
    BY <2>1 DEF Sought, Placed
  <2>3. CutWhole(stream, num_core, chunk_size, chunks)' /\ PieceFrom(start_pos - Len(stream))'
    BY <2>1, <2>2 DEF PieceFrom
  <2> QED
    BY <2>1, <2>3 DEF Sought
<1>10. CASE UNCHANGED vars
  <2>1. /\ UNCHANGED <<file, num_core, start_pos, stream, sum_size, chunk, chunks, phase>>
        /\ chunk_size' = chunk_size
    BY <1>10 DEF vars, partVars, chunk_size
  <2> QED
    BY <2>1 DEF Sought, SearchesPiece, PieceFrom
<1> QED
  BY <1>1, <1>2, <1>3, <1>4, <1>5, <1>6, <1>7, <1>8, <1>9, <1>10 DEF Next

-----------------------------------------------------------------------------
(***************************************************************************)
(* And so are the chunks cut while the file is read (partitionFile).       *)
(***************************************************************************)
(* Both ways know a boundary by the same operator. *)
LEMMA SameBoundary == \A s, c : FromFile!Boundary(s, c) <=> Boundary(s, c)
BY DEF FromFile!Boundary, Boundary, FromFile!LastBeforeBlanks, LastBeforeBlanks,
       FromFile!Blank, Blank, FromFile!Max, Max

(* And its FlattenSeq. *)
LEMMA SameText == \A s : FromFile!FlattenSeq(s) = FlattenSeq(s)
BY DEF FromFile!FlattenSeq, FlattenSeq

(* A chunk of two or more is shorter than the text, rounded up. *)
LEMMA SmallerSize ==
  ASSUME NEW L \in Nat \ {0}, NEW N \in Nat \ {0, 1}
  PROVE  (L \div N) + 1 <= L /\ L \div N \in Nat
OBVIOUS

(* The last slot is NULL only where nothing was stored in it. *)
LEMMA StoredFacts ==
  ASSUME NEW c \in Seq(Seq(Char)), NEW t \in Seq(Char)
  PROVE  /\ t # FromFile!NULL
         /\ FromFile!Last(Append(c, t)) = t
         /\ FromFile!Last(Append(c, FromFile!NULL)) = FromFile!NULL
         /\ FromFile!Front(Append(c, FromFile!NULL)) = c
<1>1. t # FromFile!NULL
  <2>1. SUFFICES ASSUME t = <<"NULL">> PROVE FALSE
    BY DEF FromFile!NULL
  <2>2. t[1] \in Char
    BY <2>1, ElementOfSeq
  <2> QED
    BY <2>1, <2>2 DEF Char
<1>2. FromFile!Last(Append(c, t)) = t
  BY DEF FromFile!Last
<1>3. FromFile!Last(Append(c, FromFile!NULL)) = FromFile!NULL
  BY DEF FromFile!Last
<1>4. FromFile!Front(Append(c, FromFile!NULL)) = c
  BY DEF FromFile!Front
<1> QED
  BY <1>1, <1>2, <1>3, <1>4

read_size == FromFile!chunk_size

SearchesFile(n, at) == Searches(file, num_core, read_size, n, at)

(* partitionFile: what was read behind the chunks so far is the quote in ch or
   the chunk being filled, and the chunks are what the searches give. *)
OnDisk ==
  /\ position \in 0 .. Len(file)
  /\ fileSize \in 0 .. Len(file)
  /\ fileChunk \in Seq(Char)
  /\ filePhase \in {"read", "scan", "rest", "end"}
  /\ filePhase # "end" =>
       /\ fileChunks \in Seq(Seq(Char))
       /\ FlattenSeq(fileChunks) = SubSeq(file, 1, fileSize)
       /\ Len(fileChunks) < num_core
  /\ filePhase \in {"read", "rest"} =>
       /\ FromFile!Carried = SubSeq(file, fileSize + 1, position)
       /\ fileSize <= position
  /\ filePhase \in {"read", "scan"} =>
       /\ CutTo(file, num_core, read_size, fileChunks, fileSize)
       /\ SearchesFile(Len(fileChunks), fileSize)
       /\ fileSize + read_size <= Len(file)
       /\ Len(fileChunks) # num_core - 1
  /\ filePhase = "read" => position <= fileSize + read_size
  /\ filePhase = "scan" =>
       /\ fileChunk = SubSeq(file, fileSize + 1, position)
       /\ fileSize + read_size <= position
       /\ NoCut(file, read_size, fileSize, position)
  /\ filePhase = "rest" =>
       \/ /\ CutTo(file, num_core, read_size, fileChunks, fileSize)
          /\ ~SearchesFile(Len(fileChunks), fileSize)
          /\ fileSize < Len(file)
       \/ /\ CutAtEnd(file, num_core, read_size, fileChunks)
          /\ fileSize = Len(file)
  /\ filePhase = "end" =>
       /\ FlattenSeq(FromFile!Stored) = file
       /\ Len(fileChunks) <= num_core
       /\ \/ CutWhole(file, num_core, read_size, FromFile!Stored)
          \/ CutAtEnd(file, num_core, read_size, FromFile!Stored)

(* The first chunk is no longer than the file (chunk_size). *)
LEMMA FileSizes ==
  ASSUME Bounded, file # <<>>
  PROVE  /\ Len(file) \in Nat \ {0} /\ read_size \in Nat \ {0}
         /\ num_core # 1 => read_size <= Len(file)
<1>1. Len(file) \in Nat \ {0} /\ num_core \in Nat \ {0}
  BY EmptySeq DEF Bounded
<1>2. Len(file) \div num_core \in Nat
  <2>1. \A a \in Nat, b \in Nat \ {0} : a \div b \in Nat
    OBVIOUS
  <2> QED
    BY <1>1, <2>1
<1>3. num_core # 1 => (Len(file) \div num_core) + 1 <= Len(file)
  BY <1>1, SmallerSize
<1> QED
  BY <1>1, <1>2, <1>3 DEF read_size, FromFile!chunk_size

(* Two texts of s that meet are one. *)
LEMMA TextsMeet ==
  ASSUME NEW s \in Seq(Char), NEW m \in Nat, NEW k \in Nat, NEW n \in Nat,
         m <= k, k <= n, n <= Len(s)
  PROVE  SubSeq(s, m + 1, k) \o SubSeq(s, k + 1, n) = SubSeq(s, m + 1, n)
<1>1. m + 1 \in 1 .. Len(s) + 1 /\ k \in (m + 1) - 1 .. Len(s) /\ n \in k .. Len(s)
  OBVIOUS
<1> QED
  BY <1>1, ConcatAdjacentSubSeq

(* And so are those that go on to its end. *)
LEMMA TextsMeetAtEnd ==
  ASSUME NEW s \in Seq(Char), NEW m \in Nat, NEW k \in Nat, m <= k, k <= Len(s)
  PROVE  SubSeq(s, m + 1, k) \o SubSeq(s, k + 1, Len(s)) = SubSeq(s, m + 1, Len(s))
<1>1. m + 1 \in 1 .. Len(s) + 1 /\ k \in (m + 1) - 1 .. Len(s) /\ Len(s) \in k .. Len(s)
  OBVIOUS
<1> QED
  BY <1>1, ConcatAdjacentSubSeq

(* A text of one character. *)
LEMMA OneChar ==
  ASSUME NEW t \in Seq(Char), Len(t) = 1
  PROVE  t = <<t[1]>>
<1>1. t[1] \in Char
  BY ElementOfSeq
<1>2. <<t[1]>> \in Seq(Char) /\ Len(<<t[1]>>) = 1 /\ <<t[1]>>[1] = t[1]
  BY <1>1
<1>3. \A i \in 1 .. Len(t) : t[i] = <<t[1]>>[i]
  BY <1>2
<1> QED
  BY <1>2, <1>3, SeqEqual

(* One chunk more fits where there is a place left. *)
LEMMA LongerByOne ==
  ASSUME NEW c \in Seq(Seq(Char)), NEW t, NEW n \in Nat, Len(c) < n
  PROVE  Len(Append(c, t)) <= n
<1>1. PICK m \in Nat : m = Len(c)
  OBVIOUS
<1>2. Len(Append(c, t)) = m + 1
  BY <1>1
<1> QED
  BY <1>1, <1>2

(* partitionFile has read nothing. *)
LEMMA DiskBegins ==
  ASSUME Bounded, FromFile!Begin, file # <<>>
  PROVE  OnDisk
<1>0. /\ file \in Seq(Char) /\ num_core \in Nat \ {0} /\ read_size \in Nat \ {0}
      /\ Len(file) \in Nat \ {0} /\ (num_core # 1 => read_size <= Len(file))
  BY FileSizes DEF Bounded
<1>1. /\ position = 0 /\ ch = FromFile!EOF /\ fileChunk = <<>> /\ fileSize = 0
      /\ fileChunks = <<>> /\ filePhase = (IF num_core = 1 THEN "rest" ELSE "read")
  BY DEF FromFile!Begin
<1>2. FlattenSeq(<<>>) = <<>> /\ SubSeq(file, 1, 0) = <<>> /\ Len(<<>>) = 0
  BY <1>0, SubSeqEmpty DEF FlattenSeq
<1>3. FromFile!Carried = SubSeq(file, fileSize + 1, position)
  BY <1>1, <1>2 DEF FromFile!Carried
<1>4. CutTo(file, num_core, read_size, <<>>, 0)
  BY <1>0, CutOfNone
<1>5. SearchesFile(0, 0) <=> num_core # 1
  BY DEF SearchesFile, Searches
<1>6. CASE num_core = 1
  <2>1. filePhase = "rest" /\ Len(fileChunks) = 0 /\ 0 < num_core
    BY <1>0, <1>1, <1>2, <1>6
  <2>2. fileChunks \in Seq(Seq(Char)) /\ fileChunk \in Seq(Char)
    BY <1>1
  <2>3. fileSize = 0 /\ position = 0 /\ 0 \in 0 .. Len(file) /\ 0 < Len(file)
    BY <1>0, <1>1
  <2>4. FlattenSeq(fileChunks) = SubSeq(file, 1, fileSize)
    BY <1>1, <1>2
  <2>5. /\ CutTo(file, num_core, read_size, fileChunks, fileSize)
        /\ ~SearchesFile(Len(fileChunks), fileSize)
    BY <1>1, <1>2, <1>4, <1>5, <1>6
  <2> QED
    BY <1>3, <2>1, <2>2, <2>3, <2>4, <2>5 DEF OnDisk
<1>7. CASE num_core # 1
  <2>1. filePhase = "read" /\ Len(fileChunks) = 0 /\ 0 < num_core /\ 0 # num_core - 1
    BY <1>0, <1>1, <1>2, <1>7
  <2>2. fileChunks \in Seq(Seq(Char)) /\ fileChunk \in Seq(Char)
    BY <1>1
  <2>3. fileSize = 0 /\ position = 0 /\ 0 \in 0 .. Len(file)
    BY <1>0, <1>1
  <2>4. FlattenSeq(fileChunks) = SubSeq(file, 1, fileSize)
    BY <1>1, <1>2
  <2>5. /\ CutTo(file, num_core, read_size, fileChunks, fileSize)
        /\ SearchesFile(Len(fileChunks), fileSize)
    BY <1>1, <1>2, <1>4, <1>5, <1>7
  <2>6. fileSize + read_size <= Len(file) /\ position <= fileSize + read_size
    BY <1>0, <1>7, <2>3
  <2> QED
    BY <1>3, <2>1, <2>2, <2>3, <2>4, <2>5, <2>6 DEF OnDisk
<1> QED
  BY <1>6, <1>7

(* Every step of partitionFile keeps the chunks those of the cutting, and what
   it has read behind them in order. *)
LEMMA DiskStep ==
  ASSUME Bounded, file # <<>>, OnDisk, FromDisk
  PROVE  OnDisk'
<1>0. /\ file \in Seq(Char) /\ num_core \in Nat \ {0} /\ read_size \in Nat \ {0}
      /\ Len(file) \in Nat \ {0}
      /\ position \in Nat /\ position <= Len(file)
      /\ fileSize \in Nat /\ fileSize <= Len(file)
      /\ fileChunk \in Seq(Char)
  BY FileSizes DEF Bounded, OnDisk
<1>1. file' = file /\ num_core' = num_core /\ read_size' = read_size
  <2>1. file' = file /\ num_core' = num_core
    BY DEF FromDisk, FromFile!Next, FromFile!ReadChunk, FromFile!ExtendChunk,
           FromFile!EndChunk, FromFile!LastChunk
  <2> QED
    BY <2>1 DEF read_size, FromFile!chunk_size
<1>2. CASE FromFile!ReadChunk
  <2>1. PICK n \in Int : /\ n = read_size - Len(FromFile!Carried)
                         /\ fileChunk' = FromFile!Carried \o FromFile!Read(n)
                         /\ position' = position + n
    <3>1. Len(FromFile!Carried) \in Nat
      BY <1>2, <1>0 DEF FromFile!ReadChunk, FromFile!Carried
    <3>2. PICK n : /\ n = FromFile!chunk_size - Len(FromFile!Carried)
                   /\ fileChunk' = FromFile!Carried \o FromFile!Read(n)
                   /\ position' = position + n
      BY <1>2, Zenon DEF FromFile!ReadChunk
    <3>3. n = read_size - Len(FromFile!Carried) /\ n \in Int
      BY <1>0, <3>1, <3>2 DEF read_size
    <3> QED
      BY <3>2, <3>3
  <2>2. /\ filePhase = "read" /\ filePhase' = "scan"
        /\ UNCHANGED <<file, num_core, ch, fileSize, fileChunks>>
    BY <1>2 DEF FromFile!ReadChunk
  <2>3. /\ FromFile!Carried = SubSeq(file, fileSize + 1, position)
        /\ fileSize <= position /\ position <= fileSize + read_size
        /\ fileSize + read_size <= Len(file)
    BY <2>2 DEF OnDisk
  <2>4. PICK e \in Nat : e = fileSize + read_size
    BY <1>0
  <2>5. position' = e
    <3>1. Len(FromFile!Carried) = position - fileSize
      BY <1>0, <2>3, TextFacts
    <3> QED
      BY <1>0, <2>1, <2>4, <3>1
  <2>6. fileChunk' = SubSeq(file, fileSize + 1, e)
    <3>1. FromFile!Read(n) = SubSeq(file, position + 1, e)
      BY <2>1, <2>5 DEF FromFile!Read
    <3>2. SubSeq(file, fileSize + 1, position) \o SubSeq(file, position + 1, e)
            = SubSeq(file, fileSize + 1, e)
      BY <1>0, <2>3, <2>4, TextsMeet
    <3> QED
      BY <2>1, <2>3, <3>1, <3>2
  <2>7. fileChunk' \in Seq(Char)
    <3>1. fileSize <= e /\ e <= Len(file)
      BY <1>0, <2>3, <2>4
    <3> QED
      BY <1>0, <2>6, <3>1, TextFacts
  <2>8. NoCut(file, read_size, fileSize, e)
    BY <1>0, <2>4, NoCutOfNone
  <2>9. SearchesFile(Len(fileChunks), fileSize)' <=> SearchesFile(Len(fileChunks), fileSize)
    BY <1>1, <2>2 DEF SearchesFile
  <2>10. position' \in 0 .. Len(file)
    BY <1>0, <2>3, <2>4, <2>5
  <2>11. /\ position' \in 0 .. Len(file)
         /\ NoCut(file, read_size, fileSize, position)' /\ (fileSize + read_size <= position)'
         /\ (fileChunk = SubSeq(file, fileSize + 1, position))'
    BY <1>0, <1>1, <2>2, <2>4, <2>5, <2>6, <2>8, <2>10
  <2> QED
    BY <1>1, <2>2, <2>7, <2>9, <2>11 DEF OnDisk
<1>3. CASE FromFile!ExtendChunk
  <2>1. /\ filePhase = "scan" /\ filePhase' = filePhase
        /\ UNCHANGED <<file, num_core, ch, fileSize, fileChunks>>
        /\ position' = position + 1
        /\ fileChunk' = Append(fileChunk, FromFile!Upcoming)
        /\ FromFile!Upcoming # FromFile!EOF
        /\ ~Boundary(fileChunk, FromFile!Upcoming)
    BY <1>3, SameBoundary DEF FromFile!ExtendChunk
  <2>2. FromFile!Upcoming = file[position + 1] /\ position < Len(file)
    BY <2>1 DEF FromFile!Upcoming
  <2>3. /\ fileChunk = SubSeq(file, fileSize + 1, position)
        /\ fileSize + read_size <= position
        /\ NoCut(file, read_size, fileSize, position)
    BY <2>1 DEF OnDisk
  <2>4. PICK e \in Nat : e = position + 1 /\ position' = e /\ e <= Len(file)
    BY <1>0, <2>1, <2>2
  <2>5. fileSize <= position
    BY <1>0, <2>3
  <2>6. fileChunk' = SubSeq(file, fileSize + 1, e)
    <3>1. Append(SubSeq(file, fileSize + 1, position), file[position + 1])
            = SubSeq(file, fileSize + 1, position + 1)
      BY <1>0, <2>2, <2>5, TextExtended
    <3> QED
      BY <2>1, <2>2, <2>3, <2>4, <3>1
  <2>7. fileChunk' \in Seq(Char)
    <3>1. fileSize <= e
      BY <1>0, <2>4, <2>5
    <3> QED
      BY <1>0, <2>4, <2>6, <3>1, TextFacts
  <2>8. NoCut(file, read_size, fileSize, e)
    BY <1>0, <2>1, <2>2, <2>3, <2>4, NoCutOfMore
  <2>9. SearchesFile(Len(fileChunks), fileSize)' <=> SearchesFile(Len(fileChunks), fileSize)
    BY <1>1, <2>1 DEF SearchesFile
  <2>10. fileSize + read_size <= e
    BY <1>0, <2>3, <2>4
  <2>11. /\ position' \in 0 .. Len(file)
         /\ NoCut(file, read_size, fileSize, position)' /\ (fileSize + read_size <= position)'
         /\ (fileChunk = SubSeq(file, fileSize + 1, position))'
    BY <1>0, <1>1, <2>1, <2>4, <2>6, <2>8, <2>10
  <2> QED
    BY <1>1, <2>1, <2>7, <2>9, <2>11 DEF OnDisk
<1>4. CASE FromFile!EndChunk
  <2>1. /\ filePhase = "scan"
        /\ filePhase' = (IF FromFile!Enough(fileSize', Len(fileChunks')) THEN "rest" ELSE "read")
        /\ UNCHANGED <<file, num_core, fileChunk>>
        /\ ch' = FromFile!Upcoming
        /\ position' = (IF FromFile!Upcoming = FromFile!EOF THEN position ELSE position + 1)
        /\ fileChunks' = Append(fileChunks, fileChunk)
        /\ fileSize' = fileSize + Len(fileChunk)
        /\ FromFile!Upcoming = FromFile!EOF \/ Boundary(fileChunk, FromFile!Upcoming)
    BY <1>4, SameBoundary DEF FromFile!EndChunk, FromFile!AfterSearch
  <2>2. /\ fileChunk = SubSeq(file, fileSize + 1, position)
        /\ fileSize + read_size <= position
        /\ NoCut(file, read_size, fileSize, position)
        /\ fileChunks \in Seq(Seq(Char))
        /\ FlattenSeq(fileChunks) = SubSeq(file, 1, fileSize)
        /\ Len(fileChunks) < num_core /\ Len(fileChunks) # num_core - 1
        /\ CutTo(file, num_core, read_size, fileChunks, fileSize)
        /\ Searches(file, num_core, read_size, Len(fileChunks), fileSize)
    BY <2>1 DEF OnDisk, SearchesFile
  <2>3. fileSize <= position
    BY <1>0, <2>2
  <2>4. fileSize' = position
    <3>1. Len(fileChunk) = position - fileSize
      BY <1>0, <2>2, <2>3, TextFacts
    <3> QED
      BY <1>0, <2>1, <3>1
  <2>5. FlattenSeq(fileChunks') = SubSeq(file, 1, fileSize')
    <3>1. FlattenSeq(fileChunks') = SubSeq(file, 1, fileSize) \o SubSeq(file, fileSize + 1, position)
      BY <1>0, <2>1, <2>2, FlattenAppend
    <3> QED
      BY <1>0, <2>3, <2>4, <3>1, TextsJoin
  <2>6. PICK n \in Nat \ {0} : n = Len(fileChunks') /\ n < num_core
    <3>1. PICK m \in Nat : m = Len(fileChunks)
      BY <2>2
    <3>2. Len(fileChunks') = m + 1
      BY <1>0, <2>1, <2>2, <3>1
    <3>3. m + 1 < num_core
      BY <1>0, <2>2, <3>1
    <3> QED
      BY <3>2, <3>3
  <2>7. fileChunks' \in Seq(Seq(Char))
    BY <1>0, <2>1, <2>2
  <2>8. FromFile!Enough(fileSize', n) <=> position + read_size >= Len(file) \/ n = num_core - 1
    BY <2>4 DEF FromFile!Enough, read_size
  <2>9. CASE FromFile!Upcoming = FromFile!EOF
    <3>1. position = Len(file)
      <4>1. ~(position < Len(file))
        <5> SUFFICES ASSUME position < Len(file) PROVE FALSE
          OBVIOUS
        <5>1. file[position + 1] \in Char
          BY <1>0, ElementOfSeq
        <5> QED
          BY <2>9, <5>1 DEF FromFile!Upcoming, FromFile!EOF, Char
      <4> QED
        BY <1>0, <4>1
    <3>2. filePhase' = "rest"
      BY <1>0, <2>1, <2>6, <2>8, <3>1
    <3>3. position' = position /\ fileSize' = Len(file)
      BY <2>1, <2>4, <2>9, <3>1
    <3>4. CutAtEnd(file, num_core, read_size, fileChunks')
      <4>1. /\ fileSize \in 0 .. Len(file)
            /\ NoCut(file, read_size, fileSize, Len(file))
            /\ fileChunks' = Append(fileChunks, SubSeq(file, fileSize + 1, Len(file)))
        BY <1>0, <2>1, <2>2, <3>1
      <4> QED
        BY <2>2, <4>1 DEF CutAtEnd
    <3>5. FromFile!Carried' = SubSeq(file, fileSize + 1, position)'
      <4>1. FromFile!Carried' = <<>>
        BY <2>1, <2>9 DEF FromFile!Carried
      <4>2. SubSeq(file, position + 1, position) = <<>>
        BY <1>0, SubSeqEmpty
      <4> QED
        BY <1>1, <2>4, <3>3, <4>1, <4>2
    <3>6. /\ position' \in 0 .. Len(file) /\ fileSize' \in 0 .. Len(file)
          /\ fileSize' <= position' /\ Len(fileChunks') < num_core'
      BY <1>0, <1>1, <2>4, <2>6, <3>3
    <3> QED
      BY <1>0, <1>1, <2>1, <2>5, <2>7, <3>2, <3>3, <3>4, <3>5, <3>6 DEF OnDisk
  <2>10. CASE FromFile!Upcoming # FromFile!EOF
    <3>1. position < Len(file) /\ FromFile!Upcoming = file[position + 1]
      BY <2>10 DEF FromFile!Upcoming
    <3>2. PICK e \in Nat : e = position + 1 /\ position' = e /\ e <= Len(file)
      BY <1>0, <2>1, <2>10, <3>1
    <3>3. IsCut(file, read_size, fileSize, position)
      BY <2>1, <2>2, <2>10, <3>1 DEF IsCut
    <3>4. CutTo(file, num_core, read_size, fileChunks', position)
      <4>1. fileSize \in 0 .. Len(file) /\ position \in 0 .. Len(file)
        BY <1>0
      <4> QED
        BY <1>0, <2>1, <2>2, <3>3, <4>1, CutOfMore
    <3>5. SearchesFile(n, position) <=> ~FromFile!Enough(fileSize', n)
      <4>1. position + read_size \in Nat
        BY <1>0
      <4> QED
        BY <1>0, <2>6, <2>8, <4>1 DEF SearchesFile, Searches
    <3>6. SearchesFile(Len(fileChunks), fileSize)' <=> SearchesFile(n, position)
      BY <1>1, <2>4, <2>6 DEF SearchesFile
    <3>7. /\ filePhase' \in {"rest", "read"}
          /\ filePhase' = "rest" <=> ~SearchesFile(n, position)
      BY <2>1, <2>6, <3>5
    <3>8. FromFile!Carried' = SubSeq(file, fileSize + 1, position)'
      <4>1. FromFile!Carried' = <<file[e]>>
        BY <2>1, <2>10, <3>1, <3>2 DEF FromFile!Carried
      <4>2. SubSeq(file, position + 1, e) = <<file[e]>>
        <5>1. /\ SubSeq(file, position + 1, e) \in Seq(Char)
              /\ Len(SubSeq(file, position + 1, e)) = e - position
              /\ SubSeq(file, position + 1, e)[1] = file[position + 1]
          BY <1>0, <3>1, <3>2, TextNotEmpty
        <5>2. e - position = 1
          BY <1>0, <3>2
        <5>3. PICK t \in Seq(Char) : t = SubSeq(file, position + 1, e) /\ Len(t) = 1
          BY <5>1, <5>2
        <5>4. t[1] = file[e]
          BY <3>2, <5>1, <5>3
        <5>5. t = <<t[1]>>
          BY <5>3, OneChar
        <5> QED
          BY <5>3, <5>4, <5>5
      <4> QED
        BY <1>1, <2>4, <3>2, <4>1, <4>2
    <3>9. filePhase' = "read" => /\ position + read_size < Len(file) /\ n # num_core - 1
      BY <2>6, <3>7 DEF SearchesFile, Searches
    <3>10. /\ position' \in 0 .. Len(file) /\ fileSize' \in 0 .. Len(file)
           /\ fileSize' <= position' /\ Len(fileChunks') < num_core'
           /\ fileSize' < Len(file')
           /\ position' <= fileSize' + read_size'
      BY <1>0, <1>1, <2>4, <2>6, <3>1, <3>2
    <3>11. filePhase' = "read" => /\ fileSize' + read_size' <= Len(file')
                                  /\ Len(fileChunks') # num_core' - 1
      BY <1>0, <1>1, <2>4, <2>6, <3>9
    <3>12. CutTo(file, num_core, read_size, fileChunks, fileSize)'
      BY <1>1, <2>4, <3>4
    <3>13. (FlattenSeq(fileChunks) = SubSeq(file, 1, fileSize))'
      BY <1>1, <2>5
    <3>14. filePhase' \in {"rest", "read"}
           /\ (filePhase' = "read" <=> SearchesFile(Len(fileChunks), fileSize)')
      BY <3>6, <3>7
    <3> QED
      BY <1>0, <2>1, <2>7, <3>8, <3>10, <3>11, <3>12, <3>13, <3>14 DEF OnDisk
  <2> QED
    BY <2>9, <2>10
<1>5. CASE FromFile!LastChunk
  <2>1. /\ filePhase = "rest" /\ filePhase' = "end"
        /\ UNCHANGED <<file, num_core, ch, fileChunk, fileSize>>
    BY <1>5 DEF FromFile!LastChunk
  <2>2. /\ fileChunks \in Seq(Seq(Char)) /\ Len(fileChunks) < num_core
        /\ FlattenSeq(fileChunks) = SubSeq(file, 1, fileSize)
        /\ FromFile!Carried = SubSeq(file, fileSize + 1, position)
        /\ fileSize <= position
    BY <2>1 DEF OnDisk
  <2>3. PICK rest \in Nat : rest = Len(file) - fileSize
    BY <1>0
  <2>4. CASE rest > 0
    <3>1. /\ CutTo(file, num_core, read_size, fileChunks, fileSize)
          /\ ~Searches(file, num_core, read_size, Len(fileChunks), fileSize)
      BY <1>0, <2>1, <2>3, <2>4 DEF OnDisk, SearchesFile
    <3>2. /\ fileChunks' = Append(fileChunks, FromFile!Carried \o FromFile!Read(rest - Len(FromFile!Carried)))
          /\ position' = position + rest - Len(FromFile!Carried)
      BY <1>5, <2>3, <2>4 DEF FromFile!LastChunk
    <3>3. Len(FromFile!Carried) = position - fileSize
      BY <1>0, <2>2, TextFacts
    <3>4. /\ position + (rest - Len(FromFile!Carried)) = Len(file)
          /\ position + rest - Len(FromFile!Carried) = Len(file)
      BY <1>0, <2>3, <3>3
    <3>5. fileChunks' = Append(fileChunks, SubSeq(file, fileSize + 1, Len(file)))
      <4>1. FromFile!Read(rest - Len(FromFile!Carried)) = SubSeq(file, position + 1, Len(file))
        BY <3>4 DEF FromFile!Read
      <4>2. SubSeq(file, fileSize + 1, position) \o SubSeq(file, position + 1, Len(file))
              = SubSeq(file, fileSize + 1, Len(file))
        <5>1. position <= Len(file)
          BY <1>0
        <5> QED
          BY <1>0, <2>2, <5>1, TextsMeetAtEnd
      <4> QED
        BY <2>2, <3>2, <4>1, <4>2
    <3>6. PICK t \in Seq(Char) : t = SubSeq(file, fileSize + 1, Len(file))
      <4>1. Len(file) <= Len(file)
        BY <1>0
      <4> QED
        BY <1>0, <4>1, TextFacts
    <3>7. FromFile!Stored' = fileChunks'
      <4>1. FromFile!Last(fileChunks') = t /\ t # FromFile!NULL
        BY <2>2, <3>5, <3>6, StoredFacts
      <4> QED
        BY <4>1 DEF FromFile!Stored
    <3>8. FlattenSeq(fileChunks') = file
      <4>1. FlattenSeq(fileChunks') = SubSeq(file, 1, fileSize) \o t
        BY <2>2, <3>5, <3>6, FlattenAppend
      <4>2. SubSeq(file, 1, fileSize) \o t = SubSeq(file, 1, Len(file))
        <5>1. Len(file) <= Len(file)
          BY <1>0
        <5> QED
          BY <1>0, <3>6, <5>1, TextsJoin
      <4>3. SubSeq(file, 1, Len(file)) = file
        BY <1>0, SubSeqFull
      <4> QED
        BY <4>1, <4>2, <4>3
    <3>9. CutWhole(file, num_core, read_size, fileChunks')
      <4>1. fileSize \in 0 .. Len(file)
        BY <1>0
      <4> QED
        BY <2>2, <3>1, <3>5, <4>1 DEF CutWhole
    <3>10. Len(fileChunks') <= num_core'
      BY <1>0, <1>1, <2>2, <3>5, <3>6, LongerByOne
    <3>11. position' \in 0 .. Len(file)
      BY <1>0, <3>2, <3>4
    <3>12. /\ FlattenSeq(FromFile!Stored)' = file'
           /\ CutWhole(file, num_core, read_size, FromFile!Stored)'
      BY <1>1, <3>7, <3>8, <3>9
    <3> QED
      BY <1>0, <1>1, <2>1, <3>10, <3>11, <3>12 DEF OnDisk
  <2>5. CASE rest = 0
    <3>1. fileChunks' = Append(fileChunks, FromFile!NULL) /\ position' = position
      BY <1>5, <2>3, <2>5 DEF FromFile!LastChunk
    <3>2. fileSize = Len(file) /\ CutAtEnd(file, num_core, read_size, fileChunks)
      BY <1>0, <2>1, <2>3, <2>5 DEF OnDisk
    <3>3. FromFile!Stored' = fileChunks
      <4>1. <<>> \in Seq(Char)
        OBVIOUS
      <4>2. /\ FromFile!Last(fileChunks') = FromFile!NULL
            /\ FromFile!Front(fileChunks') = fileChunks
        BY <2>2, <3>1, <4>1, StoredFacts
      <4> QED
        BY <4>2 DEF FromFile!Stored
    <3>4. FlattenSeq(fileChunks) = file
      BY <1>0, <2>2, <3>2, SubSeqFull
    <3>5. Len(fileChunks') <= num_core'
      BY <1>0, <1>1, <2>2, <3>1, LongerByOne
    <3>6. /\ FlattenSeq(FromFile!Stored)' = file'
          /\ CutAtEnd(file, num_core, read_size, FromFile!Stored)'
      BY <1>1, <3>2, <3>3, <3>4
    <3> QED
      BY <1>0, <1>1, <2>1, <3>1, <3>5, <3>6 DEF OnDisk
  <2> QED
    BY <2>4, <2>5
<1> QED
  BY <1>2, <1>3, <1>4, <1>5 DEF FromDisk, FromFile!Next

(* partitionFile is given a file that has characters. *)
BothInv ==
  /\ PartInv
  /\ StartsWithText => Sought
  /\ IF file = <<>> THEN filePhase # "end" ELSE OnDisk

(* Neither way has begun. *)
LEMMA BothBegin == BothInit => BothInv
<1> SUFFICES ASSUME BothInit PROVE BothInv
  OBVIOUS
<1>1. PartInv
  BY PartBegin DEF BothInit
<1>2. stream = <<>> /\ phase = "load" /\ Bounded
  BY <1>1 DEF BothInit, Init, PartInv
<1>3. Sought
  BY <1>2 DEF Sought
<1>4. filePhase # "end"
  BY DEF BothInit, FromFile!Begin
<1>5. file # <<>> => OnDisk
  BY <1>2, DiskBegins DEF BothInit
<1> QED
  BY <1>1, <1>3, <1>4, <1>5 DEF BothInv

(* A step on one way leaves what the other one has cut alone. *)
LEMMA BothStays == BothInv /\ [BothNext]_BothVars => BothInv'
<1> SUFFICES ASSUME BothInv, [BothNext]_BothVars PROVE BothInv'
  OBVIOUS
<1>0. Bounded /\ PartInv
  BY DEF BothInv, PartInv
<1>1. CASE [Next]_vars /\ UNCHANGED fileVars
  <2>1. PartInv' /\ file' = file /\ num_core' = num_core /\ (StartsWithText' <=> StartsWithText)
    BY <1>0, <1>1, PartStays
  <2>2. StartsWithText' => Sought'
    BY <1>0, <1>1, <2>1, StaysSought DEF BothInv, PartInv
  <2>3. read_size' = read_size
    BY <2>1 DEF read_size, FromFile!chunk_size
  <2>4. /\ UNCHANGED <<position, ch, fileChunk, fileSize, fileChunks, filePhase>>
    BY <1>1 DEF fileVars
  <2>5. FromFile!Carried' = FromFile!Carried /\ FromFile!Stored' = FromFile!Stored
    BY <2>4 DEF FromFile!Carried, FromFile!Stored
  <2>6. SearchesFile(Len(fileChunks), fileSize)' <=> SearchesFile(Len(fileChunks), fileSize)
    BY <2>1, <2>3, <2>4 DEF SearchesFile
  <2>7. OnDisk => OnDisk'
    BY <2>1, <2>3, <2>4, <2>5, <2>6 DEF OnDisk
  <2> QED
    BY <2>1, <2>2, <2>4, <2>7 DEF BothInv
<1>2. CASE FromDisk
  <2>1. file # <<>> /\ OnDisk
    BY <1>2 DEF FromDisk, BothInv
  <2>2. OnDisk'
    BY <1>0, <1>2, <2>1, DiskStep
  <2>3. file' = file /\ num_core' = num_core
    BY <1>2 DEF FromDisk, FromFile!Next, FromFile!ReadChunk, FromFile!ExtendChunk,
                FromFile!EndChunk, FromFile!LastChunk
  <2>4. UNCHANGED <<start_pos, stream, sum_size, chunk, chunks, given, phase>>
    BY <1>2 DEF FromDisk
  <2>5. UNCHANGED vars
    BY <2>3, <2>4 DEF vars, partVars
  <2>6. PartInv' /\ (StartsWithText' <=> StartsWithText)
    BY <1>0, <2>5, PartStays
  <2>7. StartsWithText' => Sought'
    BY <1>0, <2>5, <2>6, StaysSought DEF BothInv, PartInv
  <2> QED
    BY <2>1, <2>2, <2>3, <2>6, <2>7 DEF BothInv
<1>3. ([Next]_vars /\ UNCHANGED fileVars) \/ FromDisk
  BY DEF BothNext, InMemory, BothVars
<1> QED
  BY <1>1, <1>2, <1>3

(* The invariant of both. *)
LEMMA BothInvariant == BothSpec => []BothInv
BY BothBegin, BothStays, PTL DEF BothSpec

-----------------------------------------------------------------------------
(***************************************************************************)
(* The theorems.                                                           *)
(***************************************************************************)
(* Whatever the files, the cores and the footprint: the chunks of all pieces are
   the file up to where it was loaded (loadBoundedInputStream,
   partitionInputStream). *)
THEOREM ChunksAlwaysMakeFile == Spec => []ChunksMakeFile
<1>1. PartInv => ChunksMakeFile
  BY DEF PartInv, Placed, GivenTo, ChunksMakeFile
<1> QED
  BY <1>1, PartInvariant, PTL

(* No thread is started on an empty chunk, and none without a core
   (partitionInputStream). *)
THEOREM ChunksAlwaysHaveText == Spec => []EveryChunkHasText
<1>1. PartInv => EveryChunkHasText
  BY DEF PartInv, Bounded, Placed, EveryChunkHasText
<1> QED
  BY <1>1, PartInvariant, PTL

(* partitionFile stores the characters of the file, each once and in their order,
   in num_core places at most, whatever the file and the number of cores. *)
THEOREM ChunksAreAlwaysFile == BothSpec => []ChunksAreFile
<1>1. BothInv => ChunksAreFile
  <2> SUFFICES ASSUME BothInv, filePhase = "end"
               PROVE  FromFile!FlattenSeq(FromFile!Stored) = file /\ Len(fileChunks) <= num_core
    BY DEF ChunksAreFile, FromFile!ChunksAreFile
  <2>1. OnDisk
    BY DEF BothInv
  <2>2. FlattenSeq(FromFile!Stored) = file /\ Len(fileChunks) <= num_core
    BY <2>1 DEF OnDisk
  <2> QED
    BY <2>2, SameText
<1> QED
  BY <1>1, BothInvariant, PTL

(* partitionFile and partitionInputStream cut every file that is one piece in the
   same way, whatever the number of cores and the footprint. *)
THEOREM AlwaysCutAlike == BothSpec => []BothCutAlike
<1>1. BothInv => BothCutAlike
  <2> SUFFICES ASSUME BothInv, filePhase = "end", phase = "end", StartsWithText,
                      Len(stream) = Len(file)
               PROVE  FromFile!Stored = chunks
    BY DEF BothCutAlike
  <2>1. /\ file \in Seq(Char) /\ stream \in Seq(Char) /\ num_core \in Nat \ {0}
        /\ start_pos \in Nat
    BY DEF BothInv, PartInv, Bounded
  <2>2. file # <<>> /\ OnDisk /\ Sought /\ Bounded /\ Placed
    BY DEF BothInv, PartInv
  <2>3. stream # <<>>
    <3>1. Len(file) # 0
      BY <2>1, <2>2, EmptySeq
    <3> QED
      BY <3>1
  <2>4. CutWhole(stream, num_core, chunk_size, chunks) /\ PieceFrom(start_pos - Len(stream))
    BY <2>2, <2>3 DEF Sought
  <2>5. stream = file
    <3>1. PICK b \in Nat : b = start_pos - Len(stream)
      BY <2>4 DEF PieceFrom
    <3>2. b + Len(stream) <= Len(file) /\ stream = SubSeq(file, b + 1, b + Len(stream))
      BY <2>4, <3>1 DEF PieceFrom
    <3>3. b = 0
      BY <2>1, <3>1, <3>2
    <3>4. stream = SubSeq(file, 1, Len(file))
      BY <2>1, <3>2, <3>3
    <3> QED
      BY <2>1, <3>4, SubSeqFull
  <2>6. CutWhole(file, num_core, read_size, chunks)
    <3>1. chunk_size = read_size
      BY <2>5 DEF chunk_size, read_size, FromFile!chunk_size
    <3> QED
      BY <2>4, <2>5, <3>1
  <2>7. read_size \in Nat
    BY <2>2, FileSizes
  <2>8. \/ CutWhole(file, num_core, read_size, FromFile!Stored)
        \/ CutAtEnd(file, num_core, read_size, FromFile!Stored)
    BY <2>2 DEF OnDisk
  <2>9. ~CutAtEnd(file, num_core, read_size, FromFile!Stored)
    BY <2>1, <2>6, <2>7, NoBoundaryLeft
  <2> QED
    BY <2>1, <2>6, <2>7, <2>8, <2>9, OneCutting
<1> QED
  BY <1>1, BothInvariant, PTL
=============================================================================
