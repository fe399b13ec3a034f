--------------------------- MODULE StreamPartition ---------------------------
(***************************************************************************)
(* How a file reaches the threads of parallelRun (path_processor.h): it is *)
(* loaded in pieces of about MEMORY_FOOTPRINT bytes, and each piece is cut *)
(* into chunks, at most one per core.  A piece and a chunk are extended up *)
(* to a place that looks like the beginning of a string token.             *)
(*                                                                         *)
(*   start_pos   bytes of the file that were loaded                        *)
(*   stream      the piece in memory                                       *)
(*   sum_size    bytes of the piece that were given to chunks              *)
(*   chunk       stream[i], the chunk being cut                            *)
(*   chunks      the chunks cut so far                                     *)
(*   given       (history) the text all chunks of the file were given      *)
(*   phase       where the loops are; "overrun" when they read behind the  *)
(*               end of the piece                                          *)
(***************************************************************************)
EXTENDS TokenBoundary, SequencesExt

CONSTANTS Texts,              \* the files
          Cores,              \* the values of num_core
          MEMORY_FOOTPRINT

ASSUME CoresAssumption == Cores \subseteq Nat \ {0}
ASSUME FootprintAssumption == MEMORY_FOOTPRINT \in Nat \ {0}

ASSUME TextsAssumption == Texts \subseteq Seq(Char)

VARIABLES file, num_core, start_pos, stream, sum_size, chunk, chunks, given, phase

partVars == <<sum_size, chunk, chunks, given>>
vars == <<file, num_core, start_pos, stream, partVars, phase>>

(* ltrim: substring and substring_in_place skip the spaces at the beginning of
   the whole text, whatever part of it they copy, and do not see its end. *)
ltrim(s) ==
  LET words == {n \in DOMAIN s : s[n] # "space"} IN
  IF words = {} THEN <<>> ELSE SubSeq(s, Min(words), Len(s))

Readable(s, end)         == end <= Len(ltrim(s))
substring(s, begin, end) == SubSeq(ltrim(s), begin + 1, Min({end, Len(ltrim(s))}))

(***************************************************************************)
(* loadBoundedInputStream.                                                 *)
(***************************************************************************)
Remaining == Len(file) - start_pos

LoadAtEnd ==                                                          \* fault
  /\ phase = "load"
  /\ IF Remaining < 0
       THEN phase' = "end" /\ UNCHANGED stream
       ELSE /\ phase' = "extend"
            /\ stream' = SubSeq(file, start_pos + 1,
                                start_pos + Min({Remaining, MEMORY_FOOTPRINT}))
  /\ UNCHANGED <<file, num_core, start_pos, partVars>>

Load ==
  /\ phase = "load"
  /\ IF Remaining <= 0
       THEN phase' = "end" /\ UNCHANGED stream
       ELSE /\ phase' = "extend"
            /\ stream' = SubSeq(file, start_pos + 1,
                                start_pos + Min({Remaining, MEMORY_FOOTPRINT}))
  /\ UNCHANGED <<file, num_core, start_pos, partVars>>

NextInFile == start_pos + Len(stream) + 1
Loaded     == NextInFile <= Len(file) => Boundary(stream, file[NextInFile])

Extend ==
  /\ phase = "extend"
  /\ ~Loaded
  /\ stream' = Append(stream, file[NextInFile])
  /\ UNCHANGED <<file, num_core, start_pos, partVars, phase>>

(***************************************************************************)
(* partitionInputStream.                                                   *)
(***************************************************************************)
chunk_size == (Len(stream) \div num_core) + 1

BeginPartition ==
  /\ phase = "extend"
  /\ Loaded
  /\ start_pos' = start_pos + Len(stream)
  /\ sum_size' = 0
  /\ chunk' = <<>>
  /\ chunks' = <<>>
  /\ phase' = IF num_core = 1 THEN "rest" ELSE "cut"
  /\ UNCHANGED <<file, num_core, stream, given>>

BeginChunk ==
  /\ phase = "cut"
  /\ IF Readable(stream, sum_size + chunk_size)
       THEN /\ phase' = "scan"
            /\ chunk' = substring(stream, sum_size, sum_size + chunk_size)
       ELSE phase' = "overrun" /\ UNCHANGED chunk
  /\ UNCHANGED <<file, num_core, start_pos, stream, sum_size, chunks, given>>

NextInPiece == sum_size + Len(chunk) + 1

(* The search has no end but a boundary: behind the last character it copies
   the terminator and goes on. *)
Overrun ==
  /\ phase = "scan"
  /\ NextInPiece > Len(stream)
  /\ phase' = "overrun"
  /\ UNCHANGED <<file, num_core, start_pos, stream, partVars>>

ExtendChunk ==
  /\ phase = "scan"
  /\ NextInPiece <= Len(stream)
  /\ ~Boundary(chunk, stream[NextInPiece])
  /\ chunk' = Append(chunk, stream[NextInPiece])
  /\ UNCHANGED <<file, num_core, start_pos, stream, sum_size, chunks, given, phase>>

Enough(size, n) == size + chunk_size >= Len(stream) \/ n = num_core - 1

CountedWithoutExtension ==                                            \* fault
  /\ phase = "scan"
  /\ NextInPiece <= Len(stream)
  /\ Boundary(chunk, stream[NextInPiece])
  /\ chunks' = Append(chunks, chunk)
  /\ given' = given \o chunk
  /\ sum_size' = sum_size + chunk_size
  /\ phase' = IF Enough(sum_size', Len(chunks')) THEN "rest" ELSE "cut"
  /\ UNCHANGED <<file, num_core, start_pos, stream, chunk>>

QuoteTaken ==                                                         \* fault
  /\ phase = "scan"
  /\ NextInPiece <= Len(stream)
  /\ Boundary(chunk, stream[NextInPiece])
  /\ chunks' = Append(chunks, Append(chunk, "quote"))
  /\ given' = Append(given \o chunk, "quote")
  /\ sum_size' = sum_size + Len(chunk) + 1
  /\ phase' = IF Enough(sum_size', Len(chunks')) THEN "rest" ELSE "cut"
  /\ UNCHANGED <<file, num_core, start_pos, stream, chunk>>

EndChunk ==
  /\ phase = "scan"
  /\ NextInPiece <= Len(stream)
  /\ Boundary(chunk, stream[NextInPiece])
  /\ chunks' = Append(chunks, chunk)
  /\ given' = given \o chunk
  /\ sum_size' = sum_size + Len(chunk)
  /\ phase' = IF Enough(sum_size', Len(chunks')) THEN "rest" ELSE "cut"
  /\ UNCHANGED <<file, num_core, start_pos, stream, chunk>>

(* What remains is the last chunk; without a remainder it would be NULL. *)
LastChunk ==
  /\ phase = "rest"
  /\ LET rest == IF sum_size = Len(stream) THEN <<>> ELSE substring(stream, sum_size, Len(stream))
     IN  chunks' = Append(chunks, rest) /\ given' = given \o rest
  /\ phase' = "run"
  /\ UNCHANGED <<file, num_core, start_pos, stream, sum_size, chunk>>

(* The threads have read the chunks of this piece, and parallelRun goes on. *)
RunChunks ==
  /\ phase = "run"
  /\ phase' = "load"
  /\ UNCHANGED <<file, num_core, start_pos, stream, partVars>>

Init ==
  /\ file \in Texts
  /\ num_core \in Cores
  /\ start_pos = 0
  /\ stream = <<>>
  /\ sum_size = 0
  /\ chunk = <<>>
  /\ chunks = <<>>
  /\ given = <<>>
  /\ phase = "load"

Next ==
  \/ Load \/ Extend
  \/ BeginPartition \/ BeginChunk \/ ExtendChunk \/ EndChunk \/ LastChunk
  \/ Overrun
  \/ RunChunks

(* One thread runs through the loops, and is not stopped. *)
Spec == Init /\ [][Next]_vars /\ WF_vars(Next)
-----------------------------------------------------------------------------
(***************************************************************************)
(* Properties.                                                             *)
(***************************************************************************)
StartsWithText == file = <<>> \/ file[1] # "space"

(* What the chunks were given is the file up to where it was loaded: over any
   number of pieces and cores no character is lost, repeated or reordered
   between two chunks or two pieces (sum_size, start_pos).  A file that begins
   with a space is excepted: ltrim shifts every copy of it. *)
ChunksMakeFile ==
  StartsWithText /\ phase \in {"load", "end"} => given = SubSeq(file, 1, start_pos)

(* A thread always gets a chunk with text in it, and there are no more chunks
   than cores, although num_chunk counts the last one without looking. *)
EveryChunkHasText ==
  phase = "run" =>
    /\ Len(chunks) <= num_core
    /\ StartsWithText => \A c \in DOMAIN chunks : chunks[c] # <<>>
=============================================================================
