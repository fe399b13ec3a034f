---------------------- MODULE ParallelExecutionProofs ----------------------
(***************************************************************************)
(* Proofs about the parallel engine, whatever the automaton, the           *)
(* constraint table, the text, the number of chunks and pieces and the     *)
(* order the threads are scheduled in: every tree of query stacks gives    *)
(* each of its roots one run of the query automaton, and combine splices   *)
(* the syntax stacks of the chunks into those the serial engine has,       *)
(* provided that no literal is cut off at the end of a chunk (Literals)    *)
(* and the serial engine dropped no push (lost).                           *)
(*                                                                         *)
(* WorkerAutomatonProofs says what a thread does on its own chunk.  Worker *)
(* 0 has all that encloses a place of the text on its stack: where combine *)
(* is in the units of a thread, it is what the symbols of these units have *)
(* left of what enclosed the chunk.                                        *)
(***************************************************************************)
EXTENDS WorkerAutomatonProofs

(***************************************************************************)
(* The engine: the text, its cuts and the threads over them.               *)
(***************************************************************************)
(* The tokens of the texts. *)
Tokens ==
  {t \in [type : {"LCB", "RCB", "LB", "RB", "COM", "KY", "PRI"},
          key : Keys \union {""}, bare : BOOLEAN] : t.type = "KY" => t.key \in Keys}

(* Every cut is within the text that has arrived. *)
CutsType ==
  /\ \E S : cuts \in Seq(S)
  /\ Len(cuts) > 0
  /\ \A n \in 1 .. Len(cuts) : cuts[n].at \in Nat /\ cuts[n].at <= Len(text)

(* The text is a sequence of tokens, and pos counts them. *)
TextType == text \in Seq(Tokens) /\ pos = Len(text)

(* Every thread but 0 has a tree that labels have grown, over a chunk within
   the text. *)
TreesGrown ==
  /\ DOMAIN worker \subseteq Nat
  /\ \A c \in DOMAIN worker : c # 0 => Grown(worker[c]) /\ worker[c].end <= Len(text)

(* The inductive invariant. *)
EngineInv ==
  /\ QueryType /\ TextType /\ CutsType /\ first \in 1 .. Len(cuts)
  /\ TreesGrown
  /\ phase = "text" => worker = <<>>

(* The next piece begins behind cut n; the chunks up to there are chunks of
   the text. *)
LEMMA NextStartFacts ==
  ASSUME NEW S, cuts \in Seq(S), NEW n \in 1 .. Len(cuts)
  PROVE  /\ NextStart(n) \in n + 1 .. Len(cuts) + 1
         /\ ~(NextStart(n) > Len(cuts)) => NextStart(n) \in 1 .. Len(cuts)
         /\ \A c \in ChunksOf(n) : c \in Nat /\ n + c \in 1 .. Len(cuts)
<1>1. PICK l \in Nat : l = Len(cuts) /\ DOMAIN cuts = 1 .. l
  OBVIOUS
<1> DEFINE T == {m \in PieceStarts \union {l + 1} : m > n}
<1>2. T \subseteq n + 1 .. l + 1 /\ l + 1 \in T
  BY <1>1 DEF PieceStarts
<1>3. T \subseteq Nat /\ T # {}
  <2> HIDE DEF T
  <2>. QED
    BY <1>1, <1>2
<1>4. PICK x \in T : \A y \in T : x <= y
  <2> HIDE DEF T
  <2>. QED
    BY <1>3, LeastNumber
<1>5. NextStart(n) = Min(T)
  BY <1>1 DEF NextStart
<1>6. Min(T) \in T
  <2> HIDE DEF T
  <2>. QED
    BY <1>4 DEF Min
<1>7. PICK e : e = NextStart(n) /\ e \in n + 1 .. l + 1
  <2> HIDE DEF T
  <2>. QED
    BY <1>2, <1>5, <1>6
<1>8. \A c \in 0 .. e - n - 1 : c \in Nat /\ n + c \in 1 .. l
  BY <1>1, <1>7
<1>. QED
  BY <1>1, <1>7, <1>8 DEF ChunksOf

(* A chunk ends within the text. *)
LEMMA ChunkEndFacts ==
  ASSUME TextType, CutsType, NEW n \in 1 .. Len(cuts)
  PROVE  /\ cuts[n].at \in Nat /\ chunkEnd(n) \in Nat /\ chunkEnd(n) <= Len(text)
<1>1. PICK l \in Nat : l = Len(cuts)
  BY LenProperties DEF CutsType
<1>2. PICK x \in Nat : x = Len(text)
  BY LenProperties DEF TextType
<1>3. CASE n = l
  BY <1>1, <1>2, <1>3 DEF chunkEnd, CutsType
<1>4. CASE n # l
  <2>1. n + 1 \in 1 .. l
    BY <1>1, <1>4
  <2>. QED
    BY <1>1, <1>2, <1>4, <2>1 DEF chunkEnd, CutsType
<1>. QED
  BY <1>3, <1>4

(* A thread starts from the tree of its roots. *)
LEMMA StartedThread ==
  ASSUME QueryType, NEW c, NEW b \in Nat, NEW e \in Nat, NEW st,
         NEW v, v = StartWorker(c, b, e, st)
  PROVE  Grown(v) /\ v.end = e
<1>1. PICK ls : ls = initQueryStacks(startStates(c))
  OBVIOUS
<1>2. ls \in Seq(Seq(Node(qa))) /\ ls # <<>> /\ Along(qa, ls, <<>>) /\ <<>> \in Seq(Labels)
  BY <1>1, StartForm DEF QueryType
<1>3. PICK o : v = [base |-> b, end |-> e, at |-> b,
                    ss |-> <<>>, shadow_ss |-> "INVALID", levels |-> ls, out |-> o,
                    unit |-> NewUnit(st), units |-> <<>>, finished |-> FALSE]
  BY <1>1 DEF StartWorker
<1>4. /\ DOMAIN v = WorkerFields /\ v.base = b /\ v.end = e /\ v.at = b /\ v.ss = <<>>
      /\ v.shadow_ss = "INVALID" /\ v.levels = ls /\ v.unit = NewUnit(st) /\ v.finished = FALSE
  BY <1>3 DEF WorkerFields
<1>5. IsUnit(NewUnit(st))
  BY DEF IsUnit, NewUnit, INVALID
<1>6. <<>> \in Seq(Symbols) /\ "INVALID" \in Shadows
  BY DEF Shadows
<1>7. IsWorker(qa, v)
  BY <1>2, <1>4, <1>5, <1>6 DEF IsWorker
<1>. QED
  BY <1>2, <1>4, <1>7 DEF Grown

(* A step of thread c leaves the others alone. *)
LEMMA StepAlone ==
  ASSUME NEW c, Step(c)
  PROVE  /\ \E x : worker' = [worker EXCEPT ![c] = x]
         /\ UNCHANGED <<qa, ct, text>>
<1>1. CASE LCB(c)
  BY <1>1, Zenon DEF LCB, Becomes
<1>2. CASE RCB(c)
  BY <1>2, Zenon DEF RCB, Becomes
<1>3. CASE LB(c)
  BY <1>3, Zenon DEF LB, Becomes
<1>4. CASE RB(c)
  BY <1>4, Zenon DEF RB, Becomes
<1>5. CASE COM(c)
  BY <1>5, Zenon DEF COM, Becomes
<1>6. CASE KY(c)
  BY <1>6, Zenon DEF KY, Becomes
<1>7. CASE PRI(c)
  BY <1>7, Zenon DEF PRI, Becomes
<1>8. CASE Finish(c)
  <2>1. PICK last : worker' = [worker EXCEPT ![c].units = Append(@, last), ![c].finished = TRUE]
    BY <1>8 DEF Finish
  <2>2. worker' = [worker EXCEPT ![c] =
                     [worker[c] EXCEPT !.units = Append(@, last), !.finished = TRUE]]
    BY <2>1
  <2>. QED
    BY <1>8, <2>2, Zenon DEF Finish
<1>. QED
  BY <1>1, <1>2, <1>3, <1>4, <1>5, <1>6, <1>7, <1>8 DEF Step

(* A token arrives, and the text may be cut in front of it. *)
LEMMA ArriveStep ==
  ASSUME Arrive
  PROVE  /\ qa' = qa /\ ct' = ct /\ phase' = phase /\ first' = first /\ worker' = worker
         /\ phase = "text" /\ pos' = pos + 1
         /\ \E t \in Tokens : text' = Append(text, t)
         /\ cuts' = cuts \/ \E piece : cuts' = Append(cuts, Here(piece))
<1>1. /\ qa' = qa /\ pos' = pos + 1
      /\ \E t \in Tokens : Feed(t)
  <2>1. "" \in Keys \union {""} /\ FALSE \in BOOLEAN
    OBVIOUS
  <2>2. CASE Serial!LCB /\ Feed(Token("LCB", "", FALSE))
    BY <2>2 DEF Serial!LCB, Serial!ReadLCB, Token, Tokens
  <2>3. CASE Serial!RCB /\ Feed(Token("RCB", "", FALSE))
    BY <2>3 DEF Serial!RCB, Serial!ReadRCB, Token, Tokens
  <2>4. CASE Serial!LB /\ Feed(Token("LB", "", FALSE))
    BY <2>4 DEF Serial!LB, Serial!ReadLB, Token, Tokens
  <2>5. CASE Serial!RB /\ Feed(Token("RB", "", FALSE))
    BY <2>5 DEF Serial!RB, Serial!ReadRB, Token, Tokens
  <2>6. CASE Serial!COM /\ Feed(Token("COM", "", FALSE))
    BY <2>6 DEF Serial!COM, Serial!ReadCOM, Serial!engineVars, Token, Tokens
  <2>7. CASE \E key \in Keys : Serial!KY(key) /\ Feed(Token("KY", key, FALSE))
    <3>1. PICK key \in Keys : Serial!KY(key) /\ Feed(Token("KY", key, FALSE))
      BY <2>7
    <3>2. Token("KY", key, FALSE) \in Tokens
      BY DEF Token, Tokens
    <3>. QED
      BY <3>1, <3>2 DEF Serial!KY, Serial!ReadKY
  <2>8. CASE \E bare \in Literals : Serial!PRI /\ Feed(Token("PRI", "", bare))
    <3>1. PICK bare \in Literals : Serial!PRI /\ Feed(Token("PRI", "", bare))
      BY <2>8
    <3>2. Token("PRI", "", bare) \in Tokens
      BY LiteralsAssumption DEF Token, Tokens
    <3>. QED
      BY <3>1, <3>2 DEF Serial!PRI, Serial!ReadPRI
  <2>. QED
    BY <2>2, <2>3, <2>4, <2>5, <2>6, <2>7, <2>8, Zenon DEF Arrive
<1>2. /\ ct' = ct /\ phase' = phase /\ first' = first /\ worker' = worker /\ phase = "text"
  BY DEF Arrive, pieceVars
<1>. QED
  BY <1>1, <1>2 DEF Feed, Cut

-----------------------------------------------------------------------------
(***************************************************************************)
(* The inductive invariant is kept by every step.                          *)
(***************************************************************************)
(* A cut is where the next token comes. *)
LEMMA HereAt ==
  ASSUME NEW piece
  PROVE  Here(piece).at = pos
<1>1. PICK s, m, n, t : Here(piece) = [at |-> pos, piece |-> piece, syn |-> s, states |-> n,
                                       matches |-> m, tuples |-> t]
  BY Zenon DEF Here
<1>. QED
  BY <1>1

(* What is left to show of a step that leaves the text alone. *)
LEMMA TreesNext ==
  ASSUME UNCHANGED <<qa, text>>, DOMAIN worker' \subseteq Nat,
         \A c \in DOMAIN worker' : c # 0 => Grown(worker'[c]) /\ worker'[c].end <= Len(text)
  PROVE  TreesGrown'
BY DEF TreesGrown, Grown

(* What is left to show of a step that leaves the cuts alone. *)
LEMMA EngineNext ==
  ASSUME EngineInv, UNCHANGED <<qa, ct, text, pos, cuts>>, first' \in 1 .. Len(cuts),
         phase' # "text", TreesGrown'
  PROVE  EngineInv'
<1>1. QueryType' /\ TextType' /\ CutsType'
  BY DEF EngineInv, QueryType, TextType, CutsType
<1>2. (first \in 1 .. Len(cuts))'
  OBVIOUS
<1>. QED
  BY <1>1, <1>2 DEF EngineInv

(* A step that changes worker 0 only. *)
LEMMA MajorStep ==
  ASSUME EngineInv, UNCHANGED <<qa, ct, text, pos, cuts, first>>, phase' # "text",
         NEW x, worker' = [worker EXCEPT ![0] = x]
  PROVE  EngineInv'
<1>1. DOMAIN worker' = DOMAIN worker
  OBVIOUS
<1>2. \A c \in DOMAIN worker : c # 0 => worker'[c] = worker[c]
  OBVIOUS
<1>3. DOMAIN worker \subseteq Nat
  BY DEF EngineInv, TreesGrown
<1>4. \A c \in DOMAIN worker : c # 0 => Grown(worker[c]) /\ worker[c].end <= Len(text)
  BY DEF EngineInv, TreesGrown
<1>5. \A c \in DOMAIN worker' : c # 0 => Grown(worker'[c]) /\ worker'[c].end <= Len(text)
  BY <1>1, <1>2, <1>4, Zenon
<1>6. TreesGrown'
  BY <1>1, <1>3, <1>5, TreesNext
<1>7. first' \in 1 .. Len(cuts)
  BY DEF EngineInv
<1>. QED
  BY <1>6, <1>7, EngineNext

(* The engine begins with no text and one cut. *)
LEMMA EngineInit ==
  ASSUME Init
  PROVE  EngineInv
<1>1. PICK q \in Queries : qa = q.qa /\ ct = q.ct
  BY DEF Init
<1>2. QueryType
  BY <1>1, QueriesAssumption DEF QueryType, Labels
<1>3. pos = 0 /\ text = <<>> /\ worker = <<>> /\ cuts = <<Here(TRUE)>> /\ first = 1
  BY DEF Init, Serial!Init, Serial!StreamInit
<1>4. PICK x : x = Here(TRUE) /\ x.at = 0
  BY <1>3, HereAt
<1>5. TextType
  BY <1>3 DEF TextType
<1>6. cuts = <<x>>
  BY <1>3, <1>4
<1>7. cuts \in Seq({x}) /\ Len(cuts) = 1 /\ cuts[1] = x
  BY <1>6
<1>8. CutsType
  <2>1. \A n \in 1 .. Len(cuts) : n = 1
    BY <1>7
  <2>0. Len(text) = 0
    BY <1>3
  <2>2. x.at \in Nat /\ x.at <= Len(text)
    <3>1. x.at = 0
      BY <1>4
    <3>. QED
      BY <2>0, <3>1
  <2>3. \A n \in 1 .. Len(cuts) : cuts[n].at \in Nat /\ cuts[n].at <= Len(text)
    BY <1>7, <2>1, <2>2, Zenon
  <2>4. Len(cuts) > 0
    BY <1>7
  <2>5. \E S : cuts \in Seq(S)
    BY <1>7, Zenon
  <2>. QED
    BY <2>3, <2>4, <2>5, Zenon DEF CutsType
<1>9. TreesGrown
  BY <1>3 DEF TreesGrown
<1>. QED
  BY <1>2, <1>3, <1>5, <1>7, <1>8, <1>9 DEF EngineInv

(* Arrive: the text grows and maybe the cuts; no thread runs yet. *)
LEMMA EngineArrive ==
  ASSUME EngineInv, Arrive
  PROVE  EngineInv'
<1>1. /\ qa' = qa /\ ct' = ct /\ phase' = phase /\ first' = first /\ worker' = worker
      /\ phase = "text" /\ pos' = pos + 1
  BY ArriveStep
<1>2. PICK t \in Tokens : text' = Append(text, t)
  BY ArriveStep
<1>3. text \in Seq(Tokens) /\ pos = Len(text) /\ Len(text) \in Nat
  BY LenProperties DEF EngineInv, TextType
<1>4. text' \in Seq(Tokens) /\ Len(text') = Len(text) + 1
  BY <1>2, <1>3, AppendProperties
<1>5. TextType'
  BY <1>1, <1>3, <1>4 DEF TextType
<1>6. QueryType'
  BY <1>1 DEF EngineInv, QueryType
<1>7. CutsType' /\ (first \in 1 .. Len(cuts))'
  <2>0. PICK S : cuts \in Seq(S)
    BY DEF EngineInv, CutsType
  <2>1. PICK l \in Nat : l = Len(cuts) /\ l > 0 /\ first \in 1 .. l
    BY <2>0, LenProperties DEF EngineInv, CutsType
  <2>2. PICK e \in Nat : e = Len(text) /\ Len(text') = e + 1 /\ pos = e
    BY <1>3, <1>4
  <2>3. \A n \in 1 .. l : cuts[n].at \in Nat /\ cuts[n].at <= e
    BY <2>1, <2>2 DEF EngineInv, CutsType
  <2>4. CASE cuts' = cuts
    BY <1>1, <2>0, <2>1, <2>2, <2>3, <2>4 DEF CutsType
  <2>5. CASE \E piece : cuts' = Append(cuts, Here(piece))
    <3>1. PICK piece : cuts' = Append(cuts, Here(piece))
      BY <2>5
    <3>2. PICK x : x = Here(piece) /\ x.at = e
      BY <2>2, HereAt
    <3>3. /\ cuts' \in Seq(S \union {x}) /\ Len(cuts') = l + 1 /\ cuts'[l + 1] = x
          /\ \A m \in 1 .. l : cuts'[m] = cuts[m]
      BY <2>0, <2>1, <3>1, <3>2, AppendAny
    <3>4. \A n \in 1 .. l + 1 : cuts'[n].at \in Nat /\ cuts'[n].at <= e + 1
      <4> SUFFICES ASSUME NEW n \in 1 .. l + 1
                   PROVE  cuts'[n].at \in Nat /\ cuts'[n].at <= e + 1
        OBVIOUS
      <4>1. CASE n = l + 1
        BY <3>2, <3>3, <4>1
      <4>2. CASE n # l + 1
        <5>1. n \in 1 .. l
          BY <4>2
        <5>2. cuts'[n] = cuts[n]
          BY <5>1, <3>3
        <5>3. PICK a \in Nat : a = cuts[n].at /\ a <= e
          BY <5>1, <2>3
        <5>4. cuts'[n].at = a
          BY <5>2, <5>3
        <5>. QED
          BY <5>3, <5>4
      <4>. QED
        BY <4>1, <4>2
    <3>. QED
      BY <1>1, <2>1, <2>2, <3>3, <3>4 DEF CutsType
  <2>. QED
    BY <2>4, <2>5, ArriveStep
<1>8. TreesGrown' /\ worker' = <<>>
  <2>1. worker' = <<>>
    BY <1>1 DEF EngineInv
  <2>. QED
    BY <2>1 DEF TreesGrown
<1>. QED
  BY <1>5, <1>6, <1>7, <1>8 DEF EngineInv

(* The threads of the piece that begins at cut n; thread 0 is whatever it is. *)
LEMMA ThreadsGrown ==
  ASSUME EngineInv, NEW n \in 1 .. Len(cuts), NEW w0, NEW st,
         UNCHANGED <<qa, ct, text, pos, cuts>>, phase' # "text", first' = n,
         worker' = Threads(n, w0, st)
  PROVE  EngineInv'
<1>0. QueryType /\ TextType /\ CutsType
  BY DEF EngineInv
<1>1. \A c \in ChunksOf(n) : c \in Nat /\ n + c \in 1 .. Len(cuts)
  BY <1>0, NextStartFacts DEF CutsType
<1>2. DOMAIN worker' = ChunksOf(n)
  BY DEF Threads
<1>3. ASSUME NEW c \in DOMAIN worker', c # 0
      PROVE  Grown(worker'[c]) /\ worker'[c].end <= Len(text)
  <2>1. PICK m \in 1 .. Len(cuts) : m = n + c
    BY <1>1, <1>2, <1>3
  <2>2. PICK v : v = StartWorker(c, cuts[m].at, chunkEnd(m), st[c])
    OBVIOUS
  <2>3. worker'[c] = v
    BY <1>2, <1>3, <2>1, <2>2 DEF Threads
  <2>4. PICK b \in Nat, e \in Nat : b = cuts[m].at /\ e = chunkEnd(m) /\ e <= Len(text)
    BY <1>0, ChunkEndFacts
  <2>5. Grown(v) /\ v.end = e
    BY <1>0, <2>2, <2>4, StartedThread
  <2>. QED
    BY <2>3, <2>4, <2>5
<1>4. DOMAIN worker' \subseteq Nat
  BY <1>1, <1>2
<1>5. TreesGrown'
  BY <1>3, <1>4, TreesNext
<1>. QED
  BY <1>5, EngineNext

(* CreateThreads starts those of the first piece, *)
LEMMA EngineCreateThreads ==
  ASSUME EngineInv, CreateThreads
  PROVE  EngineInv'
<1>1. PICK st, w0 : worker' = Threads(first, w0, st)
  BY Zenon DEF CreateThreads
<1>2. /\ UNCHANGED <<qa, ct, text, pos, cuts>> /\ first' = first /\ phase' # "text"
  BY DEF CreateThreads, serialVars, pieceVars
<1>3. first \in 1 .. Len(cuts)
  BY DEF EngineInv
<1>. QED
  BY <1>1, <1>2, <1>3, ThreadsGrown

(* parallelPartialRun those of a later one. *)
LEMMA EngineNextPiece ==
  ASSUME EngineInv, parallelPartialRun
  PROVE  EngineInv'
<1>1. PICK n : n = NextStart(first)
  OBVIOUS
<1>2. PICK st, w0 : worker' = Threads(n, w0, st)
  BY <1>1, Zenon DEF parallelPartialRun
<1>3. /\ UNCHANGED <<qa, ct, text, pos>> /\ first' = n /\ phase' # "text"
      /\ cuts' = cuts
  BY <1>1 DEF parallelPartialRun, serialVars
<1>4. n \in 1 .. Len(cuts)
  BY <1>1, NextStartFacts DEF EngineInv, CutsType, parallelPartialRun, LastPiece
<1>. QED
  BY <1>2, <1>3, <1>4, ThreadsGrown

(* Run(c): thread c reads a token of its chunk. *)
LEMMA EngineRun ==
  ASSUME EngineInv, NEW c, c \in Chunks, Run(c)
  PROVE  EngineInv'
<1>1. /\ UNCHANGED <<qa, ct, text, pos, cuts, first>> /\ phase' # "text"
  BY StepAlone DEF Run, serialVars, pieceVars
<1>2. PICK x : worker' = [worker EXCEPT ![c] = x]
  BY StepAlone DEF Run
<1>3. DOMAIN worker' = DOMAIN worker /\ DOMAIN worker \subseteq Nat
  BY <1>2 DEF EngineInv, TreesGrown
<1>4. ASSUME NEW a \in DOMAIN worker', a # 0
      PROVE  Grown(worker'[a]) /\ worker'[a].end <= Len(text)
  <2>1. a \in DOMAIN worker /\ Grown(worker[a]) /\ worker[a].end <= Len(text)
    BY <1>3, <1>4 DEF EngineInv, TreesGrown
  <2>2. CASE a # c
    <3>1. worker'[a] = worker[a]
      BY <1>2, <2>1, <2>2
    <3>. QED
      BY <2>1, <3>1
  <2>3. CASE a = c
    <3>1. PICK e \in Nat : e = worker[a].end
      BY <2>1 DEF Grown, IsWorker
    <3>2. PICK l \in Nat : l = Len(text) /\ text \in Seq(Tokens) /\ e <= l
      BY <2>1, <3>1, LenProperties DEF EngineInv, TextType
    <3>3. \A p \in 1 .. worker[c].end : text[p] \in Tokens
      BY <2>3, <3>1, <3>2, ElementOfSeq
    <3>4. \A p \in 1 .. worker[c].end : text[p].type = "KY" => text[p].key \in Labels
      BY <3>3 DEF Tokens, Labels
    <3>5. QueryType /\ Step(c)
      BY DEF EngineInv, Run
    <3>6. Grown(worker'[c]) /\ worker'[c].end = worker[c].end
      BY <2>1, <2>3, <3>4, <3>5, StepGrows
    <3>. QED
      BY <2>1, <2>3, <3>6
  <2>. QED
    BY <2>2, <2>3
<1>5. TreesGrown'
  BY <1>1, <1>3, <1>4, TreesNext
<1>6. first' \in 1 .. Len(cuts)
  BY <1>1 DEF EngineInv
<1>. QED
  BY <1>1, <1>5, <1>6, EngineNext

(* JoinThreads changes no thread. *)
LEMMA EngineJoin ==
  ASSUME EngineInv, JoinThreads
  PROVE  EngineInv'
<1>1. /\ UNCHANGED <<qa, ct, text, pos, cuts, first, worker>> /\ phase' # "text"
  BY DEF JoinThreads, serialVars, workerVars, pieceVars
<1>2. TreesGrown'
  BY <1>1 DEF EngineInv, TreesGrown, Grown
<1>3. first' \in 1 .. Len(cuts)
  BY <1>1 DEF EngineInv
<1>. QED
  BY <1>1, <1>2, <1>3, EngineNext

(* combine works on worker 0 and leaves the others as they finished. *)
LEMMA EngineCombine ==
  ASSUME EngineInv, Combine
  PROVE  EngineInv'
<1>1. CASE Replay
  <2>1. /\ UNCHANGED <<qa, ct, text, pos, cuts, first>> /\ phase' # "text"
    BY <1>1 DEF Replay, serialVars, pieceVars
  <2>2. PICK x : worker' = [worker EXCEPT ![0] = x]
    BY <1>1, Zenon DEF Replay, ReplaySymbol
  <2>. QED
    BY <2>1, <2>2, MajorStep
<1>2. CASE TakeUnit
  <2>1. /\ UNCHANGED <<qa, ct, text, pos, cuts, first>> /\ phase' # "text"
    BY <1>2 DEF TakeUnit, Replayed, serialVars, pieceVars
  <2>2. PICK x : worker' = [worker EXCEPT ![0] = x]
    BY <1>2, Zenon DEF TakeUnit
  <2>. QED
    BY <2>1, <2>2, MajorStep
<1>3. CASE Reprocess
  <2>1. /\ UNCHANGED <<qa, ct, text, pos, cuts, first>> /\ phase' # "text"
    BY <1>3 DEF Reprocess, serialVars, pieceVars
  <2>2. CASE \E x : worker' = [worker EXCEPT ![0] = x]
    <3>1. PICK x : worker' = [worker EXCEPT ![0] = x]
      BY <2>2
    <3>. QED
      BY <2>1, <3>1, MajorStep
  <2>3. CASE worker' = worker
    <3>1. TreesGrown'
      BY <2>1, <2>3 DEF EngineInv, TreesGrown, Grown
    <3>2. first' \in 1 .. Len(cuts)
      BY <2>1 DEF EngineInv
    <3>. QED
      BY <2>1, <3>1, <3>2, EngineNext
  <2>. QED
    BY <1>3, <2>2, <2>3, Zenon DEF Reprocess
<1>4. CASE RunAgain
  <2>1. /\ UNCHANGED <<qa, ct, text, pos, cuts, first>> /\ phase' # "text"
    BY <1>4, StepAlone DEF RunAgain, serialVars, pieceVars
  <2>2. PICK x : worker' = [worker EXCEPT ![0] = x]
    BY <1>4, StepAlone DEF RunAgain
  <2>. QED
    BY <2>1, <2>2, MajorStep
<1>5. CASE Reprocessed
  <2>1. /\ UNCHANGED <<qa, ct, text, pos, cuts, first, worker>> /\ phase' # "text"
    BY <1>5 DEF Reprocessed, NextChunk, serialVars, workerVars, pieceVars
  <2>2. TreesGrown'
    BY <2>1 DEF EngineInv, TreesGrown, Grown
  <2>3. first' \in 1 .. Len(cuts)
    BY <2>1 DEF EngineInv
  <2>. QED
    BY <2>1, <2>2, <2>3, EngineNext
<1>6. CASE MergeStacks
  <2>1. /\ UNCHANGED <<qa, ct, text, pos, cuts, first>> /\ phase' # "text"
    BY <1>6 DEF MergeStacks, NextChunk, serialVars, pieceVars
  <2>2. PICK s, ls : worker' = [worker EXCEPT ![0].ss = s, ![0].levels = ls]
    BY <1>6 DEF MergeStacks
  <2>3. worker' = [worker EXCEPT ![0] = [worker[0] EXCEPT !.ss = s, !.levels = ls]]
    BY <2>2
  <2>. QED
    BY <2>1, <2>3, MajorStep
<1>. QED
  BY <1>1, <1>2, <1>3, <1>4, <1>5, <1>6 DEF Combine

(* The invariant holds in every state of the engine, whatever the query
   automaton, its constraint table, the text, the cuts and the interleaving
   of the threads. *)
THEOREM EngineKept == Spec => []EngineInv
<1>1. Init => EngineInv
  BY EngineInit
<1>2. EngineInv /\ [Next]_vars => EngineInv'
  <2> SUFFICES ASSUME EngineInv, [Next]_vars
               PROVE  EngineInv'
    OBVIOUS
  <2>1. CASE Next
    BY <2>1, EngineArrive, EngineCreateThreads, EngineRun, EngineJoin, EngineCombine,
       EngineNextPiece DEF Next
  <2>2. CASE UNCHANGED vars
    <3>1. UNCHANGED <<qa, ct, text, pos, cuts, first, worker, phase>>
      BY <2>2 DEF vars, serialVars, workerVars, pieceVars
    <3>. QED
      BY <3>1 DEF EngineInv, QueryType, TextType, CutsType, TreesGrown, Grown
  <2>. QED
    BY <2>1, <2>2
<1>. QED
  BY <1>1, <1>2, PTL DEF Spec

(* Every worker's tree gives each of its roots one run of the query automaton
   of its own, along the labels from its first level to its last
   (multi_stack.h, getNextNode and pruneQueryPaths; the handlers of
   worker_automaton.c). *)
THEOREM RunPerRoot == Spec => []OneRunPerRoot
<1>1. EngineInv => OneRunPerRoot
  BY GrownRuns DEF EngineInv, TreesGrown
<1>. QED
  BY <1>1, EngineKept, PTL

-----------------------------------------------------------------------------
(***************************************************************************)
(* The serial engine reads the text as it arrives: its invariant, and what *)
(* its tokens do to its syntax stack.                                      *)
(***************************************************************************)
SP == INSTANCE StreamingAutomatonProofs WITH
            Queries <- {q.qa : q \in Queries}, MaxStack <- 100,
            DataConstraintFlag <- FALSE,
            ct <- [l \in Keys \union {ARRAY} |-> {}],
            ss <- syn, qs <- qry, cur <- elt, tl <- tuples

(* The serial engine of this module is the one the theorems about it are for. *)
LEMMA SerialAssumptions ==
  /\ SP!ARRAY \notin Keys /\ SP!ANY_KEY \notin Keys /\ MaxTokens \in Nat
  /\ \A q \in {q.qa : q \in Queries} : SP!IsQueryDFA(q)
  /\ 100 \in Nat \ {0}
  /\ FALSE \in BOOLEAN
<1>1. \A q \in Queries : IsQueryDFA(q.qa)
  BY QueriesAssumption
<1>2. \A q : IsQueryDFA(q) <=> SP!IsQueryDFA(q)
  BY DEF IsQueryDFA, SP!IsQueryDFA, SP!States, States, SP!ARRAY, ARRAY, SP!ANY_KEY, ANY_KEY,
     SP!NO_MATCH, SP!PREDICATE, NO_MATCH, PREDICATE, SP!PredicatesAreElements, PredicatesAreElements
<1>. QED
  BY <1>1, <1>2, KeysAssumption, MaxTokensAssumption DEF SP!ARRAY, ARRAY, SP!ANY_KEY, ANY_KEY
LEMMA SameLCB == Serial!LCB => SP!LCB
BY DEF Serial!LCB, SP!LCB, Serial!Defined, SP!Defined, Serial!ReadLCB, SP!ReadLCB,
     Serial!ExpectsValue, SP!ExpectsValue, Serial!Innermost, SP!Innermost, Serial!Enter, SP!Enter,
     Serial!Push, SP!Push, Serial!Overflow, SP!Overflow, Serial!Matched, SP!Matched,
     Serial!MatchedType, SP!MatchedType, Serial!InSlice, SP!InSlice, Serial!OUTPUT_CANDIDATE,
     SP!OUTPUT_CANDIDATE, Serial!NO_MATCH, SP!NO_MATCH, Serial!PREDICATE, SP!PREDICATE,
     Serial!CONDITION, SP!CONDITION, Serial!Mark, SP!Mark, Serial!Tuple, SP!Tuple, Serial!INVALID,
     SP!INVALID

LEMMA SameRCB == Serial!RCB => SP!RCB
BY DEF Serial!RCB, SP!RCB, Serial!Defined, SP!Defined, Serial!ReadRCB, SP!ReadRCB,
     Serial!Innermost, SP!Innermost, Serial!ValueDone, SP!ValueDone, Serial!Completes, SP!Completes,
     Serial!Completed, SP!Completed, Serial!Matched, SP!Matched, Serial!MatchedType, SP!MatchedType,
     Serial!InSlice, SP!InSlice, Serial!OUTPUT_CANDIDATE, SP!OUTPUT_CANDIDATE, Serial!NO_MATCH,
     SP!NO_MATCH, Serial!PREDICATE, SP!PREDICATE, Serial!INVALID, SP!INVALID,
     Serial!syntaxStackSecondTop, SP!syntaxStackSecondTop, Serial!queryStackTop, SP!queryStackTop,
     Serial!TopOr, SP!TopOr, Serial!InvalidElement, SP!InvalidElement, Serial!increaseArrayCounter,
     SP!increaseArrayCounter, Serial!Pop, SP!Pop, Serial!ElementMark, SP!ElementMark, Serial!Mark,
     SP!Mark, Serial!Tuple, SP!Tuple, Serial!ValueTuple, SP!ValueTuple, Serial!Front, SP!Front,
     Serial!Last, SP!Last

LEMMA SameLB == Serial!LB => SP!LB
BY DEF Serial!LB, SP!LB, Serial!Defined, SP!Defined, Serial!ReadLB, SP!ReadLB,
     Serial!ExpectsValue, SP!ExpectsValue, Serial!Innermost, SP!Innermost, Serial!Enter, SP!Enter,
     Serial!Push, SP!Push, Serial!Overflow, SP!Overflow, Serial!Matched, SP!Matched,
     Serial!MatchedType, SP!MatchedType, Serial!InSlice, SP!InSlice, Serial!OUTPUT_CANDIDATE,
     SP!OUTPUT_CANDIDATE, Serial!NO_MATCH, SP!NO_MATCH, Serial!CONDITION, SP!CONDITION, Serial!Mark,
     SP!Mark, Serial!Tuple, SP!Tuple, Serial!INVALID, SP!INVALID, Serial!ARRAY, SP!ARRAY,
     Serial!addConstraintInfo, SP!addConstraintInfo, Serial!NextElement, SP!NextElement,
     Serial!Advance, SP!Advance, Serial!dfaNextStateByStr, SP!dfaNextStateByStr, Serial!ANY_KEY,
     SP!ANY_KEY

LEMMA SameRB == Serial!RB => SP!RB
BY DEF Serial!RB, SP!RB, Serial!Defined, SP!Defined, Serial!ReadRB, SP!ReadRB,
     Serial!Innermost, SP!Innermost, Serial!ValueDone, SP!ValueDone, Serial!Completes, SP!Completes,
     Serial!Completed, SP!Completed, Serial!Matched, SP!Matched, Serial!MatchedType, SP!MatchedType,
     Serial!InSlice, SP!InSlice, Serial!OUTPUT_CANDIDATE, SP!OUTPUT_CANDIDATE, Serial!NO_MATCH,
     SP!NO_MATCH, Serial!INVALID, SP!INVALID, Serial!syntaxStackSecondTop, SP!syntaxStackSecondTop,
     Serial!queryStackTop, SP!queryStackTop, Serial!TopOr, SP!TopOr, Serial!InvalidElement,
     SP!InvalidElement, Serial!increaseArrayCounter, SP!increaseArrayCounter, Serial!Pop, SP!Pop,
     Serial!Tuple, SP!Tuple, Serial!ValueTuple, SP!ValueTuple, Serial!Front, SP!Front, Serial!Last,
     SP!Last

LEMMA SameCOM == Serial!COM => SP!COM
BY DEF Serial!COM, SP!COM, Serial!Defined, SP!Defined, Serial!ReadCOM, SP!ReadCOM,
     Serial!Innermost, SP!Innermost, Serial!INVALID, SP!INVALID, Serial!engineVars, SP!engineVars,
     Serial!ARRAY, SP!ARRAY

LEMMA SameKY == ASSUME NEW key PROVE Serial!KY(key) => SP!KY(key)
BY DEF Serial!KY, SP!KY, Serial!Defined, SP!Defined, Serial!ReadKY, SP!ReadKY,
     Serial!Innermost, SP!Innermost, Serial!Enter, SP!Enter, Serial!Push, SP!Push, Serial!Overflow,
     SP!Overflow, Serial!INVALID, SP!INVALID, Serial!ARRAY, SP!ARRAY, Serial!addConstraintInfo,
     SP!addConstraintInfo, Serial!NextElement, SP!NextElement, Serial!Advance, SP!Advance,
     Serial!dfaNextStateByStr, SP!dfaNextStateByStr, Serial!ANY_KEY, SP!ANY_KEY, Serial!InSlice,
     SP!InSlice

LEMMA SamePRI == Serial!PRI => SP!PRI
BY DEF Serial!PRI, SP!PRI, Serial!Defined, SP!Defined, Serial!ReadPRI, SP!ReadPRI,
     Serial!ExpectsValue, SP!ExpectsValue, Serial!Innermost, SP!Innermost, Serial!ValueDone,
     SP!ValueDone, Serial!Matched, SP!Matched, Serial!MatchedType, SP!MatchedType, Serial!InSlice,
     SP!InSlice, Serial!OUTPUT_CANDIDATE, SP!OUTPUT_CANDIDATE, Serial!NO_MATCH, SP!NO_MATCH,
     Serial!CONDITION, SP!CONDITION, Serial!INVALID, SP!INVALID, Serial!queryStackTop,
     SP!queryStackTop, Serial!TopOr, SP!TopOr, Serial!InvalidElement, SP!InvalidElement,
     Serial!increaseArrayCounter, SP!increaseArrayCounter, Serial!Pop, SP!Pop, Serial!Tuple,
     SP!Tuple, Serial!ValueTuple, SP!ValueTuple, Serial!Front, SP!Front, Serial!Last, SP!Last

LEMMA SerialInit == Serial!Init => SP!Init
BY DEF Serial!Init, SP!Init, Serial!StreamInit, SP!StreamInit, Serial!StartElement, SP!StartElement,
       Serial!INVALID, SP!INVALID, Serial!ARRAY, SP!ARRAY

(* The serial engine makes a step with every token. *)
SerialNext ==
  \/ Serial!LCB \/ Serial!RCB \/ Serial!LB \/ Serial!RB \/ Serial!COM
  \/ (\E key \in Keys : Serial!KY(key)) \/ Serial!PRI

LEMMA SerialSteps == SerialNext => SP!Next
<1> SUFFICES ASSUME SerialNext PROVE SP!Next
  OBVIOUS
<1>1. CASE Serial!LCB
  BY <1>1, SameLCB DEF SP!Next
<1>2. CASE Serial!RCB
  BY <1>2, SameRCB DEF SP!Next
<1>3. CASE Serial!LB
  BY <1>3, SameLB DEF SP!Next
<1>4. CASE Serial!RB
  BY <1>4, SameRB DEF SP!Next
<1>5. CASE Serial!COM
  BY <1>5, SameCOM DEF SP!Next
<1>6. ASSUME NEW key \in Keys, Serial!KY(key) PROVE SP!Next
  BY <1>6, SameKY DEF SP!Next
<1>7. CASE Serial!PRI
  BY <1>7, SamePRI DEF SP!Next
<1>. QED
  BY <1>1, <1>2, <1>3, <1>4, <1>5, <1>6, <1>7 DEF SerialNext

LEMMA SerialKept ==
  ASSUME SP!IInv, SerialNext
  PROVE  SP!IInv'
<1>0. SP!Next
  BY SerialSteps
<1>1. [SP!Next]_(SP!vars)
  BY <1>0
<1>2. SP!StreamInv /\ SP!TypeOK
  BY DEF SP!IInv
<1>3. SP!StreamInv'
  BY <1>1, <1>2, SerialAssumptions, SP!StreamStep
<1>4. SP!EngineType'
  BY <1>1, <1>2, SerialAssumptions, SP!EngineStep
<1>5. SP!Sync'
  BY <1>1, SerialAssumptions, SP!SyncStep
<1>. QED
  BY <1>3, <1>4, <1>5 DEF SP!IInv, SP!TypeOK, SP!EngineType, SP!StreamInv

(* What encloses the place the serial engine is at. *)
Syms(o) == [n \in DOMAIN o |-> o[n].sym]

(* Entry by entry. *)
LEMMA SymsOf ==
  ASSUME NEW o \in Seq(SP!Entry), NEW n \in Nat, n = Len(o)
  PROVE  /\ Syms(o) \in Seq(Symbols) /\ Len(Syms(o)) = n
         /\ \A m \in 1 .. n : Syms(o)[m] = o[m].sym /\ o[m].sym \in Symbols
         /\ Syms(o) = <<>> <=> o = <<>>
<1>1. \A m \in 1 .. n : o[m] \in SP!Entry
  BY ElementOfSeq
<1>2. \A m \in 1 .. n : o[m].sym \in Symbols
  BY <1>1 DEF SP!Entry, SP!Symbol, Symbols
<1>3. DOMAIN o = 1 .. n
  BY LenProperties
<1>4. PICK s : s = Syms(o)
  OBVIOUS
<1>5. s = [m \in 1 .. n |-> o[m].sym]
  BY <1>3, <1>4 DEF Syms
<1>6. s \in [1 .. n -> Symbols]
  BY <1>2, <1>5
<1>7. s \in Seq(Symbols) /\ Len(s) = n
  BY <1>6, FunctionIsSeq
<1>8. s = <<>> <=> n = 0
  BY <1>7, EmptySeq
<1>9. o = <<>> <=> n = 0
  BY EmptySeq
<1>. QED
  BY <1>2, <1>4, <1>5, <1>7, <1>8, <1>9

LEMMA SymsFacts ==
  ASSUME SP!StreamInv
  PROVE  /\ Syms(open) \in Seq(Symbols) /\ Len(Syms(open)) = Len(open) /\ Len(open) \in Nat
         /\ \A m \in 1 .. Len(open) : Syms(open)[m] = open[m].sym /\ open[m].sym \in Symbols
         /\ Syms(open) = <<>> <=> open = <<>>
<1>1. PICK n \in Nat : n = Len(open) /\ open \in Seq(SP!Entry)
  BY LenProperties DEF SP!StreamInv, SP!StreamTypeOK
<1>. QED
  BY <1>1, SymsOf

(* The top of them. *)
LEMMA SymsTop ==
  ASSUME SP!StreamInv, open # <<>>
  PROVE  Last(Syms(open)) = SP!Innermost /\ Syms(open) # <<>>
<1>1. PICK s : s = Syms(open)
  OBVIOUS
<1>2. PICK n \in Nat : n = Len(open)
  BY SymsFacts
<1>3. s \in Seq(Symbols) /\ Len(s) = n /\ s # <<>> /\ \A m \in 1 .. n : s[m] = open[m].sym
  BY <1>1, <1>2, SymsFacts
<1>4. n > 0
  BY <1>3, EmptySeq
<1>5. Last(s) = s[n]
  BY <1>3 DEF Last
<1>. QED
  BY <1>1, <1>2, <1>3, <1>4, <1>5 DEF SP!Innermost

(* The entries after the step. *)
LEMMA SymsNext ==
  ASSUME SP!StreamInv', NEW s \in Seq(Symbols), NEW n \in Nat, n = Len(open'), Len(s) = n,
         \A m \in 1 .. n : s[m] = open'[m].sym
  PROVE  Syms(open)' = s
<1>1. PICK r : r = Syms(open')
  OBVIOUS
<1>2. r \in Seq(Symbols) /\ Len(r) = n /\ \A m \in 1 .. n : r[m] = open'[m].sym
  <2>1. open' \in Seq(SP!Entry)
    BY DEF SP!StreamInv, SP!StreamTypeOK
  <2>. QED
    BY <1>1, <2>1, SymsOf
<1>3. s = r
  BY <1>2, SeqEqual
<1>. QED
  BY <1>1, <1>3

(* A value is complete, with the first m entries around it. *)
LEMMA ValueEndsSyms ==
  ASSUME SP!StreamInv, SP!StreamInv', NEW m \in 0 .. Len(open), NEW l, SP!ValueEnds(m, l),
         NEW s \in Seq(Symbols), Len(s) = m, \A n \in 1 .. m : s[n] = open[n].sym
  PROVE  Syms(open)' = ValueOver(s)
<1>1. m \in Nat
  BY SymsFacts
<1>2. CASE m = 0
  <2>1. s = <<>> /\ ValueOver(s) = s
    BY <1>2, EmptySeq DEF ValueOver
  <2>2. Len(open') = 0
    BY <1>2 DEF SP!ValueEnds
  <2>3. PICK z \in Nat : z = 0
    OBVIOUS
  <2>4. \A n \in 1 .. z : s[n] = open'[n].sym
    BY <2>3
  <2>5. Len(s) = z /\ z = Len(open')
    BY <1>2, <2>2, <2>3
  <2>. QED
    BY <2>1, <2>4, <2>5, SymsNext
<1>3. CASE m > 0 /\ open[m].sym = "KY"
  <2>1. /\ Len(open') = m - 1 /\ \A n \in 1 .. m - 1 : open'[n] = open[n]
    BY <1>3 DEF SP!ValueEnds
  <2>2. s # <<>> /\ Last(s) = s[m] /\ s[m] = "KY"
    BY <1>1, <1>3, EmptySeq DEF Last
  <2>3. PICK f : f = Front(s)
    OBVIOUS
  <2>4. f \in Seq(Symbols) /\ Len(f) = m - 1 /\ \A n \in 1 .. m - 1 : f[n] = s[n]
    BY <1>1, <2>2, <2>3, FrontFacts
  <2>5. ValueOver(s) = f
    BY <2>2, <2>3 DEF ValueOver
  <2>6. PICK r \in Nat : r = m - 1
    BY <1>1, <1>3
  <2>7. \A n \in 1 .. r : f[n] = open'[n].sym
    BY <1>1, <2>1, <2>4, <2>6
  <2>. QED
    BY <2>1, <2>4, <2>5, <2>6, <2>7, SymsNext
<1>4. CASE m > 0 /\ open[m].sym = "LB"
  <2>1. /\ Len(open') = m /\ \A n \in 1 .. m : open'[n] = open[n]
    BY <1>4 DEF SP!ValueEnds
  <2>2. Last(s) = s[m] /\ s[m] = "LB"
    BY <1>1, <1>4 DEF Last
  <2>3. ValueOver(s) = s
    BY <2>2 DEF ValueOver
  <2>. QED
    BY <1>1, <2>1, <2>3, SymsNext
<1>. QED
  BY <1>1, <1>2, <1>3, <1>4 DEF SP!ValueEnds

(* A container or a member begins. *)
LEMMA OpensSyms ==
  ASSUME SP!StreamInv, NEW t \in Symbols, SP!StreamInv',
         Len(open') = Len(open) + 1, \A m \in 1 .. Len(open) : open'[m] = open[m],
         open'[Len(open) + 1].sym = t
  PROVE  Syms(open)' = Pushed(Syms(open), t)
<1>0. PICK n \in Nat : n = Len(open)
  BY SymsFacts
<1>1. PICK s : n = Len(open) /\ s = Syms(open)
  BY <1>0
<1>2. s \in Seq(Symbols) /\ Len(s) = n /\ \A m \in 1 .. n : s[m] = open[m].sym
  BY <1>1, SymsFacts
<1>3. PICK r : r = Pushed(s, t)
  OBVIOUS
<1>4. /\ r \in Seq(Symbols) /\ Len(r) = n + 1 /\ r[n + 1] = t
      /\ \A m \in 1 .. n : r[m] = s[m]
  BY <1>2, <1>3, AppendProperties DEF Pushed
<1>5. \A m \in 1 .. n + 1 : r[m] = open'[m].sym
  <2> SUFFICES ASSUME NEW m \in 1 .. n + 1 PROVE r[m] = open'[m].sym
    OBVIOUS
  <2>1. CASE m = n + 1
    BY <1>1, <1>4, <2>1
  <2>2. CASE m # n + 1
    <3>1. m \in 1 .. n
      BY <2>2
    <3>. QED
      BY <1>1, <1>2, <1>4, <3>1
  <2>. QED
    BY <2>1, <2>2
<1>6. PICK e \in Nat : e = n + 1
  OBVIOUS
<1>7. Syms(open)' = r
  BY <1>1, <1>4, <1>5, <1>6, SymsNext
<1>. QED
  BY <1>1, <1>3, <1>7

(* Where the grammar admits a value, one may stand. *)
LEMMA SymsPlace ==
  ASSUME SP!StreamInv, SP!ExpectsValue
  PROVE  Place(Syms(open))
<1>1. CASE open = <<>>
  BY <1>1, SymsFacts DEF Place
<1>2. CASE open # <<>>
  <2>1. Last(Syms(open)) = SP!Innermost /\ Syms(open) # <<>>
    BY <1>2, SymsTop
  <2>2. SP!Innermost # "LCB"
    BY <1>2 DEF SP!ExpectsValue, SP!StreamInv, SP!StreamShape
  <2>3. SP!Innermost \in Symbols
    <3>1. PICK n \in Nat : n = Len(open)
      BY SymsFacts
    <3>2. n \in 1 .. n
      BY <1>2, <2>1, <3>1, SymsFacts, EmptySeq
    <3>. QED
      BY <3>1, <3>2, SymsFacts DEF SP!Innermost
  <2>. QED
    BY <2>1, <2>2, <2>3 DEF Place, Symbols
<1>. QED
  BY <1>1, <1>2

(* Every token of the serial engine nests what encloses it. *)
LEMMA SerialLCB ==
  ASSUME SP!StreamInv, Serial!LCB
  PROVE  SyntaxStep("LCB", Syms(open), Syms(open)')
<1>1. SP!ReadLCB
  BY SameLCB DEF SP!LCB
<1>2. PICK t : t = "LCB"
  OBVIOUS
<1>3. t \in SP!Symbol /\ t \in Symbols /\ SP!ARRAY \in Keys \union {SP!ARRAY}
  BY <1>2 DEF SP!Symbol, Symbols
<1>4. /\ pos' = pos + 1 /\ open' = SP!Enter(t) /\ path' = path /\ expect' = "first"
      /\ SP!ExpectsValue
  BY <1>1, <1>2 DEF SP!ReadLCB
<1>5. /\ SP!StreamInv' /\ Len(open') = Len(open) + 1
      /\ \A m \in 1 .. Len(open) : open'[m] = open[m]
      /\ open'[Len(open) + 1].sym = t
  <2>1. path' = IF t = "LCB" THEN path ELSE Append(path, [key |-> SP!ARRAY, idx |-> 0])
    BY <1>2, <1>4
  <2>2. expect' = IF t = "KY" THEN "value" ELSE "first"
    BY <1>2, <1>4
  <2>3. IF t = "KY" THEN expect \in {"first", "key"} /\ SP!Innermost = "LCB"
                    ELSE SP!ExpectsValue
    BY <1>2, <1>4
  <2>4. /\ SP!StreamInv' /\ Len(open') = Len(open) + 1
        /\ \A m \in 1 .. Len(open) : open'[m] = open[m]
        /\ open'[Len(open) + 1] = [sym |-> t, from |-> pos + 1, depth |-> Len(path)]
    BY <1>3, <1>4, <2>1, <2>2, <2>3, SerialAssumptions, SP!OpenFacts
  <2>. QED
    BY <2>4
<1>6. Syms(open)' = Pushed(Syms(open), t)
  BY <1>3, <1>5, OpensSyms
<1>7. Place(Syms(open))
  BY <1>4, SymsPlace
<1>. QED
  BY <1>2, <1>6, <1>7 DEF SyntaxStep

LEMMA SerialLB ==
  ASSUME SP!StreamInv, Serial!LB
  PROVE  SyntaxStep("LB", Syms(open), Syms(open)')
<1>1. SP!ReadLB
  BY SameLB DEF SP!LB
<1>2. PICK t : t = "LB"
  OBVIOUS
<1>3. t \in SP!Symbol /\ t \in Symbols /\ SP!ARRAY \in Keys \union {SP!ARRAY}
  BY <1>2 DEF SP!Symbol, Symbols
<1>4. /\ pos' = pos + 1 /\ open' = SP!Enter(t) /\ expect' = "first"
      /\ path' = Append(path, [key |-> SP!ARRAY, idx |-> 0])
      /\ SP!ExpectsValue
  BY <1>1, <1>2 DEF SP!ReadLB
<1>5. /\ SP!StreamInv' /\ Len(open') = Len(open) + 1
      /\ \A m \in 1 .. Len(open) : open'[m] = open[m]
      /\ open'[Len(open) + 1].sym = t
  <2>1. path' = IF t = "LCB" THEN path ELSE Append(path, [key |-> SP!ARRAY, idx |-> 0])
    BY <1>2, <1>4
  <2>2. expect' = IF t = "KY" THEN "value" ELSE "first"
    BY <1>2, <1>4
  <2>3. IF t = "KY" THEN expect \in {"first", "key"} /\ SP!Innermost = "LCB"
                    ELSE SP!ExpectsValue
    BY <1>2, <1>4
  <2>4. /\ SP!StreamInv' /\ Len(open') = Len(open) + 1
        /\ \A m \in 1 .. Len(open) : open'[m] = open[m]
        /\ open'[Len(open) + 1] = [sym |-> t, from |-> pos + 1, depth |-> Len(path)]
    BY <1>3, <1>4, <2>1, <2>2, <2>3, SerialAssumptions, SP!OpenFacts
  <2>. QED
    BY <2>4
<1>6. Syms(open)' = Pushed(Syms(open), t)
  BY <1>3, <1>5, OpensSyms
<1>7. Place(Syms(open))
  BY <1>4, SymsPlace
<1>. QED
  BY <1>2, <1>6, <1>7 DEF SyntaxStep

LEMMA SerialKY ==
  ASSUME SP!StreamInv, NEW key \in Keys, Serial!KY(key)
  PROVE  SyntaxStep("KY", Syms(open), Syms(open)')
<1>1. SP!ReadKY(key)
  BY SameKY DEF SP!KY
<1>2. PICK t : t = "KY"
  OBVIOUS
<1>3. t \in SP!Symbol /\ t \in Symbols /\ key \in Keys \union {SP!ARRAY}
  BY <1>2 DEF SP!Symbol, Symbols
<1>4. /\ pos' = pos + 1 /\ open' = SP!Enter(t) /\ expect' = "value"
      /\ path' = Append(path, [key |-> key, idx |-> 0])
      /\ expect \in {"first", "key"} /\ SP!Innermost = "LCB"
  BY <1>1, <1>2 DEF SP!ReadKY
<1>5. /\ SP!StreamInv' /\ Len(open') = Len(open) + 1
      /\ \A m \in 1 .. Len(open) : open'[m] = open[m]
      /\ open'[Len(open) + 1].sym = t
  <2>1. path' = IF t = "LCB" THEN path ELSE Append(path, [key |-> key, idx |-> 0])
    BY <1>2, <1>4
  <2>2. expect' = IF t = "KY" THEN "value" ELSE "first"
    BY <1>2, <1>4
  <2>3. IF t = "KY" THEN expect \in {"first", "key"} /\ SP!Innermost = "LCB"
                    ELSE SP!ExpectsValue
    BY <1>2, <1>4
  <2>4. /\ SP!StreamInv' /\ Len(open') = Len(open) + 1
        /\ \A m \in 1 .. Len(open) : open'[m] = open[m]
        /\ open'[Len(open) + 1] = [sym |-> t, from |-> pos + 1, depth |-> Len(path)]
    BY <1>3, <1>4, <2>1, <2>2, <2>3, SerialAssumptions, SP!OpenFacts
  <2>. QED
    BY <2>4
<1>6. Syms(open)' = Pushed(Syms(open), t)
  BY <1>3, <1>5, OpensSyms
<1>7. open # <<>>
  BY <1>4 DEF SP!StreamInv, SP!StreamShape
<1>8. Last(Syms(open)) = "LCB" /\ Syms(open) # <<>>
  BY <1>4, <1>7, SymsTop
<1>. QED
  BY <1>2, <1>6, <1>8 DEF SyntaxStep

LEMMA SerialCOM ==
  ASSUME SP!StreamInv, Serial!COM
  PROVE  SyntaxStep("COM", Syms(open), Syms(open)')
<1>1. SP!ReadCOM
  BY SameCOM DEF SP!COM
<1>2. open' = open /\ expect = "sep"
  BY <1>1 DEF SP!ReadCOM
<1>3. open # <<>> /\ SP!Innermost # "KY"
  BY <1>2 DEF SP!StreamInv, SP!StreamShape
<1>. QED
  BY <1>2, <1>3, SymsTop DEF SyntaxStep

LEMMA SerialPRI ==
  ASSUME SP!StreamInv, Serial!PRI
  PROVE  SyntaxStep("PRI", Syms(open), Syms(open)')
<1>1. SP!ReadPRI /\ SP!ExpectsValue
  BY SamePRI DEF SP!PRI, SP!ReadPRI
<1>2. SP!StreamInv' /\ SP!ValueEnds(Len(open), Len(path))
  BY <1>1, SerialAssumptions, SP!PRIFacts
<1>0. PICK n \in Nat : n = Len(open)
  BY SymsFacts
<1>3. PICK s, l : n = Len(open) /\ s = Syms(open) /\ l = Len(path)
  BY <1>0
<1>4. s \in Seq(Symbols) /\ Len(s) = n /\ \A m \in 1 .. n : s[m] = open[m].sym
  BY <1>3, SymsFacts
<1>5. n \in 0 .. Len(open) /\ SP!ValueEnds(n, l)
  BY <1>2, <1>3
<1>6. Syms(open)' = ValueOver(s)
  BY <1>2, <1>4, <1>5, ValueEndsSyms
<1>7. Place(s)
  BY <1>1, <1>3, SymsPlace
<1>. QED
  BY <1>3, <1>6, <1>7 DEF SyntaxStep

(* The end of a container. *)
LEMMA EndsSyms ==
  ASSUME SP!StreamInv, SP!StreamInv', Len(open) > 0, NEW l, SP!ValueEnds(Len(open) - 1, l)
  PROVE  /\ Syms(open)' = ValueOver(Front(Syms(open))) /\ Syms(open) # <<>>
         /\ Last(Syms(open)) = open[Len(open)].sym
<1>0. PICK n \in Nat : n = Len(open)
  BY SymsFacts
<1>1. PICK s : n = Len(open) /\ s = Syms(open)
  BY <1>0
<1>2. s \in Seq(Symbols) /\ Len(s) = n /\ \A m \in 1 .. n : s[m] = open[m].sym
  BY <1>1, SymsFacts
<1>3. s # <<>> /\ n > 0
  BY <1>1, <1>2, EmptySeq
<1>10. PICK e \in Nat : e = n - 1
  BY <1>3
<1>4. PICK f : f = Front(s) /\ e = n - 1
  BY <1>10
<1>5. e \in Nat /\ f \in Seq(Symbols) /\ Len(f) = e /\ \A m \in 1 .. e : f[m] = s[m]
  BY <1>2, <1>3, <1>4, FrontFacts
<1>6. e \in 0 .. Len(open) /\ SP!ValueEnds(e, l)
  BY <1>1, <1>3, <1>4
<1>7. \A m \in 1 .. e : f[m] = open[m].sym
  BY <1>2, <1>4, <1>5
<1>8. Syms(open)' = ValueOver(f)
  BY <1>5, <1>6, <1>7, ValueEndsSyms
<1>9. Last(s) = open[n].sym
  BY <1>2, <1>3 DEF Last
<1>. QED
  BY <1>1, <1>3, <1>4, <1>8, <1>9

LEMMA SerialRCB ==
  ASSUME SP!StreamInv, Serial!RCB
  PROVE  SyntaxStep("RCB", Syms(open), Syms(open)')
<1>1. SP!ReadRCB
  BY SameRCB DEF SP!RCB
<1>2. /\ SP!StreamInv' /\ SP!ValueEnds(Len(open) - 1, Len(path))
      /\ Len(open) > 0 /\ open[Len(open)].sym = "LCB"
  BY <1>1, SerialAssumptions, SP!RCBFacts
<1>3. /\ Syms(open)' = ValueOver(Front(Syms(open))) /\ Syms(open) # <<>>
      /\ Last(Syms(open)) = "LCB"
  BY <1>2, EndsSyms
<1>. QED
  BY <1>3 DEF SyntaxStep

LEMMA SerialRB ==
  ASSUME SP!StreamInv, Serial!RB
  PROVE  SyntaxStep("RB", Syms(open), Syms(open)')
<1>1. SP!ReadRB
  BY SameRB DEF SP!RB
<1>2. /\ SP!StreamInv' /\ SP!ValueEnds(Len(open) - 1, Len(path) - 1)
      /\ Len(open) > 0 /\ open[Len(open)].sym = "LB"
  BY <1>1, SerialAssumptions, SP!RBFacts
<1>3. /\ Syms(open)' = ValueOver(Front(Syms(open))) /\ Syms(open) # <<>>
      /\ Last(Syms(open)) = "LB"
  BY <1>2, EndsSyms
<1>. QED
  BY <1>3 DEF SyntaxStep

(* Steps in which the serial engine does not read. *)
LEMMA SerialSame ==
  ASSUME SP!IInv, UNCHANGED <<serialVars, qa>>
  PROVE  SP!IInv'
<1>1. UNCHANGED SP!vars
  BY DEF serialVars, SP!vars, SP!streamVars, SP!engineVars, SP!ARRAY
<1>2. [SP!Next]_(SP!vars)
  BY <1>1
<1>3. SP!StreamInv /\ SP!TypeOK
  BY DEF SP!IInv
<1>4. SP!StreamInv'
  BY <1>2, <1>3, SerialAssumptions, SP!StreamStep
<1>5. SP!EngineType'
  BY <1>2, <1>3, SerialAssumptions, SP!EngineStep
<1>6. SP!Sync'
  BY <1>2, SerialAssumptions, SP!SyncStep
<1>. QED
  BY <1>4, <1>5, <1>6 DEF SP!IInv, SP!TypeOK, SP!EngineType, SP!StreamInv

(* It begins with nothing on its stack. *)
LEMMA SerialStart ==
  ASSUME Init
  PROVE  SP!IInv /\ open = <<>> /\ syn = <<>> /\ pos = 0
<1>1. SP!Init
  BY SerialInit DEF Init
<1>2. SP!StreamInv /\ SP!TypeOK
  BY <1>1, SerialAssumptions, SP!InitType
<1>3. SP!Mirror /\ SP!RunOfPath
  BY <1>1 DEF SP!Init, SP!StreamInit, SP!Mirror, SP!RunOfPath, SP!Run, SP!StartElement
<1>. QED
  BY <1>1, <1>2, <1>3 DEF SP!IInv, SP!Sync, SP!Init, SP!StreamInit

(* Unless a push was dropped the syntax stack is what encloses the place. *)
LEMMA SynIs ==
  ASSUME SP!IInv, ~lost
  PROVE  syn = Syms(open)
<1>1. SP!StreamInv /\ SP!TypeOK /\ SP!Mirror
  BY DEF SP!IInv, SP!Sync
<1>2. syn = [n \in DOMAIN open |-> open[n].sym]
  BY <1>1, SerialAssumptions, SP!MirrorForm
<1>. QED
  BY <1>2 DEF Syms

(* A dropped push is never forgotten. *)
LEMMA LostKept ==
  ASSUME SerialNext, lost
  PROVE  lost'
BY DEF SerialNext, Serial!LCB, Serial!RCB, Serial!LB, Serial!RB, Serial!COM, Serial!KY, Serial!PRI,
       Serial!Overflow, Serial!engineVars

(* A cut keeps what the serial engine has on its stack. *)
LEMMA HereSyn ==
  ASSUME NEW piece
  PROVE  Here(piece).syn = syn
<1>1. PICK p, m, n, t : Here(piece) = [at |-> p, piece |-> piece, syn |-> syn, states |-> n,
                                       matches |-> m, tuples |-> t]
  BY Zenon DEF Here
<1>. QED
  BY <1>1

(* What Arrive comes to, with a token t. *)
Arrives(t) ==
  /\ t.bare \in Literals \union {FALSE}
  /\ text' = Append(text, t)
  /\ cuts' = cuts \/ (AfterDelimiter /\ \E piece : cuts' = Append(cuts, Here(piece)))
  /\ SerialNext
  /\ SP!StreamInv => SyntaxStep(t.type, Syms(open), Syms(open)')

LEMMA FeedFacts ==
  ASSUME NEW t, Feed(t)
  PROVE  /\ text' = Append(text, t)
         /\ cuts' = cuts \/ (AfterDelimiter /\ \E piece : cuts' = Append(cuts, Here(piece)))
BY DEF Feed, Cut

LEMMA ArriveToken ==
  ASSUME Arrive
  PROVE  \E t : Arrives(t)
<1>1. ASSUME NEW type, NEW key, NEW bare \in Literals \union {FALSE}, Feed(Token(type, key, bare)),
             SerialNext, SP!StreamInv => SyntaxStep(type, Syms(open), Syms(open)')
      PROVE  \E t : Arrives(t)
  <2>1. PICK t : t = Token(type, key, bare)
    OBVIOUS
  <2>2. t.bare = bare /\ t.type = type
    BY <2>1 DEF Token
  <2>3. Feed(t)
    BY <1>1, <2>1
  <2>4. Arrives(t)
    BY <1>1, <2>2, <2>3, FeedFacts DEF Arrives
  <2>. QED
    BY <2>4
<1>2. CASE Serial!LCB /\ Feed(Token("LCB", "", FALSE))
  BY <1>1, <1>2, SerialLCB DEF SerialNext
<1>3. CASE Serial!RCB /\ Feed(Token("RCB", "", FALSE))
  BY <1>1, <1>3, SerialRCB DEF SerialNext
<1>4. CASE Serial!LB /\ Feed(Token("LB", "", FALSE))
  BY <1>1, <1>4, SerialLB DEF SerialNext
<1>5. CASE Serial!RB /\ Feed(Token("RB", "", FALSE))
  BY <1>1, <1>5, SerialRB DEF SerialNext
<1>6. CASE Serial!COM /\ Feed(Token("COM", "", FALSE))
  BY <1>1, <1>6, SerialCOM DEF SerialNext
<1>7. ASSUME NEW key \in Keys, Serial!KY(key), Feed(Token("KY", key, FALSE))
      PROVE  \E t : Arrives(t)
  BY <1>1, <1>7, SerialKY DEF SerialNext
<1>8. ASSUME NEW bare \in Literals, Serial!PRI, Feed(Token("PRI", "", bare))
      PROVE  \E t : Arrives(t)
  BY <1>1, <1>8, SerialPRI DEF SerialNext
<1>. QED
  BY <1>2, <1>3, <1>4, <1>5, <1>6, <1>7, <1>8 DEF Arrive

-----------------------------------------------------------------------------
(***************************************************************************)
(* The text: every token of it nests, and it is cut where no key is open.  *)
(***************************************************************************)
(* No chunk begins behind a key, and none before an earlier one; what the serial
   engine had on its stack there is what the text has open. *)
CutsOn(g) ==
  /\ \A n \in 1 .. Len(cuts) : /\ Outer(g[cuts[n].at])
                               /\ lost \/ cuts[n].syn = g[cuts[n].at]
  /\ \A n \in 1 .. Len(cuts) - 1 : cuts[n].at <= cuts[n + 1].at

TextOn(g) == Stacked(g) /\ g[Len(text)] = Syms(open) /\ CutsOn(g)

(* g with a token more. *)
Longer(g, e, s) == [n \in 0 .. e + 1 |-> IF n <= e THEN g[n] ELSE s]

(* The token nests on what is open. *)
LEMMA LongerStacked ==
  ASSUME NEW g, Stacked(g), NEW e \in Nat, e = Len(text), NEW t, NEW s, Len(text') = e + 1,
         text'[e + 1] = t, \A n \in 1 .. e : text'[n] = text[n],
         SyntaxStep(t.type, g[e], s), NEW h, h = Longer(g, e, s)
  PROVE  Stacked(h)' /\ h[e + 1] = s /\ \A n \in 0 .. e : h[n] = g[n]
<1>1. h[e + 1] = s /\ \A n \in 0 .. e : h[n] = g[n]
  BY DEF Longer
<1>2. \A n \in 0 .. e : g[n] \in Seq(Symbols) /\ WellNested(g[n])
  BY DEF Stacked
<1>3. WellNested(s) /\ s \in Seq(Symbols)
  <2>1. WellNested(g[e])
    BY <1>2
  <2>2. WellNested(s)
    BY <2>1, StepNested
  <2>. QED
    BY <2>2 DEF WellNested
<1>4. h \in [0 .. e + 1 -> Seq(Symbols)]
  BY <1>2, <1>3 DEF Longer
<1>5. h[0] = <<>>
  BY <1>1 DEF Stacked
<1>6. \A n \in 0 .. e + 1 : WellNested(h[n])
  <2> SUFFICES ASSUME NEW n \in 0 .. e + 1 PROVE WellNested(h[n])
    OBVIOUS
  <2>1. CASE n = e + 1
    BY <1>1, <1>3, <2>1
  <2>2. CASE n # e + 1
    BY <1>1, <1>2, <2>2
  <2>. QED
    BY <2>1, <2>2
<1>7. \A n \in 0 .. e : SyntaxStep(text'[n + 1].type, h[n], h[n + 1])
  <2> SUFFICES ASSUME NEW n \in 0 .. e PROVE SyntaxStep(text'[n + 1].type, h[n], h[n + 1])
    OBVIOUS
  <2>1. CASE n = e
    <3>1. text'[n + 1] = t /\ h[n] = g[e] /\ h[n + 1] = s
      BY <1>1, <2>1
    <3>. QED
      BY <3>1
  <2>2. CASE n # e
    <3>1. n \in 0 .. e - 1 /\ n + 1 \in 0 .. e /\ n + 1 \in 1 .. e
      BY <2>2
    <3>2. SyntaxStep(text[n + 1].type, g[n], g[n + 1])
      BY <3>1 DEF Stacked
    <3>3. text'[n + 1] = text[n + 1] /\ h[n] = g[n] /\ h[n + 1] = g[n + 1]
      BY <1>1, <3>1
    <3>. QED
      BY <3>2, <3>3
  <2>. QED
    BY <2>1, <2>2
<1>8. Stacked(h)'
  <2>1. e + 1 \in Nat /\ (e + 1) - 1 = e
    OBVIOUS
  <2>. QED
    BY <1>4, <1>5, <1>6, <1>7, <2>1 DEF Stacked
<1>. QED
  BY <1>1, <1>8

(* Behind a delimiter no key is open. *)
LEMMA DelimiterOuter ==
  ASSUME NEW g, Stacked(g), text \in Seq(Tokens), AfterDelimiter
  PROVE  Outer(g[Len(text)])
<1>1. PICK e \in Nat : e = Len(text)
  BY LenProperties
<1>2. text # <<>> /\ e > 0
  BY <1>1, EmptySeq DEF AfterDelimiter
<1>3. Last(text) = text[e]
  BY <1>1, <1>2 DEF Last
<1>4. text[e].type \in {"LCB", "LB", "COM"}
  BY <1>3 DEF AfterDelimiter
<1>5. PICK d \in Nat : d = e - 1 /\ d + 1 = e
  BY <1>2
<1>6. d \in 0 .. Len(text) - 1 /\ d \in 0 .. Len(text) /\ e \in 0 .. Len(text)
  BY <1>1, <1>5
<1>7. SyntaxStep(text[d + 1].type, g[d], g[d + 1])
  BY <1>6 DEF Stacked
<1>8. PICK t, s, v : t = text[e].type /\ s = g[d] /\ v = g[e]
  OBVIOUS
<1>9. SyntaxStep(t, s, v) /\ t \in {"LCB", "LB", "COM"}
  BY <1>4, <1>5, <1>7, <1>8
<1>10. s \in Seq(Symbols) /\ v \in Seq(Symbols)
  BY <1>6, <1>8 DEF Stacked
<1>11. CASE t \in {"LCB", "LB"}
  <2>1. v = Append(s, t) /\ t \in Symbols
    BY <1>9, <1>11 DEF SyntaxStep, Pushed, Symbols
  <2>2. Last(v) = t
    <3>1. Len(v) = Len(s) + 1 /\ v[Len(s) + 1] = t
      BY <1>10, <2>1, AppendProperties
    <3>. QED
      BY <3>1 DEF Last
  <2>. QED
    BY <1>1, <1>8, <1>10, <1>11, <2>2 DEF Outer
<1>12. CASE t = "COM"
  BY <1>1, <1>8, <1>9, <1>10, <1>12 DEF SyntaxStep, Outer
<1>. QED
  BY <1>9, <1>11, <1>12

(* The text grows, and may be cut where it grows. *)
LEMMA TextArrives ==
  ASSUME EngineInv, SP!IInv, NEW g, TextOn(g), NEW t, Arrives(t), EngineInv'
  PROVE  \E h : TextOn(h)'
<1>1. PICK e \in Nat : e = Len(text) /\ pos = e /\ text \in Seq(Tokens)
  BY LenProperties DEF EngineInv, TextType
<1>2. text' = Append(text, t) /\ SyntaxStep(t.type, Syms(open), Syms(open)') /\ SerialNext
  BY DEF Arrives, SP!IInv
<1>3. Len(text') = e + 1 /\ text'[e + 1] = t /\ \A n \in 1 .. e : text'[n] = text[n]
  BY <1>1, <1>2, AppendAny
<1>4. PICK s : s = Syms(open)'
  OBVIOUS
<1>5. PICK h : h = Longer(g, e, s)
  OBVIOUS
<1>6. g[e] = Syms(open) /\ Stacked(g) /\ CutsOn(g)
  BY <1>1 DEF TextOn
<1>7. Stacked(h)' /\ h[e + 1] = s /\ \A n \in 0 .. e : h[n] = g[n]
  <2>1. SyntaxStep(t.type, g[e], s)
    BY <1>2, <1>4, <1>6
  <2>. QED
    BY <1>1, <1>3, <1>5, <1>6, <2>1, LongerStacked
<1>8. lost => lost'
  BY <1>2, LostKept
<1>9. PICK l \in Nat : l = Len(cuts) /\ \A n \in 1 .. l : cuts[n].at \in Nat /\ cuts[n].at <= e
  BY <1>1, LenProperties DEF EngineInv, CutsType
<1>10. \A n \in 1 .. l : /\ Outer(h[cuts[n].at])
                         /\ lost' \/ cuts[n].syn = h[cuts[n].at]
  <2> SUFFICES ASSUME NEW n \in 1 .. l
               PROVE  /\ Outer(h[cuts[n].at])
                      /\ lost' \/ cuts[n].syn = h[cuts[n].at]
    OBVIOUS
  <2>1. PICK a \in Nat : a = cuts[n].at /\ a <= e
    BY <1>9
  <2>2. h[a] = g[a]
    BY <1>7, <2>1
  <2>3. Outer(g[a]) /\ (lost \/ cuts[n].syn = g[a])
    BY <1>6, <1>9, <2>1 DEF CutsOn
  <2>. QED
    BY <1>8, <2>1, <2>2, <2>3
<1>11. \A n \in 1 .. l - 1 : cuts[n].at <= cuts[n + 1].at
  BY <1>6, <1>9 DEF CutsOn
<1>12. CutsOn(h)'
  <2>1. CASE cuts' = cuts
    BY <1>9, <1>10, <1>11, <2>1 DEF CutsOn
  <2>2. CASE AfterDelimiter /\ \E piece : cuts' = Append(cuts, Here(piece))
    <3>1. PICK piece : cuts' = Append(cuts, Here(piece))
      BY <2>2
    <3>2. PICK x : x = Here(piece) /\ x.at = e /\ x.syn = syn
      BY <1>1, HereAt, HereSyn
    <3>3. /\ Len(cuts') = l + 1 /\ cuts'[l + 1] = x
          /\ \A n \in 1 .. l : cuts'[n] = cuts[n]
      <4>1. \E S : cuts \in Seq(S)
        BY DEF EngineInv, CutsType
      <4>. QED
        BY <1>9, <3>1, <3>2, <4>1, AppendAny
    <3>4. h[e] = Syms(open)
      BY <1>6, <1>7
    <3>5. Outer(h[e])
      <4>1. Outer(g[Len(text)])
        BY <1>1, <1>6, <2>2, DelimiterOuter
      <4>. QED
        BY <1>1, <1>6, <3>4, <4>1
    <3>6. lost' \/ x.syn = h[e]
      BY <1>8, <3>2, <3>4, SynIs
    <3>7. ASSUME NEW n \in 1 .. l + 1
          PROVE  /\ Outer(h[cuts'[n].at])
                 /\ lost' \/ cuts'[n].syn = h[cuts'[n].at]
      <4>1. CASE n = l + 1
        BY <3>2, <3>3, <3>5, <3>6, <4>1
      <4>2. CASE n # l + 1
        <5>1. n \in 1 .. l
          BY <4>2
        <5>. QED
          BY <1>10, <3>3, <5>1
      <4>. QED
        BY <4>1, <4>2
    <3>8. ASSUME NEW n \in 1 .. l PROVE cuts'[n].at <= cuts'[n + 1].at
      <4>1. CASE n = l
        BY <1>9, <3>2, <3>3, <4>1
      <4>2. CASE n # l
        <5>1. n \in 1 .. l - 1 /\ n + 1 \in 1 .. l
          BY <4>2
        <5>. QED
          BY <1>11, <3>3, <5>1
      <4>. QED
        BY <4>1, <4>2
    <3>9. (l + 1) - 1 = l
      OBVIOUS
    <3>. QED
      BY <3>3, <3>7, <3>8, <3>9 DEF CutsOn
  <2>. QED
    BY <2>1, <2>2 DEF Arrives
<1>13. TextOn(h)'
  BY <1>3, <1>4, <1>7, <1>12 DEF TextOn
<1>. QED
  BY <1>13

(* The literals of the text end with a symbol. *)
LEMMA QuotedArrives ==
  ASSUME EngineInv, TRUE \notin Literals, NoBareLiteral, NEW t, Arrives(t)
  PROVE  NoBareLiteral'
<1>1. PICK e \in Nat : e = Len(text) /\ text \in Seq(Tokens)
  BY LenProperties DEF EngineInv, TextType
<1>2. Len(text') = e + 1 /\ text'[e + 1] = t /\ \A n \in 1 .. e : text'[n] = text[n]
  BY <1>1, AppendAny DEF Arrives
<1>3. t.bare = FALSE
  BY LiteralsAssumption DEF Arrives
<1>4. ASSUME NEW n \in 1 .. e + 1 PROVE ~text'[n].bare
  <2>1. CASE n = e + 1
    BY <1>2, <1>3, <2>1
  <2>2. CASE n # e + 1
    <3>1. n \in 1 .. e
      BY <2>2
    <3>. QED
      BY <1>1, <1>2, <3>1 DEF NoBareLiteral
  <2>. QED
    BY <2>1, <2>2
<1>. QED
  BY <1>2, <1>4 DEF NoBareLiteral

-----------------------------------------------------------------------------
(***************************************************************************)
(* Threads and worker 0 on their parts of the text.                        *)
(***************************************************************************)
(* A thread stays on its chunk. *)
LEMMA ThreadPlace ==
  ASSUME NEW g, Stacked(g), NoBareLiteral, Len(text) \in Nat, IsQueryDFA(qa),
         NEW c \in DOMAIN worker, Step(c), IsWorker(qa, worker[c]), ThreadOn(g, worker[c])
  PROVE  worker'[c].base = worker[c].base /\ worker'[c].end = worker[c].end
<1>1. PICK w, v : w = worker[c] /\ v = worker'[c]
  OBVIOUS
<1>3. ~w.finished
  <2>1. \E t : Reads(c, t)
    BY DEF Step, LCB, RCB, LB, RB, COM, KY, PRI, Finish
  <2>. QED
    BY <1>1, <2>1 DEF Reads
<1>4. Runs(g, w)
  BY <1>1, <1>3 DEF ThreadOn
<1>5. PICK o : o = g[LeftAt(w.base, EnteredAt(w.base, w.units, Len(w.units) + 1), w.unit.symbols)]
  OBVIOUS
<1>6. Inner(g, w, o)
  BY <1>4, <1>5 DEF Runs
<1>7. \/ w.at + 1 <= w.end /\ ReadsInside(g, w, v, o)
      \/ \E t \in {"RCB", "RB"} : /\ w.at + 1 <= w.end /\ t = text[w.at + 1].type
                                  /\ ClosesOuter(c, w, v, t)
      \/ w.at = w.end /\ EndsRun(w, v) /\ Inner(g, v, o)
  BY <1>1, <1>6, StepInner
<1>8. CASE ReadsInside(g, w, v, o)
  BY <1>1, <1>8 DEF ReadsInside
<1>9. ASSUME NEW t \in {"RCB", "RB"}, ClosesOuter(c, w, v, t)
      PROVE  v.base = w.base /\ v.end = w.end
  <2>1. PICK p \in Nat : p = w.at + 1
    BY <1>6 DEF Inner, IsControl
  <2>2. PICK x : x = addUnmatchedSymbol(CloseUnit(c, w, p), t, p) /\ v = [x EXCEPT !.at = @ + 1]
    BY <1>9, <2>1 DEF ClosesOuter
  <2>3. t \in SymbolTypes /\ IsWorker(qa, w)
    BY <1>1 DEF SymbolTypes
  <2>4. Unmatched(c, w, x, t, p)
    BY <2>2, <2>3, UnmatchedForm
  <2>5. x.base = w.base /\ x.end = w.end /\ IsWorker(qa, x)
    BY <2>4 DEF Unmatched
  <2>. QED
    BY <2>2, <2>5 DEF IsWorker, WorkerFields
<1>10. CASE EndsRun(w, v)
  BY <1>1, <1>10 DEF EndsRun
<1>. QED
  BY <1>1, <1>7, <1>8, <1>9, <1>10

(* Worker 0 begins with nothing around it: it closes nothing it did not open. *)
LEMMA MajorInner ==
  ASSUME NEW g, Stacked(g), NoBareLiteral, Len(text) \in Nat, 0 \in DOMAIN worker, Step(0),
         Inner(g, worker[0], <<>>)
  PROVE  Inner(g, worker'[0], <<>>) /\ worker'[0].end = worker[0].end
<1>0. PICK c, o : c = 0 /\ o = <<>>
  OBVIOUS
<1>1. PICK w, v : w = worker[c] /\ v = worker'[c]
  OBVIOUS
<1>2. c \in DOMAIN worker /\ Step(c) /\ Inner(g, w, o)
  BY <1>0, <1>1
<1>3. \/ w.at + 1 <= w.end /\ ReadsInside(g, w, v, o)
      \/ \E t \in {"RCB", "RB"} : /\ w.at + 1 <= w.end /\ t = text[w.at + 1].type
                                  /\ ClosesOuter(c, w, v, t)
      \/ w.at = w.end /\ EndsRun(w, v) /\ Inner(g, v, o)
  BY <1>1, <1>2, StepInner
<1>4. ASSUME NEW t \in {"RCB", "RB"}, w.at + 1 <= w.end, t = text[w.at + 1].type,
             ClosesOuter(c, w, v, t)
      PROVE  FALSE
  <2>1. w.at \in Nat /\ w.end \in Nat /\ w.end <= Len(text) /\ g[w.at] = Atop(o, w.ss)
    BY <1>2 DEF Inner, IsControl
  <2>2. w.ss = <<>>
    BY <1>4 DEF ClosesOuter
  <2>3. g[w.at] = <<>>
    <3>1. o \in Seq(Symbols)
      BY <1>2 DEF Inner, Outer
    <3>. QED
      BY <1>0, <2>1, <2>2, <3>1, NothingAtop
  <2>4. w.at \in 0 .. Len(text) - 1
    BY <1>4, <2>1
  <2>5. SyntaxStep(t, g[w.at], g[w.at + 1])
    BY <1>4, <2>4 DEF Stacked
  <2>. QED
    BY <2>3, <2>5 DEF SyntaxStep
<1>5. CASE ReadsInside(g, w, v, o)
  BY <1>0, <1>1, <1>5 DEF ReadsInside
<1>6. CASE EndsRun(w, v) /\ Inner(g, v, o)
  BY <1>0, <1>1, <1>6 DEF EndsRun
<1>. QED
  BY <1>3, <1>4, <1>5, <1>6

-----------------------------------------------------------------------------
(***************************************************************************)
(* The inductive invariant: in every phase the stack of worker 0 is what   *)
(* encloses the place it stands for.                                       *)
(***************************************************************************)
(* Every thread but 0 keeps to its chunk. *)
ThreadAt(g, c) ==
  /\ worker[c].base = base(c) /\ worker[c].end = chunkEnd(first + c)
  /\ ThreadOn(g, worker[c])

ThreadsOn(g) == DOMAIN worker = Chunks /\ \A c \in Chunks : c # 0 => ThreadAt(g, c)

AllRun == \A c \in Chunks : c # 0 => worker[c].finished = TRUE

(* Worker 0 runs over the first chunk, *)
Running(g) ==
  /\ ThreadsOn(g) /\ Inner(g, worker[0], <<>>)
  /\ worker[0].end = chunkEnd(first)

(* combine has its stack in front of a symbol of a unit of another, *)
Combining(g) == IsControl(worker[0]) /\ Splices(g, worker[i], worker[0].ss, j, k)

(* worker 0 runs over a unit again, *)
Reprocessing(g) ==
  /\ j \in 1 .. Len(worker[i].units)
  /\ Inner(g, worker[0], <<>>)
  /\ worker[0].end = worker[i].base + worker[i].units[j].end - 1

(* and the piece is done. *)
Done(g) ==
  /\ IsControl(worker[0])
  /\ worker[0].ss = g[chunkEnd(NextStart(first) - 1)]

(* In every phase the stack of worker 0 is what encloses the place it is at. *)
Splicing(g) ==
  /\ phase \in {"text", "run"} => i = 1 /\ j = 1 /\ k = 1
  /\ phase = "run" => Running(g)
  /\ phase \in {"combine", "reprocess"} => ThreadsOn(g) /\ AllRun /\ i \in Chunks /\ i # 0
  /\ phase = "combine" => Combining(g)
  /\ phase = "reprocess" => Reprocessing(g)
  /\ phase = "done" => Done(g)

(* A chunk begins where the one before it ends. *)
LEMMA ChunkFacts ==
  ASSUME EngineInv, NEW c \in Chunks, NEW c1, c1 = c + 1
  PROVE  /\ c \in Nat /\ first + c \in 1 .. Len(cuts)
         /\ c1 \in Chunks => base(c1) = chunkEnd(first + c)
         /\ c1 \notin Chunks => chunkEnd(first + c) = chunkEnd(NextStart(first) - 1)
<1>1. PICK S : cuts \in Seq(S)
  BY DEF EngineInv, CutsType
<1>2. PICK l \in Nat : l = Len(cuts)
  BY <1>1, LenProperties
<1>3. PICK f \in 1 .. l : f = first
  BY <1>2 DEF EngineInv
<1>4. PICK e \in f + 1 .. l + 1 : e = NextStart(first)
  BY <1>1, <1>2, <1>3, NextStartFacts
<1>5. Chunks = 0 .. e - f - 1
  BY <1>3, <1>4 DEF Chunks, ChunksOf
<1>6. c \in Nat /\ c \in 0 .. e - f - 1 /\ f + c \in 1 .. l
  BY <1>5
<1>7. ASSUME c1 \in Chunks
      PROVE  base(c1) = chunkEnd(first + c)
  <2>1. c1 \in 0 .. e - f - 1
    BY <1>5, <1>7
  <2>2. f + c # l /\ f + c1 = f + c + 1
    BY <1>6, <2>1
  <2>3. PICK m : m = f + c
    OBVIOUS
  <2>. QED
    BY <1>2, <1>3, <2>2, <2>3 DEF base, chunkEnd
<1>8. ASSUME c1 \notin Chunks
      PROVE  chunkEnd(first + c) = chunkEnd(NextStart(first) - 1)
  <2>1. c1 \notin 0 .. e - f - 1
    BY <1>5, <1>8
  <2>2. f + c = e - 1
    BY <1>6, <2>1
  <2>. QED
    BY <1>3, <1>4, <2>2
<1>. QED
  BY <1>2, <1>3, <1>6, <1>7, <1>8

(* There is always a first chunk. *)
LEMMA ChunksBegin ==
  ASSUME EngineInv
  PROVE  0 \in Chunks /\ (Chunks # {0} <=> 1 \in Chunks)
<1>1. PICK S : cuts \in Seq(S)
  BY DEF EngineInv, CutsType
<1>2. PICK l \in Nat : l = Len(cuts)
  BY <1>1, LenProperties
<1>3. PICK f \in 1 .. l : f = first
  BY <1>2 DEF EngineInv
<1>4. PICK e \in f + 1 .. l + 1 : e = NextStart(first)
  BY <1>1, <1>2, <1>3, NextStartFacts
<1>5. Chunks = 0 .. e - f - 1
  BY <1>3, <1>4 DEF Chunks, ChunksOf
<1>6. PICK d \in Nat : d = e - f - 1
  OBVIOUS
<1>7. 0 \in 0 .. d /\ (d # 0 <=> 1 \in 0 .. d) /\ (d = 0 => 0 .. d = {0})
  OBVIOUS
<1>. QED
  BY <1>5, <1>6, <1>7

(* And no later than it ends. *)
LEMMA ChunkOrder ==
  ASSUME EngineInv, NEW g, TextOn(g), NEW n \in 1 .. Len(cuts)
  PROVE  /\ cuts[n].at \in Nat /\ chunkEnd(n) \in Nat
         /\ cuts[n].at <= chunkEnd(n) /\ chunkEnd(n) <= Len(text)
         /\ Outer(g[cuts[n].at])
<1>1. PICK S : cuts \in Seq(S)
  BY DEF EngineInv, CutsType
<1>2. PICK l \in Nat : l = Len(cuts)
  BY <1>1, LenProperties
<1>3. cuts[n].at \in Nat /\ chunkEnd(n) \in Nat /\ chunkEnd(n) <= Len(text)
  BY ChunkEndFacts DEF EngineInv
<1>4. cuts[n].at <= chunkEnd(n)
  <2>1. CASE n = l
    BY <1>2, <2>1 DEF chunkEnd, EngineInv, CutsType
  <2>2. CASE n # l
    <3>1. n \in 1 .. l - 1
      BY <1>2, <2>2
    <3>2. cuts[n].at <= cuts[n + 1].at
      BY <1>2, <3>1 DEF TextOn, CutsOn
    <3>. QED
      BY <1>2, <2>2, <3>2 DEF chunkEnd
  <2>. QED
    BY <2>1, <2>2
<1>5. Outer(g[cuts[n].at])
  BY DEF TextOn, CutsOn
<1>. QED
  BY <1>3, <1>4, <1>5

(* A thread that is through, over chunk c. *)
LEMMA ThreadThrough ==
  ASSUME NEW g, ThreadsOn(g), AllRun, NEW c \in Chunks, c # 0
  PROVE  /\ HasEnded(g, worker[c])
         /\ worker[c].base = base(c) /\ worker[c].end = chunkEnd(first + c)
BY DEF ThreadsOn, ThreadAt, AllRun, ThreadOn, HasEnded

(* Where a chunk ends, combine goes on with the next one, or is done. *)
LEMMA NextSplices ==
  ASSUME EngineInv, NEW g, ThreadsOn(g), AllRun, NEW c \in Chunks, NEW c1, c1 = c + 1,
         NEW s, s = g[chunkEnd(first + c)], NEW u, u = 1
  PROVE  /\ c1 \in Chunks => c1 # 0 /\ Splices(g, worker[c1], s, u, u)
         /\ c1 \notin Chunks => s = g[chunkEnd(NextStart(first) - 1)]
<1>1. /\ c \in Nat
      /\ c1 \in Chunks => base(c1) = chunkEnd(first + c)
      /\ c1 \notin Chunks => chunkEnd(first + c) = chunkEnd(NextStart(first) - 1)
  BY ChunkFacts
<1>2. ASSUME c1 \in Chunks
      PROVE  c1 # 0 /\ Splices(g, worker[c1], s, u, u)
  <2>1. c1 # 0
    BY <1>1
  <2>2. PICK w : w = worker[c1]
    OBVIOUS
  <2>3. HasEnded(g, w) /\ w.base = base(c1)
    BY <1>2, <2>1, <2>2, ThreadThrough
  <2>4. s = g[w.base]
    BY <1>1, <1>2, <2>3
  <2>5. Splices(g, w, s, u, u)
    BY <2>3, <2>4, SplicesFirst
  <2>. QED
    BY <2>1, <2>2, <2>5
<1>. QED
  BY <1>1, <1>2

-----------------------------------------------------------------------------
(* Nothing of the text moves. *)
LEMMA SameThread ==
  ASSUME text' = text, NEW g, NEW w, ThreadOn(g, w)
  PROVE  ThreadOn(g, w)'
BY DEF ThreadOn, Runs, HasRun, Inner, ClosedOn, UnitOn

LEMMA SameText ==
  ASSUME UNCHANGED <<text, cuts, open, lost>>, NEW g, TextOn(g)
  PROVE  TextOn(g)'
BY DEF TextOn, Stacked, CutsOn, Syms

LEMMA SameSplices ==
  ASSUME text' = text, NEW g, NEW w, NEW s, NEW m, NEW n, Splices(g, w, s, m, n)
  PROVE  Splices(g, w, s, m, n)'
BY DEF Splices

LEMMA SameChunks ==
  ASSUME UNCHANGED <<text, cuts, first>>
  PROVE  /\ Chunks' = Chunks /\ NextStart(first)' = NextStart(first)
         /\ \A n : base(n)' = base(n) /\ chunkEnd(n)' = chunkEnd(n)
         /\ chunkEnd(NextStart(first) - 1)' = chunkEnd(NextStart(first) - 1)
BY DEF Chunks, ChunksOf, NextStart, base, chunkEnd, PieceStarts

(* The threads stay as they are while worker 0 changes. *)
LEMMA ThreadsKept ==
  ASSUME UNCHANGED <<text, cuts, first>>, NEW g, ThreadsOn(g), DOMAIN worker' = DOMAIN worker,
         \A c \in DOMAIN worker : c # 0 => worker'[c] = worker[c]
  PROVE  ThreadsOn(g)' /\ (AllRun => AllRun')
<1>1. Chunks' = Chunks /\ DOMAIN worker = Chunks
  BY SameChunks DEF ThreadsOn
<1>2. ASSUME NEW c \in Chunks, c # 0
      PROVE  ThreadAt(g, c)'
  <2>1. PICK w : w = worker[c] /\ w = worker'[c]
    BY <1>1, <1>2
  <2>2. w.base = base(c) /\ w.end = chunkEnd(first + c) /\ ThreadOn(g, w)
    BY <1>2, <2>1 DEF ThreadsOn, ThreadAt
  <2>3. base(c)' = base(c) /\ chunkEnd(first + c)' = chunkEnd(first + c)
    BY DEF base, chunkEnd
  <2>4. ThreadOn(g, w)'
    BY <2>2, SameThread
  <2>. QED
    BY <2>1, <2>2, <2>3, <2>4 DEF ThreadAt
<1>3. ThreadsOn(g)'
  BY <1>1, <1>2 DEF ThreadsOn
<1>4. AllRun => AllRun'
  BY <1>1 DEF AllRun
<1>. QED
  BY <1>3, <1>4

-----------------------------------------------------------------------------
(***************************************************************************)
(* Every step keeps it.                                                    *)
(***************************************************************************)
(* The threads of the piece that begins at cut n start on their chunks. *)
LEMMA ThreadsStart ==
  ASSUME EngineInv, NEW g, TextOn(g), UNCHANGED <<text, cuts>>, NEW n \in 1 .. Len(cuts),
         first' = n, NEW w0, NEW st, worker' = Threads(n, w0, st)
  PROVE  ThreadsOn(g)' /\ worker'[0] = w0
<1>1. PICK S : cuts \in Seq(S)
  BY DEF EngineInv, CutsType
<1>2. /\ \A c \in ChunksOf(n) : c \in Nat /\ n + c \in 1 .. Len(cuts)
      /\ NextStart(n) \in n + 1 .. Len(cuts) + 1
  BY <1>1, NextStartFacts
<1>3. Chunks' = ChunksOf(n)
  BY DEF Chunks, ChunksOf, NextStart, PieceStarts
<1>4. DOMAIN worker' = ChunksOf(n)
  BY DEF Threads
<1>5. ASSUME NEW c \in ChunksOf(n), c # 0
      PROVE  ThreadAt(g, c)'
  <2>1. PICK m \in 1 .. Len(cuts) : m = n + c
    BY <1>2
  <2>2. PICK b \in Nat, e \in Nat : /\ b = cuts[m].at /\ e = chunkEnd(m) /\ b <= e
                                    /\ e <= Len(text) /\ Outer(g[b])
    BY ChunkOrder
  <2>3. PICK s : s = st[c]
    OBVIOUS
  <2>4. PICK w : w = StartWorker(c, b, e, s)
    OBVIOUS
  <2>5. worker'[c] = w
    BY <1>5, <2>1, <2>2, <2>3, <2>4 DEF Threads
  <2>6. Stacked(g) /\ Len(text) \in Nat
    BY LenProperties DEF TextOn, EngineInv, TextType
  <2>7. ThreadOn(g, w)
    BY <2>2, <2>4, <2>6, StartOn
  <2>8. ThreadOn(g, w)'
    BY <2>7, SameThread
  <2>9. w.base = b /\ w.end = e
    BY <2>4 DEF StartWorker
  <2>10. base(c)' = b /\ chunkEnd(first + c)' = e
    <3>1. chunkEnd(m)' = chunkEnd(m) /\ (first + c)' = m
      BY <2>1 DEF chunkEnd
    <3>2. base(c)' = b
      BY <2>1, <2>2 DEF base
    <3>3. chunkEnd(first + c)' = chunkEnd(m)'
      BY <3>1 DEF chunkEnd
    <3>. QED
      BY <2>2, <3>1, <3>2, <3>3
  <2>. QED
    BY <2>5, <2>8, <2>9, <2>10 DEF ThreadAt
<1>6. ThreadsOn(g)'
  BY <1>3, <1>4, <1>5 DEF ThreadsOn
<1>7. worker'[0] = w0
  <2>1. PICK l \in Nat : l = Len(cuts)
    BY <1>1, LenProperties
  <2>2. PICK e \in n + 1 .. l + 1 : e = NextStart(n)
    BY <1>2, <2>1
  <2>3. 0 \in ChunksOf(n)
    BY <2>1, <2>2 DEF ChunksOf
  <2>. QED
    BY <2>3 DEF Threads
<1>. QED
  BY <1>6, <1>7

(* A stack that holds what encloses the place, over a chunk from there. *)
LEMMA MajorOn ==
  ASSUME text' = text, Len(text) \in Nat, NEW g, NEW w, IsControl(w), w.shadow_ss # "KY",
         w.at <= w.end,
         w.end <= Len(text), w.ss = g[w.at], w.finished => w.at = w.end
  PROVE  Inner(g, w, <<>>)'
<1>1. PICK o : o = <<>>
  OBVIOUS
<1>2. w.ss \in Seq(Symbols) /\ o \in Seq(Symbols)
  BY <1>1 DEF IsControl
<1>3. Atop(o, w.ss) = w.ss
  BY <1>1, <1>2, NothingAtop
<1>4. Outer(o)
  BY <1>1 DEF Outer
<1>. QED
  BY <1>1, <1>3, <1>4 DEF Inner

(* CreateThreads starts all threads with nothing on their stacks. *)
LEMMA SplicesCreateThreads ==
  ASSUME EngineInv, NEW g, TextOn(g), Splicing(g), CreateThreads
  PROVE  Splicing(g)'
<1>1. PICK st : worker' = Threads(first, StartWorker(0, 0, chunkEnd(first), st[0]), st)
  BY DEF CreateThreads
<1>2. /\ UNCHANGED <<text, cuts, first, i, j, k>> /\ phase = "text" /\ phase' = "run"
  BY DEF CreateThreads, pieceVars, combineVars
<1>3. first \in 1 .. Len(cuts)
  BY DEF EngineInv
<1>4. PICK n \in 1 .. Len(cuts) : n = first
  BY <1>3
<1>5. PICK e \in Nat : e = chunkEnd(first) /\ e <= Len(text)
  BY <1>3, ChunkEndFacts DEF EngineInv
<1>6. PICK w, s : w = StartWorker(0, 0, e, s) /\ s = st[0]
  OBVIOUS
<1>7. worker' = Threads(n, w, st) /\ first' = n
  BY <1>1, <1>2, <1>4, <1>5, <1>6
<1>8. ThreadsOn(g)' /\ worker'[0] = w
  BY <1>2, <1>7, ThreadsStart
<1>9. PICK ls, out : w = [base |-> 0, end |-> e, at |-> 0,
                          ss |-> <<>>, shadow_ss |-> "INVALID", levels |-> ls, out |-> out,
                          unit |-> NewUnit(s), units |-> <<>>, finished |-> FALSE]
  BY <1>6 DEF StartWorker
<1>10. /\ DOMAIN w = WorkerFields /\ w.base = 0 /\ w.end = e /\ w.at = 0 /\ w.ss = <<>>
       /\ w.shadow_ss = "INVALID" /\ w.unit = NewUnit(s) /\ w.finished = FALSE
  BY <1>9 DEF WorkerFields
<1>11. IsControl(w)
  <2>1. IsUnit(NewUnit(s))
    BY DEF IsUnit, NewUnit, INVALID
  <2>2. <<>> \in Seq(Symbols) /\ "INVALID" \in Shadows
    BY DEF Shadows
  <2>. QED
    BY <1>10, <2>1, <2>2 DEF IsControl
<1>12. Inner(g, w, <<>>)'
  <2>1. w.ss = g[w.at]
    BY <1>10 DEF TextOn, Stacked
  <2>2. Len(text) \in Nat
    BY LenProperties DEF EngineInv, TextType
  <2>3. w.shadow_ss # "KY" /\ w.at <= w.end /\ w.end <= Len(text) /\ (w.finished => w.at = w.end)
    BY <1>5, <1>10
  <2>. QED
    BY <1>2, <1>11, <2>1, <2>2, <2>3, MajorOn
<1>13. Running(g)'
  <2>1. chunkEnd(first)' = e
    BY <1>2, <1>5 DEF chunkEnd
  <2>2. w.end = e
    BY <1>10
  <2>. QED
    BY <1>8, <1>12, <2>1, <2>2 DEF Running
<1>14. (i = 1 /\ j = 1 /\ k = 1)'
  BY <1>2 DEF Splicing
<1>. QED
  BY <1>2, <1>13, <1>14 DEF Splicing

(* parallelPartialRun goes on with the stack of worker 0. *)
LEMMA SplicesNextPiece ==
  ASSUME EngineInv, NEW g, TextOn(g), Splicing(g), parallelPartialRun
  PROVE  Splicing(g)'
<1>1. PICK n : n = NextStart(first)
  OBVIOUS
<1>2. /\ UNCHANGED <<text, cuts>> /\ phase = "done" /\ phase' = "run"
      /\ first' = n /\ i' = 1 /\ j' = 1 /\ k' = 1
  BY <1>1 DEF parallelPartialRun
<1>3. PICK st : worker' = Threads(n, Continued(worker[0], n, st[0]), st)
  BY <1>1 DEF parallelPartialRun
<1>4. PICK S : cuts \in Seq(S)
  BY DEF EngineInv, CutsType
<1>5. PICK l \in Nat : l = Len(cuts)
  BY <1>4, LenProperties
<1>6. PICK f \in 1 .. l : f = first
  BY <1>5 DEF EngineInv
<1>7. n \in f + 1 .. l
  <2>1. ~LastPiece
    BY DEF parallelPartialRun
  <2>2. n \in f + 1 .. l + 1 /\ ~(n > l)
    BY <1>1, <1>4, <1>5, <1>6, <2>1, NextStartFacts DEF LastPiece
  <2>. QED
    BY <2>2
<1>8. n \in 1 .. Len(cuts)
  BY <1>5, <1>7
<1>9. PICK b \in Nat, e \in Nat : b = cuts[n].at /\ e = chunkEnd(n) /\ b <= e /\ e <= Len(text)
  BY <1>8, ChunkOrder
<1>10. IsControl(worker[0]) /\ worker[0].ss = g[b]
  <2>1. chunkEnd(n - 1) = b
    BY <1>5, <1>7, <1>9 DEF chunkEnd
  <2>. QED
    BY <1>1, <1>2, <2>1 DEF Splicing, Done
<1>11. PICK v, s : v = worker[0] /\ s = st[0]
  OBVIOUS
<1>12. PICK w : w = Continued(v, n, s)
  OBVIOUS
<1>13. ThreadsOn(g)' /\ worker'[0] = w
  <2>1. worker' = Threads(n, w, st)
    BY <1>3, <1>11, <1>12
  <2>. QED
    BY <1>2, <1>8, <2>1, ThreadsStart
<1>14. IsControl(v) /\ v.ss = g[b]
  BY <1>10, <1>11
<1>15. /\ DOMAIN w = WorkerFields /\ w.base = b /\ w.end = e /\ w.at = b /\ w.ss = v.ss
       /\ w.shadow_ss = "INVALID" /\ w.unit = NewUnit(s) /\ w.finished = FALSE
  BY <1>9, <1>12, <1>14 DEF Continued, IsControl, WorkerFields
<1>16. IsControl(w)
  <2>1. IsUnit(NewUnit(s))
    BY DEF IsUnit, NewUnit, INVALID
  <2>2. w.ss \in Seq(Symbols) /\ "INVALID" \in Shadows
    BY <1>14, <1>15 DEF Shadows, IsControl
  <2>. QED
    BY <1>15, <2>1, <2>2 DEF IsControl
<1>17. Inner(g, w, <<>>)'
  <2>1. w.ss = g[w.at]
    BY <1>14, <1>15
  <2>2. Len(text) \in Nat
    BY LenProperties DEF EngineInv, TextType
  <2>3. w.shadow_ss # "KY" /\ w.at <= w.end /\ w.end <= Len(text) /\ (w.finished => w.at = w.end)
    BY <1>9, <1>15
  <2>. QED
    BY <1>2, <1>16, <2>1, <2>2, <2>3, MajorOn
<1>18. Running(g)'
  <2>1. chunkEnd(first)' = e
    BY <1>2, <1>9 DEF chunkEnd
  <2>2. w.end = e
    BY <1>15
  <2>. QED
    BY <1>13, <1>17, <2>1, <2>2 DEF Running
<1>. QED
  BY <1>2, <1>18 DEF Splicing

LEMMA SameInner ==
  ASSUME text' = text, NEW g, NEW w, NEW o, Inner(g, w, o)
  PROVE  Inner(g, w, o)'
BY DEF Inner

(* In front of the next chunk, or behind the last one. *)
LEMMA ChunkLeft ==
  ASSUME EngineInv, NEW g, ThreadsOn(g), AllRun, NEW c \in Chunks, UNCHANGED <<text, cuts, first>>,
         DOMAIN worker' = DOMAIN worker, \A a \in DOMAIN worker : a # 0 => worker'[a] = worker[a],
         IsControl(worker'[0]), worker'[0].ss = g[chunkEnd(first + c)],
         i' = c + 1, j' = 1, k' = 1, phase' = IF c + 1 \in Chunks THEN "combine" ELSE "done"
  PROVE  Splicing(g)'
<1>1. PICK c1, s, u : c1 = c + 1 /\ s = g[chunkEnd(first + c)] /\ u = 1
  OBVIOUS
<1>2. /\ c1 \in Chunks => c1 # 0 /\ Splices(g, worker[c1], s, u, u)
      /\ c1 \notin Chunks => s = g[chunkEnd(NextStart(first) - 1)]
  BY <1>1, NextSplices
<1>3. ThreadsOn(g)' /\ AllRun'
  BY ThreadsKept
<1>4. Chunks' = Chunks /\ chunkEnd(NextStart(first) - 1)' = chunkEnd(NextStart(first) - 1)
  BY SameChunks
<1>5. PICK v : v = worker'[0] /\ IsControl(v) /\ v.ss = s
  BY <1>1
<1>6. CASE c1 \in Chunks
  <2>1. PICK w : w = worker[c1] /\ w = worker'[c1]
    BY <1>2, <1>6 DEF ThreadsOn
  <2>2. Splices(g, w, s, u, u)'
    BY <1>2, <1>6, <2>1, SameSplices
  <2>3. Combining(g)'
    <3>1. IsControl(worker[0])'
      BY <1>5 DEF IsControl
    <3>2. Splices(g, worker[i], worker[0].ss, j, k)'
      BY <1>1, <1>5, <2>1, <2>2
    <3>. QED
      BY <3>1, <3>2 DEF Combining
  <2>4. phase' = "combine" /\ (i \in Chunks /\ i # 0)'
    BY <1>1, <1>2, <1>4, <1>6
  <2>. QED
    BY <1>3, <2>3, <2>4 DEF Splicing
<1>7. CASE c1 \notin Chunks
  <2>1. phase' = "done"
    BY <1>1, <1>7
  <2>2. Done(g)'
    <3>1. IsControl(worker[0])'
      BY <1>5 DEF IsControl
    <3>2. worker'[0].ss = g[chunkEnd(NextStart(first) - 1)]
      BY <1>2, <1>5, <1>7
    <3>. QED
      BY <1>4, <3>1, <3>2 DEF Done
  <2>. QED
    BY <2>1, <2>2 DEF Splicing
<1>. QED
  BY <1>6, <1>7

(* What worker 0 has on its stack at the end of its run. *)
LEMMA MajorOut ==
  ASSUME NEW g, NEW w, Inner(g, w, <<>>), w.finished
  PROVE  IsControl(w) /\ w.ss = g[w.end]
<1>1. PICK o : o = <<>>
  OBVIOUS
<1>2. w.ss \in Seq(Symbols) /\ g[w.at] = Atop(o, w.ss) /\ w.at = w.end /\ IsControl(w)
  BY <1>1 DEF Inner, IsControl
<1>3. Atop(o, w.ss) = w.ss
  BY <1>1, <1>2, NothingAtop
<1>. QED
  BY <1>2, <1>3

(* A thread reads a token. *)
LEMMA SplicesRun ==
  ASSUME EngineInv, NoBareLiteral, NEW g, TextOn(g), Splicing(g), NEW c, c \in Chunks, Run(c)
  PROVE  Splicing(g)'
<1>1. /\ UNCHANGED <<text, cuts, first, i, j, k>> /\ phase = "run" /\ phase' = "run" /\ Step(c)
  BY StepAlone DEF Run, pieceVars, combineVars
<1>2. PICK x : worker' = [worker EXCEPT ![c] = x]
  BY StepAlone DEF Run
<1>3. ThreadsOn(g) /\ Inner(g, worker[0], <<>>) /\ worker[0].end = chunkEnd(first)
  BY <1>1 DEF Splicing, Running
<1>4. DOMAIN worker' = DOMAIN worker /\ DOMAIN worker = Chunks
      /\ \A a \in DOMAIN worker : a # c => worker'[a] = worker[a]
  BY <1>2, <1>3 DEF ThreadsOn
<1>5. Stacked(g) /\ Len(text) \in Nat /\ 0 \in Chunks
  BY LenProperties, ChunksBegin DEF TextOn, EngineInv, TextType
<1>6. (i = 1 /\ j = 1 /\ k = 1)'
  BY <1>1 DEF Splicing
<1>7. chunkEnd(first)' = chunkEnd(first) /\ Chunks' = Chunks
  BY <1>1, SameChunks
<1>8. CASE c = 0
  <2>1. Inner(g, worker'[0], <<>>) /\ worker'[0].end = worker[0].end
    BY <1>1, <1>3, <1>4, <1>5, <1>8, MajorInner
  <2>2. PICK v : v = worker'[0] /\ Inner(g, v, <<>>) /\ v.end = chunkEnd(first)
    BY <1>3, <2>1
  <2>3. Inner(g, v, <<>>)'
    BY <1>1, <2>2, SameInner
  <2>4. ThreadsOn(g)'
    BY <1>1, <1>3, <1>4, <1>8, ThreadsKept
  <2>5. Running(g)'
    BY <1>7, <2>2, <2>3, <2>4 DEF Running
  <2>. QED
    BY <1>1, <1>6, <2>5 DEF Splicing
<1>9. CASE c # 0
  <2>1. worker'[0] = worker[0]
    BY <1>4, <1>5, <1>9
  <2>2. c \in DOMAIN worker /\ ThreadAt(g, c)
    BY <1>3, <1>4, <1>9 DEF ThreadsOn
  <2>3. IsWorker(qa, worker[c]) /\ IsQueryDFA(qa)
    BY <1>9, <2>2 DEF EngineInv, TreesGrown, Grown, QueryType
  <2>4. ThreadOn(g, worker[c])
    BY <2>2 DEF ThreadAt
  <2>5. ThreadOn(g, worker'[c])
    BY <1>1, <1>5, <2>2, <2>3, <2>4, ThreadStep
  <2>6. worker'[c].base = worker[c].base /\ worker'[c].end = worker[c].end
    BY <1>1, <1>5, <2>2, <2>3, <2>4, ThreadPlace
  <2>7. ASSUME NEW a \in Chunks, a # 0
        PROVE  ThreadAt(g, a)'
    <3>1. PICK v : v = worker'[a]
      OBVIOUS
    <3>2. ThreadOn(g, v) /\ v.base = base(a) /\ v.end = chunkEnd(first + a)
      <4>1. ThreadAt(g, a)
        BY <1>3, <2>7 DEF ThreadsOn
      <4>2. CASE a = c
        BY <2>5, <2>6, <3>1, <4>1, <4>2 DEF ThreadAt
      <4>3. CASE a # c
        BY <1>4, <3>1, <4>1, <4>3 DEF ThreadAt
      <4>. QED
        BY <4>2, <4>3
    <3>3. ThreadOn(g, v)'
      BY <1>1, <3>2, SameThread
    <3>4. base(a)' = base(a) /\ chunkEnd(first + a)' = chunkEnd(first + a)
      BY <1>1 DEF base, chunkEnd
    <3>. QED
      BY <3>1, <3>2, <3>3, <3>4 DEF ThreadAt
  <2>8. ThreadsOn(g)'
    BY <1>4, <1>7, <2>7 DEF ThreadsOn
  <2>9. PICK v : v = worker'[0] /\ Inner(g, v, <<>>) /\ v.end = chunkEnd(first)
    BY <1>3, <2>1
  <2>10. Inner(g, v, <<>>)'
    BY <1>1, <2>9, SameInner
  <2>11. Running(g)'
    BY <1>7, <2>8, <2>9, <2>10 DEF Running
  <2>. QED
    BY <1>1, <1>6, <2>11 DEF Splicing
<1>. QED
  BY <1>8, <1>9

(* JoinThreads: combine begins with the chunk behind worker 0's. *)
LEMMA SplicesJoin ==
  ASSUME EngineInv, NEW g, TextOn(g), Splicing(g), JoinThreads
  PROVE  Splicing(g)'
<1>1. /\ UNCHANGED <<text, cuts, first, worker, i, j, k>> /\ phase = "run"
      /\ phase' = IF Chunks = {0} THEN "done" ELSE "combine"
      /\ \A c \in Chunks : worker[c].finished
  BY DEF JoinThreads, workerVars, pieceVars, combineVars
<1>2. ThreadsOn(g) /\ Inner(g, worker[0], <<>>) /\ worker[0].end = chunkEnd(first)
  BY <1>1 DEF Splicing, Running
<1>3. 0 \in Chunks /\ (Chunks # {0} <=> 1 \in Chunks)
  BY ChunksBegin
<1>4. AllRun
  <2>1. ASSUME NEW c \in Chunks, c # 0
        PROVE  worker[c].finished = TRUE
    <3>1. worker[c].finished \in BOOLEAN
      BY <1>2, <2>1 DEF ThreadsOn, ThreadAt, ThreadOn
    <3>2. worker[c].finished
      BY <1>1
    <3>. QED
      BY <3>1, <3>2, Zenon
  <2>. QED
    BY <2>1 DEF AllRun
<1>5. PICK c \in Chunks : c = 0
  BY <1>3
<1>6. IsControl(worker[0]) /\ worker[0].ss = g[worker[0].end]
  BY <1>1, <1>2, <1>3, MajorOut
<1>7. first + c = first
  <2>1. first \in Int
    BY DEF EngineInv
  <2>. QED
    BY <1>5, <2>1
<1>8. IsControl(worker'[0]) /\ worker'[0].ss = g[chunkEnd(first + c)]
  BY <1>1, <1>2, <1>6, <1>7
<1>9. i' = c + 1 /\ j' = 1 /\ k' = 1 /\ phase' = IF c + 1 \in Chunks THEN "combine" ELSE "done"
  <2>1. i = 1 /\ j = 1 /\ k = 1
    BY <1>1 DEF Splicing
  <2>2. c + 1 = 1
    BY <1>5
  <2>. QED
    BY <1>1, <1>3, <2>1, <2>2
<1>10. DOMAIN worker' = DOMAIN worker /\ \A a \in DOMAIN worker : a # 0 => worker'[a] = worker[a]
  BY <1>1
<1>. QED
  BY <1>1, <1>2, <1>4, <1>8, <1>9, <1>10, ChunkLeft

(* A step of combine that stays in its chunk. *)
LEMMA ChunkOn ==
  ASSUME NEW g, ThreadsOn(g), AllRun, i \in Chunks, i # 0, UNCHANGED <<text, cuts, first, i>>,
         phase' = "combine", DOMAIN worker' = DOMAIN worker,
         \A a \in DOMAIN worker : a # 0 => worker'[a] = worker[a],
         NEW x, x = worker'[0], IsControl(x), NEW m, NEW n, j' = m, k' = n,
         Splices(g, worker[i], x.ss, m, n)
  PROVE  Splicing(g)'
<1>1. worker'[0] = x /\ worker'[i] = worker[i]
  BY DEF ThreadsOn
<1>2. ThreadsOn(g)' /\ AllRun'
  BY ThreadsKept
<1>3. Chunks' = Chunks
  BY SameChunks
<1>4. PICK w, s : w = worker[i] /\ s = x.ss
  OBVIOUS
<1>5. Splices(g, w, s, m, n)'
  BY <1>4, SameSplices
<1>6. Combining(g)'
  <2>1. IsControl(worker[0])'
    BY <1>1 DEF IsControl
  <2>2. Splices(g, worker[i], worker[0].ss, j, k)'
    BY <1>1, <1>4, <1>5
  <2>. QED
    BY <2>1, <2>2 DEF Combining
<1>. QED
  BY <1>2, <1>3, <1>6 DEF Splicing

(* What holds while combine goes through the chunks. *)
LEMMA CombineFacts ==
  ASSUME EngineInv, NEW g, TextOn(g), Splicing(g), phase \in {"combine", "reprocess"}
  PROVE  /\ ThreadsOn(g) /\ AllRun /\ i \in Chunks /\ i # 0 /\ 0 \in Chunks
         /\ HasEnded(g, worker[i])
         /\ worker[i].base = base(i) /\ worker[i].end = chunkEnd(first + i)
         /\ Stacked(g) /\ Len(text) \in Nat
<1>1. ThreadsOn(g) /\ AllRun /\ i \in Chunks /\ i # 0
  BY DEF Splicing
<1>2. PICK c : c = i
  OBVIOUS
<1>3. /\ HasEnded(g, worker[c])
      /\ worker[c].base = base(c) /\ worker[c].end = chunkEnd(first + c)
  BY <1>1, <1>2, ThreadThrough
<1>4. Stacked(g) /\ Len(text) \in Nat
  BY LenProperties DEF TextOn, EngineInv, TextType
<1>. QED
  BY <1>1, <1>2, <1>3, <1>4, ChunksBegin

(* Replaying keeps the record in shape. *)
LEMMA TurnedControl ==
  ASSUME NEW w, NEW x, NEW s, Turned(w, x, s, w.shadow_ss, w.unit), IsControl(w),
         s \in Seq(Symbols)
  PROVE  IsControl(x) /\ x.ss = s
BY DEF Turned, IsControl

(* Replay: a symbol of a unit takes a container away. *)
LEMMA SplicesReplay ==
  ASSUME EngineInv, NEW g, TextOn(g), Splicing(g), Replay
  PROVE  Splicing(g)'
<1>1. /\ UNCHANGED <<text, cuts, first, i, j>> /\ phase = "combine" /\ phase' = "combine"
      /\ k' = k + 1 /\ j <= Len(worker[i].units) /\ k <= Len(worker[i].units[j].symbols)
  BY DEF Replay, pieceVars, unit
<1>2. /\ ThreadsOn(g) /\ AllRun /\ i \in Chunks /\ i # 0 /\ 0 \in Chunks
      /\ HasEnded(g, worker[i]) /\ Stacked(g) /\ Len(text) \in Nat
  BY <1>1, CombineFacts
<1>3. IsControl(worker[0]) /\ Splices(g, worker[i], worker[0].ss, j, k)
  BY <1>1 DEF Splicing, Combining
<1>4. PICK w : w = worker[0] /\ w = seq_wa /\ IsControl(w)
  BY <1>3 DEF seq_wa
<1>5. PICK y, s : y = worker[i] /\ s = w.ss
  OBVIOUS
<1>6. PICK m, n : m = j /\ n = k
  OBVIOUS
<1>7. PICK r, n1 : r = Shortened(s) /\ n1 = n + 1
  OBVIOUS
<1>8. PICK z : z = y.units[m].symbols[n]
  OBVIOUS
<1>9. HasEnded(g, y) /\ Splices(g, y, s, m, n) /\ m <= Len(y.units) /\ n <= Len(y.units[m].symbols)
  BY <1>1, <1>2, <1>3, <1>4, <1>5, <1>6
<1>10. /\ s # <<>> /\ z.type \in {"RCB", "RB"} /\ r \in Seq(Symbols)
       /\ Splices(g, y, r, m, n1)
  BY <1>2, <1>7, <1>8, <1>9, SplicesSymbol
<1>11. PICK v : v = IF z.type = "RCB" THEN ReplayRCB(z) ELSE ReplayRB(z)
  OBVIOUS
<1>12. worker' = [worker EXCEPT ![0] = v]
  <2>1. unit.symbols[k] = z
    BY <1>5, <1>6, <1>8 DEF unit
  <2>2. worker' = [worker EXCEPT ![0] =
          IF z.type = "RCB" THEN ReplayRCB(z)
          ELSE IF z.type = "RB" THEN ReplayRB(z)
          ELSE IF z.type \in {"OBJECT", "ARRAY"} THEN PopSyntax(PopLevels(@, 1), 1)
          ELSE @]
    BY <2>1 DEF Replay, ReplaySymbol
  <2>3. z.type = "RCB" \/ z.type = "RB"
    BY <1>10
  <2>. QED
    BY <1>11, <2>2, <2>3
<1>13. Turned(w, v, r, w.shadow_ss, w.unit)
  <2>1. CASE z.type = "RCB"
    <3>1. v = ReplayRCB(z)
      BY <1>11, <2>1
    <3>. QED
      BY <1>4, <1>5, <1>7, <1>10, <3>1, ReplayedRCB
  <2>2. CASE z.type # "RCB"
    <3>1. v = ReplayRB(z)
      BY <1>11, <2>2
    <3>. QED
      BY <1>4, <1>5, <1>7, <1>10, <3>1, ReplayedRB
  <2>. QED
    BY <2>1, <2>2
<1>14. IsControl(v) /\ v.ss = r
  BY <1>4, <1>10, <1>13, TurnedControl
<1>15. Splices(g, worker[i], v.ss, m, n1)
  BY <1>5, <1>10, <1>14
<1>16. j' = m /\ k' = n1
  BY <1>1, <1>6, <1>7
<1>17. /\ DOMAIN worker' = DOMAIN worker /\ \A a \in DOMAIN worker : a # 0 => worker'[a] = worker[a]
       /\ v = worker'[0]
  BY <1>2, <1>12 DEF ThreadsOn
<1>. QED
  BY <1>1, <1>2, <1>14, <1>15, <1>16, <1>17, ChunkOn

(* TakeUnit leaves the syntax stack alone. *)
LEMMA SplicesTakeUnit ==
  ASSUME EngineInv, NEW g, TextOn(g), Splicing(g), TakeUnit
  PROVE  Splicing(g)'
<1>1. /\ UNCHANGED <<text, cuts, first, i>> /\ phase = "combine" /\ phase' = "combine"
      /\ j' = j + 1 /\ k' = 1 /\ j <= Len(worker[i].units) /\ k > Len(worker[i].units[j].symbols)
  BY DEF TakeUnit, Replayed, NextUnit, pieceVars, unit
<1>2. /\ ThreadsOn(g) /\ AllRun /\ i \in Chunks /\ i # 0 /\ 0 \in Chunks
      /\ HasEnded(g, worker[i]) /\ Stacked(g) /\ Len(text) \in Nat
  BY <1>1, CombineFacts
<1>3. IsControl(worker[0]) /\ Splices(g, worker[i], worker[0].ss, j, k)
  BY <1>1 DEF Splicing, Combining
<1>4. PICK w : w = worker[0] /\ w = seq_wa /\ IsControl(w)
  BY <1>3 DEF seq_wa
<1>5. PICK y, s : y = worker[i] /\ s = w.ss
  OBVIOUS
<1>6. PICK m, n, m1, n1 : m = j /\ n = k /\ m1 = j + 1 /\ n1 = 1
  OBVIOUS
<1>7. HasEnded(g, y) /\ Splices(g, y, s, m, n) /\ m <= Len(y.units) /\ n > Len(y.units[m].symbols)
  BY <1>1, <1>2, <1>3, <1>4, <1>5, <1>6
<1>8. PICK a : a = EnteredAt(y.base, y.units, m)
  OBVIOUS
<1>9. s = g[LeftAt(y.base, a, y.units[m].symbols)]
  BY <1>7, <1>8, SplicesUnit
<1>10. m \in 1 .. Len(y.units)
  <2>1. Len(y.units) \in Nat
    BY <1>7, LenProperties DEF HasEnded
  <2>. QED
    BY <1>7, <2>1 DEF Splices
<1>11. Splices(g, y, s, m1, n1)
  <2>1. s = g[LeftAt(y.base, EnteredAt(y.base, y.units, m), y.units[m].symbols)]
    BY <1>8, <1>9
  <2>2. m1 = m + 1 /\ n1 = 1
    BY <1>6
  <2>. QED
    BY <1>7, <1>10, <2>1, <2>2, SplicesNext
<1>12. PICK node, e : worker' = [worker EXCEPT ![0] = [SetNode(seq_wa, node) EXCEPT !.out[1] = e]]
  BY Zenon DEF TakeUnit
<1>13. PICK x : x = SetNode(w, node)
  OBVIOUS
<1>14. PICK v : v = [x EXCEPT !.out[1] = e]
  OBVIOUS
<1>15. worker' = [worker EXCEPT ![0] = v]
  BY <1>4, <1>12, <1>13, <1>14
<1>16. IsControl(v) /\ v.ss = s
  <2>1. Turned(w, w, w.ss, w.shadow_ss, w.unit)
    BY <1>4, TurnedSelf DEF IsControl
  <2>2. Turned(w, x, w.ss, w.shadow_ss, w.unit)
    BY <1>13, <2>1, TurnedNode
  <2>3. PICK d : v = [x EXCEPT !.out = d]
    BY <1>14
  <2>4. Turned(w, v, w.ss, w.shadow_ss, w.unit)
    BY <2>2, <2>3, TurnedAside
  <2>5. w.ss \in Seq(Symbols)
    BY <1>4 DEF IsControl
  <2>. QED
    BY <1>4, <1>5, <2>4, <2>5, TurnedControl
<1>17. Splices(g, worker[i], v.ss, m1, n1)
  BY <1>5, <1>11, <1>16
<1>18. j' = m1 /\ k' = n1
  BY <1>1, <1>6
<1>19. /\ DOMAIN worker' = DOMAIN worker /\ \A c \in DOMAIN worker : c # 0 => worker'[c] = worker[c]
       /\ v = worker'[0]
  BY <1>2, <1>15 DEF ThreadsOn
<1>. QED
  BY <1>1, <1>2, <1>16, <1>17, <1>18, <1>19, ChunkOn

(* Reprocess: the unit starts where its symbols have left the stack. *)
LEMMA SplicesReprocess ==
  ASSUME EngineInv, NEW g, TextOn(g), Splicing(g), Reprocess
  PROVE  Splicing(g)'
<1>1. /\ UNCHANGED <<text, cuts, first, i, j, k>> /\ phase = "combine"
      /\ j <= Len(worker[i].units) /\ k > Len(worker[i].units[j].symbols)
      /\ worker[i].units[j].end > worker[i].units[j].start
  BY DEF Reprocess, Replayed, Mispredicted, pieceVars, combineVars, unit
<1>2. /\ ThreadsOn(g) /\ AllRun /\ i \in Chunks /\ i # 0 /\ 0 \in Chunks
      /\ HasEnded(g, worker[i]) /\ worker[i].base = base(i) /\ Stacked(g) /\ Len(text) \in Nat
  BY <1>1, CombineFacts
<1>3. IsControl(worker[0]) /\ Splices(g, worker[i], worker[0].ss, j, k)
  BY <1>1 DEF Splicing, Combining
<1>4. CASE worker[i].units[j].start = INVALID
  <2>1. phase' = "undefined"
    BY <1>4 DEF Reprocess, unit
  <2>. QED
    BY <2>1 DEF Splicing
<1>5. CASE worker[i].units[j].start # INVALID
  <2>1. PICK y, w, s : y = worker[i] /\ w = worker[0] /\ s = w.ss
    OBVIOUS
  <2>2. PICK m, n : m = j /\ n = k
    OBVIOUS
  <2>3. HasEnded(g, y) /\ Splices(g, y, s, m, n) /\ m <= Len(y.units) /\ n > Len(y.units[m].symbols)
    BY <1>1, <1>2, <1>3, <2>1, <2>2
  <2>4. PICK a : a = EnteredAt(y.base, y.units, m)
    OBVIOUS
  <2>5. s = g[LeftAt(y.base, a, y.units[m].symbols)]
    BY <2>3, <2>4, SplicesUnit
  <2>6. m \in 1 .. Len(y.units)
    <3>1. Len(y.units) \in Nat
      BY <2>3, LenProperties DEF HasEnded
    <3>. QED
      BY <2>3, <3>1 DEF Splices
  <2>7. PICK p, q : p = y.units[m].start /\ q = y.units[m].end
    OBVIOUS
  <2>8. /\ UnitOn(g, y.base, a, y.units[m].symbols, p) /\ q \in Int
        /\ y.base + q - 1 \in 0 .. Len(text)
    <3>1. HasRun(g, y) /\ \E S : y.units \in Seq(S)
      BY <2>3 DEF HasEnded
    <3>2. PICK S : y.units \in Seq(S)
      BY <3>1
    <3>. QED
      BY <2>4, <2>6, <2>7, <3>1, <3>2, RunUnits
  <2>9. p \in Int /\ y.base + p - 1 \in 0 .. Len(text) /\ g[y.base + p - 1] = s
    <3>1. p # INVALID
      BY <1>5, <2>1, <2>2, <2>7
    <3>. QED
      BY <2>5, <2>8, <3>1 DEF UnitOn
  <2>10. PICK b : b = y.base /\ b = base(i) /\ b \in Nat
    <3>1. y.base \in Nat
      BY <2>3 DEF HasEnded, HasRun
    <3>. QED
      BY <1>2, <2>1, <3>1
  <2>11. PICK st : worker' = [worker EXCEPT ![0] =
                   [worker[0] EXCEPT !.base = base(i) + unit.start - 1,
                             !.at   = base(i) + unit.start - 1,
                             !.end  = base(i) + unit.end - 1,
                             !.unit = NewUnit(st), !.units = <<>>,
                             !.shadow_ss = "INVALID", !.finished = FALSE]]
    BY <1>5 DEF Reprocess, unit
  <2>12. phase' = "reprocess"
    BY <1>5 DEF Reprocess, unit
  <2>13. PICK from, to : from = b + p - 1 /\ to = b + q - 1
    OBVIOUS
  <2>14. /\ from \in Nat /\ to \in Nat /\ from <= to /\ to <= Len(text) /\ g[from] = s
    <3>1. PICK t \in Nat : t = Len(text)
      BY <1>2
    <3>2. q > p
      BY <1>1, <2>1, <2>2, <2>7
    <3>3. from \in 0 .. t /\ to \in 0 .. t /\ g[from] = s
      BY <2>8, <2>9, <2>10, <2>13, <3>1
    <3>4. from <= to
      BY <2>8, <2>9, <2>10, <2>13, <3>2
    <3>. QED
      BY <3>1, <3>3, <3>4
  <2>15. PICK v : v = [w EXCEPT !.base = from, !.at = from, !.end = to,
                               !.unit = NewUnit(st), !.units = <<>>,
                               !.shadow_ss = "INVALID", !.finished = FALSE]
    OBVIOUS
  <2>16. worker' = [worker EXCEPT ![0] = v]
    <3>1. unit.start = p /\ unit.end = q /\ base(i) = b
      BY <2>1, <2>2, <2>7, <2>10 DEF unit
    <3>. QED
      BY <2>1, <2>11, <2>13, <2>15, <3>1
  <2>17. IsControl(w)
    BY <1>3, <2>1
  <2>18. /\ DOMAIN v = WorkerFields /\ v.base = from /\ v.at = from /\ v.end = to
         /\ v.unit = NewUnit(st) /\ v.shadow_ss = "INVALID" /\ v.finished = FALSE /\ v.ss = s
    BY <2>1, <2>15, <2>17 DEF IsControl, WorkerFields
  <2>19. IsControl(v)
    <3>1. IsUnit(NewUnit(st))
      BY DEF IsUnit, NewUnit, INVALID
    <3>2. s \in Seq(Symbols) /\ "INVALID" \in Shadows
      BY <2>1, <2>17 DEF Shadows, IsControl
    <3>. QED
      BY <2>14, <2>18, <3>1, <3>2 DEF IsControl
  <2>20. Inner(g, v, <<>>)'
    <3>1. v.shadow_ss # "KY" /\ v.at <= v.end /\ v.end <= Len(text) /\ (v.finished => v.at = v.end)
          /\ v.ss = g[v.at]
      BY <2>14, <2>18
    <3>. QED
      BY <1>1, <1>2, <2>19, <3>1, MajorOn
  <2>21. /\ DOMAIN worker' = DOMAIN worker
         /\ \A c \in DOMAIN worker : c # 0 => worker'[c] = worker[c]
         /\ worker'[0] = v /\ worker'[i] = y
    BY <1>2, <2>1, <2>16 DEF ThreadsOn
  <2>22. ThreadsOn(g)' /\ AllRun' /\ Chunks' = Chunks
    BY <1>1, <1>2, <2>21, ThreadsKept, SameChunks
  <2>23. Reprocessing(g)'
    <3>1. y.units[m].end = q /\ y.base = b
      BY <2>7, <2>10
    <3>2. worker'[i'] = y /\ j' = m
      BY <1>1, <2>2, <2>21
    <3>3. v.end = y.base + y.units[m].end - 1
      BY <2>13, <2>18, <3>1
    <3>. QED
      BY <2>6, <2>20, <2>21, <3>2, <3>3 DEF Reprocessing
  <2>. QED
    BY <1>1, <1>2, <2>12, <2>22, <2>23 DEF Splicing
<1>. QED
  BY <1>4, <1>5

(* RunAgain: worker 0 reads a token of the unit. *)
LEMMA SplicesRunAgain ==
  ASSUME EngineInv, NoBareLiteral, NEW g, TextOn(g), Splicing(g), RunAgain
  PROVE  Splicing(g)'
<1>1. /\ UNCHANGED <<text, cuts, first, i, j, k>> /\ phase = "reprocess" /\ phase' = "reprocess"
      /\ Step(0)
  BY StepAlone DEF RunAgain, pieceVars, combineVars
<1>2. PICK x : worker' = [worker EXCEPT ![0] = x]
  BY StepAlone DEF RunAgain
<1>3. /\ ThreadsOn(g) /\ AllRun /\ i \in Chunks /\ i # 0 /\ 0 \in Chunks
      /\ Stacked(g) /\ Len(text) \in Nat
  BY <1>1, CombineFacts
<1>4. Reprocessing(g)
  BY <1>1 DEF Splicing
<1>5. Inner(g, worker'[0], <<>>) /\ worker'[0].end = worker[0].end
  <2>1. Inner(g, worker[0], <<>>) /\ 0 \in DOMAIN worker
    BY <1>3, <1>4 DEF Reprocessing, ThreadsOn
  <2>. QED
    BY <1>1, <1>3, <2>1, MajorInner
<1>6. PICK v : v = worker'[0]
  OBVIOUS
<1>7. Inner(g, v, <<>>)'
  BY <1>1, <1>5, <1>6, SameInner
<1>8. /\ DOMAIN worker' = DOMAIN worker
      /\ \A c \in DOMAIN worker : c # 0 => worker'[c] = worker[c]
      /\ worker'[i] = worker[i]
  BY <1>2, <1>3 DEF ThreadsOn
<1>9. ThreadsOn(g)' /\ AllRun' /\ Chunks' = Chunks
  BY <1>1, <1>3, <1>8, ThreadsKept, SameChunks
<1>10. Reprocessing(g)'
  <2>1. worker'[i'] = worker[i] /\ j' = j
    BY <1>1, <1>8
  <2>. QED
    BY <1>4, <1>5, <1>6, <1>7, <2>1 DEF Reprocessing
<1>. QED
  BY <1>1, <1>3, <1>9, <1>10 DEF Splicing

(* Reprocessed: the stack is the one at the end of the unit. *)
LEMMA SplicesReprocessed ==
  ASSUME EngineInv, NEW g, TextOn(g), Splicing(g), Reprocessed
  PROVE  Splicing(g)'
<1>1. /\ UNCHANGED <<text, cuts, first, worker>> /\ phase = "reprocess" /\ worker[0].finished
  BY DEF Reprocessed, workerVars, pieceVars
<1>3. /\ ThreadsOn(g) /\ AllRun /\ i \in Chunks /\ i # 0 /\ 0 \in Chunks
      /\ HasEnded(g, worker[i]) /\ worker[i].end = chunkEnd(first + i)
  BY <1>1, CombineFacts
<1>4. PICK y, w : y = worker[i] /\ w = worker[0]
  OBVIOUS
<1>5. PICK m : m = j
  OBVIOUS
<1>6. m \in 1 .. Len(y.units) /\ Inner(g, w, <<>>) /\ w.end = y.base + y.units[m].end - 1
  BY <1>1, <1>4, <1>5 DEF Splicing, Reprocessing
<1>7. IsControl(w) /\ w.ss = g[w.end]
  BY <1>1, <1>4, <1>6, MajorOut
<1>8. HasEnded(g, y) /\ HasRun(g, y)
  BY <1>3, <1>4 DEF HasEnded
<1>9. CASE LastUnit
  <2>1. m = Len(y.units)
    BY <1>4, <1>5, <1>9 DEF LastUnit
  <2>2. y.base + y.units[m].end - 1 = y.end
    <3>1. PICK S : y.units \in Seq(S)
      BY <1>8 DEF HasEnded
    <3>2. PICK a : a = EnteredAt(y.base, y.units, m)
      OBVIOUS
    <3>. QED
      BY <1>6, <1>8, <2>1, <3>1, <3>2, RunUnits
  <2>3. PICK c \in Chunks : c = i
    BY <1>3
  <2>4. IsControl(worker'[0]) /\ worker'[0].ss = g[chunkEnd(first + c)]
    <3>1. w.ss = g[y.end] /\ y.end = chunkEnd(first + c)
      BY <1>3, <1>4, <1>6, <1>7, <2>2, <2>3
    <3>2. worker'[0] = w
      BY <1>1, <1>4
    <3>. QED
      BY <1>7, <3>1, <3>2
  <2>5. NextChunk
    BY <1>9 DEF Reprocessed
  <2>6. i' = c + 1 /\ j' = 1 /\ k' = 1 /\ phase' = IF c + 1 \in Chunks THEN "combine" ELSE "done"
    BY <2>3, <2>5 DEF NextChunk
  <2>7. DOMAIN worker' = DOMAIN worker /\ \A a \in DOMAIN worker : a # 0 => worker'[a] = worker[a]
    BY <1>1
  <2>. QED
    BY <1>1, <1>3, <2>4, <2>6, <2>7, ChunkLeft
<1>10. CASE ~LastUnit
  <2>1. m # Len(y.units)
    BY <1>4, <1>5, <1>10 DEF LastUnit
  <2>2. PICK m1, n1 : m1 = m + 1 /\ n1 = 1
    OBVIOUS
  <2>3. PICK s : s = w.ss
    OBVIOUS
  <2>4. s = g[y.base + y.units[m].end - 1]
    BY <1>6, <1>7, <2>3
  <2>5. Splices(g, y, s, m1, n1)
    BY <1>6, <1>8, <2>1, <2>2, <2>4, SplicesNext
  <2>6. j' = m1 /\ k' = n1 /\ i' = i /\ phase' = "combine"
    BY <1>5, <1>10, <2>2 DEF Reprocessed, NextUnit
  <2>7. /\ DOMAIN worker' = DOMAIN worker
        /\ \A a \in DOMAIN worker : a # 0 => worker'[a] = worker[a]
        /\ w = worker'[0]
    BY <1>1, <1>4
  <2>8. Splices(g, worker[i], w.ss, m1, n1)
    BY <1>4, <2>3, <2>5
  <2>. QED
    BY <1>1, <1>3, <1>7, <2>6, <2>7, <2>8, ChunkOn
<1>. QED
  BY <1>9, <1>10

(* MergeStacks: what the thread left open comes on top. *)
LEMMA SplicesMerge ==
  ASSUME EngineInv, NEW g, TextOn(g), Splicing(g), MergeStacks
  PROVE  Splicing(g)'
<1>1. /\ UNCHANGED <<text, cuts, first>> /\ phase = "combine" /\ j > Len(worker[i].units)
  BY DEF MergeStacks, pieceVars
<1>2. PICK ls : worker' = [worker EXCEPT ![0].ss = @ \o worker[i].ss, ![0].levels = ls]
  BY DEF MergeStacks
<1>3. /\ ThreadsOn(g) /\ AllRun /\ i \in Chunks /\ i # 0 /\ 0 \in Chunks
      /\ HasEnded(g, worker[i]) /\ worker[i].end = chunkEnd(first + i)
  BY <1>1, CombineFacts
<1>4. PICK y, w : y = worker[i] /\ w = worker[0]
  OBVIOUS
<1>5. PICK s, z : s = w.ss /\ z = s \o y.ss
  OBVIOUS
<1>6. PICK m, n : m = j /\ n = k
  OBVIOUS
<1>7. IsControl(w) /\ Splices(g, y, s, m, n) /\ m > Len(y.units) /\ HasEnded(g, y)
  BY <1>1, <1>3, <1>4, <1>5, <1>6 DEF Splicing, Combining
<1>8. g[y.end] = Atop(s, y.ss)
  <2>1. PICK l \in Nat : l = Len(y.units)
    BY <1>7, LenProperties DEF HasEnded
  <2>2. m \in 1 .. l + 1 /\ m > l
    BY <1>7, <2>1 DEF Splices
  <2>3. m = l + 1
    BY <2>1, <2>2
  <2>. QED
    BY <1>7, <2>1, <2>3 DEF Splices
<1>9. z = g[y.end] /\ z \in Seq(Symbols)
  <2>1. s \in Seq(Symbols) /\ y.ss \in Seq(Symbols)
    BY <1>5, <1>7 DEF IsControl, HasEnded, HasRun
  <2>2. z = Atop(s, y.ss)
    BY <1>5 DEF Atop
  <2>. QED
    BY <1>8, <2>1, <2>2, Stacking
<1>10. PICK v : v = [w EXCEPT !.ss = z, !.levels = ls]
  OBVIOUS
<1>11. worker' = [worker EXCEPT ![0] = v]
  <2>1. worker' = [worker EXCEPT ![0] =
                     [worker[0] EXCEPT !.ss = worker[0].ss \o worker[i].ss, !.levels = ls]]
    BY <1>2
  <2>. QED
    BY <1>4, <1>5, <1>10, <2>1
<1>12. IsControl(v) /\ v.ss = z
  BY <1>7, <1>9, <1>10 DEF IsControl, WorkerFields
<1>13. PICK c \in Chunks : c = i
  BY <1>3
<1>14. /\ DOMAIN worker' = DOMAIN worker /\ \A a \in DOMAIN worker : a # 0 => worker'[a] = worker[a]
       /\ worker'[0] = v
  BY <1>3, <1>11 DEF ThreadsOn
<1>15. IsControl(worker'[0]) /\ worker'[0].ss = g[chunkEnd(first + c)]
  BY <1>3, <1>4, <1>9, <1>12, <1>13, <1>14
<1>16. i' = c + 1 /\ j' = 1 /\ k' = 1 /\ phase' = IF c + 1 \in Chunks THEN "combine" ELSE "done"
  BY <1>13 DEF MergeStacks, NextChunk
<1>. QED
  BY <1>1, <1>3, <1>14, <1>15, <1>16, ChunkLeft

-----------------------------------------------------------------------------
(***************************************************************************)
(* The theorem.                                                            *)
(***************************************************************************)
(* The inductive invariant. *)
SpliceInv ==
  /\ EngineInv /\ SP!IInv /\ NoBareLiteral
  /\ phase # "text" => expect = "end"
  /\ \E g : TextOn(g) /\ Splicing(g)

(* It holds before the text arrives, *)
LEMMA SpliceInit ==
  ASSUME Init
  PROVE  SpliceInv
<1>1. EngineInv
  BY EngineInit
<1>2. SP!IInv /\ open = <<>> /\ syn = <<>> /\ pos = 0
  BY SerialStart
<1>3. /\ text = <<>> /\ cuts = <<Here(TRUE)>> /\ phase = "text" /\ i = 1 /\ j = 1 /\ k = 1
  BY DEF Init
<1>4. NoBareLiteral
  BY <1>3 DEF NoBareLiteral
<1>5. PICK o : o = <<>>
  OBVIOUS
<1>6. o \in Seq(Symbols) /\ WellNested(o) /\ Outer(o)
  BY <1>5 DEF WellNested, Outer
<1>7. PICK g : g = [n \in 0 .. 0 |-> o]
  OBVIOUS
<1>8. Len(text) = 0 /\ g[0] = o /\ g \in [0 .. 0 -> Seq(Symbols)]
  BY <1>3, <1>6, <1>7
<1>9. Stacked(g)
  BY <1>5, <1>6, <1>8 DEF Stacked
<1>10. Syms(open) = o
  <2>1. SP!StreamInv
    BY <1>2 DEF SP!IInv
  <2>. QED
    BY <1>2, <1>5, <2>1, SymsFacts
<1>11. PICK x : x = Here(TRUE) /\ x.at = 0 /\ x.syn = o
  <2>1. Here(TRUE).at = 0
    BY <1>2, HereAt
  <2>2. Here(TRUE).syn = o
    BY <1>2, <1>5, HereSyn
  <2>. QED
    BY <2>1, <2>2
<1>12. Len(cuts) = 1 /\ cuts[1] = x
  BY <1>3, <1>11
<1>13. CutsOn(g)
  <2>1. \A n \in 1 .. Len(cuts) : n = 1
    BY <1>12
  <2>2. \A n \in 1 .. Len(cuts) : Outer(g[cuts[n].at]) /\ (lost \/ cuts[n].syn = g[cuts[n].at])
    BY <1>6, <1>8, <1>11, <1>12, <2>1
  <2>3. \A n \in 1 .. Len(cuts) - 1 : cuts[n].at <= cuts[n + 1].at
    BY <1>12
  <2>. QED
    BY <2>2, <2>3 DEF CutsOn
<1>14. TextOn(g)
  BY <1>8, <1>9, <1>10, <1>13 DEF TextOn
<1>15. Splicing(g)
  BY <1>3 DEF Splicing
<1>. QED
  BY <1>1, <1>2, <1>3, <1>4, <1>14, <1>15 DEF SpliceInv

(* while it arrives, *)
LEMMA SpliceArrive ==
  ASSUME SpliceInv, TRUE \notin Literals, Arrive
  PROVE  SpliceInv'
<1>1. EngineInv /\ SP!IInv /\ NoBareLiteral
  BY DEF SpliceInv
<1>2. PICK g : TextOn(g) /\ Splicing(g)
  BY DEF SpliceInv
<1>3. EngineInv'
  BY <1>1, EngineArrive
<1>4. PICK t : Arrives(t)
  BY ArriveToken
<1>5. PICK h : TextOn(h)'
  BY <1>1, <1>2, <1>3, <1>4, TextArrives
<1>6. NoBareLiteral'
  BY <1>1, <1>4, QuotedArrives
<1>7. SP!IInv'
  <2>1. SerialNext
    BY <1>4 DEF Arrives
  <2>. QED
    BY <1>1, <2>1, SerialKept
<1>8. phase' = "text" /\ phase = "text" /\ UNCHANGED <<i, j, k>>
  BY DEF Arrive, combineVars
<1>9. Splicing(h)'
  BY <1>2, <1>8 DEF Splicing
<1>. QED
  BY <1>3, <1>5, <1>6, <1>7, <1>8, <1>9 DEF SpliceInv

(* Once the text is there nothing of it changes. *)
LEMMA SpliceNext ==
  ASSUME SpliceInv, EngineInv', UNCHANGED <<serialVars, qa, text, cuts>>,
         phase' # "text" => expect = "end", \A g : TextOn(g) /\ Splicing(g) => Splicing(g)'
  PROVE  SpliceInv'
<1>1. SP!IInv /\ NoBareLiteral
  BY DEF SpliceInv
<1>2. SP!IInv'
  BY <1>1, SerialSame
<1>3. NoBareLiteral'
  BY <1>1 DEF NoBareLiteral
<1>4. PICK g : TextOn(g) /\ Splicing(g)
  BY DEF SpliceInv
<1>5. TextOn(g)'
  <2>1. UNCHANGED <<text, cuts, open, lost>>
    BY DEF serialVars
  <2>. QED
    BY <1>4, <2>1, SameText
<1>6. Splicing(g)'
  BY <1>4
<1>7. (phase # "text" => expect = "end")'
  BY DEF serialVars
<1>. QED
  BY <1>2, <1>3, <1>5, <1>6, <1>7 DEF SpliceInv

(* and while combine runs. *)
LEMMA SpliceCombine ==
  ASSUME SpliceInv, Combine
  PROVE  SpliceInv'
<1>1. EngineInv /\ NoBareLiteral /\ EngineInv'
  BY EngineCombine DEF SpliceInv
<1>2. CASE Replay
  <2>1. UNCHANGED <<serialVars, qa, text, cuts>> /\ phase # "text"
    BY <1>2 DEF Replay
  <2>2. \A g : TextOn(g) /\ Splicing(g) => Splicing(g)'
    BY <1>1, <1>2, SplicesReplay
  <2>3. expect = "end"
    BY <2>1 DEF SpliceInv
  <2>. QED
    BY <1>1, <2>1, <2>2, <2>3, SpliceNext
<1>3. CASE TakeUnit
  <2>1. UNCHANGED <<serialVars, qa, text, cuts>> /\ phase # "text"
    BY <1>3 DEF TakeUnit, Replayed
  <2>2. \A g : TextOn(g) /\ Splicing(g) => Splicing(g)'
    BY <1>1, <1>3, SplicesTakeUnit
  <2>3. expect = "end"
    BY <2>1 DEF SpliceInv
  <2>. QED
    BY <1>1, <2>1, <2>2, <2>3, SpliceNext
<1>4. CASE Reprocess
  <2>1. UNCHANGED <<serialVars, qa, text, cuts>> /\ phase # "text"
    BY <1>4 DEF Reprocess, Replayed
  <2>2. \A g : TextOn(g) /\ Splicing(g) => Splicing(g)'
    BY <1>1, <1>4, SplicesReprocess
  <2>3. expect = "end"
    BY <2>1 DEF SpliceInv
  <2>. QED
    BY <1>1, <2>1, <2>2, <2>3, SpliceNext
<1>5. CASE RunAgain
  <2>1. UNCHANGED <<serialVars, qa, text, cuts>> /\ phase # "text"
    BY <1>5, StepAlone DEF RunAgain
  <2>2. \A g : TextOn(g) /\ Splicing(g) => Splicing(g)'
    BY <1>1, <1>5, SplicesRunAgain
  <2>3. expect = "end"
    BY <2>1 DEF SpliceInv
  <2>. QED
    BY <1>1, <2>1, <2>2, <2>3, SpliceNext
<1>6. CASE Reprocessed
  <2>1. UNCHANGED <<serialVars, qa, text, cuts>> /\ phase # "text"
    BY <1>6 DEF Reprocessed, workerVars
  <2>2. \A g : TextOn(g) /\ Splicing(g) => Splicing(g)'
    BY <1>1, <1>6, SplicesReprocessed
  <2>3. expect = "end"
    BY <2>1 DEF SpliceInv
  <2>. QED
    BY <1>1, <2>1, <2>2, <2>3, SpliceNext
<1>7. CASE MergeStacks
  <2>1. UNCHANGED <<serialVars, qa, text, cuts>> /\ phase # "text"
    BY <1>7 DEF MergeStacks
  <2>2. \A g : TextOn(g) /\ Splicing(g) => Splicing(g)'
    BY <1>1, <1>7, SplicesMerge
  <2>3. expect = "end"
    BY <2>1 DEF SpliceInv
  <2>. QED
    BY <1>1, <2>1, <2>2, <2>3, SpliceNext
<1>. QED
  BY <1>2, <1>3, <1>4, <1>5, <1>6, <1>7 DEF Combine

(* So every step keeps it, *)
LEMMA SpliceStep ==
  ASSUME SpliceInv, TRUE \notin Literals, Next
  PROVE  SpliceInv'
<1>1. EngineInv /\ NoBareLiteral
  BY DEF SpliceInv
<1>2. CASE Arrive
  BY <1>2, SpliceArrive
<1>3. CASE CreateThreads
  <2>1. UNCHANGED <<serialVars, qa, text, cuts>> /\ expect = "end"
    BY <1>3 DEF CreateThreads
  <2>2. \A g : TextOn(g) /\ Splicing(g) => Splicing(g)'
    BY <1>1, <1>3, SplicesCreateThreads
  <2>3. EngineInv'
    BY <1>1, <1>3, EngineCreateThreads
  <2>. QED
    BY <2>1, <2>2, <2>3, SpliceNext
<1>4. ASSUME NEW c, c \in Chunks, Run(c)
      PROVE  SpliceInv'
  <2>1. UNCHANGED <<serialVars, qa, text, cuts>> /\ phase # "text"
    BY <1>4, StepAlone DEF Run
  <2>2. \A g : TextOn(g) /\ Splicing(g) => Splicing(g)'
    BY <1>1, <1>4, SplicesRun
  <2>3. EngineInv'
    BY <1>1, <1>4, EngineRun
  <2>4. expect = "end"
    BY <2>1 DEF SpliceInv
  <2>. QED
    BY <2>1, <2>2, <2>3, <2>4, SpliceNext
<1>5. CASE JoinThreads
  <2>1. UNCHANGED <<serialVars, qa, text, cuts>> /\ phase # "text"
    BY <1>5 DEF JoinThreads, workerVars
  <2>2. \A g : TextOn(g) /\ Splicing(g) => Splicing(g)'
    BY <1>1, <1>5, SplicesJoin
  <2>3. EngineInv'
    BY <1>1, <1>5, EngineJoin
  <2>4. expect = "end"
    BY <2>1 DEF SpliceInv
  <2>. QED
    BY <2>1, <2>2, <2>3, <2>4, SpliceNext
<1>6. CASE Combine
  BY <1>6, SpliceCombine
<1>7. CASE parallelPartialRun
  <2>1. UNCHANGED <<serialVars, qa, text, cuts>> /\ phase # "text"
    BY <1>7 DEF parallelPartialRun
  <2>2. \A g : TextOn(g) /\ Splicing(g) => Splicing(g)'
    BY <1>1, <1>7, SplicesNextPiece
  <2>3. EngineInv'
    BY <1>1, <1>7, EngineNextPiece
  <2>4. expect = "end"
    BY <2>1 DEF SpliceInv
  <2>. QED
    BY <2>1, <2>2, <2>3, <2>4, SpliceNext
<1>. QED
  BY <1>2, <1>3, <1>4, <1>5, <1>6, <1>7 DEF Next

(* and no step at all. *)
LEMMA SplicingIdle ==
  ASSUME UNCHANGED <<text, cuts, first, worker, phase, i, j, k>>, NEW g, Splicing(g)
  PROVE  Splicing(g)'
<1>1. PICK w, y : w = worker[0] /\ y = worker[i]
  OBVIOUS
<1>2. PICK s, m, n : s = worker[0].ss /\ m = j /\ n = k
  OBVIOUS
<1>3. w = worker'[0] /\ y = worker'[i'] /\ s = worker'[0].ss /\ m = j' /\ n = k'
  BY <1>1, <1>2
<1>4. /\ Chunks' = Chunks /\ chunkEnd(first)' = chunkEnd(first)
      /\ chunkEnd(NextStart(first) - 1)' = chunkEnd(NextStart(first) - 1)
  BY SameChunks
<1>5. ThreadsOn(g) => ThreadsOn(g)' /\ (AllRun => AllRun')
  BY ThreadsKept
<1>6. Inner(g, w, <<>>) => Inner(g, w, <<>>)'
  BY SameInner
<1>7. IsControl(worker[0]) => IsControl(worker[0])'
  BY DEF IsControl
<1>8. Running(g) => Running(g)'
  BY <1>1, <1>3, <1>4, <1>5, <1>6 DEF Running
<1>9. Combining(g) => Combining(g)'
  <2>1. Splices(g, y, s, m, n) => Splices(g, y, s, m, n)'
    BY SameSplices
  <2>. QED
    BY <1>1, <1>2, <1>3, <1>7, <2>1 DEF Combining
<1>10. Reprocessing(g) => Reprocessing(g)'
  BY <1>1, <1>2, <1>3, <1>6 DEF Reprocessing
<1>11. Done(g) => Done(g)'
  BY <1>4, <1>7 DEF Done
<1>. QED
  BY <1>4, <1>5, <1>8, <1>9, <1>10, <1>11 DEF Splicing

LEMMA SpliceIdle ==
  ASSUME SpliceInv, UNCHANGED vars
  PROVE  SpliceInv'
<1>1. /\ UNCHANGED <<serialVars, qa, text, cuts>>
      /\ UNCHANGED <<worker, ct, first, phase, i, j, k, expect, pos>>
  <2>1. UNCHANGED <<serialVars, workerVars, phase, cuts, pieceVars, combineVars>>
    BY DEF vars
  <2>. QED
    BY <2>1 DEF workerVars, pieceVars, combineVars, serialVars
<1>2. EngineInv'
  BY <1>1 DEF SpliceInv, EngineInv, QueryType, TextType, CutsType, TreesGrown, Grown
<1>3. \A g : TextOn(g) /\ Splicing(g) => Splicing(g)'
  BY <1>1, SplicingIdle
<1>4. phase' # "text" => expect = "end"
  BY <1>1 DEF SpliceInv
<1>5. UNCHANGED <<serialVars, qa, text, cuts>>
  BY <1>1
<1>. QED
  BY <1>2, <1>3, <1>4, <1>5, SpliceNext

(* In front of a chunk. *)
LEMMA SplicedInFront ==
  ASSUME EngineInv, NEW g, TextOn(g), Splicing(g), ~lost, InFront
  PROVE  worker[0].ss = AtCut.syn
<1>1. phase = "combine" /\ j = 1 /\ k = 1
  BY DEF InFront
<1>2. /\ i \in Chunks /\ HasEnded(g, worker[i]) /\ worker[i].base = base(i)
  BY <1>1, CombineFacts
<1>3. Splices(g, worker[i], worker[0].ss, j, k)
  BY <1>1 DEF Splicing, Combining
<1>4. PICK y : y = worker[i]
  OBVIOUS
<1>5. 1 <= Len(y.units)
  <2>1. Len(y.units) \in Nat /\ Len(y.units) >= 1
    BY <1>2, <1>4, LenProperties DEF HasEnded, HasRun
  <2>. QED
    BY <2>1
<1>6. worker[0].ss = g[PlaceOf(y.base, EnteredAt(y.base, y.units, 1), y.units[1].symbols, 1 - 1)]
  BY <1>1, <1>3, <1>4, <1>5 DEF Splices
<1>7. worker[0].ss = g[base(i)]
  BY <1>2, <1>4, <1>6 DEF PlaceOf, EnteredAt
<1>8. PICK n \in 1 .. Len(cuts) : n = first + i
  <2>1. PICK c : c = i
    OBVIOUS
  <2>2. first + c \in 1 .. Len(cuts)
    BY <1>2, <2>1, ChunkFacts
  <2>. QED
    BY <2>1, <2>2
<1>9. cuts[n].syn = g[cuts[n].at]
  BY DEF TextOn, CutsOn
<1>. QED
  BY <1>1, <1>7, <1>8, <1>9 DEF AtCut, Through, base

(* In front of a piece, and in the end. *)
LEMMA SplicedThrough ==
  ASSUME EngineInv, SP!IInv, NEW g, TextOn(g), Splicing(g), ~lost, Through, expect = "end"
  PROVE  /\ ~LastPiece => worker[0].ss = AtCut.syn
         /\ LastPiece => worker[0].ss = <<>>
<1>1. PICK S : cuts \in Seq(S)
  BY DEF EngineInv, CutsType
<1>2. PICK l \in Nat : l = Len(cuts)
  BY <1>1, LenProperties
<1>3. PICK f \in 1 .. l : f = first
  BY <1>2 DEF EngineInv
<1>4. PICK n \in f + 1 .. l + 1 : n = NextStart(first)
  BY <1>1, <1>2, <1>3, NextStartFacts
<1>5. worker[0].ss = g[chunkEnd(n - 1)]
  BY <1>4 DEF Through, Splicing, Done
<1>6. CASE LastPiece
  <2>1. n = l + 1 /\ n - 1 = l
    BY <1>2, <1>4, <1>6 DEF LastPiece
  <2>2. chunkEnd(n - 1) = Len(text)
    BY <1>2, <2>1 DEF chunkEnd
  <2>3. open = <<>> /\ SP!StreamInv
    BY DEF SP!IInv, SP!StreamInv, SP!StreamShape
  <2>4. Syms(open) = <<>>
    BY <2>3, SymsFacts
  <2>. QED
    BY <1>5, <1>6, <2>2, <2>4 DEF TextOn
<1>7. CASE ~LastPiece
  <2>1. n \in 1 .. l /\ n - 1 # l /\ (n - 1) + 1 = n
    BY <1>2, <1>4, <1>7 DEF LastPiece
  <2>2. chunkEnd(n - 1) = cuts[n].at
    BY <1>2, <2>1 DEF chunkEnd
  <2>3. cuts[n].syn = g[cuts[n].at]
    BY <1>2, <2>1 DEF TextOn, CutsOn
  <2>4. AtCut = cuts[n]
    BY <1>4 DEF AtCut
  <2>. QED
    BY <1>5, <1>7, <2>2, <2>3, <2>4
<1>. QED
  BY <1>6, <1>7

(* That is what is to be shown. *)
LEMMA SplicedStack ==
  ASSUME SpliceInv, ~lost
  PROVE  SplicesSyntaxStack
<1>1. EngineInv /\ SP!IInv
  BY DEF SpliceInv
<1>2. PICK g : TextOn(g) /\ Splicing(g)
  BY DEF SpliceInv
<1>3. Through => expect = "end"
  BY DEF SpliceInv, Through
<1>4. InFront => worker[0].ss = AtCut.syn
  BY <1>1, <1>2, SplicedInFront
<1>5. Through => /\ ~LastPiece => worker[0].ss = AtCut.syn
                 /\ LastPiece => worker[0].ss = <<>>
  BY <1>1, <1>2, <1>3, SplicedThrough
<1>. QED
  BY <1>4, <1>5 DEF SplicesSyntaxStack, BeforeCut, AtEnd

(* In front of every chunk and every piece worker 0 has on its syntax stack what
   the serial engine has there, and in the end nothing: for every text without
   a bare literal, however it is cut, whatever the threads infer of what
   encloses them and in whatever order they run (worker_automaton.c, and the
   loops of combine in parallel_automata_execution.h). *)
THEOREM StacksSpliced ==
  ASSUME TRUE \notin Literals
  PROVE  Spec => [](~lost => SplicesSyntaxStack)
<1>1. TRUE \notin Literals => [](TRUE \notin Literals)
  BY PTL
<1>2. Init => SpliceInv
  BY SpliceInit
<1>3. TRUE \notin Literals /\ SpliceInv /\ [Next]_vars => SpliceInv'
  BY SpliceStep, SpliceIdle
<1>4. SpliceInv => (~lost => SplicesSyntaxStack)
  BY SplicedStack
<1>. QED
  BY <1>1, <1>2, <1>3, <1>4, PTL DEF Spec
=============================================================================
