------------------------- MODULE ParallelExecution -------------------------
(***************************************************************************)
(* executeParallelAutomata and combine (parallel_automata_execution.h) in  *)
(* the loop of parallelRun (path_processor.h): a file is loaded in pieces, *)
(* each piece is cut into chunks, one thread runs a worker automaton over  *)
(* each chunk, all are joined, and combine splices their stacks and their  *)
(* tuple lists onto those of worker 0, chunk by chunk and unit by unit.    *)
(* Worker 0 goes on over the first chunk of the next piece.                *)
(*                                                                         *)
(*   phase       the text arrives, the threads run, combine goes through   *)
(*               the chunks, a unit is reprocessed, the piece is done;     *)
(*               "undefined" when combine computes with a start position   *)
(*               that was never set                                        *)
(*   cuts        where each chunk starts, whether a piece does, and what   *)
(*               the serial engine has on its stacks there (history)       *)
(*   first       which of the cuts begins the current piece                *)
(*   listed      (history) the tuples handed to the filter with the pieces *)
(*               before                                                    *)
(*   finish_flag of ParallelAutomata, which initParallelAutomata leaves    *)
(*               unset                                                     *)
(*   i, j, k     the loop variables of combine, which works on the stacks  *)
(*               and the tuple list of worker 0                            *)
(*                                                                         *)
(* While the text arrives the serial engine reads it too, on syn, qry, elt *)
(* and tuples: its run over the whole stream is what the threads are       *)
(* compared with.                                                          *)
(***************************************************************************)
EXTENDS WorkerAutomaton

CONSTANTS Keys, MaxTokens,    \* of JsonStream
          Queries,      \* pairs of a query automaton and a constraint table
          MaxChunks,    \* num_core
          MaxPieces,    \* bound: the pieces of a file
          FinishFlags,  \* what finish_flag may hold
          Literals,     \* whether a primitive of the text is bare
          UnitStates,   \* what the state of a unit may be before it is set
          UnsetRoots    \* what the roots of a node that got none may be

ASSUME KeysAssumption == ARRAY \notin Keys /\ ANY_KEY \notin Keys
ASSUME MaxTokensAssumption == MaxTokens \in Nat
ASSUME QueriesAssumption ==
  \A q \in Queries : /\ IsQueryDFA(q.qa)
                     /\ q.ct \in {CLOSE} \union [Keys \union {ARRAY} -> SUBSET States(q.qa)]
ASSUME ChunksAssumption == MaxChunks \in Nat \ {0}
ASSUME PiecesAssumption == MaxPieces \in Nat \ {0}
ASSUME LiteralsAssumption == Literals \subseteq BOOLEAN
ASSUME UnitStatesAssumption == UnitStates \subseteq {"NEW", "MATCHED"}
ASSUME UnsetAssumption == UnsetRoots \subseteq SUBSET Nat

VARIABLES phase, cuts, first, listed, finish_flag, i, j, k,
          open, path, expect, pos,        \* of JsonStream
          syn, qry, elt, tuples, lost     \* of the serial engine

INPROGRESS == 0

combineVars == <<i, j, k>>
pieceVars   == <<first, listed, finish_flag>>
serialVars  == <<open, path, expect, pos, syn, qry, elt, tuples, lost>>
vars == <<serialVars, workerVars, phase, cuts, pieceVars, combineVars>>

Serial == INSTANCE StreamingAutomaton WITH
            Queries <- {q.qa : q \in Queries}, MaxStack <- 100,
            DataConstraintFlag <- FALSE,
            ct <- [l \in Keys \union {ARRAY} |-> {}],
            ss <- syn, qs <- qry, cur <- elt, tl <- tuples

(***************************************************************************)
(* The text, and the places where it may be cut: in front of a quoted      *)
(* string that follows '{', '[' or ',' (loadBoundedInputStream,            *)
(* partitionInputStream, partitionFile).  Where it is cut depends on the   *)
(* lengths of the tokens and of the blanks between them, which are         *)
(* arbitrary; no piece ends within an answer, whose text would be lost.    *)
(***************************************************************************)
Token(type, key, bare) == [type |-> type, key |-> key, bare |-> bare]

Quoted(t) == t.type = "KY" \/ (t.type = "PRI" /\ ~t.bare)

AfterDelimiter == text # <<>> /\ Last(text).type \in {"LCB", "LB", "COM"}

StatesOf(s) == [n \in DOMAIN s |-> s[n].query_state]

Here(piece) ==
        [at |-> pos, piece |-> piece, syn |-> syn, states |-> StatesOf(Append(qry, elt)),
         matches |-> {open[n].depth + 1 : n \in {m \in DOMAIN open :
                        /\ open[m].sym # "KY"
                        /\ Append(qry, elt)[open[m].depth + 1].matched_start = open[m].from}},
         tuples |-> Len(tuples)]

PieceStarts == {n \in DOMAIN cuts : cuts[n].piece}

Cut ==
  \/ /\ Len(cuts) - Max(PieceStarts) + 1 < MaxChunks
     /\ cuts' = Append(cuts, Here(FALSE))
  \/ /\ Cardinality(PieceStarts) < MaxPieces
     /\ Here(TRUE).matches = {}
     /\ cuts' = Append(cuts, Here(TRUE))

Feed(t) ==
  /\ text' = Append(text, t)
  /\ \/ cuts' = cuts
     \/ Quoted(t) /\ AfterDelimiter /\ Cut

(* The tokens the text still needs; a text that cannot end within MaxTokens is
   not begun. *)
Owed == Cardinality({n \in DOMAIN open' : open'[n].sym # "KY"}) +
        (IF expect' \in {"value"} THEN 1 ELSE IF expect' = "key" THEN 2 ELSE 0)

Arrive ==
  /\ phase = "text"
  /\ \/ Serial!LCB /\ Feed(Token("LCB", "", FALSE))
     \/ Serial!RCB /\ Feed(Token("RCB", "", FALSE))
     \/ Serial!LB  /\ Feed(Token("LB", "", FALSE))
     \/ Serial!RB  /\ Feed(Token("RB", "", FALSE))
     \/ Serial!COM /\ Feed(Token("COM", "", FALSE))
     \/ \E key \in Keys : Serial!KY(key) /\ Feed(Token("KY", key, FALSE))
     \/ \E bare \in Literals : Serial!PRI /\ Feed(Token("PRI", "", bare))
  /\ pos' + Owed <= MaxTokens
  /\ UNCHANGED <<ct, worker, phase, pieceVars, combineVars>>

(***************************************************************************)
(* The threads.  They share the query automaton and the constraint table,  *)
(* which none of them writes.                                              *)
(***************************************************************************)
(* Where the chunk at a cut ends, and where the piece after it begins. *)
chunkEnd(n)  == IF n = Len(cuts) THEN Len(text) ELSE cuts[n + 1].at
NextStart(n) == Min({m \in PieceStarts \union {Len(cuts) + 1} : m > n})

ChunksOf(n) == 0 .. NextStart(n) - n - 1
Chunks      == ChunksOf(first)
base(c)     == cuts[first + c].at
LastPiece   == NextStart(first) > Len(cuts)

(* A thread for every chunk of the piece that begins at cut n. *)
Threads(n, thread_0, st) ==
  [c \in ChunksOf(n) |->
     IF c = 0 THEN thread_0
     ELSE StartWorker(c, cuts[n + c].at, chunkEnd(n + c), st[c])]

CreateThreads ==
  /\ phase = "text"
  /\ expect = "end"
  /\ phase' = "run"
  /\ \E st \in [Chunks -> UnitStates] :
       worker' = Threads(first, StartWorker(0, 0, chunkEnd(first), st[0]), st)
  /\ UNCHANGED <<serialVars, qa, ct, text, cuts, pieceVars, combineVars>>

Run(c) ==
  /\ phase = "run" /\ c \in Chunks
  /\ Step(c)
  /\ UNCHANGED <<serialVars, phase, cuts, pieceVars, combineVars>>

EveryCoreJoined ==                                                    \* fault
  /\ phase = "run"
  /\ \A c \in 0 .. MaxChunks - 1 : c \in Chunks /\ worker[c].finished
  /\ phase' = IF Chunks = {0} THEN "done" ELSE "combine"
  /\ UNCHANGED <<serialVars, workerVars, cuts, pieceVars, combineVars>>

JoinThreads ==
  /\ phase = "run"
  /\ \A c \in Chunks : worker[c].finished
  /\ phase' = IF Chunks = {0} THEN "done" ELSE "combine"
  /\ UNCHANGED <<serialVars, workerVars, cuts, pieceVars, combineVars>>

(***************************************************************************)
(* combine.                                                                *)
(***************************************************************************)
seq_wa  == worker[0]
unit    == worker[i].units[j]
LastUnit == j = Len(worker[i].units)
c_node  == Current(seq_wa)[1]

(* Every path of worker 0 goes through one state, so a node there has what a
   worker's nodes have as the only one of its level. *)
Emit(w, node, t) == AddTuples(0, w, <<node>>, LAMBDA n : <<t>>)

(* The text from the start of a match to token p of chunk i: the rest of the
   chunk before, and this one up to p. *)
Joined(node, index) ==
  Tuple(node.query_state, "value", base(i-1) + node.matched_start, base(i) + index)

(* getMatchedType of parallel_automata_execution.h *)
Pending(node) ==
  /\ node.matched_start # INVALID
  /\ MatchedType(qa, node.query_state, node.count) = OUTPUT_CANDIDATE

SetNode(w, node) == MapCurrent(w, LAMBDA n : node)

ReplayRCB(s) ==
  LET open_  == seq_wa.ss # <<>>
      clear  == [c_node EXCEPT !.matched_start = INVALID]
      done   == IF open_ /\ Pending(c_node)
                  THEN SetNode(Emit(seq_wa, c_node, Joined(c_node, s.index)), clear)
                  ELSE seq_wa
      member == MapCurrent(PopSyntax(done, 1), CountUp)
  IN  IF Len(seq_wa.ss) = 1 THEN PopSyntax(done, 1)
      ELSE IF SecondTop(seq_wa) = "KY" THEN PopLevels(PopSyntax(done, 2), 1)
      ELSE IF SecondTop(seq_wa) = "LB"
        THEN IF MatchedType(qa, c_node.query_state, c_node.count) = PREDICATE
               THEN Emit(member, c_node, Mark(c_node.query_state, "}"))
               ELSE member
      ELSE done

(* The tuple of an array goes to the roots of its members' node, and it is that
   node whose match is cleared. *)
ReplayRB(s) ==
  LET array == seq_wa.levels[Len(seq_wa.levels) - 1][1]
      clear == [c_node EXCEPT !.matched_start = INVALID]
      done  == IF seq_wa.ss # <<>> /\ Pending(array)
                 THEN SetNode(Emit(seq_wa, c_node, Joined(array, s.index)), clear)
                 ELSE seq_wa
  IN  IF Len(seq_wa.ss) = 1 THEN PopLevels(PopSyntax(done, 1), 1)
      ELSE IF SecondTop(seq_wa) = "KY" THEN PopLevels(PopSyntax(done, 2), 2)
      ELSE IF SecondTop(seq_wa) = "LB"
        THEN MapCurrent(PopLevels(PopSyntax(done, 1), 1), CountUp)
      ELSE done

(* The unmatched symbols of a unit, one after the other; a literal's symbol has
   no case. *)
ReplaySymbol ==
  LET s == unit.symbols[k] IN
  worker' = [worker EXCEPT ![0] =
    IF s.type = "RCB" THEN ReplayRCB(s)
    ELSE IF s.type = "RB" THEN ReplayRB(s)
    ELSE IF s.type \in {"OBJECT", "ARRAY"} THEN PopSyntax(PopLevels(@, 1), 1)
    ELSE @]

Replay ==
  /\ phase = "combine"
  /\ j <= Len(worker[i].units)
  /\ k <= Len(unit.symbols)
  /\ ReplaySymbol
  /\ k' = k + 1
  /\ UNCHANGED <<serialVars, qa, ct, text, phase, cuts, pieceVars, i, j>>

Replayed ==
  /\ phase = "combine"
  /\ j <= Len(worker[i].units)
  /\ k > Len(unit.symbols)

FirstRootTaken == DOMAIN unit.roots                                   \* fault

RootsFound == {r \in DOMAIN unit.roots : unit.roots[r].query_state = c_node.query_state}

TableTrusted == FALSE                                                 \* fault

Mispredicted ==
  /\ RootsFound = {} /\ unit.roots # <<>>
  /\ unit.state # "UNMATCHED"
  /\ unit.end > unit.start

NextUnit == j' = j + 1 /\ k' = 1

(* The 2-tuples of the right root.  Below a slice, a tuple also stands for one
   element of the array, and past the upper end the state is given up. *)
Unsliced(node)  == qa.index[node.query_state] = [lower |-> 0, upper |-> 0]
EndsElement(t)  == t.text \in {"}", "]"}
InRange(node)   == InSlice(qa.index[node.query_state], node.count)
GivenUp(node)   == IF node.count >= qa.index[node.query_state].upper
                     THEN [node EXCEPT !.query_state = 0] ELSE node

NodeAfter(node, t) ==
  IF node.query_state = 0 \/ Unsliced(node) THEN node
  ELSE IF EndsElement(t) THEN GivenUp(CountUp(node))
  ELSE IF ~InRange(node) THEN GivenUp(node)
  ELSE IF qa.accept[node.query_state] = OUTPUT_CANDIDATE THEN CountUp(node)
  ELSE node

Taken(node, t) ==
  IF /\ node.query_state # 0
     /\ Unsliced(node) \/ (~EndsElement(t) /\ InRange(node))
    THEN << IF t.text = "virtual"
              THEN Tuple(t.state, "value", base(i) + t.from, base(i) + t.to) ELSE t >>
    ELSE <<>>

TakeUnit ==
  /\ Replayed
  /\ ~Mispredicted
  /\ LET found == IF RootsFound = {} THEN <<>> ELSE unit.roots[Min(RootsFound)].tuples
         node[n \in 0 .. Len(found)] ==
           IF n = 0 THEN c_node ELSE NodeAfter(node[n-1], found[n])
     IN  worker' = [worker EXCEPT ![0] =
                      [SetNode(seq_wa, node[Len(found)]) EXCEPT !.out[1] =
                         @ \o FlattenSeq([n \in DOMAIN found |-> Taken(node[n-1], found[n])])]]
  /\ NextUnit
  /\ UNCHANGED <<serialVars, qa, ct, text, phase, cuts, pieceVars, i>>

(* No root is in the current state: worker 0 runs over the unit again, from
   the combined stacks.  A unit whose first token was a literal has no start. *)
Reprocess ==
  /\ Replayed
  /\ Mispredicted
  /\ IF unit.start = INVALID
       THEN phase' = "undefined" /\ UNCHANGED worker
       ELSE /\ phase' = "reprocess"
            /\ \E st \in UnitStates :
                 worker' = [worker EXCEPT ![0] =
                   [@ EXCEPT !.base = base(i) + unit.start - 1,
                             !.at   = base(i) + unit.start - 1,
                             !.end  = base(i) + unit.end - 1,
                             !.unit = NewUnit(st), !.units = <<>>,
                             !.shadow_ss = "INVALID", !.finished = FALSE]]
  /\ UNCHANGED <<serialVars, qa, ct, text, cuts, pieceVars, combineVars>>

RunAgain ==
  /\ phase = "reprocess"
  /\ Step(0)
  /\ UNCHANGED <<serialVars, phase, cuts, pieceVars, combineVars>>

NextChunk ==
  /\ i' = i + 1 /\ j' = 1 /\ k' = 1
  /\ phase' = IF i + 1 \in Chunks THEN "combine" ELSE "done"

(* A reprocessed unit is not collected; the last one leaves nothing to merge. *)
Reprocessed ==
  /\ phase = "reprocess"
  /\ worker[0].finished
  /\ IF LastUnit THEN NextChunk
     ELSE NextUnit /\ phase' = "combine" /\ UNCHANGED i
  /\ UNCHANGED <<serialVars, workerVars, cuts, pieceVars>>

(* combineSyntaxStack and combineQueryStacks. *)
MergeStacks ==
  /\ phase = "combine"
  /\ j > Len(worker[i].units)
  /\ \E unset \in UnsetRoots :
       worker' = [worker EXCEPT
                    ![0].ss = @ \o worker[i].ss,
                    ![0].levels = combineQueryStacks(@, worker[i].levels, unset)]
  /\ NextChunk
  /\ UNCHANGED <<serialVars, qa, ct, text, cuts, pieceVars>>

StackRenewed(w, n, st) == StartWorker(0, cuts[n].at, chunkEnd(n), st)   \* fault

(* major_automaton goes on over the piece at cut n with its stacks, and with a
   new list of tuples if the flag says that the run is in progress. *)
Continued(w, n, st) ==
  [w EXCEPT !.base = cuts[n].at, !.at = cuts[n].at, !.end = chunkEnd(n),
            !.unit = NewUnit(st), !.units = <<>>,
            !.shadow_ss = "INVALID", !.finished = FALSE,
            !.out[1] = IF finish_flag = INPROGRESS THEN <<>> ELSE @]

parallelPartialRun ==
  /\ phase = "done"
  /\ ~LastPiece
  /\ LET n == NextStart(first) IN
       /\ first' = n
       /\ \E st \in [ChunksOf(n) -> UnitStates] :
            worker' = Threads(n, Continued(worker[0], n, st[0]), st)
  /\ listed' = listed \o worker[0].out[1]
  /\ i' = 1 /\ j' = 1 /\ k' = 1
  /\ phase' = "run"
  /\ UNCHANGED <<serialVars, qa, ct, text, cuts, finish_flag>>

Combine == Replay \/ TakeUnit \/ Reprocess \/ RunAgain \/ Reprocessed \/ MergeStacks

Init ==
  /\ \E q \in Queries : qa = q.qa /\ ct = q.ct
  /\ Serial!Init
  /\ text = <<>>
  /\ worker = <<>>
  /\ phase = "text"
  /\ cuts = <<Here(TRUE)>>
  /\ first = 1
  /\ listed = <<>>
  /\ finish_flag \in FinishFlags
  /\ i = 1 /\ j = 1 /\ k = 1

Next ==
  \/ Arrive
  \/ CreateThreads
  \/ \E c \in Chunks : Run(c)
  \/ JoinThreads
  \/ Combine
  \/ parallelPartialRun

(* The operating system runs every thread; everything else is the main thread. *)
Fairness ==
  /\ WF_vars(CreateThreads)
  /\ \A c \in 0 .. MaxChunks - 1 : WF_vars(Run(c))
  /\ WF_vars(JoinThreads)
  /\ WF_vars(Combine)
  /\ WF_vars(parallelPartialRun)

Spec == Init /\ [][Next]_vars /\ Fairness
-----------------------------------------------------------------------------
(***************************************************************************)
(* Properties.                                                             *)
(***************************************************************************)
(* combine is in front of chunk i, or through with the piece; there the text
   goes on with the cut AtCut.  Collected are all tuples up to there. *)
InFront == phase = "combine" /\ j = 1 /\ k = 1
Through == phase = "done"

AtCut == cuts[IF Through THEN NextStart(first) ELSE first + i]

AtEnd     == Through /\ LastPiece
BeforeCut == InFront \/ (Through /\ ~LastPiece)
Collected == listed \o worker[0].out[1]

(* In front of every chunk and every piece the combined syntax stack is the one
   the serial engine has there, and in the end it is empty: the unmatched
   symbols of each unit take away exactly what the chunks before have left
   open, and what a chunk leaves open comes on top. *)
SplicesSyntaxStack ==
  /\ BeforeCut => worker[0].ss = AtCut.syn
  /\ AtEnd => worker[0].ss = <<>>

(* There the combined query stacks are the serial engine's too: of all the
   stacks the workers kept, combine spliced those of the roots that were
   right. *)
SplicesQueryStacks ==
  /\ BeforeCut =>
       [n \in DOMAIN worker[0].levels |-> StatesOf(worker[0].levels[n])]
         = [n \in DOMAIN AtCut.states |-> <<AtCut.states[n]>>]
  /\ AtEnd => Len(worker[0].levels) = 1 /\ StatesOf(worker[0].levels[1]) = <<1>>

(* A value the serial engine is inside of, and would output, has a start on the
   combined stacks in front of every chunk: no chunk loses the start of a
   match that a later one ends. *)
MatchesSurviveCuts ==
  BeforeCut =>
    \A n \in DOMAIN worker[0].levels :
      n \in AtCut.matches => worker[0].levels[n][1].matched_start # INVALID

(* The levels of a worker's tree give every root one run of the query automaton
   of its own: no root is lost or stands behind two nodes of a level, and one
   label leads all of them from each level to the next. *)
OneRunPerRoot ==
  \A c \in DOMAIN worker : c > 0 =>
    LET levels == worker[c].levels
        behind(n, r) == {m \in DOMAIN levels[n] : r \in RootsOf(levels[n], m)}
    IN  \A n \in 1 .. Len(levels) - 1 :
          \E label \in Keys \union {ARRAY} :
            \A r \in DOMAIN levels[1] :
              /\ Cardinality(behind(n + 1, r)) = 1
              /\ \A m \in behind(n, r), m1 \in behind(n + 1, r) :
                   levels[n + 1][m1].query_state = NextState(qa, levels[n][m], label)

(* In front of every chunk and every piece, and in the end, the tuples collected
   are what the serial engine has collected up to there, in its order and each
   once. *)
TuplesAreSerial ==
  /\ BeforeCut => Collected = SubSeq(tuples, 1, AtCut.tuples)
  /\ AtEnd => Collected = tuples

(* Whatever the interleaving, threads that are scheduled finish, combine comes
   to an end and the next piece begins: no unit is reprocessed for ever. *)
CombineEnds == phase = "run" ~> AtEnd \/ phase = "undefined"
=============================================================================
