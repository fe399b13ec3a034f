----------------------------- MODULE MultiStack -----------------------------
(***************************************************************************)
(* The query stacks of a worker (multi_stack.h): one stack per state the   *)
(* chunk may have been entered in, folded into a single tree.              *)
(*                                                                         *)
(* The tree is the sequence of its levels: the items of QueryStacks and,   *)
(* last, the current states qs_elt.  A level is a sequence of nodes; the   *)
(* nodes of the first level are the roots, a node above it names the roots *)
(* whose stack runs through it.  What node[] holds beyond the current      *)
(* level is never read, so a pop drops it.                                 *)
(***************************************************************************)
EXTENDS Sequences, SequencesExt, FiniteSetsExt, QueryDFA

INVALID == -1

INCOMPLETE_INDEX     == 4      \* match types of a root only
UNSELECTED_CANDIDATE == 5

Root(q) == [query_state |-> q, count |-> 0, matched_start |-> INVALID, roots |-> {}]

initQueryStacks(states) == << [i \in DOMAIN states |-> Root(states[i])] >>

IsRoot(node) == node.roots = {}

(* How many elements of the array came before the chunk is unknown at a root:
   there only the upper end of a slice can be ruled out. *)
Admits(qa, node) ==
  LET pair == qa.index[node.query_state] IN
  IF IsRoot(node) THEN (pair.lower = 0 /\ pair.upper = 0) \/ node.count < pair.upper
                  ELSE InSlice(pair, node.count)

NextState(qa, node, label) ==
  IF Admits(qa, node) THEN dfaNextStateByStr(qa, node.query_state, label) ELSE 0

(* The numbers from 1 to n that are in T, in order. *)
Ordered(n, T) ==
  LET ordered[i \in 0 .. n] ==
        IF i = 0 THEN <<>>
        ELSE IF i \in T THEN Append(ordered[i-1], i) ELSE ordered[i-1]
  IN  ordered[n]

(* The roots behind the i-th node of a level. *)
RootsOf(level, i) == IF IsRoot(level[i]) THEN {i} ELSE level[i].roots

FirstParentOnly(qa, level, label) ==                                  \* fault
  LET next(i) == NextState(qa, level[i], label)
      first   == Ordered(Len(level),
                   {i \in DOMAIN level : \A j \in 1 .. i-1 : next(j) # next(i)})
  IN  [k \in DOMAIN first |->
         [Root(next(first[k])) EXCEPT !.roots = RootsOf(level, first[k])]]

(* The level a key or a '[' leads to: equal next states share one node. *)
NextLevel(qa, level, label) ==
  LET next(i)  == NextState(qa, level[i], label)
      first    == Ordered(Len(level),
                    {i \in DOMAIN level : \A j \in 1 .. i-1 : next(j) # next(i)})
      behind(q) == UNION {RootsOf(level, i) : i \in {j \in DOMAIN level : next(j) = q}}
  IN  [k \in DOMAIN first |->
         [Root(next(first[k])) EXCEPT !.roots = behind(next(first[k]))]]

queryStacksPush(qa, levels, label) ==
  Append(levels, NextLevel(qa, Last(levels), label))

(* A pop of an empty stack leaves no current state. *)
queryStacksPop(levels) == IF Len(levels) > 1 THEN Front(levels) ELSE << <<>> >>

(* pruneQueryPaths: only the roots in the given states stay; root i was
   created for state i - 1. *)
Survivors(roots, states) == Ordered(Len(roots), {q + 1 : q \in states})

pruneQueryPaths(levels, states) ==
  LET survivors == Survivors(levels[1], states)
  IN  << [k \in DOMAIN survivors |-> levels[1][survivors[k]]] >>

(* The i-th level of the tree as the stack of one root: the node behind which
   that root stands. *)
NodeOf(level, root) ==
  level[Min({i \in DOMAIN level : root \in level[i].roots})]

RootInState(levels, q) == {i \in DOMAIN levels[1] : levels[1][i].query_state = q}

StartsNotCopied(dst, src, unset) ==                                   \* fault
  LET found == RootInState(src, Last(dst)[1].query_state) IN
  IF found = {} THEN dst
  ELSE dst \o [i \in 1 .. Len(src) - 1 |->
                 << [NodeOf(src[i + 1], Min(found)) EXCEPT !.roots = unset,
                                                           !.matched_start = INVALID] >>]

TopLevelOnly(dst, src, unset) ==                                      \* fault
  LET found == RootInState(src, Last(dst)[1].query_state) IN
  IF found = {} \/ Len(src) = 1 THEN dst
  ELSE Append(dst, << [NodeOf(Last(src), Min(found)) EXCEPT !.roots = unset] >>)

(* combineQueryStacks: the levels above the root in the current state of dst
   become levels of dst.  The root itself is not copied, and the new nodes
   get no root_range: unset is what that memory holds. *)
combineQueryStacks(dst, src, unset) ==
  LET found == RootInState(src, Last(dst)[1].query_state) IN
  IF found = {} THEN dst
  ELSE dst \o [i \in 1 .. Len(src) - 1 |->
                 << [NodeOf(src[i + 1], Min(found)) EXCEPT !.roots = unset] >>]

(* getMatchedType of worker_automaton.c. *)
WorkerMatchedType(qa, node) ==
  LET type   == qa.accept[node.query_state]
      sliced == qa.index[node.query_state] # [lower |-> 0, upper |-> 0]
  IN  IF type # OUTPUT_CANDIDATE /\ ~IsRoot(node) THEN type
      ELSE IF ~Admits(qa, node) THEN NO_MATCH
      ELSE IF IsRoot(node) /\ sliced
        THEN IF type = OUTPUT_CANDIDATE THEN UNSELECTED_CANDIDATE ELSE INCOMPLETE_INDEX
        ELSE type
=============================================================================
