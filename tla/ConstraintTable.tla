--------------------------- MODULE ConstraintTable --------------------------
(***************************************************************************)
(* The table of data constraints (constraint.h): for every label a serial  *)
(* run read, the states it was read in.  The rows are searched from the    *)
(* first one on: by name for a key, by type for '['.  The row of '[' gets  *)
(* no name, and the search for a key compares with what its memory holds.  *)
(***************************************************************************)
EXTENDS QueryDFA, Sequences

CONSTANTS Keys,         \* the keys of the texts
          MaxState,     \* the last state of the query automaton
          UnsetNames    \* what the memory of a row's token_name may hold

ASSUME KeysAssumption == ARRAY \notin Keys
ASSUME MaxStateAssumption == MaxState \in Nat

VARIABLES unset,        \* what that memory holds
          rows,         \* constraint_info[0 .. num_constraint_info - 1]
          learned       \* (history) the calls: label -> states

vars == <<unset, rows, learned>>

Labels == Keys \union {ARRAY}
StateSet == 0 .. MaxState

AnyKeyMatches(row, label) ==                                          \* fault
  IF label = ARRAY THEN row.type = "LB" ELSE row.type = "KY"

Matches(row, label) ==
  IF label = ARRAY THEN row.type = "LB" ELSE row.token_name = label

Found(label, n) ==
  /\ n \in DOMAIN rows
  /\ Matches(rows[n], label)
  /\ \A m \in 1 .. n - 1 : ~Matches(rows[m], label)

IsNew(label) == \A n \in DOMAIN rows : ~Matches(rows[n], label)

NewRow(label, state) ==
  [type       |-> IF label = ARRAY THEN "LB" ELSE "KY",
   token_name |-> IF label = ARRAY THEN unset ELSE label,
   state_set  |-> {state}]

LastStateOnly(label, state) ==                                        \* fault
  IF IsNew(label) THEN rows' = Append(rows, NewRow(label, state))
  ELSE \E n \in DOMAIN rows :
         Found(label, n) /\ rows' = [rows EXCEPT ![n].state_set = {state}]

addRow(label, state) ==
  IF IsNew(label) THEN rows' = Append(rows, NewRow(label, state))
  ELSE \E n \in DOMAIN rows :
         Found(label, n) /\ rows' = [rows EXCEPT ![n].state_set = @ \union {state}]

addConstraintInfo(label, state) ==
  /\ addRow(label, state)
  /\ learned' = [learned EXCEPT ![label] = @ \union {state}]
  /\ UNCHANGED unset

(* updateStateInfo: the states of the first row, none without one. *)
updateStateInfo(label) ==
  {q \in StateSet : \E n \in DOMAIN rows : Found(label, n) /\ q \in rows[n].state_set}

Init ==
  /\ unset \in UnsetNames
  /\ rows = <<>>
  /\ learned = [l \in Labels |-> {}]

Next == \E label \in Labels, state \in StateSet : addConstraintInfo(label, state)

Spec == Init /\ [][Next]_vars
-----------------------------------------------------------------------------
(***************************************************************************)
(* Properties.                                                             *)
(***************************************************************************)
(* A worker drops the roots whose state the table does not have: whatever the
   name of the row of '[' happens to be, and in whatever order labels came,
   the table has every state a label was read in. *)
KeepsEveryState == \A l \in Labels : learned[l] \subseteq updateStateInfo(l)

(* The table has no other states, and so excludes all it can, unless the
   memory of the row of '[' happens to hold that very key. *)
NoStrangeState ==
  \A l \in Labels :
    updateStateInfo(l) # learned[l] => unset \in Keys /\ l \in {unset, ARRAY}
=============================================================================
