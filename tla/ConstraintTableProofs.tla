----------------------- MODULE ConstraintTableProofs ------------------------
(***************************************************************************)
(* The table of data constraints loses no state, for any keys, any number  *)
(* of states and whatever the name of the row of '[' happens to be.        *)
(***************************************************************************)
EXTENDS ConstraintTable, TLAPS

RowType == [type : {"LB", "KY"}, token_name : UnsetNames \union Keys,
            state_set : SUBSET StateSet]

Recorded(label, state) == \E n \in DOMAIN rows : Found(label, n) /\ state \in rows[n].state_set

(* Rows are never moved or renamed, so that the row found for a label stays the
   row found for it. *)
TableInv ==
  /\ unset \in UnsetNames
  /\ rows \in Seq(RowType)
  /\ learned \in [Labels -> SUBSET StateSet]
  /\ \A l \in Labels : \A q \in learned[l] : Recorded(l, q)

LEMMA NewRowIsRow ==
  ASSUME TableInv, NEW label \in Labels, NEW state \in StateSet
  PROVE  /\ NewRow(label, state) \in RowType
         /\ Matches(NewRow(label, state), label)
  BY DEF TableInv, NewRow, RowType, Matches, Labels

(* A step keeps what was recorded and records its own state. *)
LEMMA AddRecords ==
  ASSUME TableInv, NEW label \in Labels, NEW state \in StateSet, addRow(label, state)
  PROVE  /\ rows' \in Seq(RowType)
         /\ Recorded(label, state)'
         /\ \A l \in Labels : \A q \in StateSet : Recorded(l, q) => Recorded(l, q)'
<1>0. rows \in Seq(RowType)
  BY DEF TableInv
<1>1. CASE IsNew(label)
  <2>1. rows' = Append(rows, NewRow(label, state))
    BY <1>1 DEF addRow
  <2>2. /\ rows' \in Seq(RowType)
        /\ Len(rows') = Len(rows) + 1
        /\ \A n \in 1 .. Len(rows) : rows'[n] = rows[n]
        /\ rows'[Len(rows) + 1] = NewRow(label, state)
    BY <1>0, <2>1, NewRowIsRow
  <2>3. \A n \in DOMAIN rows, l \in Labels : Found(l, n) => Found(l, n)'
    BY <1>0, <2>2 DEF Found
  <2>4. PICK k \in Nat : k = Len(rows) + 1
    BY <1>0
  <2>5. Found(label, k)' /\ state \in rows'[k].state_set
    <3>1. Matches(rows'[k], label)
      BY <2>2, <2>4, NewRowIsRow
    <3>2. \A m \in 1 .. k - 1 : ~Matches(rows'[m], label)
      BY <1>0, <1>1, <2>2, <2>4 DEF IsNew
    <3>3. k \in DOMAIN rows'
      BY <2>2, <2>4
    <3>4. state \in rows'[k].state_set
      BY <2>2, <2>4 DEF NewRow
    <3> QED
      BY <3>1, <3>2, <3>3, <3>4 DEF Found, Matches
  <2>6. Recorded(label, state)'
    BY <2>5 DEF Recorded, Found
  <2>7. \A l \in Labels : \A q \in StateSet : Recorded(l, q) => Recorded(l, q)'
    BY <1>0, <2>2, <2>3 DEF Recorded
  <2> QED
    BY <2>2, <2>6, <2>7
<1>2. CASE ~IsNew(label)
  <2>1. PICK n \in DOMAIN rows :
          Found(label, n) /\ rows' = [rows EXCEPT ![n].state_set = @ \union {state}]
    BY <1>2 DEF addRow
  <2>2. rows[n] \in RowType
    BY <1>0
  <2>3. /\ rows' \in Seq(RowType)
        /\ DOMAIN rows' = DOMAIN rows
        /\ \A m \in DOMAIN rows :
             /\ rows'[m].type = rows[m].type
             /\ rows'[m].token_name = rows[m].token_name
             /\ rows[m].state_set \subseteq rows'[m].state_set
        /\ state \in rows'[n].state_set
    <3>1. [rows[n] EXCEPT !.state_set = @ \union {state}] \in RowType
      BY <2>2 DEF RowType
    <3>2. rows' = [rows EXCEPT ![n] = [rows[n] EXCEPT !.state_set = @ \union {state}]]
      BY <2>1
    <3>3. rows' \in Seq(RowType) /\ DOMAIN rows' = DOMAIN rows
      BY <1>0, <3>1, <3>2
    <3>4. \A m \in DOMAIN rows : rows[m] \in RowType
      BY <1>0
    <3>5. rows'[n] = [rows[n] EXCEPT !.state_set = @ \union {state}]
      BY <3>2
    <3>6. \A m \in DOMAIN rows : m # n => rows'[m] = rows[m]
      BY <3>2
    <3> QED
      BY <2>2, <3>3, <3>4, <3>5, <3>6 DEF RowType
  <2>4. \A m \in DOMAIN rows, l \in Labels : Matches(rows'[m], l) <=> Matches(rows[m], l)
    BY <2>3 DEF Matches
  <2>5. \A m \in DOMAIN rows, l \in Labels : Found(l, m) => Found(l, m)'
    <3> SUFFICES ASSUME NEW m \in DOMAIN rows, NEW l \in Labels, Found(l, m)
                 PROVE  Found(l, m)'
      OBVIOUS
    <3>1. \A o \in 1 .. m - 1 : o \in DOMAIN rows
      BY <1>0
    <3> QED
      BY <3>1, <2>3, <2>4 DEF Found
  <2>6. Recorded(label, state)'
    BY <2>1, <2>3, <2>5 DEF Recorded
  <2>7. \A l \in Labels : \A q \in StateSet : Recorded(l, q) => Recorded(l, q)'
    BY <2>3, <2>5 DEF Recorded
  <2> QED
    BY <2>3, <2>6, <2>7
<1> QED
  BY <1>1, <1>2

(* The invariant the theorems rest on. *)
LEMMA TableInvariant == Spec => []TableInv
<1>1. Init => TableInv
  BY DEF Init, TableInv
<1>2. TableInv /\ [Next]_vars => TableInv'
  <2> SUFFICES ASSUME TableInv, [Next]_vars PROVE TableInv'
    OBVIOUS
  <2>1. CASE UNCHANGED vars
    BY <2>1 DEF vars, TableInv, Recorded, Found
  <2>2. ASSUME NEW label \in Labels, NEW state \in StateSet, addConstraintInfo(label, state)
        PROVE  TableInv'
    <3>1. /\ addRow(label, state) /\ unset' = unset
          /\ learned' = [learned EXCEPT ![label] = @ \union {state}]
      BY <2>2 DEF addConstraintInfo
    <3>2. learned' \in [Labels -> SUBSET StateSet]
      BY <3>1 DEF TableInv
    <3>3. \A l \in Labels : \A q \in learned'[l] :
            q \in StateSet /\ (q \in learned[l] \/ (l = label /\ q = state))
      BY <3>1, <3>2 DEF TableInv
    <3>4. \A l \in Labels : \A q \in learned'[l] : Recorded(l, q)'
      <4> SUFFICES ASSUME NEW l \in Labels, NEW q \in learned'[l] PROVE Recorded(l, q)'
        OBVIOUS
      <4>1. CASE q \in learned[l]
        BY <4>1, <3>1, <3>3, AddRecords DEF TableInv
      <4>2. CASE l = label /\ q = state
        BY <4>2, <3>1, AddRecords
      <4> QED
        BY <4>1, <4>2, <3>3
    <3> QED
      BY <3>1, <3>2, <3>4, AddRecords DEF TableInv
  <2> QED
    BY <2>1, <2>2 DEF Next
<1> QED
  BY <1>1, <1>2, PTL DEF Spec

(* What a label was read in is what a worker is told of it, and never less
   (addConstraintInfo, updateStateInfo). *)
THEOREM TableKeepsEveryState == Spec => []KeepsEveryState
<1>1. TableInv => KeepsEveryState
  BY DEF TableInv, KeepsEveryState, Recorded, updateStateInfo
<1> QED
  BY <1>1, TableInvariant, PTL

(* The row of a key has states its key was read in only; so has the row of '['
   as long as no key is taken for its name. *)
OwnRow(row, table) ==
  /\ row.type = "KY" => row.token_name \in Keys /\ row.state_set \subseteq table[row.token_name]
  /\ row.type = "LB" => /\ row.token_name = unset
                        /\ unset \notin Keys => row.state_set \subseteq table[ARRAY]

OwnStates == \A n \in DOMAIN rows : OwnRow(rows[n], learned)

LEMMA AddKeepsOwnStates ==
  ASSUME TableInv, OwnStates, NEW label \in Labels, NEW state \in StateSet,
         addConstraintInfo(label, state)
  PROVE  OwnStates'
<1>1. /\ addRow(label, state) /\ unset' = unset
      /\ rows \in Seq(RowType) /\ rows' \in Seq(RowType)
      /\ learned' = [learned EXCEPT ![label] = @ \union {state}]
      /\ learned \in [Labels -> SUBSET StateSet]
  BY AddRecords DEF addConstraintInfo, TableInv
<1>2. /\ state \in learned'[label]
      /\ \A l \in Labels : learned[l] \subseteq learned'[l]
  BY <1>1
<1>3. /\ ARRAY \notin Keys
      /\ label # ARRAY => label \in Keys
      /\ Keys \subseteq Labels /\ ARRAY \in Labels
  BY KeysAssumption DEF Labels
<1>4. CASE IsNew(label)
  <2>1. /\ rows' = Append(rows, NewRow(label, state))
        /\ DOMAIN rows' = 1 .. Len(rows) + 1
        /\ \A n \in 1 .. Len(rows) : rows'[n] = rows[n]
        /\ rows'[Len(rows) + 1] = NewRow(label, state)
    BY <1>1, <1>4, NewRowIsRow DEF addRow
  <2>2. OwnRow(rows'[Len(rows) + 1], learned')
    BY <2>1, <1>2, <1>3 DEF NewRow, OwnRow
  <2>3. \A n \in DOMAIN rows : OwnRow(rows'[n], learned')
    BY <2>1, <1>1, <1>2, <1>3 DEF OwnStates, OwnRow
  <2>4. \A n \in DOMAIN rows' : n \in DOMAIN rows \/ n = Len(rows) + 1
    BY <1>1, <2>1
  <2>5. \A n \in DOMAIN rows' : OwnRow(rows'[n], learned')
    BY <2>2, <2>3, <2>4
  <2> QED
    BY <1>1, <2>5 DEF OwnStates, OwnRow
<1>5. CASE ~IsNew(label)
  <2>1. PICK n \in DOMAIN rows :
          Found(label, n) /\ rows' = [rows EXCEPT ![n].state_set = @ \union {state}]
    BY <1>1, <1>5 DEF addRow
  <2>2. /\ DOMAIN rows' = DOMAIN rows
        /\ rows'[n] = [rows[n] EXCEPT !.state_set = @ \union {state}]
        /\ \A m \in DOMAIN rows : m # n => rows'[m] = rows[m]
    BY <1>1, <2>1
  <2>3. \A m \in DOMAIN rows : rows[m] \in RowType
    BY <1>1
  <2>4. \A m \in DOMAIN rows : m # n => OwnRow(rows'[m], learned')
    BY <2>2, <1>1, <1>2, <1>3 DEF OwnStates, OwnRow
  <2>5. /\ rows'[n].type = rows[n].type
        /\ rows'[n].token_name = rows[n].token_name
        /\ rows'[n].state_set = rows[n].state_set \union {state}
    BY <2>2, <2>3 DEF RowType
  <2>6. OwnRow(rows[n], learned)
    BY DEF OwnStates
  <2>7. rows[n].type = "KY" => rows[n].token_name = label
    BY <2>1 DEF Found, Matches, OwnStates, OwnRow
  <2>8. rows[n].type = "LB" /\ unset \notin Keys => label = ARRAY
    BY <2>1, <2>6, <1>3 DEF Found, Matches, OwnRow
  <2>9. OwnRow(rows'[n], learned')
    BY <2>5, <2>6, <2>7, <2>8, <1>1, <1>2, <1>3 DEF OwnRow
  <2>10. \A m \in DOMAIN rows' : OwnRow(rows'[m], learned')
    BY <2>2, <2>4, <2>9
  <2> QED
    BY <1>1, <2>10 DEF OwnStates, OwnRow
<1> QED
  BY <1>4, <1>5

(* A worker is told of no state a label was not read in, unless a key happens
   to stand in the memory of the row of '['; then it is told too much of that
   key and of '[' only (addConstraintInfo, updateStateInfo). *)
THEOREM TableHasNoStrangeState == Spec => []NoStrangeState
<1>1. Init => OwnStates
  BY DEF Init, OwnStates
<1>2. TableInv /\ OwnStates /\ [Next]_vars => OwnStates'
  <2> SUFFICES ASSUME TableInv, OwnStates, [Next]_vars PROVE OwnStates'
    OBVIOUS
  <2>1. CASE UNCHANGED vars
    BY <2>1 DEF vars, OwnStates, OwnRow
  <2> QED
    BY <2>1, AddKeepsOwnStates DEF Next
<1>3. TableInv /\ OwnStates => NoStrangeState
  <2> SUFFICES ASSUME TableInv, OwnStates, NEW l \in Labels,
                      ~(unset \in Keys /\ l \in {unset, ARRAY})
               PROVE  updateStateInfo(l) = learned[l]
    BY DEF NoStrangeState
  <2>1. learned[l] \subseteq updateStateInfo(l)
    BY DEF TableInv, Recorded, updateStateInfo
  <2>2. ASSUME NEW n \in DOMAIN rows, Found(l, n)
        PROVE  rows[n].state_set \subseteq learned[l]
    <3>1. rows[n] \in RowType
      BY DEF TableInv
    <3>2. CASE l = ARRAY
      BY <2>2, <3>2 DEF OwnStates, OwnRow, Found, Matches
    <3>3. CASE l # ARRAY
      <4>1. l \in Keys /\ l # unset /\ rows[n].token_name = l
        BY <2>2, <3>3 DEF Labels, Found, Matches
      <4>2. rows[n].type = "KY"
        BY <3>1, <4>1 DEF RowType, OwnStates, OwnRow
      <4> QED
        BY <4>1, <4>2 DEF OwnStates, OwnRow
    <3> QED
      BY <3>2, <3>3
  <2> QED
    BY <2>1, <2>2 DEF updateStateInfo
<1> QED
  BY <1>1, <1>2, <1>3, TableInvariant, PTL DEF Spec
=============================================================================
