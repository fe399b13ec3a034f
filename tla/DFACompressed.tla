--------------------------- MODULE DFACompressed ----------------------------
(***************************************************************************)
(* The table of the mixed automaton (dfa_compressed.cpp): a row keeps only *)
(* what differs from its most frequent value, or from an earlier row that  *)
(* is almost the same, and the rows share one array of cells, each row     *)
(* shifted to where its cells are free.                                    *)
(*                                                                         *)
(*   m_default   -v: the row reads v outside its cells; r > 0: as row r    *)
(*   m_base      where column 0 of the row lies                            *)
(*   m_check     the row a cell belongs to, 0 for a free one               *)
(*   m_next      what the cell reads                                       *)
(*   Top         no cell below is free                                     *)
(*   Bottom      all cells from here on are free                           *)
(*                                                                         *)
(* The mixer adds the rows of the states 1, 2, ... in turn; states without *)
(* a row yet are left out, and the cells from Bottom on.                   *)
(***************************************************************************)
EXTENDS Integers, Sequences, FiniteSets

CONSTANTS Columns, MaxState,
          SmallRow,           \* a row with so few cells of its own is not linked: 10
          MaxDifferences      \* a link needs fewer differences than this: 10

ASSUME ColumnsAssumption == Columns \in Nat
ASSUME MaxStateAssumption == MaxState \in Nat

VARIABLES m_default, m_base, m_next, m_check, Top, Bottom

vars == <<m_default, m_base, m_next, m_check, Top, Bottom>>

INT_MIN == -2147483647 - 1

Vectors == [1 .. Columns -> 0 .. MaxState]

States == 1 .. Len(m_base)

AnyCell(s, ch) == m_base[s] + ch \in 0 .. Bottom - 1                  \* fault

(* The cell of a row for an input is its own. *)
HasCell(s, ch) ==
  LET k == m_base[s] + ch IN k >= 0 /\ k < Bottom /\ m_check[k] = s

(* A row is linked to unlinked rows only, so that the second call of
   nextState is the last one. *)
Unlinked(s, ch) == IF HasCell(s, ch) THEN m_next[m_base[s] + ch] ELSE -m_default[s]

nextState(s, ch) ==
  IF m_default[s] > 0 /\ ~HasCell(s, ch)
    THEN Unlinked(m_default[s], ch)
    ELSE Unlinked(s, ch)

Differing(objvec, other) == {a \in 1 .. Columns : objvec[a] # other[a]}

Row(s) == [a \in 1 .. Columns |-> nextState(s, a)]

AnyRow(s, objvec) ==                                                 \* fault
  Cardinality(Differing(objvec, Row(s))) < MaxDifferences

compareState(s, objvec) ==
  /\ m_default[s] <= 0
  /\ Cardinality(Differing(objvec, Row(s))) < MaxDifferences

(* How often a value occurs; the input 0 of a row reads 0 and counts too. *)
Frequency(objvec, v) ==
  Cardinality({a \in 1 .. Columns : objvec[a] = v}) + (IF v = 0 THEN 1 ELSE 0)

IsMostFrequent(objvec, v) ==
  \A w \in 0 .. MaxState :
    /\ Frequency(objvec, w) <= Frequency(objvec, v)
    /\ w < v => Frequency(objvec, w) < Frequency(objvec, v)

getValidSize(objvec, most_frq) == Columns + 1 - Frequency(objvec, most_frq)

-----------------------------------------------------------------------------
(* The columns in own get their cells at the first offset where all of them
   are free. *)
IsFree(k) == k < Bottom => m_check[k] = 0

FirstIsFree(own, offset) ==                                           \* fault
  \E a \in own : IsFree(offset + a) /\ \A b \in own : a <= b

Fits(own, offset) == \A a \in own : IsFree(offset + a)

NewBottom(offset, last) ==
  IF Bottom < offset + last + 1 THEN offset + last + 1 ELSE Bottom

Place(s, objvec, own, offset, bottom) ==
  /\ m_next' = [k \in 0 .. bottom - 1 |->
                  IF k - offset \in own THEN objvec[k - offset]
                  ELSE IF k < Bottom THEN m_next[k] ELSE 0]
  /\ m_check' = [k \in 0 .. bottom - 1 |->
                   IF k - offset \in own THEN s
                   ELSE IF k < Bottom THEN m_check[k] ELSE 0]
  /\ Bottom' = bottom

TopAtBottom == Top' = Bottom'                                         \* fault

AdvanceTop ==
  /\ Top' \in Top .. Bottom'
  /\ \A k \in Top .. Top' - 1 : m_check'[k] # 0
  /\ Top' < Bottom' => m_check'[Top'] = 0

PlaceCells(s, objvec, own) ==
  \E first \in own, last \in own, i \in Top .. Bottom :
    LET offset == i - first IN
    /\ \A a \in own : first <= a /\ a <= last
    /\ Fits(own, offset)
    /\ \A j \in Top .. i - 1 : ~Fits(own, j - first)
    /\ Place(s, objvec, own, offset, NewBottom(offset, last))
    /\ AdvanceTop
    /\ m_base' = Append(m_base, offset)

(* createNewArea and createLinkArea: the row reads other where it has no cell. *)
CreateArea(objvec, default, other) ==
  LET own == Differing(objvec, other) IN
  /\ m_default' = Append(m_default, default)
  /\ IF own = {}
       THEN /\ m_base' = Append(m_base, INT_MIN)
            /\ UNCHANGED <<m_next, m_check, Top, Bottom>>
       ELSE PlaceCells(Len(m_base) + 1, objvec, own)

createNewArea(objvec) ==
  \E most_frq \in 0 .. MaxState :
    /\ IsMostFrequent(objvec, most_frq)
    /\ getValidSize(objvec, most_frq) > SmallRow =>
         \A i \in States : ~compareState(i, objvec)
    /\ CreateArea(objvec, -most_frq, [a \in 1 .. Columns |-> most_frq])

createLinkArea(objvec) ==
  \E most_frq \in 0 .. MaxState, base \in States :
    /\ IsMostFrequent(objvec, most_frq)
    /\ getValidSize(objvec, most_frq) > SmallRow
    /\ compareState(base, objvec)
    /\ \A i \in 1 .. base - 1 : ~compareState(i, objvec)
    /\ CreateArea(objvec, base, Row(base))

Init ==
  /\ m_default = <<>>
  /\ m_base = <<>>
  /\ m_next = [k \in 0 .. -1 |-> 0]
  /\ m_check = [k \in 0 .. -1 |-> 0]
  /\ Top = 0
  /\ Bottom = 0

(* The mixer has a row for every state. *)
Complete == Len(m_base) = MaxState /\ UNCHANGED vars

Next ==
  \/ /\ Len(m_base) < MaxState
     /\ \E objvec \in Vectors : createNewArea(objvec) \/ createLinkArea(objvec)
  \/ Complete

Spec == Init /\ [][Next]_vars
-----------------------------------------------------------------------------
(***************************************************************************)
(* Properties.                                                             *)
(***************************************************************************)
(* The shape of the table: every cell belongs to a row that was added or is
   free, and a row is linked to a row before it that has no link itself. *)
TableOK ==
  /\ m_base \in Seq(Int)
  /\ m_default \in Seq(Int)
  /\ Len(m_default) = Len(m_base)
  /\ Bottom \in Nat
  /\ Top \in 0 .. Bottom
  /\ m_next \in [0 .. Bottom - 1 -> Nat]
  /\ m_check \in [0 .. Bottom - 1 -> 0 .. Len(m_base)]
  /\ \A s \in States : m_default[s] > 0 =>
       m_default[s] \in 1 .. s - 1 /\ m_default[m_default[s]] <= 0

(* The search for free cells misses none: below Top every cell is taken, so
   that a hole between two rows stays in reach until it is filled. *)
NoHoleBelowTop == \A k \in 0 .. Top - 1 : m_check[k] # 0

Plain == INSTANCE DFASimple WITH m_table <- [s \in States |-> Row(s)]

(* However the rows are linked and squeezed into each other's gaps, each reads
   back as it was given and goes on doing so when later rows are added: the
   compressed table implements the plain one. *)
ImplementsPlainTable == Plain!Spec
=============================================================================
