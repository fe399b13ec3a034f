------------------------ MODULE DFACompressedProofs -------------------------
(***************************************************************************)
(* For tables of any size and any limits: the shape of the compressed      *)
(* table is invariant, and the compressed table implements the plain one.  *)
(* All the implementation needs of the shape is that the cells of two rows *)
(* are apart and that links are not chained.                               *)
(***************************************************************************)
EXTENDS DFACompressed, TLAPS

(* What placing a row does: row n + 1 has got exactly the cells of the columns
   in own, and cells that belong to another row are left alone. *)
Others(n) ==
  /\ \A k \in 0 .. Bottom - 1 : m_check[k] \in 1 .. n =>
       m_check'[k] = m_check[k] /\ m_next'[k] = m_next[k]
  /\ \A k \in 0 .. Bottom' - 1 : m_check'[k] \in 1 .. n =>
       k < Bottom /\ m_check[k] = m_check'[k]

Own(n, objvec, own, offset) ==
  \A a \in 1 .. Columns :
    IF a \in own
      THEN /\ offset + a \in 0 .. Bottom' - 1
           /\ m_check'[offset + a] = n + 1
           /\ m_next'[offset + a] = objvec[a]
      ELSE offset + a \in 0 .. Bottom' - 1 => m_check'[offset + a] # n + 1

Cells(n) ==
  /\ Bottom \in Nat
  /\ Top \in 0 .. Bottom
  /\ m_next \in [0 .. Bottom - 1 -> Nat]
  /\ m_check \in [0 .. Bottom - 1 -> 0 .. n]

LEMMA PlacedApart ==
  ASSUME NEW n \in Nat, Cells(n),
         NEW objvec \in Vectors,
         NEW own \in SUBSET (1 .. Columns),
         PlaceCells(n + 1, objvec, own)
  PROVE  /\ Cells(n + 1)'
         /\ Bottom <= Bottom'
         /\ Others(n)
         /\ \E offset \in Int : /\ m_base' = Append(m_base, offset)
                                /\ Own(n, objvec, own, offset)
<1>1. PICK first \in own, last \in own, i \in Top .. Bottom :
        /\ \A a \in own : first <= a /\ a <= last
        /\ Fits(own, i - first)
        /\ Place(n + 1, objvec, own, i - first, NewBottom(i - first, last))
        /\ AdvanceTop
        /\ m_base' = Append(m_base, i - first)
  BY DEF PlaceCells
<1>2. /\ Bottom \in Nat /\ Top \in 0 .. Bottom /\ i \in Nat
      /\ m_next \in [0 .. Bottom - 1 -> Nat]
      /\ m_check \in [0 .. Bottom - 1 -> 0 .. n]
      /\ Columns \in Nat /\ MaxState \in Nat
      /\ first \in 1 .. Columns /\ last \in 1 .. Columns
  BY ColumnsAssumption, MaxStateAssumption DEF Cells
<1>0. PICK offset \in Int : offset = i - first
  BY <1>2
<1>3. /\ Bottom' = NewBottom(offset, last)
      /\ m_next' = [k \in 0 .. Bottom' - 1 |->
                      IF k - offset \in own THEN objvec[k - offset]
                      ELSE IF k < Bottom THEN m_next[k] ELSE 0]
      /\ m_check' = [k \in 0 .. Bottom' - 1 |->
                       IF k - offset \in own THEN n + 1
                       ELSE IF k < Bottom THEN m_check[k] ELSE 0]
  BY <1>0, <1>1 DEF Place
<1>4. /\ Bottom' \in Nat /\ Bottom <= Bottom' /\ offset + last + 1 <= Bottom'
  BY <1>0, <1>2, <1>3 DEF NewBottom
<1>5. \A k \in Int : k - offset \in own => k \in 0 .. Bottom' - 1
  <2> SUFFICES ASSUME NEW k \in Int, k - offset \in own
               PROVE  k \in 0 .. Bottom' - 1
    OBVIOUS
  <2>1. first <= k - offset /\ k - offset <= last
    BY <1>1
  <2>2. offset + first = i
    BY <1>0, <1>2
  <2>3. PICK bottom \in Nat : bottom = Bottom'
    BY <1>4
  <2>4. first \in Int /\ last \in Int /\ offset + last + 1 <= bottom
    BY <1>2, <1>4, <2>3
  <2>5. k \in 0 .. bottom - 1
    BY <2>1, <2>2, <2>4, <1>2
  <2> QED
    BY <2>3, <2>5
<1>6. \A k \in 0 .. Bottom - 1 : k - offset \in own => m_check[k] = 0
  <2> SUFFICES ASSUME NEW k \in 0 .. Bottom - 1, k - offset \in own
               PROVE  m_check[k] = 0
    OBVIOUS
  <2>1. IsFree(offset + (k - offset))
    BY <1>0, <1>1 DEF Fits
  <2>2. offset + (k - offset) = k
    BY <1>2
  <2> QED
    BY <2>1, <2>2, <1>2 DEF IsFree
<1>7. m_next' \in [0 .. Bottom' - 1 -> Nat]
  <2> SUFFICES ASSUME NEW k \in 0 .. Bottom' - 1
               PROVE  (IF k - offset \in own THEN objvec[k - offset]
                       ELSE IF k < Bottom THEN m_next[k] ELSE 0) \in Nat
    BY <1>3
  <2>1. CASE k - offset \in own
    BY <2>1, <1>2 DEF Vectors
  <2>2. CASE k - offset \notin own
    BY <2>2, <1>2, <1>4
  <2> QED
    BY <2>1, <2>2
<1>8. m_check' \in [0 .. Bottom' - 1 -> 0 .. n + 1]
  <2> SUFFICES ASSUME NEW k \in 0 .. Bottom' - 1
               PROVE  (IF k - offset \in own THEN n + 1
                       ELSE IF k < Bottom THEN m_check[k] ELSE 0) \in 0 .. n + 1
    BY <1>3
  <2>1. CASE k - offset \in own
    BY <2>1, <1>2
  <2>2. CASE k - offset \notin own
    BY <2>2, <1>2, <1>4
  <2> QED
    BY <2>1, <2>2
<1>9. Top' \in 0 .. Bottom'
  BY <1>1, <1>2, <1>4 DEF AdvanceTop
<1>10. \A k \in 0 .. Bottom - 1 : m_check[k] \in 1 .. n =>
         m_check'[k] = m_check[k] /\ m_next'[k] = m_next[k]
  BY <1>2, <1>3, <1>4, <1>6
<1>11. \A k \in 0 .. Bottom' - 1 : m_check'[k] \in 1 .. n =>
         k < Bottom /\ m_check[k] = m_check'[k]
  BY <1>2, <1>3, <1>4
<1>12. \A a \in own : /\ offset + a \in 0 .. Bottom' - 1
                      /\ m_check'[offset + a] = n + 1
                      /\ m_next'[offset + a] = objvec[a]
  <2> SUFFICES ASSUME NEW a \in own
               PROVE  /\ offset + a \in 0 .. Bottom' - 1
                      /\ m_check'[offset + a] = n + 1
                      /\ m_next'[offset + a] = objvec[a]
    OBVIOUS
  <2>1. a \in Int /\ (offset + a) - offset = a
    BY <1>2
  <2>2. offset + a \in 0 .. Bottom' - 1
    BY <2>1, <1>2, <1>5
  <2> QED
    BY <2>1, <2>2, <1>3
<1>13. \A a \in (1 .. Columns) \ own :
         offset + a \in 0 .. Bottom' - 1 => m_check'[offset + a] # n + 1
  <2> SUFFICES ASSUME NEW a \in (1 .. Columns) \ own,
                      offset + a \in 0 .. Bottom' - 1
               PROVE  m_check'[offset + a] # n + 1
    OBVIOUS
  <2>1. a \in Int /\ (offset + a) - offset = a
    BY <1>2
  <2>2. m_check'[offset + a] =
          IF offset + a < Bottom THEN m_check[offset + a] ELSE 0
    BY <2>1, <1>3
  <2> QED
    BY <2>2, <1>2, <1>4
<1>14. Cells(n + 1)'
  BY <1>4, <1>7, <1>8, <1>9 DEF Cells
<1>15. Others(n)
  BY <1>10, <1>11 DEF Others
<1>16. Own(n, objvec, own, offset)
  BY <1>12, <1>13 DEF Own
<1> QED
  BY <1>0, <1>1, <1>2, <1>4, <1>14, <1>15, <1>16

(* A new row reads back as it was given, all others read what they did. *)
LEMMA AreaKeepsRows ==
  ASSUME TableOK,
         NEW n \in Nat, n = Len(m_base),
         NEW objvec \in Vectors,
         NEW default \in Int,
         NEW other \in [1 .. Columns -> Nat],
         default > 0 => /\ default \in States /\ m_default[default] <= 0
                        /\ other = Row(default),
         default <= 0 => other = [a \in 1 .. Columns |-> -default],
         CreateArea(objvec, default, other)
  PROVE  /\ TableOK'
         /\ Len(m_base') = n + 1
         /\ \A s \in 1 .. n, a \in 1 .. Columns : nextState(s, a)' = nextState(s, a)
         /\ \A a \in 1 .. Columns : nextState(n + 1, a)' = objvec[a]
<1> DEFINE own == Differing(objvec, other)
<1>1. /\ m_base \in Seq(Int) /\ m_default \in Seq(Int)
      /\ Len(m_base) = n /\ Len(m_default) = n
      /\ Columns \in Nat
      /\ Cells(n)
  BY ColumnsAssumption DEF TableOK, Cells
<1>2. own \in SUBSET (1 .. Columns)
  BY DEF Differing
<1>3. /\ Cells(n + 1)'
      /\ Bottom <= Bottom'
      /\ Others(n)
      /\ \E base \in Int : m_base' = Append(m_base, base) /\ Own(n, objvec, own, base)
  <2>1. CASE own = {}
    <3>1. m_base' = Append(m_base, INT_MIN) /\ UNCHANGED <<m_next, m_check, Top, Bottom>>
      BY <2>1 DEF CreateArea
    <3>2. INT_MIN \in Int
      BY DEF INT_MIN
    <3>3. Cells(n + 1)' /\ Bottom <= Bottom' /\ Others(n)
      BY <1>1, <3>1 DEF Cells, Others
    <3>4. Own(n, objvec, own, INT_MIN)
      BY <1>1, <2>1, <3>1, <3>2 DEF Own, Cells
    <3> QED
      BY <3>1, <3>2, <3>3, <3>4
  <2>2. CASE own # {}
    <3>1. PlaceCells(n + 1, objvec, own)
      BY <2>2, <1>1 DEF CreateArea
    <3> HIDE DEF own
    <3> QED
      BY <1>1, <1>2, <3>1, PlacedApart
  <2> QED
    BY <2>1, <2>2
<1>4. PICK base \in Int : m_base' = Append(m_base, base) /\ Own(n, objvec, own, base)
  BY <1>3
<1>5. m_default' = Append(m_default, default)
  BY DEF CreateArea
<1>6. /\ m_base' \in Seq(Int) /\ m_default' \in Seq(Int)
      /\ Len(m_base') = n + 1 /\ Len(m_default') = n + 1
      /\ m_base'[n + 1] = base /\ m_default'[n + 1] = default
      /\ \A s \in 1 .. n : m_base'[s] = m_base[s] /\ m_default'[s] = m_default[s]
  BY <1>1, <1>4, <1>5
<1>7. TableOK'
  <2>1. \A s \in 1 .. n + 1 : m_default'[s] > 0 =>
          m_default'[s] \in 1 .. s - 1 /\ m_default'[m_default'[s]] <= 0
    <3> SUFFICES ASSUME NEW s \in 1 .. n + 1, m_default'[s] > 0
                 PROVE  m_default'[s] \in 1 .. s - 1 /\ m_default'[m_default'[s]] <= 0
      OBVIOUS
    <3>1. CASE s = n + 1
      <4>1. default > 0 /\ default \in 1 .. n /\ m_default[default] <= 0
        BY <3>1, <1>1, <1>6 DEF States
      <4> QED
        BY <4>1, <3>1, <1>6
    <3>2. CASE s \in 1 .. n
      <4>1. m_default[s] > 0 /\ m_default'[s] = m_default[s]
        BY <3>2, <1>6
      <4>2. m_default[s] \in 1 .. s - 1 /\ m_default[m_default[s]] <= 0
        BY <4>1, <3>2, <1>1 DEF TableOK, States
      <4>3. m_default[s] \in 1 .. n
        BY <4>2, <3>2
      <4> QED
        BY <4>1, <4>2, <4>3, <1>6
    <3> QED
      BY <3>1, <3>2
  <2> QED
    BY <2>1, <1>1, <1>3, <1>6 DEF TableOK, States, Cells
<1>8. \A s \in 1 .. n, a \in 1 .. Columns :
        /\ HasCell(s, a)' <=> HasCell(s, a)
        /\ HasCell(s, a) => m_next'[m_base'[s] + a] = m_next[m_base[s] + a]
  <2> SUFFICES ASSUME NEW s \in 1 .. n, NEW a \in 1 .. Columns
               PROVE  /\ HasCell(s, a)' <=> HasCell(s, a)
                      /\ HasCell(s, a) => m_next'[m_base'[s] + a] = m_next[m_base[s] + a]
    OBVIOUS
  <2>1. /\ m_base[s] \in Int /\ m_base'[s] = m_base[s]
        /\ m_base[s] + a \in Int
        /\ Bottom \in Nat /\ Bottom' \in Nat /\ Bottom <= Bottom'
    BY <1>1, <1>3, <1>6 DEF Cells
  <2>2. ASSUME HasCell(s, a)
        PROVE  HasCell(s, a)' /\ m_next'[m_base'[s] + a] = m_next[m_base[s] + a]
    <3>1. m_base[s] + a \in 0 .. Bottom - 1 /\ m_check[m_base[s] + a] = s
      BY <2>2, <2>1 DEF HasCell
    <3>2. m_check'[m_base[s] + a] = s /\ m_next'[m_base[s] + a] = m_next[m_base[s] + a]
      BY <3>1, <1>3 DEF Others
    <3> QED
      BY <3>1, <3>2, <2>1 DEF HasCell
  <2>3. ASSUME HasCell(s, a)'
        PROVE  HasCell(s, a)
    <3>1. m_base[s] + a \in 0 .. Bottom' - 1 /\ m_check'[m_base[s] + a] = s
      BY <2>3, <2>1 DEF HasCell
    <3>2. m_base[s] + a < Bottom /\ m_check[m_base[s] + a] = s
      BY <3>1, <1>3 DEF Others
    <3> QED
      BY <3>1, <3>2, <2>1 DEF HasCell
  <2> QED
    BY <2>2, <2>3
<1>9. \A s \in 1 .. n, a \in 1 .. Columns : Unlinked(s, a)' = Unlinked(s, a)
  BY <1>6, <1>8 DEF Unlinked
<1>10. \A s \in 1 .. n, a \in 1 .. Columns : nextState(s, a)' = nextState(s, a)
  <2> SUFFICES ASSUME NEW s \in 1 .. n, NEW a \in 1 .. Columns
               PROVE  nextState(s, a)' = nextState(s, a)
    OBVIOUS
  <2>1. m_default[s] > 0 => m_default[s] \in 1 .. n
    BY <1>1 DEF TableOK, States
  <2>2. m_default'[s] = m_default[s] /\ m_base'[s] = m_base[s]
    BY <1>6
  <2>3. CASE m_default[s] > 0 /\ ~HasCell(s, a)
    BY <2>1, <2>2, <2>3, <1>8, <1>9 DEF nextState
  <2>4. CASE ~(m_default[s] > 0 /\ ~HasCell(s, a))
    BY <2>2, <2>4, <1>8, <1>9 DEF nextState
  <2> QED
    BY <2>3, <2>4
<1>11. \A a \in 1 .. Columns : nextState(n + 1, a)' = objvec[a]
  <2> SUFFICES ASSUME NEW a \in 1 .. Columns
               PROVE  nextState(n + 1, a)' = objvec[a]
    OBVIOUS
  <2>0. HasCell(n + 1, a)' <=>
          base + a \in 0 .. Bottom' - 1 /\ m_check'[base + a] = n + 1
    <3>1. PICK bottom \in Nat : bottom = Bottom'
      BY <1>3 DEF Cells
    <3>2. HasCell(n + 1, a)' <=>
            /\ base + a >= 0 /\ base + a < bottom
            /\ m_check'[base + a] = n + 1
      BY <3>1, <1>6 DEF HasCell
    <3>3. base + a >= 0 /\ base + a < bottom <=> base + a \in 0 .. bottom - 1
      OBVIOUS
    <3> QED
      BY <3>1, <3>2, <3>3
  <2>1. CASE a \in own
    <3>1. HasCell(n + 1, a)'
      BY <2>0, <2>1, <1>4 DEF Own
    <3> QED
      BY <3>1, <2>1, <1>2, <1>4, <1>6 DEF nextState, Unlinked, Own
  <2>2. CASE a \notin own
    <3>1. ~HasCell(n + 1, a)'
      BY <2>0, <2>2, <1>4 DEF Own
    <3>2. objvec[a] = other[a]
      BY <2>2 DEF Differing
    <3>3. CASE default > 0
      <4>1. default \in 1 .. n /\ m_default[default] <= 0 /\ other = Row(default)
        BY <3>3 DEF States
      <4>2. other[a] = Unlinked(default, a)
        <5>1. Row(default)[a] = nextState(default, a)
          BY DEF Row
        <5>2. ~(m_default[default] > 0)
          BY <4>1, <1>1
        <5> QED
          BY <4>1, <5>1, <5>2 DEF nextState
      <4>3. nextState(n + 1, a)' = Unlinked(default, a)'
        BY <3>1, <3>3, <1>6 DEF nextState
      <4> QED
        BY <4>1, <4>2, <4>3, <3>2, <1>9
    <3>4. CASE default <= 0
      BY <3>1, <3>2, <3>4, <1>6 DEF nextState, Unlinked
    <3> QED
      BY <3>3, <3>4
  <2> QED
    BY <2>1, <2>2
<1> QED
  BY <1>6, <1>7, <1>10, <1>11 DEF States

(* What a row reads are states. *)
LEMMA RowsReadStates ==
  ASSUME TableOK, NEW s \in States
  PROVE  /\ Row(s) \in [1 .. Columns -> Int]
         /\ m_default[s] <= 0 => Row(s) \in [1 .. Columns -> Nat]
<1>1. /\ m_base[s] \in Int /\ m_default[s] \in Int
      /\ Bottom \in Nat /\ Columns \in Nat
      /\ m_next \in [0 .. Bottom - 1 -> Nat]
      /\ m_default[s] > 0 => m_default[s] \in States
      /\ \A r \in States : m_base[r] \in Int /\ m_default[r] \in Int
  BY ColumnsAssumption DEF TableOK, States
<1>2. \A r \in States, a \in 1 .. Columns :
        /\ Unlinked(r, a) \in Int
        /\ m_default[r] <= 0 => Unlinked(r, a) \in Nat
  BY <1>1 DEF Unlinked, HasCell
<1> QED
  BY <1>1, <1>2 DEF Row, nextState

(* One added row is one step of the plain table. *)
LEMMA RowAdded ==
  ASSUME TableOK,
         NEW objvec \in Vectors,
         createNewArea(objvec) \/ createLinkArea(objvec)
  PROVE  /\ TableOK'
         /\ [s \in States |-> Row(s)]' = Append([s \in States |-> Row(s)], objvec)
<1>0. PICK n \in Nat : n = Len(m_base)
  BY DEF TableOK
<1>1. /\ TableOK'
      /\ Len(m_base') = n + 1
      /\ \A s \in 1 .. n, a \in 1 .. Columns : nextState(s, a)' = nextState(s, a)
      /\ \A a \in 1 .. Columns : nextState(n + 1, a)' = objvec[a]
  <2>1. CASE createNewArea(objvec)
    <3>1. PICK v \in 0 .. MaxState : CreateArea(objvec, -v, [a \in 1 .. Columns |-> v])
      BY <2>1 DEF createNewArea
    <3>2. /\ -v \in Int /\ -v <= 0 /\ ~(-v > 0) /\ v = -(-v)
          /\ [a \in 1 .. Columns |-> v] \in [1 .. Columns -> Nat]
      BY MaxStateAssumption
    <3>3. -v <= 0 => [a \in 1 .. Columns |-> v] = [a \in 1 .. Columns |-> -(-v)]
      BY <3>2
    <3> QED
      BY <1>0, <3>1, <3>2, <3>3, AreaKeepsRows
  <2>2. CASE createLinkArea(objvec)
    <3>1. PICK base \in States :
            compareState(base, objvec) /\ CreateArea(objvec, base, Row(base))
      BY <2>2 DEF createLinkArea
    <3>2. m_default[base] <= 0
      BY <3>1 DEF compareState
    <3>3. Row(base) \in [1 .. Columns -> Nat]
      BY <3>2, RowsReadStates
    <3>4. base \in Int /\ base > 0 /\ ~(base <= 0)
      BY DEF States
    <3>5. PICK other \in [1 .. Columns -> Nat] : other = Row(base)
      BY <3>3
    <3> QED
      BY <1>0, <3>1, <3>2, <3>4, <3>5, AreaKeepsRows
  <2> QED
    BY <2>1, <2>2
<1> DEFINE T == [s \in 1 .. n |-> Row(s)]
           U == [s \in 1 .. n + 1 |-> [a \in 1 .. Columns |-> nextState(s, a)']]
<1>2. T = [s \in States |-> Row(s)]
  BY <1>0 DEF States
<1>3. [s \in States |-> Row(s)]' = U
  BY <1>1 DEF States, Row
<1>4. \A s \in 1 .. n : U[s] = T[s]
  <2> SUFFICES ASSUME NEW s \in 1 .. n PROVE U[s] = T[s]
    OBVIOUS
  <2>1. U[s] = [a \in 1 .. Columns |-> nextState(s, a)'] /\ T[s] = Row(s)
    OBVIOUS
  <2> QED
    BY <2>1, <1>1 DEF Row
<1>5. U[n + 1] = objvec
  BY <1>1 DEF Vectors
<1>6. Len(T) = n /\ Append(T, objvec) = [s \in 1 .. n + 1 |-> IF s \in 1 .. n THEN T[s] ELSE objvec]
  <2>1. \A s \in 1 .. n : Row(s) \in [1 .. Columns -> Int]
    BY <1>0, RowsReadStates DEF States
  <2>2. T \in Seq([1 .. Columns -> Int]) /\ Len(T) = n
    BY <2>1
  <2> QED
    BY <2>2
<1>7. U = Append(T, objvec)
  <2>1. \A s \in 1 .. n + 1 : s \in 1 .. n \/ s = n + 1
    OBVIOUS
  <2>2. \A s \in 1 .. n + 1 : U[s] = IF s \in 1 .. n THEN T[s] ELSE objvec
    <3> HIDE DEF U, T
    <3> QED
      BY <2>1, <1>4, <1>5
  <2> QED
    BY <2>2, <1>6
<1> QED
  BY <1>1, <1>2, <1>3, <1>7

(* The table is well-formed at the beginning and after every row. *)
THEOREM TableIsOK == Spec => []TableOK
<1>1. Init => TableOK
  BY DEF Init, TableOK, States
<1>2. TableOK /\ [Next]_vars => TableOK'
  <2> SUFFICES ASSUME TableOK, [Next]_vars PROVE TableOK'
    OBVIOUS
  <2>1. CASE UNCHANGED vars
    BY <2>1 DEF vars, TableOK, States
  <2>2. ASSUME NEW objvec \in Vectors, createNewArea(objvec) \/ createLinkArea(objvec)
        PROVE  TableOK'
    BY <2>2, RowAdded
  <2> QED
    BY <2>1, <2>2 DEF Next, Complete
<1> QED
  BY <1>1, <1>2, PTL DEF Spec

(* The compressed table implements the plain one: every row reads back as it
   was given, and goes on doing so when rows are linked to it or moved into
   its gaps (addEdge, nextState). *)
THEOREM CompressedImplementsPlain == Spec => ImplementsPlainTable
<1>1. Init => Plain!Init
  BY DEF Init, Plain!Init, States
<1>2. TableOK /\ [Next]_vars => [Plain!Next]_([s \in States |-> Row(s)])
  <2> SUFFICES ASSUME TableOK, [Next]_vars
               PROVE  [Plain!Next]_([s \in States |-> Row(s)])
    OBVIOUS
  <2>1. CASE UNCHANGED vars
    <3>1. [s \in States |-> Row(s)]' = [s \in States |-> Row(s)]
      BY <2>1 DEF vars, States, Row, nextState, Unlinked, HasCell
    <3> QED
      BY <3>1
  <2>2. ASSUME NEW objvec \in Vectors, createNewArea(objvec) \/ createLinkArea(objvec)
        PROVE  Plain!Next
    <3>1. [s \in States |-> Row(s)]' = Append([s \in States |-> Row(s)], objvec)
      BY <2>2, RowAdded
    <3> QED
      BY <3>1 DEF Plain!Next, Plain!addEdge, Plain!Vectors, Vectors
  <2> QED
    BY <2>1, <2>2 DEF Next, Complete
<1> QED
  BY <1>1, <1>2, TableIsOK, PTL DEF Spec, Plain!Spec, ImplementsPlainTable

(* Placing a row takes no cell away, and Top moves over taken cells only. *)
LEMMA AreaLeavesNoHole ==
  ASSUME TableOK, NoHoleBelowTop,
         NEW objvec \in Vectors, NEW default, NEW other,
         CreateArea(objvec, default, other)
  PROVE  NoHoleBelowTop'
<1> DEFINE own == Differing(objvec, other)
<1>1. CASE own = {}
  BY <1>1 DEF CreateArea, NoHoleBelowTop
<1>2. CASE own # {}
  <2>1. PICK n \in Nat : n = Len(m_base)
    BY DEF TableOK
  <2>2. PlaceCells(n + 1, objvec, own)
    BY <1>2, <2>1 DEF CreateArea
  <2>3. PICK offset, last :
          /\ Place(n + 1, objvec, own, offset, NewBottom(offset, last))
          /\ AdvanceTop
    BY <2>2 DEF PlaceCells
  <2>4. own \in SUBSET (1 .. Columns) /\ Cells(n)
    BY <2>1 DEF Differing, TableOK, Cells
  <2>5. Cells(n + 1)' /\ Bottom <= Bottom'
    <3> HIDE DEF own
    <3> QED
      BY <2>1, <2>2, <2>4, PlacedApart
  <2>6. PICK top \in Nat, bottom \in Nat :
          /\ top = Top' /\ bottom = Bottom' /\ top <= bottom /\ Bottom <= bottom
    BY <2>5 DEF Cells
  <2>7. /\ Top \in Nat /\ Bottom \in Nat /\ Top <= Bottom
        /\ m_check \in [0 .. Bottom - 1 -> 0 .. n]
    BY <2>4 DEF Cells
  <2>8. \A k \in 0 .. bottom - 1 : k < Bottom /\ m_check[k] # 0 => m_check'[k] # 0
    BY <2>1, <2>3, <2>6, <2>7 DEF Place
  <2>9. top <= bottom /\ Bottom <= bottom
    BY <2>6
  <2>10. \A k \in 0 .. top - 1 : m_check'[k] # 0
    <3> SUFFICES ASSUME NEW k \in 0 .. top - 1 PROVE m_check'[k] # 0
      OBVIOUS
    <3>1. CASE k < Top
      <4>1. k \in 0 .. Top - 1 /\ k \in 0 .. bottom - 1 /\ k < Bottom
        BY <3>1, <2>7, <2>9
      <4>2. m_check[k] # 0
        BY <4>1 DEF NoHoleBelowTop
      <4> QED
        BY <4>1, <4>2, <2>8
    <3>2. CASE k \in Top .. top - 1
      BY <3>2, <2>3, <2>6 DEF AdvanceTop
    <3> QED
      BY <3>1, <3>2, <2>7
  <2> QED
    BY <2>6, <2>10 DEF NoHoleBelowTop
<1> QED
  BY <1>1, <1>2

(* Every free cell stays in reach of the search: no cell below the place where
   it begins is free (createNewArea, createLinkArea). *)
THEOREM SearchMissesNoHole == Spec => []NoHoleBelowTop
<1>1. Init => NoHoleBelowTop
  BY DEF Init, NoHoleBelowTop
<1>2. TableOK /\ NoHoleBelowTop /\ [Next]_vars => NoHoleBelowTop'
  <2> SUFFICES ASSUME TableOK, NoHoleBelowTop, [Next]_vars PROVE NoHoleBelowTop'
    OBVIOUS
  <2>1. CASE UNCHANGED vars
    BY <2>1 DEF vars, NoHoleBelowTop
  <2>2. ASSUME NEW objvec \in Vectors, createNewArea(objvec) \/ createLinkArea(objvec)
        PROVE  NoHoleBelowTop'
    BY <2>2, AreaLeavesNoHole DEF createNewArea, createLinkArea
  <2> QED
    BY <2>1, <2>2 DEF Next, Complete
<1> QED
  BY <1>1, <1>2, TableIsOK, PTL DEF Spec
=============================================================================
