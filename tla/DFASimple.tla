----------------------------- MODULE DFASimple ------------------------------
(***************************************************************************)
(* A transition table as the regex library promises it (class DFA, and     *)
(* DFASimple, which stores it plainly): a row is added for one state after *)
(* the other and reads back as it was given.  Row and column 0, the        *)
(* illegal state and input, are left out.                                  *)
(***************************************************************************)
EXTENDS Naturals, Sequences

CONSTANTS Columns,    \* input_max - 1: the inputs of a table
          MaxState    \* bound: the states of a table

VARIABLE m_table

Vectors == [1 .. Columns -> 0 .. MaxState]

addEdge(objvec) == m_table' = Append(m_table, objvec)

Init == m_table = <<>>

Next == \E objvec \in Vectors : addEdge(objvec)

Spec == Init /\ [][Next]_m_table
=============================================================================
