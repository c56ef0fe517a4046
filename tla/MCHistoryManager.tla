--------------------------- MODULE MCHistoryManager ---------------------------
(* Instances of HistoryManager for TLC. *)
EXTENDS HistoryManager, TLC

CONSTANTS a, b, v1, v2, m1, m2

\* One record is there, the other is not.
OneOfTwo == {(a :> v1) @@ [id \in Ids |-> Absent]}

TwoAndOne == [id \in Ids |-> IF id = a THEN 2 ELSE 1]

Symmetry == Permutations(MarkIds)
=============================================================================
