------------------------- MODULE MCHistorySnapshots -------------------------
(* HistorySnapshots with histories of two sizes: many bytes in few nodes,  *)
(* and few bytes in many nodes.                                            *)
EXTENDS HistorySnapshots, TLC

TwoSizes == {[memory |-> 2, nodes |-> 1], [memory |-> 1, nodes |-> 2]}
OneSize == {[memory |-> 1, nodes |-> 1]}

Symmetry == Permutations(Requests) \cup Permutations(Viewers)
            \cup Permutations(Users)
=============================================================================
