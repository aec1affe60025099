------------------------ MODULE MCCaptureCoordinator ------------------------
(* CaptureCoordinator for TLC.  Requests and heap addresses are            *)
(* interchangeable; the permutations are used where only invariants are   *)
(* checked.                                                                *)
EXTENDS CaptureCoordinator, TLC

Symmetry == Permutations(Requests) \cup Permutations(Calls)
=============================================================================
