------------------------ MODULE MCTerminalIdentity -------------------------
(* TerminalIdentity for TLC.  Requests and names are interchangeable;        *)
(* references are drawn by CHOOSE and are not.                               *)
EXTENDS TerminalIdentity, TLC

Symmetry == Permutations(Requests) \cup Permutations(Names)
=============================================================================
