--------------------------- MODULE MCRollbackPager ---------------------------
(* Two pagers of one database file, in two processes or in one. *)
EXTENDS RollbackPager

CONSTANTS p1, p2

TwoProcesses == [p \in Handles |-> p]
OneProcess == [p \in Handles |-> p1]

=============================================================================
