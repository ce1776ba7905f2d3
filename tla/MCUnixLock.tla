----------------------------- MODULE MCUnixLock -----------------------------
(* Three handles of one file in two processes. *)
EXTENDS UnixLock

CONSTANTS h1, h2, h3, p1, p2

\* Two handles in one process, the third in another.
TwoInOne == [h \in Handles |-> IF h \in {h1, h2} THEN p1 ELSE p2]

=============================================================================
