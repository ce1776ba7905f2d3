-------------------------------- MODULE MCWal --------------------------------
(* Connections of one database, of which some only read and some checkpoint. *)
EXTENDS Wal, TLC

CONSTANTS c1, c2, c3, x, y

\* Connections of the same role are alike, and so are pages.
KeepsRoles(f) ==
    /\ \A c \in Readers : f[c] \in Readers
    /\ \A c \in Checkpointers : f[c] \in Checkpointers

Symmetry == {f \in Permutations(Clients) : KeepsRoles(f)} \cup Permutations(Pages)

=============================================================================
