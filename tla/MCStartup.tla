------------------------------ MODULE MCStartup ------------------------------
(* Three processes of the broker that migrate one table of two columns. *)
EXTENDS Startup

CONSTANTS p1, p2, p3, a, b

=============================================================================
