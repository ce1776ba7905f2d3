---------------------------- MODULE MCSqlSession ----------------------------
(* More goroutines than connections. *)
EXTENDS SqlSession

CONSTANTS w1, w2, w3, c1, c2

=============================================================================
