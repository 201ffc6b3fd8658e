--------------------------- MODULE MCRestartSync ----------------------------
(* The resynchronisation of RestartSync on a small instance. *)
EXTENDS RestartSync

CONSTANTS w1, w2, u1, u2, t1
=============================================================================
