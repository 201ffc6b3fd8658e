---------------------------- MODULE MCDeltaSync ----------------------------
(* DeltaSync on small instances. *)
EXTENDS DeltaSync

CONSTANTS u1, u2
=============================================================================
