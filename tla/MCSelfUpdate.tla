---------------------------- MODULE MCSelfUpdate ----------------------------
(* SelfUpdate on a small instance. *)
EXTENDS SelfUpdate

CONSTANTS daily, command
=============================================================================
