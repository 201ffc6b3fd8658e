----------------------------- MODULE MCTempSync -----------------------------
(* TempSync on small instances. *)
EXTENDS TempSync

CONSTANTS t1, t2, s1, s2
=============================================================================
