----------------------------- MODULE MCReporter -----------------------------
(* Reporter on small instances. *)
EXTENDS Reporter

CONSTANTS uplink, downlink
=============================================================================
