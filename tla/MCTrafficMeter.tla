--------------------------- MODULE MCTrafficMeter ---------------------------
(* TrafficMeter on small instances. *)
EXTENDS TrafficMeter

CONSTANTS eth0, eth1, tx, rx
=============================================================================
