---------------------------- MODULE MCDailyJobs ----------------------------
(* The two daily jobs of the ikev2 build over three days. *)
EXTENDS DailyJobs

CONSTANTS update, clear

MCHour == [j \in Jobs |-> IF j = update THEN 1 ELSE 2]
MCLastPart == -3
=============================================================================
