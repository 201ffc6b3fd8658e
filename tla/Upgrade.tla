------------------------------ MODULE Upgrade ------------------------------
(***************************************************************************)
(* What the self-update promises for the agent's binary                    *)
(* (update/updater.go), without callers, mutex, downloads and files: the   *)
(* binary changes in one step from one release of this build to another,   *)
(* published by then and no older, and never to the version that is        *)
(* already running; the agent only ever runs a binary that was installed.  *)
(***************************************************************************)
EXTENDS Integers

CONSTANT Mislabelled   \* releases that embed the version before theirs

VARIABLES
  known,      \* the releases of this build
  installed,  \* the one whose binary is installed
  version     \* the version of the running agent

vars == <<known, installed, version>>

Runs(r) == IF r \in Mislabelled THEN r - 1 ELSE r

Init == known = {1} /\ installed = 1 /\ version = 1

\* A release is published after all the others.
Publish ==
  /\ \E r \in known' : /\ r \in Nat /\ \A k \in known : k < r
                      /\ known' = known \cup {r}
  /\ UNCHANGED <<installed, version>>

Replace ==
  /\ \E r \in known : r >= installed /\ r # version /\ installed' = r
  /\ UNCHANGED <<known, version>>

\* The agent starts: after a replacement, or whenever it was stopped.
Start == version' = Runs(installed) /\ UNCHANGED <<known, installed>>

Next == Publish \/ Replace \/ Start

Spec == Init /\ [][Next]_vars
=============================================================================
