----------------------------- MODULE SelfUpdate -----------------------------
(***************************************************************************)
(* How the agent replaces its own binary (update/updater.go).  A daily job *)
(* and the agent_self_update command, which NATS may deliver on either of  *)
(* two subscriptions, call TryUpdate; a mutex taken with TryLock lets one  *)
(* of them through.  It finds the newest release that has this build's     *)
(* asset, downloads it beside the binary, verifies it, renames it over the *)
(* binary and restarts the service.  The agent may stop at any step.       *)
(*                                                                         *)
(* Releases are numbered as they are published; the number stands for the  *)
(* base version of the tag.  The binary embeds the version of a file that   *)
(* nothing compares with the tag: a release may still have the one before.  *)
(***************************************************************************)
EXTENDS Integers, Sequences

CONSTANTS Callers,      \* the daily job and the subscriptions
          Page,         \* releases listed: per_page
          Mislabelled,  \* releases whose version file was not changed
          MaxRelease,   \* bound: releases published
          MaxFault,     \* bound: requests, downloads and restarts that fail
          MaxCrash      \* bound: stops of the agent that it did not ask for

ASSUME UpdateAssumption ==
  /\ Page \in Nat \ {0} /\ 1 \notin Mislabelled
  /\ {MaxRelease, MaxFault, MaxCrash} \subseteq Nat

VARIABLES
  releases,   \* releases[i]: "mine" when release i has this build's asset
  installed,  \* the release whose binary is installed
  new,        \* the .new file: a release, Absent, or Partial
  version,    \* the version of the running agent
  holder,     \* the caller that holds updateMu, if any
  caller,     \* the calls of TryUpdate
  faults, crashes

vars == <<releases, installed, new, version, holder, caller, faults, crashes>>

Absent == -1
Partial == 0    \* incomplete, or not what its checksum says

\* The version that the binary of release r embeds.
Embedded(r) == IF r \in Mislabelled THEN r - 1 ELSE r

Done == [pc |-> "idle", tag |-> 0]

Init ==
  /\ releases = <<"mine">> /\ installed = 1 /\ version = 1
  /\ new = Absent
  /\ holder = {}
  /\ caller = [c \in Callers |-> Done]
  /\ faults = 0 /\ crashes = 0

At(c, pc) == caller[c].pc = pc
Goto(c, pc) == caller' = [caller EXCEPT ![c].pc = pc]
Fault == faults < MaxFault /\ faults' = faults + 1

\* TryUpdate returns, and its defer unlocks the mutex.
Return(c) == caller' = [caller EXCEPT ![c] = Done] /\ holder' = {}

-----------------------------------------------------------------------------
(* TryUpdate.  pc: "fetch" the releases, "open" the .new file, "copy" the   *)
(* body to it, "verify" it, "rename" it, "restart" the service.             *)

\* Mutant: the mutex is not tried.
TriggerUnlocked(c) ==
  /\ At(c, "idle")
  /\ holder' = {c}
  /\ Goto(c, "fetch")
  /\ UNCHANGED <<releases, installed, new, version, faults, crashes>>

\* A caller that does not get the mutex returns an error.
Trigger(c) ==
  /\ At(c, "idle") /\ holder = {}
  /\ holder' = {c}
  /\ Goto(c, "fetch")
  /\ UNCHANGED <<releases, installed, new, version, faults, crashes>>

\* fetchLatestVersionFor: the newest of the listed releases with the asset.
Listed == {i \in DOMAIN releases : i > Len(releases) - Page}
Mine == {i \in DOMAIN releases : releases[i] = "mine"}

\* Mutant: the first release in the list that is not the running one.
LatestOther ==
  LET others == (Listed \cap Mine) \ {version}
  IN  IF others = {} THEN version
      ELSE CHOOSE i \in others : \A j \in others : j <= i

\* The first release in the list that has the asset: the newest.
Latest == CHOOSE i \in Listed \cap Mine : \A j \in Listed \cap Mine : j <= i

\* Mutant: the call goes on, with no tag, when no release has the asset.
FetchGoesOn(c) ==
  /\ At(c, "fetch")
  /\ caller' = [caller EXCEPT ![c] = [pc |-> "open",
                   tag |-> IF Listed \cap Mine = {} THEN Absent ELSE Latest]]
  /\ UNCHANGED <<releases, installed, new, version, holder, faults, crashes>>

\* Mutant: versions are not compared.
FetchAlways(c) ==
  /\ At(c, "fetch")
  /\ IF Listed \cap Mine = {}
       THEN Return(c)
       ELSE /\ caller' = [caller EXCEPT ![c] = [pc |-> "open", tag |-> Latest]]
            /\ UNCHANGED holder
  /\ UNCHANGED <<releases, installed, new, version, faults, crashes>>

Fetch(c) ==
  /\ At(c, "fetch")
  /\ IF Listed \cap Mine = {} \/ Latest = version
       THEN Return(c)
       ELSE /\ caller' = [caller EXCEPT ![c] = [pc |-> "open", tag |-> Latest]]
            /\ UNCHANGED holder
  /\ UNCHANGED <<releases, installed, new, version, faults, crashes>>

FetchFails(c) ==
  /\ At(c, "fetch")
  /\ Fault
  /\ Return(c)
  /\ UNCHANGED <<releases, installed, new, version, crashes>>

\* The file is created or truncated once the response has begun.
Open(c) ==
  /\ At(c, "open")
  /\ new' = Partial
  /\ Goto(c, "copy")
  /\ UNCHANGED <<releases, installed, version, holder, faults, crashes>>

OpenFails(c) ==
  /\ At(c, "open")
  /\ Fault
  /\ Return(c)
  /\ UNCHANGED <<releases, installed, new, version, crashes>>

\* The copy ends without an error: what arrived may still be short or damaged.
Copy(c) ==
  /\ At(c, "copy")
  /\ \/ new' = caller[c].tag /\ UNCHANGED faults
     \/ new' = Partial /\ Fault
  /\ Goto(c, "verify")
  /\ UNCHANGED <<releases, installed, version, holder, crashes>>

\* Mutant: the mutex stays locked when a download fails.
CopyFailsLocked(c) ==
  /\ At(c, "copy") \/ At(c, "verify")
  /\ Fault
  /\ new' = Absent
  /\ caller' = [caller EXCEPT ![c] = Done]
  /\ UNCHANGED <<releases, installed, version, holder, crashes>>

\* A step of the download fails: the file is removed.
CopyFails(c) ==
  /\ At(c, "copy") \/ At(c, "verify")
  /\ Fault
  /\ new' = Absent
  /\ Return(c)
  /\ UNCHANGED <<releases, installed, version, crashes>>

\* The length, the published checksum and a run with --version.
Verify(c) ==
  /\ At(c, "verify")
  /\ IF new = caller[c].tag
       THEN Goto(c, "rename") /\ UNCHANGED <<new, holder>>
       ELSE new' = Absent /\ Return(c)
  /\ UNCHANGED <<releases, installed, version, faults, crashes>>

Rename(c) ==
  /\ At(c, "rename")
  /\ installed' = new
  /\ new' = Absent
  /\ Goto(c, "restart")
  /\ UNCHANGED <<releases, version, holder, faults, crashes>>

\* The agent's process ends and the installed binary is started: no call of the
\* old process goes on, and the mutex is a new one.
Restarted ==
  /\ version' = Embedded(installed)
  /\ caller' = [c \in Callers |-> Done]
  /\ holder' = {}

Restart(c) ==
  /\ At(c, "restart")
  /\ Restarted
  /\ UNCHANGED <<releases, installed, new, faults, crashes>>

\* systemctl fails: the old version goes on running.
RestartFails(c) ==
  /\ At(c, "restart")
  /\ Fault
  /\ Return(c)
  /\ UNCHANGED <<releases, installed, new, version, crashes>>

Step(c) ==
  \/ Fetch(c) \/ FetchFails(c) \/ Open(c) \/ OpenFails(c) \/ Copy(c)
  \/ CopyFails(c) \/ Verify(c) \/ Rename(c) \/ Restart(c) \/ RestartFails(c)

\* The agent is stopped and started: by update_config, or with the node.
Crash ==
  /\ crashes < MaxCrash
  /\ crashes' = crashes + 1
  /\ Restarted
  /\ UNCHANGED <<releases, installed, new, faults>>

\* A tag is pushed, for one of the two builds.
Publish(build) ==
  /\ Len(releases) < MaxRelease
  /\ releases' = Append(releases, build)
  /\ UNCHANGED <<installed, new, version, holder, caller, faults, crashes>>

Next ==
  \/ \E c \in Callers : Trigger(c) \/ Step(c)
  \/ Crash
  \/ \E build \in {"mine", "other"} : Publish(build)

Spec == Init /\ [][Next]_vars

\* The daily job calls again and again, and every request has a timeout.
FairSpec ==
  /\ Spec
  /\ WF_vars(\E c \in Callers : Trigger(c))
  /\ \A c \in Callers : WF_vars(Step(c))

-----------------------------------------------------------------------------
(* Properties. *)

TypeOK ==
  /\ releases \in Seq({"mine", "other"})
  /\ installed \in Nat /\ version \in Nat /\ new \in Nat \cup {Absent}
  /\ holder \subseteq Callers
  /\ caller \in [Callers -> [pc : {"idle", "fetch", "open", "copy", "verify",
                                   "rename", "restart"}, tag : Nat]]
  /\ faults \in Nat /\ crashes \in Nat

\* The installed binary is always a complete and verified one of this build,
\* whoever triggers updates at the same time, whatever download fails or is
\* damaged, and whenever the agent stops: the agent never locks itself out.
InstalledIsRelease == installed \in Mine

\* The binary is never replaced by an older release.
NeverDowngrades == [][installed' >= installed]_vars

\* Mutex, downloads, files and failures are not seen in Upgrade: whatever interleaves,
\* fails or restarts, each replacement of the binary is a whole one by a release of this
\* build, no older than the last and not the version that runs (updater.go:69-79), and
\* what runs is what was installed when the agent started.
Upgrades == INSTANCE Upgrade WITH known <- Mine

KeepsUpgrading == Upgrades!Spec

\* Once nothing more is published and faults have ended, the agent runs the
\* newest release of its build, as long as the listing still shows one.
Settles ==
  <>[](Listed \cap Mine # {} => installed = Latest /\ version = Embedded(Latest))

\* And then it stops downloading and restarting (updater.go:74), unless that release
\* is mislabelled: the agent installs one of those again at every call.
UpdatesCease ==
  <>[]((Listed \cap Mine # {} /\ Latest \notin Mislabelled) =>
         \A c \in Callers : caller[c].pc \in {"idle", "fetch"})
=============================================================================
