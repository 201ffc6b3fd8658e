------------------------- MODULE SelfUpdateProofs -------------------------
(***************************************************************************)
(* That a node never installs anything but a complete release of its own   *)
(* build, and never an older one than it has, for any number of callers,   *)
(* any length of the release list, and any number of faults and restarts;  *)
(* and of the daily jobs, one of which updates, that each runs once a day   *)
(* and wakes at its hour, for any jobs, hours, jitter and length of a day.  *)
(***************************************************************************)
EXTENDS SelfUpdate, DailyJobs, SequenceTheorems, WellFoundedInduction, TLAPS

\* The mutex: whoever runs TryUpdate holds it.
HolderRuns == \A c \in Callers : ~ At(c, "idle") => holder = {c}

\* A release that was chosen for download is one of this build, no older than what is
\* installed, which was chosen earlier, and not what runs.
Downloading == {"open", "copy", "verify", "rename"}
ChosenIsMine ==
  \A c \in Callers : caller[c].pc \in Downloading =>
    /\ caller[c].tag \in Mine
    /\ installed <= caller[c].tag
    /\ caller[c].tag # version

\* What is renamed over the binary is the release that was verified.
VerifiedIsChosen == \A c \in Callers : At(c, "rename") => new = caller[c].tag

IInv ==
  /\ TypeOK
  /\ InstalledIsRelease
  /\ HolderRuns
  /\ ChosenIsMine
  /\ VerifiedIsChosen

-----------------------------------------------------------------------------
\* The releases of this build are numbered within the list.
LEMMA MineIsBounded ==
  ASSUME TypeOK
  PROVE  Len(releases) \in Nat /\ Mine \subseteq 1..Len(releases)
  BY DEF TypeOK, Mine

\* A set of numbers up to a bound that is not empty has a largest one.
LEMMA HasLargest ==
  ASSUME NEW n \in Nat, NEW Nums \in SUBSET (1..n), Nums # {}
  PROVE  \E x \in Nums : \A y \in Nums : y <= x
<1> DEFINE Gap == {n - x : x \in Nums}
           Less == {ss \in Nat \X Nat : ss[1] < ss[2]}
<1>1. Gap \subseteq Nat /\ Gap # {}
  <2>1. PICK z \in Nums : TRUE
    OBVIOUS
  <2>2. n - z \in Gap
    BY <2>1
  <2>3. Gap \subseteq Nat
    OBVIOUS
  <2> QED
    BY <2>2, <2>3
<1>2. PICK g \in Gap : \A h \in Gap : ~ (<<h, g>> \in Less)
  <2>1. IsWellFoundedOn(Less, Nat)
    BY NatLessThanWellFounded DEF OpToRel
  <2> HIDE DEF Gap, Less
  <2> QED
    BY <1>1, <2>1, WFMin
<1>3. \A h \in Gap : g <= h
  <2>1. \A h \in Gap : ~ (h < g)
    BY <1>1, <1>2
  <2> QED
    BY <1>1, <2>1
<1>4. PICK x \in Nums : g = n - x
  OBVIOUS
<1>5. ASSUME NEW y \in Nums PROVE y <= x
  <2>1. n - x <= n - y
    BY <1>3, <1>4
  <2> QED
    BY <2>1
<1> QED
  BY <1>5

\* The release that fetchLatestVersionFor returns is of this build, and no
\* release of this build is newer: those not listed are older (updater.go:116-130).
LEMMA LatestIsNewest ==
  ASSUME TypeOK, Listed \cap Mine # {}
  PROVE  /\ Latest \in Mine
         /\ \A i \in Mine : i <= Latest
<1>1. Listed \cap Mine \in SUBSET (1..Len(releases))
  BY MineIsBounded
<1>2. \E i \in Listed \cap Mine : \A j \in Listed \cap Mine : j <= i
  BY <1>1, MineIsBounded, HasLargest
<1>3. Latest \in Listed \cap Mine /\ \A j \in Listed \cap Mine : j <= Latest
  BY <1>2 DEF Latest
<1>4. ASSUME NEW i \in Mine PROVE i <= Latest
  <2>1. i \in 1..Len(releases) /\ Latest \in 1..Len(releases)
    BY <1>3, MineIsBounded
  <2>2. CASE i \in Listed
    BY <2>2, <1>3
  <2>3. CASE i \notin Listed
    BY <2>1, <2>3, <1>3, UpdateAssumption DEF Listed, Mine
  <2> QED
    BY <2>2, <2>3
<1> QED
  BY <1>3, <1>4

-----------------------------------------------------------------------------
(* The inductive invariant. *)

LEMMA InitIInv == Init => IInv
<1> SUFFICES ASSUME Init PROVE IInv
  OBVIOUS
<1>1. TypeOK
  BY DEF Init, TypeOK, Done, Absent
<1>2. InstalledIsRelease
  BY DEF Init, InstalledIsRelease, Mine
<1>3. HolderRuns /\ ChosenIsMine /\ VerifiedIsChosen
  BY DEF Init, HolderRuns, ChosenIsMine, VerifiedIsChosen, Downloading, At, Done
<1> QED
  BY <1>1, <1>2, <1>3 DEF IInv

\* Only the caller that holds the mutex is not idle.
LEMMA OthersIdle ==
  ASSUME HolderRuns, NEW c \in Callers, ~ At(c, "idle")
  PROVE  holder = {c} /\ \A d \in Callers \ {c} : At(d, "idle")
  BY DEF HolderRuns

\* What a step of one call has to establish for that call when the others are idle.
LEMMA OneCall ==
  ASSUME NEW c \in Callers,
         \A d \in Callers \ {c} : At(d, "idle") /\ caller'[d] = caller[d],
         At(c, "idle")' \/ holder' = {c},
         caller'[c].pc \in Downloading =>
           caller'[c].tag \in Mine' /\ installed' <= caller'[c].tag
             /\ caller'[c].tag # version',
         At(c, "rename")' => new' = caller'[c].tag
  PROVE  HolderRuns' /\ ChosenIsMine' /\ VerifiedIsChosen'
<1>1. \A d \in Callers \ {c} : At(d, "idle")' /\ caller'[d].pc = "idle"
  BY DEF At
<1>2. HolderRuns'
  BY <1>1 DEF HolderRuns
<1>3. ChosenIsMine'
  BY <1>1 DEF ChosenIsMine, Downloading
<1>4. VerifiedIsChosen'
  BY <1>1 DEF VerifiedIsChosen, At
<1> QED
  BY <1>2, <1>3, <1>4

\* A restart, asked for or not, ends every call; the binary stays.
LEMMA RestartedKeeps ==
  ASSUME IInv, Restarted, UNCHANGED <<releases, installed, new>>,
         faults' \in Nat, crashes' \in Nat
  PROVE  IInv'
<1>1. version' \in Nat
  BY MineIsBounded DEF IInv, InstalledIsRelease, Restarted, Embedded
<1>2. TypeOK'
  BY <1>1 DEF IInv, TypeOK, Restarted, Done
<1>3. InstalledIsRelease'
  BY DEF IInv, InstalledIsRelease, Mine
<1>4. HolderRuns' /\ ChosenIsMine' /\ VerifiedIsChosen'
  BY DEF Restarted, Done, HolderRuns, ChosenIsMine, VerifiedIsChosen, Downloading, At
<1> QED
  BY <1>2, <1>3, <1>4 DEF IInv

\* A call that returns, whatever became of the downloaded file.
LEMMA ReturnKeeps ==
  ASSUME IInv, NEW c \in Callers, ~ At(c, "idle"), Return(c),
         new' \in Nat \cup {Absent}, faults' \in Nat,
         UNCHANGED <<releases, installed, version, crashes>>
  PROVE  IInv'
<1>1. caller' \in [Callers -> [pc : {"idle", "fetch", "open", "copy", "verify",
                                   "rename", "restart"}, tag : Nat]]
  BY DEF IInv, TypeOK, Return, Done
<1>2. TypeOK'
  BY <1>1 DEF IInv, TypeOK, Return
<1>3. InstalledIsRelease'
  BY DEF IInv, InstalledIsRelease, Mine
<1>4. /\ caller'[c] = Done
      /\ \A d \in Callers \ {c} : At(d, "idle") /\ caller'[d] = caller[d]
  BY OthersIdle DEF IInv, TypeOK, Return
<1>5. HolderRuns' /\ ChosenIsMine' /\ VerifiedIsChosen'
  BY <1>4, OneCall DEF At, Done, Downloading
<1> QED
  BY <1>2, <1>3, <1>5 DEF IInv

\* A call that goes on to pc with the release tag.
GoOn(c, pc, tag) == caller' = [caller EXCEPT ![c] = [pc |-> pc, tag |-> tag]]

\* A call that goes on may change the downloaded file, and at most puts a release that is
\* no older in place of the binary.
LEMMA GoOnKeeps ==
  ASSUME IInv, NEW c \in Callers, NEW pc, NEW tag \in Nat,
         pc \in {"fetch", "open", "copy", "verify", "rename", "restart"},
         GoOn(c, pc, tag),
         \A d \in Callers \ {c} : At(d, "idle"),
         holder' = {c},
         new' \in Nat \cup {Absent}, faults' \in Nat,
         UNCHANGED <<releases, version, crashes>>,
         installed' \in Mine,
         pc \in Downloading => tag \in Mine /\ installed' <= tag /\ tag # version,
         pc = "rename" => new' = tag
  PROVE  IInv'
<1>1. caller' \in [Callers -> [pc : {"idle", "fetch", "open", "copy", "verify",
                                   "rename", "restart"}, tag : Nat]]
  BY DEF IInv, TypeOK, GoOn
<1>2. Mine' = Mine /\ Mine \subseteq Nat
  BY MineIsBounded DEF Mine, IInv
<1>3. TypeOK'
  BY <1>1, <1>2 DEF IInv, TypeOK
<1>4. InstalledIsRelease'
  BY <1>2 DEF InstalledIsRelease
<1>5. /\ caller'[c] = [pc |-> pc, tag |-> tag]
      /\ \A d \in Callers \ {c} : At(d, "idle") /\ caller'[d] = caller[d]
  BY DEF IInv, TypeOK, GoOn
<1>6. HolderRuns' /\ ChosenIsMine' /\ VerifiedIsChosen'
  BY <1>2, <1>5, OneCall DEF At
<1> QED
  BY <1>3, <1>4, <1>6 DEF IInv

\* Goto keeps the release of the call.
LEMMA GotoIsGoOn ==
  ASSUME IInv, NEW c \in Callers, NEW pc, Goto(c, pc)
  PROVE  /\ caller[c].tag \in Nat
         /\ GoOn(c, pc, caller[c].tag)
<1>1. caller[c] \in [pc : {"idle", "fetch", "open", "copy", "verify",
                          "rename", "restart"}, tag : Nat]
  BY DEF IInv, TypeOK
<1>2. [caller[c] EXCEPT !.pc = pc] = [pc |-> pc, tag |-> caller[c].tag]
  BY <1>1
<1>3. caller' = [caller EXCEPT ![c] = [caller[c] EXCEPT !.pc = pc]]
  BY DEF Goto
<1> QED
  BY <1>1, <1>2, <1>3 DEF GoOn

-----------------------------------------------------------------------------
(* The actions. *)

LEMMA TriggerKeeps ==
  ASSUME IInv, NEW c \in Callers, Trigger(c)
  PROVE  IInv'
<1>1. \A d \in Callers \ {c} : At(d, "idle")
  BY DEF IInv, HolderRuns, Trigger
<1>2. Goto(c, "fetch") /\ holder' = {c}
      /\ UNCHANGED <<releases, installed, new, version, faults, crashes>>
  BY DEF Trigger
<1>3. installed' \in Mine /\ new' \in Nat \cup {Absent} /\ faults' \in Nat
  BY <1>2 DEF IInv, TypeOK, InstalledIsRelease
<1> QED
  BY <1>1, <1>2, <1>3, GotoIsGoOn, GoOnKeeps DEF Downloading

LEMMA FetchKeeps ==
  ASSUME IInv, NEW c \in Callers, Fetch(c)
  PROVE  IInv'
<1>1. ~ At(c, "idle") /\ holder = {c} /\ \A d \in Callers \ {c} : At(d, "idle")
  BY OthersIdle DEF IInv, Fetch, At
<1>2. /\ UNCHANGED <<releases, installed, new, version, faults, crashes>>
      /\ installed' \in Mine /\ new' \in Nat \cup {Absent} /\ faults' \in Nat
  BY DEF IInv, TypeOK, InstalledIsRelease, Fetch
<1>3. CASE Return(c)
  BY <1>1, <1>2, <1>3, ReturnKeeps
<1>4. CASE /\ Listed \cap Mine # {}
           /\ caller' = [caller EXCEPT ![c] = [pc |-> "open", tag |-> Latest]]
           /\ UNCHANGED holder
           /\ Latest # version
  <2>1. Latest \in Mine /\ installed <= Latest /\ Latest \in Nat
    BY <1>2, <1>4, LatestIsNewest, MineIsBounded DEF IInv, InstalledIsRelease
  <2>2. GoOn(c, "open", Latest)
    BY <1>4 DEF GoOn
  <2> QED
    BY <1>1, <1>2, <1>4, <2>1, <2>2, GoOnKeeps
<1> QED
  BY <1>3, <1>4 DEF Fetch

LEMMA DownloadKeeps ==
  ASSUME IInv, NEW c \in Callers, Open(c) \/ Copy(c) \/ Verify(c) \/ Rename(c)
  PROVE  IInv'
<1>1. ~ At(c, "idle") /\ holder = {c} /\ \A d \in Callers \ {c} : At(d, "idle")
  BY OthersIdle DEF IInv, Open, Copy, Verify, Rename, At
<1>2. caller[c].tag \in Mine /\ installed <= caller[c].tag /\ caller[c].tag # version
  BY DEF IInv, ChosenIsMine, Downloading, At, Open, Copy, Verify, Rename
<1>3. installed \in Mine /\ caller[c].tag \in Nat /\ faults \in Nat
  BY DEF IInv, TypeOK, InstalledIsRelease
<1>4. CASE Open(c)
  <2>1. /\ Goto(c, "copy")
        /\ new' \in Nat /\ faults' \in Nat
        /\ UNCHANGED <<releases, installed, version, holder, crashes>>
    BY <1>3, <1>4 DEF Open, Partial
  <2> QED
    BY <1>1, <1>2, <1>3, <2>1, GotoIsGoOn, GoOnKeeps
<1>5. CASE Copy(c)
  <2>1. /\ Goto(c, "verify")
        /\ new' \in Nat /\ faults' \in Nat
        /\ UNCHANGED <<releases, installed, version, holder, crashes>>
    BY <1>3, <1>5 DEF Copy, Fault, Partial
  <2> QED
    BY <1>1, <1>2, <1>3, <2>1, GotoIsGoOn, GoOnKeeps
<1>6. CASE Verify(c)
  <2>1. UNCHANGED <<releases, installed, version, faults, crashes>>
    BY <1>6 DEF Verify
  <2>2. CASE new = caller[c].tag
    <3>1. Goto(c, "rename") /\ new' = caller[c].tag /\ holder' = {c}
      BY <1>1, <1>6, <2>2 DEF Verify
    <3> QED
      BY <1>1, <1>2, <1>3, <2>1, <3>1, GotoIsGoOn, GoOnKeeps
  <2>3. CASE new # caller[c].tag
    BY <1>1, <1>3, <1>6, <2>1, <2>3, ReturnKeeps DEF Verify
  <2> QED
    BY <2>2, <2>3
<1>7. CASE Rename(c)
  <2>1. /\ Goto(c, "restart") /\ installed' = caller[c].tag /\ new' = Absent
        /\ UNCHANGED <<releases, version, holder, faults, crashes>>
    BY <1>7 DEF IInv, VerifiedIsChosen, Rename
  <2> QED
    BY <1>1, <1>2, <1>3, <2>1, GotoIsGoOn, GoOnKeeps DEF Downloading
<1> QED
  BY <1>4, <1>5, <1>6, <1>7

LEMMA FailureKeeps ==
  ASSUME IInv, NEW c \in Callers,
         FetchFails(c) \/ OpenFails(c) \/ CopyFails(c) \/ RestartFails(c)
  PROVE  IInv'
<1>1. ~ At(c, "idle")
  BY DEF FetchFails, OpenFails, CopyFails, RestartFails, At
<1>2. /\ Return(c)
      /\ new' \in Nat \cup {Absent} /\ faults' \in Nat
      /\ UNCHANGED <<releases, installed, version, crashes>>
  BY DEF IInv, TypeOK, Fault, FetchFails, OpenFails, CopyFails, RestartFails
<1> QED
  BY <1>1, <1>2, ReturnKeeps

LEMMA PublishKeeps ==
  ASSUME IInv, NEW build \in {"mine", "other"}, Publish(build)
  PROVE  IInv'
<1>1. /\ releases \in Seq({"mine", "other"})
      /\ releases' = Append(releases, build)
      /\ UNCHANGED <<installed, new, version, holder, caller, faults, crashes>>
  BY DEF IInv, TypeOK, Publish
<1>2. Mine \subseteq Mine'
  BY <1>1 DEF Mine
<1>3. TypeOK'
  BY <1>1 DEF IInv, TypeOK
<1>4. InstalledIsRelease'
  BY <1>1, <1>2 DEF IInv, InstalledIsRelease
<1>5. HolderRuns' /\ ChosenIsMine' /\ VerifiedIsChosen'
  BY <1>1, <1>2 DEF IInv, HolderRuns, ChosenIsMine, VerifiedIsChosen, At
<1> QED
  BY <1>3, <1>4, <1>5 DEF IInv

LEMMA NextIInv == IInv /\ [Next]_vars => IInv'
<1> SUFFICES ASSUME IInv, [Next]_vars PROVE IInv'
  OBVIOUS
<1>1. CASE UNCHANGED vars
  BY <1>1 DEF vars, IInv, TypeOK, InstalledIsRelease, Mine, HolderRuns,
     ChosenIsMine, VerifiedIsChosen, At
<1>2. ASSUME NEW c \in Callers, Trigger(c) PROVE IInv'
  BY <1>2, TriggerKeeps
<1>3. ASSUME NEW c \in Callers, Step(c) PROVE IInv'
  <2>1. CASE Restart(c)
    BY <2>1, RestartedKeeps DEF Restart, IInv, TypeOK
  <2> QED
    BY <1>3, <2>1, FetchKeeps, DownloadKeeps, FailureKeeps DEF Step
<1>4. CASE Crash
  BY <1>4, RestartedKeeps DEF Crash, IInv, TypeOK
<1>5. ASSUME NEW build \in {"mine", "other"}, Publish(build) PROVE IInv'
  BY <1>5, PublishKeeps
<1> QED
  BY <1>1, <1>2, <1>3, <1>4, <1>5 DEF Next

-----------------------------------------------------------------------------
(* The theorems. *)

\* The inductive invariant holds in every behaviour of the updater.
THEOREM Invariance == Spec => []IInv
<1> QED
  BY InitIInv, NextIInv, PTL DEF Spec

\* Every variable keeps its type, for any callers and bounds.
THEOREM TypeCorrect == Spec => []TypeOK
<1>1. IInv => TypeOK
  BY DEF IInv
<1> QED
  BY <1>1, Invariance, PTL

\* updater.go:132-185: whatever fails and whenever the agent stops, what is installed is
\* a complete release of this build.
THEOREM InstalledComplete == Spec => []InstalledIsRelease
<1>1. IInv => InstalledIsRelease
  BY DEF IInv
<1> QED
  BY <1>1, Invariance, PTL

\* updater.go:69-80: no step replaces the binary by an older release, although versions
\* are compared for equality only and the release may have been chosen long before.
THEOREM OnlyUpgrades == Spec => NeverDowngrades
<1>1. ASSUME IInv, [Next]_vars PROVE [installed' >= installed]_vars
  <2>1. installed \in Nat
    BY <1>1 DEF IInv, TypeOK
  <2>2. ASSUME NEW c \in Callers, Rename(c) PROVE installed' >= installed
    <3>1. installed' = caller[c].tag /\ installed <= caller[c].tag
      BY <1>1, <2>2 DEF IInv, VerifiedIsChosen, ChosenIsMine, Downloading, Rename, At
    <3>2. caller[c].tag \in Nat
      BY <1>1 DEF IInv, TypeOK
    <3> QED
      BY <2>1, <3>1, <3>2
  <2>3. (\A c \in Callers : ~ Rename(c)) => installed' = installed
    BY <1>1 DEF vars, Next, Trigger, Step, Fetch, FetchFails, Open, OpenFails, Copy,
       CopyFails, Verify, Restart, RestartFails, Crash, Publish
  <2> QED
    BY <2>1, <2>2, <2>3
<1> QED
  BY <1>1, Invariance, PTL DEF Spec, NeverDowngrades

-----------------------------------------------------------------------------
(* The refinement of Upgrade. *)

\* A tag that is pushed is the newest release of its build, and none of the other's.
LEMMA PublishRefines ==
  ASSUME IInv, NEW build \in {"mine", "other"}, Publish(build)
  PROVE  [Upgrades!Next]_(Upgrades!vars)
<1> DEFINE n == Len(releases) + 1
<1>1. /\ releases \in Seq({"mine", "other"})
      /\ releases' = Append(releases, build)
      /\ UNCHANGED <<installed, version>>
  BY DEF IInv, TypeOK, Publish
<1>2. /\ n \in Nat /\ DOMAIN releases = 1..(n - 1) /\ DOMAIN releases' = 1..n
      /\ \A i \in 1..(n - 1) : releases'[i] = releases[i]
      /\ releases'[n] = build
  BY <1>1
<1>3. \A k \in Mine : k < n
  BY <1>2 DEF Mine
<1>4. CASE build = "mine"
  <2>1. Mine' = Mine \cup {n}
    BY <1>2, <1>4 DEF Mine
  <2> QED
    BY <1>1, <1>2, <1>3, <2>1 DEF Upgrades!Next, Upgrades!Publish
<1>5. CASE build = "other"
  <2>1. Mine' = Mine
    BY <1>2, <1>5 DEF Mine
  <2> QED
    BY <1>1, <2>1 DEF Upgrades!vars
<1> QED
  BY <1>4, <1>5

\* The rename is the whole replacement.
LEMMA RenameRefines ==
  ASSUME IInv, NEW c \in Callers, Rename(c)
  PROVE  Upgrades!Replace
<1>1. caller[c].tag \in Mine /\ installed <= caller[c].tag /\ caller[c].tag # version
  BY DEF IInv, ChosenIsMine, Downloading, At, Rename
<1>2. installed' = caller[c].tag /\ releases' = releases /\ version' = version
  BY DEF IInv, VerifiedIsChosen, Rename
<1>3. caller[c].tag \in Nat /\ installed \in Nat /\ Mine' = Mine
  BY <1>2 DEF IInv, TypeOK, Mine
<1> QED
  BY <1>1, <1>2, <1>3 DEF Upgrades!Replace

\* Every step of the calls, of the agent and of the releases is a step of Upgrade or none.
LEMMA StepRefines ==
  ASSUME IInv, [Next]_vars
  PROVE  [Upgrades!Next]_(Upgrades!vars)
<1>1. ASSUME NEW c \in Callers, Rename(c) PROVE [Upgrades!Next]_(Upgrades!vars)
  BY <1>1, RenameRefines DEF Upgrades!Next
<1>2. ASSUME Restarted, UNCHANGED <<releases, installed>>
      PROVE  [Upgrades!Next]_(Upgrades!vars)
  BY <1>2 DEF Restarted, Embedded, Mine, Upgrades!Next, Upgrades!Start, Upgrades!Runs
<1>3. ASSUME NEW build \in {"mine", "other"}, Publish(build)
      PROVE  [Upgrades!Next]_(Upgrades!vars)
  BY <1>3, PublishRefines
<1>4. CASE UNCHANGED <<releases, installed, version>>
  BY <1>4 DEF Mine, Upgrades!vars
<1>5. ASSUME NEW c \in Callers, Trigger(c) \/ Step(c)
      PROVE  [Upgrades!Next]_(Upgrades!vars)
  <2>1. CASE Restart(c)
    BY <1>2, <2>1 DEF Restart
  <2>2. CASE Trigger(c) \/ (Step(c) /\ ~ Rename(c) /\ ~ Restart(c))
    <3>1. UNCHANGED <<releases, installed, version>>
      BY <2>2 DEF Trigger, Step, Fetch, FetchFails, Open, OpenFails, Copy, CopyFails, Verify,
                  RestartFails
    <3> QED
      BY <1>4, <3>1
  <2> QED
    BY <1>1, <1>5, <2>1, <2>2 DEF Step
<1>6. CASE Crash
  BY <1>2, <1>6 DEF Crash
<1>7. CASE UNCHANGED vars
  BY <1>4, <1>7 DEF vars
<1> QED
  BY <1>3, <1>5, <1>6, <1>7 DEF Next

\* updater.go:62-93, 132-185: with any number of callers, faults and restarts the updater
\* does no more than Upgrade: whole replacements by releases of this build that were
\* published, are no older and are not what runs already.
THEOREM UpgradeKept == Spec => KeepsUpgrading
<1>1. Init => Upgrades!Init
  <2> SUFFICES ASSUME Init PROVE Upgrades!Init
    OBVIOUS
  <2>1. Mine = {1}
    BY DEF Init, Mine
  <2> QED
    BY <2>1 DEF Init, Upgrades!Init
<1>2. IInv /\ [Next]_vars => [Upgrades!Next]_(Upgrades!vars)
  BY StepRefines
<1> QED
  BY <1>1, <1>2, Invariance, PTL DEF Spec, KeepsUpgrading, Upgrades!Spec

-----------------------------------------------------------------------------
(* The daily jobs: hours and days. *)

\* An instant lies in the day it is counted to.
LEMMA DayHolds ==
  ASSUME NEW t \in Nat
  PROVE  /\ DayOf(t) \in Nat
         /\ DayOf(t) * Day <= t
         /\ t < DayOf(t) * Day + Day
<1>1. \A k \in Nat \ {0} : t \div k \in Nat /\ (t \div k) * k <= t /\ t < (t \div k) * k + k
  OBVIOUS
<1> QED
  BY <1>1, DailyAssumption DEF DayOf

\* Time does not go back to an earlier day.
LEMMA DaysInOrder ==
  ASSUME NEW t \in Nat, NEW u \in Nat, t <= u
  PROVE  DayOf(t) <= DayOf(u)
<1>1. \A k \in Nat \ {0} : t \div k <= u \div k
  OBVIOUS
<1> QED
  BY <1>1, DailyAssumption DEF DayOf

\* The hour of a job on a day lies in that day.
LEMMA DueInDay ==
  ASSUME NEW j \in Jobs, NEW d \in Nat
  PROVE  /\ Due(j, d) \in Nat
         /\ d * Day <= Due(j, d)
         /\ Due(j, d) < d * Day + Day
         /\ Due(j, d + 1) = Due(j, d) + Day
<1> DEFINE h == Hour[j] + HostJitter
<1>1. Hour[j] \in Nat /\ Day \in Nat \ {0} /\ h \in 0..(Day - 1)
  BY DailyAssumption
<1>2. HostJitter \in Int
  BY DailyAssumption DEF HostJitter
<1>3. d * Day \in Nat /\ (d + 1) * Day = d * Day + Day
  BY <1>1
<1> QED
  BY <1>1, <1>2, <1>3 DEF Due

\* The hours of later days come a day later or more.
LEMMA DueInOrder ==
  ASSUME NEW j \in Jobs, NEW d \in Nat, NEW e \in Nat, d < e
  PROVE  Due(j, d) + Day <= Due(j, e)
<1>1. Day \in Nat \ {0} /\ e - d >= 1 /\ e - d \in Nat
  BY DailyAssumption
<1>2. (e - d) * Day >= Day /\ (e - d) * Day = e * Day - d * Day
  BY <1>1
<1>3. Hour[j] \in Nat /\ HostJitter \in Int
  BY DailyAssumption DEF HostJitter
<1>4. d * Day \in Nat /\ e * Day \in Nat
  BY <1>1
<1> QED
  BY <1>1, <1>2, <1>3, <1>4 DEF Due

\* The hour of day d is counted to day d.
LEMMA DayOfDue ==
  ASSUME NEW j \in Jobs, NEW d \in Nat
  PROVE  DayOf(Due(j, d)) = d
<1> DEFINE e == DayOf(Due(j, d))
<1>1. Due(j, d) \in Nat /\ d * Day <= Due(j, d) /\ Due(j, d) < d * Day + Day
  BY DueInDay
<1>2. e \in Nat /\ e * Day <= Due(j, d) /\ Due(j, d) < e * Day + Day
  BY <1>1, DayHolds
<1>3. Day \in Nat \ {0}
  BY DailyAssumption
<1> HIDE DEF e
<1>4. ~ (e < d)
  <2>1. SUFFICES ASSUME e < d PROVE FALSE
    OBVIOUS
  <2>2. (d - e) * Day >= Day /\ (d - e) * Day = d * Day - e * Day
    BY <1>2, <1>3, <2>1
  <2> QED
    BY <1>1, <1>2, <1>3, <2>2
<1>5. ~ (d < e)
  <2>1. SUFFICES ASSUME d < e PROVE FALSE
    OBVIOUS
  <2>2. (e - d) * Day >= Day /\ (e - d) * Day = e * Day - d * Day
    BY <1>2, <1>3, <2>1
  <2> QED
    BY <1>1, <1>2, <1>3, <2>2
<1> QED
  BY <1>2, <1>4, <1>5 DEF e

\* What the scheduler computes is the hour of today or tomorrow, it is still to come,
\* within a day, and it is the first that is.
LEMMA NextRunIsNext ==
  ASSUME NEW j \in Jobs, wall \in Nat
  PROVE  /\ NextRun(j) \in {Due(j, DayOf(wall)), Due(j, DayOf(wall) + 1)}
         /\ NextRun(j) \in Nat
         /\ wall < NextRun(j) /\ NextRun(j) <= wall + Day
         /\ \A d \in Nat : Due(j, d) > wall => Due(j, d) >= NextRun(j)
<1> DEFINE today == DayOf(wall)
<1>1. today \in Nat /\ today * Day <= wall /\ wall < today * Day + Day
  BY DayHolds
<1>2. Day \in Nat \ {0}
  BY DailyAssumption
<1> HIDE DEF today
<1>3. /\ Due(j, today) \in Nat
      /\ today * Day <= Due(j, today)
      /\ Due(j, today) < today * Day + Day
      /\ Due(j, today + 1) = Due(j, today) + Day
  BY <1>1, DueInDay
<1>4. \A d \in Nat : d > today => Due(j, d) >= Due(j, today) + Day
  BY <1>1, DueInOrder
<1>5. \A d \in Nat : d < today => Due(j, d) + Day <= Due(j, today)
  BY <1>1, DueInOrder
<1>6. \A d \in Nat : Due(j, d) \in Nat
  BY DueInDay
<1>7. today * Day \in Nat
  BY <1>1, <1>2
<1>8. \A d \in Nat : d < today \/ d = today \/ d > today
  BY <1>1
<1>9. NextRun(j) = IF Due(j, today) > wall THEN Due(j, today) ELSE Due(j, today) + Day
  BY DEF NextRun, today
<1>10. CASE Due(j, today) > wall
  <2>1. NextRun(j) = Due(j, today)
    BY <1>9, <1>10
  <2>2. ASSUME NEW d \in Nat, Due(j, d) > wall PROVE Due(j, d) >= NextRun(j)
    BY <1>1, <1>2, <1>3, <1>4, <1>5, <1>6, <1>7, <1>8, <2>1, <2>2
  <2> QED
    BY <1>1, <1>2, <1>3, <1>7, <1>10, <2>1, <2>2 DEF today
<1>11. CASE ~ (Due(j, today) > wall)
  <2>1. NextRun(j) = Due(j, today) + Day
    BY <1>9, <1>11
  <2>2. ASSUME NEW d \in Nat, Due(j, d) > wall PROVE Due(j, d) >= NextRun(j)
    BY <1>1, <1>2, <1>3, <1>4, <1>5, <1>6, <1>7, <1>8, <1>11, <2>1, <2>2
  <2> QED
    BY <1>1, <1>2, <1>3, <1>7, <1>11, <2>1, <2>2 DEF today
<1> QED
  BY <1>10, <1>11

\* The runs of day d that job j may still make with no other setting of the clock: one
\* if its hour is to come, and the one a disturbed sleep ends in.
Owed(j, d) ==
  IF job[j] # "sleep" THEN IF Due(j, d) > wall THEN 1 ELSE 0
  ELSE IF j \notin moved THEN IF Due(j, d) >= wall + timer[j] THEN 1 ELSE 0
  ELSE IF d = DayOf(wall + timer[j])
       THEN IF Due(j, d) > wall + timer[j] THEN 2 ELSE 1
       ELSE IF Due(j, d) > wall THEN 1 ELSE 0

PaidAndOwed == \A j \in Jobs, d \in Days : runs[j][d] + Owed(j, d) <= 1 + 2 * sets

DailyInv == DailyTypeOK /\ WakesAtItsHour /\ PaidAndOwed

\* The days of a behaviour, its last instant included.
LEMMA DaysOfBehaviour ==
  /\ Day \in Nat \ {0} /\ MaxTime \in Nat
  /\ DayOf(MaxTime) \in Nat /\ Days \subseteq Nat
  /\ \A t \in 0..MaxTime : t \in Nat /\ DayOf(t) \in Days
<1>1. Day \in Nat \ {0} /\ MaxTime \in Nat
  BY DailyAssumption
<1>2. DayOf(MaxTime) \in Nat
  BY <1>1, DayHolds
<1>3. ASSUME NEW t \in 0..MaxTime PROVE t \in Nat /\ DayOf(t) \in Days
  <2>1. t \in Nat /\ t <= MaxTime
    BY <1>1
  <2>2. DayOf(t) \in Nat /\ DayOf(t) <= DayOf(MaxTime)
    BY <1>1, <2>1, DayHolds, DaysInOrder
  <2> QED
    BY <1>2, <2>1, <2>2 DEF Days
<1> QED
  BY <1>1, <1>2, <1>3 DEF Days

\* What is owed for a day is a number up to two.
LEMMA OwedIsSmall ==
  ASSUME NEW j \in Jobs, NEW d \in Days
  PROVE  Owed(j, d) \in 0..2
  BY DEF Owed

\* At the start no job has run, and each owes a run to each day whose hour is to come.
LEMMA DailyInitInv == DailyInit => DailyInv
<1> SUFFICES ASSUME DailyInit PROVE DailyInv
  OBVIOUS
<1> USE DEF DailyInit
<1>1. DailyTypeOK
  <2>1. wall \in 0..MaxTime
    BY DailyAssumption
  <2> QED
    BY <2>1, DailyAssumption DEF DailyTypeOK
<1>2. WakesAtItsHour
  BY DEF WakesAtItsHour
<1>3. ASSUME NEW j \in Jobs, NEW d \in Days PROVE runs[j][d] + Owed(j, d) <= 1 + 2 * sets
  BY DEF Owed
<1> QED
  BY <1>1, <1>2, <1>3 DEF DailyInv, PaidAndOwed

\* The sleep that starts ends at the first hour to come, and nothing more is owed.
LEMMA LoopKeeps == ASSUME DailyInv, NEW k \in Jobs, Loop(k) PROVE DailyInv'
<1> USE DEF DailyInv
<1>0. DailyTypeOK /\ WakesAtItsHour /\ PaidAndOwed
  OBVIOUS
<1>1. wall \in Nat /\ wall \in 0..MaxTime
  BY DaysOfBehaviour DEF DailyTypeOK
<1>2. /\ NextRun(k) \in {Due(k, DayOf(wall)), Due(k, DayOf(wall) + 1)}
      /\ NextRun(k) \in Nat
      /\ wall < NextRun(k) /\ NextRun(k) <= wall + Day
      /\ \A d \in Nat : Due(k, d) > wall => Due(k, d) >= NextRun(k)
  BY <1>1, NextRunIsNext
<1>3. NextRun(k) - wall \in 0..Day /\ wall + (NextRun(k) - wall) = NextRun(k)
  BY <1>1, <1>2, DaysOfBehaviour
<1>4. /\ timer' = [timer EXCEPT ![k] = NextRun(k) - wall]
      /\ job' = [job EXCEPT ![k] = "sleep"]
      /\ moved' = moved \ {k}
      /\ wall' = wall /\ sets' = sets /\ stops' = stops /\ runs' = runs
      /\ job[k] = "loop"
  BY DEF Loop
<1>5. DailyTypeOK'
  BY <1>0, <1>3, <1>4 DEF DailyTypeOK
<1>6. job \in [Jobs -> {"loop", "sleep", "run", "off"}] /\ timer \in [Jobs -> 0..Day]
  BY DEF DailyTypeOK
<1>7. /\ job'[k] = "sleep" /\ timer'[k] = NextRun(k) - wall /\ k \notin moved'
      /\ \A j \in Jobs \ {k} : /\ job'[j] = job[j] /\ timer'[j] = timer[j]
                               /\ j \in moved' <=> j \in moved
  BY <1>4, <1>6
<1>8. \A j \in Jobs, d \in Nat : Due(j, d)' = Due(j, d) /\ Due(j, d) \in Nat
  BY DueInDay DEF Due, HostJitter
<1>9. Days \subseteq Nat /\ DayOf(MaxTime) \in Nat /\ DayOf(wall) \in Days
  BY <1>1, DaysOfBehaviour
<1>10. WakesAtItsHour'
  <2>1. SUFFICES ASSUME NEW j \in Jobs, job'[j] = "sleep", j \notin moved'
        PROVE  /\ \E d \in 0..(DayOf(MaxTime) + 1) : wall + timer'[j] = Due(j, d)
               /\ \A d \in 0..(DayOf(MaxTime) + 1) :
                    Due(j, d) > wall => Due(j, d) >= wall + timer'[j]
    BY <1>4 DEF WakesAtItsHour, Due, HostJitter, DayOf
  <2>2. CASE j = k
    <3>1. DayOf(wall) \in 0..(DayOf(MaxTime) + 1) /\ DayOf(wall) + 1 \in 0..(DayOf(MaxTime) + 1)
      BY <1>9 DEF Days
    <3> QED
      BY <1>2, <1>3, <1>7, <1>9, <2>2, <3>1
  <2>3. CASE j # k
    BY <1>0, <1>7, <2>1, <2>3 DEF WakesAtItsHour
  <2> QED
    BY <2>2, <2>3
<1>11. PaidAndOwed'
  <2>1. SUFFICES ASSUME NEW j \in Jobs, NEW d \in Days
        PROVE  runs[j][d] + Owed(j, d)' <= 1 + 2 * sets
    BY <1>4 DEF PaidAndOwed, Days, DayOf
  <2>2. runs[j][d] + Owed(j, d) <= 1 + 2 * sets /\ runs[j][d] \in Nat /\ sets \in Nat
    BY <1>0, DailyAssumption DEF PaidAndOwed, DailyTypeOK
  <2>3. Owed(j, d)' <= Owed(j, d)
    <3>1. CASE j = k
      <4>1. Owed(j, d)' = IF Due(j, d) >= NextRun(k) THEN 1 ELSE 0
        BY <1>3, <1>4, <1>7, <3>1 DEF Owed, Due, HostJitter
      <4>2. Owed(j, d) = IF Due(j, d) > wall THEN 1 ELSE 0
        BY <1>4, <3>1 DEF Owed
      <4>3. Due(j, d) >= NextRun(k) => Due(j, d) > wall
        BY <1>1, <1>2, <1>8, <1>9
      <4> QED
        BY <4>1, <4>2, <4>3
    <3>2. CASE j # k
      <4>1. Owed(j, d)' = Owed(j, d)
        BY <1>4, <1>7, <3>2 DEF Owed, Due, HostJitter, DayOf
      <4> QED
        BY <4>1, OwedIsSmall
    <3> QED
      BY <3>1, <3>2
  <2> HIDE DEF DailyInv
  <2>4. Owed(j, d) \in 0..2
    BY OwedIsSmall
  <2>5. Owed(j, d)' \in 0..2
    BY DEF Owed
  <2> QED
    BY <2>2, <2>3, <2>4, <2>5
<1> QED
  BY <1>5, <1>10, <1>11

\* The days and hours are the same before and after a step.
LEMMA HoursStay ==
  /\ \A j \in Jobs, d \in Nat : Due(j, d)' = Due(j, d) /\ Due(j, d) \in Nat
  /\ DayOf(MaxTime)' = DayOf(MaxTime) /\ Days' = Days
  BY DueInDay DEF Due, HostJitter, DayOf, Days

\* A step that changes a job whose sleep, if it sleeps, is the same keeps what the sleep
\* promises, and the rest keeps it for the jobs it leaves alone.
LEMMA OthersSleepOn ==
  ASSUME WakesAtItsHour, wall' = wall,
         \A j \in Jobs : (job'[j] = "sleep" /\ j \notin moved') =>
           job[j] = "sleep" /\ j \notin moved /\ timer'[j] = timer[j]
  PROVE  WakesAtItsHour'
  BY DEF WakesAtItsHour, Due, HostJitter, DayOf

\* The run that starts is one that was owed to the day it starts on.
LEMMA FireKeeps == ASSUME DailyInv, NEW k \in Jobs, Fire(k) PROVE DailyInv'
<1>0. DailyTypeOK /\ WakesAtItsHour /\ PaidAndOwed
  BY DEF DailyInv
<1> DEFINE today == DayOf(wall)
<1>1. wall \in Nat /\ today \in Days /\ today \in Nat
  BY <1>0, DaysOfBehaviour DEF DailyTypeOK
<1>2. /\ job[k] = "sleep" /\ timer[k] = 0
      /\ job' = [job EXCEPT ![k] = "run"]
      /\ runs' = [runs EXCEPT ![k][today] = @ + 1]
      /\ wall' = wall /\ timer' = timer /\ sets' = sets /\ stops' = stops /\ moved' = moved
  BY DEF Fire
<1>3. /\ job \in [Jobs -> {"loop", "sleep", "run", "off"}]
      /\ runs \in [Jobs -> [Days -> Nat]] /\ sets \in Nat
  BY <1>0, DailyAssumption DEF DailyTypeOK
<1> HIDE DEF today
<1>4. /\ job'[k] = "run" /\ runs'[k][today] = runs[k][today] + 1
      /\ \A j \in Jobs \ {k} : job'[j] = job[j]
      /\ \A j \in Jobs, d \in Days : ~ (j = k /\ d = today) => runs'[j][d] = runs[j][d]
      /\ runs' \in [Jobs -> [Days -> Nat]]
  BY <1>1, <1>2, <1>3
<1>5. DailyTypeOK'
  BY <1>0, <1>2, <1>4, HoursStay DEF DailyTypeOK
<1>6. WakesAtItsHour'
  BY <1>0, <1>2, <1>4, OthersSleepOn
<1>7. PaidAndOwed'
  <2>1. SUFFICES ASSUME NEW j \in Jobs, NEW d \in Days
        PROVE  runs'[j][d] + Owed(j, d)' <= 1 + 2 * sets
    BY <1>2, HoursStay DEF PaidAndOwed
  <2>2. runs[j][d] + Owed(j, d) <= 1 + 2 * sets /\ runs[j][d] \in Nat
    BY <1>0, <1>3 DEF PaidAndOwed
  <2>3. Owed(j, d) \in 0..2
    BY OwedIsSmall
  <2>4. d \in Nat /\ Due(j, d)' = Due(j, d) /\ Due(j, d) \in Nat
    BY DaysOfBehaviour, HoursStay
  <2>5. CASE j # k
    <3>1. Owed(j, d)' = Owed(j, d)
      BY <1>2, <1>4, <2>4, <2>5 DEF Owed, DayOf
    <3> QED
      BY <1>4, <2>2, <2>3, <2>5, <3>1
  <2>6. CASE j = k
    <3>1. Owed(j, d)' = IF Due(j, d) > wall THEN 1 ELSE 0
      BY <1>2, <1>4, <2>4, <2>6 DEF Owed
    <3>2. CASE k \notin moved
      <4>1. Owed(j, d) = IF Due(j, d) >= wall THEN 1 ELSE 0
        BY <1>1, <1>2, <2>6, <3>2 DEF Owed
      <4>2. PICK e \in 0..(DayOf(MaxTime) + 1) : wall = Due(k, e)
        BY <1>0, <1>1, <1>2, <3>2 DEF WakesAtItsHour
      <4>3. e \in Nat /\ e = today
        BY <4>2, DaysOfBehaviour, DayOfDue DEF today
      <4>4. d = today => Due(j, d) = wall
        BY <2>6, <4>2, <4>3
      <4> QED
        BY <1>1, <1>4, <2>2, <2>4, <2>6, <3>1, <4>1, <4>4, <1>3
    <3>3. CASE k \in moved
      <4>1. Owed(j, d) = IF d = today THEN IF Due(j, d) > wall THEN 2 ELSE 1
                         ELSE IF Due(j, d) > wall THEN 1 ELSE 0
        BY <1>1, <1>2, <2>6, <3>3 DEF Owed, today
      <4> QED
        BY <1>1, <1>3, <1>4, <2>2, <2>4, <2>6, <3>1, <4>1
    <3> QED
      BY <3>2, <3>3
  <2> QED
    BY <2>5, <2>6
<1> QED
  BY <1>5, <1>6, <1>7 DEF DailyInv

\* A job that is done owes what it owed while it ran.
LEMMA FinishKeeps == ASSUME DailyInv, NEW k \in Jobs, Finish(k) PROVE DailyInv'
<1>0. DailyTypeOK /\ WakesAtItsHour /\ PaidAndOwed
  BY DEF DailyInv
<1>1. /\ job[k] = "run" /\ job' = [job EXCEPT ![k] = "loop"]
      /\ wall' = wall /\ timer' = timer /\ sets' = sets /\ stops' = stops
      /\ moved' = moved /\ runs' = runs
  BY DEF Finish
<1>2. job \in [Jobs -> {"loop", "sleep", "run", "off"}]
  BY <1>0 DEF DailyTypeOK
<1>3. job'[k] = "loop" /\ \A j \in Jobs \ {k} : job'[j] = job[j]
  BY <1>1, <1>2
<1>4. DailyTypeOK'
  BY <1>0, <1>1, HoursStay DEF DailyTypeOK
<1>5. WakesAtItsHour'
  BY <1>0, <1>1, <1>3, OthersSleepOn
<1>6. ASSUME NEW j \in Jobs, NEW d \in Days PROVE Owed(j, d)' = Owed(j, d)
  <2>1. d \in Nat /\ Due(j, d)' = Due(j, d)
    BY DaysOfBehaviour, HoursStay
  <2> QED
    BY <1>1, <1>3, <2>1 DEF Owed, DayOf
<1>7. PaidAndOwed'
  BY <1>0, <1>1, <1>6, HoursStay DEF PaidAndOwed
<1> QED
  BY <1>4, <1>5, <1>7 DEF DailyInv

\* A sleep ends when it was to end however much of it has passed.
LEMMA PassKeeps == ASSUME DailyInv, Pass PROVE DailyInv'
<1>0. DailyTypeOK /\ WakesAtItsHour /\ PaidAndOwed
  BY DEF DailyInv
<1>1. /\ wall \in Nat /\ wall < MaxTime /\ MaxTime \in Nat /\ Day \in Nat
      /\ timer \in [Jobs -> 0..Day] /\ sets \in Nat
      /\ runs \in [Jobs -> [Days -> Nat]]
  BY <1>0, DaysOfBehaviour, DailyAssumption DEF DailyTypeOK, Pass
<1>2. /\ wall' = wall + 1
      /\ timer' = [j \in Jobs |-> IF job[j] = "sleep" THEN timer[j] - 1 ELSE timer[j]]
      /\ \A j \in Jobs : job[j] = "sleep" => timer[j] > 0
      /\ job' = job /\ sets' = sets /\ stops' = stops /\ moved' = moved /\ runs' = runs
  BY DEF Pass
<1>3. ASSUME NEW j \in Jobs
      PROVE  /\ timer'[j] \in 0..Day
             /\ job[j] = "sleep" => wall' + timer'[j] = wall + timer[j]
  <2>1. timer[j] \in 0..Day
    BY <1>1
  <2> QED
    BY <1>1, <1>2, <2>1
<1>4. DailyTypeOK'
  <2>1. wall' \in 0..MaxTime
    BY <1>1, <1>2
  <2>2. timer' \in [Jobs -> 0..Day]
    BY <1>2, <1>3
  <2> QED
    BY <1>0, <1>2, <2>1, <2>2, HoursStay DEF DailyTypeOK
<1>5. WakesAtItsHour'
  <2>1. SUFFICES ASSUME NEW j \in Jobs, job[j] = "sleep", j \notin moved
        PROVE  /\ \E d \in 0..(DayOf(MaxTime) + 1) : wall + timer[j] = Due(j, d)
               /\ \A d \in 0..(DayOf(MaxTime) + 1) :
                    Due(j, d) > wall + 1 => Due(j, d) >= wall + timer[j]
    BY <1>2, <1>3 DEF WakesAtItsHour, Due, HostJitter, DayOf
  <2>2. \A d \in 0..(DayOf(MaxTime) + 1) : Due(j, d) \in Nat
    BY DaysOfBehaviour, DueInDay
  <2> QED
    BY <1>0, <1>1, <2>1, <2>2 DEF WakesAtItsHour
<1>6. ASSUME NEW j \in Jobs, NEW d \in Days PROVE Owed(j, d)' <= Owed(j, d)
  <2>1. Due(j, d)' = Due(j, d) /\ Due(j, d) \in Nat
    BY DaysOfBehaviour, HoursStay
  <2>2. CASE job[j] # "sleep"
    BY <1>1, <1>2, <2>1, <2>2 DEF Owed
  <2>3. CASE job[j] = "sleep" /\ j \notin moved
    <3>1. wall' + timer'[j] = wall + timer[j]
      BY <1>3, <2>3
    <3>2. Owed(j, d)' = IF Due(j, d) >= wall + timer[j] THEN 1 ELSE 0
      BY <1>2, <2>1, <2>3, <3>1 DEF Owed
    <3> QED
      BY <2>3, <3>2 DEF Owed
  <2>4. CASE job[j] = "sleep" /\ j \in moved
    <3>1. wall' + timer'[j] = wall + timer[j]
      BY <1>3, <2>4
    <3>2. Owed(j, d)' = IF d = DayOf(wall + timer[j])
                        THEN IF Due(j, d) > wall + timer[j] THEN 2 ELSE 1
                        ELSE IF Due(j, d) > wall + 1 THEN 1 ELSE 0
      BY <1>2, <2>1, <2>4, <3>1 DEF Owed, DayOf
    <3>3. Owed(j, d) = IF d = DayOf(wall + timer[j])
                       THEN IF Due(j, d) > wall + timer[j] THEN 2 ELSE 1
                       ELSE IF Due(j, d) > wall THEN 1 ELSE 0
      BY <2>4 DEF Owed
    <3> QED
      BY <1>1, <2>1, <3>2, <3>3
  <2> QED
    BY <2>2, <2>3, <2>4
<1>7. PaidAndOwed'
  <2>1. SUFFICES ASSUME NEW j \in Jobs, NEW d \in Days
        PROVE  runs[j][d] + Owed(j, d)' <= 1 + 2 * sets
    BY <1>2, HoursStay DEF PaidAndOwed
  <2>2. runs[j][d] + Owed(j, d) <= 1 + 2 * sets /\ runs[j][d] \in Nat
    BY <1>0, <1>1 DEF PaidAndOwed
  <2>3. Owed(j, d) \in 0..2 /\ Owed(j, d)' \in 0..2
    <3>1. Owed(j, d)' \in 0..2
      BY DEF Owed
    <3> QED
      BY <3>1, OwedIsSmall
  <2> QED
    BY <1>1, <1>6, <2>2, <2>3
<1> QED
  BY <1>4, <1>5, <1>7 DEF DailyInv

\* The setting of the clock pays for the two runs it may cost, and marks the sleeps it
\* disturbs.
LEMMA SetClockKeeps == ASSUME DailyInv, SetClock PROVE DailyInv'
<1>0. DailyTypeOK /\ WakesAtItsHour /\ PaidAndOwed
  BY DEF DailyInv
<1>1. /\ sets < MaxSets /\ sets' = sets + 1 /\ wall' \in 0..MaxTime
      /\ moved' = moved \cup {j \in Jobs : job[j] = "sleep"}
      /\ job' = job /\ timer' = timer /\ stops' = stops /\ runs' = runs
  BY DEF SetClock
<1>2. sets \in 0..MaxSets /\ MaxSets \in Nat /\ runs \in [Jobs -> [Days -> Nat]]
  BY <1>0, DailyAssumption DEF DailyTypeOK
<1>3. DailyTypeOK'
  <2>1. sets' \in 0..MaxSets /\ moved' \subseteq Jobs
    BY <1>0, <1>1, <1>2 DEF DailyTypeOK
  <2> QED
    BY <1>0, <1>1, <2>1, HoursStay DEF DailyTypeOK
<1>4. WakesAtItsHour'
  <2>1. \A j \in Jobs : job'[j] = "sleep" => j \in moved'
    BY <1>1
  <2> QED
    BY <2>1 DEF WakesAtItsHour
<1>5. PaidAndOwed'
  <2>1. SUFFICES ASSUME NEW j \in Jobs, NEW d \in Days
        PROVE  runs[j][d] + Owed(j, d)' <= 1 + 2 * (sets + 1)
    BY <1>1, HoursStay DEF PaidAndOwed
  <2>2. runs[j][d] + Owed(j, d) <= 1 + 2 * sets /\ runs[j][d] \in Nat
    BY <1>0, <1>2 DEF PaidAndOwed
  <2>3. Owed(j, d) \in 0..2
    BY OwedIsSmall
  <2>4. Owed(j, d)' \in 0..2
    BY DEF Owed
  <2> QED
    BY <1>2, <2>2, <2>3, <2>4
<1> QED
  BY <1>3, <1>4, <1>5 DEF DailyInv

\* A job that the stop interrupts owes no more than its sleep did: the hour it slept to
\* was the first to come.
LEMMA StopKeeps == ASSUME DailyInv, Stop PROVE DailyInv'
<1>0. DailyTypeOK /\ WakesAtItsHour /\ PaidAndOwed
  BY DEF DailyInv
<1>1. /\ stops < MaxStops /\ stops' = stops + 1
      /\ job' = [j \in Jobs |-> "off"] /\ timer' = [j \in Jobs |-> 0]
      /\ wall' = wall /\ sets' = sets /\ moved' = moved /\ runs' = runs
  BY DEF Stop
<1>2. /\ stops \in 0..MaxStops /\ MaxStops \in Nat /\ wall \in Nat /\ sets \in Nat
      /\ timer \in [Jobs -> 0..Day] /\ Day \in Nat /\ runs \in [Jobs -> [Days -> Nat]]
  BY <1>0, DailyAssumption, DaysOfBehaviour DEF DailyTypeOK
<1>3. DailyTypeOK'
  <2>1. stops' \in 0..MaxStops
    BY <1>1, <1>2
  <2>2. job' \in [Jobs -> {"loop", "sleep", "run", "off"}] /\ timer' \in [Jobs -> 0..Day]
    BY <1>1, <1>2
  <2> QED
    BY <1>0, <1>1, <2>1, <2>2, HoursStay DEF DailyTypeOK
<1>4. WakesAtItsHour'
  <2>1. \A j \in Jobs : job'[j] # "sleep"
    BY <1>1
  <2> QED
    BY <2>1 DEF WakesAtItsHour
<1>5. ASSUME NEW j \in Jobs, NEW d \in Days PROVE Owed(j, d)' <= Owed(j, d)
  <2>1. d \in Nat /\ Due(j, d)' = Due(j, d) /\ Due(j, d) \in Nat
    BY DaysOfBehaviour, HoursStay
  <2>2. Owed(j, d)' = IF Due(j, d) > wall THEN 1 ELSE 0
    BY <1>1, <2>1 DEF Owed
  <2>3. CASE job[j] # "sleep"
    BY <2>2, <2>3 DEF Owed
  <2>4. CASE job[j] = "sleep" /\ j \notin moved
    <3>1. Owed(j, d) = IF Due(j, d) >= wall + timer[j] THEN 1 ELSE 0
      BY <2>4 DEF Owed
    <3>2. d \in 0..(DayOf(MaxTime) + 1)
      BY <2>1, DaysOfBehaviour DEF Days
    <3>3. Due(j, d) > wall => Due(j, d) >= wall + timer[j]
      BY <1>0, <2>4, <3>2 DEF WakesAtItsHour
    <3> QED
      BY <2>2, <3>1, <3>3
  <2>5. CASE job[j] = "sleep" /\ j \in moved
    <3>1. Owed(j, d) = IF d = DayOf(wall + timer[j])
                       THEN IF Due(j, d) > wall + timer[j] THEN 2 ELSE 1
                       ELSE IF Due(j, d) > wall THEN 1 ELSE 0
      BY <2>5 DEF Owed
    <3> QED
      BY <2>2, <3>1
  <2> QED
    BY <2>3, <2>4, <2>5
<1>6. PaidAndOwed'
  <2>1. SUFFICES ASSUME NEW j \in Jobs, NEW d \in Days
        PROVE  runs[j][d] + Owed(j, d)' <= 1 + 2 * sets
    BY <1>1, HoursStay DEF PaidAndOwed
  <2>2. runs[j][d] + Owed(j, d) <= 1 + 2 * sets /\ runs[j][d] \in Nat
    BY <1>0, <1>2 DEF PaidAndOwed
  <2>3. Owed(j, d) \in 0..2 /\ Owed(j, d)' \in 0..2
    <3>1. Owed(j, d)' \in 0..2
      BY DEF Owed
    <3> QED
      BY <3>1, OwedIsSmall
  <2> QED
    BY <1>2, <1>5, <2>2, <2>3
<1> QED
  BY <1>3, <1>4, <1>6 DEF DailyInv

\* A job that starts owes what it owed while it was off.
LEMMA StartKeeps == ASSUME DailyInv, Start PROVE DailyInv'
<1>0. DailyTypeOK /\ WakesAtItsHour /\ PaidAndOwed
  BY DEF DailyInv
<1>1. /\ \A j \in Jobs : job[j] = "off"
      /\ job' = [j \in Jobs |-> "loop"]
      /\ wall' = wall /\ timer' = timer /\ sets' = sets /\ stops' = stops
      /\ moved' = moved /\ runs' = runs
  BY DEF Start
<1>2. DailyTypeOK'
  BY <1>0, <1>1, HoursStay DEF DailyTypeOK
<1>3. WakesAtItsHour'
  BY <1>0, <1>1, OthersSleepOn
<1>4. ASSUME NEW j \in Jobs, NEW d \in Days PROVE Owed(j, d)' = Owed(j, d)
  <2>1. d \in Nat /\ Due(j, d)' = Due(j, d)
    BY DaysOfBehaviour, HoursStay
  <2> QED
    BY <1>1, <2>1 DEF Owed
<1>5. PaidAndOwed'
  BY <1>0, <1>1, <1>4, HoursStay DEF PaidAndOwed
<1> QED
  BY <1>2, <1>3, <1>5 DEF DailyInv

\* The invariant of the daily jobs, for every step of the scheduler, the clock and the
\* agent: what has run and what is owed is paid for.
THEOREM DailyInvariant == DailySpec => []DailyInv
<1>1. DailyInit => DailyInv
  BY DailyInitInv
<1>2. DailyInv /\ [DailyNext]_dailyVars => DailyInv'
  <2> SUFFICES ASSUME DailyInv, [DailyNext]_dailyVars PROVE DailyInv'
    OBVIOUS
  <2>1. ASSUME NEW j \in Jobs, Loop(j) PROVE DailyInv'
    BY <2>1, LoopKeeps
  <2>2. ASSUME NEW j \in Jobs, Fire(j) PROVE DailyInv'
    BY <2>2, FireKeeps
  <2>3. ASSUME NEW j \in Jobs, Finish(j) PROVE DailyInv'
    BY <2>3, FinishKeeps
  <2>4. CASE Pass
    BY <2>4, PassKeeps
  <2>5. CASE SetClock
    BY <2>5, SetClockKeeps
  <2>6. CASE Stop
    BY <2>6, StopKeeps
  <2>7. CASE Start
    BY <2>7, StartKeeps
  <2>8. CASE UNCHANGED dailyVars
    BY <2>8 DEF dailyVars, DailyInv, DailyTypeOK, WakesAtItsHour, PaidAndOwed, Owed, Due,
                HostJitter, DayOf, Days
  <2> QED
    BY <2>1, <2>2, <2>3, <2>4, <2>5, <2>6, <2>7, <2>8 DEF DailyNext
<1> QED
  BY <1>1, <1>2, PTL DEF DailySpec

\* A timer is never set for longer than a day, and never for the past.
THEOREM DailyTypes == DailySpec => []DailyTypeOK
<1>1. DailyInv => DailyTypeOK
  BY DEF DailyInv
<1> QED
  BY <1>1, DailyInvariant, PTL

\* A sleep the clock left alone ends at the first hour to come (scheduler.go:18).
THEOREM SleepsToItsHour == DailySpec => []WakesAtItsHour
<1>1. DailyInv => WakesAtItsHour
  BY DEF DailyInv
<1> QED
  BY <1>1, DailyInvariant, PTL

\* A job runs once a day, and twice more for each time the clock is set (scheduler.go:19),
\* over every pattern of stops, starts and runs that outlast the day.
THEOREM RunsOnceADay == DailySpec => []OnceADay
<1>1. DailyInv => OnceADay
  <2> SUFFICES ASSUME DailyInv, NEW j \in Jobs, NEW d \in Days
        PROVE  runs[j][d] <= 1 + 2 * sets
    BY DEF OnceADay
  <2>1. runs[j][d] + Owed(j, d) <= 1 + 2 * sets
    BY DEF DailyInv, PaidAndOwed
  <2>2. Owed(j, d) \in 0..2 /\ runs[j][d] \in Nat /\ sets \in Nat
    BY OwedIsSmall, DailyAssumption DEF DailyInv, DailyTypeOK
  <2> QED
    BY <2>1, <2>2
<1> QED
  BY <1>1, DailyInvariant, PTL
=============================================================================
