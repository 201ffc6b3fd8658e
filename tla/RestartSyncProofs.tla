-------------------------- MODULE RestartSyncProofs --------------------------
(***************************************************************************)
(* That restartSyncInFlight guards what it is meant to guard: it is set    *)
(* exactly while the one sync that the watchdog launched runs, for any     *)
(* number of syncs and users and whatever fails.  The invariant is         *)
(* inductive as it stands; what it rests on is that only LaunchSync makes  *)
(* a sync the watchdog's, and that a sync keeps its launcher to its end.   *)
(* And that no failure makes a sync forget the users it is to bring back.  *)
(***************************************************************************)
EXTENDS RestartSync, TLAPS

\* The state of one syncAfterRestart goroutine.
Goroutine ==
  [pc : {"off", "fetch", "wait", "refresh", "ready", "inject", "temp", "done"},
   by : {"none", "watchdog", "update"}, attempt : 0..(RefreshEvery - 1),
   got : BOOLEAN, list : SUBSET Users, todo : SUBSET (Users \cup Temp),
   open : BOOLEAN]

IInv == TypeOK /\ FlagGuardsWatchdogSync

-----------------------------------------------------------------------------
\* A count taken modulo RefreshEvery stays below it.
LEMMA CountBelow ==
  ASSUME NEW n \in Nat
  PROVE  n % RefreshEvery \in 0..(RefreshEvery - 1)
  BY SyncAssumption

\* A goroutine that is off is well-typed.
LEMMA OffIsGoroutine == Off \in Goroutine
<1>1. 0 \in 0..(RefreshEvery - 1)
  BY SyncAssumption
<1> QED
  BY <1>1 DEF Off, Goroutine

\* A goroutine that is launched was off, and is now its launcher's.
LEMMA Launched ==
  ASSUME TypeOK, NEW by \in {"watchdog", "update"}, Launch(by)
  PROVE  /\ worker' \in [Workers -> Goroutine]
         /\ \E w \in Workers : /\ At(w, "off")
                               /\ worker'[w].pc = "fetch" /\ worker'[w].by = by
                               /\ \A v \in Workers \ {w} : worker'[v] = worker[v]
<1> DEFINE w == CHOOSE w \in Workers : At(w, "off")
<1>1. w \in Workers /\ At(w, "off")
  BY DEF Launch
<1>2. worker' = [worker EXCEPT ![w] = [Off EXCEPT !.pc = "fetch", !.by = by]]
  BY DEF Launch
<1>3. [Off EXCEPT !.pc = "fetch", !.by = by] \in Goroutine
  BY OffIsGoroutine DEF Off, Goroutine
<1> HIDE DEF w
<1>4. worker \in [Workers -> Goroutine]
  BY DEF TypeOK, Goroutine
<1>5. worker' \in [Workers -> Goroutine]
  BY <1>1, <1>2, <1>3, <1>4
<1>6. worker'[w] = [Off EXCEPT !.pc = "fetch", !.by = by]
  BY <1>1, <1>2, <1>4
<1>7. worker'[w].pc = "fetch" /\ worker'[w].by = by
  BY <1>6 DEF Off
<1>8. \A v \in Workers \ {w} : worker'[v] = worker[v]
  BY <1>1, <1>2, <1>4
<1> QED
  BY <1>1, <1>5, <1>7, <1>8

\* As long as the watchdog's syncs are the same and the flag is too, the flag
\* guards them.
LEMMA SameSyncs ==
  ASSUME FlagGuardsWatchdogSync, inFlight' = inFlight,
         Running("watchdog")' = Running("watchdog")
  PROVE  FlagGuardsWatchdogSync'
  BY DEF FlagGuardsWatchdogSync

-----------------------------------------------------------------------------
\* A sync that takes a step short of its end stays well-typed and stays with
\* the launcher it had.
LEMMA SyncStep ==
  ASSUME TypeOK, NEW w \in Workers, Sync(w), ~ Finish(w)
  PROVE  /\ TypeOK'
         /\ inFlight' = inFlight
         /\ Running("watchdog")' = Running("watchdog")
<1> DEFINE Stays == /\ worker' \in [Workers -> Goroutine]
                    /\ worker[w].pc # "off" /\ worker'[w].pc # "off"
                    /\ worker'[w].by = worker[w].by
                    /\ \A v \in Workers \ {w} : worker'[v] = worker[v]
<1>0. worker \in [Workers -> Goroutine]
  BY DEF TypeOK, Goroutine
<1>a. ASSUME Stays, inFlight' = inFlight
      PROVE  Running("watchdog")' = Running("watchdog")
  <2>1. \A v \in Workers : (worker'[v].pc = "off") = (worker[v].pc = "off")
    BY <1>a
  <2>2. \A v \in Workers : worker'[v].by = worker[v].by
    BY <1>a
  <2> QED
    BY <2>1, <2>2 DEF Running, At
<1>b. ASSUME worker' \in [Workers -> Goroutine],
             live' \in SUBSET (Users \cup Temp), pending' \in BOOLEAN, faults' \in Nat,
             UNCHANGED <<up, backendVars, wd, inFlight, updates>>
      PROVE  TypeOK'
  BY <1>b DEF TypeOK, Goroutine, backendVars
<1>f. Fault => faults' \in Nat
  BY DEF Fault, TypeOK
<1>g. Fetched \subseteq BOOLEAN
  BY DEF Fetched
<1>h. ASSUME NEW pc \in {"wait", "ready", "done"}, Goto(w, pc), worker[w].pc # "off"
      PROVE  Stays
  BY <1>h, <1>0 DEF Goto, Goroutine
<1>s. ASSUME NEW rec \in Goroutine, worker' = [worker EXCEPT ![w] = rec],
             rec.by = worker[w].by, rec.pc # "off", worker[w].pc # "off"
      PROVE  Stays
  BY <1>s, <1>0
<1>1. CASE Fetch(w)
  <2>1. PICK got \in BOOLEAN :
          worker' = [worker EXCEPT ![w].pc = "wait", ![w].got = got, ![w].list = registered]
    BY <1>1, <1>g DEF Fetch
  <2> DEFINE rec == [worker[w] EXCEPT !.pc = "wait", !.got = got, !.list = registered]
  <2>2. Stays
    <3>1. rec \in Goroutine /\ rec.by = worker[w].by /\ rec.pc # "off"
      BY <1>0 DEF Goroutine, TypeOK
    <3>2. worker' = [worker EXCEPT ![w] = rec]
      BY <2>1, <1>0
    <3> QED
      BY <3>1, <3>2, <1>1, <1>s DEF Fetch, At
  <2> QED
    BY <2>2, <1>1, <1>a, <1>b DEF Fetch, TypeOK, xrayVars
<1>2. CASE FetchFails(w)
  <2>1. Stays
    BY <1>2, <1>h DEF FetchFails, At
  <2> QED
    BY <2>1, <1>2, <1>a, <1>b, <1>f DEF FetchFails, TypeOK, xrayVars
<1>3. CASE Attempt(w)
  <2>1. (worker[w].attempt + 1) % RefreshEvery \in 0..(RefreshEvery - 1)
    <3>1. worker[w].attempt + 1 \in Nat
      BY <1>0, SyncAssumption DEF Goroutine
    <3> QED
      BY <3>1, CountBelow
  <2>2. PICK n \in 0..(RefreshEvery - 1), pc \in {"refresh", "ready", "wait"} :
          worker' = [worker EXCEPT ![w].attempt = n, ![w].pc = pc]
    BY <2>1, <1>3 DEF Attempt
  <2>3. Stays
    <3> DEFINE rec == [worker[w] EXCEPT !.attempt = n, !.pc = pc]
    <3>1. rec \in Goroutine /\ rec.by = worker[w].by /\ rec.pc # "off"
      BY <1>0 DEF Goroutine
    <3>2. worker' = [worker EXCEPT ![w] = rec]
      BY <2>2, <1>0
    <3> QED
      BY <3>1, <3>2, <1>3, <1>s DEF Attempt, At
  <2> QED
    BY <2>3, <1>3, <1>a, <1>b DEF Attempt, TypeOK, xrayVars
<1>4. CASE Refresh(w)
  <2>1. PICK got \in BOOLEAN :
          worker' = [worker EXCEPT ![w].pc = IF got THEN "ready" ELSE "wait",
                                   ![w].got = got, ![w].list = registered]
    BY <1>4, <1>g DEF Refresh
  <2>2. Stays
    <3> DEFINE rec == [worker[w] EXCEPT !.pc = IF got THEN "ready" ELSE "wait",
                                        !.got = got, !.list = registered]
    <3>1. rec \in Goroutine /\ rec.by = worker[w].by /\ rec.pc # "off"
      BY <1>0 DEF Goroutine, TypeOK
    <3>2. worker' = [worker EXCEPT ![w] = rec]
      BY <2>1, <1>0
    <3> QED
      BY <3>1, <3>2, <1>4, <1>s DEF Refresh, At
  <2> QED
    BY <2>2, <1>4, <1>a, <1>b DEF Refresh, TypeOK, xrayVars
<1>5. CASE RefreshFails(w)
  <2>1. Stays
    BY <1>5, <1>h DEF RefreshFails, At
  <2> QED
    BY <2>1, <1>5, <1>a, <1>b, <1>f DEF RefreshFails, TypeOK, xrayVars
<1>6. CASE Ready(w)
  <2>1. Stays
    <3>1. CASE up
      <4> DEFINE rec == [worker[w] EXCEPT !.pc = "inject", !.open = TRUE,
                                          !.todo = worker[w].list]
      <4>1. rec \in Goroutine /\ rec.by = worker[w].by /\ rec.pc # "off"
        BY <1>0 DEF Goroutine
      <4>2. worker' = [worker EXCEPT ![w] = rec]
        BY <3>1, <1>6, <1>0 DEF Ready
      <4> QED
        BY <4>1, <4>2, <1>6, <1>s DEF Ready, At
    <3>2. CASE ~ up
      BY <3>2, <1>6, <1>h DEF Ready, At
    <3> QED
      BY <3>1, <3>2
  <2> QED
    BY <2>1, <1>6, <1>a, <1>b DEF Ready, TypeOK, xrayVars
<1>7. CASE InjectFails(w)
  <2>1. Stays
    BY <1>7, <1>0 DEF InjectFails, At, Goroutine
  <2>2. faults' \in Nat
    BY <1>7, <1>f DEF InjectFails, TypeOK
  <2> QED
    BY <2>1, <2>2, <1>7, <1>a, <1>b DEF InjectFails, TypeOK
<1>8. CASE Injected(w)
  <2>1. Stays
    <3> DEFINE rec == [worker[w] EXCEPT !.pc = "temp", !.todo = Temp]
    <3>1. rec \in Goroutine /\ rec.by = worker[w].by /\ rec.pc # "off"
      BY <1>0 DEF Goroutine
    <3>2. worker' = [worker EXCEPT ![w] = rec]
      BY <1>8, <1>0 DEF Injected
    <3> QED
      BY <3>1, <3>2, <1>8, <1>s DEF Injected, At
  <2> QED
    BY <2>1, <1>8, <1>a, <1>b DEF Injected, TypeOK, xrayVars
<1>9. CASE ReInjected(w)
  <2>1. Stays
    BY <1>9, <1>h DEF ReInjected, At
  <2> QED
    BY <2>1, <1>9, <1>a, <1>b DEF ReInjected, TypeOK, xrayVars
<1>10. ASSUME NEW u \in Users \cup Temp, Inject(w, u) PROVE Stays /\ TypeOK'
  <2>1. Stays
    BY <1>10, <1>0 DEF Inject, At, Goroutine
  <2> QED
    BY <2>1, <1>10, <1>b DEF Inject, TypeOK
<1>11. ASSUME NEW u \in Users \cup Temp, ReInject(w, u) PROVE Stays /\ TypeOK'
  <2>1. Stays
    BY <1>11, <1>0 DEF ReInject, At, Goroutine
  <2>2. faults' \in Nat /\ live' \in SUBSET (Users \cup Temp)
    BY <1>11, <1>f DEF ReInject, TypeOK
  <2> QED
    BY <2>1, <2>2, <1>11, <1>b DEF ReInject, TypeOK
<1>12. ASSUME NEW u \in Users \cup Temp, Inject(w, u) \/ ReInject(w, u)
       PROVE  TypeOK' /\ inFlight' = inFlight /\ Running("watchdog")' = Running("watchdog")
  <2>1. Stays /\ TypeOK'
    BY <1>10, <1>11, <1>12
  <2>2. inFlight' = inFlight
    BY <1>12 DEF Inject, ReInject
  <2> QED
    BY <2>1, <2>2, <1>a
<1> HIDE DEF Stays
<1> QED
  BY <1>1, <1>2, <1>3, <1>4, <1>5, <1>6, <1>7, <1>8, <1>9, <1>12 DEF Sync

-----------------------------------------------------------------------------
\* A step of the watchdog or of xray, and one of the backend, that launches no
\* sync leaves the syncs of the watchdog alone.
LEMMA OtherStep ==
  ASSUME TypeOK,
         \/ Healthy \/ Unhealthy \/ CloseClient \/ SystemctlRestart \/ SystemctlFails
         \/ Stall
         \/ \E u \in Users : Change(u)
         \/ \E m \in pushes : Push(m)
  PROVE  /\ TypeOK'
         /\ inFlight' = inFlight
         /\ Running("watchdog")' = Running("watchdog")
<1>0. worker \in [Workers -> Goroutine]
  BY DEF TypeOK, Goroutine
<1>a. worker' = worker => Running("watchdog")' = Running("watchdog")
  BY DEF Running, At
<1>f. Fault => faults' \in Nat
  BY DEF Fault, TypeOK
<1>1. CASE Healthy
  BY <1>1, <1>a DEF Healthy, TypeOK, xrayVars, backendVars
<1>2. CASE Unhealthy
  <2>1. wd' \in [pc : {"watch", "close", "restart", "launch"}, fails : 0..1]
    BY <1>2 DEF Unhealthy, TypeOK
  <2>2. faults' \in Nat
    BY <1>2, <1>f DEF Unhealthy, TypeOK
  <2> QED
    BY <2>1, <2>2, <1>2, <1>a DEF Unhealthy, TypeOK, xrayVars, backendVars
<1>3. CASE CloseClient
  <2>1. worker' = [w \in Workers |-> [worker[w] EXCEPT !.open = FALSE]]
    BY <1>3 DEF CloseClient
  <2>2. worker' \in [Workers -> Goroutine]
    BY <2>1, <1>0 DEF Goroutine
  <2>3. \A w \in Workers : worker'[w].pc = worker[w].pc /\ worker'[w].by = worker[w].by
    BY <2>1, <1>0 DEF Goroutine
  <2>4. Running("watchdog")' = Running("watchdog")
    BY <2>3 DEF Running, At
  <2> QED
    BY <2>2, <2>4, <1>3 DEF CloseClient, TypeOK, Goroutine, xrayVars, backendVars
<1>4. CASE SystemctlRestart
  BY <1>4, <1>a DEF SystemctlRestart, LoseMemory, TypeOK, backendVars
<1>5. CASE SystemctlFails
  BY <1>5, <1>a, <1>f DEF SystemctlFails, LoseMemory, TypeOK, xrayVars, backendVars
<1>6. CASE Stall
  BY <1>6, <1>a, <1>f DEF Stall, LoseMemory, TypeOK, xrayVars, backendVars
<1>7. ASSUME NEW u \in Users, Change(u)
      PROVE  TypeOK' /\ UNCHANGED <<inFlight, worker>>
  BY <1>7 DEF Change, Message, TypeOK, xrayVars
<1>8. ASSUME NEW m \in pushes, Push(m)
      PROVE  TypeOK' /\ UNCHANGED <<inFlight, worker>>
  <2>1. live' \subseteq Users \cup Temp
    BY <1>8 DEF Push, TypeOK
  <2> QED
    BY <2>1, <1>8 DEF Push, TypeOK
<1> QED
  BY <1>1, <1>2, <1>3, <1>4, <1>5, <1>6, <1>7, <1>8, <1>a

-----------------------------------------------------------------------------
\* The initial state: no sync runs and the flag is clear.
LEMMA Initially == Init => IInv
<1> SUFFICES ASSUME Init PROVE IInv
  OBVIOUS
<1>1. worker \in [Workers -> Goroutine]
  BY OffIsGoroutine DEF Init
<1>2. TypeOK
  <2>1. wd \in [pc : {"watch", "close", "restart", "launch"}, fails : 0..1]
    BY DEF Init
  <2>2. Registered0 \subseteq Users
    BY SyncAssumption
  <2> QED
    BY <1>1, <2>1, <2>2 DEF Init, TypeOK, Goroutine
<1>3. Running("watchdog") = {}
  BY DEF Init, Running, At, Off
<1> QED
  BY <1>2, <1>3 DEF Init, IInv, FlagGuardsWatchdogSync

\* The compare-and-swap: a sync of the watchdog is launched when there is none.
LEMMA LaunchKeeps == IInv /\ LaunchSync => IInv'
<1> SUFFICES ASSUME IInv, LaunchSync PROVE IInv'
  OBVIOUS
<1> USE DEF IInv
<1>1. CASE inFlight = 0
  <2>1. Launch("watchdog") /\ inFlight' = 1
    BY <1>1 DEF LaunchSync
  <2>2. worker' \in [Workers -> Goroutine]
    BY <2>1, Launched
  <2>3. TypeOK'
    BY <2>1, <2>2, <1>1 DEF LaunchSync, TypeOK, Goroutine, backendVars
  <2>4. PICK w \in Workers : /\ worker'[w].pc = "fetch" /\ worker'[w].by = "watchdog"
                             /\ \A v \in Workers \ {w} : worker'[v] = worker[v]
    BY <2>1, Launched
  <2>5. Running("watchdog") = {}
    BY <1>1 DEF FlagGuardsWatchdogSync
  <2>6. Running("watchdog")' = {w}
    BY <2>4, <2>5 DEF Running, At
  <2> QED
    BY <2>1, <2>3, <2>6 DEF FlagGuardsWatchdogSync
<1>2. CASE inFlight # 0
  <2>1. UNCHANGED <<inFlight, worker, pending>>
    BY <1>2 DEF LaunchSync
  <2>2. TypeOK'
    BY <2>1 DEF LaunchSync, TypeOK, backendVars
  <2>3. Running("watchdog")' = Running("watchdog")
    BY <2>1 DEF Running, At
  <2> QED
    BY <2>1, <2>2, <2>3, SameSyncs
<1> QED
  BY <1>1, <1>2

\* TriggerResync launches a sync that is not the watchdog's.
LEMMA UpdateKeeps == IInv /\ XrayUpdate => IInv'
<1> SUFFICES ASSUME IInv, XrayUpdate PROVE IInv'
  OBVIOUS
<1> USE DEF IInv
<1>1. Launch("update")
  BY DEF XrayUpdate
<1>2. worker' \in [Workers -> Goroutine]
  BY <1>1, Launched
<1>3. TypeOK'
  BY <1>2 DEF XrayUpdate, LoseMemory, TypeOK, Goroutine, backendVars
<1>4. PICK w \in Workers : /\ At(w, "off")
                           /\ worker'[w].pc = "fetch" /\ worker'[w].by = "update"
                           /\ \A v \in Workers \ {w} : worker'[v] = worker[v]
  BY <1>1, Launched
<1>5. Running("watchdog")' = Running("watchdog")
  BY <1>4 DEF Running, At
<1> QED
  BY <1>3, <1>5, SameSyncs DEF XrayUpdate

\* The end of a sync clears the flag if the sync was the watchdog's, which was
\* then its only one.
LEMMA FinishKeeps ==
  ASSUME IInv, NEW w \in Workers, Finish(w)
  PROVE  IInv'
<1> USE DEF IInv
<1>1. worker \in [Workers -> Goroutine]
  BY DEF TypeOK, Goroutine
<1>2. worker' = [worker EXCEPT ![w] = Off]
  BY DEF Finish
<1>3. worker' \in [Workers -> Goroutine]
  BY <1>1, <1>2, OffIsGoroutine
<1>4. TypeOK'
  BY <1>3 DEF Finish, TypeOK, Goroutine, xrayVars, backendVars
<1>5. Running("watchdog")' = Running("watchdog") \ {w}
  <2>1. worker'[w].pc = "off" /\ \A v \in Workers \ {w} : worker'[v] = worker[v]
    BY <1>1, <1>2 DEF Off
  <2> QED
    BY <2>1 DEF Running, At
<1>6. CASE worker[w].by = "watchdog"
  <2>1. w \in Running("watchdog")
    BY <1>6 DEF Running, Finish, At
  <2>2. Running("watchdog")' = {} /\ inFlight' = 0
    BY <2>1, <1>5, <1>6 DEF FlagGuardsWatchdogSync, Finish
  <2> QED
    BY <2>2, <1>4 DEF FlagGuardsWatchdogSync
<1>7. CASE worker[w].by # "watchdog"
  <2>1. w \notin Running("watchdog")
    BY <1>7 DEF Running
  <2> QED
    BY <2>1, <1>4, <1>5, <1>7, SameSyncs DEF Finish
<1> QED
  BY <1>6, <1>7

\* The agent starts again with no sync and a clear flag.
LEMMA AgentRestartKeeps == IInv /\ AgentRestart => IInv'
<1> SUFFICES ASSUME IInv, AgentRestart PROVE IInv'
  OBVIOUS
<1>1. worker' \in [Workers -> Goroutine]
  BY OffIsGoroutine DEF AgentRestart
<1>2. TypeOK'
  <2>1. wd' \in [pc : {"watch", "close", "restart", "launch"}, fails : 0..1]
    BY DEF AgentRestart
  <2>2. faults' \in Nat
    BY DEF IInv, AgentRestart, Fault, TypeOK
  <2> QED
    BY <1>1, <2>1, <2>2 DEF IInv, AgentRestart, TypeOK, Goroutine, backendVars
<1>3. Running("watchdog")' = {}
  BY DEF AgentRestart, Running, At, Off
<1> QED
  BY <1>2, <1>3 DEF AgentRestart, IInv, FlagGuardsWatchdogSync

\* Every step keeps the invariant.
LEMMA StepKeeps == IInv /\ [Next]_vars => IInv'
<1> SUFFICES ASSUME IInv, [Next]_vars PROVE IInv'
  OBVIOUS
<1>1. ASSUME NEW w \in Workers, Sync(w) PROVE IInv'
  <2>1. CASE Finish(w)
    BY <2>1, FinishKeeps
  <2>2. CASE ~ Finish(w)
    BY <1>1, <2>2, SyncStep, SameSyncs DEF IInv
  <2> QED
    BY <2>1, <2>2
<1>2. CASE Watchdog \/ Stall
  BY <1>2, OtherStep, SameSyncs, LaunchKeeps DEF Watchdog, IInv
<1>3. CASE (\E u \in Users : Change(u)) \/ \E m \in pushes : Push(m)
  BY <1>3, OtherStep, SameSyncs DEF IInv
<1>4. CASE UNCHANGED vars
  BY <1>4 DEF vars, xrayVars, backendVars, IInv, TypeOK, FlagGuardsWatchdogSync, Running, At
<1> QED
  BY <1>1, <1>2, <1>3, <1>4, UpdateKeeps, AgentRestartKeeps DEF Next

\* The invariant holds in every reachable state.
THEOREM Invariant == Spec => []IInv
<1>1. Init => IInv
  BY Initially
<1>2. IInv /\ [Next]_vars => IInv'
  BY StepKeeps
<1> QED
  BY <1>1, <1>2, PTL DEF Spec

\* The state of the watchdog and of the syncs (schedule.go) keeps its types.
THEOREM TypeCorrect == Spec => []TypeOK
<1>1. IInv => TypeOK
  BY DEF IInv
<1> QED
  BY <1>1, Invariant, PTL

\* restartSyncInFlight (schedule.go:127-131) is set exactly while a sync that the
\* watchdog launched runs, and there is never a second one.
THEOREM FlagCorrect == Spec => []FlagGuardsWatchdogSync
<1>1. IInv => FlagGuardsWatchdogSync
  BY DEF IInv
<1> QED
  BY <1>1, Invariant, PTL

-----------------------------------------------------------------------------
(* The users come back: the safety half of PendingSyncHeals.                *)

\* w will inject the users that are not in xray's memory.
Brings(w) ==
  \/ worker[w].pc \in Before
  \/ At(w, "inject") /\ registered \subseteq live \cup worker[w].todo

\* As long as the backend changes no user, a sync that had not injected when xray last
\* lost its memory has brought the users back, or will (schedule.go:59-84): no failure on
\* its way makes it forget them.
HealIsDue ==
  pending /\ changes = 0 => registered \subseteq live \/ \E w \in Workers : Brings(w)

\* No push is under way then, and the list of every sync that has one is the backend's.
ListIsCurrent ==
  changes = 0 =>
    /\ pushes = {}
    /\ \A w \in Workers : /\ worker[w].got => worker[w].list = registered
                          /\ At(w, "ready") => worker[w].got

HealInv == IInv /\ ListIsCurrent /\ HealIsDue

\* No sync has begun at the start.
LEMMA HealStarts == Init => ListIsCurrent /\ HealIsDue
  BY DEF Init, ListIsCurrent, HealIsDue, Off, At

\* A step of one sync that empties nothing.
LEMMA OneSync ==
  ASSUME HealInv, NEW w \in Workers, live \subseteq live', UNCHANGED backendVars,
         \A v \in Workers \ {w} : worker'[v] = worker[v],
         changes = 0 => /\ worker'[w].got => worker'[w].list = registered
                        /\ At(w, "ready")' => worker'[w].got,
         \/ pending' = pending
              /\ (changes = 0 /\ Brings(w) => Brings(w)' \/ registered \subseteq live')
         \/ Brings(w)'
  PROVE  ListIsCurrent' /\ HealIsDue'
<1>1. ListIsCurrent'
  BY DEF HealInv, ListIsCurrent, At, backendVars
<1>2. HealIsDue'
  <2>1. SUFFICES ASSUME pending', changes' = 0, ~Brings(w)', ~(registered \subseteq live')
                 PROVE  \E v \in Workers : Brings(v)'
    BY DEF HealIsDue, backendVars
  <2>2. pending /\ changes = 0 /\ ~Brings(w) /\ ~(registered \subseteq live)
    BY <2>1 DEF backendVars
  <2>3. PICK v \in Workers \ {w} : Brings(v)
    BY <2>2 DEF HealInv, HealIsDue
  <2>4. Brings(v)'
    BY <2>3 DEF Brings, At, backendVars
  <2> QED
    BY <2>4
<1> QED
  BY <1>1, <1>2

\* Every step of a sync: it fetches the list that there is, injects all of it, and starts
\* again when that fails.
LEMMA SyncHeals ==
  ASSUME HealInv, NEW w \in Workers, Sync(w) PROVE ListIsCurrent' /\ HealIsDue'
<1>0. /\ worker \in [Workers -> Goroutine] /\ worker[w] \in Goroutine
      /\ changes = 0 => /\ worker[w].got => worker[w].list = registered
                        /\ At(w, "ready") => worker[w].got
  BY DEF HealInv, IInv, TypeOK, Goroutine, ListIsCurrent
<1>a. ASSUME NEW rec, worker' = [worker EXCEPT ![w] = rec]
      PROVE  worker'[w] = rec /\ \A v \in Workers \ {w} : worker'[v] = worker[v]
  BY <1>0, <1>a
<1>1. CASE Fetch(w) \/ Refresh(w)
  <2>1. PICK got \in BOOLEAN, pc \in {"wait", "ready"} :
          /\ worker' = [worker EXCEPT ![w] = [worker[w] EXCEPT !.pc = pc, !.got = got,
                                                              !.list = registered]]
          /\ pc = "ready" => got
    <3>1. PICK got \in BOOLEAN :
            \/ worker' = [worker EXCEPT ![w].pc = "wait", ![w].got = got,
                                       ![w].list = registered]
            \/ worker' = [worker EXCEPT ![w].pc = IF got THEN "ready" ELSE "wait",
                                       ![w].got = got, ![w].list = registered]
      BY <1>1 DEF Fetch, Refresh, Fetched
    <3> QED
      BY <1>0, <3>1
  <2>2. /\ worker'[w].pc = pc /\ worker'[w].got = got /\ worker'[w].list = registered
        /\ \A v \in Workers \ {w} : worker'[v] = worker[v]
    BY <1>0, <2>1 DEF Goroutine
  <2>3. Brings(w)'
    BY <2>2 DEF Brings, Before
  <2>4. UNCHANGED <<xrayVars, backendVars>>
    BY <1>1 DEF Fetch, Refresh
  <2> QED
    BY <2>1, <2>2, <2>3, <2>4, OneSync DEF At, xrayVars
<1>2. CASE FetchFails(w) \/ RefreshFails(w)
  <2>1. /\ worker'[w].pc \in {"wait", "ready"} /\ worker'[w].got = worker[w].got
        /\ worker'[w].list = worker[w].list /\ (worker'[w].pc = "ready" => worker[w].got)
        /\ \A v \in Workers \ {w} : worker'[v] = worker[v]
    BY <1>0, <1>2 DEF FetchFails, RefreshFails, Goto, Goroutine
  <2>2. Brings(w)'
    BY <2>1 DEF Brings, Before
  <2> QED
    BY <1>0, <1>2, <2>1, <2>2, OneSync DEF FetchFails, RefreshFails, At, xrayVars
<1>3. CASE Attempt(w)
  <2>1. /\ worker'[w].pc \in {"refresh", "wait", "ready"} /\ worker'[w].got = worker[w].got
        /\ worker'[w].list = worker[w].list /\ (worker'[w].pc = "ready" => worker[w].got)
        /\ \A v \in Workers \ {w} : worker'[v] = worker[v]
    BY <1>0, <1>3 DEF Attempt, Goroutine
  <2>2. Brings(w)'
    BY <2>1 DEF Brings, Before
  <2> QED
    BY <1>0, <1>3, <2>1, <2>2, OneSync DEF Attempt, At, xrayVars
<1>4. CASE Ready(w)
  <2>1. /\ worker'[w].got = worker[w].got /\ worker'[w].list = worker[w].list
        /\ \/ worker'[w].pc = "inject" /\ worker'[w].todo = worker[w].list
           \/ worker'[w].pc = "wait"
        /\ \A v \in Workers \ {w} : worker'[v] = worker[v]
    BY <1>0, <1>4 DEF Ready, Goto, Goroutine
  <2>2. changes = 0 => Brings(w)'
    BY <1>0, <1>4, <2>1 DEF Ready, Brings, Before, At, backendVars
  <2> QED
    BY <1>0, <1>4, <2>1, <2>2, OneSync DEF Ready, At, xrayVars
<1>5. ASSUME NEW u \in Users \cup Temp, Inject(w, u) PROVE ListIsCurrent' /\ HealIsDue'
  <2>1. /\ worker'[w].got = worker[w].got /\ worker'[w].list = worker[w].list
        /\ worker'[w].pc = "inject" /\ worker[w].pc = "inject"
        /\ worker'[w].todo = worker[w].todo \ {u} /\ live' = live \cup {u}
        /\ \A v \in Workers \ {w} : worker'[v] = worker[v]
    BY <1>0, <1>5 DEF Inject, At, Goroutine
  <2>2. Brings(w) => Brings(w)'
    BY <1>5, <2>1 DEF Inject, Brings, Before, At, backendVars
  <2> QED
    BY <1>0, <1>5, <2>1, <2>2, OneSync DEF Inject, At
<1>6. CASE InjectFails(w)
  <2>1. /\ worker'[w].got = worker[w].got /\ worker'[w].list = worker[w].list
        /\ worker'[w].pc = "wait" /\ \A v \in Workers \ {w} : worker'[v] = worker[v]
    BY <1>0, <1>6 DEF InjectFails, Goroutine
  <2>2. Brings(w)'
    BY <2>1 DEF Brings, Before
  <2> QED
    BY <1>0, <1>6, <2>1, <2>2, OneSync DEF InjectFails, At
<1>7. CASE Injected(w)
  <2>1. /\ worker'[w].got = worker[w].got /\ worker'[w].list = worker[w].list
        /\ worker'[w].pc = "temp" /\ worker[w].pc = "inject" /\ worker[w].todo = {}
        /\ \A v \in Workers \ {w} : worker'[v] = worker[v]
    BY <1>0, <1>7 DEF Injected, At, Goroutine
  <2>2. Brings(w) => registered \subseteq live'
    BY <1>7, <2>1 DEF Injected, Brings, Before, xrayVars
  <2> QED
    BY <1>0, <1>7, <2>1, <2>2, OneSync DEF Injected, At, xrayVars
<1>8. ASSUME \/ \E u \in Users \cup Temp : ReInject(w, u)
             \/ ReInjected(w)
      PROVE  ListIsCurrent' /\ HealIsDue'
  <2>1. /\ worker'[w].got = worker[w].got /\ worker'[w].list = worker[w].list
        /\ worker'[w].pc \in {"temp", "done"} /\ worker[w].pc = "temp"
        /\ \A v \in Workers \ {w} : worker'[v] = worker[v]
    BY <1>0, <1>8 DEF ReInject, ReInjected, Goto, At, Goroutine
  <2>2. live \subseteq live' /\ pending' = pending /\ UNCHANGED backendVars
    BY <1>8 DEF ReInject, ReInjected, xrayVars
  <2>3. ~Brings(w)
    BY <2>1 DEF Brings, Before, At
  <2> QED
    BY <1>0, <2>1, <2>2, <2>3, OneSync DEF At
<1>9. CASE Finish(w)
  <2>1. /\ worker'[w] = Off /\ worker[w].pc = "done"
        /\ \A v \in Workers \ {w} : worker'[v] = worker[v]
    BY <1>0, <1>9 DEF Finish, At
  <2>2. ~Brings(w)
    BY <2>1 DEF Brings, Before, At
  <2> QED
    BY <1>9, <2>1, <2>2, OneSync DEF Finish, At, Off, xrayVars
<1> QED
  BY <1>1, <1>2, <1>3, <1>4, <1>5, <1>6, <1>7, <1>8, <1>9 DEF Sync

\* xray loses its memory, or a sync is launched: those before their injection are there.
LEMMA BeforeBrings ==
  ASSUME pending' => \E w \in Workers : worker'[w].pc \in Before
  PROVE  HealIsDue'
  BY DEF HealIsDue, Brings

\* A sync that is launched has no list yet.
LEMMA LaunchHeals ==
  ASSUME HealInv, NEW by \in {"watchdog", "update"}, Launch(by), UNCHANGED backendVars
  PROVE  ListIsCurrent' /\ \E w \in Workers : worker'[w].pc \in Before
<1> DEFINE w == CHOOSE w \in Workers : At(w, "off")
<1>1. w \in Workers /\ worker' = [worker EXCEPT ![w] = [Off EXCEPT !.pc = "fetch", !.by = by]]
  BY DEF Launch
<1> HIDE DEF w
<1>2. worker \in [Workers -> Goroutine]
  BY DEF HealInv, IInv, TypeOK, Goroutine
<1>3. worker'[w].pc = "fetch" /\ worker'[w].got = FALSE
  BY <1>1, <1>2 DEF Off
<1>4. \A v \in Workers \ {w} : worker'[v] = worker[v]
  BY <1>1, <1>2
<1>5. ListIsCurrent'
  BY <1>3, <1>4 DEF HealInv, ListIsCurrent, At, backendVars
<1> QED
  BY <1>1, <1>3, <1>5 DEF Before

\* The steps of the watchdog, of xray, of the agent and of the backend.
LEMMA OthersHeal ==
  ASSUME HealInv,
         \/ Watchdog \/ Stall \/ XrayUpdate \/ AgentRestart
         \/ \E u \in Users : Change(u)
         \/ \E m \in pushes : Push(m)
  PROVE  ListIsCurrent' /\ HealIsDue'
<1>0. worker \in [Workers -> Goroutine] /\ changes \in Nat
  BY DEF HealInv, IInv, TypeOK, Goroutine
<1>a. ASSUME UNCHANGED <<backendVars, worker>> PROVE ListIsCurrent'
  BY <1>a DEF HealInv, ListIsCurrent, At, backendVars
<1>b. ASSUME UNCHANGED <<xrayVars, backendVars, worker>> PROVE HealIsDue'
  BY <1>b DEF HealInv, HealIsDue, Brings, At, xrayVars, backendVars
<1>1. CASE Healthy \/ Unhealthy
  BY <1>1, <1>a, <1>b DEF Healthy, Unhealthy
<1>2. CASE CloseClient
  <2>1. \A w \in Workers : /\ worker'[w].pc = worker[w].pc /\ worker'[w].got = worker[w].got
                           /\ worker'[w].list = worker[w].list
                           /\ worker'[w].todo = worker[w].todo
    BY <1>0, <1>2 DEF CloseClient, Goroutine
  <2>2. UNCHANGED <<xrayVars, backendVars>>
    BY <1>2 DEF CloseClient
  <2> QED
    BY <2>1, <2>2
    DEF HealInv, ListIsCurrent, HealIsDue, Brings, At, xrayVars, backendVars
<1>3. CASE SystemctlRestart \/ SystemctlFails \/ Stall
  <2>1. UNCHANGED <<backendVars, worker>> /\ (LoseMemory \/ UNCHANGED <<live, pending>>)
    BY <1>3 DEF SystemctlRestart, SystemctlFails, Stall, xrayVars
  <2>2. CASE LoseMemory
    <3>1. pending' => \E w \in Workers : worker'[w].pc \in Before
      BY <2>2 DEF LoseMemory
    <3> QED
      BY <1>a, <2>1, <3>1, BeforeBrings
  <2>3. CASE UNCHANGED <<live, pending>>
    BY <1>a, <2>1, <2>3 DEF HealInv, HealIsDue, Brings, At, backendVars
  <2> QED
    BY <2>1, <2>2, <2>3
<1>4. CASE LaunchSync
  <2>1. CASE inFlight = 0
    BY <1>4, <2>1, LaunchHeals, BeforeBrings DEF LaunchSync
  <2>2. CASE inFlight # 0
    BY <1>4, <1>a, <1>b, <2>2 DEF LaunchSync, xrayVars
  <2> QED
    BY <2>1, <2>2
<1>5. CASE XrayUpdate
  <2>1. Launch("update") /\ UNCHANGED backendVars
    BY <1>5 DEF XrayUpdate
  <2> QED
    BY <2>1, LaunchHeals, BeforeBrings
<1>6. CASE AgentRestart
  <2>1. /\ \A w \in Workers : worker'[w].pc = "off" /\ worker'[w].got = FALSE
        /\ ~pending' /\ UNCHANGED backendVars
    BY <1>6 DEF AgentRestart, Off
  <2> QED
    BY <2>1, BeforeBrings DEF HealInv, ListIsCurrent, At, backendVars
<1>7. ASSUME NEW u \in Users, Change(u) PROVE ListIsCurrent' /\ HealIsDue'
  <2>1. changes' # 0
    BY <1>0, <1>7 DEF Change
  <2> QED
    BY <2>1 DEF ListIsCurrent, HealIsDue
<1>8. ASSUME NEW m \in pushes, Push(m) PROVE ListIsCurrent' /\ HealIsDue'
  <2>1. changes' # 0
    BY <1>8 DEF Push, HealInv, ListIsCurrent
  <2> QED
    BY <2>1 DEF ListIsCurrent, HealIsDue
<1> QED
  BY <1>1, <1>2, <1>3, <1>4, <1>5, <1>6, <1>7, <1>8 DEF Watchdog

\* Every step keeps the invariant.
LEMMA HealKeeps == HealInv /\ [Next]_vars => HealInv'
<1> SUFFICES ASSUME HealInv, [Next]_vars PROVE ListIsCurrent' /\ HealIsDue'
  BY StepKeeps DEF HealInv
<1>1. CASE UNCHANGED vars
  BY <1>1 DEF HealInv, ListIsCurrent, HealIsDue, Brings, At, vars, xrayVars, backendVars
<1> QED
  BY <1>1, SyncHeals, OthersHeal DEF Next

\* Once a sync is launched after a restart of xray, the users are in xray or a sync will
\* bring them, through every failure, stall and further restart (schedule.go:59-84). That
\* the sync then does it is liveness: PendingSyncHeals.
THEOREM HealStaysDue == Spec => []HealIsDue
<1>1. HealInv => HealIsDue
  BY DEF HealInv
<1>2. Init => HealInv
  BY HealStarts, Initially DEF HealInv
<1> QED
  BY <1>1, <1>2, HealKeeps, PTL DEF Spec
=============================================================================
