----------------------------- MODULE RestartSync -----------------------------
(***************************************************************************)
(* How the users come back after xray is restarted (xray/schedule.go).     *)
(* The watchdog restarts an xray that stopped answering and launches       *)
(* syncAfterRestart, unless restartSyncInFlight says one is running; the   *)
(* xray.update command restarts xray and launches one through              *)
(* TriggerResync.  Each sync fetches the registered users, injects them    *)
(* when xray answers, and then re-injects the temporary users.  Meanwhile  *)
(* the backend registers and unregisters users and pushes each change to   *)
(* the agent.                                                              *)
(*                                                                         *)
(* The gRPC client and the fan-out over inbounds are those of XrayClient;  *)
(* here an RPC fails when xray is not up or the client it goes through was *)
(* closed by the watchdog.  Every other failure (a fetch, an RPC that      *)
(* times out, systemctl) is a fault, and so is a restart of the agent; there *)
(* are at most MaxFault.                                                   *)
(***************************************************************************)
EXTENDS Naturals, FiniteSets

CONSTANTS Workers,        \* syncAfterRestart goroutines that may run at once
          Users,          \* users the backend may register
          Temp,           \* temporary users, as TempUserSync caches them
          Registered0,    \* users registered at first
          RefreshEvery,   \* syncRestartRefreshEvery
          MaxFault,       \* bound: faults
          AgentStops,     \* bound: whether the agent may be restarted
          MaxUpdate,      \* bound: xray.update commands
          MaxChange       \* bound: registrations and unregistrations

ASSUME SyncAssumption ==
  /\ Registered0 \subseteq Users
  /\ RefreshEvery \in Nat \ {0}
  /\ IsFiniteSet(Workers) /\ Cardinality(Workers) > MaxUpdate
  /\ AgentStops \in BOOLEAN /\ MaxFault \in Nat /\ MaxUpdate \in Nat /\ MaxChange \in Nat

VARIABLES
  up,          \* xray answers
  live,        \* users in xray's memory
  registered,  \* users registered at the backend
  pushes,      \* the pushes on their way to the agent
  wd,          \* the watchdog: where it is and how many probes failed in a row
  inFlight,    \* restartSyncInFlight
  worker,      \* the syncAfterRestart goroutines
  pending,     \* history: since xray last lost its memory, some sync was still
               \* before its injection
  faults, updates, changes

xrayVars == <<up, live, pending>>
backendVars == <<registered, pushes, changes>>
vars == <<xrayVars, backendVars, wd, inFlight, worker, faults, updates>>

Off == [pc |-> "off", by |-> "none", attempt |-> 0, got |-> FALSE, list |-> {},
        todo |-> {}, open |-> TRUE]

Init ==
  /\ up = TRUE /\ live = Registered0 \cup Temp /\ pending = FALSE
  /\ registered = Registered0 /\ pushes = {}
  /\ wd = [pc |-> "watch", fails |-> 0]
  /\ inFlight = 0
  /\ worker = [w \in Workers |-> Off]
  /\ faults = 0 /\ updates = 0 /\ changes = 0

Fault == faults < MaxFault /\ faults' = faults + 1

\* A sync has not injected yet.
Before == {"fetch", "wait", "refresh", "ready"}

\* xray's memory goes with its process.
LoseMemory ==
  /\ live' = {}
  /\ pending' = (\E w \in Workers : worker'[w].pc \in Before)

-----------------------------------------------------------------------------
(* syncAfterRestart.  pc: "fetch" the users first, "wait" 5s before an      *)
(* attempt, "refresh" the list in every RefreshEvery-th one, "ready" before *)
(* IsXrayReady, "inject" the users, "temp" in ReInjectAll, "done" before    *)
(* the flag is cleared.  open: the client injectUsers holds is not closed.  *)

At(w, pc) == worker[w].pc = pc
Goto(w, pc) == worker' = [worker EXCEPT ![w].pc = pc]

\* Launch a goroutine on behalf of the watchdog or of xray.update.
Launch(by) ==
  /\ \E w \in Workers : At(w, "off")
  /\ LET w == CHOOSE w \in Workers : At(w, "off")
     IN  worker' = [worker EXCEPT ![w] = [Off EXCEPT !.pc = "fetch", !.by = by]]

\* What a fetch leaves in `users`: an empty list may be sent as null, which
\* the code cannot tell from no list at all.
Fetched == IF registered = {} THEN BOOLEAN ELSE {TRUE}

Fetch(w) ==
  /\ At(w, "fetch")
  /\ \E got \in Fetched :
       worker' = [worker EXCEPT ![w].pc = "wait", ![w].got = got,
                                ![w].list = registered]
  /\ UNCHANGED <<xrayVars, backendVars, wd, inFlight, faults, updates>>

FetchFails(w) ==
  /\ At(w, "fetch")
  /\ Fault
  /\ Goto(w, "wait")
  /\ UNCHANGED <<xrayVars, backendVars, wd, inFlight, updates>>

\* Mutant: the count of attempts is not reduced.
AttemptCounts(w) ==
  /\ At(w, "wait")
  /\ LET n == worker[w].attempt + 1
     IN  worker' = [worker EXCEPT ![w].attempt = n,
                      ![w].pc = IF n % RefreshEvery = 0 THEN "refresh"
                                ELSE IF worker[w].got THEN "ready" ELSE "wait"]
  /\ UNCHANGED <<xrayVars, backendVars, wd, inFlight, faults, updates>>

\* Mutant: the list is never refreshed.
AttemptNeverRefreshes(w) ==
  /\ At(w, "wait")
  /\ worker[w].got
  /\ Goto(w, "ready")
  /\ UNCHANGED <<xrayVars, backendVars, wd, inFlight, faults, updates>>

\* The wait is over: refresh the list, wait again without one, or inject.
Attempt(w) ==
  /\ At(w, "wait")
  /\ LET n == (worker[w].attempt + 1) % RefreshEvery
     IN  worker' = [worker EXCEPT ![w].attempt = n,
                      ![w].pc = IF n = 0 THEN "refresh"
                                ELSE IF worker[w].got THEN "ready" ELSE "wait"]
  /\ UNCHANGED <<xrayVars, backendVars, wd, inFlight, faults, updates>>

Refresh(w) ==
  /\ At(w, "refresh")
  /\ \E got \in Fetched :
       worker' = [worker EXCEPT ![w].pc = IF got THEN "ready" ELSE "wait",
                                ![w].got = got, ![w].list = registered]
  /\ UNCHANGED <<xrayVars, backendVars, wd, inFlight, faults, updates>>

\* A refresh that fails keeps the list there is.
RefreshFails(w) ==
  /\ At(w, "refresh")
  /\ Fault
  /\ Goto(w, IF worker[w].got THEN "ready" ELSE "wait")
  /\ UNCHANGED <<xrayVars, backendVars, wd, inFlight, updates>>

\* injectUsers takes the cached client, and goes on if xray is ready.
Ready(w) ==
  /\ At(w, "ready")
  /\ IF up THEN worker' = [worker EXCEPT ![w].pc = "inject", ![w].open = TRUE,
                                         ![w].todo = worker[w].list]
           ELSE Goto(w, "wait")
  /\ UNCHANGED <<xrayVars, backendVars, wd, inFlight, faults, updates>>

\* One user is added; an error ends injectUsers, to be retried from the start.
Inject(w, u) ==
  /\ At(w, "inject") /\ u \in worker[w].todo
  /\ up /\ worker[w].open
  /\ live' = live \cup {u}
  /\ worker' = [worker EXCEPT ![w].todo = @ \ {u}]
  /\ UNCHANGED <<up, pending, backendVars, wd, inFlight, faults, updates>>

InjectFails(w) ==
  /\ At(w, "inject") /\ worker[w].todo # {}
  /\ \/ ~up /\ UNCHANGED faults
     \/ ~worker[w].open /\ UNCHANGED faults
     \/ Fault
  /\ worker' = [worker EXCEPT ![w].pc = "wait", ![w].todo = {}]
  /\ pending' = TRUE
  /\ UNCHANGED <<up, live, backendVars, wd, inFlight, updates>>

\* Mutant: the loop is not left.
InjectedLoops(w) ==
  /\ At(w, "inject") /\ worker[w].todo = {}
  /\ Goto(w, "wait")
  /\ UNCHANGED <<xrayVars, backendVars, wd, inFlight, faults, updates>>

\* injectUsers returned nil: ReInjectAll takes the cached temporary users.
Injected(w) ==
  /\ At(w, "inject") /\ worker[w].todo = {}
  /\ worker' = [worker EXCEPT ![w].pc = "temp", ![w].todo = Temp]
  /\ UNCHANGED <<xrayVars, backendVars, wd, inFlight, faults, updates>>

\* ReInjectAll adds each of them and only logs an error.
ReInject(w, u) ==
  /\ At(w, "temp") /\ u \in worker[w].todo
  /\ \/ up /\ live' = live \cup {u} /\ UNCHANGED faults
     \/ ~up /\ UNCHANGED <<live, faults>>
     \/ Fault /\ UNCHANGED live
  /\ worker' = [worker EXCEPT ![w].todo = @ \ {u}]
  /\ UNCHANGED <<up, pending, backendVars, wd, inFlight, updates>>

ReInjected(w) ==
  /\ At(w, "temp") /\ worker[w].todo = {}
  /\ Goto(w, "done")
  /\ UNCHANGED <<xrayVars, backendVars, wd, inFlight, faults, updates>>

\* Mutant: every sync clears the flag.
FinishClears(w) ==
  /\ At(w, "done")
  /\ inFlight' = 0
  /\ worker' = [worker EXCEPT ![w] = Off]
  /\ UNCHANGED <<xrayVars, backendVars, wd, faults, updates>>

\* The goroutine ends; the watchdog's one clears the flag as it does.
Finish(w) ==
  /\ At(w, "done")
  /\ inFlight' = IF worker[w].by = "watchdog" THEN 0 ELSE inFlight
  /\ worker' = [worker EXCEPT ![w] = Off]
  /\ UNCHANGED <<xrayVars, backendVars, wd, faults, updates>>

Sync(w) ==
  \/ Fetch(w) \/ FetchFails(w) \/ Attempt(w) \/ Refresh(w) \/ RefreshFails(w)
  \/ Ready(w) \/ InjectFails(w) \/ Injected(w) \/ ReInjected(w) \/ Finish(w)
  \/ \E u \in Users \cup Temp : Inject(w, u) \/ ReInject(w, u)

-----------------------------------------------------------------------------
(* The watchdog. *)

Healthy ==
  /\ wd.pc = "watch" /\ up
  /\ wd' = [pc |-> "watch", fails |-> 0]
  /\ UNCHANGED <<xrayVars, backendVars, inFlight, worker, faults, updates>>

\* The probe fails for the second time in a row, or for the first.
Unhealthy ==
  /\ wd.pc = "watch"
  /\ \/ ~up /\ UNCHANGED faults
     \/ Fault
  /\ wd' = IF wd.fails + 1 < 2 THEN [pc |-> "watch", fails |-> wd.fails + 1]
                              ELSE [pc |-> "close", fails |-> 0]
  /\ UNCHANGED <<xrayVars, backendVars, inFlight, worker, updates>>

\* It closes the cached client, which every sync injecting now goes through.
CloseClient ==
  /\ wd.pc = "close"
  /\ wd' = [wd EXCEPT !.pc = "restart"]
  /\ worker' = [w \in Workers |-> [worker[w] EXCEPT !.open = FALSE]]
  /\ UNCHANGED <<xrayVars, backendVars, inFlight, faults, updates>>

SystemctlRestart ==
  /\ wd.pc = "restart"
  /\ wd' = [wd EXCEPT !.pc = "launch"]
  /\ UNCHANGED <<backendVars, inFlight, worker, faults, updates>>
  /\ up' = TRUE /\ LoseMemory

\* systemctl fails, or is given up after 30s although xray is restarted.
SystemctlFails ==
  /\ wd.pc = "restart"
  /\ Fault
  /\ wd' = [wd EXCEPT !.pc = "watch"]
  /\ UNCHANGED <<backendVars, inFlight, worker, updates>>
  /\ \/ UNCHANGED xrayVars
     \/ up' = TRUE /\ LoseMemory

\* The compare-and-swap of restartSyncInFlight: launch a sync, or skip it.
LaunchSync ==
  /\ wd.pc = "launch"
  /\ wd' = [wd EXCEPT !.pc = "watch"]
  /\ IF inFlight = 0
       THEN inFlight' = 1 /\ Launch("watchdog") /\ pending' = TRUE
       ELSE UNCHANGED <<inFlight, worker, pending>>
  /\ UNCHANGED <<up, live, backendVars, faults, updates>>

Watchdog ==
  \/ Healthy \/ Unhealthy \/ CloseClient
  \/ SystemctlRestart \/ SystemctlFails \/ LaunchSync

-----------------------------------------------------------------------------
(* xray and the backend. *)

\* xray stops answering, with its process or without it.
Stall ==
  /\ up /\ Fault
  /\ up' = FALSE
  /\ UNCHANGED <<backendVars, wd, inFlight, worker, updates>>
  /\ \/ LoseMemory
     \/ UNCHANGED <<live, pending>>

\* xray.update: the new binary is started, then TriggerResync launched.
XrayUpdate ==
  /\ updates < MaxUpdate
  /\ updates' = updates + 1
  /\ Launch("update")
  /\ up' = TRUE /\ LoseMemory
  /\ UNCHANGED <<backendVars, wd, inFlight, faults>>

\* The agent is restarted, by an update of its own or by update_config: the watchdog
\* starts afresh, the syncs are gone with the flag, and Start launches none.
AgentRestart ==
  /\ AgentStops /\ Fault
  /\ wd' = [pc |-> "watch", fails |-> 0]
  /\ inFlight' = 0
  /\ worker' = [w \in Workers |-> Off]
  /\ pending' = FALSE
  /\ UNCHANGED <<up, live, backendVars, updates>>

\* What a push carries.
Message(op, u) == [op |-> op, user |-> u]

\* The backend changes a user and pushes what it did.
Change(u) ==
  /\ changes < MaxChange
  /\ changes' = changes + 1
  /\ \/ /\ u \in registered /\ registered' = registered \ {u}
        /\ pushes' = pushes \cup {Message("remove", u)}
     \/ /\ u \notin registered /\ registered' = registered \cup {u}
        /\ pushes' = pushes \cup {Message("add", u)}
  /\ UNCHANGED <<xrayVars, wd, inFlight, worker, faults, updates>>

\* A push reaches AddUser or RemoveUser, late perhaps and not for the last time, and
\* succeeds if xray is up.
Push(m) ==
  /\ m \in pushes
  /\ pushes' = pushes \ {m} \/ UNCHANGED pushes
  /\ \/ ~up /\ UNCHANGED live
     \/ up /\ m.op = "add" /\ live' = live \cup {m.user}
     \/ up /\ m.op = "remove" /\ live' = live \ {m.user}
  /\ UNCHANGED <<up, pending, registered, changes, wd, inFlight, worker, faults, updates>>

Next ==
  \/ \E w \in Workers : Sync(w)
  \/ Watchdog
  \/ Stall \/ XrayUpdate \/ AgentRestart
  \/ \E u \in Users : Change(u)
  \/ \E m \in pushes : Push(m)

Spec == Init /\ [][Next]_vars

\* The ticker of the watchdog keeps ticking and a sync's timer keeps firing;
\* after the last fault, fetches, RPCs and systemctl succeed.
FairSpec == Spec /\ WF_vars(Watchdog) /\ \A w \in Workers : WF_vars(Sync(w))

-----------------------------------------------------------------------------
(* Properties. *)

TypeOK ==
  /\ up \in BOOLEAN /\ live \subseteq Users \cup Temp /\ pending \in BOOLEAN
  /\ registered \subseteq Users
  /\ pushes \subseteq [op : {"add", "remove"}, user : Users]
  /\ wd \in [pc : {"watch", "close", "restart", "launch"}, fails : 0..1]
  /\ inFlight \in {0, 1}
  /\ worker \in [Workers ->
       [pc : {"off", "fetch", "wait", "refresh", "ready", "inject", "temp", "done"},
        by : {"none", "watchdog", "update"}, attempt : 0..(RefreshEvery - 1),
        got : BOOLEAN, list : SUBSET Users, todo : SUBSET (Users \cup Temp),
        open : BOOLEAN]]
  /\ faults \in Nat /\ updates \in Nat /\ changes \in Nat

Running(by) == {w \in Workers : ~At(w, "off") /\ worker[w].by = by}

\* restartSyncInFlight is 1 exactly while a sync the watchdog launched runs, and
\* there is never more than one such sync, however a sync that ends races with
\* the next restart, of xray or of the agent.
FlagGuardsWatchdogSync ==
  /\ inFlight = 1 <=> Running("watchdog") # {}
  /\ \A v, w \in Running("watchdog") : v = w

\* A sync that has not injected yet gets every registered user into xray's
\* memory, unless xray loses it again after that sync has injected: however
\* fetches, RPCs and systemctl fail before, and whoever launched it, as long as the
\* agent is not restarted.  (A user registered meanwhile depends on its push.)
PendingSyncHeals == pending /\ changes = 0 ~> ~pending \/ changes # 0 \/ registered \subseteq live

\* The flag does not stay set: a sync the watchdog launched always ends, so that
\* the next restart can launch one, unless the backend has no users.
FlagClears == inFlight = 1 ~> inFlight = 0 \/ registered = {}

\* schedule.go:90 says the watchdog restarts xray and re-injects the users.
RestartReinjects == wd.pc = "launch" ~> registered \subseteq live

=============================================================================
