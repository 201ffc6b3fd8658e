------------------------------ MODULE DeltaSync ------------------------------
(***************************************************************************)
(* The periodic incremental synchronisation of users (xray/schedule.go,    *)
(* xray/state.go) beside the pushes it backs up.                           *)
(*                                                                         *)
(* The backend records when each user was last registered or unregistered, *)
(* and pushes the change to the agent: a message that says add or remove,  *)
(* and may be lost, repeated, or overtaken by a later one.  A round of     *)
(* DeltaSync reads the cursor file, fetches the changes since the cursor,  *)
(* applies them to xray one RPC at a time, and stores a new cursor, one    *)
(* second before the present, however long the round took.  Time is the    *)
(* Unix clock the agent and the backend share, in seconds.                 *)
(***************************************************************************)
EXTENDS Integers

CONSTANTS Users,         \* users the backend may register
          Active0,       \* users registered before the model begins
          Live0,         \* users in xray's memory when it begins
          Cursor0,       \* the cursor file when it begins: NoState or a time
          MaxTime,       \* bound: the clock
          MaxChange,     \* bound: changes at the backend
          MaxFault,      \* bound: fetches, RPCs and writes that fail
          MaxCrash,      \* bound: crashes of the agent
          MaxRestart     \* bound: restarts of xray by xray.set_dest

NoState == 0   \* no cursor file, or one that does not parse
Start == 2     \* the clock at first

ASSUME DeltaAssumption ==
  /\ Active0 \subseteq Users /\ Live0 \subseteq Users /\ Cursor0 \in {NoState, Start - 1}
  /\ {MaxTime, MaxChange, MaxFault, MaxCrash, MaxRestart} \subseteq Nat

VARIABLES
  now,
  active,    \* users registered at the backend
  stamp,     \* stamp[u]: when u was last registered or unregistered
  pushes,    \* the pushes on their way to the agent
  live,      \* users in xray's memory
  cursor,    \* sync_state.json
  round,     \* the DeltaSync goroutine
  base,      \* history: changes from then on are DeltaSync's to apply: the first
             \* cursor since the file was last unreadable, or a restart of xray
  during,    \* history: users changed since the fetch of the round in progress
  adrift,    \* history: users whose last change a late push undid, or a round that
             \* went on for too long after it passed over, and nothing put right since
  faults, changes, crashes, restarts

backendVars == <<active, stamp, pushes, changes>>
historyVars == <<base, during, adrift>>
boundVars == <<faults, crashes, restarts>>
vars == <<now, backendVars, live, cursor, round, historyVars, boundVars>>

Rest == [pc |-> "rest", since |-> NoState, added |-> {}, removed |-> {}]

Init ==
  /\ now = Start
  /\ active = Active0 /\ stamp = [u \in Users |-> 0] /\ pushes = {} /\ changes = 0
  /\ live = Live0
  /\ cursor = Cursor0 /\ base = Cursor0
  /\ round = Rest
  /\ during = {} /\ adrift = {}
  /\ faults = 0 /\ crashes = 0 /\ restarts = 0

Fault == faults < MaxFault /\ faults' = faults + 1

-----------------------------------------------------------------------------
(* One round.  pc: "rest" between two ticks, "fetch" once the file is read, *)
(* "apply" from then until the new cursor is stored.                       *)

\* Mutant: without the second of margin.
NewCursorNow == now

\* Mutant: the margin on the wrong side.
NewCursorAhead == now + 1

\* The new cursor, computed when it is stored.
NewCursor == now - 1

\* No state: the cursor is set to the present, and no user is fetched.
FirstRound ==
  /\ round.pc = "rest" /\ cursor = NoState
  /\ \/ cursor' = NewCursor /\ base' = NewCursor /\ UNCHANGED faults
     \/ Fault /\ UNCHANGED <<cursor, base>>
  /\ UNCHANGED <<now, backendVars, live, round, during, adrift, crashes, restarts>>

ReadState ==
  /\ round.pc = "rest" /\ cursor # NoState
  /\ round' = [Rest EXCEPT !.pc = "fetch", !.since = cursor]
  /\ UNCHANGED <<now, backendVars, live, cursor, historyVars, boundVars>>

\* The backend's answer: users changed at or after `since`, split by their state.
Changed(since) == {u \in Users : stamp[u] >= since}

FetchDelta ==
  /\ round.pc = "fetch"
  /\ round' = [round EXCEPT !.pc = "apply",
                 !.added = Changed(round.since) \cap active,
                 !.removed = Changed(round.since) \ active]
  /\ during' = {}
  /\ UNCHANGED <<now, backendVars, live, cursor, base, adrift, boundVars>>

FetchFails ==
  /\ round.pc = "fetch"
  /\ Fault
  /\ round' = Rest
  /\ UNCHANGED <<now, backendVars, live, cursor, historyVars, crashes, restarts>>

\* All the added users first, then the removed ones.
ApplyAdd(u) ==
  /\ round.pc = "apply" /\ u \in round.added
  /\ live' = live \cup {u} /\ adrift' = adrift \ {u}
  /\ round' = [round EXCEPT !.added = @ \ {u}]
  /\ UNCHANGED <<now, backendVars, cursor, base, during, boundVars>>

ApplyRemove(u) ==
  /\ round.pc = "apply" /\ round.added = {} /\ u \in round.removed
  /\ live' = live \ {u} /\ adrift' = adrift \ {u}
  /\ round' = [round EXCEPT !.removed = @ \ {u}]
  /\ UNCHANGED <<now, backendVars, cursor, base, during, boundVars>>

\* An RPC fails: the round ends, and the cursor stays where it was.
ApplyFails ==
  /\ round.pc = "apply" /\ round.added \cup round.removed # {}
  /\ Fault
  /\ round' = Rest /\ during' = {}
  /\ UNCHANGED <<now, backendVars, live, cursor, base, adrift, crashes, restarts>>

\* Changes that this round has not fetched, more than a second before its end.
PassedOver == {u \in during : stamp[u] < now - 1}

\* The cursor is stored.  A write that fails is not an error; os.WriteFile truncates
\* the file first, so that one leaves the old cursor or a file that does not parse.
SaveState ==
  /\ round.pc = "apply" /\ round.added \cup round.removed = {}
  /\ \/ cursor' = NewCursor /\ adrift' = adrift \cup PassedOver /\ UNCHANGED <<base, faults>>
     \/ Fault /\ UNCHANGED <<cursor, base, adrift>>
     \/ Fault /\ cursor' = NoState /\ base' = NoState /\ UNCHANGED adrift
  /\ round' = Rest /\ during' = {}
  /\ UNCHANGED <<now, backendVars, live, crashes, restarts>>

\* Mutant: the round does not get past its removals.
RoundNeverRemoves ==
  \/ FirstRound \/ ReadState \/ FetchDelta \/ FetchFails \/ ApplyFails \/ SaveState
  \/ \E u \in Users : ApplyAdd(u)

Round ==
  \/ FirstRound \/ ReadState \/ FetchDelta \/ FetchFails \/ ApplyFails \/ SaveState
  \/ \E u \in Users : ApplyAdd(u) \/ ApplyRemove(u)

\* The agent stops and starts again.  os.WriteFile truncates the file before it
\* writes it, so a crash while the cursor is stored leaves one that does not parse.
AgentCrash ==
  /\ crashes < MaxCrash
  /\ crashes' = crashes + 1
  /\ round' = Rest /\ during' = {}
  /\ \/ UNCHANGED <<cursor, base>>
     \/ /\ \/ round.pc = "apply" /\ round.added \cup round.removed = {}
           \/ round.pc = "rest" /\ cursor = NoState
        /\ cursor' = NoState /\ base' = NoState
  /\ UNCHANGED <<now, backendVars, live, adrift, faults, restarts>>

-----------------------------------------------------------------------------
(* The clock, the backend and xray. *)

Tick ==
  /\ now < MaxTime
  /\ now' = now + 1
  /\ UNCHANGED <<backendVars, live, cursor, round, historyVars, boundVars>>

\* What a push carries.
Message(op, u) == [op |-> op, user |-> u]

\* The backend changes a user and pushes what it did.
Change(u) ==
  /\ changes < MaxChange
  /\ changes' = changes + 1
  /\ IF u \in active
       THEN active' = active \ {u} /\ pushes' = pushes \cup {Message("remove", u)}
       ELSE active' = active \cup {u} /\ pushes' = pushes \cup {Message("add", u)}
  /\ stamp' = [stamp EXCEPT ![u] = now]
  /\ during' = IF round.pc = "apply" THEN during \cup {u} ELSE during
  /\ adrift' = adrift \ {u}
  /\ UNCHANGED <<now, live, cursor, round, base, boundVars>>

\* A push arrives through HTTP or NATS, and is applied whatever the backend has done
\* since.  The call is idempotent, and one without an answer may be repeated.
Push(m) ==
  /\ m \in pushes
  /\ pushes' = pushes \ {m} \/ UNCHANGED pushes
  /\ live' = IF m.op = "add" THEN live \cup {m.user} ELSE live \ {m.user}
  /\ adrift' = IF m.op = "add" <=> m.user \in active THEN adrift \ {m.user}
                                                   ELSE adrift \cup {m.user}
  /\ UNCHANGED <<now, active, stamp, changes, cursor, round, base, during, boundVars>>

LosePush(m) ==
  /\ m \in pushes
  /\ pushes' = pushes \ {m}
  /\ UNCHANGED <<now, active, stamp, changes, live, cursor, round, historyVars, boundVars>>

\* xray.set_dest restarts xray, and triggers no resynchronisation.
SetDestRestart ==
  /\ restarts < MaxRestart
  /\ restarts' = restarts + 1
  /\ live' = {}
  /\ base' = IF cursor = NoState THEN NoState ELSE now + 1
  /\ UNCHANGED <<now, backendVars, cursor, round, during, adrift, faults, crashes>>

Next ==
  \/ Round \/ AgentCrash \/ Tick \/ SetDestRestart
  \/ \E u \in Users : Change(u)
  \/ \E m \in pushes : Push(m) \/ LosePush(m)

Spec == Init /\ [][Next]_vars

\* The ticker starts round after round; after the last fault each one succeeds.
FairSpec == Spec /\ WF_vars(Round)

-----------------------------------------------------------------------------
(* Properties. *)

TypeOK ==
  /\ now \in Nat /\ active \subseteq Users /\ stamp \in [Users -> Nat]
  /\ pushes \subseteq [op : {"add", "remove"}, user : Users] /\ live \subseteq Users
  /\ cursor \in 0..now /\ base \in 0..(now + 1)
  /\ round \in [pc : {"rest", "fetch", "apply"}, since : Nat,
                added : SUBSET Users, removed : SUBSET Users]
  /\ during \subseteq Users /\ adrift \subseteq Users
  /\ faults \in Nat /\ changes \in Nat /\ crashes \in Nat /\ restarts \in Nat

InStep(u) == u \in live <=> u \in active

\* The cursor never passes a change that is not in xray, but for those adrift: a
\* user whose last change is older than the cursor, so that no later round fetches
\* it, is in xray exactly if it is registered.  The code gives no more.  A push has
\* no version, so a late one undoes a later change, for good once the cursor is past
\* it; and the margin of the cursor is a second, so a change made during a round more
\* than a second before its end is passed over.  (Changes older than the first cursor
\* are left to the pushes, those older than a restart of xray to nobody.)
CursorCoversChanges ==
  \A u \in Users \ adrift :
    (cursor # NoState /\ base <= stamp[u] /\ stamp[u] < cursor) => InStep(u)

\* Whatever pushes are lost or late and whatever rounds fail or are cut short by a
\* crash of the agent, once the backend is quiet every user that changed since the
\* first cursor and the last restart of xray ends in step, unless it is adrift: a
\* late push is undone as long as a round still applies the change it undid.
RoundsConverge ==
  <>[](\A u \in Users \ adrift : (cursor # NoState /\ base <= stamp[u]) => InStep(u))

\* docs/XRAY_AGENT.md:111: users are lost when xray restarts, and the periodic
\* synchronisation is what makes them persist.
RoundsRestoreUsers == []<>(active \subseteq live)

=============================================================================
