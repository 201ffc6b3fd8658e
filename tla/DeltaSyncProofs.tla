--------------------------- MODULE DeltaSyncProofs ---------------------------
(***************************************************************************)
(* That the cursor never passes a change that is not in xray, but for the  *)
(* users adrift: for any users, any pushes lost, repeated or late, rounds  *)
(* of any length, failures and crashes.  The cursor is stored long after   *)
(* the changes it passes were fetched, so the invariant says of a round in *)
(* progress what it has fetched and what it has still to apply.            *)
(***************************************************************************)
EXTENDS DeltaSync, TLAPS

\* Nothing was changed in the future, and the cursor is a second behind the clock.
TimesPast ==
  /\ Start <= now
  /\ \A u \in Users : stamp[u] <= now
  /\ cursor < now

\* A round works on the cursor that is stored.
RoundOnCursor == round.pc # "rest" => cursor # NoState /\ round.since = cursor

\* What a round has still to apply is nothing older than the cursor, and is what
\* the backend has, unless the user changed again since the fetch.
PlanIsDelta ==
  round.pc = "apply" =>
    /\ \A u \in round.added \cup round.removed : round.since <= stamp[u]
    /\ \A u \in round.added \ during : u \in active
    /\ \A u \in round.removed \ during : u \notin active

\* What it has not to apply is in xray, if it changed before the fetch.
RestInStep ==
  round.pc = "apply" =>
    \A u \in Users \ (adrift \cup during) :
      base <= stamp[u] /\ u \notin round.added \cup round.removed => InStep(u)

Kept == TimesPast /\ RoundOnCursor /\ PlanIsDelta /\ RestInStep /\ CursorCoversChanges
IInv == TypeOK /\ Kept

-----------------------------------------------------------------------------
\* The initial state: the first cursor is one second behind.
LEMMA Initially == Init => IInv
<1> SUFFICES ASSUME Init PROVE IInv
  OBVIOUS
<1> USE DeltaAssumption DEF Start, NoState
<1>1. round.pc = "rest" /\ cursor = base /\ cursor \in {0, 1} /\ now = 2
  BY DEF Init, Rest
<1>2. TypeOK
  <2>1. round \in [pc : {"rest", "fetch", "apply"}, since : Nat,
                   added : SUBSET Users, removed : SUBSET Users]
    BY DEF Init, Rest
  <2> QED
    BY <1>1, <2>1 DEF Init, TypeOK
<1>3. \A u \in Users : stamp[u] = 0
  BY DEF Init
<1> QED
  BY <1>1, <1>2, <1>3 DEF IInv, Kept, TimesPast, RoundOnCursor, PlanIsDelta, RestInStep,
                          CursorCoversChanges

-----------------------------------------------------------------------------
\* A round leaves the types of the state alone.
LEMMA RoundTypes ==
  ASSUME IInv, Round
  PROVE  TypeOK'
<1> USE DeltaAssumption DEF Start, NoState, IInv, Kept, TimesPast
<1> DEFINE Goroutine == [pc : {"rest", "fetch", "apply"}, since : Nat,
                         added : SUBSET Users, removed : SUBSET Users]
<1>0. round \in Goroutine /\ Rest \in Goroutine
  BY DEF TypeOK, Rest
<1>f. Fault => faults' \in Nat
  BY DEF Fault, TypeOK
<1>n. NewCursor \in 0..now
  BY DEF TypeOK, NewCursor
<1>b. ASSUME round' \in Goroutine, live' \subseteq Users, cursor' \in 0..now,
             base' \in 0..(now + 1), faults' \in Nat,
             during' \subseteq Users, adrift' \subseteq Users,
             UNCHANGED <<now, backendVars, crashes, restarts>>
      PROVE  TypeOK'
  BY <1>b DEF TypeOK, backendVars
<1>1. CASE FirstRound
  <2>1. cursor' \in 0..now /\ base' \in 0..(now + 1)
    BY <1>1, <1>n DEF FirstRound, TypeOK
  <2>2. faults' \in Nat
    BY <1>1, <1>f DEF FirstRound, TypeOK
  <2> QED
    BY <2>1, <2>2, <1>1, <1>0, <1>b DEF FirstRound, TypeOK
<1>2. CASE ReadState
  <2>1. round' = [Rest EXCEPT !.pc = "fetch", !.since = cursor] /\ cursor \in Nat
    BY <1>2 DEF ReadState, TypeOK
  <2>2. round' \in Goroutine
    BY <2>1 DEF Rest
  <2> QED
    BY <2>2, <1>2, <1>b DEF ReadState, TypeOK, historyVars, boundVars
<1>3. CASE FetchDelta
  <2>1. round' \in Goroutine
    BY <1>3, <1>0 DEF FetchDelta, TypeOK, Changed
  <2> QED
    BY <2>1, <1>3, <1>b DEF FetchDelta, TypeOK, boundVars
<1>4. CASE FetchFails \/ ApplyFails
  BY <1>4, <1>0, <1>f, <1>b DEF FetchFails, ApplyFails, TypeOK, historyVars
<1>5. CASE SaveState
  <2>1. cursor' \in 0..now /\ base' \in 0..(now + 1)
    BY <1>5, <1>n DEF SaveState, TypeOK
  <2>2. faults' \in Nat
    BY <1>5, <1>f DEF SaveState, TypeOK
  <2>3. adrift' \subseteq Users /\ during' \subseteq Users
    BY <1>5 DEF SaveState, TypeOK, PassedOver
  <2> QED
    BY <2>1, <2>2, <2>3, <1>5, <1>0, <1>b DEF SaveState, TypeOK
<1>6. ASSUME NEW u \in Users, ApplyAdd(u) \/ ApplyRemove(u) PROVE TypeOK'
  <2>1. round' \in Goroutine
    BY <1>6, <1>0 DEF ApplyAdd, ApplyRemove
  <2>2. live' \subseteq Users /\ adrift' \subseteq Users
    BY <1>6 DEF ApplyAdd, ApplyRemove, TypeOK
  <2> QED
    BY <2>1, <2>2, <1>6, <1>b DEF ApplyAdd, ApplyRemove, TypeOK, boundVars
<1> QED
  BY <1>1, <1>2, <1>3, <1>4, <1>5, <1>6 DEF Round

\* So do the clock, the backend and the restarts.
LEMMA OtherTypes ==
  ASSUME IInv,
         \/ AgentCrash \/ Tick \/ SetDestRestart \/ \E u \in Users : Change(u)
         \/ \E m \in pushes : Push(m) \/ LosePush(m)
  PROVE  TypeOK'
<1> USE DeltaAssumption DEF Start, NoState, IInv, Kept, TimesPast
<1>1. CASE AgentCrash
  <2>1. Rest \in [pc : {"rest", "fetch", "apply"}, since : Nat,
                  added : SUBSET Users, removed : SUBSET Users]
    BY DEF Rest
  <2>2. cursor' \in 0..now /\ base' \in 0..(now + 1)
    BY <1>1 DEF AgentCrash, TypeOK
  <2> QED
    BY <2>1, <2>2, <1>1 DEF AgentCrash, TypeOK, backendVars
<1>2. CASE Tick
  BY <1>2 DEF Tick, TypeOK, backendVars, historyVars, boundVars
<1>3. CASE SetDestRestart
  BY <1>3 DEF SetDestRestart, TypeOK, backendVars
<1>4. ASSUME NEW u \in Users, Change(u) PROVE TypeOK'
  <2>1. \A op \in {"add", "remove"} :
          Message(op, u) \in [op : {"add", "remove"}, user : Users]
    BY DEF Message
  <2>2. pushes' \subseteq [op : {"add", "remove"}, user : Users]
    BY <2>1, <1>4 DEF Change, TypeOK
  <2>3. active' \subseteq Users /\ during' \subseteq Users /\ adrift' \subseteq Users
    BY <1>4 DEF Change, TypeOK
  <2>4. stamp' \in [Users -> Nat] /\ changes' \in Nat
    BY <1>4 DEF Change, TypeOK
  <2> QED
    BY <2>2, <2>3, <2>4, <1>4 DEF Change, TypeOK, boundVars
<1>5. ASSUME NEW m \in pushes, Push(m) \/ LosePush(m) PROVE TypeOK'
  <2>1. m.user \in Users
    BY DEF TypeOK
  <2>2. live' \subseteq Users /\ adrift' \subseteq Users
    BY <1>5, <2>1 DEF Push, LosePush, historyVars, TypeOK
  <2>3. pushes' \subseteq [op : {"add", "remove"}, user : Users]
    BY <1>5 DEF Push, LosePush, TypeOK
  <2> QED
    BY <2>2, <2>3, <1>5 DEF Push, LosePush, TypeOK, historyVars, boundVars
<1> QED
  BY <1>1, <1>2, <1>3, <1>4, <1>5

-----------------------------------------------------------------------------
\* A round that rests, or begins, keeps what the cursor covers.
LEMMA BeginKeeps ==
  ASSUME IInv, FirstRound \/ ReadState \/ FetchFails \/ ApplyFails
  PROVE  Kept'
<1> USE DEF IInv, Start
<1>0. UNCHANGED <<now, active, stamp, live, adrift>>
  BY DEF FirstRound, ReadState, FetchFails, ApplyFails, backendVars, historyVars
<1>1. CASE FirstRound
  <2>1. round' = round /\ round.pc = "rest"
    BY <1>1 DEF FirstRound
  <2>2. \/ cursor' = now - 1 /\ base' = now - 1
        \/ cursor' = cursor /\ base' = base
    BY <1>1 DEF FirstRound, NewCursor
  <2>3. TimesPast'
    BY <1>0, <2>2 DEF Kept, TimesPast, TypeOK
  <2>4. CursorCoversChanges'
    BY <1>0, <2>2 DEF Kept, CursorCoversChanges, InStep, TypeOK
  <2> QED
    BY <2>1, <2>3, <2>4 DEF Kept, RoundOnCursor, PlanIsDelta, RestInStep
<1>2. CASE ReadState
  <2>1. /\ UNCHANGED <<cursor, base>> /\ cursor # NoState
        /\ round'.pc = "fetch" /\ round'.since = cursor
    BY <1>2 DEF ReadState, Rest, historyVars
  <2> QED
    BY <1>0, <2>1 DEF Kept, TimesPast, RoundOnCursor, PlanIsDelta, RestInStep,
                      CursorCoversChanges, InStep
<1>3. CASE FetchFails \/ ApplyFails
  <2>1. UNCHANGED <<cursor, base>> /\ round'.pc = "rest"
    BY <1>3 DEF FetchFails, ApplyFails, Rest, historyVars
  <2> QED
    BY <1>0, <2>1 DEF Kept, TimesPast, RoundOnCursor, PlanIsDelta, RestInStep,
                      CursorCoversChanges, InStep
<1> QED
  BY <1>1, <1>2, <1>3

\* The fetch takes every change from the cursor on; older ones are in xray.
LEMMA FetchKeeps ==
  ASSUME IInv, FetchDelta
  PROVE  Kept'
<1> USE DEF IInv
<1>0. UNCHANGED <<now, active, stamp, live, cursor, base, adrift>> /\ during' = {}
  BY DEF FetchDelta, backendVars
<1>1. /\ round.pc = "fetch" /\ round'.pc = "apply" /\ round'.since = round.since
      /\ round'.added = Changed(round.since) \cap active
      /\ round'.removed = Changed(round.since) \ active
  BY DEF FetchDelta, TypeOK
<1>2. cursor # NoState /\ round.since = cursor
  BY <1>1 DEF Kept, RoundOnCursor
<1>3. RoundOnCursor'
  BY <1>0, <1>1, <1>2 DEF RoundOnCursor
<1>4. PlanIsDelta'
  BY <1>0, <1>1 DEF PlanIsDelta, Changed
<1>5. ASSUME NEW u \in Users \ adrift, base <= stamp[u], u \notin Changed(cursor)
      PROVE  InStep(u)
  <2>1. stamp[u] < cursor
    BY <1>5 DEF Changed, TypeOK
  <2> QED
    BY <2>1, <1>2, <1>5 DEF Kept, CursorCoversChanges
<1>6. RestInStep'
  BY <1>0, <1>1, <1>2, <1>5 DEF RestInStep, InStep
<1> QED
  BY <1>0, <1>3, <1>4, <1>6 DEF Kept, TimesPast, CursorCoversChanges, InStep

\* A change that is applied is none that the cursor has passed.
LEMMA ApplyKeeps ==
  ASSUME IInv, NEW u \in Users, ApplyAdd(u) \/ ApplyRemove(u)
  PROVE  Kept'
<1> USE DEF IInv
<1>0. UNCHANGED <<now, active, stamp, cursor, base, during>> /\ adrift' = adrift \ {u}
  BY DEF ApplyAdd, ApplyRemove, backendVars
<1>1. /\ round.pc = "apply" /\ round'.pc = "apply" /\ round'.since = round.since
      /\ u \in round.added \cup round.removed
      /\ round'.added \subseteq round.added /\ round'.removed \subseteq round.removed
      /\ \A v \in Users \ {u} : v \in round.added \cup round.removed
                                => v \in round'.added \cup round'.removed
  BY DEF ApplyAdd, ApplyRemove, TypeOK
<1>2. \A v \in Users \ {u} : InStep(v)' = InStep(v)
  BY <1>0 DEF ApplyAdd, ApplyRemove, InStep
<1>3. u \notin during => InStep(u)'
  BY <1>0, <1>1 DEF Kept, PlanIsDelta, ApplyAdd, ApplyRemove, InStep
<1>4. cursor <= stamp[u]
  BY <1>1 DEF Kept, PlanIsDelta, RoundOnCursor
<1>5. RestInStep'
  BY <1>0, <1>1, <1>2, <1>3 DEF Kept, RestInStep
<1>6. PlanIsDelta'
  BY <1>0, <1>1 DEF Kept, PlanIsDelta
<1>7. CursorCoversChanges'
  <2>1. ~ (stamp[u] < cursor)
    BY <1>4 DEF TypeOK
  <2> QED
    BY <1>0, <1>2, <2>1 DEF Kept, CursorCoversChanges
<1> QED
  BY <1>0, <1>1, <1>5, <1>6, <1>7 DEF Kept, TimesPast, RoundOnCursor

\* The new cursor passes what was fetched, which is in xray, and of the changes since
\* none but those that are passed over.
LEMMA SaveKeeps ==
  ASSUME IInv, SaveState
  PROVE  Kept'
<1> USE DEF IInv, Start, NoState
<1>0. UNCHANGED <<now, active, stamp, live>> /\ round'.pc = "rest"
  BY DEF SaveState, backendVars, Rest
<1>1. round.pc = "apply" /\ round.added \cup round.removed = {}
  BY DEF SaveState
<1>2. \/ cursor' = now - 1 /\ adrift' = adrift \cup PassedOver /\ base' = base
      \/ UNCHANGED <<cursor, base, adrift>>
      \/ cursor' = NoState
  BY DEF SaveState, NewCursor
<1>3. TimesPast'
  BY <1>0, <1>2 DEF Kept, TimesPast, TypeOK
<1>4. CursorCoversChanges'
  <2>1. CASE cursor' = now - 1 /\ adrift' = adrift \cup PassedOver /\ base' = base
    <3> SUFFICES ASSUME NEW u \in Users, u \notin adrift', base <= stamp[u],
                        stamp[u] < now - 1
                 PROVE  InStep(u)
      BY <1>0, <2>1 DEF CursorCoversChanges, InStep
    <3>1. u \notin adrift /\ u \notin during
      BY <2>1 DEF PassedOver
    <3> QED
      BY <3>1, <1>1 DEF Kept, RestInStep
  <2>2. CASE UNCHANGED <<cursor, base, adrift>>
    BY <1>0, <2>2 DEF Kept, CursorCoversChanges, InStep
  <2>3. CASE cursor' = NoState
    BY <2>3 DEF CursorCoversChanges
  <2> QED
    BY <1>2, <2>1, <2>2, <2>3
<1> QED
  BY <1>0, <1>3, <1>4 DEF Kept, RoundOnCursor, PlanIsDelta, RestInStep

-----------------------------------------------------------------------------
\* A crash of the agent ends the round, with the cursor there was or with none.
LEMMA CrashKeeps ==
  ASSUME IInv, AgentCrash
  PROVE  Kept'
<1>1. UNCHANGED <<now, active, stamp, live, adrift>> /\ round'.pc = "rest"
  BY DEF AgentCrash, backendVars, Rest
<1>2. \/ cursor' = cursor /\ base' = base
      \/ cursor' = NoState
  BY DEF AgentCrash
<1>3. TimesPast'
  BY <1>1, <1>2 DEF IInv, Kept, TimesPast, NoState, Start, TypeOK
<1> QED
  BY <1>1, <1>2, <1>3 DEF IInv, Kept, RoundOnCursor, PlanIsDelta, RestInStep,
                          CursorCoversChanges, InStep

\* The clock goes on, however long a round takes.
LEMMA TickKeeps ==
  ASSUME IInv, Tick
  PROVE  Kept'
<1> USE DEF IInv, Start
<1>1. UNCHANGED <<active, stamp, live, cursor, round, base, during, adrift>> /\ now' = now + 1
  BY DEF Tick, backendVars, historyVars
<1>2. TimesPast' /\ RoundOnCursor'
  BY <1>1 DEF Kept, TimesPast, RoundOnCursor, TypeOK
<1> QED
  BY <1>1, <1>2 DEF Kept, PlanIsDelta, RestInStep, CursorCoversChanges, InStep

\* A restart of xray is later than every change there has been.
LEMMA SetDestKeeps ==
  ASSUME IInv, SetDestRestart
  PROVE  Kept'
<1> USE DEF IInv
<1>1. UNCHANGED <<now, active, stamp, cursor, round, during>>
  BY DEF SetDestRestart, backendVars
<1>2. cursor # NoState => base' = now + 1
  BY DEF SetDestRestart
<1>3. \A u \in Users : cursor # NoState => ~ (base' <= stamp[u])
  BY <1>2 DEF Kept, TimesPast, TypeOK
<1>4. RestInStep' /\ CursorCoversChanges'
  BY <1>1, <1>3 DEF Kept, RoundOnCursor, RestInStep, CursorCoversChanges
<1> QED
  BY <1>1, <1>4 DEF Kept, TimesPast, RoundOnCursor, PlanIsDelta

\* A change at the backend is newer than any cursor and any fetch.
LEMMA ChangeKeeps ==
  ASSUME IInv, NEW u \in Users, Change(u)
  PROVE  Kept'
<1> USE DEF IInv
<1>1. UNCHANGED <<now, live, cursor, round, base>> /\ adrift' = adrift \ {u}
  BY DEF Change
<1>2. stamp'[u] = now /\ \A v \in Users \ {u} : stamp'[v] = stamp[v]
  BY DEF Change, TypeOK
<1>3. \A v \in Users \ {u} : v \in active' <=> v \in active
  BY DEF Change
<1>4. ~ (now < cursor) /\ (round.pc = "apply" => during' = during \cup {u})
  BY DEF Kept, TimesPast, Change, TypeOK
<1>5. \A v \in Users \ {u} : InStep(v)' = InStep(v)
  BY <1>1, <1>3 DEF InStep
<1>6. TimesPast' /\ RoundOnCursor'
  BY <1>1, <1>2 DEF Kept, TimesPast, RoundOnCursor, TypeOK
<1>7. CursorCoversChanges'
  BY <1>1, <1>2, <1>4, <1>5 DEF Kept, CursorCoversChanges
<1>8. RestInStep'
  BY <1>1, <1>2, <1>4, <1>5 DEF Kept, RestInStep
<1>9. PlanIsDelta'
  <2>1. round.pc = "apply" => round.since <= now
    BY DEF Kept, TimesPast, RoundOnCursor, TypeOK
  <2>2. round.added \subseteq Users /\ round.removed \subseteq Users
    BY DEF TypeOK
  <2> QED
    BY <2>1, <2>2, <1>1, <1>2, <1>3, <1>4 DEF Kept, PlanIsDelta
<1> QED
  BY <1>6, <1>7, <1>8, <1>9 DEF Kept

\* A push puts its user in step, or adrift if it is late; one that is lost does nothing.
LEMMA PushKeeps ==
  ASSUME IInv, NEW m \in pushes, Push(m) \/ LosePush(m)
  PROVE  Kept'
<1>1. UNCHANGED <<now, active, stamp, cursor, round, base, during>>
  BY DEF Push, LosePush, historyVars
<1>2. m.user \in Users /\ m.op \in {"add", "remove"}
  BY DEF IInv, TypeOK
<1>3. CASE LosePush(m)
  <2>1. UNCHANGED <<live, adrift>>
    BY <1>3 DEF LosePush, historyVars
  <2> QED
    BY <1>1, <2>1 DEF IInv, Kept, TimesPast, RoundOnCursor, PlanIsDelta, RestInStep,
                      CursorCoversChanges, InStep
<1>4. CASE Push(m)
  <2>1. m.user \in adrift' \/ InStep(m.user)'
    BY <1>1, <1>2, <1>4 DEF Push, InStep
  <2>2. ASSUME NEW v \in Users, v # m.user
        PROVE  (InStep(v)' = InStep(v)) /\ (v \in adrift' <=> v \in adrift)
    BY <1>1, <1>4, <2>2 DEF Push, InStep
  <2>3. \A v \in Users : v \notin adrift' => InStep(v)' \/ (v \notin adrift /\ InStep(v)' = InStep(v))
    BY <2>1, <2>2
  <2> QED
    BY <1>1, <2>3 DEF IInv, Kept, TimesPast, RoundOnCursor, PlanIsDelta, RestInStep,
                      CursorCoversChanges
<1> QED
  BY <1>3, <1>4

\* Every step keeps the invariant.
LEMMA StepKeeps == IInv /\ [Next]_vars => IInv'
<1> SUFFICES ASSUME IInv, [Next]_vars PROVE IInv'
  OBVIOUS
<1>1. CASE Round
  <2>1. Kept'
    BY <1>1, BeginKeeps, FetchKeeps, ApplyKeeps, SaveKeeps DEF Round
  <2> QED
    BY <2>1, <1>1, RoundTypes DEF IInv
<1>2. CASE \/ AgentCrash \/ Tick \/ SetDestRestart \/ \E u \in Users : Change(u)
           \/ \E m \in pushes : Push(m) \/ LosePush(m)
  <2>1. Kept'
    BY <1>2, CrashKeeps, TickKeeps, SetDestKeeps, ChangeKeeps, PushKeeps
  <2> QED
    BY <2>1, <1>2, OtherTypes DEF IInv
<1>3. CASE UNCHANGED vars
  BY <1>3 DEF vars, backendVars, boundVars, historyVars, IInv, Kept, TypeOK, TimesPast,
              RoundOnCursor, PlanIsDelta, RestInStep, CursorCoversChanges, InStep
<1> QED
  BY <1>1, <1>2, <1>3 DEF Next

\* The invariant holds in every reachable state.
THEOREM Invariant == Spec => []IInv
<1>1. Init => IInv
  BY Initially
<1>2. IInv /\ [Next]_vars => IInv'
  BY StepKeeps
<1> QED
  BY <1>1, <1>2, PTL DEF Spec

\* The clock, the pushes, the cursor and the round (schedule.go:16-44) keep their types.
THEOREM TypeCorrect == Spec => []TypeOK
<1>1. IInv => TypeOK
  BY DEF IInv
<1> QED
  BY <1>1, Invariant, PTL

\* The cursor of sync_state.json (schedule.go:16-44) never passes a change that is
\* not in xray, however long the rounds and whatever becomes of the pushes, but for
\* users that a late push or a round of more than a second set adrift.
THEOREM CursorCorrect == Spec => []CursorCoversChanges
<1>1. IInv => CursorCoversChanges
  BY DEF IInv, Kept
<1> QED
  BY <1>1, Invariant, PTL

=============================================================================
