--------------------------- MODULE TempSyncProofs ---------------------------
(***************************************************************************)
(* That between polls xray has the cached temporary users, for any users,  *)
(* any number of syncs at a time and any numbers of versions, failures and *)
(* restarts with a sync or without, under the proviso that CacheIsInXray   *)
(* states.  It is not inductive: the list is applied one RPC at a time,    *)
(* and so is the cache after a restart of xray, by one sync or by several. *)
(* InStep says what xray has half-way through either.                      *)
(***************************************************************************)
EXTENDS TempSync, TLAPS

\* A poller that has stored no list has none cached.
NothingCached == poller.pc = "startup" => cache.list = {}

\* What is to be added is in the list, and what is to be removed is not.
PlanIsDiff ==
  poller.pc = "apply" =>
    /\ poller.add \subseteq poller.answer.list
    /\ poller.remove \cap poller.answer.list = {}

\* A list that is being applied: what is not in xray has yet to be added, and what
\* else is there has yet to be removed or was left by a stopped agent.
ApplyInStep ==
  /\ poller.answer.list \subseteq live \cup poller.add
  /\ live \subseteq poller.answer.list \cup poller.remove \cup left

\* Only a ReInjectAll that is under way has users to add.
Tidy == \A s \in Syncs : reinject[s].pc # "add" => reinject[s].todo = {}

\* The cache that is being re-injected: a user that is not in xray has yet to be
\* added by a sync, or one is still to copy the cache.
Covered(u) ==
  u \in live \/ \E s \in Syncs : reinject[s].pc = "due" \/ u \in reinject[s].todo

ReInjectInStep ==
  /\ \A u \in cache.list : Covered(u)
  /\ \A s \in Syncs : reinject[s].todo \subseteq cache.list
  /\ live \subseteq cache.list \cup left

\* What xray has, as long as nothing failed, no sync met a poll and each restart of
\* xray had a sync to come.
InStep ==
  clean => IF poller.pc = "apply" THEN NoSync /\ ApplyInStep ELSE ReInjectInStep

IInv == TypeOK /\ NothingCached /\ PlanIsDiff /\ Tidy /\ InStep

-----------------------------------------------------------------------------
\* The initial state: xray and the cache are empty.
LEMMA Initially == Init => IInv
<1> SUFFICES ASSUME Init PROVE IInv
  OBVIOUS
<1>1. PICK list \in SUBSET Temp : server = Answer(1, list)
  BY DEF Init
<1>2. server \in [version : 1..MaxVersion, list : SUBSET Temp]
  BY <1>1, TempAssumption DEF Answer
<1>3. Answer(0, {}) \in [version : 0..MaxVersion, list : SUBSET Temp]
  BY TempAssumption DEF Answer
<1>4. cache \in [version : 0..MaxVersion, list : SUBSET Temp] /\ cache.list = {}
  BY <1>3 DEF Init, Answer
<1>5. poller \in [pc : {"startup", "poll", "apply"},
                  answer : [version : 0..MaxVersion, list : SUBSET Temp],
                  add : SUBSET Temp, remove : SUBSET Temp] /\ poller.pc = "startup"
  BY <1>3 DEF Init, Waiting
<1>6. /\ reinject \in [Syncs -> [pc : {"off", "due", "add"}, todo : SUBSET Temp]]
      /\ \A s \in Syncs : reinject[s].pc = "off" /\ reinject[s].todo = {}
  BY DEF Init, Off
<1>7. TypeOK
  BY <1>2, <1>4, <1>5, <1>6, TempAssumption DEF Init, TypeOK
<1>8. NothingCached /\ PlanIsDiff /\ Tidy
  BY <1>4, <1>5, <1>6 DEF NothingCached, PlanIsDiff, Tidy
<1>9. InStep
  BY <1>4, <1>5, <1>6 DEF Init, InStep, ReInjectInStep
<1> QED
  BY <1>7, <1>8, <1>9 DEF IInv

-----------------------------------------------------------------------------
\* Types.

\* The poller leaves the types of the state alone, whatever fails.
LEMMA PollerTypes ==
  ASSUME TypeOK, Poller \/ FetchFails
  PROVE  TypeOK'
<1> DEFINE List(least) == [version : least..MaxVersion, list : SUBSET Temp]
           Goroutine == [pc : {"startup", "poll", "apply"}, answer : List(0),
                         add : SUBSET Temp, remove : SUBSET Temp]
<1>0. /\ server \in List(1) /\ server \in List(0) /\ cache \in List(0)
      /\ poller \in Goroutine
  BY DEF TypeOK
<1>f. Fault => faults' \in 0..MaxFault
  BY TempAssumption DEF Fault, TypeOK
<1>w. Waiting("poll") \in Goroutine
  BY TempAssumption DEF Waiting, Answer
<1>b. ASSUME cache' \in List(0), poller' \in Goroutine, live' \subseteq Temp,
             faults' \in 0..MaxFault, clean' \in BOOLEAN, left' \subseteq live',
             UNCHANGED <<server, reinject, restarts, stops>>
      PROVE  TypeOK'
  BY <1>b DEF TypeOK
<1> HIDE DEF List
<1>l. ASSUME NEW pl \in List(0) PROVE pl.list \in SUBSET Temp
  BY <1>l DEF List
<1>1. CASE FetchFirst
  <2>1. poller' \in Goroutine
    BY <1>1, <1>0, <1>l DEF FetchFirst
  <2> QED
    BY <2>1, <1>1, <1>0, <1>b DEF FetchFirst, TypeOK, boundVars
<1>2. CASE Poll
  <2>1. poller' \in Goroutine
    <3>1. CASE server.version = cache.version
      BY <3>1, <1>2, <1>0 DEF Poll
    <3>2. CASE server.version # cache.version
      BY <3>2, <1>2, <1>0, <1>l DEF Poll
    <3> QED
      BY <3>1, <3>2
  <2>2. clean' \in BOOLEAN
    BY <1>2 DEF Poll, TypeOK
  <2> QED
    BY <2>1, <2>2, <1>2, <1>0, <1>b DEF Poll, TypeOK, boundVars
<1>3. CASE Store
  <2>1. poller' \in Goroutine /\ cache' \in List(0)
    BY <1>3, <1>0, <1>w DEF Store
  <2> QED
    BY <2>1, <1>3, <1>b DEF Store, TypeOK, boundVars, historyVars
<1>4. ASSUME NEW u \in Temp, Add(u) PROVE TypeOK'
  <2>1. poller' \in Goroutine
    BY <1>4, <1>0 DEF Add
  <2>2. live' \subseteq Temp /\ left' \subseteq live' /\ clean' \in BOOLEAN
    BY <1>4 DEF Add, TypeOK
  <2>3. faults' \in 0..MaxFault
    BY <1>4, <1>f DEF Add, TypeOK
  <2> QED
    BY <2>1, <2>2, <2>3, <1>4, <1>0, <1>b DEF Add
<1>5. ASSUME NEW u \in Temp, Remove(u) PROVE TypeOK'
  <2>1. poller' \in Goroutine
    BY <1>5, <1>0 DEF Remove
  <2>2. live' \subseteq Temp /\ left' \subseteq live' /\ clean' \in BOOLEAN
    BY <1>5 DEF Remove, TypeOK
  <2>3. faults' \in 0..MaxFault
    BY <1>5, <1>f DEF Remove, TypeOK
  <2> QED
    BY <2>1, <2>2, <2>3, <1>5, <1>0, <1>b DEF Remove
<1>6. CASE FetchFails
  BY <1>6, <1>0, <1>f, <1>b DEF FetchFails, TypeOK, historyVars
<1> QED
  BY <1>1, <1>2, <1>3, <1>4, <1>5, <1>6 DEF Poller

\* So do those of the syncs, of the restarts and of the backend.
LEMMA OtherTypes ==
  ASSUME TypeOK,
         \/ \E s \in Syncs : ReInjectAll(s)
         \/ Restart \/ AgentRestart \/ \E list \in SUBSET Temp : Change(list)
  PROVE  TypeOK'
<1> DEFINE Sync == [pc : {"off", "due", "add"}, todo : SUBSET Temp]
           ReInjector == [Syncs -> Sync]
<1>0. reinject \in ReInjector /\ cache.list \in SUBSET Temp
  BY DEF TypeOK
<1>f. Fault => faults' \in 0..MaxFault
  BY TempAssumption DEF Fault, TypeOK
<1>o. Off \in Sync
  BY DEF Off
<1>b. ASSUME reinject' \in ReInjector, live' \subseteq Temp, left' \subseteq live',
             faults' \in 0..MaxFault, restarts' \in 0..MaxRestart, clean' \in BOOLEAN,
             UNCHANGED <<server, cache, poller, stops>>
      PROVE  TypeOK'
  BY <1>b DEF TypeOK
<1>1. ASSUME NEW s \in Syncs, Snapshot(s) PROVE TypeOK'
  <2>1. [pc |-> "add", todo |-> cache.list] \in Sync
    BY <1>0
  <2>2. reinject' \in ReInjector
    BY <2>1, <1>1, <1>0 DEF Snapshot
  <2> QED
    BY <2>2, <1>1, <1>b DEF Snapshot, TypeOK, boundVars
<1>2. ASSUME NEW s \in Syncs, NEW u \in Temp, ReAdd(s, u) PROVE TypeOK'
  <2>1. reinject' \in ReInjector
    BY <1>2, <1>0 DEF ReAdd
  <2>2. live' \subseteq Temp /\ left' \subseteq live' /\ clean' \in BOOLEAN
    BY <1>2 DEF ReAdd, TypeOK
  <2>3. faults' \in 0..MaxFault
    BY <1>2, <1>f DEF ReAdd, TypeOK
  <2> QED
    BY <2>1, <2>2, <2>3, <1>2, <1>b DEF ReAdd, TypeOK
<1>3. ASSUME NEW s \in Syncs, ReInjected(s) PROVE TypeOK'
  <2>1. reinject' \in ReInjector
    BY <1>3, <1>0, <1>o DEF ReInjected
  <2> QED
    BY <2>1, <1>3, <1>b DEF ReInjected, TypeOK, boundVars, historyVars
<1>4. CASE Restart
  <2>1. reinject' \in ReInjector
    <3>1. [Off EXCEPT !.pc = "due"] \in Sync
      BY DEF Off
    <3>2. Launched => reinject' \in ReInjector
      BY <3>1, <1>0 DEF Launched
    <3> QED
      BY <3>2, <1>4, <1>0 DEF Restart
  <2>2. restarts' \in 0..MaxRestart
    BY <1>4, TempAssumption DEF Restart, TypeOK
  <2>3. clean' \in BOOLEAN
    BY <1>4 DEF Restart
  <2> QED
    BY <2>1, <2>2, <2>3, <1>4, <1>b DEF Restart, TypeOK
<1>5. CASE AgentRestart
  <2>1. Answer(0, {}) \in [version : 0..MaxVersion, list : SUBSET Temp]
    BY TempAssumption DEF Answer
  <2>2. cache' \in [version : 0..MaxVersion, list : SUBSET Temp]
    BY <2>1, <1>5 DEF AgentRestart
  <2>3. poller' \in [pc : {"startup", "poll", "apply"},
                     answer : [version : 0..MaxVersion, list : SUBSET Temp],
                     add : SUBSET Temp, remove : SUBSET Temp]
    BY <2>1, <1>5 DEF AgentRestart, Waiting
  <2>4. reinject' \in ReInjector
    BY <1>5, <1>o DEF AgentRestart
  <2>5. stops' \in 0..MaxStop
    BY <1>5, TempAssumption DEF AgentRestart, TypeOK
  <2> QED
    BY <2>2, <2>3, <2>4, <2>5, <1>5 DEF AgentRestart, TypeOK
<1>6. ASSUME NEW list \in SUBSET Temp, Change(list) PROVE TypeOK'
  <2>1. server' \in [version : 1..MaxVersion, list : SUBSET Temp]
    <3>1. server.version \in 1..MaxVersion /\ server.version < MaxVersion
      BY <1>6 DEF Change, TypeOK
    <3>2. server.version + 1 \in 1..MaxVersion
      BY <3>1, TempAssumption
    <3> QED
      BY <3>2, <1>6 DEF Change, Answer
  <2> QED
    BY <2>1, <1>6 DEF Change, TypeOK, boundVars, historyVars
<1> QED
  BY <1>1, <1>2, <1>3, <1>4, <1>5, <1>6 DEF ReInjectAll

-----------------------------------------------------------------------------
\* What a step keeps in step.
Kept == NothingCached /\ PlanIsDiff /\ Tidy /\ InStep

\* Without a sync under way, the cache that is in step is in xray.
LEMMA NoSyncHas ==
  ASSUME Tidy, NoSync, ReInjectInStep
  PROVE  Has(cache.list)
  BY DEF Tidy, NoSync, ReInjectInStep, Covered, Has

\* And the other way around.
LEMMA HasInStep ==
  ASSUME Tidy, NoSync, Has(cache.list)
  PROVE  ReInjectInStep
  BY DEF Tidy, NoSync, ReInjectInStep, Covered, Has

\* A list that is fetched is planned in full: the poller was between two polls, so
\* xray had the cached users if no ReInjectAll was under way.
LEMMA FetchKeeps ==
  ASSUME IInv, FetchFirst \/ Poll
  PROVE  Kept'
<1> USE DEF IInv
<1>0. UNCHANGED <<cache, reinject, live, left>>
  BY DEF FetchFirst, Poll
<1>1. CASE poller' = poller /\ clean' = clean
  BY <1>0, <1>1 DEF Kept, NothingCached, PlanIsDiff, Tidy, InStep, NoSync, ApplyInStep,
    ReInjectInStep, Covered
<1>2. CASE ~ (poller' = poller /\ clean' = clean)
  <2>1. /\ poller'.pc = "apply" /\ poller'.answer.list = server.list
        /\ poller'.add = server.list \ cache.list
        /\ poller'.remove = cache.list \ server.list
        /\ clean' = (clean /\ NoSync)
        /\ poller.pc # "apply"
    BY <1>2 DEF FetchFirst, Poll, NothingCached
  <2>2. clean' => NoSync /\ Has(cache.list)
    BY <2>1, NoSyncHas DEF InStep
  <2>3. clean' => NoSync' /\ ApplyInStep'
    BY <2>1, <2>2, <1>0 DEF ApplyInStep, Has, NoSync
  <2>4. Tidy'
    BY <1>0 DEF Tidy
  <2> QED
    BY <2>1, <2>3, <2>4 DEF Kept, NothingCached, PlanIsDiff, InStep
<1> QED
  BY <1>1, <1>2

\* One user is added: it was to be added, so it is in the list.
LEMMA AddKeeps ==
  ASSUME IInv, NEW u \in Temp, Add(u)
  PROVE  Kept'
<1> USE DEF IInv
<1>1. /\ poller'.pc = "apply" /\ poller'.answer = poller.answer
      /\ poller'.add = poller.add \ {u} /\ poller'.remove = poller.remove
      /\ poller.pc = "apply" /\ u \in poller.add
  BY DEF Add, TypeOK
<1>2. UNCHANGED <<cache, reinject, left>>
  BY DEF Add
<1>3. clean' => clean /\ live' = live \cup {u}
  BY DEF Add
<1>4. u \in poller.answer.list
  BY <1>1 DEF PlanIsDiff
<1>5. clean' => NoSync' /\ ApplyInStep'
  BY <1>1, <1>2, <1>3, <1>4 DEF InStep, ApplyInStep, NoSync
<1>6. Tidy'
  BY <1>2 DEF Tidy
<1> QED
  BY <1>1, <1>2, <1>5, <1>6 DEF Kept, NothingCached, PlanIsDiff, InStep

\* One user is removed: it was to be removed, so it is not in the list.
LEMMA RemoveKeeps ==
  ASSUME IInv, NEW u \in Temp, Remove(u)
  PROVE  Kept'
<1> USE DEF IInv
<1>1. /\ poller'.pc = "apply" /\ poller'.answer = poller.answer
      /\ poller'.add = poller.add /\ poller'.remove = poller.remove \ {u}
      /\ poller.pc = "apply" /\ u \in poller.remove
  BY DEF Remove, TypeOK
<1>2. UNCHANGED <<cache, reinject>>
  BY DEF Remove
<1>3. clean' => clean /\ live' = live \ {u} /\ left' = left \ {u}
  BY DEF Remove
<1>4. u \notin poller.answer.list
  BY <1>1 DEF PlanIsDiff
<1>5. clean' => NoSync' /\ ApplyInStep'
  BY <1>1, <1>2, <1>3, <1>4 DEF InStep, ApplyInStep, NoSync
<1>6. Tidy'
  BY <1>2 DEF Tidy
<1> QED
  BY <1>1, <1>2, <1>5, <1>6 DEF Kept, NothingCached, PlanIsDiff, InStep

\* The list is cached once nothing is left to add or remove.
LEMMA StoreKeeps ==
  ASSUME IInv, Store
  PROVE  Kept'
<1> USE DEF IInv
<1>1. poller'.pc = "poll" /\ cache'.list = poller.answer.list
  BY DEF Store, Waiting
<1>2. UNCHANGED <<reinject, live, left, clean>>
  BY DEF Store, historyVars
<1>3. Tidy'
  BY <1>2 DEF Tidy
<1>4. clean' => NoSync' /\ Has(cache.list)'
  BY <1>1, <1>2 DEF Store, InStep, ApplyInStep, Has, NoSync
<1>5. Tidy' /\ NoSync' /\ Has(cache.list)' => ReInjectInStep'
  BY DEF Tidy, NoSync, ReInjectInStep, Covered, Has
<1> QED
  BY <1>1, <1>3, <1>4, <1>5 DEF Kept, NothingCached, PlanIsDiff, InStep

\* A sync copies the cache and adds it user by user.
LEMMA ReInjectKeeps ==
  ASSUME IInv, NEW s \in Syncs, ReInjectAll(s)
  PROVE  Kept'
<1> USE DEF IInv
<1>0. UNCHANGED <<cache, poller, left>>
  BY DEF ReInjectAll, Snapshot, ReInjected, ReAdd, historyVars
<1>t. reinject \in [Syncs -> [pc : {"off", "due", "add"}, todo : SUBSET Temp]]
  BY DEF TypeOK
<1>p. (NothingCached /\ PlanIsDiff)'
  BY <1>0 DEF NothingCached, PlanIsDiff
<1>1. CASE Snapshot(s)
  <2>1. /\ reinject'[s].pc = "add" /\ reinject'[s].todo = cache.list
        /\ \A r \in Syncs \ {s} : reinject'[r] = reinject[r]
        /\ live' = live /\ clean' = (clean /\ poller.pc # "apply")
    BY <1>1, <1>t DEF Snapshot
  <2>2. clean' => ReInjectInStep'
    BY <2>1, <1>0 DEF InStep, ReInjectInStep, Covered
  <2>3. Tidy'
    BY <2>1 DEF Tidy
  <2> QED
    BY <2>1, <2>2, <2>3, <1>0, <1>p DEF Kept, InStep
<1>2. ASSUME NEW u \in Temp, ReAdd(s, u) PROVE Kept'
  <2>1. /\ reinject[s].pc = "add" /\ reinject'[s].pc = "add" /\ u \in reinject[s].todo
        /\ reinject'[s].todo = reinject[s].todo \ {u}
        /\ \A r \in Syncs \ {s} : reinject'[r] = reinject[r]
    BY <1>2, <1>t DEF ReAdd
  <2>2. clean' => clean /\ live' = live \cup {u}
    BY <1>2 DEF ReAdd
  <2>3. clean' => poller.pc # "apply"
    BY <2>1, <2>2 DEF InStep, NoSync
  <2>4. ASSUME clean' PROVE ReInjectInStep'
    <3>1. ReInjectInStep
      BY <2>2, <2>3, <2>4 DEF InStep
    <3>2. \A r \in Syncs : reinject'[r].pc = reinject[r].pc
                           /\ reinject'[r].todo \subseteq reinject[r].todo
                           /\ reinject[r].todo \subseteq reinject'[r].todo \cup {u}
      BY <2>1
    <3>3. ASSUME NEW v \in cache.list PROVE Covered(v)'
      BY <3>1, <3>2, <2>2, <2>4 DEF ReInjectInStep, Covered
    <3>4. live' \subseteq cache.list \cup left
      BY <3>1, <2>1, <2>2, <2>4 DEF ReInjectInStep
    <3> QED
      BY <3>1, <3>2, <3>3, <3>4, <1>0 DEF ReInjectInStep
  <2>5. Tidy'
    BY <2>1 DEF Tidy
  <2> QED
    BY <2>3, <2>4, <2>5, <1>0, <1>p DEF Kept, InStep
<1>3. CASE ReInjected(s)
  <2>1. /\ reinject[s].pc = "add" /\ reinject[s].todo = {}
        /\ reinject'[s].pc = "off" /\ reinject'[s].todo = {}
        /\ \A r \in Syncs \ {s} : reinject'[r] = reinject[r]
        /\ UNCHANGED <<live, clean>>
    BY <1>3, <1>t DEF ReInjected, Off, historyVars
  <2>2. clean => poller.pc # "apply"
    BY <2>1 DEF InStep, NoSync
  <2>3. ReInjectInStep => ReInjectInStep'
    BY <2>1, <1>0 DEF ReInjectInStep, Covered
  <2>4. Tidy'
    BY <2>1 DEF Tidy
  <2> QED
    BY <2>1, <2>2, <2>3, <2>4, <1>0, <1>p DEF Kept, InStep
<1> QED
  BY <1>1, <1>2, <1>3 DEF ReInjectAll

\* A restart of xray leaves it empty, one of the agent leaves its cache empty.
LEMMA RestartKeeps ==
  ASSUME IInv, Restart \/ AgentRestart
  PROVE  Kept'
<1> USE DEF IInv
<1>1. CASE Restart
  <2>1. /\ live' = {} /\ left' = {} /\ UNCHANGED <<cache, poller>>
        /\ clean' => /\ poller.pc # "apply"
                     /\ \E s \in Syncs : reinject'[s].pc = "due"
                     /\ \A s \in Syncs : reinject[s].todo \subseteq cache.list
    BY <1>1 DEF Restart
  <2>2. \A s \in Syncs : \/ reinject'[s] = reinject[s]
                         \/ reinject'[s].pc = "due" /\ reinject'[s].todo = {}
    BY <1>1 DEF Restart, Launched, Off, TypeOK
  <2>3. Tidy'
    BY <2>2 DEF Tidy
  <2>4. clean' => ReInjectInStep'
    BY <2>1, <2>2 DEF ReInjectInStep, Covered
  <2> QED
    BY <2>1, <2>3, <2>4 DEF Kept, NothingCached, PlanIsDiff, InStep
<1>2. CASE AgentRestart
  <2>1. /\ cache'.list = {} /\ poller'.pc = "startup"
        /\ \A s \in Syncs : reinject'[s].todo = {}
        /\ live' = live /\ left' = live
    BY <1>2 DEF AgentRestart, Answer, Waiting, Off
  <2> QED
    BY <2>1 DEF Kept, NothingCached, PlanIsDiff, Tidy, InStep, ReInjectInStep
<1> QED
  BY <1>1, <1>2

\* Every step keeps the invariant.
LEMMA StepKeeps == IInv /\ [Next]_vars => IInv'
<1> SUFFICES ASSUME IInv, [Next]_vars PROVE IInv'
  OBVIOUS
<1>1. CASE Poller
  <2>1. Kept'
    BY <1>1, FetchKeeps, AddKeeps, RemoveKeeps, StoreKeeps DEF Poller
  <2>2. TypeOK'
    BY <1>1, PollerTypes DEF IInv
  <2> QED
    BY <2>1, <2>2 DEF IInv, Kept
<1>2. CASE Restart \/ AgentRestart \/ \E s \in Syncs : ReInjectAll(s)
  <2>1. Kept'
    BY <1>2, ReInjectKeeps, RestartKeeps
  <2>2. TypeOK'
    BY <1>2, OtherTypes DEF IInv
  <2> QED
    BY <2>1, <2>2 DEF IInv, Kept
<1>3. ASSUME UNCHANGED <<cache, poller, reinject, live, clean, left>>, TypeOK'
      PROVE  IInv'
  BY <1>3 DEF IInv, NothingCached, PlanIsDiff, Tidy, InStep, NoSync, ApplyInStep,
    ReInjectInStep, Covered
<1>4. CASE FetchFails
  <2>1. TypeOK'
    BY <1>4, PollerTypes DEF IInv
  <2> QED
    BY <2>1, <1>3, <1>4 DEF FetchFails, historyVars
<1>5. CASE \E list \in SUBSET Temp : Change(list)
  <2>1. TypeOK'
    BY <1>5, OtherTypes DEF IInv
  <2> QED
    BY <2>1, <1>3, <1>5 DEF Change, historyVars
<1>6. CASE UNCHANGED vars
  <2>1. TypeOK'
    BY <1>6 DEF IInv, TypeOK, vars, boundVars, historyVars
  <2> QED
    BY <2>1, <1>3, <1>6 DEF vars, historyVars
<1> QED
  BY <1>1, <1>2, <1>4, <1>5, <1>6 DEF Next

\* The invariant holds in every reachable state.
THEOREM Invariant == Spec => []IInv
<1>1. Init => IInv
  BY Initially
<1>2. IInv /\ [Next]_vars => IInv'
  BY StepKeeps
<1> QED
  BY <1>1, <1>2, PTL DEF Spec

\* The cache, the poller and ReInjectAll (temp_sync.go) keep their types.
THEOREM TypeCorrect == Spec => []TypeOK
<1>1. IInv => TypeOK
  BY DEF IInv
<1> QED
  BY <1>1, Invariant, PTL

\* Between polls xray has the cached temporary users and no other but what a stopped
\* agent left, unless an RPC failed, a sync met a poll that applied a list, or xray's
\* last restart had no sync to come (temp_sync.go:55-122, schedule.go:119-134).
THEOREM CacheCorrect == Spec => []CacheIsInXray
<1>1. IInv => CacheIsInXray
  BY NoSyncHas DEF IInv, InStep, CacheIsInXray, Quiet
<1> QED
  BY <1>1, Invariant, PTL

=============================================================================
