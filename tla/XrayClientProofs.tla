-------------------------- MODULE XrayClientProofs --------------------------
(***************************************************************************)
(* What XrayClient guarantees for any number of callers, users, inbounds   *)
(* and clients: the cached client is the only open one, a client that      *)
(* failed leaves the cache, and no caller closes a client that did not     *)
(* fail.                                                                   *)
(***************************************************************************)
EXTENDS XrayClient, TLAPS

\* A call past getAPI holds a client that exists, and one that is about to drop
\* its client saw it fail.
HeldClients ==
  \A p \in Callers :
    /\ call[p].pc \notin {"idle", "get"} => call[p].api \in 1..opened
    /\ Working(p, "drop") => call[p].api \in suspect

\* A call between an RPC and its outcome is at one of its users.
AtUser ==
  \A p \in Callers : call[p].pc \in {"send", "served", "cut"} =>
                       call[p].todo \cap Pushed(p) # {}

IInv ==
  /\ TypeOK
  /\ CachedIsTheOpenOne
  /\ HeldClients
  /\ AtUser
  /\ FailedClientLeavesCache

-----------------------------------------------------------------------------
\* Init establishes the inductive invariant.
LEMMA InitIInv == Init => IInv
<1> SUFFICES ASSUME Init PROVE IInv
  OBVIOUS
<1>1. TypeOK
  BY ClientAssumption DEF Init, TypeOK, CallRecord, WatchdogRecord, Idle, Ops,
     Pcs, NoClient
<1>2. CachedIsTheOpenOne /\ HeldClients /\ AtUser /\ FailedClientLeavesCache
  BY DEF Init, CachedIsTheOpenOne, HeldClients, AtUser, FailedClientLeavesCache, Idle,
     Working, NoClient
<1> QED
  BY <1>1, <1>2 DEF IInv

\* What getAPI does to the clients: it hands out the cached client, which is
\* open, and a client it creates is one no caller has ever held.
LEMMA GetAPIFacts ==
  ASSUME TypeOK, CachedIsTheOpenOne, NEW c, GetAPI(c)
  PROVE  /\ opened' \in Nat /\ opened <= opened'
         /\ closed' \in SUBSET (1..opened')
         /\ c = xrayAPI' /\ c \in 1..opened' /\ c \in Nat
         /\ CachedIsTheOpenOne'
         /\ xrayAPI' \in suspect => xrayAPI' = xrayAPI
<1>1. CASE xrayAPI # NoClient
  <2>1. UNCHANGED <<opened, closed, xrayAPI>> /\ c = xrayAPI /\ xrayAPI \in 1..opened
    BY <1>1 DEF GetAPI, TypeOK, NoClient, clientVars
  <2> QED
    BY <2>1 DEF TypeOK, CachedIsTheOpenOne, Open
<1>2. CASE xrayAPI = NoClient
  <2>1. /\ c = opened + 1 /\ opened' = opened + 1 /\ xrayAPI' = opened + 1
        /\ closed' = closed
    BY <1>2 DEF GetAPI
  <2>2. opened \in Nat /\ \A d \in closed : d \in 1..opened
    BY DEF TypeOK
  <2>3. \A d \in 1..opened : d \in closed
    BY <1>2, <2>2 DEF CachedIsTheOpenOne, Open, NoClient
  <2>4. CachedIsTheOpenOne'
    <3> SUFFICES ASSUME NEW d \in 1..(opened + 1)
                 PROVE  d \notin closed <=> d = opened + 1
      BY <2>1 DEF CachedIsTheOpenOne, Open
    <3> QED
      BY <2>2, <2>3
  <2>5. closed' \in SUBSET (1..opened')
    BY <2>1, <2>2
  <2>6. opened + 1 \notin suspect
    BY <2>2 DEF TypeOK
  <2> QED
    BY <2>1, <2>2, <2>4, <2>5, <2>6
<1> QED
  BY <1>1, <1>2

\* A call record stays one when its fields are given values of their types.
LEMMA Fields ==
  ASSUME NEW r \in CallRecord, NEW pc \in Pcs, NEW at \in 1..Inbounds,
         NEW api \in Nat, NEW todo \in SUBSET Users
  PROVE  /\ [r EXCEPT !.pc = pc, !.at = at] \in CallRecord
         /\ [r EXCEPT !.pc = pc, !.todo = todo] \in CallRecord
         /\ [r EXCEPT !.api = api, !.pc = pc] \in CallRecord
  BY DEF CallRecord

\* A call record stays one when the caller moves on or returns.
LEMMA CallTypes ==
  ASSUME TypeOK, NEW p \in Callers
  PROVE  /\ \A pc \in Pcs : [call EXCEPT ![p].pc = pc] \in [Callers -> CallRecord]
         /\ \A ret \in {"none", "ok", "err"} :
              Return(p, ret) => call' \in [Callers -> CallRecord]
<1>1. call \in [Callers -> CallRecord] /\ call[p] \in CallRecord
  BY DEF TypeOK
<1>2. ASSUME NEW pc \in Pcs
      PROVE  [call EXCEPT ![p].pc = pc] \in [Callers -> CallRecord]
  BY <1>1 DEF CallRecord
<1>3. ASSUME NEW ret \in {"none", "ok", "err"}, Return(p, ret)
      PROVE  call' \in [Callers -> CallRecord]
  <2>1. Idle("none", {}, ret) \in CallRecord
    BY ClientAssumption DEF CallRecord, Idle, Pcs, Ops, NoClient
  <2>2. call' = [call EXCEPT ![p] = Idle("none", {}, ret)]
    BY <1>3 DEF Return
  <2> QED
    BY <1>1, <2>1, <2>2
<1> QED
  BY <1>2, <1>3

\* Every step of a call preserves the types.
LEMMA StepTypes ==
  ASSUME TypeOK, CachedIsTheOpenOne, HeldClients, AtUser, NEW p \in Callers, Step(p)
  PROVE  TypeOK'
<1> USE ClientAssumption
<1>1. CASE Get(p)
  <2>1. PICK c \in 1..(opened + 1) :
          /\ GetAPI(c)
          /\ call' = [call EXCEPT ![p].api = c,
                        ![p].pc = IF call[p].op = "inject" THEN "ready" ELSE "next"]
    BY <1>1 DEF Get
  <2>2. call' \in [Callers -> CallRecord]
    <3>1. c \in Nat
      BY <2>1, GetAPIFacts
    <3> DEFINE pc == IF call[p].op = "inject" THEN "ready" ELSE "next"
    <3>a. call[p] \in CallRecord /\ pc \in Pcs /\ 1 \in 1..Inbounds /\ {} \in SUBSET Users
      BY DEF TypeOK, Pcs
    <3>2. [call[p] EXCEPT !.api = c, !.pc = pc] \in CallRecord
      BY <3>1, <3>a, Fields
    <3>3. call' = [call EXCEPT ![p] = [call[p] EXCEPT !.api = c,
                     !.pc = IF call[p].op = "inject" THEN "ready" ELSE "next"]]
      BY <2>1 DEF TypeOK
    <3> QED
      BY <3>2, <3>3 DEF TypeOK
  <2> QED
    BY <1>1, <2>1, <2>2, GetAPIFacts DEF Get, TypeOK, daemonVars
<1>2. CASE GetFails(p)
  BY <1>2, CallTypes DEF GetFails, TypeOK, daemonVars, clientVars
<1>3. CASE Ready(p)
  BY <1>3, CallTypes DEF Ready, TypeOK, daemonVars, clientVars, Pcs
<1>4. CASE NotReady(p)
  BY <1>4, CallTypes DEF NotReady, TypeOK, daemonVars, clientVars
<1>5. CASE NextUser(p)
  <2>1. CASE Return(p, "ok")
    BY <1>5, <2>1, CallTypes DEF NextUser, TypeOK, daemonVars, clientVars
  <2>2. CASE call' = [call EXCEPT ![p].pc = "send", ![p].at = 1]
    <3>a. /\ call[p] \in CallRecord /\ "send" \in Pcs /\ 1 \in 1..Inbounds
          /\ 0 \in Nat /\ {} \in SUBSET Users
      BY DEF TypeOK, Pcs
    <3>1. [call[p] EXCEPT !.pc = "send", !.at = 1] \in CallRecord
      BY <3>a, Fields
    <3>2. call' = [call EXCEPT ![p] = [call[p] EXCEPT !.pc = "send", !.at = 1]]
      BY <2>2 DEF TypeOK
    <3>3. call' \in [Callers -> CallRecord]
      BY <3>1, <3>2 DEF TypeOK
    <3> QED
      BY <1>5, <2>2, <3>3 DEF NextUser, TypeOK, daemonVars, clientVars
  <2> QED
    BY <1>5, <2>1, <2>2 DEF NextUser
<1>6. CASE Serve(p)
  <2>1. live' \in [1..Inbounds -> SUBSET Users]
    <3>1. PICK at \in 1..Inbounds : at = call[p].at
      BY DEF TypeOK, CallRecord
    <3>2. CASE call[p].op = "remove"
      BY <1>6, <3>1, <3>2 DEF Serve, TypeOK
    <3>3. CASE call[p].op # "remove"
      <4>1. Current(p) \in Users
        BY <1>6 DEF Serve, Working, AtUser, Current, TypeOK, CallRecord
      <4> QED
        BY <1>6, <3>1, <3>3, <4>1 DEF Serve, TypeOK
    <3> QED
      BY <3>2, <3>3
  <2> QED
    BY <1>6, <2>1, CallTypes DEF Serve, TypeOK, clientVars, Pcs
<1>7. CASE Answer(p)
  <2>0. /\ call[p] \in CallRecord /\ call \in [Callers -> CallRecord]
        /\ {"send", "next"} \subseteq Pcs /\ 1 \in 1..Inbounds
        /\ 0 \in Nat /\ {} \in SUBSET Users
    BY DEF TypeOK, Pcs
  <2>1. ASSUME call[p].at < Inbounds PROVE call' \in [Callers -> CallRecord]
    <3>1. call[p].at + 1 \in 1..Inbounds
      BY <2>0, <2>1 DEF CallRecord
    <3>2. [call[p] EXCEPT !.pc = "send", !.at = call[p].at + 1] \in CallRecord
      BY <2>0, <3>1, Fields
    <3>3. call' = [call EXCEPT ![p] = [call[p] EXCEPT !.pc = "send", !.at = call[p].at + 1]]
      BY <1>7, <2>0, <2>1 DEF Answer
    <3> QED
      BY <2>0, <3>2, <3>3
  <2>2. ASSUME ~(call[p].at < Inbounds) PROVE call' \in [Callers -> CallRecord]
    <3>1. call[p].todo \ {Current(p)} \in SUBSET Users
      BY <2>0 DEF CallRecord
    <3>2. [call[p] EXCEPT !.pc = "next", !.todo = call[p].todo \ {Current(p)}] \in CallRecord
      BY <2>0, <3>1, Fields
    <3>3. call' = [call EXCEPT ![p] =
                     [call[p] EXCEPT !.pc = "next", !.todo = call[p].todo \ {Current(p)}]]
      BY <1>7, <2>0, <2>2 DEF Answer
    <3> QED
      BY <2>0, <3>2, <3>3
  <2>3. call' \in [Callers -> CallRecord]
    BY <2>1, <2>2
  <2> QED
    BY <1>7, <2>3 DEF Answer, TypeOK, daemonVars, clientVars
<1>8. CASE ConnectionError(p)
  <2>1. suspect' \in SUBSET (1..opened)
    <3>1. call[p].api \in 1..opened
      BY <1>8 DEF ConnectionError, HeldClients
    <3>2. suspect' = suspect \/ suspect' = suspect \cup {call[p].api}
      BY <1>8 DEF ConnectionError
    <3> QED
      BY <3>1, <3>2 DEF TypeOK
  <2>2. call' \in [Callers -> CallRecord]
    <3>1. CASE call[p].op = "inject"
      BY <1>8, <3>1, CallTypes DEF ConnectionError
    <3>2. CASE call[p].op # "inject"
      <4>1. call' = [call EXCEPT ![p].pc = "drop"]
        BY <1>8, <3>2 DEF ConnectionError
      <4> QED
        BY <4>1, CallTypes DEF TypeOK, Pcs
    <3> QED
      BY <3>1, <3>2
  <2> QED
    BY <1>8, <2>1, <2>2 DEF ConnectionError, TypeOK, daemonVars, clientVars
<1>9. CASE OtherError(p)
  BY <1>9, CallTypes DEF OtherError, TypeOK, daemonVars, clientVars
<1>10. CASE Drop(p)
  <2>1. closed' \in SUBSET (1..opened) /\ xrayAPI' \in 0..opened
    <3>1. call[p].api \in 1..opened
      BY <1>10 DEF Drop, HeldClients, Working
    <3>2. \/ closed' = closed \cup {call[p].api} /\ xrayAPI' = 0
          \/ closed' = closed /\ xrayAPI' = xrayAPI
      BY <1>10 DEF Drop, DropClient, NoClient
    <3>3. closed \in SUBSET (1..opened) /\ xrayAPI \in 0..opened /\ opened \in Nat
      BY DEF TypeOK
    <3>4. closed' \in SUBSET (1..opened)
      BY <3>1, <3>2, <3>3
    <3>5. xrayAPI' \in 0..opened
      BY <3>2, <3>3
    <3> QED
      BY <3>4, <3>5
  <2> QED
    BY <1>10, <2>1, CallTypes DEF Drop, TypeOK, daemonVars
<1> QED
  BY <1>1, <1>2, <1>3, <1>4, <1>5, <1>6, <1>7, <1>8, <1>9, <1>10 DEF Step

\* So does every step of xray and of the watchdog, and a new call.
LEMMA OtherTypes ==
  ASSUME TypeOK, CachedIsTheOpenOne,
         \/ \E p \in Callers, r \in Requests : Begin(p, r[1], r[2])
         \/ Crash \/ Recover \/ Watchdog
  PROVE  TypeOK'
<1> USE ClientAssumption
<1>1. ASSUME NEW p \in Callers, NEW r \in Requests, Begin(p, r[1], r[2])
      PROVE  TypeOK'
  <2>1. r[1] \in {"add", "remove", "inject"} /\ r[2] \in SUBSET Users
    OBVIOUS
  <2>2. [Idle(r[1], r[2], "none") EXCEPT !.pc = "get", !.todo = r[2]] \in CallRecord
    <3>1. Idle(r[1], r[2], "none") \in CallRecord
      BY <2>1 DEF Idle, CallRecord, Pcs, Ops, NoClient
    <3>2. "get" \in Pcs /\ 1 \in 1..Inbounds /\ 0 \in Nat
      BY DEF Pcs
    <3> QED
      BY <2>1, <3>1, <3>2, Fields
  <2>3. call' \in [Callers -> CallRecord]
    BY <1>1, <2>2 DEF Begin, TypeOK
  <2> QED
    BY <1>1, <2>3 DEF Begin, TypeOK, clientVars, daemonVars
<1>2. ASSUME LoseMemory
      PROVE  /\ live' \in [1..Inbounds -> SUBSET Users]
             /\ call' \in [Callers -> CallRecord]
  <2>1. \A p \in Callers : [call[p] EXCEPT !.pc = "cut"] \in CallRecord
    BY DEF TypeOK, CallRecord, Pcs
  <2>2. call' \in [Callers -> CallRecord]
    BY <1>2, <2>1 DEF LoseMemory, TypeOK
  <2> QED
    BY <1>2, <2>2 DEF LoseMemory
<1>3. CASE Crash
  <2>1. LoseMemory /\ up' = FALSE /\ crashes' = crashes + 1
    BY <1>3 DEF Crash
  <2>2. UNCHANGED <<opened, closed, xrayAPI, wd, suspect>>
    BY <1>3 DEF Crash, clientVars
  <2>3. up' \in BOOLEAN /\ crashes' \in Nat
    <3>1. up' = FALSE => up' \in BOOLEAN
      BY Zenon
    <3>2. up' = FALSE
      BY <2>1, Zenon
    <3>3. crashes' \in Nat
      BY <2>1 DEF TypeOK
    <3> QED
      BY <3>1, <3>2, <3>3
  <2>4. LoseMemory
    BY <2>1
  <2> QED
    BY <1>2, <2>2, <2>3, <2>4 DEF TypeOK
<1>4. CASE Recover
  BY <1>4 DEF Recover, TypeOK, clientVars
<1>5. CASE Tick
  <2>1. PICK c \in 0..(opened + 1) :
          /\ \/ GetAPI(c)
             \/ c = NoClient /\ xrayAPI = NoClient /\ UNCHANGED clientVars
          /\ wd' = [wd EXCEPT !.pc = "probe", !.api = c]
    BY <1>5 DEF Tick
  <2>2. wd' \in WatchdogRecord
    <3>1. c \in Nat /\ wd \in WatchdogRecord
      BY <2>1 DEF TypeOK
    <3>2. [wd EXCEPT !.pc = "probe", !.api = c] \in WatchdogRecord
      BY <3>1 DEF WatchdogRecord
    <3> QED
      BY <2>1, <3>2
  <2>3. CASE GetAPI(c)
    BY <1>5, <2>2, <2>3, GetAPIFacts DEF Tick, TypeOK, daemonVars
  <2>4. CASE UNCHANGED clientVars
    BY <1>5, <2>2, <2>4 DEF Tick, TypeOK, clientVars, daemonVars
  <2> QED
    BY <2>1, <2>3, <2>4
<1>6. CASE Healthy
  BY <1>6 DEF Healthy, TypeOK, WatchdogRecord, NoClient, clientVars, daemonVars
<1>7. CASE Unhealthy
  <2>1. wd' \in WatchdogRecord
    <3>1. CASE wd.fails + 1 < 2
      <4>1. wd' = [pc |-> "watch", fails |-> wd.fails + 1, api |-> NoClient]
        BY <1>7, <3>1 DEF Unhealthy
      <4>2. wd.fails + 1 \in 0..1
        BY <3>1 DEF TypeOK, WatchdogRecord
      <4> QED
        BY <4>1, <4>2 DEF WatchdogRecord, NoClient
    <3>2. CASE ~(wd.fails + 1 < 2)
      BY <1>7, <3>2 DEF Unhealthy, WatchdogRecord, NoClient
    <3> QED
      BY <3>1, <3>2
  <2> QED
    BY <1>7, <2>1 DEF Unhealthy, TypeOK, clientVars, daemonVars
<1>8. CASE CloseBeforeRestart
  <2>1. closed' = closed \cup ({xrayAPI} \ {0}) /\ xrayAPI' = 0
    BY <1>8 DEF CloseBeforeRestart, CloseCached, NoClient
  <2>2. closed \in SUBSET (1..opened) /\ xrayAPI \in 0..opened /\ opened \in Nat
    BY DEF TypeOK
  <2>3. {xrayAPI} \ {0} \in SUBSET (1..opened)
    BY <2>2
  <2>4. closed' \in SUBSET (1..opened) /\ xrayAPI' \in 0..opened
    BY <2>1, <2>2, <2>3
  <2> QED
    BY <1>8, <2>4 DEF CloseBeforeRestart, TypeOK, WatchdogRecord, daemonVars
<1>9. CASE Restart
  BY <1>2, <1>9 DEF Restart, TypeOK, WatchdogRecord, clientVars
<1>10. CASE RestartFails
  BY <1>10 DEF RestartFails, TypeOK, WatchdogRecord, clientVars, daemonVars
<1> QED
  BY <1>1, <1>3, <1>4, <1>5, <1>6, <1>7, <1>8, <1>9, <1>10 DEF Watchdog

-----------------------------------------------------------------------------
\* A step of p changes no record but p's.
LEMMA OnlyItsRecord ==
  ASSUME TypeOK, NEW p \in Callers, Step(p)
  PROVE  \A q \in Callers \ {p} : call'[q] = call[q]
BY DEF Step, Get, GetFails, Ready, NotReady, NextUser, Serve, Answer,
   ConnectionError, OtherError, Drop, Return, TypeOK

ClientInv == CachedIsTheOpenOne /\ HeldClients /\ FailedClientLeavesCache

\* A step of p that leaves the clients alone, starts and ends outside "drop" and
\* keeps p's client preserves what is known of the clients.
LEMMA QuietStep ==
  ASSUME TypeOK, ClientInv, NEW p \in Callers,
         UNCHANGED <<opened, closed, xrayAPI, suspect>>,
         \A q \in Callers \ {p} : call'[q] = call[q],
         call[p].pc # "drop", call'[p].pc # "drop",
         call'[p].pc \notin {"idle", "get"} =>
           call[p].pc \notin {"idle", "get"} /\ call'[p].api = call[p].api
  PROVE  ClientInv'
<1>1. CachedIsTheOpenOne'
  BY DEF ClientInv, CachedIsTheOpenOne, Open
<1>2. HeldClients'
  BY DEF ClientInv, HeldClients, Working
<1>3. FailedClientLeavesCache'
  BY DEF ClientInv, FailedClientLeavesCache, Working
<1> QED
  BY <1>1, <1>2, <1>3 DEF ClientInv

\* The client that getAPI hands out is no failed one, unless some other caller
\* is about to drop it.
LEMMA GetStep ==
  ASSUME TypeOK, ClientInv, NEW p \in Callers, Get(p)
  PROVE  ClientInv'
<1>1. PICK c \in 1..(opened + 1) :
        /\ GetAPI(c)
        /\ call' = [call EXCEPT ![p].api = c,
                      ![p].pc = IF call[p].op = "inject" THEN "ready" ELSE "next"]
  BY DEF Get
<1>2. /\ opened' \in Nat /\ opened <= opened' /\ c \in 1..opened'
      /\ CachedIsTheOpenOne'
      /\ xrayAPI' \in suspect => xrayAPI' = xrayAPI
  BY <1>1, GetAPIFacts DEF ClientInv
<1>3. /\ call'[p].api = c /\ call'[p].pc \in {"ready", "next"}
      /\ \A q \in Callers \ {p} : call'[q] = call[q]
      /\ call[p].pc = "get" /\ suspect' = suspect
  BY <1>1 DEF TypeOK, CallRecord, Get, Working
<1>4. HeldClients'
  <2> SUFFICES ASSUME NEW q \in Callers
               PROVE  /\ call'[q].pc \notin {"idle", "get"} => call'[q].api \in 1..opened'
                      /\ call'[q].pc = "drop" => call'[q].api \in suspect'
    BY DEF HeldClients, Working
  <2>1. CASE q = p
    BY <1>2, <1>3, <2>1
  <2>2. CASE q # p
    BY <1>2, <1>3, <2>2 DEF ClientInv, HeldClients, Working, TypeOK
  <2> QED
    BY <2>1, <2>2
<1>5. FailedClientLeavesCache'
  <2> SUFFICES ASSUME xrayAPI' \in suspect
               PROVE  \E q \in Callers : call'[q].pc = "drop" /\ call'[q].api = xrayAPI'
    BY <1>3 DEF FailedClientLeavesCache, Working
  <2>1. PICK q \in Callers : call[q].pc = "drop" /\ call[q].api = xrayAPI
    BY <1>2 DEF ClientInv, FailedClientLeavesCache, Working
  <2> QED
    BY <1>2, <1>3, <2>1
<1> QED
  BY <1>2, <1>4, <1>5 DEF ClientInv

\* A connection error makes the client suspect and its caller due to drop it.
LEMMA ErrorStep ==
  ASSUME TypeOK, ClientInv, NEW p \in Callers, ConnectionError(p)
  PROVE  ClientInv'
<1>1. /\ UNCHANGED <<opened, closed, xrayAPI>>
      /\ call[p].pc \in {"send", "served", "cut"}
      /\ \A q \in Callers \ {p} : call'[q] = call[q]
  BY DEF ConnectionError, clientVars, Return, TypeOK
<1>2. CASE call[p].op = "inject"
  <2>1. call'[p].pc = "idle" /\ suspect' = suspect
    BY <1>2 DEF ConnectionError, Return, Idle, TypeOK
  <2> QED
    BY <1>1, <2>1, QuietStep
<1>3. CASE call[p].op # "inject"
  <2>1. /\ call'[p].pc = "drop" /\ call'[p].api = call[p].api
        /\ suspect' = suspect \cup {call[p].api}
    BY <1>3 DEF ConnectionError, TypeOK, CallRecord
  <2>2. CachedIsTheOpenOne'
    BY <1>1 DEF ClientInv, CachedIsTheOpenOne, Open
  <2>3. HeldClients'
    BY <1>1, <2>1 DEF ClientInv, HeldClients, Working
  <2>4. FailedClientLeavesCache'
    BY <1>1, <2>1 DEF ClientInv, FailedClientLeavesCache, Working
  <2> QED
    BY <2>2, <2>3, <2>4 DEF ClientInv
<1> QED
  BY <1>2, <1>3

\* The caller that drops its client either closes the cached one, which is its
\* own, or finds another one cached and leaves it alone.
LEMMA DropStep ==
  ASSUME TypeOK, ClientInv, NEW p \in Callers, Drop(p)
  PROVE  ClientInv'
<1>1. /\ opened' = opened /\ suspect' = suspect
      /\ call[p].pc = "drop" /\ call'[p].pc = "idle"
      /\ \A q \in Callers \ {p} : call'[q] = call[q]
  BY DEF Drop, Working, Return, Idle, TypeOK
<1>2. CASE xrayAPI = call[p].api
  <2>1. closed' = closed \cup {xrayAPI} /\ xrayAPI' = 0
    BY <1>2 DEF Drop, DropClient, NoClient
  <2>2. CachedIsTheOpenOne'
    BY <1>1, <2>1 DEF ClientInv, CachedIsTheOpenOne, Open, TypeOK
  <2>3. HeldClients'
    BY <1>1 DEF ClientInv, HeldClients, Working
  <2>4. 0 \notin suspect
    BY DEF TypeOK
  <2> QED
    BY <1>1, <2>1, <2>2, <2>3, <2>4 DEF ClientInv, FailedClientLeavesCache
<1>3. CASE xrayAPI # call[p].api
  <2>1. closed' = closed /\ xrayAPI' = xrayAPI
    BY <1>3 DEF Drop, DropClient
  <2>2. CachedIsTheOpenOne'
    BY <1>1, <2>1 DEF ClientInv, CachedIsTheOpenOne, Open
  <2>3. HeldClients'
    BY <1>1 DEF ClientInv, HeldClients, Working
  <2>4. FailedClientLeavesCache'
    BY <1>1, <1>3, <2>1 DEF ClientInv, FailedClientLeavesCache, Working
  <2> QED
    BY <2>2, <2>3, <2>4 DEF ClientInv
<1> QED
  BY <1>2, <1>3

\* Every step of a call preserves what is known of the clients.
LEMMA StepClients ==
  ASSUME TypeOK, ClientInv, NEW p \in Callers, Step(p)
  PROVE  ClientInv'
<1>1. CASE Get(p)
  BY <1>1, GetStep
<1>2. CASE ConnectionError(p)
  BY <1>2, ErrorStep
<1>3. CASE Drop(p)
  BY <1>3, DropStep
<1>4. CASE GetFails(p) \/ NotReady(p) \/ OtherError(p)
  <2>1. call'[p].pc = "idle" /\ UNCHANGED <<opened, closed, xrayAPI, suspect>>
    BY <1>4 DEF GetFails, NotReady, OtherError, Return, Idle, TypeOK, clientVars
  <2>2. call[p].pc # "drop"
    BY <1>4 DEF GetFails, NotReady, OtherError, Working
  <2> QED
    BY <2>1, <2>2, QuietStep, OnlyItsRecord
<1>5. CASE Ready(p) \/ NextUser(p) \/ Serve(p) \/ Answer(p)
  <2>1. UNCHANGED <<opened, closed, xrayAPI, suspect>>
    BY <1>5 DEF Ready, NextUser, Serve, Answer, clientVars
  <2>2. call[p].pc \in {"ready", "next", "send", "served"}
    BY <1>5 DEF Ready, NextUser, Serve, Answer, Working
  <2>3. /\ call'[p].pc \in {"idle", "next", "send", "served"}
        /\ call'[p].pc # "idle" => call'[p].api = call[p].api
    BY <1>5 DEF Ready, NextUser, Serve, Answer, Return, Idle, TypeOK, CallRecord
  <2> QED
    BY <2>1, <2>2, <2>3, QuietStep, OnlyItsRecord
<1> QED
  BY <1>1, <1>2, <1>3, <1>4, <1>5 DEF Step

\* So does a new call, xray losing its memory, and the watchdog.
LEMMA OtherClients ==
  ASSUME TypeOK, ClientInv,
         \/ \E p \in Callers, r \in Requests : Begin(p, r[1], r[2])
         \/ Crash \/ Recover \/ Watchdog
  PROVE  ClientInv'
<1>1. ASSUME NEW p \in Callers, NEW r \in Requests, Begin(p, r[1], r[2])
      PROVE  ClientInv'
  <2>1. /\ UNCHANGED <<opened, closed, xrayAPI, suspect>>
        /\ \A q \in Callers \ {p} : call'[q] = call[q]
        /\ call[p].pc = "idle"
    BY <1>1 DEF Begin, Busy, TypeOK, clientVars
  <2>2. call'[p].pc = "get"
    BY <1>1 DEF Begin, Idle, TypeOK
  <2> QED
    BY <2>1, <2>2, QuietStep
<1>2. ASSUME UNCHANGED <<opened, closed, xrayAPI, suspect>>,
             \A p \in Callers :
               \/ call'[p] = call[p]
               \/ /\ call[p].pc = "served" /\ call'[p].pc = "cut"
                  /\ call'[p].api = call[p].api
      PROVE  ClientInv'
  <2>1. CachedIsTheOpenOne'
    BY <1>2 DEF ClientInv, CachedIsTheOpenOne, Open
  <2>2. HeldClients'
    BY <1>2 DEF ClientInv, HeldClients, Working
  <2>3. FailedClientLeavesCache'
    <3> SUFFICES ASSUME xrayAPI \in suspect
                 PROVE  \E p \in Callers : call'[p].pc = "drop" /\ call'[p].api = xrayAPI
      BY <1>2 DEF FailedClientLeavesCache, Working
    <3>1. PICK p \in Callers : call[p].pc = "drop" /\ call[p].api = xrayAPI
      BY DEF ClientInv, FailedClientLeavesCache, Working
    <3> QED
      BY <1>2, <3>1
  <2> QED
    BY <2>1, <2>2, <2>3 DEF ClientInv
<1>3. ASSUME LoseMemory
      PROVE  \A p \in Callers :
               \/ call'[p] = call[p]
               \/ /\ call[p].pc = "served" /\ call'[p].pc = "cut"
                  /\ call'[p].api = call[p].api
  BY <1>3 DEF LoseMemory, Working, TypeOK, CallRecord
<1>4. CASE Crash
  BY <1>2, <1>3, <1>4 DEF Crash, clientVars
<1>5. CASE Restart
  BY <1>2, <1>3, <1>5 DEF Restart, clientVars
<1>6. CASE Recover \/ Healthy \/ Unhealthy \/ RestartFails
  BY <1>2, <1>6 DEF Recover, Healthy, Unhealthy, RestartFails, clientVars
<1>7. CASE Tick
  <2>1. PICK c \in 0..(opened + 1) :
          GetAPI(c) \/ (c = NoClient /\ xrayAPI = NoClient /\ UNCHANGED clientVars)
    BY <1>7 DEF Tick
  <2>2. call' = call /\ suspect' = suspect
    BY <1>7 DEF Tick
  <2>3. CASE GetAPI(c)
    <3>1. /\ opened' \in Nat /\ opened <= opened'
          /\ CachedIsTheOpenOne'
          /\ xrayAPI' \in suspect => xrayAPI' = xrayAPI
      BY <2>3, GetAPIFacts DEF ClientInv
    <3>2. HeldClients'
      BY <2>2, <3>1 DEF ClientInv, HeldClients, Working, TypeOK
    <3>3. FailedClientLeavesCache'
      BY <2>2, <3>1 DEF ClientInv, FailedClientLeavesCache, Working
    <3> QED
      BY <3>1, <3>2, <3>3 DEF ClientInv
  <2>4. CASE UNCHANGED clientVars
    BY <1>2, <2>2, <2>4 DEF clientVars
  <2> QED
    BY <2>1, <2>3, <2>4
<1>8. CASE CloseBeforeRestart
  <2>1. /\ closed' = closed \cup ({xrayAPI} \ {0}) /\ xrayAPI' = 0
        /\ UNCHANGED <<opened, call, suspect>>
    BY <1>8 DEF CloseBeforeRestart, CloseCached, NoClient
  <2>2. CachedIsTheOpenOne'
    BY <2>1 DEF ClientInv, CachedIsTheOpenOne, Open, TypeOK
  <2>3. HeldClients'
    BY <2>1 DEF ClientInv, HeldClients, Working
  <2>4. 0 \notin suspect
    BY DEF TypeOK
  <2> QED
    BY <2>1, <2>2, <2>3, <2>4 DEF ClientInv, FailedClientLeavesCache
<1> QED
  BY <1>1, <1>4, <1>5, <1>6, <1>7, <1>8 DEF Watchdog

\* A call between an RPC and its outcome stays at one of its users: the loop
\* leaves a user only between RPCs.
LEMMA AtUserStep == TypeOK /\ AtUser /\ [Next]_vars => AtUser'
<1> SUFFICES ASSUME TypeOK, AtUser, [Next]_vars, NEW q \in Callers,
                    call'[q].pc \in {"send", "served", "cut"}
             PROVE  (call[q].todo \cap Pushed(q) # {})'
  BY DEF AtUser
<1> DEFINE same == /\ call'[q].todo = call[q].todo
                   /\ call'[q].op = call[q].op /\ call'[q].users = call[q].users
<1>1. ASSUME same, call[q].todo \cap Pushed(q) # {}
      PROVE  (call[q].todo \cap Pushed(q) # {})'
  BY <1>1 DEF Pushed
<1>2. ASSUME same, call[q].pc \in {"send", "served", "cut"}
      PROVE  (call[q].todo \cap Pushed(q) # {})'
  BY <1>1, <1>2 DEF AtUser
<1>3. CASE call' = call
  BY <1>2, <1>3
<1>4. ASSUME NEW p \in Callers, Step(p)
      PROVE  (call[q].todo \cap Pushed(q) # {})'
  <2>1. CASE q # p
    <3>1. call'[q] = call[q]
      BY <1>4, <2>1, OnlyItsRecord
    <3> QED
      BY <1>2, <3>1
  <2>2. CASE q = p
    <3>1. CASE NextUser(p)
      <4>1. call[p].todo \cap Pushed(p) # {}
        BY <2>2, <3>1 DEF NextUser, Return, Idle, TypeOK
      <4>2. same
        BY <2>2, <3>1, <4>1 DEF NextUser, TypeOK, CallRecord
      <4> QED
        BY <1>1, <2>2, <4>1, <4>2
    <3>2. CASE Serve(p)
      BY <1>2, <2>2, <3>2 DEF Serve, Working, TypeOK, CallRecord
    <3>3. CASE Answer(p)
      BY <1>2, <2>2, <3>3 DEF Answer, Working, TypeOK, CallRecord
    <3>4. CASE ~NextUser(p) /\ ~Serve(p) /\ ~Answer(p)
      <4>1. CASE Get(p)
        <5>1. call'[p].pc \in {"ready", "next"}
          BY <4>1 DEF Get, TypeOK, CallRecord
        <5> QED
          BY <2>2, <5>1
      <4>4. CASE Ready(p)
        BY <2>2, <4>4 DEF Ready, TypeOK, CallRecord
      <4>2. ASSUME NEW ret, Return(p, ret)
            PROVE  FALSE
        BY <2>2, <4>2 DEF Return, Idle, TypeOK
      <4>3. CASE ConnectionError(p)
        BY <2>2, <4>2, <4>3 DEF ConnectionError, TypeOK, CallRecord
      <4> QED
        BY <1>4, <3>4, <4>1, <4>2, <4>3, <4>4 DEF Step, GetFails, NotReady, OtherError, Drop
    <3> QED
      BY <3>1, <3>2, <3>3, <3>4
  <2> QED
    BY <2>1, <2>2
<1>5. ASSUME NEW p \in Callers, NEW r \in Requests, Begin(p, r[1], r[2])
      PROVE  (call[q].todo \cap Pushed(q) # {})'
  BY <1>2, <1>5 DEF Begin, Idle, TypeOK
<1>6. ASSUME LoseMemory
      PROVE  (call[q].todo \cap Pushed(q) # {})'
  <2>1. same /\ call[q].pc \in {"send", "served", "cut"}
    BY <1>6 DEF LoseMemory, Working, TypeOK, CallRecord
  <2> QED
    BY <1>2, <2>1
<1>7. CASE Recover \/ Tick \/ Healthy \/ Unhealthy \/ CloseBeforeRestart \/ RestartFails
  BY <1>3, <1>7 DEF Recover, Tick, Healthy, Unhealthy, CloseBeforeRestart, RestartFails
<1>8. CASE UNCHANGED vars
  BY <1>3, <1>8 DEF vars
<1> QED
  BY <1>4, <1>5, <1>6, <1>7, <1>8 DEF Next, Watchdog, Crash, Restart

-----------------------------------------------------------------------------
\* The conjunction is inductive.
LEMMA Inductive == IInv /\ [Next]_vars => IInv'
<1> SUFFICES ASSUME IInv, [Next]_vars PROVE IInv'
  OBVIOUS
<1>1. TypeOK /\ ClientInv /\ CachedIsTheOpenOne /\ HeldClients /\ AtUser
  BY DEF IInv, ClientInv
<1>2. AtUser'
  BY <1>1, AtUserStep
<1>3. TypeOK' /\ ClientInv'
  <2>1. ASSUME NEW p \in Callers, Step(p) PROVE TypeOK' /\ ClientInv'
    BY <1>1, <2>1, StepTypes, StepClients
  <2>2. CASE \/ \E p \in Callers, r \in Requests : Begin(p, r[1], r[2])
             \/ Crash \/ Recover \/ Watchdog
    BY <1>1, <2>2, OtherTypes, OtherClients
  <2>3. CASE UNCHANGED vars
    BY <1>1, <2>3 DEF vars, clientVars, daemonVars, TypeOK, ClientInv,
       CachedIsTheOpenOne, HeldClients, FailedClientLeavesCache, Open, Working
  <2> QED
    BY <2>1, <2>2, <2>3 DEF Next
<1> QED
  BY <1>2, <1>3 DEF IInv, ClientInv

\* The inductive invariant holds in every reachable state.
THEOREM Invariance == Spec => []IInv
  BY InitIInv, Inductive, PTL DEF Spec

\* Every reachable state is well typed.
THEOREM TypeCorrect == Spec => []TypeOK
<1>1. IInv => TypeOK
  BY DEF IInv
<1> QED
  BY <1>1, Invariance, PTL

\* getAPI never hands out a closed client, and no connection is left behind.
THEOREM CacheCorrect == Spec => []CachedIsTheOpenOne
<1>1. IInv => CachedIsTheOpenOne
  BY DEF IInv
<1> QED
  BY <1>1, Invariance, PTL

\* A client that AddUser or RemoveUser saw fail is not handed out again once
\* the call that saw it has returned.
THEOREM FailedClientDropped == Spec => []FailedClientLeavesCache
<1>1. IInv => FailedClientLeavesCache
  BY DEF IInv
<1> QED
  BY <1>1, Invariance, PTL

\* No caller closes a client that has not failed.
THEOREM NoClientTornDown == Spec => OnlyFailedClientsDropped
<1>1. IInv /\ [Next]_vars => [wd.pc # "close" => closed' \ closed \subseteq suspect]_vars
  <2> SUFFICES ASSUME IInv, Next, wd.pc # "close"
               PROVE  closed' \ closed \subseteq suspect
    OBVIOUS
  <2>1. ASSUME NEW p \in Callers, Drop(p)
        PROVE  closed' \ closed \subseteq suspect
    <3>1. call[p].api \in suspect
      BY <2>1 DEF Drop, IInv, HeldClients
    <3> QED
      BY <2>1, <3>1 DEF Drop, DropClient
  <2>2. ASSUME NEW c, GetAPI(c) \/ UNCHANGED clientVars
        PROVE  closed' = closed
    BY <2>2 DEF GetAPI, clientVars
  <2>3. ASSUME NEW p \in Callers, Step(p), ~Drop(p)
        PROVE  closed' = closed
    BY <2>2, <2>3 DEF Step, Get, GetFails, Ready, NotReady, NextUser, Serve, Answer,
       ConnectionError, OtherError, clientVars
  <2>4. CASE \/ \E p \in Callers, r \in Requests : Begin(p, r[1], r[2])
             \/ Crash \/ Recover \/ Healthy \/ Unhealthy \/ Restart \/ RestartFails
    BY <2>4 DEF Begin, Crash, Recover, Healthy, Unhealthy, Restart, RestartFails,
       clientVars
  <2>5. CASE Tick
    BY <2>2, <2>5 DEF Tick
  <2>6. ~CloseBeforeRestart
    BY DEF CloseBeforeRestart
  <2> QED
    BY <2>1, <2>3, <2>4, <2>5, <2>6 DEF Next, Watchdog
<1> QED
  BY <1>1, Invariance, PTL DEF Spec, OnlyFailedClientsDropped
-----------------------------------------------------------------------------
(***************************************************************************)
(* XrayClient implements UserSet, for any number of callers, users,        *)
(* inbounds, clients and crashes: every step of a call, of the watchdog or *)
(* of xray is a step of the promise, or does not show in it.               *)
(***************************************************************************)

OpBar == [p \in Callers |-> OpSeen(p)]
LeftBar == [p \in Callers |-> LeftSeen(p)]
RetBar == [p \in Callers |-> RetSeen(p)]

\* A step that changes the record of p alone changes what the promise sees of p alone.
LEMMA OneSeen ==
  ASSUME NEW p \in Callers, \A q \in Callers \ {p} : call'[q] = call[q]
  PROVE  /\ OpBar' = [OpBar EXCEPT ![p] = OpSeen(p)']
         /\ LeftBar' = [LeftBar EXCEPT ![p] = LeftSeen(p)']
         /\ RetBar' = [RetBar EXCEPT ![p] = RetSeen(p)']
<1>1. ASSUME NEW q \in Callers \ {p}
      PROVE  OpSeen(q)' = OpSeen(q) /\ LeftSeen(q)' = LeftSeen(q) /\ RetSeen(q)' = RetSeen(q)
  <2>1. call'[q] = call[q]
    OBVIOUS
  <2>2. OpSeen(q)' = OpSeen(q) /\ RetSeen(q)' = RetSeen(q)
    BY <2>1 DEF OpSeen, RetSeen, Ended, Working
  <2>3. Pushed(q)' = Pushed(q) /\ Ended(q)' = Ended(q)
    BY <2>1 DEF Pushed, Ended
  <2>4. Current(q)' = Current(q)
    BY <2>1, <2>3 DEF Current
  <2>5. LeftSeen(q)' = LeftSeen(q)
    BY <2>1, <2>3, <2>4 DEF LeftSeen, Left, Served
  <2> QED
    BY <2>2, <2>5
<1>2. OpBar' = [OpBar EXCEPT ![p] = OpSeen(p)']
  BY <1>1, Zenon DEF OpBar
<1>3. LeftBar' = [LeftBar EXCEPT ![p] = LeftSeen(p)']
  BY <1>1, Zenon DEF LeftBar
<1>4. RetBar' = [RetBar EXCEPT ![p] = RetSeen(p)']
  BY <1>1, Zenon DEF RetBar
<1> QED
  BY <1>2, <1>3, <1>4

\* A step that leaves xray's memory and what the promise sees of p as they were, and
\* changes no other caller's record, does not show.
LEMMA Hidden ==
  ASSUME NEW p \in Callers, \A q \in Callers \ {p} : call'[q] = call[q], live' = live,
         OpSeen(p)' = OpSeen(p), LeftSeen(p)' = LeftSeen(p), RetSeen(p)' = RetSeen(p)
  PROVE  UNCHANGED Promise!vars
<1>1. OpBar' = OpBar
  BY OneSeen, Zenon DEF OpBar
<1>2. LeftBar' = LeftBar
  BY OneSeen, Zenon DEF LeftBar
<1>3. RetBar' = RetBar
  BY OneSeen, Zenon DEF RetBar
<1> QED
  BY <1>1, <1>2, <1>3 DEF Promise!vars, OpBar, LeftBar, RetBar

\* While p is between two RPCs of the same user, or before its first, what is left
\* is told by its users, the inbound it is at and its place, and by nothing else.
LEMMA SameLeft ==
  ASSUME NEW p \in Callers, call'[p].op = call[p].op, call'[p].users = call[p].users,
         call'[p].todo = call[p].todo
  PROVE  Pushed(p)' = Pushed(p) /\ Current(p)' = Current(p)
<1>1. Pushed(p)' = Pushed(p)
  BY DEF Pushed
<1> QED
  BY <1>1 DEF Current

\* Steps that only move p on: nothing of it is seen.
LEMMA MovesOn ==
  ASSUME TypeOK, AtUser, NEW p \in Callers,
         \/ Get(p) \/ Ready(p) \/ Answer(p)
         \/ NextUser(p) /\ call[p].todo \cap Pushed(p) # {}
  PROVE  UNCHANGED Promise!vars
<1> DEFINE before == /\ call'[p].todo = call[p].todo
                     /\ call[p].pc \in {"get", "ready", "next"}
                     /\ call'[p].pc = "send" => call'[p].at = 1
           common == /\ call'[p].op = call[p].op /\ call'[p].users = call[p].users
                     /\ call'[p].ret = call[p].ret /\ live' = live
                     /\ \A q \in Callers \ {p} : call'[q] = call[q]
                     /\ call[p].pc \in {"get", "ready", "next", "served"}
                     /\ call'[p].pc \in {"ready", "next", "send"}
<1>1. common /\ (before \/ Answer(p))
  <2>1. CASE Get(p)
    <3>1. PICK c \in 1..(opened + 1) :
            call' = [call EXCEPT ![p].api = c,
                       ![p].pc = IF call[p].op = "inject" THEN "ready" ELSE "next"]
      BY <2>1 DEF Get
    <3>2. call[p].pc = "get" /\ live' = live
      BY <2>1 DEF Get, Working, daemonVars
    <3> QED
      BY <3>1, <3>2 DEF TypeOK, CallRecord
  <2>2. CASE Ready(p)
    BY <2>2 DEF Ready, Working, TypeOK, CallRecord, daemonVars
  <2>3. CASE Answer(p)
    <3>1. call[p].pc = "served" /\ live' = live
      BY <2>3 DEF Answer, Working, daemonVars
    <3>2. CASE call[p].at < Inbounds
      <4>1. call' = [call EXCEPT ![p].pc = "send", ![p].at = call[p].at + 1]
        BY <2>3, <3>2 DEF Answer
      <4> QED
        BY <2>3, <3>1, <4>1 DEF TypeOK, CallRecord
    <3>3. CASE ~(call[p].at < Inbounds)
      <4>1. call' = [call EXCEPT ![p].pc = "next", ![p].todo = call[p].todo \ {Current(p)}]
        BY <2>3, <3>3 DEF Answer
      <4> QED
        BY <2>3, <3>1, <4>1 DEF TypeOK, CallRecord
    <3> QED
      BY <3>2, <3>3
  <2>4. CASE NextUser(p) /\ call[p].todo \cap Pushed(p) # {}
    <3>1. call' = [call EXCEPT ![p].pc = "send", ![p].at = 1] /\ live' = live
      BY <2>4 DEF NextUser, daemonVars
    <3> QED
      BY <2>4, <3>1 DEF NextUser, Working, TypeOK, CallRecord
  <2> QED
    BY <2>1, <2>2, <2>3, <2>4
<1>2. ~Ended(p) /\ ~Ended(p)' /\ ~Working(p, "drop") /\ ~Working(p, "drop")'
  BY <1>1 DEF Ended, Working
<1>3. Left(p)' = Left(p)
  <2>1. CASE before
    <3>2. Pushed(p)' = Pushed(p)
      BY <1>1, <2>1, SameLeft
    <3>3. \A x \in (call[p].todo \cap Pushed(p)) \X (1..Inbounds) :
            ~Served(p, x) /\ ~Served(p, x)'
      BY <1>1, <2>1, ClientAssumption DEF Served
    <3> QED
      BY <2>1, <3>2, <3>3 DEF Left
  <2>2. CASE Answer(p) /\ call[p].at < Inbounds
    <3>1. /\ call'[p].todo = call[p].todo /\ call[p].pc = "served"
          /\ call'[p].pc = "send" /\ call'[p].at = call[p].at + 1
          /\ call[p].at \in 1..Inbounds
      BY <2>2 DEF Answer, Working, TypeOK, CallRecord
    <3>2. Pushed(p)' = Pushed(p) /\ Current(p)' = Current(p)
      BY <1>1, <3>1, SameLeft
    <3>3. \A x \in (call[p].todo \cap Pushed(p)) \X (1..Inbounds) :
            Served(p, x)' <=> Served(p, x)
      BY <3>1, <3>2, ClientAssumption DEF Served
    <3> QED
      BY <3>1, <3>2, <3>3 DEF Left
  <2>3. CASE Answer(p) /\ ~(call[p].at < Inbounds)
    <3>1. /\ call'[p].todo = call[p].todo \ {Current(p)} /\ call[p].pc = "served"
          /\ call'[p].pc = "next" /\ call[p].at = Inbounds
      BY <2>3, ClientAssumption DEF Answer, Working, TypeOK, CallRecord
    <3>2. Pushed(p)' = Pushed(p)
      BY <1>1 DEF Pushed
    <3>3. \A x \in (call[p].todo \cap Pushed(p)) \X (1..Inbounds) :
            (Served(p, x) <=> x[1] = Current(p)) /\ ~Served(p, x)'
      BY <3>1, ClientAssumption DEF Served
    <3> QED
      BY <3>1, <3>2, <3>3 DEF Left
  <2> QED
    BY <1>1, <2>1, <2>2, <2>3
<1> QED
  BY <1>1, <1>2, <1>3, Hidden DEF OpSeen, LeftSeen, RetSeen

\* A call that ends returns in the promise, success only when nothing is left.
LEMMA Returns ==
  ASSUME TypeOK, NEW p \in Callers, NEW r \in {"ok", "err"}, ~Ended(p), Ended(p)',
         \A q \in Callers \ {p} : call'[q] = call[q], live' = live,
         RetSeen(p)' = r, r = "ok" => call[p].todo \cap Pushed(p) = {}
  PROVE  Promise!Return(p, r)
<1>1. OpSeen(p) # "none" /\ OpSeen(p)' = "none" /\ LeftSeen(p)' = {}
  BY DEF OpSeen, LeftSeen
<1>2. r = "ok" => LeftSeen(p) = {}
  BY DEF LeftSeen, Left
<1>3. /\ OpBar' = [OpBar EXCEPT ![p] = "none"] /\ LeftBar' = [LeftBar EXCEPT ![p] = {}]
      /\ RetBar' = [RetBar EXCEPT ![p] = r]
  BY <1>1, OneSeen
<1> QED
  BY <1>1, <1>2, <1>3 DEF Promise!Return, OpBar, LeftBar, RetBar

\* xray serving an RPC is the change of one user in one inbound.
LEMMA Serves ==
  ASSUME TypeOK, AtUser, NEW p \in Callers, Serve(p)
  PROVE  \E x \in LeftSeen(p) : Promise!Change(p, x)
<1> DEFINE x == <<Current(p), call[p].at>>
<1>1. /\ call[p].pc = "send" /\ call'[p].pc = "served" /\ call[p].at \in 1..Inbounds
      /\ call'[p].op = call[p].op /\ call'[p].users = call[p].users
      /\ call'[p].ret = call[p].ret /\ call'[p].todo = call[p].todo
      /\ call'[p].at = call[p].at
      /\ \A q \in Callers \ {p} : call'[q] = call[q]
  BY DEF Serve, Working, TypeOK, CallRecord
<1>2. Current(p) \in call[p].todo \cap Pushed(p)
  BY <1>1 DEF AtUser, Current, TypeOK, CallRecord
<1>3. Pushed(p)' = Pushed(p) /\ Current(p)' = Current(p)
  BY <1>1, SameLeft
<1>4. x \in Left(p) /\ Left(p)' = Left(p) \ {x}
  <2>1. \A y \in (call[p].todo \cap Pushed(p)) \X (1..Inbounds) :
          Served(p, y)' <=> Served(p, y) \/ y = x
    BY <1>1, <1>3 DEF Served
  <2>2. x \in (call[p].todo \cap Pushed(p)) \X (1..Inbounds) /\ ~Served(p, x)
    BY <1>1, <1>2 DEF Served
  <2> QED
    BY <1>1, <1>3, <2>1, <2>2 DEF Left
<1>5. /\ LeftSeen(p) = Left(p) /\ LeftSeen(p)' = Left(p) \ {x}
      /\ OpSeen(p)' = OpSeen(p) /\ RetSeen(p)' = RetSeen(p)
      /\ OpSeen(p) = "remove" <=> call[p].op = "remove"
      /\ OpSeen(p) = "add" <=> call[p].op # "remove"
  BY <1>1, <1>4 DEF LeftSeen, OpSeen, RetSeen, Ended, Working
<1>6. /\ OpBar' = OpBar /\ RetBar' = RetBar
      /\ LeftBar' = [LeftBar EXCEPT ![p] = LeftBar[p] \ {x}]
  <2>1. OpBar' = OpBar /\ RetBar' = RetBar
    BY <1>1, <1>5, OneSeen, Zenon DEF OpBar, RetBar
  <2> QED
    BY <1>1, <1>5, <2>1, OneSeen DEF LeftBar
<1>7. live' = [live EXCEPT ![x[2]] = IF OpBar[p] = "add" THEN live[x[2]] \cup {x[1]}
                                                        ELSE live[x[2]] \ {x[1]}]
  BY <1>1, <1>5 DEF Serve, OpBar, TypeOK
<1>8. Promise!Change(p, x)
  BY <1>4, <1>5, <1>6, <1>7 DEF Promise!Change, OpBar, LeftBar, RetBar
<1> QED
  BY <1>4, <1>5, <1>8

\* Every step of a call is a step of the promise, or does not show.
LEMMA StepRefines ==
  ASSUME TypeOK, AtUser, NEW p \in Callers, Step(p)
  PROVE  [Promise!Next]_(Promise!vars)
<1>1. \A q \in Callers \ {p} : call'[q] = call[q]
  BY OnlyItsRecord
<1>2. ASSUME NEW r \in {"ok", "err"}, Return(p, r), live' = live, ~Ended(p),
             r = "ok" => call[p].todo \cap Pushed(p) = {}
      PROVE  Promise!Next
  <2>1. Ended(p)' /\ RetSeen(p)' = r
    BY <1>2 DEF Return, Idle, Ended, RetSeen, Working, TypeOK
  <2>2. Promise!Return(p, r)
    BY <1>1, <1>2, <2>1, Returns
  <2> QED
    BY <2>2 DEF Promise!Next
<1>3. CASE Get(p) \/ Ready(p) \/ Answer(p)
  BY <1>3, MovesOn
<1>4. CASE GetFails(p) \/ NotReady(p) \/ OtherError(p)
  <2>1. Return(p, "err") /\ live' = live /\ ~Ended(p)
    BY <1>4 DEF GetFails, NotReady, OtherError, Working, Ended, daemonVars
  <2> QED
    BY <1>2, <2>1
<1>5. CASE NextUser(p)
  <2>1. CASE call[p].todo \cap Pushed(p) = {}
    <3>1. Return(p, "ok") /\ live' = live /\ ~Ended(p)
      BY <1>5, <2>1 DEF NextUser, Working, Ended, daemonVars
    <3> QED
      BY <1>2, <2>1, <3>1
  <2> QED
    BY <1>5, <2>1, MovesOn
<1>6. CASE Serve(p)
  BY <1>6, Serves DEF Promise!Next, LeftBar
<1>7. CASE ConnectionError(p)
  <2>1. live' = live /\ ~Ended(p)
    BY <1>7 DEF ConnectionError, Ended, daemonVars
  <2>2. CASE call[p].op = "inject"
    BY <1>2, <1>7, <2>1, <2>2 DEF ConnectionError
  <2>3. CASE call[p].op # "inject"
    <3>1. call'[p].pc = "drop"
      BY <1>7, <2>3 DEF ConnectionError, TypeOK, CallRecord
    <3>2. Ended(p)' /\ RetSeen(p)' = "err"
      BY <3>1 DEF Ended, RetSeen, Working
    <3>3. Promise!Return(p, "err")
      BY <1>1, <2>1, <3>2, Returns
    <3> QED
      BY <3>3 DEF Promise!Next
  <2> QED
    BY <2>2, <2>3
<1>8. CASE Drop(p)
  <2>1. /\ call[p].pc = "drop" /\ call'[p].pc = "idle" /\ call'[p].ret = "err"
        /\ live' = live
    BY <1>8 DEF Drop, Return, Idle, Working, TypeOK, daemonVars
  <2>2. /\ OpSeen(p)' = OpSeen(p) /\ LeftSeen(p)' = LeftSeen(p)
        /\ RetSeen(p)' = RetSeen(p)
    BY <2>1 DEF OpSeen, LeftSeen, RetSeen, Ended, Working
  <2> QED
    BY <1>1, <2>1, <2>2, Hidden
<1> QED
  BY <1>3, <1>4, <1>5, <1>6, <1>7, <1>8 DEF Step

\* A new call begins in the promise with all its users left, in every inbound.
LEMMA BeginRefines ==
  ASSUME TypeOK, NEW p \in Callers, NEW r \in Requests, Begin(p, r[1], r[2])
  PROVE  Promise!Begin(p)
<1>1. /\ call'[p].pc = "get" /\ call'[p].op = r[1] /\ call'[p].users = r[2]
      /\ call'[p].todo = r[2] /\ call'[p].ret = "none" /\ call[p].pc = "idle"
      /\ \A q \in Callers \ {p} : call'[q] = call[q]
      /\ live' = live
  BY DEF Begin, Idle, Busy, TypeOK, daemonVars
<1>2. /\ OpSeen(p) = "none" /\ OpSeen(p)' \in {"add", "remove"} /\ RetSeen(p)' = "none"
      /\ LeftSeen(p)' = Left(p)'
  BY <1>1 DEF OpSeen, RetSeen, LeftSeen, Ended, Working
<1>3. PICK S \in SUBSET Users : Left(p)' = S \X (1..Inbounds)
  <2>1. (call[p].todo \cap Pushed(p))' \in SUBSET Users
    BY <1>1, ClientAssumption
  <2>2. Left(p)' = (call[p].todo \cap Pushed(p))' \X (1..Inbounds)
    BY <1>1 DEF Left, Served
  <2> QED
    BY <2>1, <2>2
<1>4. /\ OpBar' = [OpBar EXCEPT ![p] = OpSeen(p)']
      /\ LeftBar' = [LeftBar EXCEPT ![p] = S \X (1..Inbounds)]
      /\ RetBar' = [RetBar EXCEPT ![p] = "none"]
  BY <1>1, <1>2, <1>3, OneSeen
<1> QED
  BY <1>1, <1>2, <1>3, <1>4 DEF Promise!Begin, OpBar, LeftBar, RetBar

\* When xray loses its memory, only that is seen.
LEMMA LosesMemory ==
  ASSUME TypeOK, LoseMemory
  PROVE  Promise!Lose
<1>1. ASSUME NEW q \in Callers
      PROVE  OpSeen(q)' = OpSeen(q) /\ LeftSeen(q)' = LeftSeen(q) /\ RetSeen(q)' = RetSeen(q)
  <2>1. /\ call'[q].op = call[q].op /\ call'[q].users = call[q].users
        /\ call'[q].todo = call[q].todo /\ call'[q].at = call[q].at
        /\ call'[q].ret = call[q].ret
        /\ \/ call'[q].pc = call[q].pc
           \/ call[q].pc = "served" /\ call'[q].pc = "cut"
    BY DEF LoseMemory, Working, TypeOK, CallRecord
  <2>2. Pushed(q)' = Pushed(q) /\ Current(q)' = Current(q)
    BY <2>1, SameLeft
  <2>3. \A x : Served(q, x)' <=> Served(q, x)
    BY <2>1, <2>2 DEF Served
  <2>4. Left(q)' = Left(q)
    BY <2>1, <2>2, <2>3 DEF Left
  <2> QED
    BY <2>1, <2>4 DEF OpSeen, LeftSeen, RetSeen, Ended, Working
<1>2. OpBar' = OpBar /\ LeftBar' = LeftBar /\ RetBar' = RetBar
  BY <1>1, Zenon DEF OpBar, LeftBar, RetBar
<1> QED
  BY <1>2 DEF LoseMemory, Promise!Lose, OpBar, LeftBar, RetBar

\* The whole of a step.
LEMMA NextRefines ==
  ASSUME TypeOK, AtUser, [Next]_vars
  PROVE  [Promise!Next]_(Promise!vars)
<1>1. ASSUME call' = call, live' = live
      PROVE  UNCHANGED Promise!vars
  <2>1. \A q \in Callers : /\ OpSeen(q)' = OpSeen(q) /\ LeftSeen(q)' = LeftSeen(q)
                           /\ RetSeen(q)' = RetSeen(q)
    BY <1>1 DEF OpSeen, LeftSeen, RetSeen, Ended, Working, Left, Served, Pushed, Current
  <2>2. OpBar' = OpBar /\ LeftBar' = LeftBar /\ RetBar' = RetBar
    BY <2>1, Zenon DEF OpBar, LeftBar, RetBar
  <2> QED
    BY <1>1, <2>2 DEF Promise!vars, OpBar, LeftBar, RetBar
<1>2. CASE \E p \in Callers, r \in Requests : Begin(p, r[1], r[2])
  BY <1>2, BeginRefines DEF Promise!Next
<1>3. CASE \E p \in Callers : Step(p)
  BY <1>3, StepRefines
<1>4. CASE Crash \/ Restart
  BY <1>4, LosesMemory DEF Crash, Restart, Promise!Next
<1>5. CASE Recover \/ Tick \/ Healthy \/ Unhealthy \/ CloseBeforeRestart \/ RestartFails
  BY <1>1, <1>5 DEF Recover, Tick, Healthy, Unhealthy, CloseBeforeRestart, RestartFails,
     daemonVars
<1>6. CASE UNCHANGED vars
  BY <1>1, <1>6 DEF vars, daemonVars
<1> QED
  BY <1>2, <1>3, <1>4, <1>5, <1>6 DEF Next, Watchdog

\* XrayClient implements UserSet: with any number of goroutines, connections that fail or
\* that others close, and crashes of xray, a call changes each of its users once in each
\* inbound and returns success only after all of it.
THEOREM PromiseKept == Spec => KeepsPromise
<1>1. Init => Promise!Init
  <2> SUFFICES ASSUME Init PROVE Promise!Init
    OBVIOUS
  <2>1. \A p \in Callers : OpSeen(p) = "none" /\ LeftSeen(p) = {} /\ RetSeen(p) = "none"
    BY DEF Init, Idle, OpSeen, LeftSeen, RetSeen, Ended, Working
  <2> QED
    BY <2>1 DEF Init, Promise!Init
<1>2. IInv /\ [Next]_vars => [Promise!Next]_(Promise!vars)
  BY NextRefines DEF IInv
<1> QED
  BY <1>1, <1>2, Invariance, PTL DEF Spec, KeepsPromise, Promise!Spec
=============================================================================
