----------------------------- MODULE XrayClient -----------------------------
(***************************************************************************)
(* The agent's gRPC client of xray (xray/grpc.go, xray/xray.go): one       *)
(* client cached under s.mu and shared by every goroutine that adds or     *)
(* removes users, each call a fan-out of one RPC per inbound, and the      *)
(* health watchdog (xray/schedule.go) that closes the cached client and    *)
(* restarts the xray service.                                              *)
(*                                                                         *)
(* A section the code runs under s.mu is one action; everything between    *)
(* two such sections, and every RPC, interleaves with the other            *)
(* goroutines.  Clients are numbered in the order they are created, so     *)
(* the open ones are (1..opened) \ closed.                                 *)
(***************************************************************************)
EXTENDS Naturals

CONSTANTS Callers,      \* goroutines that call AddUser, RemoveUser, injectUsers
          Users,        \* user uuids
          Protected,    \* defaultUUID, the built-in test user
          Requests,     \* the calls made: pairs of an operation and its users
          Inbounds,     \* number of inbounds users are pushed to (vless, hy2)
          MaxClients,   \* bound: clients created in a behaviour
          MaxCrash      \* bound: times xray stops by itself

ASSUME ClientAssumption ==
  /\ Inbounds \in Nat \ {0}
  /\ Requests \subseteq {"add", "remove", "inject"} \X SUBSET Users
  /\ \A r \in Requests : r[1] # "inject" => \E u \in Users : r[2] = {u}
  /\ MaxClients \in Nat
  /\ MaxCrash \in Nat

VARIABLES
  opened,     \* clients created so far
  closed,     \* those whose connection has been closed
  xrayAPI,    \* the cached client; 0 is the code's nil
  up,         \* xray serves gRPC
  live,       \* live[i]: users in the memory of xray's inbound i
  crashes,    \* times xray stopped by itself
  call,       \* call[p]: what caller p is doing
  wd,         \* the watchdog goroutine
  suspect     \* history: clients on which AddUser or RemoveUser saw a
              \* connection error

clientVars == <<opened, closed, xrayAPI>>
daemonVars == <<up, live, crashes>>
vars == <<clientVars, daemonVars, call, wd, suspect>>

NoClient == 0
Open(c) == c \in 1..opened /\ c \notin closed

Idle(op, users, ret) ==
  [pc |-> "idle", op |-> op, users |-> users, todo |-> {}, at |-> 1,
   api |-> NoClient, ret |-> ret]

Init ==
  /\ opened = 0 /\ closed = {} /\ xrayAPI = NoClient
  /\ up \in BOOLEAN
  /\ live = [i \in 1..Inbounds |-> {}]
  /\ crashes = 0
  /\ call = [p \in Callers |-> Idle("none", {}, "none")]
  /\ wd = [pc |-> "watch", fails |-> 0, api |-> NoClient]
  /\ suspect = {}

-----------------------------------------------------------------------------
(* The cached client. *)

\* getAPI: c is the cached client, created now if there is none.
GetAPI(c) ==
  \/ /\ xrayAPI # NoClient
     /\ c = xrayAPI
     /\ UNCHANGED clientVars
  \/ /\ xrayAPI = NoClient
     /\ opened < MaxClients
     /\ c = opened + 1
     /\ opened' = opened + 1
     /\ xrayAPI' = opened + 1
     /\ UNCHANGED closed

\* Mutant: the client leaves the cache and its connection is not closed.
DropClientLeaks(c) ==
  /\ xrayAPI' = IF xrayAPI = c THEN NoClient ELSE xrayAPI
  /\ UNCHANGED closed

\* Mutant: the client that failed stays in the cache.
DropClientNever(c) == UNCHANGED <<closed, xrayAPI>>

\* Mutant: whatever is cached is dropped, without comparing it with c.
DropClientAny(c) ==
  /\ closed' = closed \cup ({xrayAPI} \ {NoClient})
  /\ xrayAPI' = NoClient

\* The section of AddUser and RemoveUser that drops a client that failed:
\* only if it is still the cached one.
DropClient(c) ==
  IF xrayAPI = c
    THEN closed' = closed \cup {c} /\ xrayAPI' = NoClient
    ELSE UNCHANGED <<closed, xrayAPI>>

\* The watchdog's section closes whatever client is cached.
CloseCached ==
  /\ closed' = closed \cup ({xrayAPI} \ {NoClient})
  /\ xrayAPI' = NoClient

-----------------------------------------------------------------------------
(* Calls.  pc: "idle", "get" before getAPI, "ready" before IsXrayReady,     *)
(* "next" between two users, "send" before an RPC, "served" after xray      *)
(* processed it, "cut" when xray stopped before it answered, "drop" before  *)
(* the section that drops a failed client.                                  *)

Busy(p) == call[p].pc # "idle"
Working(p, pc) == call[p].pc = pc

Return(p, ret) ==
  call' = [call EXCEPT ![p] = Idle("none", {}, ret)]

\* AddUser(u), RemoveUser(u) on one user, injectUsers(S) on a list.
Begin(p, op, S) ==
  /\ ~Busy(p)
  /\ call' = [call EXCEPT ![p] =
                [Idle(op, S, "none") EXCEPT !.pc = "get", !.todo = S]]
  /\ UNCHANGED <<clientVars, daemonVars, wd, suspect>>

Get(p) ==
  /\ Working(p, "get")
  /\ \E c \in 1..(opened + 1) :
       /\ GetAPI(c)
       /\ call' = [call EXCEPT ![p].api = c,
                     ![p].pc = IF call[p].op = "inject" THEN "ready" ELSE "next"]
  /\ UNCHANGED <<daemonVars, wd, suspect>>

\* NewGRPCXrayAPI fails: the caller gives up, nothing is cached.
GetFails(p) ==
  /\ Working(p, "get")
  /\ xrayAPI = NoClient
  /\ Return(p, "err")
  /\ UNCHANGED <<clientVars, daemonVars, wd, suspect>>

\* injectUsers goes on only if xray answers the stats probe.
Ready(p) ==
  /\ Working(p, "ready")
  /\ Open(call[p].api) /\ up
  /\ call' = [call EXCEPT ![p].pc = "next"]
  /\ UNCHANGED <<clientVars, daemonVars, wd, suspect>>

NotReady(p) ==
  /\ Working(p, "ready")
  /\ Return(p, "err")
  /\ UNCHANGED <<clientVars, daemonVars, wd, suspect>>

\* The users of the call that are pushed: injectUsers skips the test user.
Pushed(p) ==
  IF call[p].op = "inject" THEN call[p].users \ {Protected} ELSE call[p].users

\* The loop over users, in the order of the list; when it ends, success.
NextUser(p) ==
  /\ Working(p, "next")
  /\ IF call[p].todo \cap Pushed(p) = {}
       THEN Return(p, "ok")
       ELSE call' = [call EXCEPT ![p].pc = "send", ![p].at = 1]
  /\ UNCHANGED <<clientVars, daemonVars, wd, suspect>>

\* The user a call is at: the list's order is fixed but arbitrary.
Current(p) == CHOOSE u \in Users : u \in call[p].todo \cap Pushed(p)

\* xray executes AlterInbound: adding a user that exists, or removing one that
\* does not, changes nothing (and the code takes that answer as success).
Serve(p) ==
  /\ Working(p, "send")
  /\ Open(call[p].api) /\ up
  /\ live' = [live EXCEPT ![call[p].at] =
                IF call[p].op = "remove" THEN @ \ {Current(p)}
                                         ELSE @ \cup {Current(p)}]
  /\ call' = [call EXCEPT ![p].pc = "served"]
  /\ UNCHANGED <<clientVars, up, crashes, wd, suspect>>

\* The answer arrives: the next inbound, or the next user after the last one.
Answer(p) ==
  /\ Working(p, "served")
  /\ Open(call[p].api)
  /\ IF call[p].at < Inbounds
       THEN call' = [call EXCEPT ![p].pc = "send", ![p].at = @ + 1]
       ELSE call' = [call EXCEPT ![p].pc = "next", ![p].todo = @ \ {Current(p)}]
  /\ UNCHANGED <<clientVars, daemonVars, wd, suspect>>

\* An error that names the connection: xray is down, it went down before it
\* answered, or another goroutine closed the client meanwhile.
ConnectionError(p) ==
  /\ call[p].pc \in {"send", "served", "cut"}
  /\ Working(p, "cut") \/ ~up \/ ~Open(call[p].api)
  /\ IF call[p].op = "inject"
       THEN Return(p, "err") /\ UNCHANGED suspect
       ELSE /\ call' = [call EXCEPT ![p].pc = "drop"]
            /\ suspect' = suspect \cup {call[p].api}
  /\ UNCHANGED <<clientVars, daemonVars, wd>>

\* Any other error: the deadline passes, before or after xray served the RPC,
\* xray rejects it, or buildProtocolUser finds the uuid malformed.
OtherError(p) ==
  /\ call[p].pc \in {"send", "served", "cut"}
  /\ Return(p, "err")
  /\ UNCHANGED <<clientVars, daemonVars, wd, suspect>>

\* Mutant: RemoveUser forgets the error when it drops the client.
DropRemoveOk(p) ==
  /\ Working(p, "drop")
  /\ DropClient(call[p].api)
  /\ Return(p, IF call[p].op = "remove" THEN "ok" ELSE "err")
  /\ UNCHANGED <<opened, daemonVars, wd, suspect>>

Drop(p) ==
  /\ Working(p, "drop")
  /\ DropClient(call[p].api)
  /\ Return(p, "err")
  /\ UNCHANGED <<opened, daemonVars, wd, suspect>>

Step(p) ==
  \/ Get(p) \/ GetFails(p) \/ Ready(p) \/ NotReady(p) \/ NextUser(p)
  \/ Serve(p) \/ Answer(p) \/ ConnectionError(p) \/ OtherError(p) \/ Drop(p)

-----------------------------------------------------------------------------
(* xray, and the watchdog that restarts it. *)

\* xray's memory is lost with the process, and so is every RPC in flight.
LoseMemory ==
  /\ live' = [i \in 1..Inbounds |-> {}]
  /\ call' = [p \in Callers |->
                IF Working(p, "served") THEN [call[p] EXCEPT !.pc = "cut"]
                                        ELSE call[p]]

Crash ==
  /\ up /\ crashes < MaxCrash
  /\ up' = FALSE
  /\ crashes' = crashes + 1
  /\ LoseMemory
  /\ UNCHANGED <<clientVars, wd, suspect>>

\* xray starts without the agent: its unit file, or an operator.
Recover ==
  /\ ~up
  /\ up' = TRUE
  /\ UNCHANGED <<clientVars, live, crashes, call, wd, suspect>>

\* A tick of the watchdog: isXrayHealthy takes the cached client, or none when
\* creating one fails.
Tick ==
  /\ wd.pc = "watch"
  /\ \E c \in 0..(opened + 1) :
       /\ \/ GetAPI(c)
          \/ c = NoClient /\ xrayAPI = NoClient /\ UNCHANGED clientVars
       /\ wd' = [wd EXCEPT !.pc = "probe", !.api = c]
  /\ UNCHANGED <<daemonVars, call, suspect>>

Healthy ==
  /\ wd.pc = "probe"
  /\ Open(wd.api) /\ up
  /\ wd' = [pc |-> "watch", fails |-> 0, api |-> NoClient]
  /\ UNCHANGED <<clientVars, daemonVars, call, suspect>>

\* Mutant: the failures are compared with one too many.
UnhealthyLate ==
  /\ wd.pc = "probe"
  /\ wd' = IF wd.fails + 1 <= 2
             THEN [pc |-> "watch", fails |-> wd.fails + 1, api |-> NoClient]
             ELSE [pc |-> "close", fails |-> 0, api |-> NoClient]
  /\ UNCHANGED <<clientVars, daemonVars, call, suspect>>

\* The probe fails: xray is down, the client was closed, or 3s have passed.
Unhealthy ==
  /\ wd.pc = "probe"
  /\ wd' = IF wd.fails + 1 < 2
             THEN [pc |-> "watch", fails |-> wd.fails + 1, api |-> NoClient]
             ELSE [pc |-> "close", fails |-> 0, api |-> NoClient]
  /\ UNCHANGED <<clientVars, daemonVars, call, suspect>>

CloseBeforeRestart ==
  /\ wd.pc = "close"
  /\ CloseCached
  /\ wd' = [wd EXCEPT !.pc = "restart"]
  /\ UNCHANGED <<opened, daemonVars, call, suspect>>

\* systemctl restart xray; the goroutine launched after it is one of Callers.
Restart ==
  /\ wd.pc = "restart"
  /\ wd' = [wd EXCEPT !.pc = "watch"]
  /\ up' = TRUE
  /\ LoseMemory
  /\ UNCHANGED <<clientVars, crashes, suspect>>

RestartFails ==
  /\ wd.pc = "restart"
  /\ wd' = [wd EXCEPT !.pc = "watch"]
  /\ UNCHANGED <<clientVars, daemonVars, call, suspect>>

Watchdog ==
  \/ Tick \/ Healthy \/ Unhealthy \/ CloseBeforeRestart \/ Restart \/ RestartFails

Next ==
  \/ \E p \in Callers, r \in Requests : Begin(p, r[1], r[2])
  \/ \E p \in Callers : Step(p)
  \/ Crash \/ Recover
  \/ Watchdog

Spec == Init /\ [][Next]_vars

-----------------------------------------------------------------------------
(* Properties. *)

Ops == {"none", "add", "remove", "inject"}
Pcs == {"idle", "get", "ready", "next", "send", "served", "cut", "drop"}

CallRecord == [pc : Pcs, op : Ops, users : SUBSET Users, todo : SUBSET Users,
               at : 1..Inbounds, api : Nat, ret : {"none", "ok", "err"}]
WatchdogRecord == [pc : {"watch", "probe", "close", "restart"}, fails : 0..1,
                   api : Nat]

TypeOK ==
  /\ opened \in Nat
  /\ closed \in SUBSET (1..opened)
  /\ xrayAPI \in 0..opened
  /\ up \in BOOLEAN
  /\ live \in [1..Inbounds -> SUBSET Users]
  /\ crashes \in Nat
  /\ call \in [Callers -> CallRecord]
  /\ wd \in WatchdogRecord
  /\ suspect \in SUBSET (1..opened)

\* The cached client is open, and every other client created so far has been
\* closed: however the sections under s.mu interleave, no goroutine is handed a
\* closed client by getAPI and no connection is left behind.
CachedIsTheOpenOne == \A c \in 1..opened : Open(c) <=> c = xrayAPI

\* A client on which AddUser or RemoveUser saw a connection error stays cached
\* only while some caller is about to drop it: once that call has returned, the
\* next getAPI does not hand the broken client out again.
FailedClientLeavesCache ==
  xrayAPI \in suspect =>
    \E p \in Callers : Working(p, "drop") /\ call[p].api = xrayAPI

\* A caller never closes a client other than one that failed: a goroutine that
\* is late with its error does not tear down the client another one opened
\* since.  (The watchdog closes whatever is cached, before it restarts xray.)
OnlyFailedClientsDropped ==
  [][wd.pc # "close" => closed' \ closed \subseteq suspect]_vars

\* What a call has still to change, and where; a client that failed and is about to
\* be dropped is an error already.
Ended(p) == call[p].pc \in {"idle", "drop"}

Served(p, x) ==
  /\ call[p].pc \in {"send", "served", "cut"} /\ x[1] = Current(p)
  /\ IF call[p].pc = "send" THEN x[2] < call[p].at ELSE x[2] <= call[p].at

Left(p) ==
  {x \in (call[p].todo \cap Pushed(p)) \X (1..Inbounds) : ~Served(p, x)}

OpSeen(p) == IF Ended(p) THEN "none"
             ELSE IF call[p].op = "remove" THEN "remove" ELSE "add"
LeftSeen(p) == IF Ended(p) THEN {} ELSE Left(p)
RetSeen(p) == IF Working(p, "drop") THEN "err" ELSE call[p].ret

Promise == INSTANCE UserSet WITH Inbounds <- 1..Inbounds, member <- live,
                                 op <- [p \in Callers |-> OpSeen(p)],
                                 left <- [p \in Callers |-> LeftSeen(p)],
                                 ret <- [p \in Callers |-> RetSeen(p)]

\* xray.go:111 and xray.go:131: a call is done only when every inbound has been
\* changed.  With failing connections, clients that others close and crashes of xray,
\* every call changes each of its users once in each inbound, returns success only
\* after all of it, and nothing else ever changes xray's memory but its loss.
KeepsPromise == Promise!Spec
=============================================================================
