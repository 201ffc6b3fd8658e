------------------------------ MODULE TempSync ------------------------------
(***************************************************************************)
(* The temporary users (xray/temp_sync.go).  One goroutine fetches the     *)
(* backend's list at startup and then polls it, adds and removes what      *)
(* changed and caches the list with its version.  After some restarts of   *)
(* xray a sync goroutine of XrayUserSync calls ReInjectAll, which adds the *)
(* cached users again while the poller goes on; there may be several at a  *)
(* time.  Other restarts of xray are followed by none.  The cache is in    *)
(* the agent's memory only: an agent that is restarted, as every update of  *)
(* its own does, begins with startup again.                                 *)
(*                                                                         *)
(* The lock of TempUserSync covers only the cache, so the fetch, each RPC  *)
(* and the store of the cache interleave with ReInjectAll.                 *)
(***************************************************************************)
EXTENDS Naturals

CONSTANTS Temp,         \* temporary users the backend may list
          Syncs,        \* sync goroutines that may be under way at once
          MaxVersion,   \* bound: versions of the backend's list
          MaxFault,     \* bound: fetches and RPCs that fail
          MaxRestart,   \* bound: restarts of xray
          MaxStop       \* bound: restarts of the agent

ASSUME TempAssumption ==
  /\ MaxVersion \in Nat \ {0}
  /\ MaxFault \in Nat /\ MaxRestart \in Nat /\ MaxStop \in Nat

VARIABLES
  server,    \* the backend's list and its version
  cache,     \* t.version and t.uuids; version 0 is the code's ""
  poller,    \* the goroutine of Start
  reinject,  \* the sync goroutines, each of which calls ReInjectAll
  live,      \* temporary users in xray's memory
  faults, restarts, stops,
  clean,     \* history: when xray last lost its memory a sync was still to call
             \* ReInjectAll, and since then, or since the agent lost its own memory,
             \* no RPC has failed and no ReInjectAll met a poll that applied a list
  left       \* history: users that a stopped agent left in xray, not removed since

boundVars == <<faults, restarts, stops>>
historyVars == <<clean, left>>
vars == <<server, cache, poller, reinject, live, boundVars, historyVars>>

Answer(version, list) == [version |-> version, list |-> list]
Off == [pc |-> "off", todo |-> {}]
Waiting(pc) == [pc |-> pc, answer |-> Answer(0, {}), add |-> {}, remove |-> {}]

Init ==
  /\ \E list \in SUBSET Temp : server = Answer(1, list)
  /\ cache = Answer(0, {})
  /\ poller = Waiting("startup")
  /\ reinject = [s \in Syncs |-> Off]
  /\ live = {}
  /\ faults = 0 /\ restarts = 0 /\ stops = 0
  /\ clean = TRUE /\ left = {}

Fault == faults < MaxFault /\ faults' = faults + 1

NoSync == \A s \in Syncs : reinject[s].pc = "off"

-----------------------------------------------------------------------------
(* The poller.  pc: "startup" until a first fetch succeeds, "poll" between  *)
(* two polls, "apply" while the fetched list is applied.                    *)

\* startup fetches the list and adds all of it.
FetchFirst ==
  /\ poller.pc = "startup"
  /\ poller' = [pc |-> "apply", answer |-> server, add |-> server.list, remove |-> {}]
  /\ clean' = (clean /\ NoSync)
  /\ UNCHANGED <<server, cache, reinject, live, boundVars, left>>

\* Mutant: the users that are gone are not removed.
PollAddsOnly ==
  /\ poller.pc = "poll" /\ server.version # cache.version
  /\ poller' = [pc |-> "apply", answer |-> server,
                add |-> server.list \ cache.list, remove |-> {}]
  /\ clean' = (clean /\ NoSync)
  /\ UNCHANGED <<server, cache, reinject, live, boundVars, left>>

\* poll fetches the list and does nothing if its version is the cached one; else
\* it adds the users that are new and then removes those that are gone.
Poll ==
  /\ poller.pc = "poll"
  /\ IF server.version = cache.version
       THEN UNCHANGED <<poller, clean>>
       ELSE /\ poller' = [pc |-> "apply", answer |-> server,
                          add |-> server.list \ cache.list,
                          remove |-> cache.list \ server.list]
            /\ clean' = (clean /\ NoSync)
  /\ UNCHANGED <<server, cache, reinject, live, boundVars, left>>

FetchFails ==
  /\ poller.pc \in {"startup", "poll"}
  /\ Fault
  /\ UNCHANGED <<server, cache, poller, reinject, live, restarts, stops, historyVars>>

\* An RPC that fails is only logged.
Add(u) ==
  /\ poller.pc = "apply" /\ u \in poller.add
  /\ poller' = [poller EXCEPT !.add = @ \ {u}]
  /\ \/ live' = live \cup {u} /\ UNCHANGED <<faults, clean>>
     \/ Fault /\ clean' = FALSE /\ UNCHANGED live
  /\ UNCHANGED <<server, cache, reinject, restarts, stops, left>>

Remove(u) ==
  /\ poller.pc = "apply" /\ poller.add = {} /\ u \in poller.remove
  /\ poller' = [poller EXCEPT !.remove = @ \ {u}]
  /\ \/ live' = live \ {u} /\ left' = left \ {u} /\ UNCHANGED <<faults, clean>>
     \/ Fault /\ clean' = FALSE /\ UNCHANGED <<live, left>>
  /\ UNCHANGED <<server, cache, reinject, restarts, stops>>

\* Mutant: the version is advanced instead of taken from the answer.
StoreCounts ==
  /\ poller.pc = "apply" /\ poller.add = {} /\ poller.remove = {}
  /\ cache' = Answer(cache.version + 2, poller.answer.list)
  /\ poller' = Waiting("poll")
  /\ UNCHANGED <<server, reinject, live, boundVars, historyVars>>

\* Mutant: the list is cached without its version.
StoreListOnly ==
  /\ poller.pc = "apply" /\ poller.add = {} /\ poller.remove = {}
  /\ cache' = Answer(cache.version, poller.answer.list)
  /\ poller' = Waiting("poll")
  /\ UNCHANGED <<server, reinject, live, boundVars, historyVars>>

\* The list is cached with its version, whatever the RPCs returned.
Store ==
  /\ poller.pc = "apply" /\ poller.add = {} /\ poller.remove = {}
  /\ cache' = poller.answer
  /\ poller' = Waiting("poll")
  /\ UNCHANGED <<server, reinject, live, boundVars, historyVars>>

Poller == FetchFirst \/ Poll \/ Store \/ \E u \in Temp : Add(u) \/ Remove(u)

-----------------------------------------------------------------------------
(* A sync goroutine.  pc: "due" until it calls ReInjectAll, "add" in it.    *)

Snapshot(s) ==
  /\ reinject[s].pc = "due"
  /\ reinject' = [reinject EXCEPT ![s] = [pc |-> "add", todo |-> cache.list]]
  /\ clean' = (clean /\ poller.pc # "apply")
  /\ UNCHANGED <<server, cache, poller, live, boundVars, left>>

ReAdd(s, u) ==
  /\ reinject[s].pc = "add" /\ u \in reinject[s].todo
  /\ reinject' = [reinject EXCEPT ![s].todo = @ \ {u}]
  /\ \/ live' = live \cup {u} /\ UNCHANGED <<faults, clean>>
     \/ Fault /\ clean' = FALSE /\ UNCHANGED live
  /\ UNCHANGED <<server, cache, poller, restarts, stops, left>>

ReInjected(s) ==
  /\ reinject[s].pc = "add" /\ reinject[s].todo = {}
  /\ reinject' = [reinject EXCEPT ![s] = Off]
  /\ UNCHANGED <<server, cache, poller, live, boundVars, historyVars>>

ReInjectAll(s) == Snapshot(s) \/ ReInjected(s) \/ \E u \in Temp : ReAdd(s, u)

-----------------------------------------------------------------------------
(* xray and the backend. *)

\* A sync is launched for a restart of xray: by the watchdog, if none of its own is
\* under way, or by xray_update.
Launched ==
  \E s \in Syncs :
    /\ reinject[s].pc = "off"
    /\ reinject' = [reinject EXCEPT ![s] = [Off EXCEPT !.pc = "due"]]

\* xray is restarted, with a sync or without: the watchdog skips it while one of its
\* own is under way, and xray_set_dest and systemd launch none.
Restart ==
  /\ restarts < MaxRestart
  /\ restarts' = restarts + 1
  /\ live' = {} /\ left' = {}
  /\ Launched \/ UNCHANGED reinject
  /\ clean' = (/\ poller.pc # "apply"
               /\ \E s \in Syncs : reinject'[s].pc = "due"
               /\ \A s \in Syncs : reinject[s].todo \subseteq cache.list)
  /\ UNCHANGED <<server, cache, poller, faults, stops>>

\* The agent stops and starts again: the cache and the goroutines are gone, the
\* users in xray are not.
AgentRestart ==
  /\ stops < MaxStop
  /\ stops' = stops + 1
  /\ cache' = Answer(0, {})
  /\ poller' = Waiting("startup")
  /\ reinject' = [s \in Syncs |-> Off]
  /\ left' = live /\ clean' = TRUE
  /\ UNCHANGED <<server, live, faults, restarts>>

\* The backend changes its list, and the version with it.
Change(list) ==
  /\ server.version < MaxVersion /\ list # server.list
  /\ server' = Answer(server.version + 1, list)
  /\ UNCHANGED <<cache, poller, reinject, live, boundVars, historyVars>>

Next ==
  \/ Poller \/ FetchFails \/ Restart \/ AgentRestart
  \/ \E s \in Syncs : ReInjectAll(s)
  \/ \E list \in SUBSET Temp : Change(list)

Spec == Init /\ [][Next]_vars

\* The poller's ticker keeps ticking and a sync that was launched gets to
\* ReInjectAll (RestartSync!PendingSyncHeals).
FairSpec == Spec /\ WF_vars(Poller) /\ \A s \in Syncs : WF_vars(ReInjectAll(s))

-----------------------------------------------------------------------------
(* Properties. *)

TypeOK ==
  /\ server \in [version : 1..MaxVersion, list : SUBSET Temp]
  /\ cache \in [version : 0..MaxVersion, list : SUBSET Temp]
  /\ poller \in [pc : {"startup", "poll", "apply"},
                 answer : [version : 0..MaxVersion, list : SUBSET Temp],
                 add : SUBSET Temp, remove : SUBSET Temp]
  /\ reinject \in [Syncs -> [pc : {"off", "due", "add"}, todo : SUBSET Temp]]
  /\ live \subseteq Temp
  /\ faults \in 0..MaxFault /\ restarts \in 0..MaxRestart /\ stops \in 0..MaxStop
  /\ clean \in BOOLEAN /\ left \subseteq live

Quiet == poller.pc = "poll" /\ NoSync

\* xray has all of the users in the list, and no other but what agents that were
\* stopped have left there.
Has(list) == list \subseteq live /\ live \subseteq list \cup left

\* Between polls, xray has exactly the cached temporary users, provided that its last
\* restart found or launched a sync that had yet to call ReInjectAll, and that since
\* then, or since a restart of the agent, no RPC failed and no ReInjectAll overlapped a
\* poll that was applying a list.  The code gives no more: after a restart without such
\* a sync (the watchdog's skip, xray_set_dest, systemd) no poll brings the users back.
\* The one thing that a restart of the agent costs is that users it had added may stay,
\* in xray and in no list, until xray is restarted.
CacheIsInXray == Quiet /\ clean => Has(cache.list)

\* Once the backend is quiet, the cache ends up with its list, whatever polls and
\* RPCs failed before and although a poll that finds the cached version does
\* nothing; and so does xray, under the proviso of CacheIsInXray.
ListsConverge == <>[](cache = server /\ (clean => Has(server.list)))
=============================================================================
