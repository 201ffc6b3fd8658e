------------------------------ MODULE Reporter ------------------------------
(***************************************************************************)
(* The agent's main loop (main.go): connect to NATS, then collect and      *)
(* publish a report, at once and on every tick, until SIGTERM.  Of what it *)
(* collects: the CPU share (collect/sys.go), the number of connections, the *)
(* traffic of each user and the health of xray (collect/xray.go,            *)
(* collect/xray_users.go).  Reading the users' counters resets them, so    *)
(* their bytes are only in the report from then on.                        *)
(*                                                                         *)
(* A counter stands for one direction of one injected user; the others are *)
(* reset as well and skipped.  Bytes and CPU ticks come one at a time.      *)
(***************************************************************************)
EXTENDS Integers

CONSTANTS Counters,
          Attempts,    \* attempts to connect: 10
          Width,       \* the counters of /proc/stat are modulo this: 2^64
          MaxByte,     \* bound: bytes of each counter
          MaxIdle,     \* bound: idle ticks
          MaxFault,    \* bound: failures
          MaxStop      \* bound: SIGTERMs

ASSUME ReporterAssumption ==
  /\ Attempts \in Nat \ {0} /\ Width \in Nat /\ Width > 2
  /\ {MaxByte, MaxIdle, MaxFault, MaxStop} \subseteq Nat /\ MaxIdle < Width

VARIABLES
  pc,         \* where the agent is
  attempts,   \* failed connections
  term,       \* SIGTERM has arrived
  prev,       \* prevIdle and prevTotal
  report,     \* the report being collected
  outbox,     \* published, and still in the connection's buffer
  up,         \* xray runs
  counter,    \* its counters
  stat,       \* idle and total of /proc/stat
  sent, delivered,   \* bytes users have sent; bytes in reports that have arrived
  faults, stops,
  since,      \* history: idle and busy ticks since prev was read
  share,      \* history: the CPU share of the report
  back,       \* history: a counter of /proc/stat has gone back
  cut         \* history: the agent has stopped with a report in the buffer

agentVars == <<pc, attempts, term, prev, report, outbox>>
xrayVars == <<up, counter, sent>>
cpuVars == <<stat, since, back>>
boundVars == <<faults, stops>>
vars == <<agentVars, xrayVars, cpuVars, delivered, boundVars, share, cut>>

Zero == [c \in Counters |-> 0]
Plus(f, g) == [c \in Counters |-> f[c] + g[c]]

None == "none"
NoCpu == -1    \* an empty string
Empty == [cpu |-> NoCpu, conn |-> None, u |-> Zero, health |-> None]
NoStat == [idle |-> 0, total |-> 0]

Init ==
  /\ pc = "connect" /\ attempts = 0 /\ term = FALSE
  /\ prev = NoStat /\ report = Empty /\ outbox = Zero
  /\ up = TRUE /\ counter = Zero /\ sent = Zero /\ delivered = Zero
  /\ stat = [idle |-> 1, total |-> Width - 2]
  /\ faults = 0 /\ stops = 0
  /\ since = [idle |-> 0, busy |-> 0] /\ share = 0
  /\ back = FALSE /\ cut = FALSE

Fault == faults < MaxFault /\ faults' = faults + 1

-----------------------------------------------------------------------------
(* pc: "down", "connect", then for each report "sys", "online", "query",    *)
(* "version", "probe" and "publish", and "wait" for the next tick.          *)

\* Mutant: one attempt too many.
ConnectOnceMore ==
  /\ pc = "connect"
  /\ \/ pc' = "sys" /\ report' = Empty /\ UNCHANGED <<attempts, faults>>
     \/ /\ Fault
        /\ attempts' = attempts + 1
        /\ pc' = IF attempts = Attempts THEN "down" ELSE "connect"
        /\ UNCHANGED report
  /\ UNCHANGED <<term, prev, outbox, xrayVars, cpuVars, delivered, stops, share, cut>>

Connect ==
  /\ pc = "connect"
  /\ \/ pc' = "sys" /\ report' = Empty /\ UNCHANGED <<attempts, faults>>
     \/ /\ Fault
        /\ attempts' = attempts + 1
        /\ pc' = IF attempts + 1 = Attempts THEN "down" ELSE "connect"   \* log.Fatal
        /\ UNCHANGED <<report>>
  /\ UNCHANGED <<term, prev, outbox, xrayVars, cpuVars, delivered, stops, share, cut>>

\* systemd starts the agent again.
Start ==
  /\ pc = "down"
  /\ pc' = "connect" /\ attempts' = 0 /\ term' = FALSE /\ prev' = NoStat
  /\ UNCHANGED <<report, outbox, xrayVars, cpuVars, delivered, boundVars, share, cut>>

\* Mutant: the loop ends when xray is not healthy.
TickIfHealthy ==
  /\ pc = "wait" /\ report.health = "ok"
  /\ pc' = "sys" /\ report' = Empty
  /\ UNCHANGED <<attempts, term, prev, outbox, xrayVars, cpuVars, delivered, boundVars,
                 share, cut>>

\* The ticker and the cancelled context may both be ready: either is taken.
Tick ==
  /\ pc = "wait"
  /\ pc' = "sys" /\ report' = Empty
  /\ UNCHANGED <<attempts, term, prev, outbox, xrayVars, cpuVars, delivered, boundVars,
                 share, cut>>

\* getCPUPercent, in unsigned arithmetic; prevTotal = 0 stands for no reading yet.
\* The product only wraps beyond 2^64 / 100 ticks, that is after a counter went back.
Used(now) ==
  LET idle == (now.idle - prev.idle) % Width
      total == (now.total - prev.total) % Width
  IN  IF prev.total = 0 THEN NoCpu
      ELSE IF total = 0 THEN 0
      ELSE (((total - idle) % Width) * 100) \div total

\* Mutant: the share is that since the first reading.
ReadSysKeepsPrev ==
  /\ pc = "sys"
  /\ pc' = "online"
  /\ report' = [report EXCEPT !.cpu = Used(stat)]
  /\ prev' = IF prev.total = 0 THEN stat ELSE prev
  /\ share' = IF since.idle + since.busy = 0 THEN 0
              ELSE (since.busy * 100) \div (since.idle + since.busy)
  /\ since' = [idle |-> 0, busy |-> 0]
  /\ UNCHANGED <<attempts, term, outbox, xrayVars, stat, back, delivered, boundVars, cut>>

ReadSys ==
  /\ pc = "sys"
  /\ pc' = "online"
  /\ report' = [report EXCEPT !.cpu = Used(stat)]
  /\ prev' = stat
  /\ share' = IF since.idle + since.busy = 0 THEN 0
              ELSE (since.busy * 100) \div (since.idle + since.busy)
  /\ since' = [idle |-> 0, busy |-> 0]
  /\ UNCHANGED <<attempts, term, outbox, xrayVars, stat, back, delivered, boundVars, cut>>

\* GetAllOnlineUsers, or the connections that ss counts.
Online ==
  /\ pc = "online"
  /\ pc' = "query"
  /\ \/ report' = [report EXCEPT !.conn = IF up THEN "users" ELSE "ss"] /\ UNCHANGED faults
     \/ Fault /\ report' = [report EXCEPT !.conn = "ss"]
  /\ UNCHANGED <<attempts, term, prev, outbox, xrayVars, cpuVars, delivered, stops, share,
                 cut>>

\* Mutant: the counters are read and not reset.
QueryKeeps ==
  /\ pc = "query"
  /\ pc' = "version"
  /\ report' = [report EXCEPT !.u = counter]
  /\ UNCHANGED <<attempts, term, prev, outbox, xrayVars, cpuVars, delivered, boundVars, share,
                 cut>>

\* QueryStats with reset; without an answer the report has no bytes.
Query ==
  /\ pc = "query" /\ up
  /\ pc' = "version"
  /\ report' = [report EXCEPT !.u = counter]
  /\ counter' = Zero
  /\ UNCHANGED <<attempts, term, prev, outbox, up, sent, cpuVars, delivered, boundVars, share,
                 cut>>

\* xray does not answer, or its answer comes after the timeout.
QueryFails ==
  /\ pc = "query"
  /\ \/ ~up /\ UNCHANGED <<counter, faults>>
     \/ up /\ Fault /\ counter' \in {counter, Zero}
  /\ pc' = "version"
  /\ UNCHANGED <<attempts, term, prev, report, outbox, up, sent, cpuVars, delivered, stops,
                 share, cut>>

\* `xray version` has no timeout: the step may never be taken, see Fairness.
Version ==
  /\ pc = "version"
  /\ pc' = "probe"
  /\ UNCHANGED <<attempts, term, prev, report, outbox, xrayVars, cpuVars, delivered, boundVars,
                 share, cut>>

\* The port of the configuration file is dialled, if it can be read there.
Probe ==
  /\ pc = "probe"
  /\ pc' = "publish"
  /\ \/ report' = [report EXCEPT !.health = IF up THEN "ok" ELSE "err"] /\ UNCHANGED faults
     \/ Fault /\ report' = [report EXCEPT !.health = "err"]
  /\ UNCHANGED <<attempts, term, prev, outbox, xrayVars, cpuVars, delivered, stops, share,
                 cut>>

\* nc.Publish fails when the buffer of a lost connection is full; only logged.
Publish ==
  /\ pc = "publish"
  /\ \/ outbox' = Plus(outbox, report.u) /\ UNCHANGED faults
     \/ Fault /\ UNCHANGED outbox
  /\ pc' = "wait"
  /\ UNCHANGED <<attempts, term, prev, report, xrayVars, cpuVars, delivered, stops, share,
                 cut>>

\* The buffer reaches NATS, or is lost with the connection.
Flush ==
  /\ pc \notin {"down", "connect"} /\ outbox # Zero
  /\ \/ delivered' = Plus(delivered, outbox) /\ UNCHANGED faults
     \/ Fault /\ UNCHANGED delivered
  /\ outbox' = Zero
  /\ UNCHANGED <<pc, attempts, term, prev, report, xrayVars, cpuVars, stops, share, cut>>

\* SIGTERM, once connected, is only looked at between reports; Drain does not wait for the buffer.
Stop ==
  /\ ~term /\ pc \notin {"down", "connect"} /\ stops < MaxStop
  /\ term' = TRUE /\ stops' = stops + 1
  /\ UNCHANGED <<pc, attempts, prev, report, outbox, xrayVars, cpuVars, delivered, faults,
                 share, cut>>

\* Mutant: a collection is interrupted.
ExitAtOnce ==
  /\ pc \notin {"down", "connect"} /\ term
  /\ pc' = "down"
  /\ delivered' \in {delivered, Plus(delivered, outbox)} /\ outbox' = Zero
  /\ cut' = (cut \/ outbox # Zero)
  /\ UNCHANGED <<attempts, term, prev, report, xrayVars, cpuVars, boundVars, share>>

Exit ==
  /\ pc = "wait" /\ term
  /\ pc' = "down"
  /\ delivered' \in {delivered, Plus(delivered, outbox)} /\ outbox' = Zero
  /\ cut' = (cut \/ outbox # Zero)
  /\ UNCHANGED <<attempts, term, prev, report, xrayVars, cpuVars, boundVars, share>>

\* The process dies; a SIGTERM before the connection is made does that too.
Crash ==
  /\ pc # "down"
  /\ Fault
  /\ pc' = "down" /\ outbox' = Zero
  /\ UNCHANGED <<attempts, term, prev, report, xrayVars, cpuVars, delivered, stops, share,
                 cut>>

-----------------------------------------------------------------------------
(* The node. *)

\* A byte of a user, and a busy tick.
Send(c) ==
  /\ up /\ sent[c] < MaxByte
  /\ sent' = [sent EXCEPT ![c] = @ + 1] /\ counter' = [counter EXCEPT ![c] = @ + 1]
  /\ stat' = [stat EXCEPT !.total = (@ + 1) % Width]
  /\ since' = [since EXCEPT !.busy = @ + 1]
  /\ UNCHANGED <<agentVars, up, delivered, boundVars, share, back, cut>>

IdleTick ==
  /\ stat.idle < MaxIdle
  /\ stat' = [idle |-> stat.idle + 1, total |-> (stat.total + 1) % Width]
  /\ since' = [since EXCEPT !.idle = @ + 1]
  /\ UNCHANGED <<agentVars, xrayVars, delivered, boundVars, share, back, cut>>

\* The kernel corrects the idle time downwards.
IdleBack ==
  /\ stat.idle > 0 /\ stat.total > 0
  /\ Fault
  /\ stat' = [idle |-> stat.idle - 1, total |-> stat.total - 1]
  /\ back' = TRUE
  /\ UNCHANGED <<agentVars, xrayVars, since, delivered, stops, share, cut>>

\* xray stops, and what its counters had is gone; it starts again.
XrayStops ==
  /\ up
  /\ Fault
  /\ up' = FALSE /\ counter' = Zero
  /\ UNCHANGED <<agentVars, sent, cpuVars, delivered, stops, share, cut>>

XrayStarts ==
  /\ ~up
  /\ up' = TRUE
  /\ UNCHANGED <<agentVars, counter, sent, cpuVars, delivered, boundVars, share, cut>>

Loop ==
  \/ Connect \/ Start \/ Tick \/ ReadSys \/ Online \/ Query \/ QueryFails \/ Version \/ Probe
  \/ Publish \/ Exit

Next ==
  \/ Loop \/ Flush \/ Stop \/ Crash
  \/ \E c \in Counters : Send(c)
  \/ IdleTick \/ IdleBack \/ XrayStops \/ XrayStarts

\* The ticker never stops, RPCs have timeouts, and `xray version` is assumed to end;
\* systemd starts the agent and xray again; the connection is established again.
Fairness == WF_vars(Loop) /\ WF_vars(Flush) /\ WF_vars(XrayStarts)

Spec == Init /\ [][Next]_vars /\ Fairness

-----------------------------------------------------------------------------
(* Properties. *)

Bytes == [Counters -> 0..MaxByte]

TypeOK ==
  /\ pc \in {"down", "connect", "sys", "online", "query", "version", "probe", "publish", "wait"}
  /\ attempts \in 0..Attempts /\ term \in BOOLEAN /\ up \in BOOLEAN
  /\ \A p \in {prev, stat} : p.idle \in 0..(Width - 1) /\ p.total \in 0..(Width - 1)
  /\ {report.u, outbox, counter, sent, delivered} \subseteq Bytes
  /\ report.conn \in {None, "users", "ss"} /\ report.health \in {None, "ok", "err"}
  /\ faults \in 0..MaxFault /\ stops \in 0..MaxStop
  /\ {back, cut} \subseteq BOOLEAN

\* The bytes of the report that has not been published yet.
InReport == IF pc \in {"version", "probe", "publish"} THEN report.u ELSE Zero

\* A byte is reported at most once, whatever is lost, retried or restarted: the
\* destructive read never lets one count twice (xray_users.go:19).
NeverCountedTwice ==
  \A c \in Counters : counter[c] + InReport[c] + outbox[c] + delivered[c] <= sent[c]

\* Every byte is still in a counter, a report or the buffer, or has arrived, when
\* nothing failed and the agent did not stop with a report in the buffer: a stop by
\* SIGTERM at any other moment loses none, however long the collection takes.
LostOnlyByFault ==
  (faults = 0 /\ ~cut) =>
    \A c \in Counters : sent[c] = counter[c] + InReport[c] + outbox[c] + delivered[c]

\* The CPU share is that of the ticks since the last reading, across the wrap of the
\* unsigned counters, unless one of them has gone back.
CpuIsShare ==
  (~back /\ report.cpu # NoCpu) => report.cpu \in 0..100 /\ report.cpu = share

\* The loop goes on whatever fails: every counter ends up read, and every byte
\* arrives under the proviso of LostOnlyByFault.
EverythingArrives ==
  <>[](counter = Zero /\ ((faults = 0 /\ ~cut) => delivered = sent))
=============================================================================
