---------------------------- MODULE TrafficMeter ----------------------------
(***************************************************************************)
(* The traffic totals of the day and of the month (collect/traffic.go):    *)
(* the kernel's byte counters, which a reboot resets, are read now and     *)
(* then, what they grew by is added to the totals, and totals and last     *)
(* counters are kept in traffic.json for the next start of the agent.      *)
(*                                                                         *)
(* Every start picks the interface with the most sent bytes (config.go),   *)
(* and traffic.json does not say of which interface its last counters are. *)
(*                                                                         *)
(* The calendar is a day number; the code sees only the day of the month   *)
(* and the number of the month, which repeat.                              *)
(***************************************************************************)
EXTENDS Integers

CONSTANTS Ifaces, Eth0,   \* network interfaces, and the one picked for want of a better
          Dirs, Tx,       \* directions counted, and the one that an interface is picked by
          DaysPerMonth, MonthsPerYear,
          MaxCount,       \* bound: bytes sent and received
          MaxDate,        \* bound: the day number
          MaxOld,         \* bound: bytes counted before the agent is installed
          MaxFault,       \* bound: saves that fail
          MaxReboot,      \* bound: reboots
          MaxSwitch       \* bound: starts on another interface than the file's

ASSUME MeterAssumption ==
  /\ {MaxCount, MaxDate, MaxOld, MaxFault, MaxReboot, MaxSwitch} \subseteq Nat
  /\ DaysPerMonth \in Nat \ {0, 1} /\ MonthsPerYear \in Nat \ {0, 1}
  /\ Eth0 \in Ifaces /\ Tx \in Dirs

VARIABLES
  date,      \* the day
  counter,   \* the kernel's counters, of each interface
  sent,      \* history: bytes sent and received since the agent was installed
  up,        \* the agent runs
  iface,     \* the interface it picked when it started
  meter,     \* the rest of its trafficReader
  file,      \* traffic.json
  due,       \* history: bytes of this period, with those of before that no
             \* saved read had counted when it began
  pending,   \* history: bytes since the last saved read
  reported,  \* history: the totals last returned by read, and the day
  faults, reboots, switches

historyVars == <<sent, due, pending, reported>>
boundVars == <<faults, reboots, switches>>
vars == <<date, counter, up, iface, meter, file, historyVars, boundVars>>

Periods == {"day", "month"}

\* What tells a period from the others: now.Day() and now.Month() for the code,
\* the day and the month themselves for the history.
Key(p, d) == IF p = "day" THEN d % DaysPerMonth
                          ELSE (d \div DaysPerMonth) % MonthsPerYear
Id(p, d) == IF p = "day" THEN d ELSE d \div DaysPerMonth

NoBytes == [d \in Dirs |-> 0]
NoTotals == [p \in Periods |-> NoBytes]

\* Mutant: without the clamp at 0.
GrowthUnclamped(c, prev) == c - prev

\* What a counter grew by since it was prev; nothing if it went back.
Growth(c, prev) == IF c < prev THEN 0 ELSE c - prev

\* A meter and a saved state: last counters, totals, and the day they are of.  The
\* history adds the interface of the last counters, and the periods whose totals are
\* foreign: they have counted what one interface has beyond the last counters of
\* another, or were restored from another period with the same key.
State(on, of, prev, total, foreign) ==
  [on |-> on, of |-> of, prev |-> prev, total |-> total, foreign |-> foreign]
NoState == State(0, Eth0, NoBytes, NoTotals, {})

\* traffic.json, absent until the first save.
NoFile == [exists |-> FALSE, s |-> NoState]
Saved(s) == [exists |-> TRUE, s |-> s]

Report(s) == [on |-> s.on, total |-> s.total]

Init ==
  /\ date = 0
  /\ counter \in [Ifaces -> [Dirs -> 0..MaxOld]] /\ sent = 0
  /\ up = FALSE /\ iface = Eth0
  /\ meter = NoState
  /\ file = NoFile
  /\ due = NoTotals /\ pending = NoBytes
  /\ reported = Report(NoState)
  /\ faults = 0 /\ reboots = 0 /\ switches = 0

-----------------------------------------------------------------------------
\* Config picks the interface that has sent the most, or eth0 if none has sent any or
\* the list cannot be read.
Picked ==
  {Eth0} \cup {i \in Ifaces : /\ counter[i][Tx] > 0
                              /\ \A j \in Ifaces : counter[j][Tx] <= counter[i][Tx]}

\* newTrafficReader: the totals of a period are restored if the file's key is
\* today's; the last counters are the file's, or what the interface shows now
\* when there are none, or 0 when it cannot be read.  (An interface that the
\* kernel does not list at the very first start has counted nothing yet.)
Restores(p) == file.exists /\ Key(p, file.s.on) = Key(p, date)
Restored(p) == IF Restores(p) THEN file.s.total[p] ELSE NoBytes
RestoredForeign ==
  {p \in Periods : Restores(p) /\ (p \in file.s.foreign \/ Id(p, file.s.on) # Id(p, date))}

Restore(of, prev) ==
  meter' = State(date, of, prev, [p \in Periods |-> Restored(p)], RestoredForeign)

Start ==
  /\ ~up
  /\ up' = TRUE
  /\ iface' \in Picked
  /\ IF file.exists /\ iface' # file.s.of
       THEN switches < MaxSwitch /\ switches' = switches + 1
       ELSE UNCHANGED switches
  /\ \/ file.exists /\ Restore(file.s.of, file.s.prev)
     \/ /\ file.exists => file.s.prev = NoBytes
        /\ Restore(iface', counter[iface'])
  /\ UNCHANGED <<date, counter, file, historyVars, faults, reboots>>

\* read, when the interface can be read (ok) and when it cannot.
Deltas(ok) ==
  [d \in Dirs |-> IF ok THEN Growth(counter[iface][d], meter.prev[d]) ELSE 0]
Grew(ok) == \E d \in Dirs : Deltas(ok)[d] > 0
Rolled(p) == Key(p, meter.on) # Key(p, date)

NextTotal(ok) ==
  [p \in Periods |-> [d \in Dirs |->
     (IF Rolled(p) THEN 0 ELSE meter.total[p][d]) + Deltas(ok)[d]]]
NextForeign(ok) ==
  {p \in Periods : \/ p \in meter.foreign /\ ~Rolled(p)
                   \/ Grew(ok) /\ meter.of # iface}

\* Mutant: the last counters are not brought up to date.
NextMeterKeepsPrev(ok) ==
  State(date, meter.of, meter.prev, NextTotal(ok), NextForeign(ok))

NextMeter(ok) ==
  State(date, IF ok THEN iface ELSE meter.of, IF ok THEN counter[iface] ELSE meter.prev,
        NextTotal(ok), NextForeign(ok))

\* Mutant: saved only when every direction grew.
ToSaveIfAllGrew(ok) == (\A d \in Dirs : Deltas(ok)[d] > 0) \/ (\E p \in Periods : Rolled(p))

\* The state is saved when a total changed, by writing a new file and renaming it
\* over the old one.
ToSave(ok) == Grew(ok) \/ \E p \in Periods : Rolled(p)

Read(ok) ==
  /\ up
  /\ meter' = NextMeter(ok)
  /\ reported' = Report(meter')
  /\ \/ /\ ToSave(ok)
        /\ file' = Saved(meter')
        /\ pending' = IF ok THEN NoBytes ELSE pending
        /\ UNCHANGED faults
     \/ /\ ToSave(ok) /\ faults < MaxFault
        /\ faults' = faults + 1
        /\ UNCHANGED <<file, pending>>
     \/ /\ ~ToSave(ok)
        /\ UNCHANGED <<file, pending, faults>>
  /\ UNCHANGED <<date, counter, up, iface, sent, due, reboots, switches>>

-----------------------------------------------------------------------------
(* The machine. *)

Send(i, d) ==
  /\ sent < MaxCount
  /\ counter' = [counter EXCEPT ![i][d] = @ + 1]
  /\ sent' = sent + 1
  /\ pending' = [pending EXCEPT ![d] = @ + 1]
  /\ due' = [p \in Periods |-> [due[p] EXCEPT ![d] = @ + 1]]
  /\ UNCHANGED <<date, up, iface, meter, file, reported, boundVars>>

\* A running agent reads every report interval (2m), so at least once a day.
NextDay ==
  /\ date < MaxDate
  /\ up => date = meter.on
  /\ date' = date + 1
  /\ due' = [p \in Periods |->
               IF Id(p, date + 1) = Id(p, date) THEN due[p] ELSE pending]
  /\ UNCHANGED <<counter, sent, up, iface, meter, file, pending, reported, boundVars>>

\* The agent stops, by itself, for an update or for a restart.
Stop ==
  /\ up /\ up' = FALSE
  /\ iface' = Eth0 /\ meter' = NoState
  /\ UNCHANGED <<date, counter, file, historyVars, boundVars>>

Reboot ==
  /\ reboots < MaxReboot
  /\ reboots' = reboots + 1
  /\ up' = FALSE
  /\ iface' = Eth0 /\ meter' = NoState
  /\ counter' = [i \in Ifaces |-> NoBytes]
  /\ UNCHANGED <<date, file, historyVars, faults, switches>>

Next ==
  \/ Start \/ Stop \/ Reboot \/ NextDay
  \/ \E ok \in BOOLEAN : Read(ok)
  \/ \E i \in Ifaces, d \in Dirs : Send(i, d)

Spec == Init /\ [][Next]_vars

-----------------------------------------------------------------------------
(* Properties. *)

Bytes == [Dirs -> Nat]
Totals == [Periods -> Bytes]
States == [on : Nat, of : Ifaces, prev : Bytes, total : Totals, foreign : SUBSET Periods]

TypeOK ==
  /\ date \in Nat /\ counter \in [Ifaces -> Bytes] /\ sent \in Nat
  /\ up \in BOOLEAN /\ iface \in Ifaces
  /\ meter \in States /\ file \in [exists : BOOLEAN, s : States]
  /\ due \in Totals /\ pending \in Bytes
  /\ reported \in [on : Nat, total : Totals]
  /\ faults \in Nat /\ reboots \in Nat /\ switches \in Nat

\* The totals of a running agent never count more than the bytes of their
\* period, with those left uncounted before it: no byte is counted twice or into
\* a period it has nothing to do with, whatever restarts, reboots and failed
\* saves come between two reads.  The code does not give it for a period in which a
\* start picked another interface, whose bytes since boot then count as if they had
\* grown from the old one's, nor for totals restored in another month on the same day.
NeverOvercounts ==
  up => \A p \in Periods \ meter.foreign, d \in Dirs :
          Id(p, meter.on) = Id(p, date) => meter.total[p][d] <= due[p][d]

\* As long as saves succeed, the totals a running agent goes on from are never
\* below those it reported last in the same period: a restart loses nothing that
\* was reported.
ReportsNeverDrop ==
  (up /\ faults = 0) =>
    \A p \in Periods, d \in Dirs :
      Id(p, reported.on) = Id(p, date) /\ Id(p, meter.on) = Id(p, date) =>
        reported.total[p][d] <= meter.total[p][d]

=============================================================================
