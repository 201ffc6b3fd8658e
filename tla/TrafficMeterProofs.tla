------------------------- MODULE TrafficMeterProofs -------------------------
(***************************************************************************)
(* That the traffic totals never overcount but where NeverOvercounts says, *)
(* for any interfaces, calendar, bytes, restarts, reboots and failed       *)
(* saves.  The totals alone say nothing: what a read will add depends on   *)
(* the last counters, so the invariant bounds total and growth together,   *)
(* for the running reader and for the file.  And that what was reported is *)
(* never taken back while saves succeed, whatever interface is picked.     *)
(***************************************************************************)
EXTENDS TrafficMeter, TLAPS

\* What s has counted and what a read of the same interface would make of its last
\* counters.
Unread(s, d) == Growth(counter[s.of][d], s.prev[d])
Counts(s) ==
  /\ s.on <= date
  /\ \A d \in Dirs : Unread(s, d) <= pending[d]
  /\ \A p \in Periods \ s.foreign, d \in Dirs :
       Id(p, s.on) = Id(p, date) => s.total[p][d] + Unread(s, d) <= due[p][d]

\* Bytes that no saved read has counted may still be counted in any period.
PendingIsDue == \A p \in Periods, d \in Dirs : pending[d] <= due[p][d]

\* The reader of a running agent, which reads at least once a day, and the file.
MeterCounts == up => Counts(meter) /\ date <= meter.on + 1
FileCounts == file.exists => Counts(file.s)

IInv == TypeOK /\ PendingIsDue /\ MeterCounts /\ FileCounts

-----------------------------------------------------------------------------
(* The calendar. *)

\* Less than k apart, two numbers with the same remainder by k are the same.
LEMMA SameRemainder ==
  ASSUME NEW k \in Nat \ {0}, NEW a \in Nat, NEW b \in Nat,
         a <= b, b - a < k, a % k = b % k
  PROVE  a = b
<1>1. a = k * (a \div k) + (a % k) /\ b = k * (b \div k) + (b % k)
  OBVIOUS
<1>2. a \div k \in Nat /\ b \div k \in Nat
  OBVIOUS
<1>3. (a \div k) <= (b \div k) /\ (b \div k) <= (a \div k) + 1
  OBVIOUS
<1>4. CASE b \div k = (a \div k) + 1
  <2>1. k * (b \div k) = k * (a \div k) + k
    BY <1>2, <1>4
  <2>2. a % k \in Nat /\ k * (a \div k) \in Nat
    BY <1>2
  <2> QED
    BY <1>1, <2>1, <2>2
<1>5. CASE b \div k = a \div k
  BY <1>1, <1>5
<1> QED
  BY <1>2, <1>3, <1>4, <1>5

\* Two numbers less than k apart are in the same or in adjacent multiples of k.
LEMMA Quotients ==
  ASSUME NEW k \in Nat \ {0}, NEW a \in Nat, NEW b \in Nat, a <= b
  PROVE  /\ a \div k \in Nat /\ b \div k \in Nat
         /\ a \div k <= b \div k
         /\ b - a < k => b \div k <= (a \div k) + 1
  OBVIOUS

\* From one day to the next, the day of the month and the number of the month tell
\* the same as the day and the month themselves.
LEMMA KeyIsId ==
  ASSUME NEW p \in Periods, NEW a \in Nat, NEW b \in Nat, a <= b, b <= a + 1
  PROVE  Key(p, a) = Key(p, b) <=> Id(p, a) = Id(p, b)
<1>0. /\ DaysPerMonth \in Nat \ {0} /\ MonthsPerYear \in Nat \ {0}
      /\ b - a < DaysPerMonth /\ 1 < MonthsPerYear
  BY MeterAssumption
<1>1. CASE p = "day"
  <2>1. a % DaysPerMonth = b % DaysPerMonth => a = b
    BY <1>0, SameRemainder
  <2> QED
    BY <1>1, <2>1 DEF Key, Id
<1>2. CASE p = "month"
  <2> DEFINE x == a \div DaysPerMonth
             y == b \div DaysPerMonth
  <2>1. x \in Nat /\ y \in Nat /\ x <= y /\ y <= x + 1
    BY <1>0, Quotients
  <2>2. Key(p, a) = x % MonthsPerYear /\ Key(p, b) = y % MonthsPerYear
    BY <1>2 DEF Key
  <2>3. Id(p, a) = x /\ Id(p, b) = y
    BY <1>2 DEF Id
  <2> HIDE DEF x, y
  <2>4. x % MonthsPerYear = y % MonthsPerYear => x = y
    <3>1. y - x < MonthsPerYear
      BY <2>1, <1>0
    <3> QED
      BY <2>1, <3>1, <1>0, SameRemainder
  <2> QED
    BY <2>2, <2>3, <2>4
<1> QED
  BY <1>1, <1>2 DEF Periods

\* If a day is in the period of tomorrow, today is too.
LEMMA SamePeriod ==
  ASSUME NEW p \in Periods, NEW a \in Nat, NEW b \in Nat, a <= b, Id(p, a) = Id(p, b + 1)
  PROVE  Id(p, a) = Id(p, b) /\ Id(p, b) = Id(p, b + 1)
<1>0. DaysPerMonth \in Nat \ {0}
  BY MeterAssumption
<1>1. CASE p = "day"
  BY <1>1 DEF Id
<1>2. CASE p = "month"
  <2>1. a \div DaysPerMonth <= b \div DaysPerMonth
    BY <1>0, Quotients
  <2>2. b \div DaysPerMonth <= (b + 1) \div DaysPerMonth
    BY <1>0, Quotients
  <2>3. a \div DaysPerMonth \in Nat /\ b \div DaysPerMonth \in Nat
    BY <1>0, Quotients
  <2>4. (b + 1) \div DaysPerMonth \in Nat
    BY <1>0, Quotients
  <2>5. Id(p, a) = a \div DaysPerMonth /\ Id(p, b) = b \div DaysPerMonth
        /\ Id(p, b + 1) = (b + 1) \div DaysPerMonth
    BY <1>2 DEF Id
  <2> QED
    BY <2>1, <2>2, <2>3, <2>4, <2>5
<1> QED
  BY <1>1, <1>2 DEF Periods

-----------------------------------------------------------------------------
(* Types. *)

\* Growth is a number of bytes, none from a counter to itself.
LEMMA GrowthIsBytes ==
  ASSUME NEW c \in Nat, NEW prev \in Nat
  PROVE  /\ Growth(c, prev) \in Nat
         /\ Growth(c, c) = 0 /\ Growth(0, prev) = 0
         /\ Growth(c, prev) <= c
         /\ Growth(c + 1, prev) <= Growth(c, prev) + 1
  BY DEF Growth

\* The meter of a new agent and after a read.
LEMMA MeterTypes ==
  ASSUME TypeOK
  PROVE  /\ NoBytes \in Bytes /\ NoTotals \in Totals /\ NoState \in States
         /\ \A p \in Periods : Restored(p) \in Bytes
         /\ \A ok \in BOOLEAN : NextMeter(ok) \in States
<1>1. NoBytes \in Bytes /\ NoTotals \in Totals
  BY DEF NoBytes, NoTotals, Bytes, Totals
<1>2. NoState \in States
  BY <1>1, MeterAssumption DEF NoState, State, States
<1>3. \A p \in Periods : Restored(p) \in Bytes
  BY <1>1 DEF Restored, TypeOK, States, Totals
<1>4. ASSUME NEW ok \in BOOLEAN PROVE NextMeter(ok) \in States
  <2>0. /\ iface \in Ifaces /\ counter[iface] \in Bytes
        /\ meter \in States /\ meter.of \in Ifaces /\ meter.prev \in Bytes
        /\ meter.total \in Totals /\ meter.foreign \subseteq Periods
    BY DEF TypeOK, States
  <2>1. \A d \in Dirs : counter[iface][d] \in Nat /\ meter.prev[d] \in Nat
    BY <2>0 DEF Bytes
  <2>2. \A d \in Dirs : Deltas(ok)[d] \in Nat
    BY <2>1, GrowthIsBytes DEF Deltas
  <2>3. ASSUME NEW p \in Periods, NEW d \in Dirs
        PROVE  (IF Rolled(p) THEN 0 ELSE meter.total[p][d]) + Deltas(ok)[d] \in Nat
    <3>1. meter.total[p][d] \in Nat
      BY <2>0 DEF Totals, Bytes
    <3> QED
      BY <3>1, <2>2
  <2>4. NextTotal(ok) \in Totals
    BY <2>3 DEF NextTotal, Totals, Bytes
  <2>5. NextForeign(ok) \in SUBSET Periods
    BY DEF NextForeign
  <2>6. /\ (IF ok THEN counter[iface] ELSE meter.prev) \in Bytes
        /\ (IF ok THEN iface ELSE meter.of) \in Ifaces
        /\ date \in Nat
    BY <2>0 DEF TypeOK
  <2> QED
    BY <2>4, <2>5, <2>6 DEF NextMeter, State, States
<1> QED
  BY <1>1, <1>2, <1>3, <1>4

\* What an agent has when it starts, on the interface it picks.
LEMMA StartTypes ==
  ASSUME TypeOK, Start
  PROVE  TypeOK'
<1>1. PICK of \in Ifaces, prev \in Bytes : Restore(of, prev)
  <2>1. iface' \in Ifaces
    BY MeterAssumption DEF Start, Picked
  <2>2. counter[iface'] \in Bytes /\ file.s.of \in Ifaces /\ file.s.prev \in Bytes
    BY <2>1 DEF TypeOK, States
  <2> QED
    BY <2>1, <2>2 DEF Start
<1>2. [p \in Periods |-> Restored(p)] \in Totals
  BY MeterTypes DEF Totals
<1>3. meter' \in States
  BY <1>1, <1>2 DEF Restore, RestoredForeign, State, States, TypeOK
<1>4. iface' \in Ifaces
  BY MeterAssumption DEF Start, Picked
<1>5. switches' \in Nat
  BY DEF Start, TypeOK
<1> QED
  BY <1>3, <1>4, <1>5 DEF Start, TypeOK, historyVars

\* Every step leaves the types of the state alone.
LEMMA StepTypes == TypeOK /\ [Next]_vars => TypeOK'
<1> SUFFICES ASSUME TypeOK, [Next]_vars PROVE TypeOK'
  OBVIOUS
<1> USE MeterAssumption
<1>1. CASE Start
  BY <1>1, StartTypes
<1>2. CASE Stop
  BY <1>2, MeterTypes DEF Stop, TypeOK, historyVars, boundVars
<1>3. CASE Reboot
  <2>1. counter' \in [Ifaces -> Bytes] /\ meter' \in States /\ iface' \in Ifaces
    BY <1>3, MeterTypes DEF Reboot
  <2>2. UNCHANGED <<date, file, sent, due, pending, reported, faults, switches>>
    BY <1>3 DEF Reboot, historyVars
  <2>3. up' = FALSE /\ reboots' = reboots + 1
    BY <1>3 DEF Reboot
  <2>4. reboots' \in Nat
    BY <2>3 DEF TypeOK
  <2> QED
    BY <2>1, <2>2, <2>3, <2>4 DEF TypeOK
<1>4. CASE NextDay
  <2>1. due' \in Totals
    BY <1>4 DEF NextDay, TypeOK, Totals
  <2> QED
    BY <2>1, <1>4 DEF NextDay, TypeOK, boundVars
<1>5. ASSUME NEW ok \in BOOLEAN, Read(ok) PROVE TypeOK'
  <2>1. meter' \in States
    BY <1>5, MeterTypes DEF Read
  <2>2. file' \in [exists : BOOLEAN, s : States]
    <3>1. [exists |-> TRUE, s |-> meter'] \in [exists : BOOLEAN, s : States]
      BY <2>1
    <3>2. file' = [exists |-> TRUE, s |-> meter'] \/ file' = file
      BY <1>5 DEF Read, Saved
    <3> QED
      BY <3>1, <3>2 DEF TypeOK
  <2>3. pending' \in Bytes /\ faults' \in Nat
    BY <1>5, MeterTypes DEF Read, TypeOK
  <2>4. reported' \in [on : Nat, total : Totals]
    BY <2>1, <1>5 DEF Read, Report, States
  <2> QED
    BY <2>1, <2>2, <2>3, <2>4, <1>5 DEF Read, TypeOK
<1>6. ASSUME NEW i \in Ifaces, NEW d \in Dirs, Send(i, d) PROVE TypeOK'
  <2>1. ASSUME NEW b \in Bytes PROVE [b EXCEPT ![d] = @ + 1] \in Bytes
    BY <2>1 DEF Bytes
  <2>2. due' \in Totals
    BY <1>6, <2>1 DEF Send, TypeOK, Totals
  <2>3. counter' \in [Ifaces -> Bytes]
    <3>1. counter' = [counter EXCEPT ![i] = [counter[i] EXCEPT ![d] = @ + 1]]
      BY <1>6 DEF Send
    <3>2. counter[i] \in Bytes
      BY DEF TypeOK
    <3> QED
      BY <3>1, <3>2, <2>1 DEF TypeOK
  <2>4. pending' \in Bytes
    BY <1>6, <2>1 DEF Send, TypeOK
  <2>5. sent' \in Nat
    BY <1>6 DEF Send, TypeOK
  <2> QED
    BY <2>2, <2>3, <2>4, <2>5, <1>6 DEF Send, TypeOK, boundVars
<1>7. CASE UNCHANGED vars
  BY <1>7 DEF vars, historyVars, boundVars, TypeOK
<1> QED
  BY <1>1, <1>2, <1>3, <1>4, <1>5, <1>6, <1>7 DEF Next

-----------------------------------------------------------------------------
(* The totals. *)

\* The initial state: no byte is sent, no agent runs and there is no file.
LEMMA Initially == Init => IInv
<1> SUFFICES ASSUME Init PROVE IInv
  OBVIOUS
<1>1. NoBytes \in Bytes /\ NoTotals \in Totals
  BY DEF NoBytes, NoTotals, Bytes, Totals
<1>2. NoState \in States /\ Report(NoState) \in [on : Nat, total : Totals]
  BY <1>1, MeterAssumption DEF NoState, State, States, Report
<1>3. counter \in [Ifaces -> Bytes]
  BY MeterAssumption DEF Init, Bytes
<1>4. TypeOK
  BY <1>1, <1>2, <1>3, MeterAssumption DEF Init, TypeOK, NoFile
<1>5. PendingIsDue
  <2>1. \A d \in Dirs : pending[d] = 0
    BY DEF Init, NoBytes
  <2>2. \A p \in Periods, d \in Dirs : due[p][d] = 0
    BY DEF Init, NoBytes, NoTotals
  <2>3. ASSUME NEW p \in Periods, NEW d \in Dirs PROVE pending[d] <= due[p][d]
    <3>1. pending[d] = 0 /\ due[p][d] = 0
      BY <2>1, <2>2
    <3> QED
      BY <3>1
  <2> QED
    BY <2>3 DEF PendingIsDue
<1> QED
  BY <1>4, <1>5 DEF Init, IInv, MeterCounts, FileCounts, NoFile

\* The machine keeps what a state counts: a byte sent is pending and due, a reboot
\* leaves nothing unread, and a new period begins with what is pending.
LEMMA MachineKeeps ==
  ASSUME TypeOK, PendingIsDue,
         NextDay \/ Reboot \/ \E i \in Ifaces, d \in Dirs : Send(i, d)
  PROVE  /\ PendingIsDue'
         /\ \A s \in States : Counts(s) => Counts(s)'
<1>a. \A d \in Dirs : pending[d] \in Nat
  BY DEF TypeOK, Bytes
<1>b. \A p \in Periods, d \in Dirs : due[p][d] \in Nat
  BY DEF TypeOK, Totals, Bytes
<1>c. \A s \in States : s.on \in Nat /\ s.of \in Ifaces
  BY DEF States
<1>d. \A s \in States, d \in Dirs : counter[s.of][d] \in Nat /\ s.prev[d] \in Nat
  BY DEF TypeOK, States, Bytes
<1>e. \A s \in States, p \in Periods, d \in Dirs : s.total[p][d] \in Nat
  BY DEF States, Totals, Bytes
<1>1. CASE NextDay
  <2>1. UNCHANGED <<counter, pending>> /\ date' = date + 1 /\ date \in Nat
    BY <1>1 DEF NextDay, TypeOK
  <2>2. \A p \in Periods : due'[p] = IF Id(p, date + 1) = Id(p, date) THEN due[p] ELSE pending
    BY <1>1 DEF NextDay
  <2>3. PendingIsDue'
    BY <1>a, <1>b, <2>1, <2>2 DEF PendingIsDue
  <2>4. ASSUME NEW s \in States, Counts(s) PROVE Counts(s)'
    <3>1. s.on <= date' /\ \A d \in Dirs : Unread(s, d)' <= pending'[d]
      BY <1>c, <2>1, <2>4 DEF Counts, Unread
    <3>2. ASSUME NEW p \in Periods \ s.foreign, NEW d \in Dirs, Id(p, s.on) = Id(p, date')
          PROVE  s.total[p][d] + Unread(s, d)' <= due'[p][d]
      <4>1. s.on <= date /\ s.on \in Nat
        BY <1>c, <2>4 DEF Counts
      <4>2. Id(p, s.on) = Id(p, date) /\ Id(p, date) = Id(p, date + 1)
        BY <3>2, <2>1, <4>1, SamePeriod
      <4>3. due'[p][d] = due[p][d] /\ Unread(s, d)' = Unread(s, d)
        BY <2>1, <2>2, <4>2 DEF Unread
      <4> QED
        BY <4>2, <4>3, <2>4 DEF Counts
    <3> QED
      BY <3>1, <3>2 DEF Counts
  <2> QED
    BY <2>3, <2>4
<1>2. CASE Reboot
  <2>1. /\ UNCHANGED <<date, pending, due>>
        /\ \A i \in Ifaces, d \in Dirs : counter'[i][d] = 0
    BY <1>2 DEF Reboot, historyVars, NoBytes
  <2>2. \A s \in States, d \in Dirs : Unread(s, d)' = 0 /\ Unread(s, d) \in Nat
    BY <1>c, <1>d, <2>1, GrowthIsBytes DEF Unread
  <2>3. ASSUME NEW s \in States, Counts(s) PROVE Counts(s)'
    <3>1. s.on <= date' /\ \A d \in Dirs : Unread(s, d)' <= pending'[d]
      BY <1>a, <2>1, <2>2, <2>3 DEF Counts
    <3>2. ASSUME NEW p \in Periods \ s.foreign, NEW d \in Dirs, Id(p, s.on) = Id(p, date')
          PROVE  s.total[p][d] + Unread(s, d)' <= due'[p][d]
      <4>1. s.total[p][d] + Unread(s, d) <= due[p][d]
        BY <3>2, <2>1, <2>3 DEF Counts
      <4>2. s.total[p][d] \in Nat /\ due[p][d] \in Nat
        BY <1>b, <1>e
      <4> QED
        BY <4>1, <4>2, <2>1, <2>2
    <3> QED
      BY <3>1, <3>2 DEF Counts
  <2> QED
    BY <2>1, <2>3 DEF PendingIsDue
<1>3. ASSUME NEW i \in Ifaces, NEW e \in Dirs, Send(i, e)
      PROVE  PendingIsDue' /\ \A s \in States : Counts(s) => Counts(s)'
  <2> DEFINE More(d) == IF d = e THEN 1 ELSE 0
  <2>0. \A s \in States, d \in Dirs :
          \/ counter'[s.of][d] = counter[s.of][d]
          \/ counter'[s.of][d] = counter[s.of][d] + More(d)
    <3>1. ASSUME NEW j \in Ifaces, NEW d \in Dirs
          PROVE  \/ counter'[j][d] = counter[j][d]
                 \/ counter'[j][d] = counter[j][d] + More(d)
      <4>1. counter' = [counter EXCEPT ![i] = [counter[i] EXCEPT ![e] = @ + 1]]
        BY <1>3 DEF Send
      <4>2. counter \in [Ifaces -> Bytes] /\ counter[i] \in Bytes
        BY DEF TypeOK
      <4>3. CASE j # i
        BY <4>1, <4>2, <4>3
      <4>4. CASE j = i /\ d # e
        BY <4>1, <4>2, <4>4 DEF Bytes
      <4>5. CASE j = i /\ d = e
        BY <4>1, <4>2, <4>5 DEF Bytes
      <4> QED
        BY <4>3, <4>4, <4>5
    <3> QED
      BY <3>1, <1>c
  <2>1. /\ date' = date
        /\ \A d \in Dirs : /\ pending'[d] = pending[d] + More(d)
                           /\ \A p \in Periods : due'[p][d] = due[p][d] + More(d)
    BY <1>3 DEF Send, TypeOK, Totals, Bytes
  <2>2. \A s \in States, d \in Dirs :
          /\ Unread(s, d) \in Nat /\ Unread(s, d)' \in Nat
          /\ Unread(s, d)' <= Unread(s, d) + More(d)
    <3> SUFFICES ASSUME NEW s \in States, NEW d \in Dirs
                 PROVE  /\ Unread(s, d) \in Nat /\ Unread(s, d)' \in Nat
                        /\ Unread(s, d)' <= Unread(s, d) + More(d)
      OBVIOUS
    <3>1. counter[s.of][d] \in Nat /\ s.prev[d] \in Nat
      BY <1>d
    <3>2. More(d) = 0 \/ More(d) = 1
      OBVIOUS
    <3>3. Unread(s, d)' = Growth(counter'[s.of][d], s.prev[d])
      BY DEF Unread
    <3>4. Unread(s, d) = Growth(counter[s.of][d], s.prev[d])
      BY DEF Unread
    <3>5. CASE counter'[s.of][d] = counter[s.of][d]
      BY <3>1, <3>2, <3>3, <3>4, <3>5 DEF Growth
    <3>6. CASE counter'[s.of][d] = counter[s.of][d] + More(d)
      BY <3>1, <3>2, <3>3, <3>4, <3>6 DEF Growth
    <3> QED
      BY <2>0, <3>5, <3>6
  <2>3. \A d \in Dirs : More(d) \in Nat
    OBVIOUS
  <2> HIDE DEF More
  <2>4. PendingIsDue'
    BY <1>a, <1>b, <2>1, <2>3 DEF PendingIsDue
  <2>5. ASSUME NEW s \in States, Counts(s) PROVE Counts(s)'
    <3>1. s.on <= date' /\ \A d \in Dirs : Unread(s, d)' <= pending'[d]
      BY <1>a, <2>1, <2>2, <2>3, <2>5 DEF Counts
    <3>2. ASSUME NEW p \in Periods \ s.foreign, NEW d \in Dirs, Id(p, s.on) = Id(p, date')
          PROVE  s.total[p][d] + Unread(s, d)' <= due'[p][d]
      <4>1. s.total[p][d] + Unread(s, d) <= due[p][d]
        BY <2>1, <2>5, <3>2 DEF Counts
      <4>2. s.total[p][d] \in Nat /\ due[p][d] \in Nat /\ due'[p][d] = due[p][d] + More(d)
        BY <1>b, <1>e, <2>1
      <4>3. /\ Unread(s, d) \in Nat /\ Unread(s, d)' \in Nat /\ More(d) \in Nat
            /\ Unread(s, d)' <= Unread(s, d) + More(d)
        BY <2>2, <2>3
      <4> QED
        BY <4>1, <4>2, <4>3
    <3> QED
      BY <3>1, <3>2 DEF Counts
  <2> QED
    BY <2>4, <2>5
<1> QED
  BY <1>1, <1>2, <1>3

\* A meter that starts restores what the file counts, and goes on from its last
\* counters or from the present ones of the interface it picked.
LEMMA StartKeeps ==
  ASSUME IInv, Start
  PROVE  MeterCounts' /\ FileCounts' /\ PendingIsDue'
<1> USE DEF IInv
<1>1. UNCHANGED <<date, counter, file, due, pending>>
  BY DEF Start, historyVars
<1>2. FileCounts' /\ PendingIsDue'
  BY <1>1 DEF FileCounts, Counts, Unread, PendingIsDue
<1>3. PICK of, prev :
        /\ Restore(of, prev)
        /\ \/ file.exists /\ of = file.s.of /\ prev = file.s.prev
           \/ of \in Ifaces /\ prev = counter[of]
  <2>1. iface' \in Ifaces
    BY MeterAssumption DEF Start, Picked
  <2> QED
    BY <2>1 DEF Start
<1>4. /\ meter'.on = date /\ meter'.of = of /\ meter'.prev = prev /\ date \in Nat
      /\ \A p \in Periods : meter'.total[p] = Restored(p)
      /\ meter'.foreign = RestoredForeign
  BY <1>3 DEF Restore, State, TypeOK
<1>5. \A d \in Dirs : pending[d] \in Nat /\ file.s.prev[d] \in Nat
  BY DEF TypeOK, States, Bytes
<1>6. \A p \in Periods, d \in Dirs :
        due[p][d] \in Nat /\ file.s.total[p][d] \in Nat /\ pending[d] <= due[p][d]
  BY DEF TypeOK, States, Totals, Bytes, PendingIsDue
<1>7. \A d \in Dirs : counter[file.s.of][d] \in Nat
  BY DEF TypeOK, States, Bytes
\* What it will make of its counters, the file would too.
<1>8. ASSUME NEW d \in Dirs
      PROVE  /\ Unread(meter, d)' \in Nat
             /\ \/ Unread(meter, d)' = 0
                \/ file.exists /\ Unread(meter, d)' = Unread(file.s, d)
  <2>1. Unread(meter, d)' = Growth(counter[of][d], prev[d])
    BY <1>1, <1>4 DEF Unread
  <2>2. CASE file.exists /\ of = file.s.of /\ prev = file.s.prev
    <3>1. Unread(meter, d)' = Unread(file.s, d)
      BY <2>1, <2>2 DEF Unread
    <3>2. Growth(counter[file.s.of][d], file.s.prev[d]) \in Nat
      BY <1>5, <1>7, GrowthIsBytes
    <3> QED
      BY <2>2, <3>1, <3>2 DEF Unread
  <2>3. CASE of \in Ifaces /\ prev = counter[of]
    <3>1. counter[of][d] \in Nat
      BY <2>3 DEF TypeOK, Bytes
    <3> QED
      BY <2>1, <2>3, <3>1, GrowthIsBytes
  <2> QED
    BY <1>3, <2>2, <2>3
<1>9. \A d \in Dirs : Unread(meter, d)' <= pending[d]
  BY <1>5, <1>8 DEF FileCounts, Counts
<1>10. ASSUME NEW p \in Periods \ RestoredForeign, NEW d \in Dirs
       PROVE  meter'.total[p][d] + Unread(meter, d)' <= due[p][d]
  <2>1. CASE Restores(p)
    <3>1. file.exists /\ p \notin file.s.foreign /\ Id(p, file.s.on) = Id(p, date)
      BY <2>1, <1>10 DEF RestoredForeign, Restores
    <3>2. file.s.total[p][d] + Unread(file.s, d) <= due[p][d]
      BY <3>1 DEF FileCounts, Counts
    <3>3. meter'.total[p][d] = file.s.total[p][d]
      BY <2>1, <1>4 DEF Restored
    <3>4. Unread(file.s, d) \in Nat
      BY <1>5, <1>7, GrowthIsBytes DEF Unread
    <3> QED
      BY <3>2, <3>3, <3>4, <1>6, <1>8
  <2>2. CASE ~ Restores(p)
    <3>1. meter'.total[p][d] = 0
      BY <2>2, <1>4 DEF Restored, NoBytes
    <3>2. Unread(meter, d)' <= pending[d] /\ Unread(meter, d)' \in Nat
      BY <1>8, <1>9
    <3> QED
      BY <3>1, <3>2, <1>5, <1>6
  <2> QED
    BY <2>1, <2>2
<1>11. Counts(meter)'
  BY <1>1, <1>4, <1>9, <1>10 DEF Counts
<1> QED
  BY <1>1, <1>2, <1>4, <1>11 DEF MeterCounts

\* A read adds to the total of a period what was unread, and to that of a new
\* period what was pending when it began; or the period is foreign.
LEMMA ReadKeeps ==
  ASSUME IInv, NEW ok \in BOOLEAN, Read(ok)
  PROVE  MeterCounts' /\ FileCounts' /\ PendingIsDue'
<1> USE DEF IInv
<1>1. UNCHANGED <<date, counter, due, up, iface>> /\ up
  BY DEF Read
<1>2. /\ Counts(meter) /\ date <= meter.on + 1 /\ meter.on <= date
      /\ date \in Nat /\ meter.on \in Nat
  BY <1>1 DEF MeterCounts, Counts, TypeOK, States
<1>3. \A d \in Dirs : /\ counter[meter.of][d] \in Nat /\ counter[iface][d] \in Nat
                      /\ pending[d] \in Nat /\ meter.prev[d] \in Nat
  BY DEF TypeOK, States, Bytes
<1>4. \A p \in Periods, d \in Dirs :
        due[p][d] \in Nat /\ meter.total[p][d] \in Nat /\ pending[d] <= due[p][d]
  BY DEF TypeOK, States, Totals, Bytes, PendingIsDue
<1>5. /\ meter'.on = date
      /\ meter'.of = (IF ok THEN iface ELSE meter.of)
      /\ meter'.prev = (IF ok THEN counter[iface] ELSE meter.prev)
      /\ \A p \in Periods, d \in Dirs :
           meter'.total[p][d] = (IF Rolled(p) THEN 0 ELSE meter.total[p][d]) + Deltas(ok)[d]
      /\ meter'.foreign = NextForeign(ok)
  BY DEF Read, NextMeter, NextTotal, State
\* What was unread is counted now, if the counters could be read.
<1>6. ASSUME NEW d \in Dirs
      PROVE  /\ Unread(meter, d) \in Nat /\ Unread(meter, d) <= pending[d]
             /\ Deltas(ok)[d] \in Nat
             /\ Unread(meter, d)' = (IF ok THEN 0 ELSE Unread(meter, d))
             /\ ~ ok => Deltas(ok)[d] = 0
             /\ ok /\ meter.of = iface => Deltas(ok)[d] = Unread(meter, d)
  <2>1. Unread(meter, d) \in Nat /\ Unread(meter, d) <= pending[d]
    BY <1>2, <1>3, GrowthIsBytes DEF Unread, Counts
  <2>2. Deltas(ok)[d] = (IF ok THEN Growth(counter[iface][d], meter.prev[d]) ELSE 0)
    BY DEF Deltas
  <2>3. Growth(counter[iface][d], meter.prev[d]) \in Nat
        /\ Growth(counter[iface][d], counter[iface][d]) = 0
    BY <1>3, GrowthIsBytes
  <2>4. CASE ok
    <3>1. Unread(meter, d)' = Growth(counter[iface][d], counter[iface][d])
      BY <2>4, <1>1, <1>5 DEF Unread
    <3>2. meter.of = iface => Deltas(ok)[d] = Unread(meter, d)
      BY <2>2, <2>4 DEF Unread
    <3> QED
      BY <3>1, <3>2, <2>1, <2>2, <2>3, <2>4
  <2>5. CASE ~ ok
    <3>1. Unread(meter, d)' = Unread(meter, d)
      BY <2>5, <1>1, <1>5 DEF Unread
    <3> QED
      BY <3>1, <2>1, <2>2, <2>5
  <2> QED
    BY <2>4, <2>5
<1>7. ASSUME NEW p \in Periods \ NextForeign(ok), NEW d \in Dirs
      PROVE  meter'.total[p][d] + Unread(meter, d)' <= due[p][d]
  <2>1. Deltas(ok)[d] + Unread(meter, d)' <= Unread(meter, d)
    <3>1. CASE ok /\ meter.of # iface
      <4>1. ~ (Deltas(ok)[d] > 0)
        BY <1>7, <3>1 DEF NextForeign, Grew
      <4>2. /\ Deltas(ok)[d] \in Nat /\ Unread(meter, d) \in Nat
            /\ Unread(meter, d)' = 0
        BY <3>1, <1>6
      <4> QED
        BY <4>1, <4>2
    <3>2. CASE ~ (ok /\ meter.of # iface)
      BY <3>2, <1>6
    <3> QED
      BY <3>1, <3>2
  <2>2. CASE Rolled(p)
    <3>1. meter'.total[p][d] = Deltas(ok)[d]
      BY <2>2, <1>5, <1>6
    <3>2. Unread(meter, d)' \in Nat /\ Unread(meter, d) \in Nat
      BY <1>6
    <3> QED
      BY <3>1, <3>2, <2>1, <1>3, <1>4, <1>6
  <2>3. CASE ~ Rolled(p)
    <3>1. p \notin meter.foreign
      BY <2>3, <1>7 DEF NextForeign
    <3>2. Id(p, meter.on) = Id(p, date)
      BY <2>3, <1>2, KeyIsId DEF Rolled
    <3>3. meter.total[p][d] + Unread(meter, d) <= due[p][d]
      BY <3>1, <3>2, <1>2 DEF Counts
    <3>4. meter'.total[p][d] = meter.total[p][d] + Deltas(ok)[d]
      BY <2>3, <1>5
    <3>5. /\ Deltas(ok)[d] \in Nat /\ Unread(meter, d)' \in Nat /\ Unread(meter, d) \in Nat
          /\ meter.total[p][d] \in Nat /\ due[p][d] \in Nat
      BY <1>4, <1>6
    <3> QED
      BY <3>3, <3>4, <3>5, <2>1
  <2> QED
    BY <2>2, <2>3
\* Either the new state is saved, with nothing pending if the counters were read, or
\* the file stays, with what was pending.
<1>8. CASE file' = Saved(meter') /\ pending' = IF ok THEN NoBytes ELSE pending
  <2>1. \A d \in Dirs : /\ pending'[d] = (IF ok THEN 0 ELSE pending[d])
                       /\ Unread(meter, d)' <= pending'[d]
    BY <1>8, <1>3, <1>6 DEF NoBytes
  <2>2. PendingIsDue'
    BY <2>1, <1>1, <1>3, <1>4 DEF PendingIsDue
  <2>3. Counts(meter)'
    BY <2>1, <1>1, <1>2, <1>5, <1>7 DEF Counts
  <2>4. file'.s = meter'
    BY <1>8 DEF Saved
  <2>5. Counts(file.s)'
    BY <2>3, <2>4 DEF Counts, Unread
  <2> QED
    BY <2>2, <2>3, <2>5, <1>1, <1>2, <1>5 DEF MeterCounts, FileCounts
<1>9. CASE UNCHANGED <<file, pending>>
  <2>1. PendingIsDue' /\ FileCounts'
    BY <1>9, <1>1 DEF PendingIsDue, FileCounts, Counts, Unread
  <2>2. \A d \in Dirs : Unread(meter, d)' <= pending'[d]
    BY <1>9, <1>3, <1>6
  <2>3. Counts(meter)'
    BY <2>2, <1>1, <1>2, <1>5, <1>7 DEF Counts
  <2> QED
    BY <2>1, <2>3, <1>1, <1>2, <1>5 DEF MeterCounts
<1> QED
  BY <1>8, <1>9 DEF Read

\* Every step keeps the invariant.
LEMMA StepKeeps == IInv /\ [Next]_vars => IInv'
<1> SUFFICES ASSUME IInv, [Next]_vars PROVE IInv'
  OBVIOUS
<1> USE DEF IInv
<1>0. TypeOK'
  BY StepTypes
<1>1. CASE Start
  BY <1>0, <1>1, StartKeeps
<1>2. ASSUME NEW ok \in BOOLEAN, Read(ok) PROVE IInv'
  BY <1>0, <1>2, ReadKeeps
<1>3. CASE NextDay \/ Reboot \/ \E i \in Ifaces, d \in Dirs : Send(i, d)
  <2>1. /\ PendingIsDue'
        /\ \A s \in States : Counts(s) => Counts(s)'
    BY <1>3, MachineKeeps
  <2>2. /\ file' = file /\ meter \in States /\ file.s \in States
        /\ up' => up /\ meter' = meter
    BY <1>3 DEF NextDay, Reboot, Send, TypeOK
  <2>3. up' => Counts(meter)'
    BY <2>1, <2>2 DEF MeterCounts, Counts, Unread
  <2>4. FileCounts'
    BY <2>1, <2>2 DEF FileCounts, Counts, Unread
  <2>5. up' => date' <= meter.on + 1
    <3>1. CASE NextDay
      BY <3>1, <2>2 DEF NextDay, TypeOK, States
    <3>2. CASE Reboot
      BY <3>2 DEF Reboot
    <3>3. CASE \E i \in Ifaces, d \in Dirs : Send(i, d)
      BY <3>3, <2>2 DEF Send, MeterCounts
    <3> QED
      BY <3>1, <3>2, <3>3, <1>3
  <2> QED
    BY <1>0, <2>1, <2>2, <2>3, <2>4, <2>5 DEF MeterCounts
<1>4. CASE Stop
  BY <1>0, <1>4 DEF Stop, historyVars, PendingIsDue, MeterCounts, FileCounts, Counts, Unread
<1>5. CASE UNCHANGED vars
  BY <1>0, <1>5 DEF vars, historyVars, PendingIsDue, MeterCounts, FileCounts, Counts, Unread
<1> QED
  BY <1>1, <1>2, <1>3, <1>4, <1>5 DEF Next

\* The invariant holds in every reachable state.
THEOREM Invariant == Spec => []IInv
<1>1. Init => IInv
  BY Initially
<1>2. IInv /\ [Next]_vars => IInv'
  BY StepKeeps
<1> QED
  BY <1>1, <1>2, PTL DEF Spec

\* The reader, its file and the history (traffic.go) keep their types.
THEOREM TypeCorrect == Spec => []TypeOK
<1>1. Init => TypeOK
  BY Initially DEF IInv
<1>2. TypeOK /\ [Next]_vars => TypeOK'
  BY StepTypes
<1> QED
  BY <1>1, <1>2, PTL DEF Spec

\* The totals of trafficReader.read (traffic.go:82-131) never count more than was
\* sent in their period and left uncounted before it, on whatever interfaces the
\* starts pick and however long the agent is down, but for the foreign periods.
THEOREM TotalsCorrect == Spec => []NeverOvercounts
<1>1. IInv => NeverOvercounts
  <2> SUFFICES ASSUME IInv, up, NEW p \in Periods \ meter.foreign, NEW d \in Dirs,
                      Id(p, meter.on) = Id(p, date)
               PROVE  meter.total[p][d] <= due[p][d]
    BY DEF NeverOvercounts
  <2>1. meter.total[p][d] + Unread(meter, d) <= due[p][d]
    BY DEF IInv, MeterCounts, Counts
  <2>2. counter[meter.of][d] \in Nat /\ meter.prev[d] \in Nat
    BY DEF IInv, TypeOK, States, Bytes
  <2>3. Unread(meter, d) \in Nat
    BY <2>2, GrowthIsBytes DEF Unread
  <2>4. meter.total[p][d] \in Nat /\ due[p][d] \in Nat
    BY DEF IInv, TypeOK, States, Totals, Bytes
  <2> QED
    BY <2>1, <2>3, <2>4
<1> QED
  BY <1>1, Invariant, PTL

-----------------------------------------------------------------------------
(* What was reported is in the file. *)

\* A start in the period of the last report restores what was reported, and one in
\* the period of the running reader what the reader has.
ReportInFile ==
  \A p \in Periods, d \in Dirs :
    Id(p, reported.on) = Id(p, date) => reported.total[p][d] <= Restored(p)[d]
MeterInFile ==
  up => \A p \in Periods, d \in Dirs :
          Key(p, meter.on) = Key(p, date) => meter.total[p][d] <= Restored(p)[d]

KeptInv ==
  /\ TypeOK
  /\ reported.on <= date
  /\ faults = 0 => ReportInFile
  /\ faults = 0 => MeterInFile
  /\ ReportsNeverDrop

\* The numbers the totals are made of.
LEMMA TotalsAreBytes ==
  ASSUME TypeOK
  PROVE  /\ date \in Nat /\ reported.on \in Nat /\ meter.on \in Nat /\ faults \in Nat
         /\ \A p \in Periods, d \in Dirs :
              /\ reported.total[p][d] \in Nat /\ meter.total[p][d] \in Nat
              /\ Restored(p)[d] \in Nat
<1>1. reported \in [on : Nat, total : Totals] /\ meter \in States /\ date \in Nat
      /\ faults \in Nat
  BY DEF TypeOK
<1>2. reported.total \in Totals /\ meter.total \in Totals
      /\ reported.on \in Nat /\ meter.on \in Nat
  BY <1>1 DEF States
<1>3. \A p \in Periods : Restored(p) \in Bytes
  BY MeterTypes
<1> QED
  BY <1>1, <1>2, <1>3 DEF Totals, Bytes

\* At the start nothing was reported, and no agent runs.
LEMMA KeptInitially == Init => KeptInv
<1> SUFFICES ASSUME Init PROVE KeptInv
  OBVIOUS
<1>1. TypeOK
  BY Initially DEF IInv
<1>2. reported.on = 0 /\ date = 0 /\ ~ up
  BY DEF Init, Report, NoState, State
<1>3. \A p \in Periods, d \in Dirs : reported.total[p][d] = 0
  BY DEF Init, Report, NoState, State, NoTotals, NoBytes
<1>4. \A p \in Periods, d \in Dirs : Restored(p)[d] \in Nat
  BY <1>1, TotalsAreBytes
<1>5. ReportInFile
  BY <1>3, <1>4 DEF ReportInFile
<1> QED
  BY <1>1, <1>2, <1>5 DEF KeptInv, MeterInFile, ReportsNeverDrop

\* A start goes on from what the file has of the period.
LEMMA StartReports ==
  ASSUME KeptInv, Start
  PROVE  KeptInv'
<1>1. TypeOK'
  BY StepTypes DEF KeptInv, Next
<1>2. /\ date' = date /\ file' = file /\ reported' = reported /\ faults' = faults
      /\ meter'.on = date /\ \A p \in Periods : meter'.total[p] = Restored(p)
  BY DEF Start, Restore, State, historyVars
<1>3. \A p \in Periods : Restored(p)' = Restored(p)
  BY <1>2 DEF Restored, Restores, Key
<1>4. \A p \in Periods, d \in Dirs : Restored(p)[d] \in Nat
  BY TotalsAreBytes DEF KeptInv
<1>5. (faults = 0 => ReportInFile)' /\ (faults = 0 => MeterInFile)'
  BY <1>2, <1>3, <1>4 DEF KeptInv, ReportInFile, MeterInFile, Id
<1>6. ReportsNeverDrop'
  <2> SUFFICES ASSUME faults = 0, NEW p \in Periods, NEW d \in Dirs,
                      Id(p, reported.on) = Id(p, date)
               PROVE  reported.total[p][d] <= meter'.total[p][d]
    BY <1>2 DEF ReportsNeverDrop, Id
  <2> QED
    BY <1>2 DEF KeptInv, ReportInFile
<1> QED
  BY <1>1, <1>2, <1>5, <1>6 DEF KeptInv

\* A read reports what the reader has; it saves it, or it had counted nothing more
\* than the file.
LEMMA ReadReports ==
  ASSUME KeptInv, NEW ok \in BOOLEAN, Read(ok)
  PROVE  KeptInv'
<1>1. TypeOK'
  BY StepTypes DEF KeptInv, Next
<1>2. /\ date' = date /\ up /\ up' = up
      /\ meter' = NextMeter(ok) /\ meter'.on = date
      /\ reported'.on = meter'.on /\ reported'.total = meter'.total
  BY DEF Read, NextMeter, State, Report
<1>3. /\ date \in Nat
      /\ \A p \in Periods, d \in Dirs : meter'.total[p][d] \in Nat /\ meter.total[p][d] \in Nat
  <2>1. meter'.total \in Totals
    BY <1>1 DEF TypeOK, States
  <2>2. \A p \in Periods, d \in Dirs : meter'.total[p][d] \in Nat
    BY <2>1 DEF Totals, Bytes
  <2> QED
    BY <2>2, TotalsAreBytes DEF KeptInv
<1>4. ReportsNeverDrop'
  BY <1>2, <1>3 DEF ReportsNeverDrop
<1>5. CASE file' = Saved(meter')
  <2>1. \A p \in Periods : Restored(p)' = meter'.total[p]
    BY <1>2, <1>5 DEF Restored, Restores, Saved
  <2>2. ReportInFile' /\ MeterInFile'
    BY <1>2, <1>3, <2>1 DEF ReportInFile, MeterInFile
  <2> QED
    BY <1>1, <1>2, <1>3, <1>4, <2>2 DEF KeptInv
<1>6. CASE faults' = faults + 1
  <2>1. faults' # 0
    BY <1>6, TotalsAreBytes DEF KeptInv
  <2> QED
    BY <1>1, <1>2, <1>3, <1>4, <2>1 DEF KeptInv
<1>7. CASE ~ ToSave(ok) /\ UNCHANGED <<file, pending, faults>>
  <2>1. \A p \in Periods : Restored(p)' = Restored(p)
    BY <1>2, <1>7 DEF Restored, Restores, Key
  <2>2. ASSUME NEW p \in Periods, NEW d \in Dirs, faults = 0
        PROVE  meter'.total[p][d] <= Restored(p)[d]
    <3>1. ~ Rolled(p) /\ ~ (Deltas(ok)[d] > 0)
      BY <1>7 DEF ToSave, Grew
    <3>2. Deltas(ok)[d] \in Nat
      <4>1. counter[iface][d] \in Nat /\ meter.prev[d] \in Nat
        BY DEF KeptInv, TypeOK, States, Bytes
      <4> QED
        BY <4>1, GrowthIsBytes DEF Deltas
    <3>3. meter'.total[p][d] = meter.total[p][d] + Deltas(ok)[d]
      BY <1>2, <3>1 DEF NextMeter, NextTotal, State
    <3>4. Key(p, meter.on) = Key(p, date)
      BY <3>1 DEF Rolled
    <3>5. meter.total[p][d] <= Restored(p)[d]
      BY <1>2, <2>2, <3>4 DEF KeptInv, MeterInFile
    <3> QED
      BY <1>3, <3>1, <3>2, <3>3, <3>5
  <2>3. (faults = 0 => ReportInFile)' /\ (faults = 0 => MeterInFile)'
    BY <1>2, <1>7, <2>1, <2>2 DEF ReportInFile, MeterInFile
  <2> QED
    BY <1>1, <1>2, <1>3, <1>4, <2>3 DEF KeptInv
<1> QED
  BY <1>5, <1>6, <1>7 DEF Read

\* Tomorrow is in the same period as the last report only if today is.
LEMMA NextDayReports ==
  ASSUME KeptInv, NextDay
  PROVE  KeptInv'
<1>1. TypeOK'
  BY StepTypes DEF KeptInv, Next
<1>2. /\ date' = date + 1 /\ (up => date = meter.on)
      /\ UNCHANGED <<up, meter, file, reported, faults>>
  BY DEF NextDay, boundVars
<1>3. date \in Nat /\ reported.on \in Nat /\ reported.on <= date
  BY TotalsAreBytes DEF KeptInv
<1>4. ASSUME NEW p \in Periods, Id(p, reported.on) = Id(p, date + 1)
      PROVE  /\ Id(p, reported.on) = Id(p, date) /\ Id(p, date) = Id(p, date + 1)
             /\ Key(p, date) = Key(p, date + 1)
  <2>1. Id(p, reported.on) = Id(p, date) /\ Id(p, date) = Id(p, date + 1)
    BY <1>3, <1>4, SamePeriod
  <2>2. CASE p = "day"
    BY <1>3, <2>1, <2>2 DEF Id
  <2>3. CASE p = "month"
    BY <2>1, <2>3 DEF Id, Key
  <2> QED
    BY <2>1, <2>2, <2>3 DEF Periods
<1>5. \A p \in Periods : Key(p, date) = Key(p, date + 1) => Restored(p)' = Restored(p)
  BY <1>2 DEF Restored, Restores, Key
<1>6. (faults = 0 => ReportInFile)'
  <2> SUFFICES ASSUME faults = 0, NEW p \in Periods, NEW d \in Dirs,
                      Id(p, reported.on) = Id(p, date + 1)
               PROVE  reported.total[p][d] <= Restored(p)'[d]
    BY <1>2 DEF ReportInFile, Id
  <2> QED
    BY <1>4, <1>5 DEF KeptInv, ReportInFile
<1>7. (faults = 0 => MeterInFile)'
  <2> SUFFICES ASSUME faults = 0, up, NEW p \in Periods, NEW d \in Dirs,
                      Key(p, meter.on) = Key(p, date + 1)
               PROVE  meter.total[p][d] <= Restored(p)'[d]
    BY <1>2 DEF MeterInFile, Key
  <2> QED
    BY <1>2, <1>5 DEF KeptInv, MeterInFile
<1>8. ReportsNeverDrop'
  <2> SUFFICES ASSUME up, faults = 0, NEW p \in Periods, NEW d \in Dirs,
                      Id(p, reported.on) = Id(p, date + 1)
               PROVE  reported.total[p][d] <= meter.total[p][d]
    BY <1>2 DEF ReportsNeverDrop, Id
  <2> QED
    BY <1>2, <1>4 DEF KeptInv, ReportsNeverDrop
<1> QED
  BY <1>1, <1>2, <1>3, <1>6, <1>7, <1>8 DEF KeptInv

\* Every step keeps the reports in the file.
LEMMA StepReports == KeptInv /\ [Next]_vars => KeptInv'
<1> SUFFICES ASSUME KeptInv, [Next]_vars PROVE KeptInv'
  OBVIOUS
<1>1. TypeOK'
  BY StepTypes DEF KeptInv
<1>2. CASE Start
  BY <1>2, StartReports
<1>3. ASSUME NEW ok \in BOOLEAN, Read(ok) PROVE KeptInv'
  BY <1>3, ReadReports
<1>4. CASE NextDay
  BY <1>4, NextDayReports
<1>5. CASE /\ UNCHANGED <<date, file, reported, faults>>
           /\ up' => up /\ meter' = meter
  <2>1. \A p \in Periods : Restored(p)' = Restored(p)
    BY <1>5 DEF Restored, Restores, Key
  <2>2. (faults = 0 => ReportInFile)' /\ (faults = 0 => MeterInFile)'
    BY <1>5, <2>1 DEF KeptInv, ReportInFile, MeterInFile, Id, Key
  <2>3. ReportsNeverDrop'
    BY <1>5 DEF KeptInv, ReportsNeverDrop, Id
  <2> QED
    BY <1>1, <1>5, <2>2, <2>3 DEF KeptInv
<1>6. Stop \/ Reboot \/ (\E i \in Ifaces, d \in Dirs : Send(i, d)) \/ UNCHANGED vars =>
        /\ UNCHANGED <<date, file, reported, faults>>
        /\ up' => up /\ meter' = meter
  BY DEF Stop, Reboot, Send, vars, historyVars, boundVars
<1> QED
  BY <1>2, <1>3, <1>4, <1>5, <1>6 DEF Next

\* traffic.go:52-78,118-131: the totals a reader goes on from, after any stops and
\* reboots, are not below those reported last in the period, as long as saves succeed.
THEOREM ReportsKept == Spec => []ReportsNeverDrop
<1>1. KeptInv => ReportsNeverDrop
  BY DEF KeptInv
<1>2. Spec => []KeptInv
  BY KeptInitially, StepReports, PTL DEF Spec
<1> QED
  BY <1>1, <1>2, PTL
=============================================================================
