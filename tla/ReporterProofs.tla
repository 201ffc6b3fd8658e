--------------------------- MODULE ReporterProofs ---------------------------
(***************************************************************************)
(* What Reporter guarantees of the users' bytes for any counters, bounds   *)
(* and faults: none is ever reported twice, and without a fault or a stop  *)
(* with a report in the buffer none is lost.                               *)
(***************************************************************************)
EXTENDS Reporter, TLAPS

Amounts == [Counters -> Nat]
Reading == [idle : 0..(Width - 1), total : 0..(Width - 1)]
Report == [cpu : Int, conn : {None, "users", "ss"}, u : Amounts,
           health : {None, "ok", "err"}]
Pcs == {"down", "connect", "sys", "online", "query", "version", "probe", "publish", "wait"}

\* The types of what the loop keeps, and of the bytes.
LoopTypes ==
  /\ pc \in Pcs /\ attempts \in 0..Attempts /\ (pc = "connect" => attempts < Attempts)
  /\ prev \in Reading /\ stat \in Reading /\ report \in Report
  /\ faults \in 0..MaxFault /\ stops \in 0..MaxStop
  /\ pc \in {"sys", "online", "query"} => report.u = Zero

ByteTypes ==
  /\ outbox \in Amounts /\ counter \in Amounts /\ sent \in Amounts
  /\ delivered \in Amounts
  /\ \A c \in Counters : sent[c] <= MaxByte /\ report.u[c] <= MaxByte

FlagTypes == term \in BOOLEAN /\ up \in BOOLEAN /\ back \in BOOLEAN /\ cut \in BOOLEAN

IInv == LoopTypes /\ ByteTypes /\ FlagTypes /\ NeverCountedTwice /\ LostOnlyByFault

\* Where the bytes of counter c are, as long as they are not lost.
Total(c) == counter[c] + InReport[c] + outbox[c] + delivered[c]

\* A step that keeps every byte, and one that may lose some for a reason.
Keeps == /\ sent' = sent /\ \A c \in Counters : Total(c)' = Total(c)
         /\ faults' = 0 => faults = 0
         /\ cut => cut'
Loses == /\ sent' = sent /\ \A c \in Counters : Total(c)' <= Total(c)
         /\ faults' # 0 \/ cut'

-----------------------------------------------------------------------------
\* Sums of bytes.
LEMMA PlusFacts ==
  ASSUME NEW f \in Amounts, NEW g \in Amounts
  PROVE  /\ Plus(f, g) \in Amounts /\ Zero \in Amounts
         /\ \A c \in Counters : Plus(f, g)[c] = f[c] + g[c] /\ Zero[c] = 0
  BY DEF Plus, Zero, Amounts

\* Init establishes the invariant.
LEMMA InitIInv == Init => IInv
<1> SUFFICES ASSUME Init PROVE IInv
  OBVIOUS
<1> USE ReporterAssumption
<1>1. Zero \in Amounts /\ \A c \in Counters : Zero[c] = 0
  BY DEF Zero, Amounts
<1>2. LoopTypes
  <2>1. MaxFault \in Nat /\ MaxStop \in Nat /\ Attempts \in Nat \ {0} /\ Width \in Nat /\ Width > 2
    BY DEF ReporterAssumption
  <2>2. pc \in Pcs /\ attempts \in 0..Attempts /\ attempts < Attempts
    BY <2>1 DEF Init, Pcs
  <2>3. prev \in Reading /\ stat \in Reading
    BY <2>1 DEF Init, Reading, NoStat
  <2>4. report \in Report
    BY <1>1 DEF Init, Report, Empty, NoCpu, None
  <2>5. faults \in 0..MaxFault /\ stops \in 0..MaxStop
    BY <2>1 DEF Init
  <2> QED
    BY <2>2, <2>3, <2>4, <2>5 DEF LoopTypes, Init
<1>3. ByteTypes /\ FlagTypes
  <2>1. MaxByte \in Nat
    BY DEF ReporterAssumption
  <2>2. report.u = Zero
    BY DEF Init, Empty
  <2>3. ByteTypes
    BY <1>1, <2>1, <2>2 DEF Init, ByteTypes
  <2>4. FlagTypes
    BY DEF Init, FlagTypes
  <2> QED
    BY <2>3, <2>4
<1>4. InReport = Zero
  BY DEF Init, InReport
<1>5. NeverCountedTwice /\ LostOnlyByFault
  BY <1>1, <1>4 DEF Init, NeverCountedTwice, LostOnlyByFault
<1> QED
  BY <1>2, <1>3, <1>5 DEF IInv

\* Each part of the bytes of a counter is bounded by their sum.
LEMMA BoundedSum ==
  ASSUME NEW f \in Amounts, NEW g \in Amounts, NEW h \in Amounts, NEW k \in Amounts,
         NEW s \in Amounts, NEW m \in Nat, \A c \in Counters : s[c] <= m,
         \A c \in Counters : f[c] + g[c] + h[c] + k[c] <= s[c]
  PROVE  \A c \in Counters : f[c] <= m /\ h[c] <= m /\ k[c] <= m
<1> SUFFICES ASSUME NEW c \in Counters PROVE f[c] <= m /\ h[c] <= m /\ k[c] <= m
  OBVIOUS
<1>1. /\ f[c] \in Nat /\ g[c] \in Nat /\ h[c] \in Nat /\ k[c] \in Nat /\ s[c] \in Nat
      /\ s[c] <= m /\ f[c] + g[c] + h[c] + k[c] <= s[c]
  BY DEF Amounts
<1> QED
  BY <1>1

\* A counter in the report is a natural number, whatever the loop is at.
LEMMA InReportType ==
  ASSUME LoopTypes
  PROVE  InReport \in Amounts
  BY DEF LoopTypes, Report, InReport, Zero, Amounts

\* The share computed from two readings is an integer.
LEMMA UsedType ==
  ASSUME NEW now \in Reading, prev \in Reading
  PROVE  Used(now) \in Int
<1> DEFINE idle == (now.idle - prev.idle) % Width
           total == (now.total - prev.total) % Width
<1>1. idle \in Nat /\ total \in Nat
  BY ReporterAssumption DEF Reading
<1>2. (total - idle) % Width \in Nat
  BY <1>1, ReporterAssumption
<1>3. total # 0 => (((total - idle) % Width) * 100) \div total \in Int
  <2> HIDE DEF idle, total
  <2>1. ((total - idle) % Width) * 100 \in Int
    BY <1>2
  <2> QED
    BY <1>1, <2>1
<1> HIDE DEF idle, total
<1>4. CASE prev.total = 0
  BY <1>4 DEF Used, NoCpu
<1>5. CASE prev.total # 0 /\ total = 0
  BY <1>5 DEF Used, total
<1>6. CASE prev.total # 0 /\ total # 0
  BY <1>3, <1>6 DEF Used, total, idle
<1> QED
  BY <1>4, <1>5, <1>6

-----------------------------------------------------------------------------
\* A step that keeps or loses bytes preserves what is said of them.
LEMMA BytesStep ==
  ASSUME IInv, LoopTypes', ByteTypes', Keeps \/ Loses
  PROVE  NeverCountedTwice' /\ LostOnlyByFault'
<1>1. \A c \in Counters : Total(c) <= sent[c] /\ Total(c) \in Nat /\ Total(c)' \in Nat
  <2>1. InReport \in Amounts /\ InReport' \in Amounts
    BY InReportType DEF IInv, LoopTypes, Report, InReport, Zero, Amounts
  <2> QED
    BY <2>1 DEF IInv, NeverCountedTwice, Total, ByteTypes, Amounts
<1>2. NeverCountedTwice'
  <2>1. \A c \in Counters : Total(c)' <= sent'[c]
    BY <1>1 DEF Keeps, Loses, IInv, ByteTypes, Amounts
  <2> QED
    BY <2>1 DEF NeverCountedTwice, Total
<1>3. LostOnlyByFault'
  <2> SUFFICES ASSUME faults' = 0, ~cut' PROVE \A c \in Counters : sent'[c] = Total(c)'
    BY DEF LostOnlyByFault, Total
  <2>1. Keeps /\ faults = 0 /\ ~cut
    BY DEF Keeps, Loses
  <2>2. \A c \in Counters : sent[c] = Total(c)
    BY <2>1 DEF IInv, LostOnlyByFault, Total
  <2> QED
    BY <2>1, <2>2 DEF Keeps
<1> QED
  BY <1>2, <1>3
-----------------------------------------------------------------------------
\* What every step preserves.
Good == LoopTypes' /\ ByteTypes' /\ FlagTypes' /\ (Keeps \/ Loses)

\* A step that leaves the bytes alone, and the report too when it has any.
Aside ==
  /\ UNCHANGED <<outbox, counter, sent, delivered>> /\ InReport' = InReport
  /\ faults' \in {faults, faults + 1} /\ cut' = cut
  /\ report'.u \in {report.u, Zero}

\* Such a step preserves the types of the bytes and keeps every byte.
LEMMA AsideKeeps ==
  ASSUME IInv, LoopTypes', Aside
  PROVE  ByteTypes' /\ (Keeps \/ Loses)
<1>1. \A c \in Counters : Zero[c] = 0
  BY DEF Zero
<1>2. MaxByte \in Nat
  BY ReporterAssumption
<1>3. ByteTypes'
  BY <1>1, <1>2 DEF IInv, ByteTypes, Aside
<1>4. faults \in Nat
  BY ReporterAssumption DEF IInv, LoopTypes
<1>5. Keeps
  BY <1>4 DEF Aside, Keeps, Total
<1> QED
  BY <1>3, <1>5

\* The steps of the loop that do not move bytes.
LEMMA LoopAside ==
  ASSUME IInv, Connect \/ Start \/ Tick \/ ReadSys \/ Online \/ Version \/ Probe
  PROVE  LoopTypes' /\ FlagTypes' /\ Aside
<1>1. /\ MaxFault \in Nat /\ MaxStop \in Nat /\ Attempts \in Nat \ {0}
      /\ Width \in Nat /\ Width > 2 /\ Zero \in Amounts
  BY ReporterAssumption DEF Zero, Amounts
<1>2. CASE Connect
  <2>1. LoopTypes'
    BY <1>1, <1>2 DEF Connect, IInv, LoopTypes, Pcs, Fault, Report, Empty, NoCpu, None, cpuVars
  <2>2. FlagTypes'
    BY <1>2 DEF Connect, IInv, FlagTypes, xrayVars, cpuVars
  <2>3. Aside
    BY <1>2 DEF Connect, Aside, InReport, xrayVars, Fault, Empty
  <2> QED
    BY <2>1, <2>2, <2>3
<1>3. CASE Start
  <2>1. LoopTypes'
    BY <1>1, <1>3 DEF Start, IInv, LoopTypes, Pcs, Reading, NoStat, cpuVars, boundVars
  <2>2. FlagTypes'
    BY <1>3 DEF Start, IInv, FlagTypes, xrayVars, cpuVars
  <2>3. Aside
    BY <1>3 DEF Start, Aside, InReport, xrayVars, boundVars
  <2> QED
    BY <2>1, <2>2, <2>3
<1>4. CASE Tick
  <2>1. LoopTypes'
    BY <1>1, <1>4 DEF Tick, IInv, LoopTypes, Pcs, Report, Empty, NoCpu, None, cpuVars, boundVars
  <2>2. FlagTypes'
    BY <1>4 DEF Tick, IInv, FlagTypes, xrayVars, cpuVars
  <2>3. Aside
    BY <1>4 DEF Tick, Aside, InReport, xrayVars, boundVars, Empty
  <2> QED
    BY <2>1, <2>2, <2>3
<1>5. CASE ReadSys
  <2>1. stat \in Reading /\ prev \in Reading /\ report \in Report
    BY DEF IInv, LoopTypes
  <2>2. Used(stat) \in Int
    BY <2>1, UsedType
  <2>3. report' \in Report /\ report'.u = report.u
    <3> DEFINE share_ == Used(stat)
    <3>1. report' = [report EXCEPT !.cpu = share_]
      BY <1>5 DEF ReadSys
    <3>2. share_ \in Int
      BY <2>2
    <3> HIDE DEF share_
    <3> QED
      BY <2>1, <3>1, <3>2 DEF Report
  <2>4. LoopTypes'
    BY <1>5, <2>1, <2>3 DEF ReadSys, IInv, LoopTypes, Pcs, boundVars
  <2>5. FlagTypes'
    BY <1>5 DEF ReadSys, IInv, FlagTypes, xrayVars
  <2>6. Aside
    BY <1>5, <2>3 DEF ReadSys, Aside, InReport, xrayVars, boundVars
  <2> QED
    BY <2>4, <2>5, <2>6
<1>6. CASE Online
  <2>1. report' \in Report /\ report'.u = report.u
    BY <1>6 DEF Online, IInv, LoopTypes, Report
  <2>2. LoopTypes'
    BY <1>1, <1>6, <2>1 DEF Online, IInv, LoopTypes, Pcs, Fault, cpuVars
  <2>3. FlagTypes'
    BY <1>6 DEF Online, IInv, FlagTypes, xrayVars, cpuVars
  <2>4. Aside
    BY <1>6, <2>1 DEF Online, Aside, InReport, xrayVars, Fault
  <2> QED
    BY <2>2, <2>3, <2>4
<1>7. CASE Version
  <2>1. LoopTypes'
    BY <1>7 DEF Version, IInv, LoopTypes, Pcs, cpuVars, boundVars
  <2>2. FlagTypes'
    BY <1>7 DEF Version, IInv, FlagTypes, xrayVars, cpuVars
  <2>3. Aside
    BY <1>7 DEF Version, Aside, InReport, xrayVars, boundVars
  <2> QED
    BY <2>1, <2>2, <2>3
<1>8. CASE Probe
  <2>1. report' \in Report /\ report'.u = report.u
    BY <1>8 DEF Probe, IInv, LoopTypes, Report
  <2>2. LoopTypes'
    BY <1>1, <1>8, <2>1 DEF Probe, IInv, LoopTypes, Pcs, Fault, cpuVars
  <2>3. FlagTypes'
    BY <1>8 DEF Probe, IInv, FlagTypes, xrayVars, cpuVars
  <2>4. Aside
    BY <1>8, <2>1 DEF Probe, Aside, InReport, xrayVars, Fault
  <2> QED
    BY <2>2, <2>3, <2>4
<1> QED
  BY <1>2, <1>3, <1>4, <1>5, <1>6, <1>7, <1>8
\* Reading the counters moves what they have into the report.
LEMMA QueryGood ==
  ASSUME IInv, Query
  PROVE  Good
<1>1. Zero \in Amounts /\ \A c \in Counters : Zero[c] = 0
  BY DEF Zero, Amounts
<1>2. report' \in Report /\ report'.u = counter
  BY DEF Query, IInv, LoopTypes, ByteTypes, Report
<1>3. LoopTypes'
  BY <1>2 DEF Query, IInv, LoopTypes, Pcs, cpuVars, boundVars
<1>4. FlagTypes'
  BY DEF Query, IInv, FlagTypes, cpuVars
<1>5. InReport = Zero /\ InReport' = counter
  BY <1>2 DEF Query, InReport
<1>6. \A c \in Counters : counter[c] <= MaxByte
  <2>1. InReport \in Amounts
    BY <1>1, <1>5
  <2>2. MaxByte \in Nat
    BY ReporterAssumption
  <2>3. /\ counter \in Amounts /\ outbox \in Amounts /\ delivered \in Amounts
        /\ sent \in Amounts /\ \A c \in Counters : sent[c] <= MaxByte
    BY DEF IInv, ByteTypes
  <2>4. \A c \in Counters : counter[c] + InReport[c] + outbox[c] + delivered[c] <= sent[c]
    BY DEF IInv, NeverCountedTwice
  <2> QED
    BY <2>1, <2>2, <2>3, <2>4, BoundedSum
<1>7. ByteTypes'
  BY <1>1, <1>2, <1>6 DEF Query, IInv, ByteTypes
<1>8. Keeps
  BY <1>1, <1>5 DEF Query, IInv, ByteTypes, Amounts, Keeps, Total, boundVars
<1> QED
  BY <1>3, <1>4, <1>7, <1>8 DEF Good

\* Without an answer the bytes may be gone, and the fault that took them is counted.
LEMMA QueryFailsGood ==
  ASSUME IInv, QueryFails
  PROVE  Good
<1>1. Zero \in Amounts /\ \A c \in Counters : Zero[c] = 0
  BY DEF Zero, Amounts
<1>2. LoopTypes'
  BY ReporterAssumption DEF QueryFails, IInv, LoopTypes, Pcs, Fault, cpuVars
<1>3. FlagTypes'
  BY DEF QueryFails, IInv, FlagTypes, cpuVars
<1>4. ByteTypes'
  BY <1>1 DEF QueryFails, IInv, ByteTypes
<1>5. InReport = Zero /\ InReport' = Zero
  BY DEF QueryFails, IInv, LoopTypes, InReport
<1>6. CASE counter' = counter /\ faults' \in {faults, faults + 1}
  <2>1. Keeps
    BY <1>5, <1>6, ReporterAssumption DEF QueryFails, IInv, LoopTypes, Keeps, Total
  <2> QED
    BY <1>2, <1>3, <1>4, <2>1 DEF Good
<1>7. CASE counter' = Zero /\ faults' = faults + 1
  <2>1. Loses
    BY <1>1, <1>5, <1>7, ReporterAssumption
       DEF QueryFails, IInv, LoopTypes, ByteTypes, Amounts, Loses, Total
  <2> QED
    BY <1>2, <1>3, <1>4, <2>1 DEF Good
<1> QED
  BY <1>6, <1>7 DEF QueryFails, Fault

\* Publishing moves the bytes of the report into the buffer, or loses them.
LEMMA PublishGood ==
  ASSUME IInv, Publish
  PROVE  Good
<1>1. Zero \in Amounts /\ \A c \in Counters : Zero[c] = 0
  BY DEF Zero, Amounts
<1>2. LoopTypes'
  BY ReporterAssumption DEF Publish, IInv, LoopTypes, Pcs, Fault, cpuVars
<1>3. FlagTypes'
  BY DEF Publish, IInv, FlagTypes, cpuVars, xrayVars
<1>4. report.u \in Amounts /\ outbox \in Amounts
  BY DEF IInv, LoopTypes, ByteTypes, Report
<1>5. InReport = report.u /\ InReport' = Zero
  BY DEF Publish, InReport
<1>6. CASE outbox' = Plus(outbox, report.u) /\ faults' = faults
  <2>1. outbox' \in Amounts /\ \A c \in Counters : outbox'[c] = outbox[c] + report.u[c]
    BY <1>4, <1>6, PlusFacts
  <2>2. ByteTypes'
    BY <1>6, <2>1 DEF Publish, IInv, ByteTypes, xrayVars
  <2>3. Keeps
    BY <1>1, <1>4, <1>5, <1>6, <2>1
       DEF Publish, IInv, ByteTypes, Amounts, Keeps, Total, xrayVars
  <2> QED
    BY <1>2, <1>3, <2>2, <2>3 DEF Good
<1>7. CASE outbox' = outbox /\ faults' = faults + 1
  <2>1. ByteTypes'
    BY <1>7 DEF Publish, IInv, ByteTypes, xrayVars
  <2>2. Loses
    BY <1>1, <1>4, <1>5, <1>7, ReporterAssumption
       DEF Publish, IInv, LoopTypes, ByteTypes, Amounts, Loses, Total, xrayVars
  <2> QED
    BY <1>2, <1>3, <2>1, <2>2 DEF Good
<1> QED
  BY <1>6, <1>7 DEF Publish, Fault

\* What becomes of a buffer that is emptied: it arrives, or it is lost for a reason.
LEMMA EmptiedBuffer ==
  ASSUME IInv, outbox' = Zero, InReport' = InReport \/ InReport' = Zero,
         UNCHANGED <<counter, sent, report>>,
         \/ /\ delivered' = Plus(delivered, outbox) /\ InReport' = InReport
            /\ faults' = faults /\ (cut => cut')
         \/ delivered' = delivered /\ (faults' = faults + 1 \/ cut')
  PROVE  ByteTypes' /\ (Keeps \/ Loses)
<1>1. Zero \in Amounts /\ \A c \in Counters : Zero[c] = 0
  BY DEF Zero, Amounts
<1>2. InReport \in Amounts
  BY InReportType DEF IInv
<1>3. delivered \in Amounts /\ outbox \in Amounts
  BY DEF IInv, ByteTypes
<1>4. CASE /\ delivered' = Plus(delivered, outbox) /\ InReport' = InReport
           /\ faults' = faults /\ (cut => cut')
  <2>1. /\ delivered' \in Amounts
        /\ \A c \in Counters : delivered'[c] = delivered[c] + outbox[c]
    BY <1>3, <1>4, PlusFacts
  <2>2. ByteTypes'
    BY <1>1, <2>1 DEF IInv, ByteTypes
  <2>3. \A c \in Counters : Total(c)' = Total(c)
    BY <1>1, <1>2, <1>3, <1>4, <2>1 DEF IInv, ByteTypes, Amounts, Total
  <2> QED
    BY <1>4, <2>2, <2>3 DEF Keeps
<1>5. CASE delivered' = delivered /\ (faults' = faults + 1 \/ cut')
  <2>1. ByteTypes'
    BY <1>1, <1>5 DEF IInv, ByteTypes
  <2>2. \A c \in Counters : Total(c)' <= Total(c)
    BY <1>1, <1>2, <1>3, <1>5 DEF IInv, ByteTypes, Amounts, Total
  <2>3. faults' # 0 \/ cut'
    BY <1>5, ReporterAssumption DEF IInv, LoopTypes
  <2> QED
    BY <2>1, <2>2, <2>3 DEF Loses
<1> QED
  BY <1>4, <1>5

\* The buffer reaches NATS, or is lost with its connection.
LEMMA FlushGood ==
  ASSUME IInv, Flush
  PROVE  Good
<1>1. LoopTypes'
  BY ReporterAssumption DEF Flush, IInv, LoopTypes, Fault, cpuVars
<1>2. FlagTypes'
  BY DEF Flush, IInv, FlagTypes, cpuVars, xrayVars
<1>3. InReport' = InReport
  BY DEF Flush, InReport
<1>4. ByteTypes' /\ (Keeps \/ Loses)
  BY <1>3, EmptiedBuffer DEF Flush, Fault, xrayVars
<1> QED
  BY <1>1, <1>2, <1>4 DEF Good

\* The agent that SIGTERM ends may leave a report in the buffer, which `cut` remembers.
LEMMA ExitGood ==
  ASSUME IInv, Exit
  PROVE  Good
<1>1. LoopTypes'
  BY DEF Exit, IInv, LoopTypes, Pcs, cpuVars, boundVars
<1>2. cut' \in BOOLEAN /\ (cut => cut') /\ (outbox # Zero => cut')
  BY DEF Exit, IInv, FlagTypes
<1>3. FlagTypes'
  BY <1>2 DEF Exit, IInv, FlagTypes, cpuVars, xrayVars
<1>4. InReport' = InReport
  BY DEF Exit, InReport
<1>5. CASE delivered' = delivered /\ outbox = Zero
  <2>1. Aside
    BY <1>2, <1>4, <1>5 DEF Exit, IInv, FlagTypes, Aside, xrayVars, boundVars
  <2> QED
    BY <1>1, <1>3, <2>1, AsideKeeps DEF Good
<1>6. CASE delivered' = Plus(delivered, outbox) \/ outbox # Zero
  <2>1. ByteTypes' /\ (Keeps \/ Loses)
    BY <1>2, <1>4, <1>6, EmptiedBuffer DEF Exit, xrayVars, boundVars
  <2> QED
    BY <1>1, <1>3, <2>1 DEF Good
<1> QED
  BY <1>5, <1>6 DEF Exit

\* A crash takes the report and the buffer, and is a fault.
LEMMA CrashGood ==
  ASSUME IInv, Crash
  PROVE  Good
<1>1. LoopTypes'
  BY ReporterAssumption DEF Crash, IInv, LoopTypes, Pcs, Fault, cpuVars
<1>2. FlagTypes'
  BY DEF Crash, IInv, FlagTypes, cpuVars, xrayVars
<1>3. InReport' = Zero
  BY DEF Crash, InReport
<1>4. ByteTypes' /\ (Keeps \/ Loses)
  BY <1>3, EmptiedBuffer DEF Crash, Fault, xrayVars
<1> QED
  BY <1>1, <1>2, <1>4 DEF Good
-----------------------------------------------------------------------------
(* The node. *)

\* A byte more of one counter has been sent, and is in it.
LEMMA SendGood ==
  ASSUME IInv, NEW d \in Counters, Send(d)
  PROVE  IInv'
<1>1. MaxByte \in Nat /\ Width \in Nat /\ Width > 2
  BY ReporterAssumption
<1>2. /\ counter \in Amounts /\ outbox \in Amounts /\ delivered \in Amounts
      /\ sent \in Amounts /\ sent[d] < MaxByte
  BY DEF IInv, ByteTypes, Send
<1>3. InReport \in Amounts /\ InReport' = InReport
  BY InReportType DEF IInv, Send, InReport, agentVars
<1>4. /\ sent' \in Amounts /\ counter' \in Amounts
      /\ sent'[d] = sent[d] + 1 /\ counter'[d] = counter[d] + 1
      /\ \A c \in Counters \ {d} : sent'[c] = sent[c] /\ counter'[c] = counter[c]
  BY <1>2 DEF Send, Amounts
<1>5. stat' \in Reading
  <2>1. stat \in Reading /\ stat' = [stat EXCEPT !.total = (stat.total + 1) % Width]
    BY DEF IInv, LoopTypes, Send
  <2>2. (stat.total + 1) % Width \in 0..(Width - 1)
    BY <1>1, <2>1 DEF Reading
  <2> QED
    BY <2>1, <2>2 DEF Reading
<1>6. LoopTypes'
  BY <1>5 DEF Send, IInv, LoopTypes, agentVars, boundVars
<1>7. ByteTypes'
  BY <1>1, <1>2, <1>4 DEF Send, IInv, ByteTypes, agentVars, Amounts
<1>8. FlagTypes'
  BY DEF Send, IInv, FlagTypes, agentVars
<1>9. outbox' = outbox /\ delivered' = delivered /\ faults' = faults /\ cut' = cut
  BY DEF Send, agentVars, boundVars
<1>10. NeverCountedTwice'
  <2>1. \A c \in Counters : counter[c] + InReport[c] + outbox[c] + delivered[c] <= sent[c]
    BY DEF IInv, NeverCountedTwice
  <2> HIDE DEF IInv
  <2> QED
    BY <1>2, <1>3, <1>4, <1>9, <2>1 DEF NeverCountedTwice, Amounts
<1>11. LostOnlyByFault'
  <2> SUFFICES ASSUME faults' = 0, ~cut', NEW c \in Counters
               PROVE  sent'[c] = counter'[c] + InReport'[c] + outbox'[c] + delivered'[c]
    BY DEF LostOnlyByFault
  <2>1. sent[c] = counter[c] + InReport[c] + outbox[c] + delivered[c]
    BY <1>9 DEF IInv, LostOnlyByFault
  <2> HIDE DEF IInv
  <2> QED
    BY <1>2, <1>3, <1>4, <1>9, <2>1 DEF Amounts
<1> QED
  BY <1>6, <1>7, <1>8, <1>10, <1>11 DEF IInv

\* The steps of the node that do not move bytes, and SIGTERM.
LEMMA NodeAside ==
  ASSUME IInv, IdleTick \/ IdleBack \/ XrayStarts \/ Stop
  PROVE  LoopTypes' /\ FlagTypes' /\ Aside
<1>1. /\ MaxFault \in Nat /\ MaxStop \in Nat /\ MaxIdle \in Nat /\ MaxIdle < Width
      /\ Width \in Nat /\ Width > 2
  BY ReporterAssumption
<1>2. stat.idle \in 0..(Width - 1) /\ stat.total \in 0..(Width - 1)
  BY DEF IInv, LoopTypes, Reading
<1>3. CASE IdleTick
  <2>1. stat.idle + 1 \in 0..(Width - 1) /\ (stat.total + 1) % Width \in 0..(Width - 1)
    BY <1>1, <1>2, <1>3 DEF IdleTick
  <2>2. stat' \in Reading
    BY <1>3, <2>1 DEF IdleTick, Reading
  <2>3. LoopTypes'
    BY <1>3, <2>2 DEF IdleTick, IInv, LoopTypes, agentVars, boundVars
  <2>4. FlagTypes'
    BY <1>3 DEF IdleTick, IInv, FlagTypes, agentVars, xrayVars
  <2>5. Aside
    BY <1>3 DEF IdleTick, Aside, InReport, agentVars, xrayVars, boundVars
  <2> QED
    BY <2>3, <2>4, <2>5
<1>4. CASE IdleBack
  <2>1. stat' \in Reading
    BY <1>1, <1>2, <1>4 DEF IdleBack, Reading
  <2>2. LoopTypes'
    BY <1>1, <1>4, <2>1 DEF IdleBack, IInv, LoopTypes, agentVars, Fault
  <2>3. FlagTypes'
    BY <1>4 DEF IdleBack, IInv, FlagTypes, agentVars, xrayVars
  <2>4. Aside
    BY <1>4 DEF IdleBack, Aside, InReport, agentVars, xrayVars, Fault
  <2> QED
    BY <2>2, <2>3, <2>4
<1>5. CASE XrayStarts
  <2>1. LoopTypes'
    BY <1>5 DEF XrayStarts, IInv, LoopTypes, agentVars, cpuVars, boundVars
  <2>2. FlagTypes'
    BY <1>5 DEF XrayStarts, IInv, FlagTypes, agentVars, cpuVars
  <2>3. Aside
    BY <1>5 DEF XrayStarts, Aside, InReport, agentVars, boundVars
  <2> QED
    BY <2>1, <2>2, <2>3
<1>6. CASE Stop
  <2>1. LoopTypes'
    BY <1>1, <1>6 DEF Stop, IInv, LoopTypes, cpuVars
  <2>2. FlagTypes'
    BY <1>6 DEF Stop, IInv, FlagTypes, cpuVars, xrayVars
  <2>3. Aside
    BY <1>6 DEF Stop, Aside, InReport, xrayVars
  <2> QED
    BY <2>1, <2>2, <2>3
<1> QED
  BY <1>3, <1>4, <1>5, <1>6

\* The counters of an xray that stops are gone.
LEMMA XrayStopsGood ==
  ASSUME IInv, XrayStops
  PROVE  Good
<1>1. Zero \in Amounts /\ \A c \in Counters : Zero[c] = 0
  BY DEF Zero, Amounts
<1>2. LoopTypes'
  BY ReporterAssumption DEF XrayStops, IInv, LoopTypes, agentVars, cpuVars, Fault
<1>3. FlagTypes'
  BY DEF XrayStops, IInv, FlagTypes, agentVars, cpuVars
<1>4. ByteTypes'
  BY <1>1 DEF XrayStops, IInv, ByteTypes, agentVars
<1>5. InReport \in Amounts /\ InReport' = InReport
  BY InReportType DEF IInv, XrayStops, InReport, agentVars
<1>6. Loses
  BY <1>1, <1>5, ReporterAssumption
     DEF XrayStops, IInv, LoopTypes, ByteTypes, Amounts, Loses, Total, agentVars, Fault
<1> QED
  BY <1>2, <1>3, <1>4, <1>6 DEF Good

-----------------------------------------------------------------------------
\* A step that moves or loses bytes preserves the whole invariant.
LEMMA GoodPreserves ==
  ASSUME IInv, Good
  PROVE  IInv'
  BY BytesStep DEF Good, IInv

\* Every step preserves the invariant, one case for each action.
LEMMA Inductive == IInv /\ [Next]_vars => IInv'
<1> SUFFICES ASSUME IInv, [Next]_vars PROVE IInv'
  OBVIOUS
<1>1. CASE Connect \/ Start \/ Tick \/ ReadSys \/ Online \/ Version \/ Probe
  <2>1. Good
    BY <1>1, LoopAside, AsideKeeps DEF Good
  <2> QED
    BY <2>1, GoodPreserves
<1>2. CASE Query
  BY <1>2, QueryGood, GoodPreserves
<1>3. CASE QueryFails
  BY <1>3, QueryFailsGood, GoodPreserves
<1>4. CASE Publish
  BY <1>4, PublishGood, GoodPreserves
<1>5. CASE Exit
  BY <1>5, ExitGood, GoodPreserves
<1>6. CASE Flush
  BY <1>6, FlushGood, GoodPreserves
<1>7. CASE Crash
  BY <1>7, CrashGood, GoodPreserves
<1>8. CASE IdleTick \/ IdleBack \/ XrayStarts \/ Stop
  <2>1. Good
    BY <1>8, NodeAside, AsideKeeps DEF Good
  <2> QED
    BY <2>1, GoodPreserves
<1>9. CASE XrayStops
  BY <1>9, XrayStopsGood, GoodPreserves
<1>10. CASE \E c \in Counters : Send(c)
  BY <1>10, SendGood
<1>11. CASE UNCHANGED vars
  <2>1. LoopTypes' /\ ByteTypes' /\ FlagTypes'
    BY <1>11 DEF IInv, LoopTypes, ByteTypes, FlagTypes, vars, agentVars, xrayVars, cpuVars,
                 boundVars
  <2>2. InReport' = InReport
    BY <1>11 DEF InReport, vars, agentVars
  <2>3. Keeps
    BY <1>11, <2>2 DEF Keeps, Total, vars, agentVars, xrayVars, cpuVars, boundVars
  <2> QED
    BY <2>1, <2>3, GoodPreserves DEF Good
<1> QED
  BY <1>1, <1>2, <1>3, <1>4, <1>5, <1>6, <1>7, <1>8, <1>9, <1>10, <1>11 DEF Next, Loop

\* The invariant holds in every reachable state.
LEMMA Invariance == Spec => []IInv
  BY InitIInv, Inductive, PTL DEF Spec

\* For any counters, bounds and faults, no byte of a user is ever reported twice.
THEOREM BytesOnce == Spec => []NeverCountedTwice
<1>1. IInv => NeverCountedTwice
  BY DEF IInv
<1> QED
  BY <1>1, Invariance, PTL

\* For any counters and bounds, a byte is lost only by a fault or by a stop with a
\* report in the buffer.
THEOREM BytesKept == Spec => []LostOnlyByFault
<1>1. IInv => LostOnlyByFault
  BY DEF IInv
<1> QED
  BY <1>1, Invariance, PTL

\* The types of the main loop's state; the bounds on the bytes are NeverCountedTwice's.
THEOREM TypeCorrect == Spec => []TypeOK
<1>1. ASSUME IInv PROVE TypeOK
  <2>1. /\ pc \in Pcs /\ attempts \in 0..Attempts /\ prev \in Reading /\ stat \in Reading
        /\ report \in Report /\ faults \in 0..MaxFault /\ stops \in 0..MaxStop
    BY <1>1 DEF IInv, LoopTypes
  <2>2. {report.u, outbox, counter, sent, delivered} \subseteq Bytes
    <3>1. InReport \in Amounts
      BY <1>1, InReportType DEF IInv
    <3>2. /\ outbox \in Amounts /\ counter \in Amounts /\ sent \in Amounts
          /\ delivered \in Amounts /\ report.u \in Amounts /\ MaxByte \in Nat
          /\ \A c \in Counters : sent[c] <= MaxByte /\ report.u[c] <= MaxByte
      BY <1>1, <2>1, ReporterAssumption DEF IInv, ByteTypes, Report
    <3>3. \A c \in Counters : counter[c] + InReport[c] + outbox[c] + delivered[c] <= sent[c]
      BY <1>1 DEF IInv, NeverCountedTwice
    <3>4. \A c \in Counters :
            counter[c] <= MaxByte /\ outbox[c] <= MaxByte /\ delivered[c] <= MaxByte
      BY <3>1, <3>2, <3>3, BoundedSum
    <3> QED
      BY <3>2, <3>4 DEF Bytes, Amounts
  <2>3. \A p \in {prev, stat} : p.idle \in 0..(Width - 1) /\ p.total \in 0..(Width - 1)
    BY <2>1 DEF Reading
  <2>4. term \in BOOLEAN /\ up \in BOOLEAN /\ {back, cut} \subseteq BOOLEAN
    BY <1>1 DEF IInv, FlagTypes
  <2> QED
    BY <2>1, <2>2, <2>3, <2>4 DEF TypeOK, Pcs, Report
<1> QED
  BY <1>1, Invariance, PTL

-----------------------------------------------------------------------------
(* The CPU share. *)

\* Fewer than 2^64 ticks pass between two readings.
FewTicks == since.idle + since.busy < Width

\* The kernel's counters are ahead of the last reading by the ticks since then, the
\* total by one turn less if it has wrapped.
Ticks == since.idle + since.busy
CountsTicks ==
  /\ stat.idle = prev.idle + since.idle
  /\ stat.total = prev.total + Ticks \/ stat.total = prev.total + Ticks - Width

CpuInv ==
  /\ since \in [idle : Nat, busy : Nat]
  /\ (~back /\ prev.total # 0) => CountsTicks
  /\ CpuIsShare

\* Unsigned arithmetic: a number of the range is itself, also a turn below.
LEMMA WrapsOnce ==
  ASSUME NEW k \in Nat, k > 0, NEW n \in 0..(k - 1)
  PROVE  /\ n % k = n /\ (n - k) % k = n
         /\ (n + 1) % k = IF n = k - 1 THEN 0 ELSE n + 1
<1>1. n \div k = 0 /\ n % k = n
  OBVIOUS
<1>2. (n - k) % k = n
  OBVIOUS
<1>3. CASE n = k - 1
  <2>1. (n + 1) % k = 0
    BY <1>3
  <2> QED
    BY <1>1, <1>2, <1>3, <2>1
<1>4. CASE n # k - 1
  <2>1. n + 1 \in 0..(k - 1)
    BY <1>4
  <2>2. (n + 1) % k = n + 1
    BY <2>1
  <2> QED
    BY <1>1, <1>2, <1>4, <2>2
<1> QED
  BY <1>3, <1>4

\* A part of a whole is between 0 and 100 percent of it.
LEMMA PercentOf ==
  ASSUME NEW whole \in Nat, whole > 0, NEW part \in Nat, part <= whole
  PROVE  (part * 100) \div whole \in 0..100
<1> DEFINE q == (part * 100) \div whole
           r == (part * 100) % whole
<1>1. q \in Int /\ r \in 0..(whole - 1) /\ part * 100 = whole * q + r
  OBVIOUS
<1> HIDE DEF q, r
<1>2. ~ (q > 100)
  <2>1. SUFFICES ASSUME q >= 101 PROVE FALSE
    BY <1>1
  <2>2. whole * q >= whole * 101
    BY <1>1, <2>1
  <2> QED
    BY <1>1, <2>2
<1>3. ~ (q < 0)
  <2>1. SUFFICES ASSUME q <= -1 PROVE FALSE
    BY <1>1
  <2>2. whole * q <= - whole
    BY <1>1, <2>1
  <2> QED
    BY <1>1, <2>2
<1>4. q \in 0..100
  BY <1>1, <1>2, <1>3
<1> QED
  BY <1>4 DEF q

\* The share computed is that of the ticks since the last reading.
LEMMA UsedIsShare ==
  ASSUME LoopTypes, CpuInv, FewTicks, ~ back, prev.total # 0
  PROVE  /\ Used(stat) = IF Ticks = 0 THEN 0 ELSE (since.busy * 100) \div Ticks
         /\ Used(stat) \in 0..100
<1>1. /\ since.idle \in Nat /\ since.busy \in Nat /\ Ticks < Width
      /\ Ticks = since.idle + since.busy /\ Width \in Nat /\ Width > 0
  BY ReporterAssumption DEF CpuInv, FewTicks, Ticks
<1>2. /\ prev.idle \in Nat /\ prev.total \in Nat /\ CountsTicks
  BY ReporterAssumption DEF LoopTypes, Reading, CpuInv
<1>3. (stat.idle - prev.idle) % Width = since.idle
  <2>1. stat.idle - prev.idle = since.idle /\ since.idle \in 0..(Width - 1)
    BY <1>1, <1>2 DEF CountsTicks
  <2> QED
    BY <1>1, <2>1, WrapsOnce
<1>4. (stat.total - prev.total) % Width = Ticks
  <2>1. stat.total - prev.total \in {Ticks, Ticks - Width} /\ Ticks \in 0..(Width - 1)
    BY <1>1, <1>2 DEF CountsTicks
  <2> QED
    BY <1>1, <2>1, WrapsOnce
<1>5. (Ticks - since.idle) % Width = since.busy
  <2>1. Ticks - since.idle = since.busy /\ since.busy \in 0..(Width - 1)
    BY <1>1
  <2> QED
    BY <1>1, <2>1, WrapsOnce
<1>6. Used(stat) = IF Ticks = 0 THEN 0 ELSE (since.busy * 100) \div Ticks
  BY <1>3, <1>4, <1>5 DEF Used
<1>7. CASE Ticks = 0
  BY <1>6, <1>7
<1>8. CASE Ticks # 0
  <2>1. Ticks \in Nat /\ Ticks > 0 /\ since.busy <= Ticks
    BY <1>1, <1>8
  <2>2. (since.busy * 100) \div Ticks \in 0..100
    BY <1>1, <2>1, PercentOf
  <2> QED
    BY <1>6, <1>8, <2>2
<1> QED
  BY <1>6, <1>7, <1>8

\* A reading reports that share and starts to count anew.
LEMMA ReadSysShare ==
  ASSUME LoopTypes, CpuInv, FewTicks, ReadSys
  PROVE  CpuInv'
<1>1. /\ report' = [report EXCEPT !.cpu = Used(stat)] /\ prev' = stat /\ stat' = stat
      /\ share' = IF since.idle + since.busy = 0 THEN 0
                  ELSE (since.busy * 100) \div (since.idle + since.busy)
      /\ since' = [idle |-> 0, busy |-> 0] /\ back' = back
  BY DEF ReadSys
<1>2. report \in Report /\ stat.idle \in Nat /\ stat.total \in Nat
  BY ReporterAssumption DEF LoopTypes, Reading
<1>3. report'.cpu = Used(stat)
  BY <1>1, <1>2 DEF Report
<1>4. since' \in [idle : Nat, busy : Nat] /\ CountsTicks'
  BY <1>1, <1>2 DEF CountsTicks, Ticks
<1>5. CASE back
  BY <1>1, <1>4, <1>5 DEF CpuInv, CpuIsShare
<1>6. CASE prev.total = 0
  <2>1. Used(stat) = NoCpu
    BY <1>6 DEF Used
  <2> QED
    BY <1>3, <1>4, <2>1 DEF CpuInv, CpuIsShare
<1>7. CASE ~ back /\ prev.total # 0
  <2>1. Used(stat) = share' /\ Used(stat) \in 0..100
    BY <1>1, <1>7, UsedIsShare DEF Ticks
  <2> QED
    BY <1>3, <1>4, <2>1 DEF CpuInv, CpuIsShare
<1> QED
  BY <1>5, <1>6, <1>7

\* A tick of the processor moves the counters and is counted.
LEMMA TickShare ==
  ASSUME LoopTypes, CpuInv, FewTicks',
         IdleTick \/ \E c \in Counters : Send(c)
  PROVE  CpuInv'
<1>1. /\ report' = report /\ prev' = prev /\ share' = share /\ back' = back
      /\ stat'.total = (stat.total + 1) % Width
  BY DEF IdleTick, Send, agentVars, LoopTypes, Reading
<1>2. since \in [idle : Nat, busy : Nat]
  BY DEF CpuInv
<1>3. /\ since' \in [idle : Nat, busy : Nat]
      /\ since'.idle + since'.busy = since.idle + since.busy + 1
      /\ stat'.idle - stat.idle = since'.idle - since.idle
      /\ stat'.idle \in Nat
  <2>1. CASE IdleTick
    BY <1>2, <2>1, ReporterAssumption DEF IdleTick, LoopTypes, Reading
  <2>2. ASSUME NEW c \in Counters, Send(c)
        PROVE  /\ since' \in [idle : Nat, busy : Nat]
               /\ since'.idle + since'.busy = since.idle + since.busy + 1
               /\ stat'.idle - stat.idle = since'.idle - since.idle
               /\ stat'.idle \in Nat
    <3>1. stat \in Reading /\ stat.idle \in Nat
      BY ReporterAssumption DEF LoopTypes, Reading
    <3>2. stat' = [stat EXCEPT !.total = (stat.total + 1) % Width]
          /\ since' = [since EXCEPT !.busy = since.busy + 1]
      BY <2>2 DEF Send
    <3>3. stat'.idle = stat.idle
      BY <3>1, <3>2 DEF Reading
    <3>4. since'.idle = since.idle /\ since'.busy = since.busy + 1
      BY <1>2, <3>2
    <3>5. since' \in [idle : Nat, busy : Nat]
      BY <1>2, <3>2
    <3> QED
      BY <1>2, <3>1, <3>3, <3>4, <3>5
  <2> QED
    BY <2>1, <2>2
<1>4. CpuIsShare'
  BY <1>1 DEF CpuInv, CpuIsShare
<1>5. ASSUME ~ back, prev.total # 0 PROVE CountsTicks'
  <2>1. CountsTicks
    BY <1>5 DEF CpuInv
  <2>2. /\ since.idle \in Nat /\ since.busy \in Nat /\ Ticks \in Nat
        /\ since'.idle \in Nat /\ Ticks' = Ticks + 1 /\ Ticks' < Width
    <3>1. since.idle \in Nat /\ since.busy \in Nat /\ since'.idle \in Nat
      BY <1>2, <1>3
    <3>2. since'.idle + since'.busy = since.idle + since.busy + 1
      BY <1>3
    <3>3. since'.idle + since'.busy < Width
      BY DEF FewTicks
    <3> QED
      BY <3>1, <3>2, <3>3 DEF Ticks
  <2>3. /\ Width \in Nat /\ Width > 0 /\ stat.total \in 0..(Width - 1)
        /\ prev.total \in 0..(Width - 1) /\ prev.idle \in Nat /\ stat.idle \in Nat
    BY ReporterAssumption DEF LoopTypes, Reading
  <2>4. stat'.idle = prev'.idle + since'.idle
    <3>1. stat.idle = prev.idle + since.idle /\ prev'.idle = prev.idle
      BY <1>1, <2>1 DEF CountsTicks
    <3>2. stat'.idle - stat.idle = since'.idle - since.idle /\ stat'.idle \in Nat
      BY <1>3
    <3>3. since.idle \in Nat /\ since'.idle \in Nat /\ prev.idle \in Nat /\ stat.idle \in Nat
      BY <2>2, <2>3
    <3> QED
      BY <3>1, <3>2, <3>3
  <2>5. stat'.total = IF stat.total = Width - 1 THEN 0 ELSE stat.total + 1
    <3>1. (stat.total + 1) % Width = IF stat.total = Width - 1 THEN 0 ELSE stat.total + 1
      BY <2>3, WrapsOnce
    <3> QED
      BY <1>1, <3>1
  <2>6. stat'.total = prev.total + Ticks' \/ stat'.total = prev.total + Ticks' - Width
    BY <2>1, <2>2, <2>3, <2>5 DEF CountsTicks
  <2> QED
    BY <1>1, <2>4, <2>6 DEF CountsTicks
<1> QED
  BY <1>1, <1>3, <1>4, <1>5 DEF CpuInv

\* No other step of the agent or of the node reads or moves the processor's counters
\* but the correction of the idle time, which is noted.
LEMMA OtherShare ==
  ASSUME LoopTypes, CpuInv, [Next]_vars,
         ~ ReadSys, ~ IdleTick, \A c \in Counters : ~ Send(c)
  PROVE  CpuInv'
<1>1. CASE IdleBack
  BY <1>1 DEF IdleBack, CpuInv, CpuIsShare
<1>2. CASE Start
  BY <1>2 DEF Start, CpuInv, CpuIsShare, NoStat, cpuVars
<1>3. CASE Connect \/ Tick
  <2>1. /\ report'.cpu = NoCpu \/ report' = report
        /\ UNCHANGED <<prev, stat, since, back, share>>
    BY <1>3 DEF Connect, Tick, Empty, cpuVars
  <2> QED
    BY <2>1 DEF CpuInv, CpuIsShare, CountsTicks, Ticks
<1>4. CASE Online \/ Query \/ Probe
  <2>1. report'.cpu = report.cpu /\ UNCHANGED <<prev, stat, since, back, share>>
    BY <1>4 DEF Online, Query, Probe, LoopTypes, Report, cpuVars
  <2> QED
    BY <2>1 DEF CpuInv, CpuIsShare, CountsTicks, Ticks
<1>5. CASE \/ QueryFails \/ Version \/ Publish \/ Exit \/ Flush \/ Stop \/ Crash
           \/ XrayStops \/ XrayStarts \/ UNCHANGED vars
  <2>1. UNCHANGED <<report, prev, stat, since, back, share>>
    BY <1>5 DEF QueryFails, Version, Publish, Exit, Flush, Stop, Crash, XrayStops, XrayStarts,
                vars, agentVars, cpuVars
  <2> QED
    BY <2>1 DEF CpuInv, CpuIsShare, CountsTicks, Ticks
<1> QED
  BY <1>1, <1>2, <1>3, <1>4, <1>5 DEF Next, Loop

\* sys.go, getCPUPercent: in unsigned arithmetic and across its wraps, the share
\* reported is that of the ticks since the last reading, unless a counter has gone back,
\* for as long as fewer than 2^64 ticks come between two readings.
THEOREM ShareCorrect == Spec /\ []FewTicks => []CpuIsShare
<1>1. Init => CpuInv
  BY DEF Init, CpuInv, CpuIsShare, NoStat, Empty
<1>2. IInv /\ CpuInv /\ FewTicks /\ FewTicks' /\ [Next]_vars => CpuInv'
  BY ReadSysShare, TickShare, OtherShare DEF IInv
<1>3. CpuInv => CpuIsShare
  BY DEF CpuInv
<1>4. Spec /\ []FewTicks => []CpuInv
  BY <1>1, <1>2, Invariance, PTL DEF Spec
<1> QED
  BY <1>3, <1>4, PTL
=============================================================================
