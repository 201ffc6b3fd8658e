------------------------------ MODULE DailyJobs ------------------------------
(***************************************************************************)
(* The daily jobs (scheduler.go; startDailyJobs of xray.go and ikev2.go):   *)
(* each sleeps until its hour of the day, shifted by the host's jitter,     *)
(* runs, and computes the next time from the clock on the wall.  The sleep  *)
(* is a timer of Go, which counts elapsed time whatever the wall clock      *)
(* does: the clock may be set while jobs sleep.  The agent may stop at any  *)
(* moment, and the self update, itself a daily job, restarts it.            *)
(***************************************************************************)
EXTENDS Integers

CONSTANTS Jobs,
          Hour,      \* Hour[j]: the time of day of job j
          LastPart,  \* the last part of the host's address; 0 if it is no number
          Minute,    \* 60
          Day,       \* length of a day, in the unit time is counted in
          MaxTime,   \* bound: the last instant of a behaviour
          MaxSets,   \* bound: times the wall clock is set
          MaxStops   \* bound: times the agent stops

\* The jitter: Go's % keeps the sign, and "-5" is a number.
HostJitter == IF LastPart < 0 THEN -((-LastPart) % Minute) ELSE LastPart % Minute

\* The hours of the program are 2 and 4, a minute or more from midnight.
ASSUME DailyAssumption ==
  /\ {MaxSets, MaxStops} \subseteq Nat /\ {Day, Minute} \subseteq Nat \ {0}
  /\ MaxTime \in Nat /\ MaxTime >= Day - 1
  /\ LastPart \in Int
  /\ Hour \in [Jobs -> Nat]
  /\ \A j \in Jobs : Hour[j] + HostJitter \in 0..(Day - 1)

VARIABLES
  wall,     \* the wall clock
  job,       \* job[j]: "loop" before the time is computed, "sleep", "run", or "off"
  timer,    \* timer[j]: what is left of the sleep of j
  sets,     \* times the wall clock was set
  stops,    \* times the agent stopped
  moved,    \* history: jobs whose sleep saw the wall clock set
  runs      \* history: runs[j][d]: runs of j that began on day d of the wall clock

dailyVars == <<wall, job, timer, sets, stops, moved, runs>>

DayOf(t) == t \div Day
Days == 0..DayOf(MaxTime)

DailyInit ==
  /\ wall \in 0..(Day - 1)
  /\ job = [j \in Jobs |-> "loop"]
  /\ timer = [j \in Jobs |-> 0]
  /\ sets = 0 /\ stops = 0
  /\ moved = {}
  /\ runs = [j \in Jobs |-> [d \in Days |-> 0]]

\* The hour of j on day d.
Due(j, d) == d * Day + Hour[j] + HostJitter

\* Mutant: an hour that is now is taken for one that is still to come.
NextRunAgain(j) ==
  LET n == Due(j, DayOf(wall)) IN IF n >= wall THEN n ELSE n + Day

\* Mutant: a day from now, where a day from the hour is meant.
NextRunDrifts(j) ==
  LET n == Due(j, DayOf(wall)) IN IF n > wall THEN n ELSE wall + Day

\* Mutant: an hour that has passed is not moved to the next day.
NextRunToday(j) == Due(j, DayOf(wall))

NextRun(j) ==
  LET n == Due(j, DayOf(wall)) IN IF n > wall THEN n ELSE n + Day

Loop(j) ==
  /\ job[j] = "loop"
  /\ timer' = [timer EXCEPT ![j] = NextRun(j) - wall]
  /\ job' = [job EXCEPT ![j] = "sleep"]
  /\ moved' = moved \ {j}
  /\ UNCHANGED <<wall, sets, stops, runs>>

\* The timer fires, and fn is called.
Fire(j) ==
  /\ job[j] = "sleep" /\ timer[j] = 0
  /\ job' = [job EXCEPT ![j] = "run"]
  /\ runs' = [runs EXCEPT ![j][DayOf(wall)] = @ + 1]
  /\ UNCHANGED <<wall, timer, sets, stops, moved>>

\* fn returns, after any time or never: docker exec has no deadline.
Finish(j) ==
  /\ job[j] = "run"
  /\ job' = [job EXCEPT ![j] = "loop"]
  /\ UNCHANGED <<wall, timer, sets, stops, moved, runs>>

\* Time passes, unless a job is due: timers fire within the unit of time.
Pass ==
  /\ wall < MaxTime
  /\ \A j \in Jobs : job[j] # "loop" /\ (job[j] = "sleep" => timer[j] > 0)
  /\ wall' = wall + 1
  /\ timer' = [j \in Jobs |-> IF job[j] = "sleep" THEN timer[j] - 1 ELSE timer[j]]
  /\ UNCHANGED <<job, sets, stops, moved, runs>>

\* NTP or an operator sets the wall clock.
SetClock ==
  /\ sets < MaxSets
  /\ sets' = sets + 1
  /\ \E t \in 0..MaxTime : wall' = t
  /\ moved' = moved \cup {j \in Jobs : job[j] = "sleep"}
  /\ UNCHANGED <<job, timer, stops, runs>>

\* The agent stops: a crash, SIGTERM, or the restart that ends a self update.
Stop ==
  /\ stops < MaxStops
  /\ \E j \in Jobs : job[j] # "off"
  /\ stops' = stops + 1
  /\ job' = [j \in Jobs |-> "off"]
  /\ timer' = [j \in Jobs |-> 0]
  /\ UNCHANGED <<wall, sets, moved, runs>>

Start ==
  /\ \A j \in Jobs : job[j] = "off"
  /\ job' = [j \in Jobs |-> "loop"]
  /\ UNCHANGED <<wall, timer, sets, stops, moved, runs>>

DailyNext ==
  \/ \E j \in Jobs : Loop(j) \/ Fire(j) \/ Finish(j)
  \/ Pass \/ SetClock \/ Stop \/ Start

DailySpec == DailyInit /\ [][DailyNext]_dailyVars

-----------------------------------------------------------------------------
(* Properties. *)

DailyTypeOK ==
  /\ wall \in 0..MaxTime
  /\ job \in [Jobs -> {"loop", "sleep", "run", "off"}]
  /\ timer \in [Jobs -> 0..Day]
  /\ sets \in 0..MaxSets /\ stops \in 0..MaxStops
  /\ moved \subseteq Jobs
  /\ runs \in [Jobs -> [Days -> Nat]]

\* scheduler.go:19: the agent may be restarted by the job itself within the instant it
\* fired, at any other time, or run for days: a job runs at most once a day.  Each time
\* the wall clock is set costs at most two more runs: of the sleep it meets, which ends
\* at another hour, and of a day that comes a second time.
OnceADay == \A j \in Jobs, d \in Days : runs[j][d] <= 1 + 2 * sets

\* scheduler.go:18: a job that sleeps wakes at its hour and at the first one to come, so
\* no day is skipped while the agent is up and fn has returned; setting the clock
\* disturbs the sleep it meets and none after it.
WakesAtItsHour ==
  \A j \in Jobs : (job[j] = "sleep" /\ j \notin moved) =>
    /\ \E d \in 0..(DayOf(MaxTime) + 1) : wall + timer[j] = Due(j, d)
    /\ \A d \in 0..(DayOf(MaxTime) + 1) : Due(j, d) > wall => Due(j, d) >= wall + timer[j]
=============================================================================
