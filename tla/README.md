# kd-vps-agent in TLA+

TLA+ modules for the node agent of this repository: what its goroutines, its
state files and the xray process it controls do together, checked with TLC on
small instances; every invariant and action property that TLC checks of the program
is also proved with TLAPS, for all instances, one of them under a hypothesis that
section 6 names. `PROJECT.json` maps every definition to the lines it models.
All paths below are relative to `src/`.

Contents: 1 the system, 2 the modules and how they correspond to the code, 3 the
runs, 4 bounds, 5 fairness, 6 proofs, 7 what the models found, 8 what is not
modelled, 9 plan.

## 1. The system (inventory)

The agent runs on every VPS node, in one of two builds (xray or ikev2). It keeps
xray's user list in step with a backend, reports metrics, obeys commands that
arrive over NATS, and updates itself. xray itself is a separate service whose
users live in memory only: every restart of xray empties them.

| component | state | operations | module |
|---|---|---|---|
| gRPC client of xray (`xray/grpc.go`, `xray/xray.go`) | one cached client under `s.mu`; a fan-out of one RPC per inbound | `getAPI`, `AddUser`, `RemoveUser`, `injectUsers` | XrayClient, UserSet |
| resync after a restart (`xray/schedule.go` 46-166) | `restartSyncInFlight`, list fetched, attempts | `watchXrayHealth`, `syncAfterRestart`, `TriggerResync` | RestartSync |
| periodic sync (`xray/schedule.go` 16-44, `xray/state.go`) | cursor in `sync_state.json` | `DeltaSync`, `loadSyncState`, `saveSyncState` | DeltaSync |
| temporary users (`xray/temp_sync.go`) | cached list and version under an RWMutex | `startup`, `poll`, `ReInjectAll` | TempSync |
| user pushes (`xray/http.go`, `command/xray_user.go`) | none | add, remove over HTTP and NATS | callers of XrayClient; pushes of RestartSync, DeltaSync |
| HTTP client of the backend (`xray/api.go`) | none | fetches with retries | fetches of RestartSync, DeltaSync, TempSync |
| traffic totals (`collect/traffic.go`, `config.go` 48) | the interface picked at the start, previous counters, totals, `traffic.json` | `DetectPrimaryIface`, `newTrafficReader`, `read` | TrafficMeter |
| configuration commands (`command/xray_set_dest.go`, `command/xray_update.go`) | `config.json`, a backup in memory, the xray binary and its `.new` file | rewrite, download, restart, self-test, roll back | XrayConfig |
| environment files (`command/set_tier.go`, `command/update_config.go`) | `/etc/node-agent.env`, the unit file, their `.tmp` files | rewrite, daemon-reload, restart of the agent | AgentEnv |
| self-update (`update/updater.go`) | `updateMu`, the binary, its `.new` file | `TryUpdate` | SelfUpdate, Upgrade |
| main loop and metrics (`main.go`, `nats.go`, `collect/*.go`) | the NATS connection and its buffer, the previous CPU sample, xray's own counters | connect, collect, publish, drain | Reporter |
| scheduler (`scheduler.go`, `xray.go`, `ikev2.go`) | the next hour of each job | sleep, run | DailyJobs |
| dispatcher (`command/dispatcher.go`) | two NATS subscriptions | dispatch | Dispatcher, extended by XrayConfig and AgentEnv; callers of SelfUpdate |

Interaction. Everything about users ends in the gRPC client: pushes from HTTP and
NATS, rounds of `DeltaSync`, polls of temporary users, and the list injected
after a restart, each from a goroutine of its own. The watchdog closes that
client and restarts xray; `xray_update` and `xray_set_dest` restart it too, the
first with a resync, the second without. NATS delivers one message at a time per
subscription and the agent has two, so two commands can run at once; only
self-update takes a mutex. Self-update and `update_config` restart the agent
itself, and whatever its goroutines held in memory is gone.

What is hard, and the property that makes each component correct:

* **gRPC client**: callers hold the client while others drop or close it; a call
  is several RPCs. Correct when the cache never holds a closed or a broken client,
  nobody tears down a client that others may use well, and success means every
  inbound was changed.
* **resync**: a restart may come while the previous sync runs, fetches and RPCs
  fail, xray dies again, the agent is restarted. Correct when the users come back
  after each restart, and the flag always clears.
* **periodic sync**: pushes lost, repeated or late, failing rounds, a crash in the
  middle of the write of the cursor, changes during a round. Correct when the cursor
  never passes a change that was not applied.
* **temporary users**: the lock covers only the cache, so a poll and `ReInjectAll`s
  interleave, and some restarts of xray are followed by none. Correct when xray has exactly the cached users.
* **traffic totals**: restarts, reboots, failed saves, dates that repeat, an interface
  picked anew at each start. Correct
  when no byte counts twice and no reported total shrinks.
* **configuration and environment files**: several file operations, restarts and
  tests in sequence, any of which fails, two commands at once on one temporary
  name. Correct when each command is all or nothing, an ok means that it took
  effect, and what was acknowledged stays.
* **self-update**: one temporary file, three callers, downloads that fail or are
  cut short, restarts at any point. Correct when what is installed is always a
  complete release and never an older one, and the downloads cease.
* **main loop**: reading the users' counters resets them, the connection loses
  and buffers. Correct when no byte is reported twice and none is lost without a
  fault.
* **scheduler**: a job that outlasts its hour, a stop in the instant of the hour,
  a wall clock that is set during a sleep. Correct when a job runs once a day.

## 2. The modules

Every module is a specification with `Init`, one action per handler step, `Next`
and `Spec` (`FairSpec` where it adds fairness to a `Spec` without); where two
components are proved about in one module, those of one carry its name (`EnvInit`,
`EnvNext`, `EnvSpec`; `DailyInit`, ...). A section the
code runs under a lock is one action; between two such sections, and around every
RPC, fetch, file write and systemctl call, other goroutines step. `MC<module>`
declares the model values. An operator commented `Mutant:` is no part of the
specification: it is a faulty form of the definition that follows it, and shows
that a property is able to fail.

**XrayClient**: clients are numbered as they are created: `opened`, `closed`,
`xrayAPI` (0 for nil). A call of `AddUser`, `RemoveUser` or `injectUsers` is
`Get` (the locked `getAPI`), then one `Serve`/`Answer` pair per user and inbound,
and `Drop` for the section that clears the cache after a connection error, which
does so only if the cached client is still the caller's (`grpc.go` 67-72).
`ConnectionError` is the RPC failing because xray is down or the client was
closed, `OtherError` everything else (a deadline may pass after xray served the
RPC). The watchdog probes, and after two failures closes the cached client and
restarts xray. `injectUsers` does not drop the client after a connection error,
as in the code, although `docs/XRAY_AGENT.md` 270 describes it as if it did.
`suspect` is history.

**UserSet** is the abstract specification of the same component, without clients,
connections and retries: a call changes the membership of its users in each
inbound once, in any order and between the changes of other calls, returns
success only when it made all the changes, and may return an error at any time;
xray may lose every member at once and in no other way. XrayClient implements it:
`KeepsPromise == Promise!Spec`, where a call's `left` is what its loops over users
and inbounds have yet to serve, and a call about to drop its client has returned
its error already.

**RestartSync**: the watchdog, the flag, up to two `syncAfterRestart`
goroutines, registrations at the backend with their pushes, `xray_update`, and
`AgentRestart`, which ends every sync and the watchdog and clears the flag, as
memory does. The client and its fan-out are reduced to what XrayClient guarantees:
an RPC fails when xray is down or the watchdog closed the client it goes through; a
systemctl that is given up may still restart xray. Pushes are messages, as in DeltaSync.
`pending` is history. `Fetched`: an empty list may arrive as JSON `null`, which the
code cannot tell from no list. Assumption: registered users exclude the built-in
test user, which `injectUsers` skips, and there is a free worker for each sync the
bounds allow.

**DeltaSync**: time in seconds, `stamp[u]` of the last change at the backend,
pushes that carry an add or a remove and may be lost, repeated or overtaken, one round
of any length with its fetch, its RPCs (adds before removes) and the stored cursor
`now - 1`; a write of the cursor that fails may leave a file that does not parse. The
delta is inclusive: changes at or after the cursor (the backend is outside the
repository; this is the weakest reading under which the one second of margin makes
sense). `SetDestRestart`
empties xray. History: `base`, the first cursor or the last restart of xray, from where
on changes are this component's to apply; `during`, the users changed since the round
in progress fetched; `adrift`, the users for whom the code promises nothing, because a
late push undid their last change or a round passed over it, and nothing has put them
right since (a round that still applies the change does, so does a push or a change).

**TempSync**: `server` is the backend's versioned list; the poller fetches, adds,
removes and stores the cache in separate steps; `ReInjectAll` snapshots the cache
and adds its users meanwhile, in each of several sync goroutines. `Restart` empties
xray with a sync launched for it (by the watchdog or `xray_update`), with one of an
earlier restart still to come, or with none: the watchdog skips it while a sync of its
own runs, `xray_set_dest` and systemd launch none. `AgentRestart` forgets the cache and
begins with `startup` again. `clean` (when xray was last emptied a sync was still to
call `ReInjectAll`, and since then no RPC failed and none met a poll) and `left` (what a
stopped agent left in xray) are history.

**TrafficMeter**: kernel counters per interface and direction, the reader,
`traffic.json`, days and months whose numbers repeat, stops of the agent of any length,
reboots that zero the counters, saves that fail, interfaces that cannot be read. Each
start picks one of the interfaces with the most sent bytes (`Picked`), while
`traffic.json` keeps the last counters of the one before. `due`, `pending`, `reported`
are history, and so are two fields of reader and file: `of`, the interface of the last
counters, and `foreign`, the periods whose totals took in another interface's bytes
since boot or another month's. Assumption: an interface that is not listed when the
agent first starts has a new counter when it appears.

**Dispatcher**: what the two subscriptions have in common, whatever the command: one
command at a time on each, and nothing that excludes the other's. XrayConfig and
AgentEnv extend it.

**XrayConfig**: `config.json` (destination, other fields, or truncated), the xray
binary with its `.new` file, and what xray runs with. A write is a truncation and
then the bytes, since `os.WriteFile` is; the download of `xray_update`, its rename,
its merge of fields, and the test, rollback and second restart of `xray_set_dest`
are steps; commands of two subscriptions interleave, and the agent may stop
between any two steps.

**AgentEnv**: the unit file and `/etc/node-agent.env` as functions from keys to
values, each rewritten through one temporary name that all commands share: opening
it truncates what another command is about to rename, and a command that still
holds it open writes into the installed file. `update_config` replies, and a timer
later runs daemon-reload and restarts the agent, which kills the commands and the
timers of that moment. `set_tier` changes one key and runs a script.

**SelfUpdate**: releases in publication order, each for this build or the other.
The number of a release is its tag and its content; the version embedded in the
binary is that number too, except for a release in `Mislabelled`, whose version
file was not changed. Each of the callers runs `TryUpdate` step by step; a restart
ends every call.

**Upgrade** is the abstract specification of self-update, without callers, mutex,
downloads, files and failures: the binary changes in one step to a release of this
build that is published by then, no older than the last and not the version that runs,
and what runs is what was installed when the agent started. SelfUpdate implements it:
`KeepsUpgrading == Upgrades!Spec`, where the releases known are those of this build.

**Reporter**: the main loop of `main.go`: `Connect` with its attempts, then collect
and publish, at once and on each tick. Of the metrics it has those that keep state
or lose it by being read: the CPU share with counters modulo `Width`, the traffic
of the injected users, whose counters the reading resets, the connections, and
whether xray answers. A report goes to the buffer of the connection, is flushed or
lost, and SIGTERM is looked at between reports.

**DailyJobs**: `startDaily` for the jobs of either build: `Schedule` computes the
next hour from the wall clock, with the jitter of the host's address (Go's `%`,
which keeps the sign), the timer counts elapsed time (`ahead` is how far the wall
clock was set since), the job runs and may outlast its next hour, and the agent
may stop at any moment.

Proof modules: **XrayClientProofs** (with the refinement of UserSet),
**RestartSyncProofs**, **DeltaSyncProofs**, **TempSyncProofs**,
**TrafficMeterProofs**, **SelfUpdateProofs** (with the refinement of Upgrade, and
DailyJobs), **ReporterProofs**, **CommandProofs** (XrayConfig and AgentEnv): section 6.

How they relate: XrayClient is the bottom layer; RestartSync, DeltaSync and
TempSync stand on it and take its RPCs as steps that succeed or fail as a whole;
each of them models the xray memory for the users it is responsible for. XrayConfig
and AgentEnv run the two subscriptions of Dispatcher, SelfUpdate them and the daily job of
DailyJobs. A stop of the agent is a step of every module it matters in.

## 3. The runs

Passing runs (distinct states in parentheses):

| run | checks | shows |
|---|---|---|
| `client` (423 042) | `TypeOK`, `CachedIsTheOpenOne`, `FailedClientLeavesCache`, `OnlyFailedClientsDropped`, `KeepsPromise` | with two callers, the watchdog and a crash of xray, the cached client is the only open one, a failed client leaves the cache, no caller closes a client that did not fail, and the whole implements UserSet |
| `restart` (326 660) | `TypeOK`, `FlagGuardsWatchdogSync`, `PendingSyncHeals`, `FlagClears` | the flag is set exactly while the one sync of the watchdog runs, and clears; any sync that is still before its injection brings the users back, unless the agent is restarted |
| `delta` (765 017) | `TypeOK`, `CursorCoversChanges`, `RoundsConverge` | with pushes lost, repeated or late and rounds of any length, the cursor passes only changes that are in xray, and everything changed since the first cursor ends in step, but for users whose change a late push undid or a round of more than a second passed over |
| `temp` (577 915) | `TypeOK`, `CacheIsInXray`, `ListsConverge` | between polls xray has the cached users and no other but what a stopped agent left, if its last restart had a sync to come and since then no RPC failed and no `ReInjectAll` met a poll; the cache ends with the backend's list |
| `traffic` (3 377 851) | `TypeOK`, `NeverOvercounts`, `ReportsNeverDrop` | restarts, reboots and failed saves never make the totals exceed what was sent, but in a period that took in another interface's bytes or another month's total; nor, while saves succeed, fall below what was reported, whatever interface is picked |
| `config` (1 748 947) | `TypeOK`, `OkMeansServed`, `AloneIsAtomic`, `BinaryIsWhole` | a command that nothing overlapped is all or nothing, an ok means that xray serves the destination or runs the release asked for, and the installed binary is whole unless two downloads overlapped |
| `env` (754 338) | `EnvTypeOK`, `FilesWhole`, `AckedStays`, `FilesAgree`, `ConfigTakesEffect` | without overlapping commands both files stay whole, agree, and keep what was acknowledged through failures and stops of the agent, and an acknowledged configuration takes effect |
| `update` (34 594) | `TypeOK`, `InstalledIsRelease`, `KeepsUpgrading`, `Settles`, `UpdatesCease` | the binary is always a complete release of this build, and the whole implements Upgrade: it is never replaced by an older one, nor by the version that runs; the newest listed one is finally run, and the downloads then cease unless it embeds another version |
| `report` (532 238) | `TypeOK`, `NeverCountedTwice`, `LostOnlyByFault`, `CpuIsShare`, `EverythingArrives` | no byte is reported twice and none is lost without a fault or a stop with a report in the buffer; the CPU share survives the wrap of the counters; the loop goes on whatever fails |
| `daily` (3 763 993) | `DailyTypeOK`, `OnceADay`, `WakesAtItsHour` | a job runs at most once a day and a sleep ends at the first hour to come, except for what each setting of the wall clock costs |

Two runs exhibit a disagreement between the code and what its comments or docs
say; each checks one property and ends in a counterexample (section 7):
`restart_skip` (`RestartReinjects`) and `delta_restart` (`RoundsRestoreUsers`).

Deadlock is not checked: the fault and change budgets of the models run out, and
what remains are waits for the next tick, push or command, which are not steps.

## 4. Bounds

Every bound is a constant named `Max...` with a guard on the action it limits.

* `client`: 2 callers, 2 inbounds, one user and the built-in one, calls that add
  it, remove it or inject a list of both, 2 clients, 1 crash. Two clients are what
  it takes for a caller to be late with the error of the previous one; two inbounds
  for a fan-out to stop half-way or to meet another call's. The callers are
  symmetric. The proofs cover the rest.
* `restart`: 2 users, 1 temporary, 2 faults (a restart of the agent is one of them),
  1 `xray_update`, 1 change, the list refreshed every 2nd attempt instead of every
  10th. Two faults allow a second stall while the first sync runs, which is when the
  watchdog skips its launch. `restart_skip`: 1 user, 3 faults.
* `delta`: 2 users, 6 seconds, 2 changes, 1 fault, 1 crash of the agent, 1 restart of
  xray; a push may be repeated any number of times and a round may take all the time
  there is. Two changes of one user are what a late push takes; six seconds leave room
  for a round of several seconds with others before and after it.
* `temp`: 2 users, 4 versions of the list, 2 faults, 2 restarts of xray, each with a sync
  or without, 2 syncs at a time, 1 restart of the agent.
* `traffic`: 2 interfaces, 2 directions, 2 bytes in all besides the 0 or 1 that each
  counter begins with, 4 days in months of 2 and years of 2, so that day and month
  numbers repeat within the run, with the agent stopped for any of them; 1 failed save,
  1 reboot, 2 starts on another interface than the file's, there and back.
* `config`: 2 subscriptions, 2 values of each field, 2 releases of the binary, 3
  commands, 1 fault, 1 stop. Three commands are a pair that overlaps and one after it.
* `env`: 2 subscriptions, 2 keys of which the env file has one, 2 values, 3 commands, 1
  fault, 1 stop.
* `update`: 2 callers, 5 releases of which the third embeds the second's version,
  pages of 2 (the code: 20), 3 faults, 2 stops. Two callers are enough for the
  mutex; five releases move the page twice.
* `report`: 2 counters of a byte each, CPU counters modulo 8 (the code: 2^64) that start
  just below it and so wrap, 2 idle ticks, 1 attempt to connect (the code: 10), 2 faults, 1 SIGTERM.
* `daily`: 2 jobs, nearly 3 days of 4 units with the hours of the jobs 1 and 2 and a jitter of
  -1 (an address part of -3 modulo 2), 2 settings of the clock to any time, 2 stops.

## 5. Fairness

* `RestartSync`: weak fairness of the watchdog (a ticker) and of each sync (a
  goroutine in a retry loop with timers; every RPC and request has a timeout). Not
  of xray, the backend or pushes.
* `DeltaSync`: weak fairness of rounds, which a ticker starts; not of pushes (they
  may be lost) nor of the clock.
* `TempSync`: weak fairness of the poller's loop and of `ReInjectAll`, whose RPCs
  have deadlines; not of restarts or of the backend.
* `SelfUpdate`: weak fairness of some trigger (the daily job) and of each call's
  steps (all requests have timeouts).
* `AgentEnv`: weak fairness of the steps of a command that has begun (file operations
  end; the script and systemctl have timeouts) and of the two steps of the timer
  that restarts the agent; not of commands.
* `Reporter`: weak fairness of the main loop (RPCs have timeouts; that `xray version`,
  which has none, ends is an assumption), of the connection writing its buffer (it
  reconnects for ever), and of systemd starting xray again.
* None elsewhere: XrayClient, TrafficMeter, XrayConfig and DailyJobs state safety only.

Faults are bounded, so liveness says what happens once they end.

## 6. Proofs

Eight modules hold proofs. For each component an inductive invariant is shown with the
usual three facts (`Init => IInv`, `IInv /\ [Next]_vars => IInv'`, `IInv => ...`) and
the theorem concluded by PTL, for every value of the constants that the module's named
assumption allows. Type correctness is part of each invariant. The invariants that
are not evident were model-checked on the instances of section 3 before their proofs.

**XrayClientProofs** (`ClientAssumption`: at least one inbound, requests are adds
and removes of one user or lists). `TypeCorrect`, `CacheCorrect`,
`FailedClientDropped`, `NoClientTornDown`. The cache invariant is not inductive
alone: a caller may hold a client for long, so `HeldClients` says that every client
held was created and that a caller about to drop its client saw it fail, and
`AtUser` that an RPC is always at one of the call's users. The step lemmas follow
`getAPI`, the drop and the watchdog's close; `Fields` lemmas say what each leaves alone.

The refinement: `PromiseKept`, `Spec => KeepsPromise`, that is, XrayClient
implements UserSet for any callers, users, inbounds and number of clients and
crashes. `BeginRefines`: a call that begins is the abstract one with the product of
its pushed users and the inbounds. `Serves`: an RPC that xray serves takes exactly the
pair of the current user and inbound out of `left`, which rests on `AtUser`.
`MovesOn`: the loops' own steps change nothing that the abstraction sees.
`Returns`: success only when the loop over users is done; a connection error is
returned, abstractly, when it is seen, so `Drop` is a stutter. `LosesMemory`: a crash
or restart is `Lose`.

**RestartSyncProofs** (`SyncAssumption`): `TypeCorrect`, `FlagCorrect`
(`FlagGuardsWatchdogSync`). With the types the flag's invariant is inductive: only
`LaunchSync` makes a sync the watchdog's, under the compare-and-swap; only the end of
that sync and a restart of the agent clear the flag; `SyncStep` shows that every other
step of a sync leaves who launched it and whether it runs.
`HealStaysDue` is the safety half of `PendingSyncHeals`: as long as the backend changes
nothing, users that a sync was to bring back are in xray, or a sync is before its
injection, or has what is missing still to inject. It rests on `ListIsCurrent` (a sync
that has a list has the backend's) and on every failure of an injection starting it
from the whole list again.

**DeltaSyncProofs** (`DeltaAssumption`): `TypeCorrect`, `CursorCorrect`
(`CursorCoversChanges`), for rounds of any length and pushes in any order.
Carried by `TimesPast` (stamps are not in the future, and the cursor is in the past),
`RoundOnCursor` (a round asked from the stored cursor on), `PlanIsDelta` (what a
round has yet to apply is what the backend has, but for users changed since) and
`RestInStep` (the others it answers for are in step, but for those adrift). The margin
of one second is used at the save: a change after the fetch is either one that the new
cursor does not pass, or one that `PassedOver` sets adrift.

**TempSyncProofs** (`TempAssumption`): `TypeCorrect`, `CacheCorrect`
(`CacheIsInXray`), for any number of syncs at a time. `NothingCached`, `PlanIsDiff`
(what remains of a poll is part of the difference of two lists), `Tidy` (only a
`ReInjectAll` under way has users to add) and `InStep`, which says what xray has while
a poll (`ApplyInStep`) or reinjections (`ReInjectInStep`) are half-way: a cached user
is in xray, or some sync has it to add, or is still to copy the cache (`Covered`).

**TrafficMeterProofs** (`MeterAssumption`): `TypeCorrect`; `TotalsCorrect`
(`NeverOvercounts`), for any choice of interfaces and stops of any length. The total alone is not bounded
inductively: `Counts` bounds the total together with what the next read will add,
for the running meter and for the file, in the periods that are not foreign: the next
read of the interface that the last counters are of, which is the only read that adds
to such a period. `PendingIsDue` says that bytes which no saved read has counted may
still count in any period. `SameRemainder` and `KeyIsId` are the calendar of a running
agent: from one day to the next, the numbers change when the day and the month do.
`ReportsKept` (`ReportsNeverDrop`): `ReportInFile` and `MeterInFile`
say that a start in the period of the last report, or of the running reader, restores
at least what was reported, or what the reader has, as long as no save failed. A read
that reports without a save is one that changes nothing.

**SelfUpdateProofs** (`UpdateAssumption`: the page is not empty, the first release
embeds its own version). `TypeCorrect`, `InstalledComplete`, `OnlyUpgrades`. Neither
property is inductive: the binary is renamed long after the release was chosen and
the file verified. `HolderRuns` (whoever is inside holds the mutex, so the others are
idle), `ChosenIsMine` (the chosen tag is of this build and not older than the
installed one) and `VerifiedIsChosen` (what is about to be renamed is the chosen
release) carry it through. `LatestIsNewest` shows that the choice in the list is well
defined and the newest; it rests on `HasLargest`, by well-foundedness of `<`.
The refinement: `UpgradeKept`, `Spec => KeepsUpgrading`. Only `Rename` is `Replace`, and
`ChosenIsMine` also keeps the chosen tag different from the running version until then,
since versions are compared long before the rename; every end of the process is `Start`.

DailyJobs (`DailyAssumption`: a day has some length, hours are within it), in the same
module: `DailyTypes`, `SleepsToItsHour` (`WakesAtItsHour`), `RunsOnceADay` (`OnceADay`).
That a job ran at most once today says nothing of tomorrow, so `PaidAndOwed` adds up, for
each job and day, the runs there were and those that the timer and the clock may still
bring (`Owed`): at most one, and two more for each time the clock was set. The lemmas
`DayHolds` to `NextRunIsNext` are the arithmetic of `next`: the hour computed is the first
one to come.

**ReporterProofs** (`ReporterAssumption`): `TypeCorrect`, `BytesOnce`
(`NeverCountedTwice`), `BytesKept` (`LostOnlyByFault`). `Total(c)` is what is in the
counter, the report, the buffer or has arrived; every step of the program keeps it
(`Keeps`) or lowers it and counts a fault or a cut (`Loses`), and `Send` raises it
with what was sent.
`ShareCorrect` (`CpuIsShare`) is proved for any width of the counters, under `FewTicks`:
fewer ticks than the width come between two readings (in the code, 2^64 of them in a
report's interval). `CountsTicks` says that what the counters have gained since the last
reading, modulo the width, is the ticks since then, whatever wrapped.

**CommandProofs** (`ConfigAssumption`, `EnvAssumption`, `DispatchAssumption`).
XrayConfig: `ConfigTypes`, `OkIsServed` (`OkMeansServed`), `AloneStaysAtomic`
(`AloneIsAtomic`), `BinaryStaysWhole` (`BinaryIsWhole`). An ok or a roll-back is decided
many steps after the file was written, so `ConfigInv` says what a command that nothing
overlaps has done to the file (`FileOfAlone`) and to the binary (`BinaryOfAlone`) at each
place, and what each place is for (`Purpose`). `OneDownload`: as long as no downloads
overlapped, at most one command has the `.new` file from its opening to its rename.
`OnlyAlone` reduces a step to its own command: while it runs, no other one is alone.

AgentEnv: `EnvTypes`, `FilesStayWhole` (`FilesWhole`), `AckedRemains` (`AckedStays`),
`FilesStayEqual` (`FilesAgree`). `Rewriting` is the heart of `EnvInv`: a command that has
its file to itself (`Sole`) writes through a descriptor of the temporary file, which holds
an edit of the installed file as it is now; and the keys of a command that runs are not
acknowledged, but installed as soon as the rename is done (`Unacked`). `Exclusive` ties
both to the history of overlaps. `OthersKeep` says what a step leaves to other commands.
`EffectStaysDue` is the safety half of `ConfigTakesEffect`: under its proviso the agent
runs with the unit on disk, or its restart is scheduled, or a command that has installed
the unit and will schedule it still runs. `OneRestart` carries it: there is one restart
at a time, and no unit is rewritten before it.

One theorem has a hypothesis beyond the modules' assumptions on constants: `FewTicks`
(`ShareCorrect`). A running agent reads the counters at least once a day, which is the
guard of `NextDay`.

Only model-checked: liveness (`PendingSyncHeals`, `FlagClears`, `RoundsConverge`,
`ListsConverge`, `Settles`, `UpdatesCease`, `ConfigTakesEffect`, `EverythingArrives`),
since temporal reasoning with ENABLED is out of the prover's reach.

## 7. What the models found

Runs with a counterexample:

* `restart_skip`: the watchdog restarts xray while the previous sync is already
  past its injection; the compare-and-swap fails, nobody injects
  (`xray/schedule.go` 127), where line 90 says that it restarts and re-injects.
* `delta_restart`: `xray_set_dest` restarts xray without a resync, and rounds
  of `DeltaSync` carry only changes: users that do not change stay lost, where
  `docs/XRAY_AGENT.md` 111 relies on the periodic sync.

Seen while modelling, with the conditions under which the passing runs hold.
Users:

* An add and a remove of one user that go over the inbounds at the same time both
  succeed, and the user ends in one inbound only (`xray/xray.go` 132). UserSet
  therefore has a change per inbound, not per call.
* A push says add or remove and has no version: one that arrives after a later change
  undoes it, and for good once the cursor is past that change (`command/xray_user.go`
  44, 73). These users are `adrift`.
* A change made during a round of `DeltaSync`, more than a second before its end, is
  passed over, since the new cursor is taken when the round ends (`xray/schedule.go`
  40); if its push is lost, the user is `adrift` for good.
* Without a state file `DeltaSync` stores a cursor and fetches nothing, although
  `docs/XRAY_AGENT.md` 135 and 157 speak of a full sync.
* `DeltaSync` removes whatever the delta names, the built-in test user included,
  which `xray/xray_sync.go` 12 says is never removed.
* `ReInjectAll` during startup or a poll uses the old cache: users added just
  before the restart of xray stay out until the version changes
  (`xray/temp_sync.go` 114); it can also add back a user that a poll is removing.
* After a restart of xray that no `ReInjectAll` follows (the watchdog's skip,
  `xray_set_dest`, systemd) the cached temporary users stay out, even when the list
  changes: `poll` adds only what is not in the cache (`xray/temp_sync.go` 80-96).
* A sync can inject a user that was removed after its list was fetched.
* A restart of the agent drops a sync that has not injected, since `Start` fetches
  no list, and the cache of temporary users with it: those that leave the backend's
  list meanwhile stay in xray.
* `TriggerResync` does not set `restartSyncInFlight`; `FlagGuardsWatchdogSync` is
  therefore about the watchdog's syncs only.
* An empty user list sent as `null` would keep a sync, and the flag, for ever;
  hence the exception in `FlagClears`.
* A restart of xray by systemd between two probes is not seen by the watchdog
  (`xray/schedule.go` 100): the users are out, as after `xray_set_dest`.

Commands and updates:

* A failed write leaves `config.json` truncated and nothing rolls it back
  (`command/xray_set_dest.go` 71). An `xray_update` of the binary alone does not look
  at the file and replies ok with xray down.
* Two commands that overlap can lose each other's changes of `config.json`, and two
  overlapping downloads can install a mixture (`command/xray_update.go` 132).
* `update_config`: a command acknowledged between an earlier one's daemon-reload
  and its restart of the agent is on disk and not in effect, since the restart
  kills the timer of its own; so is one whose daemon-reload a crash comes before.
  Overlapping commands can rename a truncated file.
* Once the other build's releases fill the page, no update is found; hence the
  condition of `Settles`.
* A release whose binary embeds another version is installed again, with a restart,
  at every call while it is the newest (`update/updater.go` 74).

Reports and jobs:

* A start that picks another interface than the last one (`config.go` 48) counts all
  that this one has sent and received since boot, beyond the other's last counters
  (`collect/traffic.go` 69). Line 189 speaks of `NET_IFACE`, which nothing reads.
* An agent down until the same day of another month goes on from that day's total,
  since only the day of the month is compared (`collect/traffic.go` 61); likewise the
  month's after a year. Both kinds of periods are `foreign`. The baseline read at the
  first start ignores its `ok` (line 75).
* `nc.Drain` is not waited for: a SIGTERM with a report in the buffer can lose it.
* `xray version` (`collect/xray.go` 146) and `docker exec` (`ikev2.go` 44) have no
  timeout: the first can stop the loop, the second its daily job.
* A wall clock set during a sleep makes a job run at another hour once, or twice
  a day: at most two more runs for each setting.
* `command/bootstrap.go` 51 starts a shell and never waits for it: it stays a zombie
  until the agent ends.

## 8. Not modelled

* `AddBatch` and `XrayUserSync.Close`: called from tests only.
* HTTP routing and authentication, and `config.go` but for the interface it picks:
  stateless. The attempts of
  `doWithRetry` keep no state; a fetch succeeds or fails as a whole.
* `swan_update` and `bootstrap`: they start external commands and keep no state. The
  audit script is an operator's read-only report and no part of the agent.
* An `xray_update` patch that names `inbounds` itself and so replaces the destination:
  XrayConfig's patches are of the other fields.
* SelfUpdate names a release by its base version and the listing only grows: two tags
  of one version, and releases that are withdrawn, are left out.
* A SIGTERM during the attempts to connect, before the handler is installed, ends the
  program at once (`main.go` 55-62): in Reporter that is `Crash`.
* Memory, disk, load and the counts parsed from `swanctl`: read and reported, no
  state. Formats, logging, wording.
* `xray/proto/`: generated code of the protocol buffers, about two fifths of the Go lines.
  What it does (an RPC that is served, fails or is cut) is in XrayClient and Reporter.

## 9. Plan

Built: the ten component modules, Dispatcher, the abstract specifications UserSet and
Upgrade, and eight modules of proofs. Left:

1. **DeltaSync and TempSync on one xray memory**: a uuid can be registered and
   temporary, and removing the one removes the other (`xray/temp_sync.go` 98).
2. **Abstract specifications** of the commands (a file that only changes from one whole
   content to the next) and of the report path (a byte that arrives at most once), with
   the refinements by AgentEnv and Reporter.
3. **Overlapping commands**: which values a pair of rewrites of one file can leave, in
   place of the exception of overlaps.
