# Verification of phosphor-state-manager

TLA+ models of the processes of phosphor-state-manager, their TLC runs and their
TLAPS proofs. phosphor-state-manager is a handful of daemons, each one process
with one D-Bus event loop, that mirror what systemd, the power hardware and the
host do in D-Bus properties, and turn property writes into systemd jobs. None of
them is concurrent inside. What is hard about them lies between them: signals
that arrive after the state they report is gone, calls without a reply, files
that are truncated before they are written, processes that die and come back
with only a file to go by, and scripts that read, sleep and act.

## 1. Inventory

| Component | State it keeps | Operations | Talks to | Correct when |
|---|---|---|---|---|
| Host state manager, `host_state_manager.*` | CurrentHostState, RequestedHostTransition, AttemptsLeft, RetryAttempts, boot progress, OS state, restart cause, one file | property setters, JobRemoved, JobNew, automatic reboot, restart | systemd, settings, `host-reboot`, transition services | the state follows the targets, a broken host is not rebooted for ever, a restart finds what D-Bus showed |
| `host_check.cpp` | the running file | asks the firmware once at start | host, run directory | (input of the host manager) |
| `scripts/host-reboot` | none | sleep, two reads, one of two starts | host manager, systemd | never boots beyond the attempts |
| Chassis state manager, `chassis_state_manager.*` | CurrentPowerState, request, power status, POH counter, change time, two files | start, JobRemoved, UPS and PSU signals, request, hourly timer | systemd, power control, UPower, power supplies, auto power restore | the state is that of pgood, also after BMC resets and losses of AC; losses are reported; files stand for D-Bus |
| SMP aggregator, `chassis_state_manager_smp.*` | aggregate state and status, request, caches, coordinated flag | four signal handlers, request, restart | chassis 1..N, inventory, systemd | the aggregate is that of the chassis, requests reach all, one failure takes all down |
| SMP power-on waiter, `chassis_wait_for_smp_poweron.*` | which chassis are on | signal handler, exit | chassis 1..N | ends when and only when all present chassis are on |
| BMC state manager, `bmc_state_manager.*` | CurrentBMCState, reboot cause and time | discovery, JobRemoved, reboot request, time sync | systemd, watchdog, GPIO | NotReady/Ready/Quiesced follow the two targets, Quiesced is final |
| Scheduled host transition, `scheduled_host_transition.*` | schedule, timer, one file | two setters, timer, clock change, restart | host manager, clock | a schedule is carried out in time and once, through restarts |
| System state discovery, `discover_system_state.cpp` | none (one pass) | restore policy with its delay | settings, chassis, host, BMC | a one-time policy decides one start, Restore never undoes an Off, a BMC that is not ready is waited for |
| Host reset recovery, `host_reset_recovery.cpp` | none (poll loop) | wait, check progress, quiesce | host, chassis-on file, systemd | a host that was booting is quiesced, no other |
| Target monitor, `systemd_target_signal.*` | which critical services it watches | subscription, set-up of the immediate services, JobRemoved, their PropertiesChanged, error log, BMC quiesce | systemd, logging | a critical failure quiesces the BMC, nothing is logged that did not fail |
| Parsers, `systemd_*_parser.*` | parsed tables | one pass at start | JSON files | (input of the target monitor) |
| Hypervisor state manager, `hypervisor_state_manager.*` | hypervisor state | setters, boot progress signal | host | state follows the progress |
| Settings, utils, GPIO, secure boot check, obmcutil | none | one call each | mapper, GPIO | (helpers, clients) |

How they interact: users write `Requested...Transition`; the manager calls
`StartUnit` without waiting and systemd starts targets with `Conflicts=` between
them; transition services inside a target write `TransitioningTo...` back into
the manager; systemd's `JobNew`/`JobRemoved` signals tell it of progress and
completion; `OnFailure=` targets and `host-reboot` start targets behind its
back. The aggregator sits above the chassis managers in the same way, and the
schedule service above the host's.

The behaviours that are hard to test, each at its line, are the "hazards" of
`PROJECT.json`: 40 of them, with the properties that watch them or the reason
why none does. Section 5 lists what was observed beyond them.

## 2. Modules

| Module | Models | Built on |
|---|---|---|
| `Host` | the host state manager, open: every order of signals, writes, answers, deaths and BMC reboots | |
| `HostSystem` | that manager closed by systemd's host targets, transition services, `host-reboot`, a host that boots, fails and crashes, and users | `Host` (EXTENDS; its actions are the handlers) |
| `Chassis` | the chassis state manager closed by the chassis targets, power, UPS and PSUs, BMC resets and losses of AC | |
| `ChassisSMP` | the aggregator over N chassis, with inventory, systemd and users | |
| `Scheduled` | the schedule service with its timer, its file, the clock and a host manager that comes and goes | |
| `Readiness` | abstract: how CurrentBMCState may change between two readings of a client | |
| `BMC` | the BMC state manager closed by its two targets, the reboot, the clock, deaths and resets | implements `Readiness` (INSTANCE WITH) |
| `TargetMonitor` | the target monitor, open: units that fail, systemd that joins the bus late, deaths | |
| `BMCSystem` | both on one systemd, with fairness | `BMC`, `TargetMonitor` (EXTENDS) |
| `ChassisWait` | the SMP power-on waiter closed by the chassis, their managers and the power off that kills it | |
| `Restore` | the program of the restore policy, one action per D-Bus call, open | |
| `HostReset` | the program of the host reset recovery, open, its inputs as parameters | |
| `BootSystem` | a BMC reset: both programs with the files, the targets, a host manager, users, failing calls and further resets | `Restore`, `HostReset` (EXTENDS) |
| `HostProofs`, `ChassisProofs`, `ChassisSMPProofs`, `ScheduledProofs`, `BMCProofs`, `ChassisWaitProofs`, `BootProofs` | theorems and their lemmas | the module each is named for (`BootProofs`: `BootSystem`, `BMCProofs`: `BMC` and `BMCSystem`) |
| `HostSystemProofs` | the same for the closed host system | `HostProofs`, `HostSystem` (EXTENDS) |
| `MCHost`, `MCHostSystem`, `MCChassis`, `MCChassisSMP`, `MCScheduled`, `MCBMC`, `MCBMCSystem`, `MCWait`, `MCBoot` | instances for TLC, one `.cfg` per run | |

Conventions. A handler is one action, guard by guard and in the order of the
code, with the files it writes. Blocking reads inside a handler (a `Get` of
another service) are one moment with it, because the process does nothing in
between and a later change of what was read produces a signal of its own. An
operator marked "Mutant" is not used by the model; it is a wrong variant of the
definition after it that the matching property must reject. Variables marked
"history" record what happened for the properties and influence no guard of a
handler; `allowance` is counted down no further than one below zero, after the
property is already violated.

### Host and HostSystem

`Host` has one action per entry point: `Start` (constructor, discovery and the
file), `RequestedHostTransition` (guards of `only-allow-boot-when-bmc-ready` and
`check-fwupdate...`, the charge of an attempt, the call, the file),
`SysStateChangeJobRemoved` with the automatic reboot decision inside,
`SysStateChangeJobNew`, one action per setter, `Die`, `DieInRequest` (after
StartUnit, before the file) and `BMCReboot`. What the manager's own calls answer
is an argument (`Answers`). Flash is an image, none, or a torn one:
`serialize()` truncates the only copy before writing it. Two details the code
shows and the model follows: the discovered request is always overwritten by the
file or its default, so `requested` after a start is that of flash; and the
setter of RetryAttempts does not write the file, so `RestartRestores` leaves
that property out. Not modelled: bootProgressLastUpdate (a timestamp stored
along) and version 1 of the file. Diagnostic mode, warm reboots and BMC reboots
are in `Host` and not in `HostSystem`.

`HostSystem` adds systemd (a target is inactive, queued, announcing, starting or
active; a start job stops the targets in conflict and its signals go to the
manager's inbox in order), the services that announce a transition and wait for
the manager, `host-reboot` with its sleep and its two separate reads, of which
either ends the script when the manager is away (`set -e`: the host then stays
off), boots that fail into the quiesce target, crashes at any time from the
first service of a boot on, which record a cause and reboot without asking, and
a manager that dies between two events or in a request (`DieInRequest`) and
misses signals. `allowance` is the ledger of the boots: `Refill` sets it,
`ScriptDecides` spends it, and `Uncharged` credits the two reboots that the
manager lets pass without taking an attempt (section 5), so that the property
can be asked with them in the model.

### Chassis

`Start` is `restoreChassisStateChangeTime`, `determineInitialState` and
`restorePOHCounter`; `Handle` takes the oldest message: JobRemoved
(`sysStateChange`), a write of a transition service, or a change of the UPS or a
PSU (`determineStatusOfPower`, which may call auto power restore). A `Start`
whose read of pgood fails (`PgoodIsUnread`) keeps Off and makes no discovery, as
the code does; the history variable `blind` says so until a target is handled.
The inputs include the supplies of other chassis, which are read and not
watched, and supplies and a UPS that appear without a signal; `unseen` says that
one changed since the last that was watched. Files are torn by a death and by a
BMC reset. Users ask for power at any time, during a recovery too; `faked` says
that poweron completed without its services for a chassis without power. The
rest is the surroundings: `SwitchesPower` is obmc-power-start/-stop,
`ResetChassisRunning` the pair of services that looks at pgood after a BMC
reset, leaves `chassis@N-on` and fakes the poweron target, `ACIsLost` and
`BMCResets` take the BMC down. Time is counted in changes of the power and BMC
resets (`Now`), which is all that the change time is compared by. Requests that
the BMC-ready or firmware-update checks refuse change nothing and are left out;
so is the renaming of the legacy files, the pinhole GPIO and the choice between
the regulator and the blackout log (either counts as the report). Watches are
placed before the first read of what they watch, so a start may be one moment. A
`startUnit` of the blackout target that throws ends the constructor, which is a
death like any other and is covered by `Dies`.

### ChassisSMP

The aggregator's caches are variables of their own, next to what the chassis
really are. A start, and a chassis that becomes present, are two steps each:
`Start` and `InventoryPresentChanged` place the matches, `ReadAll` reads, and
what moves in between has a signal in the inbox that is handled after the read.
An exception of the reads that `smp.cpp:479` does not catch is `Dies`. Every
other signal handler re-reads all present chassis (`ReadStates`), as the code
does, and then combines the states in its order of priority. `Unreadable`
chassis may fail a Get, `SendMayFail` lets StartUnit and Set fail after the
first k chassis, `DirectStart` is a target started with systemctl. A JobNew
signal carries for the property only who caused it.

### Scheduled

`HandleTimeUpdates` is the shared core of start and clock change; `Callback` is
the timer; `HostTransition` is the two property writes of which the second may
fail when the host manager has gone. `deadline` stands for the timer: it is kept
on the real-time clock, so `ClockSet` moves `now` and raises `timeChanged`, as
the cancelled timerfd does. Exceptions that leave the timer callback are logged
by sdeventplus and leave the timer off (`stranded`); exceptions that leave the C
callback of the clock change end the process. Both are facts about libraries
this repository does not contain.

### BMC, TargetMonitor, BMCSystem

Both matches of the BMC manager are installed before anything is read, so
`Start` installs them and `DiscoverQuiesced` and `DiscoverStandby` are the two
reads of `discoverInitialState`, with targets completing in between; what is
signalled meanwhile waits in the inbox until the loop runs. A handler re-reads
its target, because a job that is done may be one that stopped it. `watching` is
the match `stateSignal`: `bmcIsQuiesced` and both reboots drop it, which is what
makes Quiesced and the announcing NotReady final. `guarded` is `obmcutil
bmcrebootoff`, which makes systemd refuse `reboot.target`; the manager only logs
that, and a hard reboot that cannot be carried out likewise. A read of a unit's
state may fail and then counts as inactive (`misread` says so until the next
read). `bmcIsQuiesced` also unsubscribes from systemd, after which the signal
that the clock is synchronised may not come (`subscribed`). The journal entries
are left out.

`TargetMonitor` follows `initImmediateQuiesceMonitoring` call by call: LoadUnit
and the match (`LoadUnit`), the read (`ReadState`), unit by unit, then the loop.
A service that cannot be loaded or read is in the history variable `missed`. The
appearance of systemd on the bus and the Subscribe are one step: jobs that end
between them have no signal, which is what `onBus` says of all earlier ones. The
guard `immediateQuiesceMonitoringInitialized` has no counterpart because it
cannot act: the name-owner match, the only caller, is dropped with the first
Subscribe (`systemd_target_signal.cpp:193`). What the parsers produce are the
constants `Targets`, `Services`, `Immediate` and `ErrorsToMonitor`. Calls
without a reply (the log, the quiesce target) are sent and delivered later; a
death of the monitor does not recall them. The BMC dumps are left out.
`BMCSystem` shares systemd: the monitor's call starts the target that the
manager follows, a failure of `multi-user.target` reaches both.

### ChassisWait

The constructor goes chassis by chassis: `CheckPresent` (inventory, match) and
`ReadPowerState`, while the chassis change; `InitialCheck`; then `Handle` per
signal. A chassis whose inventory cannot be read counts as absent and one whose
manager does not answer as off, both as in the code. A chassis manager may die
and join the bus again, then On without a signal of a change: `unheard` are the
chassis of which the waiter has no way to know that they are On. `Kill` is the
conflict of the service with the power off target.

### Restore, HostReset, BootSystem

Each action of `Restore` is one call of the program, and each of them may fail
(`PolicyFails`): everything it reads may change until the next. The reboot
cause, the user's policy, the delay and the loss of AC are read once and come
from outside, so they are arbitrary at that read. The one-time policy is cleared
with a Set that nobody waits for; the next call is a Get to the same service,
which answers in order, so the program goes on only after the clear has been
carried out and persisted. `Poll` is one second of the delay. `HostReset` polls
the file each second and then makes three calls in a row.

`BootSystem` is the BMC after a reset: the service that leaves the file when
pgood is there, the faked power on, the chassis manager that removes the file
when that completes, the two services with their conditions and ordering, the
host manager reduced to `HandleSet` (that a request is refused is
`Host!Accepted`) and `HostManagerDies`, which loses the Sets queued to it
(`dropped`: an On of the policy was among them), users, and `Reset`, which
interrupts all of it at any step with or without the power of the chassis.

## 3. Runs

All run with 2 TLC workers in under two minutes. `CHECK_DEADLOCK FALSE` where
the environment's bounds let the system come to rest.

| Run | Shows | Bounds | States |
|---|---|---|---|
| `host` | `AttemptsWithinRetry`, `RestartRestores`, types, over every order of everything | counters 0..2, one job in flight | 123 k |
| `host_system` | `StateFollowsTargets`, `RebootsWithinBudget`, `BrokenHostQuiesces` (liveness) | 2 attempts, 2 requests of any kind, 4 crashes at any point of a boot, 1 death, 3 signals | 301 k |
| `chassis` | `StateFollowsPower`, `StatusIsCurrent`, `LossIsReported`, `MovesWithPower`, `FilesStand`, types | 1 supply of its own and 1 of another chassis, 2 requests at any time, 1 each of death, reset, loss, failure and unread pgood, 2 input changes; any 6 of these 9 events, 2 signals | 3.7 M |
| `smp` | `AggregateIsCurrent`, `CoordinatedUntilOff`, types | 2 chassis, 1 unreadable, sends that fail, 1 each of request, fault, presence and status change, death; match and read apart | 6.6 M |
| `smp_off` | `OffReachesAll` (liveness) | 2 chassis, 2 requests, 1 fault, 1 direct start; a user waits for the last request | 547 k |
| `scheduled` | `ArmedForSchedule`, `RestartFindsSchedule`, `OnceUnlessInterrupted`, `NeverEarly`, `EventuallyCarriedOut` (liveness) | times 1..4, 3 writes, 2 clock changes, 2 deaths, 1 host death | 95 k |
| `bmc` | `StateIsCurrent`, `RebootTimeIsRight`, `KeepsPromise` (refinement), types | 2 requests, 1 each of death, reset, failure and failed read, 2 signals, every input | 5.2 M |
| `bmc_system` | `LogsHaveFailures`, `FailureQuiesces`, `CrashQuiesces` (liveness), types | 1 service in both lists, 1 target, 1 each of request, death of each process, failure, failed set-up | 664 k |
| `wait` | `SuccessMeansOn`, `NoLostWakeup`, `WaitEnds` (liveness), types | 3 chassis, 1 unreadable, managers that die and come back, 3 signals | 596 k |
| `boot` | `RestoreHonoursOff`, `OneTimeOnce`, `PolicyAwaitsReady`, `PolicyDelivered`, `RecoveryEnds` (liveness), types | delays 0..2, timeout 1, 1 each of user request, one-time setting and fault (a failing call, a reset or a death of the host manager) | 1.2 M |
| `smp_failure`, `scheduled_refused` | each the disagreement of section 5 | as small as shows it | |

Why the bounds are enough. Every hazard takes two or three actors and one
failure: two targets in conflict, one signal lost, one death between two writes,
one chassis that fails while another moves. The bounds give each run these
actors and these events together, and each property is broken under its own
run's bounds by a plausible bug of the code (the mutants), so the interesting
states are reached. Two chassis tell "one" from "all"; three attempts (0..2)
tell "last" from "not last"; an inbox of two or three messages lets one be
overtaken by the state it speaks of. Three chassis let one be on, one come on
and one be unreadable; a delay of two seconds has a first, a last and no poll.
Counter values, times and payloads matter only by comparison. `chassis` takes any six of its nine events together (`FewEvents`, a constraint): no hazard of the chassis takes more, and its theorems hold for all of them.

Fairness. `FairSystemSpec`, `FairSpec` of `ChassisSMP` and of `Scheduled`, and
the specifications of `BMCSystem`, `ChassisWait` and `BootSystem` ask weak
fairness only of what goes on by itself: a process's event loop
(sd-event/`process_discard` loops for ever), its restart (`Restart=always` in
the service files), systemd carrying out jobs and finishing targets, the script
going on after its sleep, the clock ticking. Users, crashes, faults, deaths and
clock changes are never owed. In `BootSystem` nothing makes the BMC Ready and
nothing completes the power on target, which is what the two programs must not
wait for. `BrokenHostQuiesces` lets a target either be reached or fail, and asks
the conclusion only of hosts whose target in the end never is.

What the properties except, by name: `StateFollowsTargets` asks nothing of a
host in the quiesce target, because a restarted manager discovers only Running
or Off. `RebootsWithinBudget` credits the reboots the manager lets pass without
an attempt (`Uncharged`), so it bounds what the script spends and is no bound on
all boots. `BrokenHostQuiesces` has finitely many crashes, so in the end boots
fail, and a host whose manager restarted is left out. `StateFollowsPower`
excepts a transition that the blackout target of a restarted manager
interrupted, a power on that was faked for a chassis without power (`faked`) and
a manager that started without pgood (`blind`): in the last two the code shows a
wrong state, see 5. `StatusIsCurrent` excepts a change of an input that is not
watched (`unseen`). `LossIsReported` and `MovesWithPower` are about processes
that have not died (a death may lose a completion or tear the file); the first
excepts a start that cannot read pgood, the second a faked power on.
`EventuallyCarriedOut` excepts a timer that expired in vain and a torn file.
`StateIsCurrent` excepts a manager whose own read of a unit failed (`misread`),
`RebootTimeIsRight` a BMC that was Quiesced and so unsubscribed.
`FailureQuiesces` excepts services the monitor failed to set up and
`CrashQuiesces` a monitor that dies with the signal unread; `NoLostWakeup` and
`WaitEnds` a manager that joined the bus On after its match was installed and
has not signalled since (`unheard`); `PolicyAwaitsReady` a BMC that was not
Ready during the whole delay, or is no more; `PolicyDelivered` an On that was
queued to a host manager that dies (`dropped`). `KeepsPromise` lets a client see
anything after the name was gone: it is about one life of the process.
`RecoveryEnds` is checked for a timeout above 0, since 0 waits for ever by
design.

## 4. Proofs

For every value of the constants, checked by tlapm with Z3, Zenon and LS4:

* `HostProofs`: `HostTypeOK`; `HostAttemptsWithinRetry`, inductive only together
  with the type invariant, since the order of the counters survives the
  decrement only for naturals; `HostRestartRestores`, where one lemma
  (`PersistRestores`) says that a step that persists restores, another
  (`UntouchedRestores`) that a step that touches neither side does, and every
  handler is one of the two. They use `HostAssumption` and that the two marks
  for a missing and a torn file are not images (`FileAssumption`).
* `HostSystemProofs`: the refinement `HostSystemRefinesHost` and the two safety
  properties of the closed system.
  - `HostSystemRefinesHost`: every step of `HostSystem` is one of `Host` or a
    stutter for it, from the types of what surrounds the manager alone. `Host`
    allows every order of events, so its theorems hold in the closed system;
    `TypeOK` is taken from there.
  - `HostStateFollowsTargets` is about the order of the inbox. A write of a
    transition service and the crash target's JobNew are the messages after
    which the state no longer is what a target has announced (`Stirs`). Its
    invariant is `OwnWriteIsLast` (the write of a target that waits for its
    answer is the last that stirs, and once it is answered none is left) and
    `TargetIsKnown` (an active target is shown, or the signal of its end is in
    the inbox); `Basics` has the types and the conflicts. Neither is inductive
    without the other: a late write would undo what a signal has told. It holds
    for every kind of request and of crash, every answer and every bound.
  - `HostRebootsWithinBudget` is the ledger of the attempts. `Budget` says that
    the allowance is never negative and, while the manager lives, covers
    `Unspent` (the counter, less the attempt that a crash in the inbox will
    take) and `Claimed` (the reboot jobs systemd has not taken yet, and the boot
    of a script under way, unless it will go to Quiesced). That a crash is paid
    once needs `CrashBeforeCount`: at most one crash is unheard, and the script
    it started has not read the counter yet. There is no assumption on users or
    crashes: every kind of request, a crash at any point of a boot, deaths
    between two events and in a request. What the code does not charge (a Reboot
    requested with no attempts left, a crash that the manager does not see in
    Running; section 5) is `Uncharged`, which raises the allowance at that step
    and at no other.
* `ChassisProofs`: all properties of the run. `ChassisFilesStand` is inductive
  as it is: a start copies the file, a torn one counting as none on both sides;
  after a loss of power the file says On, so setting the time for Off always
  writes (`ChangeTimeStands`); a death leaves no D-Bus side to compare. The
  others rest on an invariant in layers, for users who request power at any
  time, a recovery included.
  - `Basics`: the types, at most one of the two targets queued or active
    (`OneTarget`), no inbox without a process (`Unheard`), and `StatusKnown`, a
    status that is not that of the inputs has its signal on the way. It proves
    `ChassisTypeOK` and `ChassisStatusIsCurrent`.
  - `Always` adds `Undied` (without a death no file is torn, targets do nothing
    between a BMC reset and the start but fake a power on, an idle chassis is
    shown as it is, and an order for a blackout is the first of its queue),
    `OnIsSaved` (a chassis shown as On has On on flash, or a target is on its
    way that changes one of the two) and `OwedStands` (a loss that has to be
    reported waits for the start). It proves `ChassisLossIsReported`.
  - `Whole` adds `OffIsOff` and `OnIsOn` (a target is reached only with the
    power it names, or faked), `Follows` (an active target is shown or will be,
    and nothing behind it in the inbox undoes that) and `Stamp` (the change time
    and its file stand for the last change). It proves
    `ChassisStateFollowsPower` and `ChassisMovesWithPower`.
* `ChassisSMPProofs`: `SMPCoordinatedUntilOff`: `AggregateDropsFlag` (an
  aggregation that finds Off drops the flag) and `TransitionEnds` (a request
  ends the coordinated power off) carry it through all four handlers.
  `SMPTypeOK` and `SMPAggregateIsCurrent`, for every number of chassis, from
  `CacheInv`: what is shown is the combination of the cache (`CacheIsShown`), a
  chassis that is counted has its match (`CountedIsWatched`), what was read of a
  watched chassis is what it is, or a signal of it is in the inbox, or it is one
  that cannot be read (`CacheIsRead`), all of this once the reads that follow a
  new match are over. Its presence is not read again, so there the last signal
  in the inbox must be the true word (`PresenceIsKnown`).
* `ScheduledProofs`: `SchedTypeOK`, then `Safe`, the conjunction of
  `ArmedForSchedule`, `RestartFindsSchedule`, `OnceUnlessInterrupted` and
  `PendingUnsent`. The last is the strengthening: a schedule that still lives,
  on D-Bus while the service runs and on flash otherwise, has no request that
  succeeded. Without it a restart could send once more. `SchedNeverEarly` is an
  action property proved from `Safe`.

* `BMCProofs`: `BMCTypeOK`, `BMCStateIsCurrent`, `BMCRebootTimeIsRight` and the
  refinement `BMCKeepsPromise`. The invariant under them says what a signal that
  is still in the inbox excuses: while the manager watches, each target is shown
  as it is, or its read is still to come, or its signal is in the inbox
  (`TargetsKnown`); the same for the clock (`ClockKnown`); and a process that is
  up without watching shows Quiesced or the announced reboot, never Ready
  (`WatchedByPhase`). Without the last alternative neither a completion between
  the two reads nor one before the loop is covered. The refinement needs only
  that part and the types: every step moves `Life` as `Readiness` says or leaves
  it. `BMCSystemRefinesBMC` carries all of it over to the manager beside the
  monitor. Of the monitor, `MonitorTypeOK` and `MonitorLogsHaveFailures`, with
  `ReadOnce` (the read of a service at start comes once per start of the
  monitor) and `ErrorsCovered` (what is logged and what is still in the inbox
  are together no more than the failures and those reads), which is the
  induction: a failure is counted when it happens and the log when the signal is
  handled, and with `NoTrace` (a unit that never failed has left neither a state
  nor a signal nor a log of a failure). They use `MonitorAssumption`, in
  particular that the mark for "no service" is not a monitored one.
* `ChassisWaitProofs`: `WaitTypeOK`, `WaitSuccessMeansOn`, `WaitNoLostWakeup`,
  for every number of chassis. `Watches` says of each present chassis that was
  heard that the cache agrees with it after the last signal in the queue, and
  `HaveBeenOn` that everything that counts as On, in the cache or in a signal,
  has been On since the start; `Progress` ties both to where the constructor is.
* `BootProofs`: `BootTypes`, `BootOneTimeOnce`, `BootPolicyAwaitsReady`,
  `BootRestoreHonoursOff`, for every delay, timeout, number of settings and
  choice of build options. `QueueByStep` says which Sets can be under way at
  each step of the program. `OneTimeLives`: a one-time setting that can still be
  read has never been acted upon, one in the program's hands is gone from
  Settings before the program may act, and tokens are not used twice.
  `ReadyAfterDelay`: an On under way was sent after the delay ran out or with
  the BMC Ready. `OffStands`: while Off is held from the end of the delay, a
  Restore that has passed the read has nothing under way.

Where a type invariant is proved it comes first and the others cite it. Each
theorem ends in a temporal step, which LS4 checks, from Init and the steps to
the specification; the fairness conjuncts are not used.

Sums of the manager's variables are proved in two steps, a lemma over numbers
and its use, because the SMT backend loses arithmetic over defined and primed
terms.

Only model-checked: every liveness property (`BrokenHostQuiesces`,
`OffReachesAll`, `EventuallyCarriedOut`, `FailureQuiesces`, `CrashQuiesces`,
`WaitEnds`, `PolicyDelivered`, `RecoveryEnds`; fairness and ENABLED are out of
the prover's reach) and the two disagreements of section 5. Every safety
property of a run is a theorem.

## 5. Where code and documentation disagree

Each is a run that TLC must find violated, and a finding with its quotations:

1. `smp_failure`: a failure is missed when the handler of an earlier message has
   already read the failed chassis.
2. `scheduled_refused`: when a passed schedule is carried out by
   `handleTimeUpdates`, at the start of the service or after a clock change, the
   promised retry (`scheduled_host_transition.cpp:209-211`) waits for an error
   that `call_noreply` drops. The timer callback uses the same call and promises
   nothing, so the property leaves it out.

Observed and not kept as runs of their own; where a property meets one of them,
the case is in the model and the property excepts it by name (section 3). Host
and its script:

* A crash costs an attempt only while the host is Running
  (`host_state_manager.cpp:335`), so a host that crashes earlier is rebooted
  without limit, whereas `scripts/host-reboot:50-53` promises an end to reboot
  loops. A Reboot that is requested with no attempts left is not charged either.
* `host-reboot` starts the host although an Off was requested during its sleep
  (`scripts/host-reboot:42`).
* RetryAttempts is not written to the file until another property is
  (`host_state_manager.hpp:115`), and a manager that restarts in Quiesced finds
  only Running or Off (`host_state_manager.cpp:62`).

Chassis and SMP:

* A power off during the recovery from a BMC reset leaves
  `/run/openbmc/chassis@N-on`, the next power on is faked and the chassis is On
  without power. The manager removes the file only when poweron completes.
* A chassis manager that restarts during an ordered power off reports a blackout
  (`chassis_state_manager.cpp:133`); when the power service is not there at
  start the state stays Off, and nothing listens for it although `:165` says it
  will notify; supplies of other chassis are read and not watched (`:348`).
* A start that cannot read pgood shows Off and makes no discovery
  (`chassis_state_manager.cpp:166-187`): a chassis that is on stays Off for
  clients until the next target.
* A requested power off looks like the failure of the first chassis that goes
  down; the aggregator's own JobNew undoes an Off that followed an On; its view
  of the request is lost in a restart, after which it ignores directly started
  power offs (`chassis_state_manager_smp.cpp:581`); a Set to a chassis has no
  reply, so one that rejects it goes unnoticed (`:399`); `startUnit` and the
  Sets stop at the first chassis that cannot be reached, and the rest get no
  order.
* The aggregate is On as soon as one selected chassis is On, before any that is
  Off is looked at (`chassis_state_manager_smp.cpp:218-225`, and its header at
  line 79). `src/README.md:181-182` says On only when all are on, and a comment
  in `test_chassis_smp.cpp:91` gives Off precedence. `AggregateIsCurrent` is
  about the code's order: that the view is current, not which order is right.
* The waiter reads a chassis whose manager is not there as off; if that manager
  then appears with On and no signal of a change, the waiter never ends.

BMC and target monitor:

* A reboot that the reboot guard makes systemd refuse leaves the BMC NotReady
  with the targets unwatched until the process restarts.
* A failed read of the standby target at start shows NotReady until the next
  signal.
* A service whose LoadUnit fails is never monitored; a job that fails while the
  monitor is dead is never logged.
* The pinhole reset log is written at every start of the process, not of the
  BMC.

BMC reset:

* A one-time policy is lost when the program ends between the clear and its
  request, and when a user sets one between the read and the clear.
* An On that is refused because the BMC is not ready is refused silently.
* An Off that a user requests between the read of the last request and the Set
  is overridden.
* A service whose condition is checked after the chassis manager has removed the
  file runs the policy over a system that is on.
* The recovery reads the boot progress after its wait, so a boot that a user
  began meanwhile is quiesced as an interrupted one.
* A host manager that dies loses the requests that were sent to it without a
  reply: the On of a policy then never happens.

## 6. Not modelled

The parsers of the target monitor translate JSON files once at start; their
results are constants. The chassis power status check is one read of a property
(that the property is current is `StatusIsCurrent`) and an exit code. GPIO,
secure boot check, settings, mapper calls and obmcutil keep no state of their
own. The hypervisor manager keeps a request and a state that follows the boot
progress of the host; it is the next component of the plan. The numeric limits
of schedule times belong to the standard library's conversions. POH counts hours
far below its width.

## 7. Plan

Done, in order of what the system depends on most: `Host` and `HostSystem`,
`ChassisSMP`, `Scheduled`, `Chassis`, `BMC` with `Readiness`, `TargetMonitor`
and `BMCSystem`, `ChassisWait`, `Restore` and `HostReset` in `BootSystem`, each
with its proofs: every safety property of every run is a theorem.

Left:

1. Proofs: from `RebootsWithinBudget` a bound on the boots by the requests and
   the uncharged reboots, and when `faked` and `blind` end, so that their
   exceptions are known to be temporary.
2. An abstract `Power` specification (off, going on, on, going off, with
   requests) that `Chassis` implements by a refinement mapping.
3. `Hypervisor`, over the boot progress of `Host`.
4. `BootSystem` over the chassis manager of `Chassis` instead of its two events,
   which needs a smaller `Chassis` first.
