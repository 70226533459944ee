------------------------------- MODULE Chassis -------------------------------
(***************************************************************************)
(* The chassis state manager (chassis_state_manager.cpp), closed by the    *)
(* chassis targets of target_files/, the services that switch the power or *)
(* bring the poweron target up again after a BMC reset, the power inputs   *)
(* it watches, users, deaths of the process, BMC resets and losses of AC.  *)
(***************************************************************************)
EXTENDS Integers, Sequences, SequencesExt, FiniteSets

CONSTANTS PSUs,                \* the power supplies of this chassis
          OtherPSUs,           \* those of other chassis
          UserTransitions,     \* what users request
          MaxRequests, MaxDeaths, MaxResets, MaxLosses, MaxFailures,
          MaxUnread, MaxInputs, MaxHours, \* bounds on the environment
          MaxSignals           \* bound: signals the manager has not handled

ASSUME ChassisAssumption ==
  /\ UserTransitions \subseteq {"On", "Off", "PowerCycle"}

Units == {"poweron", "poweroff"}
\* A target with a start job is "queued" until its transition service writes
\* CurrentPowerState, "announcing" until the manager has answered the write,
\* "starting" until the power has been switched, then only waits for the rest.
UnitStates == {"inactive", "queued", "announcing", "starting", "switched", "active"}
PowerStates == {"Off", "TransitioningToOff", "On", "TransitioningToOn"}
NoFile == [kind |-> "none"]
TornFile == [kind |-> "torn"]
Saved(v) == [kind |-> "saved", value |-> v]

VARIABLES
  alive,         \* the process runs and is on the bus
  powerState,    \* CurrentPowerState
  requested,     \* RequestedPowerTransition
  powerStatus,   \* CurrentPowerStatus
  changeTime,    \* LastStateChangeTime, see Now
  poh,           \* POHCounter
  changeFile,    \* flash: LastStateChangeTime and the state it belongs to
  pohFile,       \* flash: POHCounter
  onFile,        \* /run: chassis@N-on
  lostPowerFile, \* /run: chassis@N-lost-power
  jobs,          \* calls to systemd on their way
  bus,           \* the manager's D-Bus inbox, oldest first
  unit,          \* the targets
  pending,       \* services that wait: "reset" after a BMC reset, "cycle"
  pgood,         \* the power control says the chassis is powered
  ups, faulty,   \* the power inputs: the UPS and the PSUs with a fault
  changes,       \* history: how often pgood changed
  stamped,       \* history: changeTime was set for the last change
  owed,          \* history: a loss of AC that has to be reported
  blind,         \* history: the manager started without knowing pgood
  faked,         \* history: poweron was faked for a chassis without power
  unseen,        \* history: an input changed without a signal
  spent          \* what the environment has used of its bounds

manager == <<powerState, requested, powerStatus, changeTime, poh>>
flash == <<changeFile, pohFile>>
inputs == <<ups, faulty>>
history == <<changes, stamped, owed, blind, faked, unseen>>
vars == <<alive, manager, flash, onFile, lostPowerFile, jobs, bus, unit,
          pending, pgood, inputs, history, spent>>

JobRemoved(u) == [member |-> "JobRemoved", unit |-> u]
Write(u) == [member |-> "Set", unit |-> u]
InputSignal(i) == [member |-> "PropertiesChanged", unit |-> i]
Emitted(signals) == IF alive THEN bus \o signals ELSE bus
---------------------------------------------------------------------------
\* Mutant: a good UPS ends the check, the PSUs are not looked at.
StatusOfFirst(u, f) == IF u = "low" THEN "UninterruptiblePowerSupply"
                       ELSE IF u = "none" /\ f # {} THEN "BrownOut" ELSE "Good"
\* determineStatusOfPower: the UPS first, then every PSU.
StatusOf(u, f) == IF u = "low" THEN "UninterruptiblePowerSupply"
                  ELSE IF f # {} THEN "BrownOut" ELSE "Good"

\* Auto power restore is called when the status recovers while power is off.
DetermineStatusOfPower ==
  /\ powerStatus' = StatusOf(ups, faulty)
  /\ unseen' = FALSE
  /\ jobs' = IF powerStatus # "Good" /\ powerStatus' = "Good" /\ powerState = "Off"
             THEN Append(jobs, "apr") ELSE jobs

\* Time passes with changes of the power and with BMC resets.
Now == changes + spent.resets

PowerSays == IF pgood THEN "On" ELSE "Off"

\* Mutant: the change time is set although the file knows the state.
SetStateChangeTimeAgain(s) ==
  /\ changeTime' = Now
  /\ changeFile' = Saved([time |-> Now, state |-> s])
  /\ stamped' = (s = PowerSays)

\* Mutant: the file gets the state of before the change.
SetStateChangeTimeBefore(s) ==
  /\ changeTime' = Now
  /\ changeFile' = Saved([time |-> Now, state |-> powerState])
  /\ stamped' = (s = PowerSays)

Knows(s) == changeFile.kind = "saved" /\ changeFile.value.state = s

\* setStateChangeTime, for a state that has just become s: nothing changes
\* when the file already knows that state.
SetStateChangeTime(s) ==
  IF Knows(s)
  THEN UNCHANGED <<changeTime, changeFile, stamped>>
  ELSE /\ changeTime' = Now
       /\ changeFile' = Saved([time |-> Now, state |-> s])
       /\ stamped' = (s = PowerSays)

\* A torn file is removed by the read that trips over it.
Readable(file) == IF file.kind = "torn" THEN NoFile ELSE file
RestoredTime == IF changeFile.kind = "saved" THEN changeFile.value.time ELSE 0
RestoredPOH == IF pohFile.kind = "saved" THEN pohFile.value ELSE 0

\* The chassis was on when the BMC went down and is off now.
PowerWasLost == ~pgood /\ Knows("On")

\* Mutant: the state is the one that was saved, not the one of pgood.
SavedState == IF changeFile.kind = "saved" THEN changeFile.value.state ELSE "Off"

InitialState == IF pgood THEN "On" ELSE "Off"

\* The rest of determineInitialState once pgood is read.  CurrentPowerState has
\* its default, Off, when the change time is set.  A pinhole reset is not
\* reported.
PgoodIsRead ==
  /\ powerState' = InitialState
  /\ requested' = PowerSays
  /\ blind' = FALSE
  /\ IF PowerWasLost
     THEN /\ jobs' = Append(jobs, "blackout")
          /\ SetStateChangeTime("Off")
          /\ lostPowerFile' = TRUE
          /\ owed' = FALSE
     ELSE /\ changeTime' = RestoredTime
          /\ changeFile' = Readable(changeFile)
          /\ UNCHANGED <<jobs, lostPowerFile, owed, stamped>>
  /\ UNCHANGED spent

\* The read of pgood fails, or the start of the blackout target: the state is
\* Off, no loss is looked for, and nothing tells the manager of pgood later.
PgoodIsUnread ==
  /\ spent.unread < MaxUnread
  /\ powerState' = "Off" /\ requested' = "Off"
  /\ changeTime' = RestoredTime
  /\ changeFile' = Readable(changeFile)
  /\ blind' = TRUE
  /\ owed' = FALSE
  /\ spent' = [spent EXCEPT !.unread = @ + 1]
  /\ UNCHANGED <<jobs, lostPowerFile, stamped>>

\* The process starts: restoreChassisStateChangeTime, determineInitialState,
\* restorePOHCounter.
Start ==
  /\ ~alive
  /\ alive' = TRUE
  /\ powerStatus' = StatusOf(ups, faulty)
  /\ unseen' = FALSE
  /\ PgoodIsRead \/ PgoodIsUnread
  /\ poh' = RestoredPOH
  /\ pohFile' = Readable(pohFile)
  /\ UNCHANGED <<onFile, bus, unit, pending, pgood, inputs, changes, faked>>
---------------------------------------------------------------------------
\* sysStateChange: a target is done and systemd, asked again, calls it active.
PowerIsOff(u) == u = "poweroff" /\ unit[u] = "active"
PowerIsOn(u) == u = "poweron" /\ unit[u] = "active"
CompletedState(u) == IF u = "poweron" THEN "On" ELSE "Off"

\* Mutant: the change time is set when power goes off only.
SysStateChangeOff(u) ==
  \/ /\ PowerIsOff(u)
     /\ powerState' = "Off"
     /\ SetStateChangeTime("Off")
     /\ UNCHANGED onFile
  \/ /\ PowerIsOn(u)
     /\ powerState' = "On"
     /\ onFile' = FALSE
     /\ UNCHANGED <<changeTime, changeFile, stamped>>
  \/ /\ ~PowerIsOff(u) /\ ~PowerIsOn(u)
     /\ UNCHANGED <<powerState, changeTime, changeFile, stamped, onFile>>

SysStateChange(u) ==
  \/ /\ PowerIsOff(u)
     /\ powerState' = "Off"
     /\ SetStateChangeTime("Off")
     /\ UNCHANGED onFile
  \/ /\ PowerIsOn(u)
     /\ powerState' = "On"
     /\ SetStateChangeTime("On")
     /\ onFile' = FALSE
  \/ /\ ~PowerIsOff(u) /\ ~PowerIsOn(u)
     /\ UNCHANGED <<powerState, changeTime, changeFile, stamped, onFile>>

\* A service whose target was stopped meanwhile no longer waits; writes under
\* way fail with the process that should have answered them.
Answered(u) == [unit EXCEPT ![u] = IF @ = "announcing" THEN "starting" ELSE @]
Unanswered == [u \in Units |-> IF unit[u] = "announcing" THEN "starting" ELSE unit[u]]

Announced(u) == IF u = "poweron" THEN "TransitioningToOn" ELSE "TransitioningToOff"

\* The manager handles the oldest message of its inbox.
Handle ==
  /\ alive /\ bus # <<>>
  /\ bus' = Tail(bus)
  /\ LET m == Head(bus) IN
       \/ /\ m.member = "JobRemoved"
          /\ SysStateChange(m.unit)
          /\ blind' = (blind /\ ~(PowerIsOff(m.unit) \/ PowerIsOn(m.unit)))
          /\ UNCHANGED <<powerStatus, jobs, unit, unseen>>
       \/ /\ m.member = "Set"
          /\ powerState' = Announced(m.unit)
          /\ unit' = Answered(m.unit)
          /\ UNCHANGED <<powerStatus, jobs, changeTime, changeFile, stamped, onFile,
                         blind, unseen>>
       \/ /\ m.member = "PropertiesChanged"
          /\ DetermineStatusOfPower
          /\ UNCHANGED <<powerState, changeTime, changeFile, stamped, onFile, unit, blind>>
  /\ UNCHANGED <<alive, requested, poh, pohFile, lostPowerFile, pending, pgood,
                 inputs, changes, owed, faked, spent>>

\* A BMC reset is over when its service has looked at pgood and the poweron
\* target it faked is active again.
Recovery == (pending \cap {"reset"}) \cup IF onFile THEN {"faked"} ELSE {}

\* RequestedPowerTransition is written: the target is started, then the
\* property is set.  A call that fails ends in an error reply and no change.
RequestedPowerTransition ==
  /\ alive
  /\ spent.requests < MaxRequests
  /\ \E t \in UserTransitions :
       /\ jobs' = Append(jobs, t)
       /\ requested' = t
  /\ spent' = [spent EXCEPT !.requests = @ + 1]
  /\ UNCHANGED <<alive, powerState, powerStatus, changeTime, poh, flash, onFile,
                 lostPowerFile, bus, unit, pending, pgood, inputs, history>>

\* Mutant: the counter is persisted before it is set.
SerializePOHBefore(n) == pohFile' = Saved(poh)
\* pohCounter persists every new value.
SerializePOH(n) == pohFile' = Saved(n)

\* The hourly timer.
POHCallback ==
  /\ alive
  /\ powerState = "On"
  /\ poh < MaxHours
  /\ poh' = poh + 1
  /\ SerializePOH(poh + 1)
  /\ UNCHANGED <<alive, powerState, requested, powerStatus, changeTime, changeFile,
                 onFile, lostPowerFile, jobs, bus, unit, pending, pgood, inputs,
                 history, spent>>

\* The process dies, perhaps after it truncated a file and before it wrote it.
Dies ==
  /\ alive
  /\ spent.deaths < MaxDeaths
  /\ alive' = FALSE
  /\ bus' = <<>>
  /\ unit' = Unanswered
  /\ \/ UNCHANGED flash
     \/ changeFile' = TornFile /\ UNCHANGED pohFile
     \/ pohFile' = TornFile /\ UNCHANGED changeFile
  /\ spent' = [spent EXCEPT !.deaths = @ + 1]
  /\ UNCHANGED <<manager, onFile, lostPowerFile, jobs, pending, pgood, inputs, history>>
---------------------------------------------------------------------------
\* systemd installs a start job for u and stops the other target.
Other(u) == CHOOSE v \in Units : v # u
StartUnit(u) ==
  /\ unit' = [v \in Units |-> IF v # u THEN "inactive"
                              ELSE IF unit[u] = "inactive" THEN "queued" ELSE unit[u]]
  /\ bus' = Emitted((IF unit[Other(u)] # "inactive" THEN <<JobRemoved(Other(u))>> ELSE <<>>)
                      \o IF unit[u] = "active" THEN <<JobRemoved(u)>> ELSE <<>>)

\* systemd takes the oldest call.  The hard-poweroff target pulls in poweroff,
\* powercycle turns off and later on, blackout only conflicts with poweron,
\* auto power restore may want the chassis on unless it is being recovered.
\* A power off ends the recovery: reset-chassis-running conflicts with it.
SystemdTakes ==
  /\ jobs # <<>>
  /\ Len(bus) < MaxSignals
  /\ jobs' = Tail(jobs)
  /\ LET job == Head(jobs) IN
       \/ job = "On" /\ StartUnit("poweron") /\ pending' = pending \ {"cycle"}
       \/ job = "Off" /\ StartUnit("poweroff") /\ pending' = {}
       \/ job = "PowerCycle" /\ StartUnit("poweroff") /\ pending' = {"cycle"}
       \/ /\ job = "blackout"
          /\ unit' = [unit EXCEPT !["poweron"] = "inactive"]
          /\ bus' = Emitted(IF unit["poweron"] # "inactive"
                            THEN <<JobRemoved("poweron")>> ELSE <<>>)
          /\ UNCHANGED pending
       \/ job = "apr" /\ Recovery = {} /\ StartUnit("poweron") /\ UNCHANGED pending
       \/ job = "apr" /\ UNCHANGED <<unit, bus, pending>>
  /\ UNCHANGED <<alive, manager, flash, onFile, lostPowerFile, pgood, inputs,
                 history, spent>>

\* The second half of a power cycle.
CyclesOn ==
  /\ "cycle" \in pending
  /\ unit["poweroff"] = "active"
  /\ Len(bus) < MaxSignals
  /\ StartUnit("poweron")
  /\ pending' = pending \ {"cycle"}
  /\ UNCHANGED <<alive, manager, flash, onFile, lostPowerFile, jobs, pgood, inputs,
                 history, spent>>

\* After a BMC reset phosphor-reset-chassis-running looks at pgood, leaves the
\* file and phosphor-reset-chassis-on starts the poweron target again.
ResetChassisRunning ==
  /\ "reset" \in pending
  /\ Len(bus) < MaxSignals
  /\ pending' = pending \ {"reset"}
  /\ onFile' = pgood
  /\ IF pgood THEN StartUnit("poweron") ELSE UNCHANGED <<unit, bus>>
  /\ UNCHANGED <<alive, manager, flash, lostPowerFile, jobs, pgood, inputs, history, spent>>

\* phosphor-set-chassis-transition-to-{on,off}: waits for the manager and for
\* its answer.  The one for on is skipped while the file is there.
AnnounceTransition(u) ==
  /\ unit[u] = "queued"
  /\ alive
  /\ Len(bus) < MaxSignals
  /\ IF u = "poweron" /\ onFile
     THEN unit' = [unit EXCEPT ![u] = "starting"] /\ UNCHANGED bus
     ELSE unit' = [unit EXCEPT ![u] = "announcing"] /\ bus' = Append(bus, Write(u))
  /\ UNCHANGED <<alive, manager, flash, onFile, lostPowerFile, jobs, pending, pgood,
                 inputs, history, spent>>

PowerBecomes(p) ==
  /\ pgood' = p
  /\ changes' = IF p = pgood THEN changes ELSE changes + 1

\* A stamp is worth as much as the power it was for and the file it is in.
StampStands == stamped' = (stamped /\ pgood' = pgood /\ changeFile' = changeFile)

\* obmc-power-{start,stop} switch the power; start is skipped with the file.
SwitchesPower(u) ==
  /\ unit[u] = "starting"
  /\ unit' = [unit EXCEPT ![u] = "switched"]
  /\ IF u = "poweron" /\ onFile
     THEN faked' = ~pgood /\ UNCHANGED <<pgood, changes>>
     ELSE faked' = FALSE /\ PowerBecomes(u = "poweron")
  /\ UNCHANGED <<alive, manager, flash, onFile, lostPowerFile, jobs, bus, pending,
                 inputs, owed, blind, unseen, spent>>
  /\ StampStands

Reached(u) ==
  /\ unit[u] = "switched"
  /\ Len(bus) < MaxSignals
  /\ unit' = [unit EXCEPT ![u] = "active"]
  /\ bus' = Emitted(<<JobRemoved(u)>>)
  /\ UNCHANGED <<alive, manager, flash, onFile, lostPowerFile, jobs, pending, pgood,
                 inputs, history, spent>>

\* A service of poweron fails: OnFailure= starts the poweroff target.
PowerOnFails ==
  /\ spent.failures < MaxFailures
  /\ unit["poweron"] = "starting"
  /\ Len(bus) < MaxSignals
  /\ unit' = [poweron |-> "inactive", poweroff |-> "queued"]
  /\ bus' = Emitted(<<JobRemoved("poweron")>>)
  /\ pending' = pending \ {"reset"}
  /\ spent' = [spent EXCEPT !.failures = @ + 1]
  /\ UNCHANGED <<alive, manager, flash, onFile, lostPowerFile, jobs, pgood,
                 inputs, history>>

\* The properties of the UPS and of the chassis' own supplies are watched; one
\* that appears or disappears, and a supply of another chassis, is not.
Watched(i) == bus' = Emitted(<<InputSignal(i)>>) /\ UNCHANGED unseen
NotWatched == UNCHANGED bus /\ unseen' = TRUE

InputChanges ==
  /\ spent.inputs < MaxInputs
  /\ Len(bus) < MaxSignals
  /\ \/ /\ \E u \in {"none", "charged", "low"} \ {ups} :
             /\ ups' = u
             /\ Watched("ups") \/ ("none" \in {u, ups} /\ NotWatched)
        /\ UNCHANGED faulty
     \/ /\ \E p \in PSUs \cup OtherPSUs :
             /\ faulty' = IF p \in faulty THEN faulty \ {p} ELSE faulty \cup {p}
             /\ (p \in PSUs /\ Watched("psu")) \/ NotWatched
        /\ UNCHANGED ups
  /\ spent' = [spent EXCEPT !.inputs = @ + 1]
  /\ UNCHANGED <<alive, manager, flash, onFile, lostPowerFile, jobs, unit, pending,
                 pgood, changes, stamped, owed, blind, faked>>

\* Nothing is under way: every job done, every signal handled.
Settled ==
  /\ alive /\ bus = <<>> /\ jobs = <<>> /\ pending = {}
  /\ \A u \in Units : unit[u] \in {"inactive", "active"}

\* The write that is under way when the BMC goes down leaves a truncated file:
\* that of the change time, in the handler of a completion, or the counter.
WritesChangeTime ==
  \E u \in Units : /\ bus # <<>> /\ Head(bus) = JobRemoved(u)
                   /\ unit[u] = "active" /\ ~Knows(CompletedState(u))
WriteIsCut ==
  \/ alive /\ WritesChangeTime /\ changeFile' = TornFile /\ UNCHANGED pohFile
  \/ alive /\ powerState = "On" /\ pohFile' = TornFile /\ UNCHANGED changeFile

\* The BMC goes down; /run and systemd's units do not survive it.
BMCGoesDown ==
  /\ alive' = FALSE
  /\ bus' = <<>> /\ jobs' = <<>>
  /\ unit' = [u \in Units |-> "inactive"]
  /\ onFile' = FALSE /\ lostPowerFile' = FALSE
  /\ pending' = {"reset"}
  /\ faked' = FALSE
  /\ WriteIsCut \/ UNCHANGED flash
  /\ UNCHANGED <<manager, inputs, blind, unseen>>

BMCResets ==
  /\ spent.resets < MaxResets
  /\ BMCGoesDown
  /\ spent' = [spent EXCEPT !.resets = @ + 1]
  /\ UNCHANGED <<pgood, changes, owed>>
  /\ StampStands

\* A loss of AC takes the BMC and the chassis down.  It has to be reported
\* when the chassis was settled On and the process has not died before.
ACIsLost ==
  /\ spent.losses < MaxLosses
  /\ BMCGoesDown
  /\ PowerBecomes(FALSE)
  /\ owed' = (owed \/ (Settled /\ powerState = "On" /\ spent.deaths = 0))
  /\ spent' = [spent EXCEPT !.losses = @ + 1]
  /\ StampStands
---------------------------------------------------------------------------
\* The first boot of a BMC whose chassis is off; nothing was saved yet.
Init ==
  /\ alive = FALSE
  /\ powerState = "Off" /\ requested = "Off" /\ powerStatus = "Good"
  /\ changeTime = 0 /\ poh = 0
  /\ changeFile = NoFile /\ pohFile = NoFile
  /\ onFile = FALSE /\ lostPowerFile = FALSE
  /\ jobs = <<>> /\ bus = <<>>
  /\ unit = [u \in Units |-> "inactive"]
  /\ pending = {"reset"}
  /\ pgood = FALSE
  /\ ups = "none" /\ faulty = {}
  /\ changes = 0 /\ stamped = FALSE /\ owed = FALSE
  /\ blind = FALSE /\ faked = FALSE /\ unseen = FALSE
  /\ spent = [requests |-> 0, deaths |-> 0, resets |-> 0, losses |-> 0,
              failures |-> 0, unread |-> 0, inputs |-> 0]

Systemd ==
  \/ SystemdTakes \/ CyclesOn \/ ResetChassisRunning \/ PowerOnFails
  \/ \E u \in Units : AnnounceTransition(u) \/ SwitchesPower(u) \/ Reached(u)

Next ==
  \/ Start \/ Handle \/ RequestedPowerTransition \/ POHCallback \/ Dies
  \/ Systemd \/ InputChanges \/ BMCResets \/ ACIsLost

Spec == Init /\ [][Next]_vars
---------------------------------------------------------------------------
Messages ==
  [member : {"JobRemoved", "Set"}, unit : Units]
  \cup [member : {"PropertiesChanged"}, unit : {"ups", "psu"}]

\* The type of the state.  The code: the members of class Chassis and the D-Bus
\* properties they implement.
TypeOK ==
  /\ alive \in BOOLEAN /\ onFile \in BOOLEAN /\ lostPowerFile \in BOOLEAN
  /\ {pgood, stamped, owed, blind, faked, unseen} \subseteq BOOLEAN
  /\ powerState \in PowerStates
  /\ requested \in {"On", "Off", "PowerCycle"}
  /\ powerStatus \in {"Good", "BrownOut", "UninterruptiblePowerSupply"}
  /\ changeTime \in Nat /\ changes \in Nat /\ poh \in Nat
  /\ changeFile \in {NoFile, TornFile} \cup
       [kind : {"saved"}, value : [time : Nat, state : {"On", "Off"}]]
  /\ pohFile \in {NoFile, TornFile} \cup [kind : {"saved"}, value : Nat]
  /\ unit \in [Units -> UnitStates]
  /\ pending \subseteq {"reset", "cycle"}
  /\ ups \in {"none", "charged", "low"} /\ faulty \subseteq PSUs \cup OtherPSUs
  /\ bus \in Seq(Messages)
  /\ jobs \in Seq(UserTransitions \cup {"blackout", "apr"})
  /\ spent \in [{"requests", "deaths", "resets", "losses", "failures", "unread",
                  "inputs"} -> Nat]

\* Once everything has settled, CurrentPowerState is what pgood says, whatever
\* jobs replaced each other, whichever signals were lost while the process was
\* down, and after a BMC reset during which the poweron target is only faked.
\* Only a process that died may leave a transition unfinished: it takes an
\* ordered power off for a blackout, whose target stops a power on under way.
\* Two more cases are excepted, in which the code does show a wrong state for
\* good: poweron was faked for a chassis whose power went off during a recovery
\* (only a completed poweron removes the file), and the manager started without
\* pgood and has heard of no target since.
StateFollowsPower ==
  Settled /\ ~faked /\ ~blind /\ (spent.deaths = 0 \/ \E u \in Units : unit[u] = "active")
    => powerState = PowerSays

\* No signal of a power input is waiting: CurrentPowerStatus is that of the
\* UPS and the PSUs, restarts and recoveries in between included, unless an
\* input changed that the manager does not watch and none that it does since.
StatusIsCurrent ==
  alive /\ ~unseen /\ (\A i \in DOMAIN bus : bus[i].member # "PropertiesChanged")
    => /\ (powerStatus = "UninterruptiblePowerSupply") = (ups = "low")
       /\ (powerStatus = "Good") = (ups # "low" /\ faulty = {})

\* A loss of AC that hit a chassis that was On is noticed by the first start
\* after it, if that one can read pgood, whatever BMC resets, power cycles and
\* losses came before.
LossIsReported == alive => ~owed

\* LastStateChangeTime moves only with the power: a BMC reset that finds the
\* chassis on and brings the target up again does not move it, nor does a user
\* who asks for power meanwhile.  Only a poweron that is faked for a chassis
\* without power moves it, and a death that costs the file.
MovesWithPower ==
  [][stamped /\ changeTime' # changeTime => spent.deaths > 0 \/ faked]_vars

\* Flash holds what D-Bus shows: a restart brings back the power on hours and
\* the change time, and a file torn by a death costs only itself.
FilesStand == alive => changeTime = RestoredTime /\ poh = RestoredPOH
=============================================================================
