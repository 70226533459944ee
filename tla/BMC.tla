-------------------------------- MODULE BMC --------------------------------
(***************************************************************************)
(* The BMC state manager (bmc_state_manager.cpp) and what it depends on:    *)
(* the two targets it follows, the reboot it asks systemd for, the clock,   *)
(* deaths of the process and resets of the BMC.                             *)
(***************************************************************************)
EXTENDS Naturals, Sequences

CONSTANTS CheckFwUpdate,     \* check-fwupdate-before-do-transition
          Boots,             \* what the hardware may say of the last reset
          Inputs,            \* what else may happen: "guard", "update", "clock"
          MaxRequests, MaxDeaths, MaxResets, MaxFailures, MaxMisreads,
                             \* bounds on the environment
          MaxSignals         \* bound: signals the manager has not handled

Units == {"quiesce", "standby"}       \* obmcQuiesceTarget, obmcStandbyTarget
Transitions == {"None", "Reboot", "HardReboot"}

ASSUME BMCAssumption ==
  /\ Inputs \subseteq {"guard", "update", "clock"}
  /\ Boots \subseteq [reason : {"none", "EXTERN1", "CARDRESET", "several"},
                      pinhole : BOOLEAN]

VARIABLES
  phase,          \* of the process: "down", "listening", "unquiesced", "up"
  currentState,   \* CurrentBMCState
  requested,      \* RequestedBMCTransition
  watching,       \* stateSignal is not reset
  syncWatch,      \* timeSyncSignal is not reset
  subscribed,     \* systemd sends its signals for the sake of this manager
  misread,        \* history: a unit that is active was read as ""
  rebootCause,    \* LastRebootCause
  rebootTime,     \* LastRebootTime, as the clock it was computed with
  inbox,          \* signals the manager has not handled, oldest first
  unit,           \* ActiveState of the targets
  shutdown,       \* "no"; "ordered": reboot.target; "hard": Manager.Reboot
  guarded,        \* obmcutil bmcrebootoff: reboot.target cannot be started
  updating,       \* firmware is being updated
  clock,          \* "unset", "set", then "synced": time-sync.target is active
  boot,           \* what the hardware says of the last reset
  spent           \* what the environment has used of its bounds

manager == <<currentState, requested, watching, syncWatch, subscribed, misread,
             rebootCause, rebootTime>>
systemd == <<unit, shutdown, guarded>>
world == <<updating, clock, boot>>
vars == <<phase, manager, inbox, systemd, world, spent>>

Init ==
  /\ phase = "down"
  /\ currentState = "NotReady" /\ requested = "None"
  /\ watching = FALSE /\ syncWatch = FALSE
  /\ subscribed = FALSE /\ misread = FALSE
  /\ rebootCause = "Unknown" /\ rebootTime = "none"
  /\ inbox = <<>>
  /\ unit = [u \in Units |-> IF u = "standby" THEN "starting" ELSE "inactive"]
  /\ shutdown = "no" /\ guarded = FALSE
  /\ updating = FALSE /\ clock = "unset" /\ boot \in Boots
  /\ spent = [requests |-> 0, deaths |-> 0, resets |-> 0, failures |-> 0,
              misreads |-> 0]

Spend(what, max) == spent[what] < max /\ spent' = [spent EXCEPT ![what] = @ + 1]
---------------------------------------------------------------------------
(* systemd and the clock.                                                  *)

JobRemoved(u, result) == [unit |-> u, result |-> result]
Synced == [unit |-> "time-sync", result |-> "done"]

\* A signal is queued for a manager that has a match for it.  Of a manager that
\* is not subscribed, systemd sends it for the sake of another client or not.
Heard(m) == IF m = Synced THEN syncWatch ELSE watching

Broadcast(m) ==
  \/ Heard(m) /\ Len(inbox) < MaxSignals /\ inbox' = Append(inbox, m)
  \/ ~(Heard(m) /\ subscribed) /\ UNCHANGED inbox

Completed(u) ==
  /\ unit[u] = "starting" /\ shutdown = "no"
  /\ unit' = [unit EXCEPT ![u] = "active"]
  /\ Broadcast(JobRemoved(u, "done"))
  /\ UNCHANGED <<phase, manager, shutdown, guarded, world, spent>>

\* A dependency of multi-user.target failed, or its start timed out.
StandbyFails ==
  /\ unit["standby"] = "starting" /\ shutdown = "no"
  /\ unit' = [unit EXCEPT !["standby"] = "inactive"]
  /\ Broadcast(JobRemoved("standby", "failed"))
  /\ Spend("failures", MaxFailures)
  /\ UNCHANGED <<phase, manager, shutdown, guarded, world>>

\* A target that is active already completes at once, with another signal.
StartQuiesceTarget ==
  IF shutdown # "no" THEN UNCHANGED <<unit, inbox>>       \* refused
  ELSE IF unit["quiesce"] = "active"
       THEN Broadcast(JobRemoved("quiesce", "done")) /\ UNCHANGED unit
       ELSE unit' = [unit EXCEPT !["quiesce"] = "starting"] /\ UNCHANGED inbox

\* The reboot stops what runs, job by job, the managers with the rest.
Stopped(u) ==
  /\ shutdown = "ordered" /\ unit[u] # "inactive"
  /\ unit' = [unit EXCEPT ![u] = "inactive"]
  /\ Broadcast(JobRemoved(u, IF unit[u] = "active" THEN "done" ELSE "canceled"))
  /\ UNCHANGED <<phase, manager, shutdown, guarded, world, spent>>

\* systemctl reboot, by phosphor-bmc-quiesce-reboot.service or by hand.
RebootDirectly ==
  /\ shutdown = "no" /\ ~guarded
  /\ shutdown' = "ordered"
  /\ Spend("requests", MaxRequests)
  /\ UNCHANGED <<phase, manager, inbox, unit, guarded, world>>

GuardReboots ==
  /\ "guard" \in Inputs /\ shutdown = "no"
  /\ guarded' = ~guarded
  /\ UNCHANGED <<phase, manager, inbox, unit, shutdown, world, spent>>

FirmwareUpdate ==
  /\ "update" \in Inputs
  /\ updating' = ~updating
  /\ UNCHANGED <<phase, manager, inbox, systemd, clock, boot, spent>>

ClockSet ==
  /\ "clock" \in Inputs
  /\ clock = "unset" /\ clock' = "set"
  /\ UNCHANGED <<phase, manager, inbox, systemd, updating, boot, spent>>

TimeSynced ==
  /\ clock = "set" /\ shutdown = "no" /\ clock' = "synced"
  /\ Broadcast(Synced)
  /\ UNCHANGED <<phase, manager, systemd, updating, boot, spent>>
---------------------------------------------------------------------------
(* Construction.                                                           *)

\* Both matches and the subscription come before anything is read.
Start ==
  /\ phase = "down" /\ shutdown # "ordered"
  /\ phase' = "listening"
  /\ currentState' = "NotReady" /\ requested' = "None"
  /\ watching' = TRUE /\ syncWatch' = TRUE
  /\ subscribed' = TRUE /\ misread' = FALSE
  /\ rebootCause' = "Unknown" /\ rebootTime' = "none"
  /\ inbox' = <<>>
  /\ UNCHANGED <<systemd, world, spent>>

\* getUnitState(u) = activeState; a call that fails gives "", which is not.
ReadsActive(u) == unit[u] = "active" /\ UNCHANGED <<misread, spent>>
ReadsOther(u) ==
  \/ unit[u] # "active" /\ UNCHANGED <<misread, spent>>
  \/ unit[u] = "active" /\ misread' = TRUE /\ Spend("misreads", MaxMisreads)

\* bmcIsQuiesced: Unsubscribe as well, which ends the signals of time-sync too.
BmcIsQuiesced ==
  currentState' = "Quiesced" /\ watching' = FALSE /\ subscribed' = FALSE

\* Mutant: what the hardware says is shown as it is.
RebootReason == boot.reason

\* discoverLastRebootCause: two reasons at once are none of the known ones.
LastRebootCause ==
  CASE boot.reason = "EXTERN1" -> "Software"
    [] boot.reason = "CARDRESET" -> "Watchdog"
    [] OTHER -> IF boot.pinhole THEN "PinholeReset" ELSE "POR"

\* updateLastRebootTime.
TheClock == IF clock = "unset" THEN "unset" ELSE "set"

\* The constructor ends and the name is claimed.
Appears ==
  /\ phase' = "up"
  /\ rebootCause' = LastRebootCause
  /\ rebootTime' = TheClock

\* discoverInitialState reads the quiesce target ...
DiscoverQuiesced ==
  /\ phase = "listening"
  /\ \/ ReadsActive("quiesce") /\ BmcIsQuiesced /\ Appears
     \/ /\ ReadsOther("quiesce")
        /\ phase' = "unquiesced"
        /\ UNCHANGED <<currentState, watching, subscribed, rebootCause, rebootTime>>
  /\ UNCHANGED <<requested, syncWatch, inbox, systemd, world>>

\* Mutant: what was signalled during the construction is discarded.
DiscoverStandbyAfresh ==
  /\ phase = "unquiesced"
  /\ \/ ReadsActive("standby") /\ currentState' = "Ready"
     \/ ReadsOther("standby") /\ currentState' = "NotReady"
  /\ Appears
  /\ inbox' = <<>>
  /\ UNCHANGED <<requested, watching, syncWatch, subscribed, systemd, world>>

\* ... and then the standby target.
DiscoverStandby ==
  /\ phase = "unquiesced"
  /\ \/ ReadsActive("standby") /\ currentState' = "Ready"
     \/ ReadsOther("standby") /\ currentState' = "NotReady"
  /\ Appears
  /\ UNCHANGED <<requested, watching, syncWatch, subscribed, inbox, systemd, world>>
---------------------------------------------------------------------------
(* Signals and requests.                                                   *)

\* Mutant: the time is left as it was computed at the start.
TimeSyncIgnored == syncWatch' = FALSE /\ UNCHANGED rebootTime

\* The match on time-sync.target's properties, dropped after its first use.
TimeSyncHandled == syncWatch' = FALSE /\ rebootTime' = TheClock

\* bmcStateChange: a job that is done may be one that stopped the target.
Done(m, u) == watching /\ m = JobRemoved(u, "done")
ToQuiesced(m) == Done(m, "quiesce") /\ ReadsActive("quiesce")
ToReady(m) == Done(m, "standby") /\ ReadsActive("standby")
NotTaken(m) ==
  IF Done(m, "quiesce") THEN ReadsOther("quiesce")
  ELSE IF Done(m, "standby") THEN ReadsOther("standby")
  ELSE UNCHANGED <<misread, spent>>

BmcStateChange(m) ==
  \/ ToQuiesced(m) /\ BmcIsQuiesced
  \/ ToReady(m) /\ currentState' = "Ready" /\ UNCHANGED <<watching, subscribed>>
  \/ NotTaken(m) /\ UNCHANGED <<currentState, watching, subscribed>>

HandleSignal ==
  /\ phase = "up" /\ inbox # <<>>
  /\ inbox' = Tail(inbox)
  /\ LET m == Head(inbox) IN
     IF m = Synced
     THEN /\ IF syncWatch THEN TimeSyncHandled
             ELSE UNCHANGED <<syncWatch, rebootTime>>
          /\ UNCHANGED <<currentState, watching, subscribed, misread, spent>>
     ELSE BmcStateChange(m) /\ UNCHANGED <<syncWatch, rebootTime>>
  /\ UNCHANGED <<phase, requested, rebootCause, systemd, world>>

\* Mutant: the targets are watched on.
AnnounceOnly == currentState' = "NotReady" /\ UNCHANGED watching

\* NotReady before systemd is called, and nothing that follows is watched.
AnnounceReboot == currentState' = "NotReady" /\ watching' = FALSE

\* executeTransition; a call that systemd refuses or that fails is only logged.
ExecuteTransition(t) ==
  CASE t = "HardReboot" -> AnnounceReboot /\ shutdown' \in {shutdown, "hard"}
    [] t = "Reboot" -> AnnounceReboot
         /\ shutdown' = IF guarded \/ shutdown = "hard" THEN shutdown ELSE "ordered"
    [] OTHER -> UNCHANGED <<currentState, watching, shutdown>>

RequestedBMCTransition(t) ==
  /\ phase = "up"
  /\ ~(CheckFwUpdate /\ updating /\ t = "Reboot")
  /\ ExecuteTransition(t)
  /\ requested' = t
  /\ Spend("requests", MaxRequests)
  /\ UNCHANGED <<phase, syncWatch, subscribed, misread, rebootCause, rebootTime,
                 inbox, unit, guarded, world>>

\* The process dies, of itself or stopped by the reboot.
Die ==
  /\ phase # "down"
  /\ phase' = "down" /\ inbox' = <<>>
  /\ watching' = FALSE /\ syncWatch' = FALSE /\ subscribed' = FALSE
  /\ IF shutdown = "ordered" THEN UNCHANGED spent ELSE Spend("deaths", MaxDeaths)
  /\ UNCHANGED <<currentState, requested, misread, rebootCause, rebootTime, systemd,
                 world>>

\* The BMC starts again: a reboot carried out, or power, watchdog, pinhole.
Reset ==
  /\ phase' = "down" /\ inbox' = <<>>
  /\ watching' = FALSE /\ syncWatch' = FALSE /\ subscribed' = FALSE
  /\ unit' = [u \in Units |-> IF u = "standby" THEN "starting" ELSE "inactive"]
  /\ shutdown' = "no" /\ guarded' = FALSE
  /\ updating' = FALSE /\ clock' = "unset" /\ boot' \in Boots
  /\ UNCHANGED <<currentState, requested, misread, rebootCause, rebootTime>>

Rebooted ==
  /\ \/ shutdown = "hard"
     \/ shutdown = "ordered" /\ \A u \in Units : unit[u] = "inactive"
  /\ Reset /\ UNCHANGED spent

ResetByHardware == Reset /\ Spend("resets", MaxResets)
---------------------------------------------------------------------------
Systemd == (\E u \in Units : Completed(u) \/ Stopped(u)) \/ StandbyFails

Environment ==
  \/ RebootDirectly \/ GuardReboots \/ FirmwareUpdate \/ ClockSet \/ TimeSynced

Manager ==
  \/ Start \/ DiscoverQuiesced \/ DiscoverStandby \/ HandleSignal \/ Die
  \/ \E t \in Transitions : RequestedBMCTransition(t)

\* Somebody, the target monitor for one, starts the quiesce target.
QuiesceStarted ==
  StartQuiesceTarget /\ UNCHANGED <<phase, manager, shutdown, guarded, world, spent>>

Next ==
  \/ Systemd \/ Environment \/ Manager \/ QuiesceStarted
  \/ Rebooted \/ ResetByHardware

Spec == Init /\ [][Next]_vars
---------------------------------------------------------------------------
(* Properties.                                                             *)

Signals == [unit : Units, result : {"done", "failed", "canceled"}] \union {Synced}

\* The type of the state.  The code: the members of class BMC and the D-Bus
\* properties they implement.
TypeOK ==
  /\ phase \in {"down", "listening", "unquiesced", "up"}
  /\ currentState \in {"NotReady", "Ready", "Quiesced"}
  /\ requested \in Transitions
  /\ watching \in BOOLEAN /\ syncWatch \in BOOLEAN
  /\ subscribed \in BOOLEAN /\ misread \in BOOLEAN
  /\ rebootCause \in {"Unknown", "Software", "Watchdog", "PinholeReset", "POR"}
  /\ rebootTime \in {"none", "unset", "set"}
  /\ inbox \in Seq(Signals)
  /\ unit \in [Units -> {"inactive", "starting", "active"}]
  /\ shutdown \in {"no", "ordered", "hard"} /\ guarded \in BOOLEAN
  /\ updating \in BOOLEAN /\ clock \in {"unset", "set", "synced"} /\ boot \in Boots
  /\ spent \in [{"requests", "deaths", "resets", "failures", "misreads"} -> Nat]

\* What a client sees, see Readiness.
Life ==
  IF phase # "up" THEN "Down"
  ELSE IF currentState = "NotReady" /\ ~watching THEN "Rebooting" ELSE currentState

Promise == INSTANCE Readiness WITH life <- Life

\* From one reading to the next CurrentBMCState moves only as Readiness says:
\* once a reboot is announced or the BMC is Quiesced, no signal that was still
\* queued and no late target brings back Ready.  The code: stateSignal.reset in
\* bmcIsQuiesced and executeTransition.
KeepsPromise == Promise!LifeSpec

Unread(u) == \E i \in DOMAIN inbox : inbox[i].unit = u

\* Of a manager that is up, has announced no reboot and has no signal of the
\* targets to handle, CurrentBMCState is what the targets say, in whatever
\* order they completed around its start, unless one of its own reads failed.
\* The code: the matches come before the reads, and the targets are read again
\* when their jobs are done.
StateIsCurrent ==
  phase = "up" /\ Life # "Rebooting" /\ shutdown = "no" /\ ~misread
  /\ ~Unread("quiesce") /\ ~Unread("standby")
  => currentState = IF unit["quiesce"] = "active" THEN "Quiesced"
                    ELSE IF unit["standby"] = "active" THEN "Ready" ELSE "NotReady"

\* Once the clock is synchronised and the manager knows, LastRebootTime was
\* computed with the right clock, whether it started before or after; only a
\* BMC that was Quiesced first may not hear of it.  The code: timeSyncSignal,
\* the computation in the constructor and the Unsubscribe of bmcIsQuiesced.
RebootTimeIsRight ==
  phase = "up" /\ clock = "synced" /\ subscribed /\ ~Unread("time-sync")
    => rebootTime = "set"
============================================================================
