--------------------------- MODULE TargetMonitor ---------------------------
(***************************************************************************)
(* The systemd target monitor (systemd_target_signal.cpp): failed jobs of   *)
(* the targets and services it is configured with are logged, and a failed  *)
(* service has the BMC quiesced.  A service of the immediate list does so   *)
(* as soon as it fails, although systemd will restart it.                   *)
(***************************************************************************)
EXTENDS Naturals, Sequences

CONSTANTS Targets,           \* targetData
          Services,          \* serviceData
          Immediate,         \* immediateQuiesceServiceData
          ErrorsToMonitor,   \* the results a target is monitored for
          MaxMonDeaths, MaxUnitFailures, MaxMisses, \* environment bounds
          MaxMonSignals      \* bound: signals the monitor has not handled

Monitored == Targets \union Services \union Immediate
Results == {"failed", "timeout", "dependency", "canceled"}

NoService == "none"     \* the name of no unit

ASSUME MonitorAssumption ==
  /\ ErrorsToMonitor \in [Targets -> SUBSET Results]
  /\ NoService \notin Monitored

VARIABLES
  monPhase,     \* "down", "waiting" for systemd, "loading", "up"
  onBus,        \* systemd is on D-Bus
  todo,         \* immediate services that are not yet set up
  unread,       \* the one whose match is installed but whose state is not read
  matched,      \* immediateQuiesceMatches
  missed,       \* history: services this monitor failed to set up
  monInbox,     \* signals the monitor has not handled, oldest first
  quiesceCall,  \* a call that starts the quiesce target is on its way
  serviceState, \* ActiveState of the immediate services
  failures,     \* history: how often a unit failed in a way that is monitored
  logged,       \* history: errors logged for a unit
  monStarts,    \* history: how often the monitor subscribed
  monSpent      \* what the environment has used of its bounds

setUp == <<todo, unread, matched, missed, monStarts>>
monVars == <<monPhase, onBus, setUp, monInbox, quiesceCall, serviceState,
             failures, logged, monSpent>>

MonInit ==
  /\ monPhase = "down" /\ onBus = FALSE
  /\ todo = {} /\ unread = NoService /\ matched = {} /\ missed = {}
  /\ monInbox = <<>> /\ quiesceCall = FALSE
  /\ serviceState = [s \in Immediate |-> "running"]
  /\ failures = [u \in Monitored |-> 0] /\ logged = failures
  /\ monStarts = 0
  /\ monSpent = [deaths |-> 0, misses |-> 0, failures |-> 0]

MonSpend(what, max) ==
  monSpent[what] < max /\ monSpent' = [monSpent EXCEPT ![what] = @ + 1]
---------------------------------------------------------------------------
(* The units.                                                              *)

Removed(u, result) == [kind |-> "JobRemoved", unit |-> u, result |-> result]
Changed(s, state) == [kind |-> "PropertiesChanged", unit |-> s, result |-> state]

\* The match on JobRemoved is there from the start; jobs that are done are
\* dropped by systemdUnitChange and not queued here.  Of a monitor that has not
\* subscribed, systemd sends its signals for the sake of another client or not.
MonHear(m) ==
  \/ /\ monPhase # "down" /\ (m.kind = "JobRemoved" \/ m.unit \in matched)
     /\ Len(monInbox) < MaxMonSignals /\ monInbox' = Append(monInbox, m)
  \/ /\ \/ monPhase \in {"down", "waiting"}
        \/ m.kind = "PropertiesChanged" /\ m.unit \notin matched
     /\ UNCHANGED monInbox

\* The jobs that processError takes for an error.
Watched(u, result) ==
  \/ u \in Targets /\ result \in ErrorsToMonitor[u]
  \/ u \in Services /\ result = "failed"

Failed(u, watched) ==
  failures' = IF watched THEN [failures EXCEPT ![u] = @ + 1] ELSE failures

\* A start job ends otherwise than done.
JobFails(u, result) ==
  /\ onBus
  /\ MonHear(Removed(u, result))
  /\ Failed(u, Watched(u, result))
  /\ MonSpend("failures", MaxUnitFailures)
  /\ UNCHANGED <<monPhase, onBus, setUp, quiesceCall, serviceState, logged>>

\* A service of the immediate list fails, and may be restarted.
ServiceFails(s) ==
  /\ serviceState[s] = "running"
  /\ serviceState' = [serviceState EXCEPT ![s] = "failed"]
  /\ MonHear(Changed(s, "failed"))
  /\ Failed(s, TRUE)
  /\ MonSpend("failures", MaxUnitFailures)
  /\ UNCHANGED <<monPhase, onBus, setUp, quiesceCall, logged>>

ServiceRestarts(s) ==
  /\ serviceState[s] = "failed"
  /\ serviceState' = [serviceState EXCEPT ![s] = "running"]
  /\ MonHear(Changed(s, "active"))
  /\ UNCHANGED <<monPhase, onBus, setUp, quiesceCall, failures, logged, monSpent>>
---------------------------------------------------------------------------
(* subscribeToSystemdSignals.                                              *)

\* systemd is there: NameOwnerChanged is matched no longer, so this happens once
\* in a process, and initImmediateQuiesceMonitoring begins.
Subscribed ==
  /\ monPhase' = "loading" /\ todo' = Immediate /\ monStarts' = monStarts + 1
  /\ UNCHANGED <<unread, matched, missed>>

\* It is not: NameOwnerChanged will tell.
MonStart ==
  /\ monPhase = "down"
  /\ IF onBus THEN Subscribed ELSE monPhase' = "waiting" /\ UNCHANGED setUp
  /\ UNCHANGED <<onBus, monInbox, quiesceCall, serviceState, failures, logged,
                 monSpent>>

\* systemd claims its name ...
SystemdAppears ==
  /\ ~onBus /\ onBus' = TRUE
  /\ UNCHANGED <<monPhase, setUp, monInbox, quiesceCall, serviceState, failures,
                 logged, monSpent>>

\* ... and processNameChangeSignal handles that, before any later signal.
ProcessNameChange ==
  /\ monPhase = "waiting" /\ onBus
  /\ Subscribed
  /\ UNCHANGED <<onBus, monInbox, quiesceCall, serviceState, failures, logged,
                 monSpent>>

\* Mutant: a unit is read without a match on it.
LoadUnitUnmatched(s) ==
  /\ monPhase = "loading" /\ unread = NoService /\ s \in todo
  /\ todo' = todo \ {s} /\ unread' = s
  /\ UNCHANGED <<monPhase, onBus, matched, missed, monStarts, monInbox,
                 quiesceCall, serviceState, failures, logged, monSpent>>

\* LoadUnit, and the match on the unit's properties.  A unit that cannot be
\* loaded is skipped and never monitored.
LoadUnit(s) ==
  /\ monPhase = "loading" /\ unread = NoService /\ s \in todo
  /\ todo' = todo \ {s}
  /\ \/ unread' = s /\ matched' = matched \union {s} /\ UNCHANGED <<missed, monSpent>>
     \/ missed' = missed \union {s} /\ MonSpend("misses", MaxMisses)
        /\ UNCHANGED <<unread, matched>>
  /\ UNCHANGED <<monPhase, onBus, monStarts, monInbox, quiesceCall,
                 serviceState, failures, logged>>

\* What the monitor does about a unit: the error is logged and, if asked for,
\* the quiesce target started; neither call has a reply.
Report(u, quiesce) ==
  /\ logged' = [logged EXCEPT ![u] = @ + 1]
  /\ quiesceCall' = (quiesceCall \/ quiesce)

Nothing == UNCHANGED <<logged, quiesceCall>>

\* Mutant: a service that failed before its match was installed is not seen.
ReadActiveStateNever(s) == Nothing /\ UNCHANGED <<missed, monSpent>>

\* The state as it was when the match was already there; the read may fail.
ReadActiveState(s) ==
  \/ /\ IF serviceState[s] = "failed" THEN Report(s, TRUE) ELSE Nothing
     /\ UNCHANGED <<missed, monSpent>>
  \/ missed' = missed \union {s} /\ MonSpend("misses", MaxMisses) /\ Nothing

ReadState ==
  /\ unread # NoService
  /\ ReadActiveState(unread)
  /\ unread' = NoService
  /\ UNCHANGED <<monPhase, onBus, todo, matched, monStarts, monInbox,
                 serviceState, failures>>

\* The process loop begins.
SetUp ==
  /\ monPhase = "loading" /\ todo = {} /\ unread = NoService
  /\ monPhase' = "up"
  /\ UNCHANGED <<onBus, setUp, monInbox, quiesceCall, serviceState, failures,
                 logged, monSpent>>
---------------------------------------------------------------------------
\* processError, for a job that is not done.
ProcessError(u, result) ==
  IF u \in Targets /\ result \in ErrorsToMonitor[u] THEN Report(u, FALSE)
  ELSE IF u \in Services /\ result = "failed" THEN Report(u, TRUE) ELSE Nothing

\* Mutant: any change of the service is taken for a failure.
ProcessAnyStateChange(s, state) == Report(s, TRUE)

\* Mutant: the state is read again instead of taken from the signal.
ProcessStateNow(s, state) ==
  IF serviceState[s] = "failed" THEN Report(s, TRUE) ELSE Nothing

\* processImmediateQuiesceStateChange.
ProcessStateChange(s, state) ==
  IF state = "failed" THEN Report(s, TRUE) ELSE Nothing

MonHandle ==
  /\ monPhase = "up" /\ monInbox # <<>>
  /\ LET m == Head(monInbox) IN
     IF m.kind = "JobRemoved" THEN ProcessError(m.unit, m.result)
     ELSE ProcessStateChange(m.unit, m.result)
  /\ monInbox' = Tail(monInbox)
  /\ UNCHANGED <<monPhase, onBus, setUp, serviceState, failures, monSpent>>

\* The process and its matches are gone; a call it has sent is not.
MonGone ==
  /\ monPhase' = "down" /\ monInbox' = <<>>
  /\ todo' = {} /\ unread' = NoService /\ matched' = {} /\ missed' = {}

MonDie ==
  /\ monPhase # "down"
  /\ MonGone
  /\ MonSpend("deaths", MaxMonDeaths)
  /\ UNCHANGED <<onBus, monStarts, quiesceCall, serviceState, failures, logged>>

\* The BMC is reset: systemd and every service start afresh.
MonReset ==
  /\ MonGone
  /\ onBus' = FALSE /\ quiesceCall' = FALSE
  /\ serviceState' = [s \in Immediate |-> "running"]
  /\ UNCHANGED <<monStarts, failures, logged, monSpent>>

Monitor ==
  \/ MonStart \/ ProcessNameChange
  \/ (\E s \in Immediate : LoadUnit(s)) \/ ReadState \/ SetUp \/ MonHandle
---------------------------------------------------------------------------
(* Properties.                                                             *)

MonSignals ==
  [kind : {"JobRemoved"}, unit : Monitored \union {"standby"}, result : Results]
  \union [kind : {"PropertiesChanged"}, unit : Immediate,
          result : {"failed", "active"}]

\* The type of the state.  The code: the members of SystemdTargetLogging.
MonTypeOK ==
  /\ monPhase \in {"down", "waiting", "loading", "up"} /\ onBus \in BOOLEAN
  /\ todo \subseteq Immediate /\ matched \subseteq Immediate
  /\ missed \subseteq Immediate
  /\ unread \in matched \union {NoService}
  /\ monInbox \in Seq(MonSignals) /\ quiesceCall \in BOOLEAN
  /\ serviceState \in [Immediate -> {"running", "failed"}]
  /\ failures \in [Monitored -> Nat] /\ logged \in [Monitored -> Nat]
  /\ monStarts \in Nat
  /\ monSpent \in [{"deaths", "misses", "failures"} -> Nat]

\* A unit that never failed in a way it is monitored for has no error logged,
\* and one that did has no more than its failures, but for one at each start of
\* the monitor, which reads a failure of a service of the immediate list that
\* it, or the monitor before it, also has as a signal.  The code: the result and
\* the state that systemdUnitChange and processImmediateQuiesceStateChange look
\* at, and the match before the read in initImmediateQuiesceMonitoring.
LogsHaveFailures ==
  \A u \in Monitored :
    /\ logged[u] <= failures[u] + (IF u \in Immediate THEN monStarts ELSE 0)
    /\ failures[u] = 0 => logged[u] = 0
============================================================================
