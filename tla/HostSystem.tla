----------------------------- MODULE HostSystem -----------------------------
(***************************************************************************)
(* The host state manager closed by what surrounds it on one BMC: systemd  *)
(* with the host targets of target_files/, the services of service_files/  *)
(* that write CurrentHostState, the host-reboot script, a host that boots, *)
(* fails to boot or crashes, and users.  Host supplies the manager.        *)
(***************************************************************************)
EXTENDS Host, SequencesExt

CONSTANTS Surroundings,      \* the answers the manager may get, \subseteq Answers
          UserTransitions,   \* what users request
          BootOutcomes,      \* \subseteq {"up", "failed"}
          MaxRequests, MaxCrashes, MaxDeaths,   \* bounds on the environment
          MaxSignals         \* bound: signals the manager has not handled

ASSUME SystemAssumption ==
  /\ Surroundings \subseteq Answers /\ UserTransitions \subseteq Transitions
  /\ BootOutcomes \subseteq {"up", "failed"}

Units == {"host-stop", "host-startmin", "host-quiesce"}
\* A target with a start job is "queued" until its transition service writes
\* CurrentHostState, "announcing" until the manager has answered that write,
\* "starting" until its other services are done.
UnitStates == {"inactive", "queued", "announcing", "starting", "active"}

VARIABLES
  unit,       \* the targets
  bus,        \* the manager's D-Bus inbox: signals of systemd and writes of
              \* the transition services, in the order they were sent
  script,     \* host-reboot: where it is
  reading,    \* host-reboot: the AttemptsLeft it read
  allowance,  \* history: boots the script may still make, see Refill; it
              \* is not counted down further than below 0
  spent       \* what the environment has used of its bounds

systemVars == <<unit, bus, script, reading, allowance, spent>>
allVars == <<hostVars, systemVars>>

ScriptStates == {"idle", "waiting", "sleeping", "counted"}

\* Conflicts= of the three targets; systemd reads it both ways.
Conflicts(u, v) == "host-stop" \in {u, v} /\ u # v

JobNew(u) == [member |-> "JobNew", unit |-> u, result |-> "none"]
JobRemoved(u, r) == [member |-> "JobRemoved", unit |-> u, result |-> r]
Write(u) == [member |-> "Set", unit |-> u, result |-> "none"]

\* Signals reach a manager that runs; nobody keeps them for a later one.
Emitted(signals) == IF alive THEN bus \o signals ELSE bus

\* The units after a start job for u is installed in state s: the targets in
\* conflict are stopped, an active target stays active.
Stopped(u, s) == {v \in Units : Conflicts(u, v) /\ s[v] # "inactive"}
Installed(u, s) ==
  [v \in Units |-> IF v = u THEN IF s[u] = "active" THEN "active" ELSE "queued"
                   ELSE IF v \in Stopped(u, s) THEN "inactive" ELSE s[v]]
InstallSignals(u, s) ==
  <<JobNew(u)>>
    \o SetToSeq({JobRemoved(v, "done") : v \in Stopped(u, s)})
    \o IF s[u] = "active" THEN <<JobRemoved(u, "done")>> ELSE <<>>

StartUnit(u) ==
  /\ unit' = Installed(u, unit)
  /\ bus' = Emitted(InstallSignals(u, unit))

\* A refill of the manager's attempts allows as many boots again, and those
\* of the reboots under way, which were paid for before.
UnderWay == Cardinality({i \in DOMAIN jobs' : jobs'[i] = "host-reboot"})
              + IF script = "idle" THEN 0 ELSE 1
Refill == allowance' = attemptsLeft' + UnderWay

\* A reboot that the manager lets pass without an attempt.
Uncharged == allowance' = allowance + 1

\* A crash is charged only if the manager takes the host for running.
CrashPasses == Head(bus) = JobNew("host-crash") /\ current # "Running"
                 /\ attemptsLeft > 0
Account ==
  IF attemptsLeft' > attemptsLeft THEN Refill
  ELSE IF CrashPasses THEN Uncharged
  ELSE UNCHANGED allowance

\* A reboot is carried out also when there is no attempt to charge it; the
\* script stops it only if the host crashed.
RebootPasses(t) == UnitOf(t) = "host-reboot" /\ attemptsLeft = 0
                     /\ restartCause # "HostCrash"
---------------------------------------------------------------------------
Announced(u) == IF u = "host-stop" THEN "TransitioningToOff"
                ELSE "TransitioningToRunning"
\* A service waits for the answer to its own write, the last one of its
\* target; one whose target was stopped meanwhile no longer waits.
Awaits(u) == unit[u] = "announcing" /\ \A i \in 2..Len(bus) : bus[i] # Write(u)
Answered(u) == IF Awaits(u) THEN [unit EXCEPT ![u] = "starting"] ELSE unit
\* The writes under way fail with the process that should have answered.
Unanswered == [u \in Units |-> IF unit[u] = "announcing" THEN "starting"
                              ELSE unit[u]]

IsActive(u) == u \in Units /\ unit[u] = "active"

\* The manager handles the oldest message of its inbox.
Handle ==
  /\ bus # <<>>
  /\ LET m == Head(bus) IN
       \/ /\ m.member = "JobRemoved"
          /\ \E a \in Surroundings :
               \/ SysStateChangeJobRemoved(m.unit, m.result, IsActive(m.unit), a)
               \/ /\ m.unit = "host-quiesce" /\ Happened(m.result, IsActive(m.unit))
                  /\ spent.deaths < MaxDeaths
                  /\ Reboots(a) /\ DieInRequest("Reboot", a)
          /\ unit' = IF alive' THEN unit ELSE Unanswered
       \/ /\ m.member = "JobNew"
          /\ SysStateChangeJobNew(m.unit)
          /\ UNCHANGED unit
       \/ /\ m.member = "Set"
          /\ SetCurrentHostState(Announced(m.unit))
          /\ unit' = Answered(m.unit)
  /\ bus' = IF alive' THEN Tail(bus) ELSE <<>>
  /\ Account
  /\ spent' = [spent EXCEPT !.deaths = IF alive' THEN @ ELSE @ + 1]
  /\ UNCHANGED <<script, reading>>

\* A user writes RequestedHostTransition; the process may die over it.
UserRequest ==
  /\ spent.requests < MaxRequests
  /\ \E t \in UserTransitions, a \in Surroundings :
       \/ /\ RequestedHostTransition(t, a)
          /\ IF jobs' # jobs /\ RebootPasses(t) THEN Uncharged ELSE UNCHANGED allowance
          /\ spent' = [spent EXCEPT !.requests = @ + 1]
          /\ UNCHANGED <<unit, bus>>
       \/ /\ spent.deaths < MaxDeaths
          /\ DieInRequest(t, a)
          /\ bus' = <<>>
          /\ unit' = Unanswered
          /\ spent' = [spent EXCEPT !.requests = @ + 1, !.deaths = @ + 1]
          /\ UNCHANGED allowance
  /\ UNCHANGED <<script, reading>>

\* The process dies and systemd's Restart=always brings it back.
ManagerDies ==
  /\ spent.deaths < MaxDeaths
  /\ Die
  /\ bus' = <<>>
  /\ unit' = Unanswered
  /\ spent' = [spent EXCEPT !.deaths = @ + 1]
  /\ UNCHANGED <<script, reading, allowance>>

\* The firmware of a host that was not stopped may answer the new process.
ManagerStarts ==
  /\ \E firmware \in BOOLEAN :
       /\ firmware => unit["host-stop"] # "active"
       /\ Start(unit["host-startmin"] = "active", firmware)
  /\ Refill
  /\ UNCHANGED <<unit, bus, script, reading, spent>>

\* systemd carries out the manager's oldest StartUnit call.  The start and
\* shutdown targets pull in startmin and stop; the reboot target's service
\* pulls in stop and runs the host-reboot script after it.
CarryOut ==
  /\ Len(bus) < MaxSignals
  /\ SystemdTakes
  /\ \/ /\ Head(jobs) = "host-start"
        /\ StartUnit("host-startmin")
        /\ UNCHANGED script
     \/ /\ Head(jobs) = "host-shutdown"
        /\ StartUnit("host-stop")
        /\ UNCHANGED script
     \/ /\ Head(jobs) = "host-reboot"
        /\ StartUnit("host-stop")
        /\ script' = IF script = "idle" THEN "waiting" ELSE script
  /\ UNCHANGED <<reading, allowance, spent>>

\* phosphor-set-host-transition-to-{off,running}: ordered before the rest of
\* the target; it waits for the manager's D-Bus object and for the answer.
\* The one for running is skipped while the running file is there.
AnnounceTransition(u) ==
  /\ unit[u] = "queued"
  /\ \/ /\ u = "host-quiesce" \/ (u = "host-startmin" /\ runningFile)
        /\ unit' = [unit EXCEPT ![u] = "starting"]
        /\ UNCHANGED bus
     \/ /\ u = "host-stop" \/ (u = "host-startmin" /\ ~runningFile)
        /\ alive
        /\ Len(bus) < MaxSignals
        /\ unit' = [unit EXCEPT ![u] = "announcing"]
        /\ bus' = Append(bus, Write(u))
  /\ UNCHANGED <<hostVars, script, reading, allowance, spent>>

Reached(u) ==
  /\ Len(bus) < MaxSignals
  /\ unit[u] = "starting"
  /\ u = "host-startmin" => "up" \in BootOutcomes
  /\ unit' = [unit EXCEPT ![u] = "active"]
  /\ bus' = Emitted(<<JobRemoved(u, "done")>>)
  /\ UNCHANGED <<hostVars, script, reading, allowance, spent>>

\* A service of startmin fails: OnFailure= starts the quiesce target.
BootFails ==
  /\ Len(bus) < MaxSignals
  /\ "failed" \in BootOutcomes
  /\ unit["host-startmin"] = "starting"
  /\ LET failed == [unit EXCEPT !["host-startmin"] = "inactive"] IN
       /\ unit' = Installed("host-quiesce", failed)
       /\ bus' = Emitted(<<JobRemoved("host-startmin", "failed")>>
                           \o InstallSignals("host-quiesce", failed))
  /\ UNCHANGED <<hostVars, script, reading, allowance, spent>>

\* The host crashes, at any time of its boot or after: the crash handler
\* records the cause and starts the crash target, whose targets reboot the
\* host without a request to the manager.
HostCrashes ==
  /\ spent.crashes < MaxCrashes
  /\ Len(bus) < MaxSignals
  /\ unit["host-startmin"] \in {"starting", "active"}
  /\ script = "idle"
  /\ SetRestartCause("HostCrash")
  /\ unit' = Installed("host-stop", unit)
  /\ bus' = Emitted(<<JobNew("host-crash")>> \o InstallSignals("host-stop", unit))
  /\ script' = "waiting"
  /\ spent' = [spent EXCEPT !.crashes = @ + 1]
  /\ UNCHANGED <<reading, allowance>>

\* The host-reboot script: after the stop target, sleep, read the two
\* properties one after the other, then start one of two targets.
ScriptStarts ==
  /\ script = "waiting"
  /\ unit["host-stop"] \in {"inactive", "active"}
  /\ script' = "sleeping"
  /\ UNCHANGED <<hostVars, unit, bus, reading, allowance, spent>>

\* The manager answers the messages of its inbox in order, so it has heard by
\* then of the crash that led to the script.
ScriptReadsCount ==
  /\ script = "sleeping"
  /\ alive
  /\ \A i \in 1..Len(bus) : bus[i] # JobNew("host-crash")
  /\ script' = "counted"
  /\ reading' = attemptsLeft
  /\ UNCHANGED <<hostVars, unit, bus, allowance, spent>>

GoesToQuiesce == reading = 0 /\ restartCause = "HostCrash"

ScriptDecides ==
  /\ script = "counted"
  /\ alive
  /\ Len(bus) < MaxSignals
  /\ \/ GoesToQuiesce /\ StartUnit("host-quiesce") /\ UNCHANGED allowance
     \/ /\ ~GoesToQuiesce
        /\ StartUnit("host-startmin")
        /\ allowance' = IF allowance < 0 THEN allowance ELSE allowance - 1
  /\ script' = "idle"
  /\ UNCHANGED <<hostVars, reading, spent>>

\* The script ends at the first call that fails (set -e): neither property can
\* be read while the manager is away, and the host stays off.
ScriptFails ==
  /\ script \in {"sleeping", "counted"}
  /\ ~alive
  /\ script' = "idle"
  /\ UNCHANGED <<hostVars, unit, bus, reading, allowance, spent>>
---------------------------------------------------------------------------
SystemInit ==
  /\ Init
  /\ unit = [u \in Units |-> "inactive"]
  /\ bus = <<>>
  /\ script = "idle"
  /\ reading = 0
  /\ allowance = 0
  /\ spent = [requests |-> 0, crashes |-> 0, deaths |-> 0]

Working ==
  \/ Handle \/ ManagerStarts \/ CarryOut
  \/ \E u \in Units : AnnounceTransition(u) \/ Reached(u)
  \/ BootFails
  \/ ScriptStarts \/ ScriptReadsCount \/ ScriptDecides \/ ScriptFails

SystemNext == Working \/ UserRequest \/ ManagerDies \/ HostCrashes

SystemSpec == SystemInit /\ [][SystemNext]_allVars

\* The manager's event loop, its restart by systemd, systemd's jobs and the
\* script all go on by themselves; users, crashes and deaths are not owed, nor
\* that the script reads while the manager is away.
FairSystemSpec ==
  /\ SystemSpec
  /\ WF_allVars(Handle) /\ WF_allVars(ManagerStarts) /\ WF_allVars(CarryOut)
  /\ \A u \in Units :
       WF_allVars(AnnounceTransition(u)) /\ WF_allVars(Reached(u) \/ BootFails)
  /\ WF_allVars(ScriptStarts) /\ WF_allVars(ScriptReadsCount)
  /\ WF_allVars(ScriptDecides)
---------------------------------------------------------------------------
\* Nothing is under way: every job done, every signal handled.
Settled ==
  /\ alive /\ bus = <<>> /\ jobs = <<>> /\ script = "idle"
  /\ \A u \in Units : unit[u] \in {"inactive", "active"}

\* Once everything has settled, CurrentHostState is the state systemd is in,
\* even when targets replaced each other while their signals were in flight
\* and when the manager died and missed some of them.
StateFollowsTargets ==
  Settled => /\ unit["host-stop"] = "active" => current = "Off"
             /\ unit["host-startmin"] = "active" /\ unit["host-quiesce"] # "active"
                  => current = "Running"

\* Between two refills of the counter the host-reboot script never boots more
\* often than there were attempts and reboots under way at the refill and
\* reboots that the manager let pass without an attempt (Uncharged, and only
\* those): no attempt is spent twice, whichever of the manager's counter, the
\* script's reading of it and the crash in the inbox is ahead of the others.
\* It is no bound on all boots: a host that crashes in each of its boots before
\* it is Running is rebooted without end, whatever scripts/host-reboot:50-53
\* says of endless reboot loops.
RebootsWithinBudget == allowance >= 0

\* A host that is wanted on and never boots ends in Quiesced and stays there,
\* whatever was asked before and whichever boots and reboots failed, unless
\* the manager restarted: a restarted one does not know Quiesced any more.
\* Its boots fail in the end rather than crash: there are MaxCrashes crashes.
BrokenHostQuiesces ==
  <>[](/\ requested # "Off" /\ spent.deaths = 0
       /\ unit["host-startmin"] # "active")
    => <>[](current = "Quiesced")
===========================================================================
