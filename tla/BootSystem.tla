---------------------------- MODULE BootSystem ----------------------------
(***************************************************************************)
(* What happens to the host when the BMC has been reset: the chassis file   *)
(* says whether the chassis kept its power, the power on target is run      *)
(* again over a chassis that did, and either the host reset recovery or     *)
(* the restore policy is started, while users make requests of their own.   *)
(***************************************************************************)
EXTENDS Restore, HostReset

CONSTANTS OneTimePolicies,   \* the one-time policies a user may set
          MaxRequests, MaxFaults   \* bounds of the environment

ASSUME BootAssumption == OneTimePolicies \subseteq Policies \ {"None"}

VARIABLES
  power,      \* the chassis has power (pgood)
  checked,    \* phosphor-reset-chassis-running has run
  onTarget,   \* the power on target: "none", "queued", "active", "heard"
  host,       \* the host: "off", "booting", "running", "quiesced"
  progress,   \* BootProgress, which the host manager persists
  hostOnFile, \* /run: host@N-on
  dropped,    \* history: an On of the policy went down with the host manager
  jobs,       \* the host targets the host manager has asked systemd for
  refused,    \* history: an On of the policy was refused
  spent       \* what the environment has used of its bounds

world == <<power, host, progress>>
boot == <<checked, onTarget, hostOnFile, dropped>>
vars == <<restoreVars, recoveryVars, world, boot, jobs, refused, spent>>

Spend(what, max) ==
  spent[what] < max /\ spent' = [spent EXCEPT ![what] = @ + 1]

\* /run, the processes and the properties that are not persisted.
Volatile ==
  /\ step = "waiting" /\ policy = "None" /\ token = 0 /\ left = 0
  /\ calls = <<>> /\ clearing = FALSE /\ bmc = "absent"
  /\ onFile = FALSE /\ hostUp = FALSE
  /\ restartCause = "Unknown" /\ heldOff = FALSE /\ late = FALSE
  /\ RecoveryInit
  /\ checked = FALSE /\ onTarget = "none" /\ hostOnFile = FALSE
  /\ jobs = {} /\ refused = FALSE /\ dropped = FALSE

\* A BMC that starts over any system: power, host and flash are as they were
\* left.
Init ==
  /\ Volatile
  /\ oneTime \in {NoPolicy} \cup [policy : OneTimePolicies, token : {1}]
  /\ requested \in {"On", "Off"}
  /\ host \in {"off", "booting", "running"} /\ power = (host # "off")
  /\ progress \in {"Unspecified", "Booting"} /\ (power => progress = "Booting")
  /\ acted = [n \in 1..(MaxSettings + 1) |-> 0]
  /\ spent = [requests |-> 0, settings |-> 0, faults |-> 0]
---------------------------------------------------------------------------
(* The start of the BMC.                                                   *)

\* phosphor-reset-chassis-running: the file stands for pgood.
ResetChassisRunning ==
  /\ ~checked
  /\ checked' = TRUE /\ onFile' = power
  /\ UNCHANGED <<process, calls, clearing, oneTime, bmc, hostProps, heldOff,
                 late, acted, recoveryVars, world, onTarget, hostOnFile, dropped,
                 jobs, refused, spent>>

\* phosphor-reset-chassis-on starts the power on target if the file is there;
\* its job is done some time later and then handled by the chassis manager,
\* which removes the file.
ChassisOn ==
  /\ checked /\ onTarget = "none"
  /\ onTarget' = IF onFile THEN "queued" ELSE "heard"
  /\ UNCHANGED <<restoreVars, recoveryVars, world, checked, hostOnFile, dropped,
                 jobs, refused, spent>>
TargetDone ==
  /\ onTarget = "queued"
  /\ onTarget' = "active"
  /\ UNCHANGED <<restoreVars, recoveryVars, world, checked, hostOnFile, dropped,
                 jobs, refused, spent>>
ChassisHears ==
  /\ onTarget = "active"
  /\ onTarget' = "heard" /\ onFile' = FALSE
  /\ UNCHANGED <<process, calls, clearing, oneTime, bmc, hostProps, heldOff,
                 late, acted, recoveryVars, world, checked, hostOnFile, dropped,
                 jobs, refused, spent>>

\* The host manager starts: a host that answers leaves the file.
HostManagerStarts ==
  /\ ~hostUp
  /\ hostUp' = TRUE /\ hostOnFile' = (hostOnFile \/ host = "running")
  /\ UNCHANGED <<process, calls, clearing, oneTime, bmc, onFile,
                 requested, restartCause, heldOff, late, acted,
                 recoveryVars, world, checked, onTarget, dropped, jobs,
                 refused, spent>>

\* The two services, each after the reset services it is ordered behind.
DiscoverStarts ==
  /\ checked /\ onTarget # "none" /\ StartPolicy
  /\ UNCHANGED <<recoveryVars, world, boot, jobs, refused, spent>>
RecoveryStarts ==
  /\ checked /\ hostUp /\ StartRecovery(onFile, hostOnFile)
  /\ UNCHANGED <<restoreVars, world, boot, jobs, refused, spent>>

PolicyRuns ==
  /\ PolicySteps \/ SettingsClear \/ BmcStateChanges
  /\ UNCHANGED <<recoveryVars, world, boot, jobs, refused, spent>>
PolicyDies ==
  /\ PolicyFails /\ Spend("faults", MaxFaults)
  /\ UNCHANGED <<recoveryVars, world, boot, jobs, refused>>

RecoveryRuns ==
  /\ \/ PollFile(onFile)
     \/ ReadProgress(hostUp, progress)
     \/ CreateErrorLog(TRUE)
     \/ MoveToHostQuiesce
  /\ UNCHANGED <<restoreVars, world, boot, jobs, refused, spent>>
LogFails ==
  /\ CreateErrorLog(FALSE) /\ Spend("faults", MaxFaults)
  /\ UNCHANGED <<restoreVars, world, boot, jobs, refused>>
---------------------------------------------------------------------------
(* The host manager and systemd.                                           *)

Job(t) == IF t = "On" THEN "host-start" ELSE "host-shutdown"
\* The targets conflict: the job of one replaces that of the other.
Replaced(t) == (jobs \ {Job("On"), Job("Off")}) \cup {Job(t)}

\* The manager takes the oldest Set; a refusal goes nowhere.
HandleSet ==
  /\ hostUp /\ calls # <<>>
  /\ calls' = Tail(calls)
  /\ LET c == Head(calls) IN
       IF c = "cause"
       THEN /\ restartCause' = "PowerPolicy"
            /\ UNCHANGED <<requested, jobs, refused>>
       ELSE IF Accepts(c)
       THEN /\ requested' = c /\ jobs' = Replaced(c)
            /\ UNCHANGED <<restartCause, refused>>
       ELSE /\ refused' = TRUE
            /\ UNCHANGED <<requested, restartCause, jobs>>
  /\ UNCHANGED <<process, clearing, oneTime, bmc, onFile,
                 hostUp, heldOff, late, acted, recoveryVars, world, boot, spent>>

\* It dies: what is queued to it is lost, and nobody is told.  The first of them
\* may have been carried out as far as the StartUnit.  The request is persisted.
HostManagerDies ==
  /\ hostUp /\ Spend("faults", MaxFaults)
  /\ hostUp' = FALSE /\ restartCause' = "Unknown"
  /\ calls' = <<>>
  /\ dropped' = (dropped \/ \E i \in DOMAIN calls : calls[i] = "On")
  /\ \/ UNCHANGED jobs
     \/ /\ calls # <<>> /\ Head(calls) # "cause" /\ Accepts(Head(calls))
        /\ jobs' = Replaced(Head(calls))
  /\ UNCHANGED <<process, clearing, oneTime, bmc, onFile, requested, heldOff,
                 late, acted, recoveryVars, world, checked, onTarget,
                 hostOnFile, refused>>

UserRequests(t) ==
  /\ hostUp /\ Accepts(t) /\ Spend("requests", MaxRequests)
  /\ requested' = t /\ jobs' = Replaced(t)
  /\ heldOff' = (heldOff /\ t = "Off")
  /\ UNCHANGED <<process, calls, clearing, oneTime, bmc, onFile,
                 hostUp, restartCause, late, acted, recoveryVars,
                 world, boot, refused>>

UserSets(p) ==
  /\ Spend("settings", MaxSettings)
  /\ UserSetsOneTime(p, spent.settings + 2)
  /\ UNCHANGED <<recoveryVars, world, boot, jobs, refused>>

\* The start target boots a host that is not running, powering it on first.
HostStarts ==
  /\ "host-start" \in jobs
  /\ jobs' = jobs \ {"host-start"} /\ power' = TRUE
  /\ onTarget' = IF power THEN onTarget ELSE "queued"
  /\ IF host = "running" THEN UNCHANGED <<host, progress>>
     ELSE host' = "booting" /\ progress' = "Booting"
  /\ UNCHANGED <<restoreVars, recoveryVars, checked, hostOnFile, dropped, refused,
                 spent>>
HostRuns ==
  /\ host = "booting" /\ host' = "running"
  /\ UNCHANGED <<restoreVars, recoveryVars, power, progress, boot,
                 jobs, refused, spent>>
\* The power off target stops the recovery and replaces the power on target.
ChassisOff ==
  /\ "host-shutdown" \in jobs
  /\ jobs' = jobs \ {"host-shutdown"}
  /\ power' = FALSE /\ host' = "off" /\ progress' = "Unspecified"
  /\ onTarget' = IF onTarget = "none" THEN "none" ELSE "heard"
  /\ RecoveryStops
  /\ UNCHANGED <<restoreVars, patience, quiesceJob, checked, hostOnFile, dropped,
                 refused, spent>>
HostQuiesces ==
  /\ quiesceJob /\ quiesceJob' = FALSE
  /\ host' = IF host = "off" THEN "off" ELSE "quiesced"
  /\ UNCHANGED <<restoreVars, recovery, patience, power, progress, boot, jobs,
                 refused, spent>>

\* The BMC is reset, and the chassis may lose its power with it.
Reset(losesPower) ==
  /\ Spend("faults", MaxFaults)
  /\ step' = "waiting" /\ policy' = "None" /\ token' = 0 /\ left' = 0
  /\ calls' = <<>> /\ clearing' = FALSE /\ bmc' = "absent"
  /\ onFile' = FALSE /\ hostUp' = FALSE
  /\ restartCause' = "Unknown" /\ heldOff' = FALSE /\ late' = FALSE
  /\ recovery' = "waiting" /\ patience' = RecoveryTimeout
  /\ quiesceJob' = FALSE
  /\ checked' = FALSE /\ onTarget' = "none" /\ hostOnFile' = FALSE
  /\ jobs' = {} /\ refused' = FALSE /\ dropped' = FALSE
  /\ power' = (power /\ ~losesPower)
  /\ host' = IF losesPower THEN "off" ELSE host
  /\ UNCHANGED <<oneTime, requested, progress, acted>>

Next ==
  \/ ResetChassisRunning \/ ChassisOn \/ TargetDone \/ ChassisHears
  \/ HostManagerStarts \/ DiscoverStarts \/ RecoveryStarts
  \/ PolicyRuns \/ PolicyDies \/ RecoveryRuns \/ LogFails
  \/ HandleSet \/ HostManagerDies
  \/ HostStarts \/ HostRuns \/ ChassisOff \/ HostQuiesces
  \/ \E t \in {"On", "Off"} : UserRequests(t)
  \/ \E p \in OneTimePolicies : UserSets(p)
  \/ \E b \in BOOLEAN : Reset(b)

\* Programs take their next step, systemd starts its services, Settings and
\* the host manager take their calls.  Nothing makes the BMC Ready, and
\* nothing completes the power on target.
Fairness ==
  /\ WF_vars(ResetChassisRunning) /\ WF_vars(ChassisOn)
  /\ WF_vars(HostManagerStarts)
  /\ WF_vars(DiscoverStarts) /\ WF_vars(RecoveryStarts)
  /\ WF_vars(PolicySteps /\ PolicyRuns) /\ WF_vars(SettingsClear /\ PolicyRuns)
  /\ WF_vars(RecoveryRuns) /\ WF_vars(HandleSet)

Spec == Init /\ [][Next]_vars /\ Fairness
---------------------------------------------------------------------------
\* The type of the state, in two parts.  The code: the locals of both programs,
\* the files in /run and the properties they read and write.
FlagsOK ==
  /\ clearing \in BOOLEAN /\ heldOff \in BOOLEAN /\ late \in BOOLEAN
  /\ onFile \in BOOLEAN /\ hostUp \in BOOLEAN /\ refused \in BOOLEAN
  /\ quiesceJob \in BOOLEAN /\ checked \in BOOLEAN /\ hostOnFile \in BOOLEAN
  /\ power \in BOOLEAN /\ dropped \in BOOLEAN
ValuesOK ==
  /\ step \in Steps /\ policy \in Policies /\ token \in 0..(MaxSettings + 1)
  /\ left \in 0..MaxDelay /\ calls \in Queues
  /\ oneTime \in [policy : Policies, token : 0..(MaxSettings + 1)]
  /\ acted \in [1..(MaxSettings + 1) -> Nat]
  /\ bmc \in {"absent", "NotReady", "Ready"}
  /\ requested \in {"On", "Off"} /\ restartCause \in {"Unknown", "PowerPolicy"}
  /\ recovery \in RecoverySteps /\ patience \in 0..RecoveryTimeout
  /\ onTarget \in {"none", "queued", "active", "heard"}
  /\ host \in {"off", "booting", "running", "quiesced"}
  /\ progress \in {"Unspecified", "Booting"}
  /\ jobs \in SUBSET {"host-start", "host-shutdown"}
  /\ spent \in [requests : Nat, settings : 0..MaxSettings, faults : Nat]
BootTypeOK == FlagsOK /\ ValuesOK

\* The policy Restore repeats a request, it never makes one up: a host whose
\* Off stands when the delay ends, whenever it was asked for, is left off
\* unless a user asks for On (the request is read after the delay).
RestoreHonoursOff ==
  policy = "Restore" /\ heldOff => \A i \in DOMAIN calls : calls[i] # "On"

\* A one-time policy decides one start of the BMC at most, wherever a reset
\* of the BMC interrupts the program: it is gone before it is acted upon.
OneTimeOnce == \A n \in DOMAIN acted : acted[n] <= 1

\* An On of the policy is refused for a BMC that is not Ready only if the
\* whole delay was given to it, or if it was Ready and is no more.
PolicyAwaitsReady == refused => late

\* AlwaysOn is delivered whatever the BMC does: a program that got as far as
\* the delay has its On taken or refused, or fails, or is cut off by a reset, or
\* its On is sent to a host manager that dies before it takes it.
PolicyDelivered ==
  step = "await" /\ policy = "AlwaysOn"
    ~> requested = "On" \/ refused \/ dropped \/ step \in {"failed", "waiting"}

\* The recovery ends although the power on target may never complete.
RecoveryEnds == recovery \in Recovering ~> recovery \notin Recovering
=============================================================================
