------------------------------- MODULE Host -------------------------------
(***************************************************************************)
(* The host state manager, phosphor-host-state-manager (one process, one   *)
(* D-Bus event loop, so one handler at a time).  The module is open: the   *)
(* systemd signals, the D-Bus property writes, the replies to the          *)
(* manager's own calls and the death of the process come from Next, which  *)
(* offers all of them in every order.  HostSystem closes it.               *)
(***************************************************************************)
EXTENDS Naturals, Sequences

CONSTANTS BootCountMax,       \* BOOT_COUNT_MAX_ALLOWED, the build's default
          Counts,             \* values a client may write to a counter
          OnlyBootWhenReady,  \* option only-allow-boot-when-bmc-ready
          CheckFwUpdate,      \* option check-fwupdate-before-do-transition
          WarmReboot,         \* option warm-reboot
          NoFile, TornFile,   \* flash without an image: none, or half written
          MaxJobs             \* bound: StartUnit calls systemd has not taken

ASSUME HostAssumption ==
  /\ BootCountMax \in Nat
  /\ Counts \subseteq Nat
  /\ OnlyBootWhenReady \in BOOLEAN
  /\ CheckFwUpdate \in BOOLEAN
  /\ WarmReboot \in BOOLEAN
  /\ MaxJobs \in Nat

HostStates == {"Off", "TransitioningToOff", "TransitioningToRunning",
               "Running", "Quiesced", "DiagnosticMode"}
Transitions == {"Off", "On", "Reboot", "GracefulWarmReboot",
                "ForceWarmReboot"}
\* Boot progress and OS state: the reset value and any other one.
Progresses == {"Unspecified", "Booting"}
OSStates == {"Inactive", "Active"}
RestartCauses == {"Unknown", "HostCrash", "Other"}

VARIABLES
  alive,          \* the process runs and its D-Bus object is registered
  current,        \* currentHostState
  requested,      \* requestedHostTransition
  attemptsLeft, retryAttempts,   \* the RebootAttempts interface
  progress,       \* bootProgress
  os,             \* operatingSystemState
  restartCause,   \* restartCause, written by others only
  runningFile,    \* HOST_RUNNING_FILE exists
  file,           \* HOST_STATE_PERSIST_PATH on flash
  jobs            \* StartUnit calls sent and not yet taken by systemd

props == <<current, requested, attemptsLeft, retryAttempts, progress, os,
           restartCause>>
hostVars == <<alive, props, runningFile, file, jobs>>

\* The units the transitions start (transitionTargetTable).
UnitOf(t) ==
  CASE t = "Off" -> "host-shutdown"
    [] t = "On" -> "host-start"
    [] t = "Reboot" -> "host-reboot"
    [] t = "GracefulWarmReboot" ->
         IF WarmReboot THEN "host-warm-reboot" ELSE "host-reboot"
    [] t = "ForceWarmReboot" ->
         IF WarmReboot THEN "host-force-warm-reboot" ELSE "host-reboot"
TransitionUnits == {"host-shutdown", "host-start", "host-reboot",
                    "host-warm-reboot", "host-force-warm-reboot"}

\* The persisted image; flash may instead hold no file or a torn one.
Images == [retry : Nat, requested : Transitions, progress : Progresses,
           os : OSStates]
ASSUME FileAssumption == NoFile \notin Images /\ TornFile \notin Images
Image == [retry |-> retryAttempts, requested |-> requested,
          progress |-> progress, os |-> os]
Persist == file' = Image'
Readable == file \notin {NoFile, TornFile}

\* What deserialize() and the defaults after it leave in the properties.
Restored == IF Readable THEN file
            ELSE [retry |-> BootCountMax, requested |-> "Off",
                  progress |-> "Unspecified", os |-> "Inactive"]

\* The answers the manager's own calls may get: both AutoReboot settings and
\* whether they can be read, the BMC's readiness, a firmware update in
\* progress, and whether StartUnit could be sent.
Answers == [oneTime : BOOLEAN, user : BOOLEAN, readable : BOOLEAN,
            ready : BOOLEAN, updating : BOOLEAN, sent : BOOLEAN]

AutoRebootEnabled(a) == a.readable /\ a.oneTime /\ a.user

Accepted(t, a) ==
  t # "Off" => /\ OnlyBootWhenReady => a.ready
               /\ CheckFwUpdate => ~a.updating

\* Mutant: the counter has no floor.
DecrementedUnguarded == attemptsLeft - 1
Decremented == IF attemptsLeft > 0 THEN attemptsLeft - 1 ELSE attemptsLeft
\* Mutant: the setter takes what it is given.
FirstOf(m, n) == m
LesserOf(m, n) == IF m < n THEN m ELSE n
---------------------------------------------------------------------------
\* Construction of Host by the main program: Running if the startmin target
\* is active or the firmware answers (which also leaves the running file),
\* then the persisted properties over the discovered request.
Start(startminActive, firmwareAnswers) ==
  /\ ~alive
  /\ alive' = TRUE
  /\ current' = IF startminActive \/ firmwareAnswers THEN "Running" ELSE "Off"
  /\ runningFile' = (runningFile \/ (~startminActive /\ firmwareAnswers))
  /\ requested' = Restored.requested
  /\ retryAttempts' = Restored.retry
  /\ progress' = Restored.progress
  /\ os' = Restored.os
  /\ attemptsLeft' = Restored.retry
  /\ restartCause' = "Unknown"
  /\ file' = IF Readable THEN file ELSE NoFile
  /\ jobs' = jobs

\* The process dies; a write in progress leaves a torn file, because
\* serialize() truncates the only copy before it writes.
Die ==
  /\ alive
  /\ alive' = FALSE
  /\ file' \in {file, TornFile}
  /\ UNCHANGED <<props, runningFile, jobs>>

\* Mutant: a request is free of charge.
FreeOfCharge(t) == attemptsLeft' = attemptsLeft

\* An accepted request: charge an attempt, start the unit, then record and
\* persist the request.  A StartUnit that cannot be sent leaves the charge.
Charge(t) ==
  attemptsLeft' = IF t = "Off" THEN attemptsLeft ELSE Decremented

Execute(t) ==
  /\ Charge(t)
  /\ jobs' = Append(jobs, UnitOf(t))
  /\ requested' = t
  /\ UNCHANGED <<alive, current, retryAttempts, progress, os, restartCause,
                 runningFile>>
  /\ Persist

\* A D-Bus write of RequestedHostTransition; an error goes to the caller.
RequestedHostTransition(t, a) ==
  /\ alive
  /\ Len(jobs) < MaxJobs
  /\ \/ /\ Accepted(t, a) /\ a.sent
        /\ Execute(t)
     \/ /\ Accepted(t, a) /\ ~a.sent
        /\ Charge(t)
        /\ UNCHANGED <<alive, current, requested, retryAttempts, progress,
                       os, restartCause, runningFile, file, jobs>>
     \/ /\ ~Accepted(t, a)
        /\ UNCHANGED hostVars

\* The process dies in that handler, after StartUnit and before the new
\* request is safe on flash.
DieInRequest(t, a) ==
  /\ alive
  /\ Len(jobs) < MaxJobs
  /\ Accepted(t, a) /\ a.sent
  /\ alive' = FALSE
  /\ jobs' = Append(jobs, UnitOf(t))
  /\ file' \in {file, TornFile}
  /\ UNCHANGED <<props, runningFile>>

\* Mutant: the resets are not persisted.
HostIsOffUnsaved ==
  /\ current' = "Off" /\ progress' = "Unspecified" /\ os' = "Inactive"
  /\ runningFile' = FALSE
  /\ UNCHANGED <<alive, requested, attemptsLeft, retryAttempts, restartCause,
                 jobs, file>>

HostIsOff ==
  /\ current' = "Off"
  /\ progress' = "Unspecified"
  /\ os' = "Inactive"
  /\ runningFile' = FALSE
  /\ UNCHANGED <<alive, requested, attemptsLeft, retryAttempts, restartCause,
                 jobs>>
  /\ Persist

HostIsRunning ==
  /\ current' = "Running"
  /\ runningFile' = FALSE
  /\ UNCHANGED <<alive, requested, attemptsLeft, retryAttempts, progress, os,
                 restartCause, file, jobs>>

Reboots(a) == AutoRebootEnabled(a) /\ attemptsLeft > 0

\* The exceptions that leave the callback of the quiesce signal: the reboot
\* request is refused or cannot be sent, the settings service is not found,
\* the error of the last attempt cannot be logged.
Escapes(a) ==
  \/ Reboots(a) /\ ~(Accepted("Reboot", a) /\ a.sent)
  \/ ~a.readable
  \/ AutoRebootEnabled(a) /\ attemptsLeft = 0

\* The quiesce target is up: reboot while attempts are left, else stay.  An
\* exception that leaves the callback ends the process, and what the counter
\* was set to before is lost with it.
HostIsQuiesced(a) ==
  /\ Len(jobs) < MaxJobs
  /\ \/ /\ Reboots(a)
        /\ Accepted("Reboot", a) /\ a.sent
        /\ Execute("Reboot")
     \/ /\ ~Reboots(a)
        /\ current' = "Quiesced"
        /\ attemptsLeft' = IF AutoRebootEnabled(a) THEN retryAttempts
                           ELSE attemptsLeft
        /\ UNCHANGED <<alive, requested, retryAttempts, progress, os,
                       restartCause, runningFile, file, jobs>>
     \/ /\ Escapes(a)
        /\ alive' = FALSE
        /\ UNCHANGED <<props, runningFile, file, jobs>>

\* Mutant: only a transition that was announced can end.
HappenedIfAnnounced(result, active) ==
  result = "done" /\ active /\ current \notin {"Off", "Running"}

\* sysStateChangeJobRemoved.  "active" is what utils::stateActive answers
\* when the signal is handled, not when systemd sent it.
Happened(result, active) == result = "done" /\ active

SysStateChangeJobRemoved(unit, result, active, a) ==
  /\ alive
  /\ IF Happened(result, active)
       THEN \/ unit = "host-stop" /\ HostIsOff
            \/ unit = "host-startmin" /\ HostIsRunning
            \/ unit = "host-quiesce" /\ HostIsQuiesced(a)
            \/ /\ unit \notin {"host-stop", "host-startmin", "host-quiesce"}
               /\ UNCHANGED hostVars
       ELSE UNCHANGED hostVars

\* Mutant: a crash costs no attempt.
SysStateChangeJobNewFree(unit) ==
  /\ alive
  /\ current' = IF unit = "host-diagnostic-mode" THEN "DiagnosticMode"
                ELSE current
  /\ UNCHANGED <<alive, requested, attemptsLeft, retryAttempts, progress, os,
                 restartCause, runningFile, file, jobs>>

\* sysStateChangeJobNew.
SysStateChangeJobNew(unit) ==
  /\ alive
  /\ current' = IF unit = "host-diagnostic-mode" THEN "DiagnosticMode"
                ELSE current
  /\ attemptsLeft' = IF unit = "host-crash" /\ current = "Running"
                     THEN Decremented ELSE attemptsLeft
  /\ UNCHANGED <<alive, requested, retryAttempts, progress, os, restartCause,
                 runningFile, file, jobs>>

\* The property writes of D-Bus clients.
SetAttemptsLeft(v) ==
  /\ alive
  /\ attemptsLeft' = LesserOf(v, retryAttempts)
  /\ UNCHANGED <<alive, current, requested, retryAttempts, progress, os,
                 restartCause, runningFile, file, jobs>>

SetRetryAttempts(v) ==
  /\ alive
  /\ attemptsLeft' = v
  /\ retryAttempts' = v
  /\ UNCHANGED <<alive, current, requested, progress, os, restartCause,
                 runningFile, file, jobs>>

SetBootProgress(p) ==
  /\ alive
  /\ progress' = p
  /\ UNCHANGED <<alive, current, requested, attemptsLeft, retryAttempts, os,
                 restartCause, runningFile, jobs>>
  /\ Persist

SetOperatingSystemState(s) ==
  /\ alive
  /\ os' = s
  /\ UNCHANGED <<alive, current, requested, attemptsLeft, retryAttempts,
                 progress, restartCause, runningFile, jobs>>
  /\ Persist

SetCurrentHostState(s) ==
  /\ alive
  /\ current' = s
  /\ UNCHANGED <<alive, requested, attemptsLeft, retryAttempts, progress, os,
                 restartCause, runningFile, file, jobs>>

SetRestartCause(c) ==
  /\ alive
  /\ restartCause' = c
  /\ UNCHANGED <<alive, current, requested, attemptsLeft, retryAttempts,
                 progress, os, runningFile, file, jobs>>

\* Outside the process: systemd takes the oldest StartUnit call; a reboot of
\* the BMC empties /run and forgets the jobs, flash survives.
SystemdTakes ==
  /\ jobs # <<>>
  /\ jobs' = Tail(jobs)
  /\ UNCHANGED <<alive, props, runningFile, file>>

BMCReboot ==
  /\ alive' = FALSE
  /\ runningFile' = FALSE
  /\ jobs' = <<>>
  /\ file' \in {file, TornFile}
  /\ UNCHANGED props
---------------------------------------------------------------------------
Init ==
  /\ alive = FALSE
  /\ current = "Off" /\ requested = "Off"
  /\ attemptsLeft = 0 /\ retryAttempts = 0
  /\ progress = "Unspecified" /\ os = "Inactive"
  /\ restartCause = "Unknown"
  /\ runningFile = FALSE
  /\ file = NoFile
  /\ jobs = <<>>

\* The units the manager's signal handlers look for.
SignalUnits == {"host-stop", "host-startmin", "host-quiesce",
                "host-diagnostic-mode", "host-crash"}

Signals == \E unit \in SignalUnits :
  \/ SysStateChangeJobNew(unit)
  \/ \E result \in {"done", "failed"}, active \in BOOLEAN, a \in Answers :
       SysStateChangeJobRemoved(unit, result, active, a)

Requests == \E t \in Transitions, a \in Answers :
  RequestedHostTransition(t, a) \/ DieInRequest(t, a)

Writes ==
  \/ \E v \in Counts : SetAttemptsLeft(v) \/ SetRetryAttempts(v)
  \/ \E p \in Progresses : SetBootProgress(p)
  \/ \E s \in OSStates : SetOperatingSystemState(s)
  \/ \E s \in HostStates : SetCurrentHostState(s)
  \/ \E c \in RestartCauses : SetRestartCause(c)

Next ==
  \/ \E startmin, firmware \in BOOLEAN : Start(startmin, firmware)
  \/ Signals \/ Requests \/ Writes
  \/ Die \/ SystemdTakes \/ BMCReboot

Spec == Init /\ [][Next]_hostVars
---------------------------------------------------------------------------
TypeOK ==
  /\ alive \in BOOLEAN
  /\ current \in HostStates
  /\ requested \in Transitions
  /\ attemptsLeft \in Nat /\ retryAttempts \in Nat
  /\ progress \in Progresses /\ os \in OSStates
  /\ restartCause \in RestartCauses
  /\ runningFile \in BOOLEAN
  /\ file \in Images \cup {NoFile, TornFile}
  /\ jobs \in Seq(TransitionUnits)

\* Whatever clients write, however often the process dies and whatever flash
\* holds then, never more reboots are left than were asked for.  The two
\* counters have a setter each, four other writers and two restart paths.
AttemptsWithinRetry == alive => attemptsLeft <= retryAttempts

\* A restart at any moment brings back the request, the boot progress and the
\* OS state that D-Bus shows now: no handler leaves flash behind the
\* properties (the restore policy and host-reset-recovery act on what flash
\* gives back).
RestartRestores ==
  alive => /\ Restored.requested = requested
           /\ Restored.progress = progress
           /\ Restored.os = os
===========================================================================
