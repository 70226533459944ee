----------------------------- MODULE HostReset -----------------------------
(***************************************************************************)
(* phosphor-host-reset-recovery: a program that runs once after a BMC      *)
(* reset with the chassis on and the host not known to run, and moves a    *)
(* host whose boot the reset interrupted to the quiesce target.  The file  *)
(* it polls and the host manager it asks are parameters: BootSystem gives  *)
(* them their values.                                                      *)
(***************************************************************************)
EXTENDS Naturals

CONSTANT RecoveryTimeout   \* option host-reset-recovery-timeout-sec, 0: none

ASSUME TimeoutAssumption == RecoveryTimeout \in Nat

VARIABLES
  recovery,   \* where main() is
  patience,   \* timeout
  quiesceJob  \* StartUnit of the quiesce target is on its way

recoveryVars == <<recovery, patience, quiesceJob>>

RecoverySteps == {"waiting", "skipped", "polling", "progress", "logging",
                  "quiescing", "done", "failed", "stopped"}
Recovering == {"polling", "progress", "logging", "quiescing"}

RecoveryInit ==
  /\ recovery = "waiting" /\ patience = RecoveryTimeout /\ quiesceJob = FALSE

\* systemd starts the service, if the files say chassis on and host not.
StartRecovery(chassisOn, hostOn) ==
  /\ recovery = "waiting"
  /\ recovery' = IF chassisOn /\ ~hostOn THEN "polling" ELSE "skipped"
  /\ UNCHANGED <<patience, quiesceJob>>

\* Mutant: a second is never taken off the timeout.
PollForEver(chassisOn) ==
  /\ recovery = "polling"
  /\ recovery' = IF chassisOn THEN recovery ELSE "progress"
  /\ UNCHANGED <<patience, quiesceJob>>
\* One look at the file, a second apart; a timeout of 0 waits for ever.
PollFile(chassisOn) ==
  /\ recovery = "polling"
  /\ IF ~chassisOn THEN recovery' = "progress" /\ UNCHANGED patience
     ELSE /\ patience' = IF patience = 0 THEN 0 ELSE patience - 1
          /\ recovery' = IF patience = 1 THEN "progress" ELSE recovery
  /\ UNCHANGED quiesceJob

\* wasHostBooting asks the host manager; no answer ends the program.
ReadProgress(up, progress) ==
  /\ recovery = "progress"
  /\ recovery' = IF ~up THEN "failed"
                 ELSE IF progress = "Unspecified" THEN "done" ELSE "logging"
  /\ UNCHANGED <<patience, quiesceJob>>

\* createErrorLog waits for the answer; an exception ends the program.
CreateErrorLog(works) ==
  /\ recovery = "logging"
  /\ recovery' = IF works THEN "quiescing" ELSE "failed"
  /\ UNCHANGED <<patience, quiesceJob>>

MoveToHostQuiesce ==
  /\ recovery = "quiescing"
  /\ recovery' = "done" /\ quiesceJob' = TRUE
  /\ UNCHANGED patience

\* The service conflicts with the power off target, which stops it, or keeps
\* it from starting.
RecoveryStops ==
  recovery' = IF recovery \in Recovering THEN "stopped" ELSE recovery
=============================================================================
