------------------------------ MODULE Restore ------------------------------
(***************************************************************************)
(* The restore policy, phosphor-discover-system-state: a program that runs *)
(* once after a BMC reset and may ask the host manager for a transition.   *)
(* Each action is one D-Bus call of its main program.  The services it     *)
(* calls are here as far as it can see them: Settings, the readiness of    *)
(* the BMC and the host manager's requested transition.  BootSystem closes *)
(* the module.                                                             *)
(***************************************************************************)
EXTENDS Naturals, Sequences

CONSTANTS RunOn,              \* options run-apr-on-...-reset: the causes set
          OnlyOnPowerLoss,    \* option only-run-apr-on-power-loss
          WhenReady,          \* option apply-power-policy-bmc-ready
          OnlyBootWhenReady,  \* option only-allow-boot-when-bmc-ready
          MaxDelay,           \* bound: seconds of PowerRestoreDelay
          MaxSettings         \* bound: one-time policies a user sets

Optional == {"PinholeReset", "Watchdog", "Software"}
Causes == Optional \cup {"POR"}
Policies == {"None", "AlwaysOn", "AlwaysOff", "Restore"}

ASSUME RestoreAssumption ==
  /\ RunOn \subseteq Optional
  /\ {OnlyOnPowerLoss, WhenReady, OnlyBootWhenReady} \subseteq BOOLEAN
  /\ MaxDelay \in Nat /\ MaxSettings \in Nat

VARIABLES
  step,         \* where main() is
  policy,       \* powerPolicy
  token,        \* which one-time setting it came from, 0 for the user's policy
  left,         \* seconds left of the delay
  calls,        \* Sets on their way to the host manager, oldest first
  clearing,     \* the Set of the one-time policy to None is on its way
  oneTime,      \* Settings, flash: the one-time policy and which one it is
  bmc,          \* CurrentBMCState as a client sees it, or the manager absent
  onFile,       \* /run: chassis@N-on
  hostUp,       \* the host manager is on the bus
  requested,    \* its RequestedHostTransition, which it persists
  restartCause, \* its RestartCause
  heldOff,      \* history: Off was requested when the delay ended, and since
  late,         \* history: the delay ran out, or the BMC has left Ready
  acted         \* history: how often each one-time setting was acted upon

process == <<step, policy, token, left>>
hostProps == <<hostUp, requested, restartCause>>
restoreVars == <<process, calls, clearing, oneTime, bmc, onFile,
                 hostProps, heldOff, late, acted>>

Working == {"cause", "oneTime", "clear", "user", "delay", "await", "request",
            "setCause", "setOn", "setOff"}
Steps == Working \cup {"waiting", "skipped", "done", "failed"}
NoPolicy == [policy |-> "None", token |-> 0]
\* What the program may have under way to the host manager.
Queues == {<<>>, <<"cause">>, <<"cause", "On">>, <<"On">>, <<"Off">>}

Fails == step' = "failed"
---------------------------------------------------------------------------
\* systemd starts the service: only if the file says the chassis is off.
StartPolicy ==
  /\ step = "waiting"
  /\ step' = IF onFile THEN "skipped" ELSE "cause"
  /\ UNCHANGED <<policy, token, left, calls, clearing, oneTime, bmc,
                 onFile, hostProps, heldOff, late, acted>>

\* The reboot cause is only read if some cause is to be left alone; a manager
\* that is not on the bus ends the program.
ReadCause(cause) ==
  /\ step = "cause"
  /\ IF RunOn # Optional /\ bmc = "absent" THEN Fails
     ELSE step' = IF cause \in Optional \ RunOn THEN "done" ELSE "oneTime"
  /\ UNCHANGED <<policy, token, left, calls, clearing, oneTime, bmc,
                 onFile, hostProps, heldOff, late, acted>>

ReadOneTime ==
  /\ step = "oneTime"
  /\ IF oneTime.policy = "None"
     THEN step' = "user" /\ UNCHANGED <<policy, token>>
     ELSE /\ step' = "clear"
          /\ policy' = oneTime.policy /\ token' = oneTime.token
  /\ UNCHANGED <<left, calls, clearing, oneTime, bmc, onFile,
                 hostProps, heldOff, late, acted>>

ReadUserPolicy(userPolicy) ==
  /\ step = "user"
  /\ step' = "delay" /\ policy' = userPolicy /\ token' = 0
  /\ UNCHANGED <<left, calls, clearing, oneTime, bmc, onFile,
                 hostProps, heldOff, late, acted>>

\* The one-time policy is set back to None, without waiting for an answer.
ClearOneTime ==
  /\ step = "clear"
  /\ step' = "delay" /\ clearing' = TRUE
  /\ UNCHANGED <<policy, token, left, calls, oneTime, bmc, onFile,
                 hostProps, heldOff, late, acted>>

\* What is left to do once the policy is known: AlwaysOn always acts, the
\* others may be tied to a loss of power, None does nothing.
Applies(lost) == \/ policy = "AlwaysOn"
           \/ /\ policy \in {"AlwaysOff", "Restore"}
              /\ OnlyOnPowerLoss => lost

\* Mutant: the delay comes from elsewhere, so the answer proves nothing.
ReadDelayAtOnce(delay, lost) ==
  /\ step = "delay"
  /\ left' = delay
  /\ step' = IF Applies(lost) THEN "await" ELSE "done"
  /\ UNCHANGED <<policy, token, calls, clearing, oneTime, bmc, onFile,
                 hostProps, heldOff, late, acted>>
\* The delay is read from the service that was told to clear the one-time
\* policy, so the answer comes after it was cleared.
ReadDelay(delay, lost) ==
  /\ step = "delay" /\ ~clearing
  /\ left' = delay
  /\ step' = IF Applies(lost) THEN "await" ELSE "done"
  /\ UNCHANGED <<policy, token, calls, clearing, oneTime, bmc, onFile,
                 hostProps, heldOff, late, acted>>

\* The delay is over: AlwaysOn acts at once, the others first read what was
\* last requested.
Ended == step' = IF policy = "AlwaysOn" THEN "setCause" ELSE "request"

\* Mutant: any state of the BMC ends the wait.
PollAnswered ==
  /\ bmc # "absent" /\ left' = left - 1
  /\ Ended /\ heldOff' = (requested = "Off") /\ UNCHANGED late
\* Mutant: a poll takes no time off the delay.
PollUnlimited ==
  IF WhenReady /\ bmc = "absent"
  THEN Fails /\ UNCHANGED <<left, heldOff, late>>
  ELSE /\ IF WhenReady /\ bmc = "Ready"
          THEN Ended /\ heldOff' = (requested = "Off")
          ELSE UNCHANGED <<step, heldOff>>
       /\ UNCHANGED <<left, late>>
\* One poll of waitBmcReady, a second apart; one second of the plain sleep.
Poll ==
  IF WhenReady /\ bmc = "absent"
  THEN Fails /\ UNCHANGED <<left, heldOff, late>>
  ELSE /\ left' = left - 1
       /\ IF WhenReady /\ bmc = "Ready"
          THEN Ended /\ heldOff' = (requested = "Off")
          ELSE UNCHANGED <<step, heldOff>>
       /\ UNCHANGED late

\* Mutant: the delay is only tested after a poll.
AwaitDelayAfterPoll ==
  /\ step = "await" /\ Poll
  /\ UNCHANGED <<policy, token, calls, clearing, oneTime, bmc, onFile,
                 hostProps, acted>>
\* applyPowerRestoreDelay: no delay at all means not even one poll.
AwaitDelay ==
  /\ step = "await"
  /\ IF left = 0
     THEN /\ Ended /\ heldOff' = (requested = "Off") /\ late' = TRUE
          /\ UNCHANGED left
     ELSE Poll
  /\ UNCHANGED <<policy, token, calls, clearing, oneTime, bmc, onFile,
                 hostProps, acted>>

\* Mutant: Restore trusts what was requested when the wait began.
ReadRequestedBefore ==
  /\ step = "request"
  /\ step' = IF policy = "Restore" THEN "setCause" ELSE "setOff"
  /\ UNCHANGED <<policy, token, left, calls, clearing, oneTime, bmc,
                 onFile, hostProps, heldOff, late, acted>>
\* Restore repeats a request that was not Off, AlwaysOff replaces it.
ReadRequested ==
  /\ step = "request"
  /\ IF ~hostUp THEN Fails
     ELSE step' = IF requested = "Off" THEN "done"
                  ELSE IF policy = "Restore" THEN "setCause" ELSE "setOff"
  /\ UNCHANGED <<policy, token, left, calls, clearing, oneTime, bmc,
                 onFile, hostProps, heldOff, late, acted>>
\* setProperty finds the service, then sends the Set without a reply.
Sends(call, next) ==
  IF hostUp THEN calls' = Append(calls, call) /\ step' = next
  ELSE Fails /\ UNCHANGED calls

SetRestartCause ==
  /\ step = "setCause" /\ Sends("cause", "setOn")
  /\ UNCHANGED <<policy, token, left, clearing, oneTime, bmc, onFile,
                 hostProps, heldOff, late, acted>>

SetRequested(t) ==
  /\ Sends(t, "done")
  /\ acted' = IF hostUp /\ token # 0 THEN [acted EXCEPT ![token] = @ + 1]
              ELSE acted
  /\ UNCHANGED <<policy, token, left, clearing, oneTime, bmc, onFile,
                 hostProps, heldOff, late>>
SetOn == step = "setOn" /\ SetRequested("On")
SetOff == step = "setOff" /\ SetRequested("Off")

\* A call of the program throws.
PolicyFails ==
  /\ step \in Working /\ Fails
  /\ UNCHANGED <<policy, token, left, calls, clearing, oneTime, bmc,
                 onFile, hostProps, heldOff, late, acted>>

PolicySteps ==
  \/ \E cause \in Causes : ReadCause(cause)
  \/ \E userPolicy \in Policies : ReadUserPolicy(userPolicy)
  \/ \E delay \in 0..MaxDelay, lost \in BOOLEAN : ReadDelay(delay, lost)
  \/ ReadOneTime \/ ClearOneTime
  \/ AwaitDelay \/ ReadRequested \/ SetRestartCause \/ SetOn \/ SetOff
---------------------------------------------------------------------------
\* Settings takes the Set.
SettingsClear ==
  /\ clearing
  /\ clearing' = FALSE /\ oneTime' = NoPolicy
  /\ UNCHANGED <<process, calls, bmc, onFile,
                 hostProps, heldOff, late, acted>>

\* A user sets a one-time policy, each with a token of its own.
UserSetsOneTime(p, n) ==
  /\ oneTime' = [policy |-> p, token |-> n]
  /\ UNCHANGED <<process, calls, clearing, bmc, onFile,
                 hostProps, heldOff, late, acted>>

\* The BMC manager appears, becomes Ready, leaves Ready.
BmcStateChanges ==
  /\ \/ bmc = "absent" /\ bmc' = "NotReady"
     \/ bmc = "NotReady" /\ bmc' = "Ready"
     \/ bmc = "Ready" /\ bmc' = "NotReady"
  /\ late' = (late \/ bmc = "Ready")
  /\ UNCHANGED <<process, calls, clearing, oneTime, onFile,
                 hostProps, heldOff, acted>>

\* What Host!Accepted makes of a request.
Accepts(t) == t = "Off" \/ (OnlyBootWhenReady => bmc = "Ready")
=============================================================================
