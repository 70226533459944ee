----------------------------- MODULE BMCSystem -----------------------------
(***************************************************************************)
(* The BMC state manager and the target monitor on one systemd: the monitor *)
(* has the quiesce target started, the manager tells clients.               *)
(***************************************************************************)
EXTENDS BMC, TargetMonitor

sysVars == <<vars, monVars>>

SystemInit == Init /\ MonInit

OfTheManager ==
  /\ \/ Manager
     \/ Environment
     \/ \E u \in Units : Stopped(u) \/ Completed(u)
  /\ UNCHANGED monVars

\* multi-user.target is one of the monitored targets.
StandbyFailsMonitored ==
  /\ onBus /\ StandbyFails
  /\ MonHear(Removed("standby", "failed"))
  /\ Failed("standby", Watched("standby", "failed"))
  /\ UNCHANGED <<monPhase, onBus, setUp, quiesceCall, serviceState, logged,
                 monSpent>>

OfTheMonitor ==
  /\ \/ MonStart /\ shutdown # "ordered"
     \/ \E s \in Immediate : LoadUnit(s) \/ ServiceFails(s) \/ ServiceRestarts(s)
     \/ \E s \in Services : \E r \in Results : JobFails(s, r)
     \/ SystemdAppears \/ ProcessNameChange
     \/ ReadState \/ SetUp \/ MonHandle \/ MonDie
  /\ UNCHANGED vars

\* systemd serves the call of startBmcQuiesceTarget.
QuiesceDelivered ==
  /\ quiesceCall /\ quiesceCall' = FALSE
  /\ QuiesceStarted
  /\ UNCHANGED <<monPhase, onBus, setUp, monInbox, serviceState, failures,
                 logged, monSpent>>

SystemReset == (Rebooted \/ ResetByHardware) /\ MonReset

SystemNext ==
  \/ OfTheManager \/ StandbyFailsMonitored \/ OfTheMonitor
  \/ QuiesceDelivered \/ SystemReset

\* systemd restarts both processes (Restart=always), they handle what they
\* receive, and jobs and reboots are carried out.
Fairness ==
  /\ WF_sysVars(Start /\ UNCHANGED monVars)
  /\ WF_sysVars((DiscoverQuiesced \/ DiscoverStandby) /\ UNCHANGED monVars)
  /\ WF_sysVars(HandleSignal /\ UNCHANGED monVars)
  /\ \A u \in Units : WF_sysVars((Completed(u) \/ Stopped(u)) /\ UNCHANGED monVars)
  /\ WF_sysVars(SystemdAppears /\ UNCHANGED vars)
  /\ WF_sysVars(Monitor /\ shutdown # "ordered" /\ UNCHANGED vars)
  /\ WF_sysVars(QuiesceDelivered)
  /\ WF_sysVars(Rebooted /\ MonReset)

SystemSpec == SystemInit /\ [][SystemNext]_sysVars /\ Fairness
---------------------------------------------------------------------------
\* What a client sees once the BMC cannot be relied upon any more.
Withdrawn == Life \in {"Quiesced", "Rebooting"}

\* A service of the immediate list that failed and stays failed brings the
\* BMC into Quiesced, if not into a reboot, although the monitor or the manager
\* dies meanwhile, unless the monitor could not set the service up or the
\* manager's own read of the target failed.  The code: ActiveState read by
\* initImmediateQuiesceMonitoring and the quiesce target read by
\* discoverInitialState.
FailureQuiesces ==
  \A s \in Immediate :
    serviceState[s] = "failed"
      ~> serviceState[s] = "running" \/ s \in missed \/ misread \/ Withdrawn

\* A crash the monitor has heard of brings the BMC into Quiesced even if
\* systemd has restarted the service meanwhile, unless the monitor dies first or
\* the manager's own read of the target fails.
\* The code: processImmediateQuiesceStateChange.
CrashQuiesces ==
  \A s \in Immediate :
    (\E i \in DOMAIN monInbox : monInbox[i] = Changed(s, "failed"))
      ~> monPhase = "down" \/ misread \/ Withdrawn
============================================================================
