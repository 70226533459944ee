----------------------------- MODULE BootProofs -----------------------------
(***************************************************************************)
(* The restore policy, for every delay, timeout and build, any number of   *)
(* users' requests and settings and BMC resets in every state.  The        *)
(* invariant that carries the proof says which Sets are under way at each  *)
(* step of the program, where a one-time policy lives until it is acted    *)
(* upon, and what the step after the delay still knows of the BMC and of   *)
(* the request.                                                            *)
(***************************************************************************)
EXTENDS BootSystem, TLAPS

Before == {"waiting", "skipped", "cause", "oneTime", "clear", "user",
           "delay", "await"}
After == {"request", "setCause", "setOn", "setOff"}

\* An On of the policy is under way.
Owed == calls \in {<<"On">>, <<"cause", "On">>}

\* The Sets under way at each step.
QueueByStep ==
  /\ step \in Before \cup {"request", "setCause", "setOff"} => calls = <<>>
  /\ step = "setOn" => calls \in {<<>>, <<"cause">>}
  /\ clearing => step \in {"delay", "failed"}

\* A one-time policy that is still to be acted upon is nowhere acted upon,
\* and what the program acts upon is no longer in Settings.
OneTimeLives ==
  /\ oneTime.token <= spent.settings + 1 /\ token <= spent.settings + 1
  /\ \A n \in DOMAIN acted :
       /\ acted[n] > 0 => n # oneTime.token /\ n <= spent.settings + 1
       /\ n = token /\ step \in {"clear", "delay", "await"} \cup After
            => acted[n] = 0
  /\ token # 0 /\ (step \in {"await"} \cup After \/ (step = "delay" /\ ~clearing))
       => oneTime.token # token

\* A policy that is past the delay in time finds the BMC Ready.
ReadyAfterDelay ==
  late \/ bmc = "Ready" \/ (step \notin After /\ ~Owed)

\* Restore only goes on from a request that is not an Off that stands.
OffStands ==
  /\ step \in Before => ~heldOff
  /\ heldOff /\ step = "request" => requested = "Off"
  /\ heldOff /\ policy = "Restore" => step \notin {"setCause", "setOn"} /\ ~Owed

Inv == /\ BootTypeOK /\ QueueByStep /\ OneTimeLives /\ OneTimeOnce
       /\ ReadyAfterDelay /\ PolicyAwaitsReady
       /\ OffStands

\* The queues and what taking and adding a call makes of them.
LEMMA QueueFacts ==
  /\ Append(<<>>, "cause") = <<"cause">> /\ Append(<<>>, "On") = <<"On">>
  /\ Append(<<>>, "Off") = <<"Off">>
  /\ Append(<<"cause">>, "On") = <<"cause", "On">>
  /\ Tail(<<"cause">>) = <<>> /\ Tail(<<"On">>) = <<>> /\ Tail(<<"Off">>) = <<>>
  /\ Tail(<<"cause", "On">>) = <<"On">>
  /\ Head(<<"cause">>) = "cause" /\ Head(<<"On">>) = "On" /\ Head(<<"Off">>) = "Off"
  /\ Head(<<"cause", "On">>) = "cause"
<1> DEFINE s == Append(<<"cause">>, "On")
           t == <<"cause", "On">>
<1>1. s \in Seq({"cause", "On"}) /\ t \in Seq({"cause", "On"})
  OBVIOUS
<1>2. Len(s) = 2 /\ Len(t) = 2
  OBVIOUS
<1>3. s[1] = t[1] /\ s[2] = t[2]
  OBVIOUS
<1>4. s = t
  <2> HIDE DEF s, t
  <2>1. s = [i \in 1..2 |-> s[i]] /\ t = [i \in 1..2 |-> t[i]]
    BY <1>1, <1>2
  <2>2. \A i \in 1..2 : s[i] = t[i]
    BY <1>3
  <2> QED BY <2>1, <2>2
<1>5. /\ Append(<<>>, "cause") = <<"cause">> /\ Append(<<>>, "On") = <<"On">>
      /\ Append(<<>>, "Off") = <<"Off">>
  OBVIOUS
<1>6. /\ Tail(<<"cause">>) = <<>> /\ Tail(<<"On">>) = <<>> /\ Tail(<<"Off">>) = <<>>
      /\ Tail(<<"cause", "On">>) = <<"On">>
  OBVIOUS
<1> QED BY <1>4, <1>5, <1>6

\* Which queues hold an On.
LEMMA OnQueued ==
  ASSUME NEW q \in Queues
  PROVE  (\A i \in DOMAIN q : q[i] # "On") <=> q \notin {<<"On">>, <<"cause", "On">>}
<1>1. <<"On">>[1] = "On" /\ 1 \in DOMAIN <<"On">>
  OBVIOUS
<1>2. <<"cause", "On">>[2] = "On" /\ 2 \in DOMAIN <<"cause", "On">>
  OBVIOUS
<1>3. q = <<>> => \A i \in DOMAIN q : q[i] # "On"
  OBVIOUS
<1>4. q = <<"cause">> => \A i \in DOMAIN q : q[i] # "On"
  OBVIOUS
<1>5. q = <<"Off">> => \A i \in DOMAIN q : q[i] # "On"
  OBVIOUS
<1> QED BY <1>1, <1>2, <1>3, <1>4, <1>5 DEF Queues

\* Taking a Set leaves no On that was not there.
LEMMA TailOwes ==
  ASSUME NEW q \in Queues, q # <<>>, Tail(q) \in {<<"On">>, <<"cause", "On">>}
  PROVE  q \in {<<"On">>, <<"cause", "On">>}
<1>1. <<>> # <<"On">> /\ <<>> # <<"cause", "On">>
  OBVIOUS
<1> QED BY <1>1, QueueFacts DEF Queues
---------------------------------------------------------------------------
\* What happens aside from the policy: the target, the recovery, the host.
Aside == \/ ChassisOn \/ TargetDone \/ RecoveryStarts \/ RecoveryRuns
         \/ LogFails \/ HostStarts \/ HostRuns \/ ChassisOff \/ HostQuiesces

\* None of it changes what the policy and its services know.
LEMMA AsideLeaves ==
  ASSUME ValuesOK, Aside
  PROVE  UNCHANGED <<restoreVars, refused>> /\ spent'.settings = spent.settings
<1>1. ASSUME LogFails
      PROVE  UNCHANGED <<restoreVars, refused>> /\ spent'.settings = spent.settings
  <2>1. spent' = [spent EXCEPT !.faults = @ + 1] /\ UNCHANGED <<restoreVars, refused>>
    BY <1>1 DEF LogFails, Spend
  <2> QED BY <2>1 DEF ValuesOK
<1> QED BY <1>1 DEF Aside, ChassisOn, TargetDone, RecoveryStarts, RecoveryRuns,
       HostStarts, HostRuns, ChassisOff, HostQuiesces

\* A reset takes one of the faults of the environment.
LEMMA ResetSpends ==
  ASSUME NEW b, Reset(b)
  PROVE  spent' = [spent EXCEPT !.faults = @ + 1]
BY DEF Reset, Spend

\* Every flag stays one.
LEMMA FlagsStep ==
  ASSUME FlagsOK, [Next]_vars
  PROVE  FlagsOK'
<1> USE DEF FlagsOK, restoreVars, process, hostProps, recoveryVars, world, boot
<1>1. ASSUME ResetChassisRunning
      PROVE  FlagsOK'
  BY <1>1 DEF ResetChassisRunning
<1>2. ASSUME ChassisOn
      PROVE  FlagsOK'
  BY <1>2 DEF ChassisOn
<1>3. ASSUME TargetDone
      PROVE  FlagsOK'
  BY <1>3 DEF TargetDone
<1>4. ASSUME ChassisHears
      PROVE  FlagsOK'
  BY <1>4 DEF ChassisHears
<1>5. ASSUME HostManagerStarts
      PROVE  FlagsOK'
  BY <1>5 DEF HostManagerStarts
<1>6. ASSUME DiscoverStarts
      PROVE  FlagsOK'
  BY <1>6 DEF DiscoverStarts, StartPolicy
<1>7. ASSUME RecoveryStarts
      PROVE  FlagsOK'
  BY <1>7 DEF RecoveryStarts, StartRecovery
<1>8. ASSUME NEW c \in Causes, ReadCause(c),
             UNCHANGED <<recoveryVars, world, boot, jobs, refused, spent>>
      PROVE  FlagsOK'
  BY <1>8 DEF ReadCause, Fails
<1>9. ASSUME NEW p \in Policies, ReadUserPolicy(p),
             UNCHANGED <<recoveryVars, world, boot, jobs, refused, spent>>
      PROVE  FlagsOK'
  BY <1>9 DEF ReadUserPolicy
<1>10. ASSUME NEW d \in 0..MaxDelay, NEW lost \in BOOLEAN, ReadDelay(d, lost),
             UNCHANGED <<recoveryVars, world, boot, jobs, refused, spent>>
      PROVE  FlagsOK'
  BY <1>10 DEF ReadDelay
<1>11. ASSUME ReadOneTime,
             UNCHANGED <<recoveryVars, world, boot, jobs, refused, spent>>
      PROVE  FlagsOK'
  BY <1>11 DEF ReadOneTime
<1>12. ASSUME ClearOneTime,
             UNCHANGED <<recoveryVars, world, boot, jobs, refused, spent>>
      PROVE  FlagsOK'
  BY <1>12 DEF ClearOneTime
<1>13. ASSUME AwaitDelay,
             UNCHANGED <<recoveryVars, world, boot, jobs, refused, spent>>
      PROVE  FlagsOK'
  BY <1>13 DEF AwaitDelay, Poll, Ended, Fails
<1>14. ASSUME ReadRequested,
             UNCHANGED <<recoveryVars, world, boot, jobs, refused, spent>>
      PROVE  FlagsOK'
  BY <1>14 DEF ReadRequested, Fails
<1>15. ASSUME SetRestartCause,
             UNCHANGED <<recoveryVars, world, boot, jobs, refused, spent>>
      PROVE  FlagsOK'
  BY <1>15 DEF SetRestartCause, Sends, Fails
<1>16. ASSUME SetOn,
             UNCHANGED <<recoveryVars, world, boot, jobs, refused, spent>>
      PROVE  FlagsOK'
  BY <1>16 DEF SetOn, SetRequested, Sends, Fails
<1>17. ASSUME SetOff,
             UNCHANGED <<recoveryVars, world, boot, jobs, refused, spent>>
      PROVE  FlagsOK'
  BY <1>17 DEF SetOff, SetRequested, Sends, Fails
<1>18. ASSUME SettingsClear,
             UNCHANGED <<recoveryVars, world, boot, jobs, refused, spent>>
      PROVE  FlagsOK'
  BY <1>18 DEF SettingsClear, NoPolicy
<1>19. ASSUME BmcStateChanges,
             UNCHANGED <<recoveryVars, world, boot, jobs, refused, spent>>
      PROVE  FlagsOK'
  BY <1>19 DEF BmcStateChanges
<1>20. ASSUME PolicyDies
      PROVE  FlagsOK'
  BY <1>20 DEF PolicyDies, PolicyFails, Fails, Spend
<1>21. ASSUME RecoveryRuns
      PROVE  FlagsOK'
  BY <1>21 DEF RecoveryRuns, PollFile, ReadProgress, CreateErrorLog,
       MoveToHostQuiesce
<1>22. ASSUME LogFails
      PROVE  FlagsOK'
  BY <1>22 DEF LogFails, CreateErrorLog, Spend
<1>23. ASSUME HandleSet
      PROVE  FlagsOK'
  BY <1>23 DEF HandleSet, Accepts, Job, Replaced
<1>24. ASSUME NEW t \in {"On", "Off"}, UserRequests(t)
      PROVE  FlagsOK'
  BY <1>24 DEF UserRequests, Accepts, Job, Replaced, Spend
<1>25. ASSUME NEW q \in OneTimePolicies, UserSets(q)
      PROVE  FlagsOK'
  BY <1>25 DEF UserSets, UserSetsOneTime, Spend
<1>26. ASSUME HostStarts
      PROVE  FlagsOK'
  BY <1>26 DEF HostStarts
<1>27. ASSUME HostRuns
      PROVE  FlagsOK'
  BY <1>27 DEF HostRuns
<1>28. ASSUME ChassisOff
      PROVE  FlagsOK'
  BY <1>28 DEF ChassisOff, RecoveryStops
<1>29. ASSUME HostQuiesces
      PROVE  FlagsOK'
  BY <1>29 DEF HostQuiesces
<1>30. ASSUME NEW b \in BOOLEAN, Reset(b)
      PROVE  FlagsOK'
  BY <1>30 DEF Reset, Spend
<1>31. CASE UNCHANGED vars
  BY <1>31 DEF vars
<1>32. ASSUME HostManagerDies
      PROVE  FlagsOK'
  BY <1>32 DEF HostManagerDies
<1> QED BY <1>1, <1>2, <1>3, <1>4, <1>5, <1>6, <1>7, <1>8, <1>9, <1>10,
          <1>11, <1>12, <1>13, <1>14, <1>15, <1>16, <1>17, <1>18, <1>19,
          <1>20, <1>21, <1>22, <1>23, <1>24, <1>25, <1>26, <1>27, <1>28,
          <1>29, <1>30, <1>31, <1>32
       DEF Next, PolicyRuns, PolicySteps

\* A bound of the environment is used up by one.
LEMMA SpendTypes ==
  ASSUME spent \in [requests : Nat, settings : 0..MaxSettings, faults : Nat],
         NEW what \in {"requests", "settings", "faults"}, NEW max, Spend(what, max),
         what = "settings" => max = MaxSettings
  PROVE  spent' \in [requests : Nat, settings : 0..MaxSettings, faults : Nat]
<1>1. spent' = [spent EXCEPT ![what] = spent[what] + 1]
  BY DEF Spend
<1>2. /\ spent.requests \in Nat /\ spent.settings \in Nat /\ spent.faults \in Nat
      /\ spent.settings <= MaxSettings /\ MaxSettings \in Nat
  BY RestoreAssumption
<1>3. spent[what] + 1 \in Nat
  BY <1>2
<1>4. what = "settings" => spent[what] + 1 \in 0..MaxSettings
  BY <1>2 DEF Spend
<1> QED BY <1>1, <1>3, <1>4

\* Every variable keeps its type.
LEMMA ValuesStep ==
  ASSUME ValuesOK, QueueByStep, [Next]_vars
  PROVE  ValuesOK'
<1> USE RestoreAssumption, TimeoutAssumption, BootAssumption DEF ValuesOK,
     Steps, Working, RecoverySteps, Recovering, restoreVars, process,
     hostProps, recoveryVars, world, boot
<1>1. ASSUME ResetChassisRunning
      PROVE  ValuesOK'
  BY <1>1 DEF ResetChassisRunning
<1>2. ASSUME ChassisOn
      PROVE  ValuesOK'
  BY <1>2 DEF ChassisOn
<1>3. ASSUME TargetDone
      PROVE  ValuesOK'
  BY <1>3 DEF TargetDone
<1>4. ASSUME ChassisHears
      PROVE  ValuesOK'
  BY <1>4 DEF ChassisHears
<1>5. ASSUME HostManagerStarts
      PROVE  ValuesOK'
  BY <1>5 DEF HostManagerStarts
<1>6. ASSUME DiscoverStarts
      PROVE  ValuesOK'
  BY <1>6 DEF DiscoverStarts, StartPolicy
<1>7. ASSUME RecoveryStarts
      PROVE  ValuesOK'
  BY <1>7 DEF RecoveryStarts, StartRecovery
<1>8. ASSUME NEW c \in Causes, ReadCause(c),
             UNCHANGED <<recoveryVars, world, boot, jobs, refused, spent>>
      PROVE  ValuesOK'
  BY <1>8 DEF ReadCause, Fails
<1>9. ASSUME NEW p \in Policies, ReadUserPolicy(p),
             UNCHANGED <<recoveryVars, world, boot, jobs, refused, spent>>
      PROVE  ValuesOK'
  BY <1>9 DEF ReadUserPolicy
<1>10. ASSUME NEW d \in 0..MaxDelay, NEW lost \in BOOLEAN, ReadDelay(d, lost),
             UNCHANGED <<recoveryVars, world, boot, jobs, refused, spent>>
      PROVE  ValuesOK'
  BY <1>10 DEF ReadDelay
<1>11. ASSUME ReadOneTime,
             UNCHANGED <<recoveryVars, world, boot, jobs, refused, spent>>
      PROVE  ValuesOK'
  BY <1>11 DEF ReadOneTime
<1>12. ASSUME ClearOneTime,
             UNCHANGED <<recoveryVars, world, boot, jobs, refused, spent>>
      PROVE  ValuesOK'
  BY <1>12 DEF ClearOneTime
<1>13. ASSUME AwaitDelay,
             UNCHANGED <<recoveryVars, world, boot, jobs, refused, spent>>
      PROVE  ValuesOK'
  BY <1>13 DEF AwaitDelay, Poll, Ended, Fails
<1>14. ASSUME ReadRequested,
             UNCHANGED <<recoveryVars, world, boot, jobs, refused, spent>>
      PROVE  ValuesOK'
  BY <1>14 DEF ReadRequested, Fails
<1>15. ASSUME SetRestartCause,
             UNCHANGED <<recoveryVars, world, boot, jobs, refused, spent>>
      PROVE  ValuesOK'
  <2>1. calls' \in Queues
    BY <1>15, QueueFacts DEF SetRestartCause, Sends, Fails, QueueByStep,
         Queues, Before
  <2> QED BY <1>15, <2>1 DEF SetRestartCause, Sends, Fails
<1>16. ASSUME SetOn,
             UNCHANGED <<recoveryVars, world, boot, jobs, refused, spent>>
      PROVE  ValuesOK'
  <2>1. calls' \in Queues
    BY <1>16, QueueFacts DEF SetOn, SetRequested, Sends, Fails, QueueByStep,
         Queues
  <2>2. acted' \in [1..(MaxSettings + 1) -> Nat]
    BY <1>16 DEF SetOn, SetRequested
  <2> QED BY <1>16, <2>1, <2>2 DEF SetOn, SetRequested, Sends, Fails
<1>17. ASSUME SetOff,
             UNCHANGED <<recoveryVars, world, boot, jobs, refused, spent>>
      PROVE  ValuesOK'
  <2>1. calls' \in Queues
    BY <1>17, QueueFacts DEF SetOff, SetRequested, Sends, Fails, QueueByStep,
         Queues
  <2>2. acted' \in [1..(MaxSettings + 1) -> Nat]
    BY <1>17 DEF SetOff, SetRequested
  <2> QED BY <1>17, <2>1, <2>2 DEF SetOff, SetRequested, Sends, Fails
<1>18. ASSUME SettingsClear,
             UNCHANGED <<recoveryVars, world, boot, jobs, refused, spent>>
      PROVE  ValuesOK'
  BY <1>18 DEF SettingsClear, NoPolicy, Policies
<1>19. ASSUME BmcStateChanges,
             UNCHANGED <<recoveryVars, world, boot, jobs, refused, spent>>
      PROVE  ValuesOK'
  BY <1>19 DEF BmcStateChanges
<1>20. ASSUME PolicyDies
      PROVE  ValuesOK'
  BY <1>20 DEF PolicyDies, PolicyFails, Fails, Spend
<1>21. ASSUME RecoveryRuns
      PROVE  ValuesOK'
  BY <1>21 DEF RecoveryRuns, PollFile, ReadProgress, CreateErrorLog,
       MoveToHostQuiesce
<1>22. ASSUME LogFails
      PROVE  ValuesOK'
  BY <1>22 DEF LogFails, CreateErrorLog, Spend
<1>23. ASSUME HandleSet
      PROVE  ValuesOK'
  <2>1. calls' \in Queues
    BY <1>23, QueueFacts DEF HandleSet, Queues
  <2>2. Head(calls) \in {"cause", "On", "Off"}
    BY <1>23, QueueFacts DEF HandleSet, Queues
  <2>3. requested' \in {"On", "Off"} /\ restartCause' \in {"Unknown", "PowerPolicy"}
        /\ jobs' \in SUBSET {"host-start", "host-shutdown"}
    BY <1>23, <2>2 DEF HandleSet, Accepts, Job, Replaced
  <2> QED BY <1>23, <2>1, <2>3 DEF HandleSet
<1>24. ASSUME NEW t \in {"On", "Off"}, UserRequests(t)
      PROVE  ValuesOK'
  <2>1. spent' \in [requests : Nat, settings : 0..MaxSettings, faults : Nat]
    BY <1>24, SpendTypes DEF UserRequests
  <2> QED BY <1>24, <2>1 DEF UserRequests, Accepts, Job, Replaced
<1>25. ASSUME NEW q \in OneTimePolicies, UserSets(q)
      PROVE  ValuesOK'
  <2>1. spent.settings + 2 \in 0..(MaxSettings + 1) /\ q \in Policies
    BY <1>25 DEF UserSets, Spend
  <2>2. oneTime' \in [policy : Policies, token : 0..(MaxSettings + 1)]
    BY <1>25, <2>1 DEF UserSets, UserSetsOneTime
  <2>3. spent' \in [requests : Nat, settings : 0..MaxSettings, faults : Nat]
    BY <1>25, SpendTypes DEF UserSets
  <2> QED BY <1>25, <2>2, <2>3 DEF UserSets, UserSetsOneTime
<1>26. ASSUME HostStarts
      PROVE  ValuesOK'
  BY <1>26 DEF HostStarts
<1>27. ASSUME HostRuns
      PROVE  ValuesOK'
  BY <1>27 DEF HostRuns
<1>28. ASSUME ChassisOff
      PROVE  ValuesOK'
  BY <1>28 DEF ChassisOff, RecoveryStops
<1>29. ASSUME HostQuiesces
      PROVE  ValuesOK'
  BY <1>29 DEF HostQuiesces
<1>30. ASSUME NEW b \in BOOLEAN, Reset(b)
      PROVE  ValuesOK'
  <2>1. calls' \in Queues /\ policy' \in Policies
    BY <1>30 DEF Reset, Queues, Policies
  <2>2. spent' \in [requests : Nat, settings : 0..MaxSettings, faults : Nat]
    BY <1>30, ResetSpends
  <2>3. UNCHANGED <<oneTime, requested, progress, acted>>
        /\ host' \in {"off", "booting", "running", "quiesced"}
    BY <1>30 DEF Reset
  <2>4. /\ step' = "waiting" /\ recovery' = "waiting" /\ token' = 0 /\ left' = 0
        /\ bmc' = "absent" /\ restartCause' = "Unknown" /\ jobs' = {}
        /\ patience' = RecoveryTimeout /\ onTarget' = "none"
    BY <1>30 DEF Reset
  <2> QED BY <2>1, <2>2, <2>3, <2>4
<1>31. CASE UNCHANGED vars
  BY <1>31 DEF vars
<1>32. ASSUME HostManagerDies
      PROVE  ValuesOK'
  <2>1. calls' \in Queues /\ jobs' \in SUBSET {"host-start", "host-shutdown"}
    BY <1>32 DEF HostManagerDies, Queues, Replaced, Job
  <2>2. spent' \in [requests : Nat, settings : 0..MaxSettings, faults : Nat]
    BY <1>32, SpendTypes DEF HostManagerDies
  <2> QED BY <1>32, <2>1, <2>2 DEF HostManagerDies
<1> QED BY <1>1, <1>2, <1>3, <1>4, <1>5, <1>6, <1>7, <1>8, <1>9, <1>10,
          <1>11, <1>12, <1>13, <1>14, <1>15, <1>16, <1>17, <1>18, <1>19,
          <1>20, <1>21, <1>22, <1>23, <1>24, <1>25, <1>26, <1>27, <1>28,
          <1>29, <1>30, <1>31, <1>32
       DEF Next, PolicyRuns, PolicySteps

\* The Sets under way go with the step of the program.
LEMMA QueueStep ==
  ASSUME BootTypeOK, QueueByStep, [Next]_vars
  PROVE  QueueByStep'
<1> USE QueueFacts DEF QueueByStep, Before, restoreVars, process, hostProps,
     recoveryVars, world, boot
<1>1. ASSUME ResetChassisRunning
      PROVE  QueueByStep'
  BY <1>1 DEF ResetChassisRunning
<1>2. ASSUME ChassisHears
      PROVE  QueueByStep'
  BY <1>2 DEF ChassisHears
<1>3. ASSUME HostManagerStarts
      PROVE  QueueByStep'
  BY <1>3 DEF HostManagerStarts
<1>4. ASSUME DiscoverStarts
      PROVE  QueueByStep'
  BY <1>4 DEF DiscoverStarts, StartPolicy
<1>5. ASSUME NEW c \in Causes, ReadCause(c),
             UNCHANGED <<recoveryVars, world, boot, jobs, refused, spent>>
      PROVE  QueueByStep'
  BY <1>5 DEF ReadCause, Fails
<1>6. ASSUME NEW p \in Policies, ReadUserPolicy(p),
             UNCHANGED <<recoveryVars, world, boot, jobs, refused, spent>>
      PROVE  QueueByStep'
  BY <1>6 DEF ReadUserPolicy
<1>7. ASSUME NEW d \in 0..MaxDelay, NEW lost \in BOOLEAN, ReadDelay(d, lost),
             UNCHANGED <<recoveryVars, world, boot, jobs, refused, spent>>
      PROVE  QueueByStep'
  BY <1>7 DEF ReadDelay
<1>8. ASSUME ReadOneTime,
             UNCHANGED <<recoveryVars, world, boot, jobs, refused, spent>>
      PROVE  QueueByStep'
  BY <1>8 DEF ReadOneTime
<1>9. ASSUME ClearOneTime,
             UNCHANGED <<recoveryVars, world, boot, jobs, refused, spent>>
      PROVE  QueueByStep'
  BY <1>9 DEF ClearOneTime
<1>10. ASSUME AwaitDelay,
             UNCHANGED <<recoveryVars, world, boot, jobs, refused, spent>>
      PROVE  QueueByStep'
  BY <1>10 DEF AwaitDelay, Poll, Ended, Fails
<1>11. ASSUME ReadRequested,
             UNCHANGED <<recoveryVars, world, boot, jobs, refused, spent>>
      PROVE  QueueByStep'
  BY <1>11 DEF ReadRequested, Fails
<1>12. ASSUME SetRestartCause,
             UNCHANGED <<recoveryVars, world, boot, jobs, refused, spent>>
      PROVE  QueueByStep'
  BY <1>12 DEF SetRestartCause, Sends, Fails
<1>13. ASSUME SetOn,
             UNCHANGED <<recoveryVars, world, boot, jobs, refused, spent>>
      PROVE  QueueByStep'
  BY <1>13 DEF SetOn, SetRequested, Sends, Fails
<1>14. ASSUME SetOff,
             UNCHANGED <<recoveryVars, world, boot, jobs, refused, spent>>
      PROVE  QueueByStep'
  BY <1>14 DEF SetOff, SetRequested, Sends, Fails
<1>15. ASSUME SettingsClear,
             UNCHANGED <<recoveryVars, world, boot, jobs, refused, spent>>
      PROVE  QueueByStep'
  BY <1>15 DEF SettingsClear, NoPolicy
<1>16. ASSUME BmcStateChanges,
             UNCHANGED <<recoveryVars, world, boot, jobs, refused, spent>>
      PROVE  QueueByStep'
  BY <1>16 DEF BmcStateChanges
<1>17. ASSUME PolicyDies
      PROVE  QueueByStep'
  BY <1>17 DEF PolicyDies, PolicyFails, Fails, Spend
<1>18. ASSUME HandleSet
      PROVE  QueueByStep'
  BY <1>18 DEF HandleSet, Accepts, Job, Replaced
<1>19. ASSUME NEW t \in {"On", "Off"}, UserRequests(t)
      PROVE  QueueByStep'
  BY <1>19 DEF UserRequests, Accepts, Job, Replaced, Spend
<1>20. ASSUME NEW q \in OneTimePolicies, UserSets(q)
      PROVE  QueueByStep'
  BY <1>20 DEF UserSets, UserSetsOneTime, Spend
<1>21. ASSUME NEW b \in BOOLEAN, Reset(b)
      PROVE  QueueByStep'
  BY <1>21 DEF Reset, Spend
<1>22. ASSUME Aside
      PROVE  QueueByStep'
  BY <1>22, AsideLeaves DEF BootTypeOK
<1>23. CASE UNCHANGED vars
  BY <1>23 DEF vars
<1>24. ASSUME HostManagerDies
      PROVE  QueueByStep'
  BY <1>24 DEF HostManagerDies
<1> QED BY <1>1, <1>2, <1>3, <1>4, <1>5, <1>6, <1>7, <1>8, <1>9, <1>10,
          <1>11, <1>12, <1>13, <1>14, <1>15, <1>16, <1>17, <1>18, <1>19,
          <1>20, <1>21, <1>22, <1>23, <1>24
       DEF Next, PolicyRuns, PolicySteps, Aside

\* A one-time policy is out of Settings before it is acted upon.
LEMMA OneTimeStep ==
  ASSUME BootTypeOK, QueueByStep, OneTimeLives, [Next]_vars
  PROVE  OneTimeLives'
<1> USE RestoreAssumption DEF OneTimeLives, After, BootTypeOK, FlagsOK,
     ValuesOK, restoreVars, process, hostProps, recoveryVars, world, boot
<1>1. ASSUME ResetChassisRunning
      PROVE  OneTimeLives'
  BY <1>1 DEF ResetChassisRunning
<1>2. ASSUME ChassisHears
      PROVE  OneTimeLives'
  BY <1>2 DEF ChassisHears
<1>3. ASSUME HostManagerStarts
      PROVE  OneTimeLives'
  BY <1>3 DEF HostManagerStarts
<1>4. ASSUME DiscoverStarts
      PROVE  OneTimeLives'
  BY <1>4 DEF DiscoverStarts, StartPolicy
<1>5. ASSUME NEW c \in Causes, ReadCause(c),
             UNCHANGED <<recoveryVars, world, boot, jobs, refused, spent>>
      PROVE  OneTimeLives'
  BY <1>5 DEF ReadCause, Fails
<1>6. ASSUME NEW p \in Policies, ReadUserPolicy(p),
             UNCHANGED <<recoveryVars, world, boot, jobs, refused, spent>>
      PROVE  OneTimeLives'
  BY <1>6 DEF ReadUserPolicy
<1>7. ASSUME NEW d \in 0..MaxDelay, NEW lost \in BOOLEAN, ReadDelay(d, lost),
             UNCHANGED <<recoveryVars, world, boot, jobs, refused, spent>>
      PROVE  OneTimeLives'
  BY <1>7 DEF ReadDelay
<1>8. ASSUME ReadOneTime,
             UNCHANGED <<recoveryVars, world, boot, jobs, refused, spent>>
      PROVE  OneTimeLives'
  BY <1>8 DEF ReadOneTime
<1>9. ASSUME ClearOneTime,
             UNCHANGED <<recoveryVars, world, boot, jobs, refused, spent>>
      PROVE  OneTimeLives'
  BY <1>9 DEF ClearOneTime
<1>10. ASSUME AwaitDelay,
             UNCHANGED <<recoveryVars, world, boot, jobs, refused, spent>>
      PROVE  OneTimeLives'
  BY <1>10 DEF AwaitDelay, Poll, Ended, Fails
<1>11. ASSUME ReadRequested,
             UNCHANGED <<recoveryVars, world, boot, jobs, refused, spent>>
      PROVE  OneTimeLives'
  BY <1>11 DEF ReadRequested, Fails
<1>12. ASSUME SetRestartCause,
             UNCHANGED <<recoveryVars, world, boot, jobs, refused, spent>>
      PROVE  OneTimeLives'
  BY <1>12 DEF SetRestartCause, Sends, Fails
<1>13. ASSUME SetOn,
             UNCHANGED <<recoveryVars, world, boot, jobs, refused, spent>>
      PROVE  OneTimeLives'
  BY <1>13 DEF SetOn, SetRequested, Sends, Fails
<1>14. ASSUME SetOff,
             UNCHANGED <<recoveryVars, world, boot, jobs, refused, spent>>
      PROVE  OneTimeLives'
  BY <1>14 DEF SetOff, SetRequested, Sends, Fails
<1>15. ASSUME SettingsClear,
             UNCHANGED <<recoveryVars, world, boot, jobs, refused, spent>>
      PROVE  OneTimeLives'
  BY <1>15 DEF SettingsClear, NoPolicy
<1>16. ASSUME BmcStateChanges,
             UNCHANGED <<recoveryVars, world, boot, jobs, refused, spent>>
      PROVE  OneTimeLives'
  BY <1>16 DEF BmcStateChanges
<1>17. ASSUME PolicyDies
      PROVE  OneTimeLives'
  BY <1>17 DEF PolicyDies, PolicyFails, Fails, Spend
<1>18. ASSUME HandleSet
      PROVE  OneTimeLives'
  BY <1>18 DEF HandleSet, Accepts, Job, Replaced
<1>19. ASSUME NEW t \in {"On", "Off"}, UserRequests(t)
      PROVE  OneTimeLives'
  BY <1>19 DEF UserRequests, Accepts, Job, Replaced, Spend
<1>20. ASSUME NEW q \in OneTimePolicies, UserSets(q)
      PROVE  OneTimeLives'
  <2>1. /\ oneTime'.token = spent.settings + 2 /\ spent'.settings = spent.settings + 1
        /\ UNCHANGED <<token, acted, step, clearing>>
    BY <1>20 DEF UserSets, UserSetsOneTime, Spend
  <2>2. spent.settings \in Nat /\ token \in Nat /\ DOMAIN acted \subseteq Nat
    OBVIOUS
  <2> QED BY <2>1, <2>2
<1>21. ASSUME NEW b \in BOOLEAN, Reset(b)
      PROVE  OneTimeLives'
  BY <1>21 DEF Reset, Spend
<1>22. ASSUME Aside
      PROVE  OneTimeLives'
  BY <1>22, AsideLeaves DEF BootTypeOK
<1>23. CASE UNCHANGED vars
  BY <1>23 DEF vars
<1>24. ASSUME HostManagerDies
      PROVE  OneTimeLives'
  BY <1>24 DEF HostManagerDies, Spend
<1> QED BY <1>1, <1>2, <1>3, <1>4, <1>5, <1>6, <1>7, <1>8, <1>9, <1>10,
          <1>11, <1>12, <1>13, <1>14, <1>15, <1>16, <1>17, <1>18, <1>19,
          <1>20, <1>21, <1>22, <1>23, <1>24
       DEF Next, PolicyRuns, PolicySteps, Aside

\* The BMC stays Ready after a delay that ended in time, or is late.
LEMMA ReadyStep ==
  ASSUME BootTypeOK, QueueByStep, ReadyAfterDelay, [Next]_vars
  PROVE  ReadyAfterDelay'
<1> USE QueueFacts DEF ReadyAfterDelay, After, Owed, BootTypeOK, FlagsOK,
     ValuesOK, restoreVars, process, hostProps, recoveryVars, world, boot
<1>1. ASSUME ResetChassisRunning
      PROVE  ReadyAfterDelay'
  BY <1>1 DEF ResetChassisRunning
<1>2. ASSUME ChassisHears
      PROVE  ReadyAfterDelay'
  BY <1>2 DEF ChassisHears
<1>3. ASSUME HostManagerStarts
      PROVE  ReadyAfterDelay'
  BY <1>3 DEF HostManagerStarts
<1>4. ASSUME DiscoverStarts
      PROVE  ReadyAfterDelay'
  BY <1>4 DEF DiscoverStarts, StartPolicy
<1>5. ASSUME NEW c \in Causes, ReadCause(c),
             UNCHANGED <<recoveryVars, world, boot, jobs, refused, spent>>
      PROVE  ReadyAfterDelay'
  BY <1>5 DEF ReadCause, Fails
<1>6. ASSUME NEW p \in Policies, ReadUserPolicy(p),
             UNCHANGED <<recoveryVars, world, boot, jobs, refused, spent>>
      PROVE  ReadyAfterDelay'
  BY <1>6 DEF ReadUserPolicy
<1>7. ASSUME NEW d \in 0..MaxDelay, NEW lost \in BOOLEAN, ReadDelay(d, lost),
             UNCHANGED <<recoveryVars, world, boot, jobs, refused, spent>>
      PROVE  ReadyAfterDelay'
  BY <1>7 DEF ReadDelay
<1>8. ASSUME ReadOneTime,
             UNCHANGED <<recoveryVars, world, boot, jobs, refused, spent>>
      PROVE  ReadyAfterDelay'
  BY <1>8 DEF ReadOneTime
<1>9. ASSUME ClearOneTime,
             UNCHANGED <<recoveryVars, world, boot, jobs, refused, spent>>
      PROVE  ReadyAfterDelay'
  BY <1>9 DEF ClearOneTime
<1>10. ASSUME AwaitDelay,
             UNCHANGED <<recoveryVars, world, boot, jobs, refused, spent>>
      PROVE  ReadyAfterDelay'
  BY <1>10 DEF AwaitDelay, Poll, Ended, Fails
<1>11. ASSUME ReadRequested,
             UNCHANGED <<recoveryVars, world, boot, jobs, refused, spent>>
      PROVE  ReadyAfterDelay'
  BY <1>11 DEF ReadRequested, Fails
<1>12. ASSUME SetRestartCause,
             UNCHANGED <<recoveryVars, world, boot, jobs, refused, spent>>
      PROVE  ReadyAfterDelay'
  BY <1>12 DEF SetRestartCause, Sends, Fails
<1>13. ASSUME SetOn,
             UNCHANGED <<recoveryVars, world, boot, jobs, refused, spent>>
      PROVE  ReadyAfterDelay'
  BY <1>13 DEF SetOn, SetRequested, Sends, Fails
<1>14. ASSUME SetOff,
             UNCHANGED <<recoveryVars, world, boot, jobs, refused, spent>>
      PROVE  ReadyAfterDelay'
  BY <1>14 DEF SetOff, SetRequested, Sends, Fails
<1>15. ASSUME SettingsClear,
             UNCHANGED <<recoveryVars, world, boot, jobs, refused, spent>>
      PROVE  ReadyAfterDelay'
  BY <1>15 DEF SettingsClear, NoPolicy
<1>16. ASSUME BmcStateChanges,
             UNCHANGED <<recoveryVars, world, boot, jobs, refused, spent>>
      PROVE  ReadyAfterDelay'
  BY <1>16 DEF BmcStateChanges
<1>17. ASSUME PolicyDies
      PROVE  ReadyAfterDelay'
  BY <1>17 DEF PolicyDies, PolicyFails, Fails, Spend
<1>18. ASSUME HandleSet
      PROVE  ReadyAfterDelay'
  <2>1. calls' = Tail(calls) /\ calls \in Queues /\ calls # <<>>
        /\ UNCHANGED <<late, bmc, step>>
    BY <1>18 DEF HandleSet
  <2>2. Owed' => Owed
    BY <2>1, TailOwes
  <2> QED BY <2>1, <2>2
<1>19. ASSUME NEW t \in {"On", "Off"}, UserRequests(t)
      PROVE  ReadyAfterDelay'
  BY <1>19 DEF UserRequests, Accepts, Job, Replaced, Spend
<1>20. ASSUME NEW q \in OneTimePolicies, UserSets(q)
      PROVE  ReadyAfterDelay'
  BY <1>20 DEF UserSets, UserSetsOneTime, Spend
<1>21. ASSUME NEW b \in BOOLEAN, Reset(b)
      PROVE  ReadyAfterDelay'
  BY <1>21 DEF Reset, Spend
<1>22. ASSUME Aside
      PROVE  ReadyAfterDelay'
  BY <1>22, AsideLeaves DEF BootTypeOK
<1>23. CASE UNCHANGED vars
  BY <1>23 DEF vars
<1>24. ASSUME HostManagerDies
      PROVE  ReadyAfterDelay'
  BY <1>24 DEF HostManagerDies
<1> QED BY <1>1, <1>2, <1>3, <1>4, <1>5, <1>6, <1>7, <1>8, <1>9, <1>10,
          <1>11, <1>12, <1>13, <1>14, <1>15, <1>16, <1>17, <1>18, <1>19,
          <1>20, <1>21, <1>22, <1>23, <1>24
       DEF Next, PolicyRuns, PolicySteps, Aside

\* An Off that stands after the delay is read, and left standing.
LEMMA OffStep ==
  ASSUME BootTypeOK, QueueByStep, OffStands, [Next]_vars
  PROVE  OffStands'
<1> USE QueueFacts DEF OffStands, Before, Owed, BootTypeOK, FlagsOK, ValuesOK,
     restoreVars, process, hostProps, recoveryVars, world, boot
<1>1. ASSUME ResetChassisRunning
      PROVE  OffStands'
  BY <1>1 DEF ResetChassisRunning
<1>2. ASSUME ChassisHears
      PROVE  OffStands'
  BY <1>2 DEF ChassisHears
<1>3. ASSUME HostManagerStarts
      PROVE  OffStands'
  BY <1>3 DEF HostManagerStarts
<1>4. ASSUME DiscoverStarts
      PROVE  OffStands'
  BY <1>4 DEF DiscoverStarts, StartPolicy
<1>5. ASSUME NEW c \in Causes, ReadCause(c),
             UNCHANGED <<recoveryVars, world, boot, jobs, refused, spent>>
      PROVE  OffStands'
  BY <1>5 DEF ReadCause, Fails
<1>6. ASSUME NEW p \in Policies, ReadUserPolicy(p),
             UNCHANGED <<recoveryVars, world, boot, jobs, refused, spent>>
      PROVE  OffStands'
  BY <1>6 DEF ReadUserPolicy
<1>7. ASSUME NEW d \in 0..MaxDelay, NEW lost \in BOOLEAN, ReadDelay(d, lost),
             UNCHANGED <<recoveryVars, world, boot, jobs, refused, spent>>
      PROVE  OffStands'
  BY <1>7 DEF ReadDelay
<1>8. ASSUME ReadOneTime,
             UNCHANGED <<recoveryVars, world, boot, jobs, refused, spent>>
      PROVE  OffStands'
  BY <1>8 DEF ReadOneTime
<1>9. ASSUME ClearOneTime,
             UNCHANGED <<recoveryVars, world, boot, jobs, refused, spent>>
      PROVE  OffStands'
  BY <1>9 DEF ClearOneTime
<1>10. ASSUME AwaitDelay,
             UNCHANGED <<recoveryVars, world, boot, jobs, refused, spent>>
      PROVE  OffStands'
  <2>1. calls = <<>> /\ UNCHANGED <<policy, calls, requested>>
    BY <1>10 DEF AwaitDelay, QueueByStep
  <2>2. CASE step' = "await"
    BY <1>10, <2>2 DEF AwaitDelay, Poll, Ended, Fails
  <2>3. CASE step' = "failed"
    BY <1>10, <2>1, <2>3 DEF AwaitDelay, Poll, Ended, Fails
  <2>4. CASE Ended
    <3>1. heldOff' <=> requested = "Off"
      BY <1>10, <2>4 DEF AwaitDelay, Poll, Ended, Fails
    <3>2. /\ step' = "setCause" => policy = "AlwaysOn"
          /\ step' \in {"setCause", "request"}
      BY <2>4 DEF Ended
    <3> QED BY <2>1, <3>1, <3>2
  <2> QED BY <1>10, <2>2, <2>3, <2>4 DEF AwaitDelay, Poll, Fails
<1>11. ASSUME ReadRequested,
             UNCHANGED <<recoveryVars, world, boot, jobs, refused, spent>>
      PROVE  OffStands'
  BY <1>11 DEF ReadRequested, Fails
<1>12. ASSUME SetRestartCause,
             UNCHANGED <<recoveryVars, world, boot, jobs, refused, spent>>
      PROVE  OffStands'
  BY <1>12 DEF SetRestartCause, Sends, Fails
<1>13. ASSUME SetOn,
             UNCHANGED <<recoveryVars, world, boot, jobs, refused, spent>>
      PROVE  OffStands'
  BY <1>13 DEF SetOn, SetRequested, Sends, Fails
<1>14. ASSUME SetOff,
             UNCHANGED <<recoveryVars, world, boot, jobs, refused, spent>>
      PROVE  OffStands'
  BY <1>14 DEF SetOff, SetRequested, Sends, Fails
<1>15. ASSUME SettingsClear,
             UNCHANGED <<recoveryVars, world, boot, jobs, refused, spent>>
      PROVE  OffStands'
  BY <1>15 DEF SettingsClear, NoPolicy
<1>16. ASSUME BmcStateChanges,
             UNCHANGED <<recoveryVars, world, boot, jobs, refused, spent>>
      PROVE  OffStands'
  BY <1>16 DEF BmcStateChanges
<1>17. ASSUME PolicyDies
      PROVE  OffStands'
  BY <1>17 DEF PolicyDies, PolicyFails, Fails, Spend
<1>18. ASSUME HandleSet
      PROVE  OffStands'
  <2>1. Owed' => Owed
    <3>1. calls' = Tail(calls) /\ calls \in Queues /\ calls # <<>>
      BY <1>18 DEF HandleSet
    <3> QED BY <3>1, TailOwes
  <2>2. step # "request" /\ UNCHANGED <<step, policy, heldOff>>
    BY <1>18 DEF HandleSet, QueueByStep
  <2> QED BY <2>1, <2>2
<1>19. ASSUME NEW t \in {"On", "Off"}, UserRequests(t)
      PROVE  OffStands'
  BY <1>19 DEF UserRequests, Accepts, Job, Replaced, Spend
<1>20. ASSUME NEW q \in OneTimePolicies, UserSets(q)
      PROVE  OffStands'
  BY <1>20 DEF UserSets, UserSetsOneTime, Spend
<1>21. ASSUME NEW b \in BOOLEAN, Reset(b)
      PROVE  OffStands'
  BY <1>21 DEF Reset, Spend
<1>22. ASSUME Aside
      PROVE  OffStands'
  BY <1>22, AsideLeaves DEF BootTypeOK
<1>23. CASE UNCHANGED vars
  BY <1>23 DEF vars
<1>24. ASSUME HostManagerDies
      PROVE  OffStands'
  BY <1>24 DEF HostManagerDies
<1> QED BY <1>1, <1>2, <1>3, <1>4, <1>5, <1>6, <1>7, <1>8, <1>9, <1>10,
          <1>11, <1>12, <1>13, <1>14, <1>15, <1>16, <1>17, <1>18, <1>19,
          <1>20, <1>21, <1>22, <1>23, <1>24
       DEF Next, PolicyRuns, PolicySteps, Aside

\* Nothing is acted upon a second time.
LEMMA OnceStep ==
  ASSUME BootTypeOK, OneTimeLives, OneTimeOnce, [Next]_vars
  PROVE  OneTimeOnce'
<1> USE DEF OneTimeOnce, restoreVars, process, hostProps, recoveryVars, world,
     boot
<1>1. ASSUME ResetChassisRunning
      PROVE  OneTimeOnce'
  BY <1>1 DEF ResetChassisRunning
<1>2. ASSUME ChassisHears
      PROVE  OneTimeOnce'
  BY <1>2 DEF ChassisHears
<1>3. ASSUME HostManagerStarts
      PROVE  OneTimeOnce'
  BY <1>3 DEF HostManagerStarts
<1>4. ASSUME DiscoverStarts
      PROVE  OneTimeOnce'
  BY <1>4 DEF DiscoverStarts, StartPolicy
<1>5. ASSUME NEW c \in Causes, ReadCause(c),
             UNCHANGED <<recoveryVars, world, boot, jobs, refused, spent>>
      PROVE  OneTimeOnce'
  BY <1>5 DEF ReadCause, Fails
<1>6. ASSUME NEW p \in Policies, ReadUserPolicy(p),
             UNCHANGED <<recoveryVars, world, boot, jobs, refused, spent>>
      PROVE  OneTimeOnce'
  BY <1>6 DEF ReadUserPolicy
<1>7. ASSUME NEW d \in 0..MaxDelay, NEW lost \in BOOLEAN, ReadDelay(d, lost),
             UNCHANGED <<recoveryVars, world, boot, jobs, refused, spent>>
      PROVE  OneTimeOnce'
  BY <1>7 DEF ReadDelay
<1>8. ASSUME ReadOneTime,
             UNCHANGED <<recoveryVars, world, boot, jobs, refused, spent>>
      PROVE  OneTimeOnce'
  BY <1>8 DEF ReadOneTime
<1>9. ASSUME ClearOneTime,
             UNCHANGED <<recoveryVars, world, boot, jobs, refused, spent>>
      PROVE  OneTimeOnce'
  BY <1>9 DEF ClearOneTime
<1>10. ASSUME AwaitDelay,
             UNCHANGED <<recoveryVars, world, boot, jobs, refused, spent>>
      PROVE  OneTimeOnce'
  BY <1>10 DEF AwaitDelay, Poll, Ended, Fails
<1>11. ASSUME ReadRequested,
             UNCHANGED <<recoveryVars, world, boot, jobs, refused, spent>>
      PROVE  OneTimeOnce'
  BY <1>11 DEF ReadRequested, Fails
<1>12. ASSUME SetRestartCause,
             UNCHANGED <<recoveryVars, world, boot, jobs, refused, spent>>
      PROVE  OneTimeOnce'
  BY <1>12 DEF SetRestartCause, Sends, Fails
<1>13. ASSUME SetOn,
             UNCHANGED <<recoveryVars, world, boot, jobs, refused, spent>>
      PROVE  OneTimeOnce'
  <2>1. CASE acted' = acted
    BY <2>1
  <2>2. CASE hostUp /\ token # 0
    <3>1. acted' = [acted EXCEPT ![token] = acted[token] + 1] /\ step \in After
      BY <1>13, <2>2 DEF SetOn, SetRequested, After
    <3>2. token \in 1..(MaxSettings + 1) /\ acted \in [1..(MaxSettings + 1) -> Nat]
      BY <2>2, RestoreAssumption DEF BootTypeOK, ValuesOK
    <3>3. acted[token] = 0
      BY <3>1, <3>2 DEF OneTimeLives
    <3> QED BY <3>1, <3>2, <3>3
  <2> QED BY <1>13, <2>1, <2>2 DEF SetOn, SetRequested
<1>14. ASSUME SetOff,
             UNCHANGED <<recoveryVars, world, boot, jobs, refused, spent>>
      PROVE  OneTimeOnce'
  <2>1. CASE acted' = acted
    BY <2>1
  <2>2. CASE hostUp /\ token # 0
    <3>1. acted' = [acted EXCEPT ![token] = acted[token] + 1] /\ step \in After
      BY <1>14, <2>2 DEF SetOff, SetRequested, After
    <3>2. token \in 1..(MaxSettings + 1) /\ acted \in [1..(MaxSettings + 1) -> Nat]
      BY <2>2, RestoreAssumption DEF BootTypeOK, ValuesOK
    <3>3. acted[token] = 0
      BY <3>1, <3>2 DEF OneTimeLives
    <3> QED BY <3>1, <3>2, <3>3
  <2> QED BY <1>14, <2>1, <2>2 DEF SetOff, SetRequested
<1>15. ASSUME SettingsClear,
             UNCHANGED <<recoveryVars, world, boot, jobs, refused, spent>>
      PROVE  OneTimeOnce'
  BY <1>15 DEF SettingsClear, NoPolicy
<1>16. ASSUME BmcStateChanges,
             UNCHANGED <<recoveryVars, world, boot, jobs, refused, spent>>
      PROVE  OneTimeOnce'
  BY <1>16 DEF BmcStateChanges
<1>17. ASSUME PolicyDies
      PROVE  OneTimeOnce'
  BY <1>17 DEF PolicyDies, PolicyFails, Fails, Spend
<1>18. ASSUME HandleSet
      PROVE  OneTimeOnce'
  BY <1>18 DEF HandleSet, Accepts, Job, Replaced
<1>19. ASSUME NEW t \in {"On", "Off"}, UserRequests(t)
      PROVE  OneTimeOnce'
  BY <1>19 DEF UserRequests, Accepts, Job, Replaced, Spend
<1>20. ASSUME NEW q \in OneTimePolicies, UserSets(q)
      PROVE  OneTimeOnce'
  BY <1>20 DEF UserSets, UserSetsOneTime, Spend
<1>21. ASSUME NEW b \in BOOLEAN, Reset(b)
      PROVE  OneTimeOnce'
  BY <1>21 DEF Reset, Spend
<1>22. ASSUME Aside
      PROVE  OneTimeOnce'
  BY <1>22, AsideLeaves DEF BootTypeOK
<1>23. CASE UNCHANGED vars
  BY <1>23 DEF vars
<1>24. ASSUME HostManagerDies
      PROVE  OneTimeOnce'
  BY <1>24 DEF HostManagerDies
<1> QED BY <1>1, <1>2, <1>3, <1>4, <1>5, <1>6, <1>7, <1>8, <1>9, <1>10,
          <1>11, <1>12, <1>13, <1>14, <1>15, <1>16, <1>17, <1>18, <1>19,
          <1>20, <1>21, <1>22, <1>23, <1>24
       DEF Next, PolicyRuns, PolicySteps, Aside

\* An On that is refused is one that is late.
LEMMA AwaitsStep ==
  ASSUME BootTypeOK, ReadyAfterDelay, PolicyAwaitsReady, [Next]_vars
  PROVE  PolicyAwaitsReady'
<1> USE DEF PolicyAwaitsReady, BootTypeOK, FlagsOK, restoreVars, process,
     hostProps, recoveryVars, world, boot
<1>1. ASSUME ResetChassisRunning
      PROVE  PolicyAwaitsReady'
  BY <1>1 DEF ResetChassisRunning
<1>2. ASSUME ChassisHears
      PROVE  PolicyAwaitsReady'
  BY <1>2 DEF ChassisHears
<1>3. ASSUME HostManagerStarts
      PROVE  PolicyAwaitsReady'
  BY <1>3 DEF HostManagerStarts
<1>4. ASSUME DiscoverStarts
      PROVE  PolicyAwaitsReady'
  BY <1>4 DEF DiscoverStarts, StartPolicy
<1>5. ASSUME NEW c \in Causes, ReadCause(c),
             UNCHANGED <<recoveryVars, world, boot, jobs, refused, spent>>
      PROVE  PolicyAwaitsReady'
  BY <1>5 DEF ReadCause, Fails
<1>6. ASSUME NEW p \in Policies, ReadUserPolicy(p),
             UNCHANGED <<recoveryVars, world, boot, jobs, refused, spent>>
      PROVE  PolicyAwaitsReady'
  BY <1>6 DEF ReadUserPolicy
<1>7. ASSUME NEW d \in 0..MaxDelay, NEW lost \in BOOLEAN, ReadDelay(d, lost),
             UNCHANGED <<recoveryVars, world, boot, jobs, refused, spent>>
      PROVE  PolicyAwaitsReady'
  BY <1>7 DEF ReadDelay
<1>8. ASSUME ReadOneTime,
             UNCHANGED <<recoveryVars, world, boot, jobs, refused, spent>>
      PROVE  PolicyAwaitsReady'
  BY <1>8 DEF ReadOneTime
<1>9. ASSUME ClearOneTime,
             UNCHANGED <<recoveryVars, world, boot, jobs, refused, spent>>
      PROVE  PolicyAwaitsReady'
  BY <1>9 DEF ClearOneTime
<1>10. ASSUME AwaitDelay,
             UNCHANGED <<recoveryVars, world, boot, jobs, refused, spent>>
      PROVE  PolicyAwaitsReady'
  <2>1. late => late'
    BY <1>10 DEF AwaitDelay, Poll, Fails
  <2> QED BY <1>10, <2>1
<1>11. ASSUME ReadRequested,
             UNCHANGED <<recoveryVars, world, boot, jobs, refused, spent>>
      PROVE  PolicyAwaitsReady'
  BY <1>11 DEF ReadRequested, Fails
<1>12. ASSUME SetRestartCause,
             UNCHANGED <<recoveryVars, world, boot, jobs, refused, spent>>
      PROVE  PolicyAwaitsReady'
  BY <1>12 DEF SetRestartCause, Sends, Fails
<1>13. ASSUME SetOn,
             UNCHANGED <<recoveryVars, world, boot, jobs, refused, spent>>
      PROVE  PolicyAwaitsReady'
  BY <1>13 DEF SetOn, SetRequested, Sends, Fails
<1>14. ASSUME SetOff,
             UNCHANGED <<recoveryVars, world, boot, jobs, refused, spent>>
      PROVE  PolicyAwaitsReady'
  BY <1>14 DEF SetOff, SetRequested, Sends, Fails
<1>15. ASSUME SettingsClear,
             UNCHANGED <<recoveryVars, world, boot, jobs, refused, spent>>
      PROVE  PolicyAwaitsReady'
  BY <1>15 DEF SettingsClear, NoPolicy
<1>16. ASSUME BmcStateChanges,
             UNCHANGED <<recoveryVars, world, boot, jobs, refused, spent>>
      PROVE  PolicyAwaitsReady'
  <2>1. late => late'
    BY <1>16 DEF BmcStateChanges
  <2> QED BY <1>16, <2>1
<1>17. ASSUME PolicyDies
      PROVE  PolicyAwaitsReady'
  BY <1>17 DEF PolicyDies, PolicyFails, Fails, Spend
<1>18. ASSUME HandleSet
      PROVE  PolicyAwaitsReady'
  <2>1. late' = late
    BY <1>18 DEF HandleSet
  <2>2. CASE refused' = refused
    BY <2>1, <2>2
  <2>3. CASE ~Accepts(Head(calls)) /\ Head(calls) # "cause"
    <3>1. Head(calls) = "On" /\ bmc # "Ready"
      BY <1>18, <2>3, QueueFacts DEF HandleSet, Accepts, ValuesOK, Queues
    <3>2. Owed
      BY <1>18, <3>1, QueueFacts DEF HandleSet, ValuesOK, Queues, Owed
    <3> QED BY <2>1, <3>1, <3>2 DEF ReadyAfterDelay
  <2> QED BY <1>18, <2>2, <2>3 DEF HandleSet
<1>19. ASSUME NEW t \in {"On", "Off"}, UserRequests(t)
      PROVE  PolicyAwaitsReady'
  BY <1>19 DEF UserRequests, Accepts, Job, Replaced, Spend
<1>20. ASSUME NEW q \in OneTimePolicies, UserSets(q)
      PROVE  PolicyAwaitsReady'
  BY <1>20 DEF UserSets, UserSetsOneTime, Spend
<1>21. ASSUME NEW b \in BOOLEAN, Reset(b)
      PROVE  PolicyAwaitsReady'
  BY <1>21 DEF Reset, Spend
<1>22. ASSUME Aside
      PROVE  PolicyAwaitsReady'
  BY <1>22, AsideLeaves DEF BootTypeOK
<1>23. CASE UNCHANGED vars
  BY <1>23 DEF vars
<1>24. ASSUME HostManagerDies
      PROVE  PolicyAwaitsReady'
  BY <1>24 DEF HostManagerDies
<1> QED BY <1>1, <1>2, <1>3, <1>4, <1>5, <1>6, <1>7, <1>8, <1>9, <1>10,
          <1>11, <1>12, <1>13, <1>14, <1>15, <1>16, <1>17, <1>18, <1>19,
          <1>20, <1>21, <1>22, <1>23, <1>24
       DEF Next, PolicyRuns, PolicySteps, Aside
---------------------------------------------------------------------------
\* A BMC that has just booted has acted on no policy yet.
LEMMA InvStart == Init => Inv
<1> SUFFICES ASSUME Init PROVE Inv
  OBVIOUS
<1> USE RestoreAssumption, TimeoutAssumption, BootAssumption
        DEF Init, Volatile, RecoveryInit
<1>1. FlagsOK
  BY DEF FlagsOK
<1>2. oneTime \in [policy : Policies, token : 0..(MaxSettings + 1)]
  <2>1. CASE oneTime = NoPolicy
    BY <2>1 DEF NoPolicy, Policies
  <2>2. CASE oneTime \in [policy : OneTimePolicies, token : {1}]
    <3>1. oneTime.policy \in Policies /\ oneTime.token \in 0..(MaxSettings + 1)
      BY <2>2
    <3>2. oneTime = [policy |-> oneTime.policy, token |-> oneTime.token]
      BY <2>2
    <3> QED BY <3>1, <3>2
  <2> QED BY <2>1, <2>2
<1>3. ValuesOK
  <2>1. calls \in Queues /\ step \in Steps /\ policy \in Policies
        /\ recovery \in RecoverySteps
    BY DEF Queues, Steps, Policies, RecoverySteps
  <2>2. /\ acted \in [1..(MaxSettings + 1) -> Nat] /\ jobs \in SUBSET {"host-start", "host-shutdown"}
        /\ spent \in [requests : Nat, settings : 0..MaxSettings, faults : Nat]
    OBVIOUS
  <2>3. /\ token \in 0..(MaxSettings + 1) /\ left \in 0..MaxDelay
        /\ patience \in 0..RecoveryTimeout
    OBVIOUS
  <2>4. /\ requested \in {"On", "Off"} /\ restartCause \in {"Unknown", "PowerPolicy"}
        /\ onTarget \in {"none", "queued", "active", "heard"}
        /\ host \in {"off", "booting", "running", "quiesced"}
        /\ progress \in {"Unspecified", "Booting"} /\ bmc \in {"absent", "NotReady", "Ready"}
    OBVIOUS
  <2> QED BY <1>2, <2>1, <2>2, <2>3, <2>4 DEF ValuesOK
<1>4. QueueByStep /\ OffStands
  BY DEF QueueByStep, OffStands, Before
<1>5. OneTimeLives /\ OneTimeOnce
  <2>1. oneTime.token \in {0, 1} /\ token = 0 /\ step = "waiting" /\ spent.settings = 0
    BY DEF NoPolicy
  <2>2. \A n \in DOMAIN acted : acted[n] = 0
    OBVIOUS
  <2> HIDE DEF Init, Volatile
  <2> QED BY <2>1, <2>2 DEF OneTimeLives, OneTimeOnce, After
<1>6. ReadyAfterDelay /\ PolicyAwaitsReady
  <2>1. ~Owed
    BY DEF Owed
  <2> QED BY <2>1 DEF ReadyAfterDelay, After, PolicyAwaitsReady
<1> QED BY <1>1, <1>3, <1>4, <1>5, <1>6 DEF Inv, BootTypeOK

\* The invariant of discovery and of the reset recovery holds in every
\* behaviour; the theorems below are its parts.
THEOREM BootInvariant == Spec => []Inv
<1>1. Inv /\ [Next]_vars => Inv'
  BY FlagsStep, ValuesStep, QueueStep, OneTimeStep, OnceStep, ReadyStep,
     AwaitsStep, OffStep DEF Inv, BootTypeOK
<1> QED BY <1>1, InvStart, PTL DEF Spec

\* The types hold in every build and for every bound.
THEOREM BootTypes == Spec => []BootTypeOK
<1>1. Inv => BootTypeOK
  BY DEF Inv
<1> QED BY <1>1, BootInvariant, PTL

\* A one-time policy decides one start of the BMC at most.
THEOREM BootOneTimeOnce == Spec => []OneTimeOnce
<1>1. Inv => OneTimeOnce
  BY DEF Inv
<1> QED BY <1>1, BootInvariant, PTL

\* A BMC that has its whole delay and stays Ready takes the policy's On.
THEOREM BootPolicyAwaitsReady == Spec => []PolicyAwaitsReady
<1>1. Inv => PolicyAwaitsReady
  BY DEF Inv
<1> QED BY <1>1, BootInvariant, PTL

\* The policy Restore leaves an Off that stands when the delay is over.
THEOREM BootRestoreHonoursOff == Spec => []RestoreHonoursOff
<1>1. Inv => RestoreHonoursOff
  BY OnQueued DEF Inv, BootTypeOK, ValuesOK, OffStands, Owed, RestoreHonoursOff
<1> QED BY <1>1, BootInvariant, PTL
=============================================================================
