----------------------------- MODULE HostProofs -----------------------------
(***************************************************************************)
(* The invariants of Host, for every value of its constants.  TypeOK is    *)
(* inductive; each of the other two is inductive together with it.         *)
(***************************************************************************)
EXTENDS Host, TLAPS

\* What is persisted is a readable image, never one of the two markers.
LEMMA ImageReadable ==
  ASSUME NEW i \in Images
  PROVE  i \notin {NoFile, TornFile}
BY FileAssumption

\* Restored always is a complete set of properties: a torn or missing file
\* falls back to the defaults.
LEMMA RestoredType ==
  ASSUME TypeOK
  PROVE  Restored \in Images
BY HostAssumption DEF TypeOK, Restored, Readable, Images, Transitions,
                      Progresses, OSStates

\* The properties that the handlers show on D-Bus are an image of the file.
LEMMA ImageType ==
  ASSUME TypeOK
  PROVE  Image \in Images
BY DEF TypeOK, Image, Images

\* Each transition has a unit.
LEMMA UnitsOfTransitions ==
  ASSUME NEW t \in Transitions
  PROVE  UnitOf(t) \in TransitionUnits
BY DEF Transitions, UnitOf, TransitionUnits

\* The counter of attempts never goes below zero.
LEMMA DecrementedIsNat ==
  ASSUME TypeOK
  PROVE  Decremented \in Nat /\ Decremented <= attemptsLeft
BY DEF TypeOK, Decremented

\* A charged request leaves a counter of attempts.
LEMMA ChargeType ==
  ASSUME TypeOK, NEW t \in Transitions, Charge(t)
  PROVE  attemptsLeft' \in Nat /\ attemptsLeft' <= attemptsLeft
BY DecrementedIsNat DEF TypeOK, Charge
---------------------------------------------------------------------------
\* An accepted request keeps the types; the reboot of a quiesced host and a
\* request over D-Bus share it.
LEMMA ExecuteType ==
  ASSUME TypeOK, NEW t \in Transitions, Execute(t)
  PROVE  TypeOK'
<1>1. attemptsLeft' \in Nat
  BY ChargeType DEF Execute
<1>2. jobs' \in Seq(TransitionUnits)
  BY UnitsOfTransitions DEF Execute, TypeOK
<1>3. file' \in Images
  BY <1>1 DEF Execute, TypeOK, Persist, Image, Images
<1> QED
  BY <1>1, <1>2, <1>3 DEF Execute, TypeOK

\* The handlers of systemd signals keep the types.
LEMMA SignalsType ==
  ASSUME TypeOK, Signals
  PROVE  TypeOK'
<1>1. PICK unit \in SignalUnits :
        \/ SysStateChangeJobNew(unit)
        \/ \E result \in {"done", "failed"}, active \in BOOLEAN, a \in Answers :
             SysStateChangeJobRemoved(unit, result, active, a)
  BY DEF Signals
<1>2. CASE SysStateChangeJobNew(unit)
  BY <1>2, DecrementedIsNat DEF SysStateChangeJobNew, TypeOK, HostStates
<1>3. ASSUME NEW result \in {"done", "failed"}, NEW active \in BOOLEAN,
             NEW a \in Answers,
             SysStateChangeJobRemoved(unit, result, active, a)
      PROVE  TypeOK'
  <2>1. CASE HostIsOff
    BY <2>1 DEF HostIsOff, TypeOK, Persist, Image, Images, HostStates,
                Progresses, OSStates
  <2>2. CASE HostIsRunning
    BY <2>2 DEF HostIsRunning, TypeOK, HostStates
  <2>3. CASE HostIsQuiesced(a)
    <3>1. CASE Execute("Reboot")
      BY <3>1, ExecuteType DEF Transitions
    <3>2. CASE alive' = FALSE /\ UNCHANGED <<props, runningFile, file, jobs>>
      BY <3>2 DEF TypeOK, props
    <3>3. CASE /\ current' = "Quiesced"
               /\ attemptsLeft' \in {attemptsLeft, retryAttempts}
               /\ UNCHANGED <<alive, requested, retryAttempts, progress, os,
                              restartCause, runningFile, file, jobs>>
      BY <3>3 DEF TypeOK, HostStates
    <3> QED
      BY <2>3, <3>1, <3>2, <3>3 DEF HostIsQuiesced
  <2>4. CASE UNCHANGED hostVars
    BY <2>4 DEF hostVars, props, TypeOK
  <2> QED
    BY <1>3, <2>1, <2>2, <2>3, <2>4 DEF SysStateChangeJobRemoved, Happened
<1> QED
  BY <1>1, <1>2, <1>3

\* The requests for a transition keep the types.
LEMMA RequestsType ==
  ASSUME TypeOK, Requests
  PROVE  TypeOK'
<1>1. PICK t \in Transitions, a \in Answers :
        RequestedHostTransition(t, a) \/ DieInRequest(t, a)
  BY DEF Requests
<1>2. CASE Execute(t)
  BY <1>2, ExecuteType
<1>3. CASE /\ Charge(t)
           /\ UNCHANGED <<alive, current, requested, retryAttempts, progress,
                          os, restartCause, runningFile, file, jobs>>
  BY <1>3, ChargeType DEF TypeOK
<1>4. CASE UNCHANGED hostVars
  BY <1>4 DEF hostVars, props, TypeOK
<1>5. CASE DieInRequest(t, a)
  <2>1. file' \in Images \cup {NoFile, TornFile}
    BY <1>5 DEF DieInRequest, TypeOK
  <2>2. jobs' \in Seq(TransitionUnits)
    <3>1. jobs' = Append(jobs, UnitOf(t))
      BY <1>5 DEF DieInRequest
    <3> QED
      BY <3>1, UnitsOfTransitions DEF TypeOK
  <2> QED
    BY <1>5, <2>1, <2>2 DEF DieInRequest, props, TypeOK
<1> QED
  BY <1>1, <1>2, <1>3, <1>4, <1>5 DEF RequestedHostTransition

\* The property writes keep the types.
LEMMA WritesType ==
  ASSUME TypeOK, Writes
  PROVE  TypeOK'
<1>1. CASE \E v \in Counts : SetAttemptsLeft(v) \/ SetRetryAttempts(v)
  BY <1>1, HostAssumption
  DEF SetAttemptsLeft, SetRetryAttempts, LesserOf, TypeOK
<1>2. CASE \E p \in Progresses : SetBootProgress(p)
  BY <1>2 DEF SetBootProgress, Persist, Image, Images, TypeOK
<1>3. CASE \E s \in OSStates : SetOperatingSystemState(s)
  BY <1>3 DEF SetOperatingSystemState, Persist, Image, Images, TypeOK
<1>4. CASE \E s \in HostStates : SetCurrentHostState(s)
  BY <1>4 DEF SetCurrentHostState, TypeOK
<1>5. CASE \E c \in RestartCauses : SetRestartCause(c)
  BY <1>5 DEF SetRestartCause, TypeOK
<1> QED
  BY <1>1, <1>2, <1>3, <1>4, <1>5 DEF Writes

\* Systemd, a death and a start keep the types.
LEMMA OutsideType ==
  ASSUME TypeOK,
         Die \/ SystemdTakes \/ BMCReboot
           \/ \E startmin, firmware \in BOOLEAN : Start(startmin, firmware)
  PROVE  TypeOK'
<1>1. CASE Die
  <2>1. file' \in Images \cup {NoFile, TornFile}
    BY <1>1 DEF Die, TypeOK
  <2> QED
    BY <1>1, <2>1 DEF Die, props, TypeOK
<1>2. CASE SystemdTakes
  BY <1>2 DEF SystemdTakes, props, TypeOK
<1>3. CASE BMCReboot
  <2>1. file' \in Images \cup {NoFile, TornFile}
    BY <1>3 DEF BMCReboot, TypeOK
  <2>2. jobs' \in Seq(TransitionUnits)
    BY <1>3 DEF BMCReboot
  <2> QED
    BY <1>3, <2>1, <2>2 DEF BMCReboot, props, TypeOK
<1>4. ASSUME NEW startmin \in BOOLEAN, NEW firmware \in BOOLEAN,
             Start(startmin, firmware)
      PROVE  TypeOK'
  <2>1. Restored \in Images
    BY RestoredType
  <2>2. current' \in HostStates /\ runningFile' \in BOOLEAN
    BY <1>4 DEF Start, HostStates, TypeOK
  <2>3. file' \in Images \cup {NoFile, TornFile}
    BY <1>4 DEF Start, TypeOK
  <2>4. /\ requested' \in Transitions /\ progress' \in Progresses
        /\ os' \in OSStates
        /\ retryAttempts' \in Nat /\ attemptsLeft' \in Nat
    BY <1>4, <2>1 DEF Start, Images
  <2> QED
    BY <1>4, <2>2, <2>3, <2>4 DEF Start, RestartCauses, TypeOK
<1> QED
  BY <1>1, <1>2, <1>3, <1>4

\* A new manager has the types.
LEMMA InitType ==
  ASSUME Init
  PROVE  TypeOK
<1>1. jobs \in Seq(TransitionUnits) /\ file \in Images \cup {NoFile, TornFile}
  BY DEF Init
<1>2. /\ alive \in BOOLEAN /\ runningFile \in BOOLEAN
      /\ attemptsLeft \in Nat /\ retryAttempts \in Nat
      /\ current \in HostStates /\ requested \in Transitions
      /\ progress \in Progresses /\ os \in OSStates
      /\ restartCause \in RestartCauses
  BY DEF Init, HostStates, Transitions, Progresses, OSStates, RestartCauses
<1> QED
  BY <1>1, <1>2 DEF TypeOK

\* Every step of the manager keeps the types.
LEMMA NextType ==
  ASSUME TypeOK, [Next]_hostVars
  PROVE  TypeOK'
<1>1. CASE Signals
  BY <1>1, SignalsType
<1>2. CASE Requests
  BY <1>2, RequestsType
<1>3. CASE Writes
  BY <1>3, WritesType
<1>4. CASE UNCHANGED hostVars
  BY <1>4 DEF hostVars, props, TypeOK
<1> QED
  BY <1>1, <1>2, <1>3, <1>4, OutsideType DEF Next

\* Every variable keeps its type, for all values of the constants.
THEOREM HostTypeOK == Spec => []TypeOK
<1>1. Init => TypeOK
  BY InitType
<1>2. TypeOK /\ [Next]_hostVars => TypeOK'
  BY NextType
<1> QED
  BY <1>1, <1>2, PTL DEF Spec
---------------------------------------------------------------------------
\* Whatever clients write and however the process dies and restarts, never
\* more reboots are left than were asked for.
THEOREM HostAttemptsWithinRetry == Spec => []AttemptsWithinRetry
<1> DEFINE IInv == TypeOK /\ AttemptsWithinRetry
<1>1. Init => AttemptsWithinRetry
  BY DEF Init, AttemptsWithinRetry
<1>2. IInv /\ [Next]_hostVars => AttemptsWithinRetry'
  <2> SUFFICES ASSUME TypeOK, AttemptsWithinRetry, [Next]_hostVars, alive'
               PROVE  attemptsLeft' <= retryAttempts'
    BY DEF AttemptsWithinRetry
  <2>1. CASE Signals
    <3>1. PICK unit \in SignalUnits :
            \/ SysStateChangeJobNew(unit)
            \/ \E result \in {"done", "failed"}, active \in BOOLEAN,
                  a \in Answers :
                 SysStateChangeJobRemoved(unit, result, active, a)
      BY <2>1 DEF Signals
    <3>2. CASE SysStateChangeJobNew(unit)
      BY <3>2, DecrementedIsNat
      DEF SysStateChangeJobNew, AttemptsWithinRetry, TypeOK
    <3>3. ASSUME NEW result \in {"done", "failed"}, NEW active \in BOOLEAN,
                 NEW a \in Answers,
                 SysStateChangeJobRemoved(unit, result, active, a)
          PROVE  attemptsLeft' <= retryAttempts'
      <4>1. CASE HostIsQuiesced(a)
        <5>1. CASE Execute("Reboot")
          BY <3>3, <5>1, DecrementedIsNat
          DEF SysStateChangeJobRemoved, Execute, Charge, AttemptsWithinRetry,
              TypeOK
        <5>2. CASE /\ attemptsLeft' \in {attemptsLeft, retryAttempts}
                   /\ UNCHANGED <<alive, retryAttempts>>
          BY <5>2 DEF AttemptsWithinRetry, TypeOK
        <5> QED
          BY <4>1, <5>1, <5>2 DEF HostIsQuiesced
      <4>2. CASE HostIsOff \/ HostIsRunning \/ UNCHANGED hostVars
        BY <4>2 DEF HostIsOff, HostIsRunning, hostVars, props,
                    AttemptsWithinRetry
      <4> QED
        BY <3>3, <4>1, <4>2 DEF SysStateChangeJobRemoved, Happened
    <3> QED
      BY <3>1, <3>2, <3>3
  <2>2. CASE Requests
    <3>1. PICK t \in Transitions, a \in Answers :
            RequestedHostTransition(t, a)
      BY <2>2 DEF Requests, DieInRequest
    <3>2. alive
      BY <3>1 DEF RequestedHostTransition
    <3>3. CASE /\ Charge(t)
               /\ UNCHANGED retryAttempts
      BY <3>2, <3>3, ChargeType DEF AttemptsWithinRetry, TypeOK
    <3>4. CASE UNCHANGED hostVars
      BY <3>4 DEF hostVars, props, AttemptsWithinRetry
    <3> QED
      BY <3>1, <3>3, <3>4 DEF RequestedHostTransition, Execute
  <2>3. CASE Writes
    <3>1. ASSUME NEW v \in Counts, SetAttemptsLeft(v) \/ SetRetryAttempts(v)
          PROVE  attemptsLeft' <= retryAttempts'
      <4>1. v \in Nat /\ retryAttempts \in Nat
        BY HostAssumption DEF TypeOK
      <4>2. LesserOf(v, retryAttempts) <= retryAttempts
        BY <4>1 DEF LesserOf
      <4>3. CASE SetAttemptsLeft(v)
        BY <4>2, <4>3 DEF SetAttemptsLeft
      <4>4. CASE SetRetryAttempts(v)
        <5>1. attemptsLeft' = v /\ retryAttempts' = v
          BY <4>4 DEF SetRetryAttempts
        <5> QED
          BY <4>1, <5>1
      <4> QED
        BY <3>1, <4>3, <4>4
    <3>2. CASE UNCHANGED <<alive, attemptsLeft, retryAttempts>>
      BY <3>2 DEF AttemptsWithinRetry
    <3> QED
      BY <2>3, <3>1, <3>2 DEF Writes, SetBootProgress,
           SetOperatingSystemState, SetCurrentHostState, SetRestartCause
  <2>4. CASE \E startmin, firmware \in BOOLEAN : Start(startmin, firmware)
    BY <2>4, RestoredType DEF Start, Images
  <2>5. CASE Die \/ SystemdTakes \/ BMCReboot
    BY <2>5 DEF Die, SystemdTakes, BMCReboot, props, AttemptsWithinRetry
  <2>6. CASE UNCHANGED hostVars
    BY <2>6 DEF hostVars, props, AttemptsWithinRetry
  <2> QED
    BY <2>1, <2>2, <2>3, <2>4, <2>5, <2>6 DEF Next
<1> QED
  BY <1>1, <1>2, HostTypeOK, PTL DEF Spec
---------------------------------------------------------------------------
\* A handler that ends with serialize() makes flash and properties agree.
LEMMA PersistRestores ==
  ASSUME TypeOK', Persist
  PROVE  RestartRestores'
<1>1. file' = Image' /\ file' \notin {NoFile, TornFile}
  BY FileAssumption DEF Persist, Image, Images, TypeOK
<1> QED
  BY <1>1 DEF RestartRestores, Restored, Readable, Image

\* A handler that touches neither leaves the agreement as it was.
LEMMA UntouchedRestores ==
  ASSUME RestartRestores, UNCHANGED <<alive, requested, progress, os, file>>
  PROVE  RestartRestores'
BY DEF RestartRestores, Restored, Readable

\* At any moment a restart brings back the request, the boot progress and the
\* OS state shown on D-Bus, because every handler that changes one of them
\* persists before it returns.
THEOREM HostRestartRestores == Spec => []RestartRestores
<1>1. Init => RestartRestores
  BY DEF Init, RestartRestores
<1>2. TypeOK /\ TypeOK' /\ RestartRestores /\ [Next]_hostVars => RestartRestores'
  <2> SUFFICES ASSUME TypeOK, TypeOK', RestartRestores, [Next]_hostVars
               PROVE  RestartRestores'
    OBVIOUS
  <2>1. CASE UNCHANGED <<alive, requested, progress, os, file>>
    BY <2>1, UntouchedRestores
  <2>2. CASE Persist
    BY <2>2, PersistRestores
  <2>3. CASE ~alive'
    BY <2>3 DEF RestartRestores
  <2>4. CASE Signals
    <3>1. PICK unit \in SignalUnits :
            \/ SysStateChangeJobNew(unit)
            \/ \E result \in {"done", "failed"}, active \in BOOLEAN,
                  a \in Answers :
                 SysStateChangeJobRemoved(unit, result, active, a)
      BY <2>4 DEF Signals
    <3>2. CASE SysStateChangeJobNew(unit)
      BY <2>1, <3>2 DEF SysStateChangeJobNew
    <3>3. ASSUME NEW result \in {"done", "failed"}, NEW active \in BOOLEAN,
                 NEW a \in Answers,
                 SysStateChangeJobRemoved(unit, result, active, a)
          PROVE  RestartRestores'
      <4>1. CASE HostIsQuiesced(a)
        BY <2>1, <2>2, <2>3, <4>1 DEF HostIsQuiesced, Execute, props
      <4>2. CASE HostIsOff \/ HostIsRunning \/ UNCHANGED hostVars
        BY <2>1, <2>2, <4>2 DEF HostIsOff, HostIsRunning, hostVars, props
      <4> QED
        BY <3>3, <4>1, <4>2 DEF SysStateChangeJobRemoved, Happened
    <3> QED
      BY <3>1, <3>2, <3>3
  <2>5. CASE Requests
    BY <2>1, <2>2, <2>3, <2>5
    DEF Requests, RequestedHostTransition, DieInRequest, Execute, hostVars,
        props
  <2>6. CASE Writes
    BY <2>1, <2>2, <2>6
    DEF Writes, SetAttemptsLeft, SetRetryAttempts, SetBootProgress,
        SetOperatingSystemState, SetCurrentHostState, SetRestartCause
  <2>7. CASE \E startmin, firmware \in BOOLEAN : Start(startmin, firmware)
    <3>1. /\ requested' = Restored.requested /\ progress' = Restored.progress
          /\ os' = Restored.os
          /\ file' = IF Readable THEN file ELSE NoFile
      BY <2>7 DEF Start
    <3>2. Restored' = Restored
      BY <3>1 DEF Restored, Readable
    <3> QED
      BY <3>1, <3>2 DEF RestartRestores
  <2>8. CASE Die \/ BMCReboot \/ SystemdTakes
    BY <2>1, <2>3, <2>8 DEF Die, BMCReboot, SystemdTakes, props
  <2>9. CASE UNCHANGED hostVars
    BY <2>1, <2>9 DEF hostVars, props
  <2> QED
    BY <2>4, <2>5, <2>6, <2>7, <2>8, <2>9 DEF Next
<1> QED
  BY <1>1, <1>2, HostTypeOK, PTL DEF Spec
===========================================================================
