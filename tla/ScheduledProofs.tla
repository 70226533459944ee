-------------------------- MODULE ScheduledProofs --------------------------
(***************************************************************************)
(* Safety of the scheduled host transition service for every set of        *)
(* transitions, every clock and any number of writes, clock changes and    *)
(* deaths.  The invariant that carries the proof says where a schedule     *)
(* lives (on D-Bus while the service runs, on flash otherwise) and that a  *)
(* schedule that still lives has not been carried out.                     *)
(***************************************************************************)
EXTENDS Scheduled, TLAPS

\* A schedule the service will carry out, now or after its restart.
Pending == IF alive THEN scheduledTime # 0 ELSE Readable /\ file.time # 0

\* Each request of a pending schedule was an attempt that failed.
PendingUnsent == Pending => sent <= interrupted

Safe == /\ ArmedForSchedule /\ RestartFindsSchedule
        /\ OnceUnlessInterrupted /\ PendingUnsent

\* Every variable keeps its type under every handler of the service.
THEOREM SchedTypeOK == Spec => []TypeOK
<1>1. Init => TypeOK
  <2> SUFFICES ASSUME Init PROVE TypeOK
    OBVIOUS
  <2>1. file \in [time : Times \cup {0}, trans : Transitions] \cup {NoFile, TornFile}
    BY DEF Init
  <2>2. alive \in BOOLEAN /\ timeChanged \in BOOLEAN /\ hostUp \in BOOLEAN
        /\ ready \in BOOLEAN /\ stranded \in BOOLEAN
    BY DEF Init
  <2>3. /\ now \in Times /\ scheduledTime \in Times \cup {0}
        /\ deadline \in Times \cup {0} /\ scheduledTransition \in Transitions
        /\ sent \in Nat /\ interrupted \in Nat
    BY ScheduledAssumption DEF Init, Times
  <2> QED BY <2>1, <2>2, <2>3 DEF TypeOK
<1>2. TypeOK /\ [Next]_schedVars => TypeOK'
  <2> SUFFICES ASSUME TypeOK, [Next]_schedVars PROVE TypeOK'
    OBVIOUS
  <2> USE ScheduledAssumption DEF TypeOK, Times, hostVars, histVars
  <2>a. ASSUME NEW trans, NEW c, HostTransition(trans, c)
        PROVE hostUp' \in BOOLEAN /\ sent' \in Nat /\ interrupted' \in Nat
    <3>1. hostUp' \in BOOLEAN
      BY <2>a, Zenon DEF HostTransition
    <3>2. sent' \in {sent, sent + 1} /\ interrupted' \in {interrupted, interrupted + 1}
      BY <2>a DEF HostTransition
    <3> QED BY <3>1, <3>2
  <2>b. Disabled /\ scheduledTransition' \in Transitions =>
          /\ scheduledTime' \in Times \cup {0} /\ deadline' \in Times \cup {0}
          /\ file' \in [time : Times \cup {0}, trans : Transitions]
    BY DEF Disabled, Serialize
  <2>c. ASSUME NEW time \in Times \cup {0}, NEW trans \in Transitions,
               HandleTimeUpdates(time, trans), scheduledTransition' \in Transitions
        PROVE /\ alive' \in BOOLEAN /\ scheduledTime' \in Times \cup {0}
              /\ deadline' \in Times \cup {0} /\ timeChanged' \in BOOLEAN
              /\ file' \in [time : Times \cup {0}, trans : Transitions]
                              \cup {NoFile, TornFile}
              /\ hostUp' \in BOOLEAN /\ sent' \in Nat /\ interrupted' \in Nat
              /\ stranded' \in BOOLEAN
    BY <2>a, <2>b, <2>c DEF HandleTimeUpdates, Ends
  <2>1. CASE Start
    <3>1. CASE Readable /\ scheduledTransition' = file.trans
                 /\ HandleTimeUpdates(file.time, file.trans)
      <4>1. file.time \in Times \cup {0} /\ file.trans \in Transitions
        BY <3>1 DEF Readable
      <4> QED BY <2>1, <2>c, <3>1, <4>1 DEF Start
    <3>2. CASE ~Readable
      BY <2>1, <3>2 DEF Start
    <3> QED BY <2>1, <3>1, <3>2 DEF Start
  <2>2. CASE OnTimeChange
    BY <2>2, <2>c DEF OnTimeChange
  <2>3. CASE Callback
    BY <2>3, <2>a, <2>b DEF Callback
  <2>4. ASSUME NEW v \in Times \cup {0}, SetScheduledTime(v) PROVE TypeOK'
    <3>1. CASE Rejected(v)
      BY <2>4, <3>1 DEF SetScheduledTime, Rejected
    <3>2. CASE deadline' = v /\ scheduledTime' = v /\ Serialize
                 /\ sent' = 0 /\ interrupted' = 0 /\ stranded' = FALSE
      <4>1. file' \in [time : Times \cup {0}, trans : Transitions]
        BY <2>4, <3>2 DEF SetScheduledTime, Serialize
      <4> QED BY <2>4, <3>2, <4>1 DEF SetScheduledTime
    <3> QED BY <2>4, <3>1, <3>2 DEF SetScheduledTime
  <2>10. ASSUME NEW v \in Times \cup {0}, DiesSerializing(v) PROVE TypeOK'
    BY <2>10 DEF DiesSerializing, Ends
  <2>5. ASSUME NEW t \in Transitions, SetScheduledTransition(t) PROVE TypeOK'
    BY <2>5 DEF SetScheduledTransition
  <2>6. CASE Dies
    BY <2>6 DEF Dies, Ends
  <2>11. CASE DiesAfterSending
    <3>1. UNCHANGED <<now, scheduledTime, scheduledTransition, hostUp, ready, stranded>>
      BY <2>11 DEF DiesAfterSending
    <3>2. file' \in {file, TornFile} /\ sent' = sent + 1
          /\ interrupted' = interrupted + 1
      BY <2>11 DEF DiesAfterSending
    <3>3. alive' = FALSE /\ deadline' = 0 /\ timeChanged' = FALSE
      BY <2>11 DEF DiesAfterSending, Ends
    <3>4. file' \in [time : Times \cup {0}, trans : Transitions] \cup {NoFile, TornFile}
      BY <3>2
    <3>5. sent' \in Nat /\ interrupted' \in Nat /\ deadline' \in Times \cup {0}
      BY <3>2, <3>3
    <3>6. /\ alive' \in BOOLEAN /\ timeChanged' \in BOOLEAN /\ hostUp' \in BOOLEAN
          /\ ready' \in BOOLEAN /\ stranded' \in BOOLEAN
      BY <3>1, <3>3
    <3> QED BY <3>1, <3>4, <3>5, <3>6
  <2>7. CASE Tick \/ (\E t \in Times : ClockSet(t))
    BY <2>7 DEF Tick, ClockSet
  <2>8. CASE HostDies \/ HostStarts \/ BMCReady
    BY <2>8 DEF HostDies, HostStarts, BMCReady
  <2>9. CASE UNCHANGED schedVars
    BY <2>9 DEF schedVars
  <2> QED BY <2>1, <2>2, <2>3, <2>4, <2>5, <2>6, <2>7, <2>8, <2>9,
            <2>10, <2>11 DEF Next
<1> QED BY <1>1, <1>2, PTL DEF Spec
---------------------------------------------------------------------------
\* What a step that disables the schedule leaves on flash.
LEMMA DisabledOnFlash ==
  ASSUME TypeOK, Disabled, scheduledTransition' \in Transitions
  PROVE  Readable' /\ file'.time = 0 /\ scheduledTime' = 0 /\ deadline' = 0
<1>1. file' \in Schedules /\ file'.time = 0
  BY DEF Disabled, Serialize, Schedules
<1> QED BY <1>1, NoScheduleIsMissing DEF Disabled, Readable

\* The three ways handleTimeUpdates ends, for a schedule that is on flash.
LEMMA HandleTimeUpdatesSafe ==
  ASSUME TypeOK, OnceUnlessInterrupted,
         NEW time \in Times \cup {0}, NEW trans \in Transitions,
         time # 0 => sent <= interrupted,
         time = IF Readable THEN file.time ELSE 0,
         scheduledTransition' \in Transitions,
         HandleTimeUpdates(time, trans)
  PROVE  Safe'
<1> USE DEF Safe, ArmedForSchedule, RestartFindsSchedule, Pending,
            OnceUnlessInterrupted, PendingUnsent, TypeOK
<1>1. CASE (time = 0 \/ time > now) /\ deadline' = time /\ alive' = TRUE
             /\ scheduledTime' = time /\ UNCHANGED <<file, sent, interrupted>>
  BY <1>1 DEF Readable
<1>2. CASE HostTransition(trans, TRUE) /\ Disabled /\ time # 0 /\ alive' = TRUE
  BY <1>2, DisabledOnFlash DEF HostTransition
<1>3. CASE HostTransition(trans, FALSE) /\ Ends /\ time # 0
             /\ UNCHANGED <<scheduledTime, file>>
  BY <1>3 DEF HostTransition, Ends, Readable
<1> QED BY <1>1, <1>2, <1>3 DEF HandleTimeUpdates

\* Every step keeps the invariant.
LEMMA SafeStep == TypeOK /\ TypeOK' /\ Safe /\ [Next]_schedVars => Safe'
<1> SUFFICES ASSUME TypeOK, TypeOK', Safe, [Next]_schedVars PROVE Safe'
  OBVIOUS
<1>t. scheduledTransition' \in Transitions
  BY DEF TypeOK
<1>1. CASE Start
  <2>1. CASE Readable /\ HandleTimeUpdates(file.time, file.trans)
    <3>1. file.time \in Times \cup {0} /\ file.trans \in Transitions
      BY <2>1 DEF Readable, TypeOK
    <3>2. file.time # 0 => sent <= interrupted
      BY <1>1, <2>1 DEF Start, Safe, PendingUnsent, Pending
    <3> QED BY <1>t, <2>1, <3>1, <3>2, HandleTimeUpdatesSafe DEF Safe
  <2>2. CASE ~Readable
    BY <1>1, <2>2 DEF Start, Safe, ArmedForSchedule, RestartFindsSchedule,
         OnceUnlessInterrupted, PendingUnsent, Pending, Readable
  <2> QED BY <1>1, <2>1, <2>2 DEF Start
<1>2. CASE OnTimeChange
  <2>1. /\ scheduledTime = IF Readable THEN file.time ELSE 0
        /\ scheduledTime # 0 => sent <= interrupted
    BY <1>2 DEF OnTimeChange, Safe, RestartFindsSchedule, PendingUnsent, Pending
  <2>2. scheduledTime \in Times \cup {0} /\ scheduledTransition \in Transitions
    BY DEF TypeOK
  <2> QED BY <1>t, <1>2, <2>1, <2>2, HandleTimeUpdatesSafe DEF OnTimeChange, Safe
<1> USE DEF Safe, ArmedForSchedule, RestartFindsSchedule, Pending,
            OnceUnlessInterrupted, PendingUnsent
<1>3. CASE Callback
  <2>1. scheduledTime = deadline /\ scheduledTime # 0 /\ sent <= interrupted
        /\ alive /\ alive'
    BY <1>3 DEF Callback
  <2>2. CASE HostTransition(scheduledTransition, TRUE) /\ Disabled
    BY <1>t, <2>1, <2>2, DisabledOnFlash DEF HostTransition, TypeOK
  <2>3. CASE HostTransition(scheduledTransition, FALSE) /\ deadline' = 0
               /\ stranded' = TRUE /\ UNCHANGED <<scheduledTime, file>>
    BY <2>1, <2>3 DEF HostTransition, TypeOK, Readable
  <2> QED BY <1>3, <2>2, <2>3 DEF Callback
<1>4. ASSUME NEW v \in Times \cup {0}, SetScheduledTime(v) PROVE Safe'
  <2>1. CASE Rejected(v)
    BY <1>4, <2>1 DEF SetScheduledTime, Rejected, Readable
  <2>2. CASE Serialize /\ scheduledTime' = v /\ deadline' = v
               /\ sent' = 0 /\ interrupted' = 0
    <3>1. file' \in Schedules /\ file'.time = v
      BY <1>t, <2>2, ScheduledAssumption DEF Serialize, Schedules, Times
    <3>2. Readable'
      BY <3>1, NoScheduleIsMissing DEF Readable
    <3> QED BY <2>2, <3>1, <3>2
  <2> QED BY <1>4, <2>1, <2>2 DEF SetScheduledTime
<1>5. ASSUME NEW v \in Times \cup {0}, DiesSerializing(v) PROVE Safe'
  BY <1>5 DEF DiesSerializing, Ends, Readable
<1>6. ASSUME NEW t \in Transitions, SetScheduledTransition(t) PROVE Safe'
  BY <1>6 DEF SetScheduledTransition, Readable, histVars
<1>7. CASE Dies
  BY <1>7 DEF Dies, MayDie, Ends, Readable, histVars
<1>8. CASE DiesAfterSending
  <2>1. alive /\ scheduledTime # 0 /\ sent <= interrupted
    BY <1>8 DEF DiesAfterSending, MayDie
  <2> QED BY <1>8, <2>1 DEF DiesAfterSending, Ends, Readable, TypeOK
<1>9. CASE Tick \/ (\E t \in Times : ClockSet(t))
  BY <1>9 DEF Tick, ClockSet, Readable, histVars
<1>10. CASE HostDies \/ HostStarts \/ BMCReady
  BY <1>10 DEF HostDies, HostStarts, BMCReady, Readable, histVars
<1>11. CASE UNCHANGED schedVars
  BY <1>11 DEF schedVars, Readable, histVars
<1> QED BY <1>1, <1>2, <1>3, <1>4, <1>5, <1>6, <1>7, <1>8, <1>9, <1>10, <1>11
        DEF Next

\* The invariant of the schedule service holds in every behaviour; the
\* theorems below are its parts.
THEOREM SchedSafe == Spec => []Safe
<1>1. Init => Safe
  BY DEF Init, Safe, ArmedForSchedule, RestartFindsSchedule, Pending, Readable,
         OnceUnlessInterrupted, PendingUnsent
<1> QED BY <1>1, SafeStep, SchedTypeOK, PTL DEF Spec

\* The timer of a running service stands for the schedule on D-Bus.
THEOREM SchedArmedForSchedule == Spec => []ArmedForSchedule
<1>1. Safe => ArmedForSchedule
  BY DEF Safe
<1> QED BY <1>1, SchedSafe, PTL

\* Flash always holds the time of the schedule on D-Bus.
THEOREM SchedRestartFindsSchedule == Spec => []RestartFindsSchedule
<1>1. Safe => RestartFindsSchedule
  BY DEF Safe
<1> QED BY <1>1, SchedSafe, PTL

\* A schedule is carried out once, unless an attempt ended in a failure.
THEOREM SchedOnceUnlessInterrupted == Spec => []OnceUnlessInterrupted
<1>1. Safe => OnceUnlessInterrupted
  BY DEF Safe
<1> QED BY <1>1, SchedSafe, PTL

\* No request is sent before the time of its schedule.
THEOREM SchedNeverEarly == Spec => NeverEarly
<1>1. TypeOK /\ Safe /\ [Next]_schedVars =>
        [sent' > sent => now >= IF alive THEN scheduledTime ELSE file.time]_schedVars
  <2> SUFFICES ASSUME TypeOK, Safe, Next, sent' > sent
               PROVE  now >= IF alive THEN scheduledTime ELSE file.time
    OBVIOUS
  <2> USE DEF TypeOK, Times
  <2>a. ASSUME NEW time \in Times \cup {0}, NEW trans,
               HandleTimeUpdates(time, trans)
        PROVE now >= time
    <3>1. CASE UNCHANGED sent
      BY <3>1
    <3>2. CASE time <= now
      BY <3>2
    <3> QED BY <2>a, <3>1, <3>2 DEF HandleTimeUpdates
  <2>1. CASE Start
    <3>1. ~alive
      BY <2>1 DEF Start
    <3>2. CASE Readable /\ HandleTimeUpdates(file.time, file.trans)
      <4>1. file.time \in Times \cup {0}
        BY <3>2 DEF Readable
      <4> QED BY <2>a, <3>1, <3>2, <4>1
    <3>3. CASE UNCHANGED sent
      BY <3>3
    <3> QED BY <2>1, <3>2, <3>3 DEF Start
  <2>2. CASE OnTimeChange
    BY <2>2, <2>a DEF OnTimeChange
  <2>3. CASE Callback
    BY <2>3, ScheduledAssumption DEF Callback, Safe, ArmedForSchedule
  <2>4. CASE DiesAfterSending
    BY <2>4, ScheduledAssumption DEF DiesAfterSending, MayDie, Safe, ArmedForSchedule
  <2>5. ASSUME NEW v \in Times \cup {0}, SetScheduledTime(v) \/ DiesSerializing(v)
        PROVE FALSE
    BY <2>5 DEF SetScheduledTime, Rejected, DiesSerializing
  <2>6. ~(\E t \in Transitions : SetScheduledTransition(t))
    BY DEF SetScheduledTransition, histVars
  <2>7. ~(Dies \/ Tick \/ \E t \in Times : ClockSet(t))
    BY DEF Dies, Tick, ClockSet, histVars
  <2>8. ~(HostDies \/ HostStarts \/ BMCReady)
    BY DEF HostDies, HostStarts, BMCReady, histVars
  <2> QED BY <2>1, <2>2, <2>3, <2>4, <2>5, <2>6, <2>7, <2>8 DEF Next
<1> QED BY <1>1, SchedTypeOK, SchedSafe, PTL DEF Spec, NeverEarly
===========================================================================
