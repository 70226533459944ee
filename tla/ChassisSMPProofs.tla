------------------------- MODULE ChassisSMPProofs --------------------------
(***************************************************************************)
(* The SMP aggregator, for every number of chassis, every set of unreadable *)
(* chassis and every order of signals.  Its coordinated power off ends with *)
(* the last chassis: that property is inductive, each handler that may      *)
(* raise the flag or change what it depends on restores it in the same step.*)
(* And what it shows is true once it has no signal to handle: every change  *)
(* is in the cache, or its signal is still queued.                          *)
(***************************************************************************)
EXTENDS ChassisSMP, TLAPS

\* Aggregating drops the flag with the last chassis that is not Off.
LEMMA AggregateDropsFlag ==
  ASSUME NEW old, NEW lost, NEW flag \in BOOLEAN,
         AggregatePowerState(old, lost, flag)
  PROVE  coordinated' => flag /\ aggregate' # "Off"
BY Zenon DEF AggregatePowerState

\* Steps that leave the flag and all it depends on alone.
LEMMA UnchangedKeeps ==
  ASSUME CoordinatedUntilOff,
         UNCHANGED <<coordinated, requested, forwarded, aggregate>>, alive' => alive
  PROVE  CoordinatedUntilOff'
BY DEF CoordinatedUntilOff

\* A transition ends the coordinated power off.
LEMMA TransitionEnds ==
  ASSUME NEW t, NEW completed, Transition(t, completed)
  PROVE  CoordinatedUntilOff'
BY DEF Transition, CoordinatedUntilOff

\* The handler of a CurrentPowerState signal, which may begin one.
LEMMA StateChangedKeeps ==
  ASSUME alive, coordinated \in BOOLEAN, CoordinatedUntilOff,
         NEW c, NEW s, ChassisStateChanged(c, s)
  PROVE  CoordinatedUntilOff'
<1> DEFINE seen == [cachedState EXCEPT ![c] = s]
<1>1. CASE /\ \E lost \in SUBSET Unreadable :
                AggregatePowerState(seen, lost, coordinated)
           /\ UNCHANGED <<forwarded, requested>>
  BY <1>1, AggregateDropsFlag DEF CoordinatedUntilOff
<1>2. CASE /\ requested' = "Off" /\ Send("Off", TRUE)
           /\ \E lost \in SUBSET Unreadable : AggregatePowerState(seen, lost, TRUE)
  <2>1. forwarded' = "Off"
    BY <1>2 DEF Send, Forward
  <2> QED BY <1>2, <2>1, AggregateDropsFlag DEF CoordinatedUntilOff
<1>3. CASE DieHandling
  BY <1>3 DEF DieHandling, CoordinatedUntilOff
<1> QED BY <1>1, <1>2, <1>3 DEF ChassisStateChanged

\* No handler leaves the flag set without a power off that explains it.
LEMMA HandleKeeps ==
  ASSUME coordinated \in BOOLEAN, CoordinatedUntilOff, Handle
  PROVE  CoordinatedUntilOff'
<1>1. alive
  BY DEF Handle
<1>2. ASSUME NEW c, NEW s, ChassisStateChanged(c, s) PROVE CoordinatedUntilOff'
  BY <1>1, <1>2, StateChangedKeeps
<1>3. ASSUME NEW c, NEW s, ChassisStatusChanged(c, s) PROVE CoordinatedUntilOff'
  BY <1>3, UnchangedKeeps DEF ChassisStatusChanged
<1>4. ASSUME NEW c, NEW p, InventoryPresentChanged(c, p) PROVE CoordinatedUntilOff'
  BY <1>4, UnchangedKeeps DEF InventoryPresentChanged, propVars
<1>5. ASSUME NEW t, SysStateChangeJobNew(t) PROVE CoordinatedUntilOff'
  <2>1. CASE UNCHANGED <<coordinated, requested, forwarded, aggregate, alive>>
    BY <2>1, UnchangedKeeps
  <2>2. CASE Transition(JobNewRequest(t), TRUE) \/ Transition(JobNewRequest(t), FALSE)
    BY <2>2, TransitionEnds
  <2> QED BY <1>5, <2>1, <2>2 DEF SysStateChangeJobNew
<1> QED BY <1>2, <1>3, <1>4, <1>5 DEF Handle

\* The flag stays a Boolean in every handler.
LEMMA FlagIsBoolean ==
  ASSUME coordinated \in BOOLEAN, Next
  PROVE  coordinated' \in BOOLEAN
<1>1. ASSUME NEW old, NEW lost, NEW flag, AggregatePowerState(old, lost, flag)
      PROVE  coordinated' \in BOOLEAN
  BY <1>1 DEF AggregatePowerState
<1>2. ASSUME NEW t, NEW completed, Transition(t, completed)
      PROVE  coordinated' \in BOOLEAN
  BY <1>2 DEF Transition
<1>3. CASE Handle
  BY <1>1, <1>2, <1>3
     DEF Handle, ChassisStateChanged, ChassisStatusChanged,
         InventoryPresentChanged, propVars, SysStateChangeJobNew
<1>4. CASE \E t \in UserTransitions : RequestedPowerTransition(t)
  BY <1>2, <1>4 DEF RequestedPowerTransition
<1>5. CASE Start \/ ReadAll
  BY <1>1, <1>5 DEF Start, ReadAll
<1>6. CASE SystemdTakes \/ Dies \/ \E t \in {"poweron", "poweroff"} : DirectStart(t)
  BY <1>6 DEF SystemdTakes, Dies, DirectStart
<1>7. CASE \E c \in Chassis : CarryOut(c) \/ Reaches(c) \/ Faults(c) \/ PresenceMoves(c)
  BY <1>7 DEF CarryOut, Reaches, Faults, MovesTo, PresenceMoves
<1>8. CASE \E c \in Chassis, s \in PowerStatuses : PowerStatusMoves(c, s)
  BY <1>8 DEF PowerStatusMoves
<1> QED BY <1>3, <1>4, <1>5, <1>6, <1>7, <1>8 DEF Next, Environment

\* The flag that silences failure detection stands for a power off that was
\* forwarded and has not reached every chassis yet.
THEOREM SMPCoordinatedUntilOff == Spec => []CoordinatedUntilOff
<1> DEFINE Inv == coordinated \in BOOLEAN /\ CoordinatedUntilOff
<1>1. Init => Inv
  BY DEF Init, CoordinatedUntilOff
<1>2. Inv /\ [Next]_smpVars => Inv'
  <2> SUFFICES ASSUME coordinated \in BOOLEAN, CoordinatedUntilOff, [Next]_smpVars
               PROVE  coordinated' \in BOOLEAN /\ CoordinatedUntilOff'
    OBVIOUS
  <2>1. CASE Handle
    BY <2>1, HandleKeeps, FlagIsBoolean DEF Next
  <2>2. CASE Start
    BY <2>2 DEF Start, CoordinatedUntilOff
  <2>10. CASE ReadAll
    BY <2>10, AggregateDropsFlag, FlagIsBoolean DEF ReadAll, CoordinatedUntilOff, Next
  <2>3. CASE \E t \in UserTransitions : RequestedPowerTransition(t)
    BY <2>3, TransitionEnds, FlagIsBoolean DEF RequestedPowerTransition, Next, Environment
  <2>4. CASE Dies
    BY <2>4, UnchangedKeeps, FlagIsBoolean DEF Dies, Next, Environment, propVars
  <2>5. CASE SystemdTakes \/ \E t \in {"poweron", "poweroff"} : DirectStart(t)
    BY <2>5, UnchangedKeeps DEF SystemdTakes, DirectStart, propVars
  <2>6. CASE \E c \in Chassis : Reaches(c) \/ Faults(c) \/ PresenceMoves(c)
    BY <2>6, UnchangedKeeps DEF Reaches, Faults, MovesTo, PresenceMoves, propVars
  <2>7. CASE \E c \in Chassis : CarryOut(c)
    BY <2>7, UnchangedKeeps DEF CarryOut, MovesTo, propVars
  <2>8. CASE \E c \in Chassis, s \in PowerStatuses : PowerStatusMoves(c, s)
    BY <2>8, UnchangedKeeps DEF PowerStatusMoves, propVars
  <2>9. CASE UNCHANGED smpVars
    BY <2>9, UnchangedKeeps DEF smpVars, propVars
  <2> QED BY <2>1, <2>2, <2>3, <2>4, <2>5, <2>6, <2>7, <2>8, <2>9, <2>10
          DEF Next, Environment
<1> QED BY <1>1, <1>2, PTL DEF Spec
---------------------------------------------------------------------------
(* What the aggregator shows.  The invariant follows every change from the *)
(* chassis to the cache: it is in the cache, or its signal is still queued. *)

\* A signal of that kind about chassis c is queued.
About(kind, c, q) == \E i \in 1..Len(q) : q[i].kind = kind /\ q[i].chassis = c

\* The properties are what the cache amounts to, once the chassis are read.
CacheIsShown ==
  ~reading =>
    /\ aggregate = CombinedState(cachedPresent, cachedState)
    /\ aggregateStatus = CombinedStatus(cachedPresent, cachedStatus)

\* What is counted is watched; who is not there hears nothing.
CountedIsWatched ==
  /\ alive => \A c \in Chassis : cachedPresent[c] => c \in watched
  /\ ~alive => inbox = <<>>

\* What is counted is as it was read, unless a signal about it is queued.
CacheIsRead ==
  alive /\ ~reading => \A c \in Chassis : cachedPresent[c] =>
    /\ \/ cachedState[c] = power[c] \/ About("state", c, inbox)
       \/ c \in Unreadable /\ cachedState[c] = "Off"
    /\ \/ cachedStatus[c] = status[c] \/ About("status", c, inbox)
       \/ c \in Unreadable /\ cachedStatus[c] = "Good"

\* The last queued word on the presence of a chassis is the true one, and
\* without any the cache is right.
LastWord(i, c, q) ==
  /\ q[i].kind = "present" /\ q[i].chassis = c
  /\ \A j \in 1..Len(q) : j > i => ~(q[j].kind = "present" /\ q[j].chassis = c)

PresenceIsKnown ==
  alive => \A c \in Chassis :
    /\ \A i \in 1..Len(inbox) :
         LastWord(i, c, inbox) => inbox[i] = PresentSignal(c, present[c])
    /\ \/ cachedPresent[c] = present[c] \/ About("present", c, inbox)
       \/ c \in Unreadable /\ ~cachedPresent[c]

CacheInv ==
  TypeOK /\ CacheIsShown /\ CountedIsWatched /\ CacheIsRead /\ PresenceIsKnown

\* How what is queued about a chassis changes as a signal comes and goes.
LEMMA QueueFacts ==
  ASSUME NEW S, NEW q \in Seq(S)
  PROVE  /\ \A m \in S : \A k, c :
              About(k, c, Append(q, m)) <=> About(k, c, q) \/ (m.kind = k /\ m.chassis = c)
         /\ q # <<>> => \A k, c :
              About(k, c, q) =>
                About(k, c, Tail(q)) \/ (Head(q).kind = k /\ Head(q).chassis = c)
<1>1. ASSUME NEW m \in S, NEW k, NEW c
      PROVE About(k, c, Append(q, m)) <=> About(k, c, q) \/ (m.kind = k /\ m.chassis = c)
  <2>1. /\ Len(Append(q, m)) = Len(q) + 1 /\ Append(q, m)[Len(q) + 1] = m
        /\ Len(q) \in Nat
        /\ \A i \in 1..Len(q) : Append(q, m)[i] = q[i]
    OBVIOUS
  <2>2. \A i \in 1..(Len(q) + 1) : i \in 1..Len(q) \/ i = Len(q) + 1
    BY <2>1
  <2>3. \A i \in 1..Len(q) : i \in 1..(Len(q) + 1)
    BY <2>1
  <2>4. Len(q) + 1 \in 1..(Len(q) + 1)
    BY <2>1
  <2> QED BY <2>1, <2>2, <2>3, <2>4 DEF About
<1>2. ASSUME q # <<>>, NEW k, NEW c, About(k, c, q)
      PROVE  About(k, c, Tail(q)) \/ (Head(q).kind = k /\ Head(q).chassis = c)
  <2>1. PICK i \in 1..Len(q) : q[i].kind = k /\ q[i].chassis = c
    BY <1>2 DEF About
  <2>2. CASE i = 1
    BY <1>2, <2>1, <2>2
  <2>3. CASE i # 1
    <3>1. i - 1 \in 1..Len(Tail(q)) /\ Tail(q)[i - 1] = q[i]
      BY <1>2, <2>1, <2>3
    <3> QED BY <2>1, <3>1 DEF About
  <2> QED BY <2>2, <2>3
<1> QED BY <1>1, <1>2

\* The same for the last word on the presence of a chassis.
LEMMA LastWordFacts ==
  ASSUME NEW S, NEW q \in Seq(S), NEW c
  PROVE  /\ \A m \in S : \A i \in 1..Len(Append(q, m)) :
              LastWord(i, c, Append(q, m)) =>
                \/ i = Len(q) + 1 /\ Append(q, m)[i] = m
                \/ /\ i \in 1..Len(q) /\ Append(q, m)[i] = q[i] /\ LastWord(i, c, q)
                   /\ ~(m.kind = "present" /\ m.chassis = c)
         /\ q # <<>> =>
              /\ \A i \in 1..Len(Tail(q)) :
                   LastWord(i, c, Tail(q)) =>
                     i + 1 \in 1..Len(q) /\ Tail(q)[i] = q[i + 1] /\ LastWord(i + 1, c, q)
              /\ Head(q).kind = "present" /\ Head(q).chassis = c
                   /\ ~About("present", c, Tail(q)) => LastWord(1, c, q)
<1>1. ASSUME NEW m \in S, NEW i \in 1..Len(Append(q, m)), LastWord(i, c, Append(q, m))
      PROVE  \/ i = Len(q) + 1 /\ Append(q, m)[i] = m
             \/ /\ i \in 1..Len(q) /\ Append(q, m)[i] = q[i] /\ LastWord(i, c, q)
                /\ ~(m.kind = "present" /\ m.chassis = c)
  <2>1. /\ Len(Append(q, m)) = Len(q) + 1 /\ Append(q, m)[Len(q) + 1] = m
        /\ Len(q) \in Nat
        /\ \A j \in 1..Len(q) : Append(q, m)[j] = q[j] /\ j \in 1..Len(Append(q, m))
    OBVIOUS
  <2>2. CASE i = Len(q) + 1
    BY <2>1, <2>2
  <2>3. CASE i # Len(q) + 1
    <3>1. i \in 1..Len(q) /\ Append(q, m)[i] = q[i]
      BY <2>1, <2>3
    <3>2. LastWord(i, c, q)
      BY <1>1, <2>1, <3>1 DEF LastWord
    <3>3. Len(q) + 1 \in 1..Len(Append(q, m)) /\ Len(q) + 1 > i
      BY <2>1, <3>1
    <3>4. ~(m.kind = "present" /\ m.chassis = c)
      BY <1>1, <2>1, <3>3 DEF LastWord
    <3> QED BY <3>1, <3>2, <3>4
  <2> QED BY <2>2, <2>3
<1>2. ASSUME q # <<>>, NEW i \in 1..Len(Tail(q)), LastWord(i, c, Tail(q))
      PROVE  i + 1 \in 1..Len(q) /\ Tail(q)[i] = q[i + 1] /\ LastWord(i + 1, c, q)
  <2>1. /\ i + 1 \in 1..Len(q) /\ Tail(q)[i] = q[i + 1]
        /\ \A j \in 1..Len(q) : j > i + 1 =>
             j - 1 \in 1..Len(Tail(q)) /\ j - 1 > i /\ Tail(q)[j - 1] = q[j]
    BY <1>2
  <2> QED BY <1>2, <2>1 DEF LastWord
<1>3. ASSUME q # <<>>, Head(q).kind = "present", Head(q).chassis = c,
             ~About("present", c, Tail(q))
      PROVE  LastWord(1, c, q)
  <2>1. /\ Head(q) = q[1]
        /\ \A j \in 1..Len(q) : j > 1 =>
             j - 1 \in 1..Len(Tail(q)) /\ Tail(q)[j - 1] = q[j]
    BY <1>3
  <2> QED BY <1>3, <2>1 DEF LastWord, About
<1> QED BY <1>1, <1>2, <1>3

\* A signal that is emitted joins the queue of an aggregator that watches.
LEMMA EmitFacts ==
  ASSUME TypeOK, NEW m \in Signals, Emit(m)
  PROVE  /\ inbox' \in Seq(Signals)
         /\ ~alive => inbox' = inbox
         /\ \A k, c : About(k, c, inbox) => About(k, c, inbox')
         /\ alive /\ (m.kind \in {"state", "status"} => m.chassis \in watched)
              => About(m.kind, m.chassis, inbox')
<1>0. inbox \in Seq(Signals)
  BY DEF TypeOK
<1>1. CASE alive /\ (m.kind \in {"state", "status"} => m.chassis \in watched)
  <2>1. inbox' = Append(inbox, m)
    BY <1>1 DEF Emit
  <2>2. Append(inbox, m) \in Seq(Signals)
    BY <1>0
  <2>3. \A k, c : About(k, c, Append(inbox, m))
                    <=> About(k, c, inbox) \/ (m.kind = k /\ m.chassis = c)
    BY <1>0, QueueFacts
  <2> QED BY <1>1, <2>1, <2>2, <2>3
<1>2. CASE ~(alive /\ (m.kind \in {"state", "status"} => m.chassis \in watched))
  <2>1. inbox' = inbox
    BY <1>2 DEF Emit
  <2> QED BY <1>0, <1>2, <2>1
<1> QED BY <1>1, <1>2

\* Presence stays known as a signal of another kind comes ...
LEMMA OtherSignalComes ==
  ASSUME TypeOK, PresenceIsKnown, NEW m \in Signals, m.kind # "present", Emit(m),
         UNCHANGED <<present, cachedPresent, alive>>
  PROVE  PresenceIsKnown'
<1>1. SUFFICES ASSUME alive, NEW c \in Chassis
               PROVE  /\ \A i \in 1..Len(inbox') :
                           LastWord(i, c, inbox') => inbox'[i] = PresentSignal(c, present[c])
                      /\ \/ cachedPresent[c] = present[c] \/ About("present", c, inbox')
                         \/ c \in Unreadable /\ ~cachedPresent[c]
  BY DEF PresenceIsKnown
<1>2. inbox \in Seq(Signals)
  BY DEF TypeOK
<1>3. \A k, d : About(k, d, inbox) => About(k, d, inbox')
  BY EmitFacts
<1>4. ASSUME NEW i \in 1..Len(inbox'), LastWord(i, c, inbox')
      PROVE  inbox'[i] = PresentSignal(c, present[c])
  <2>1. CASE inbox' = inbox
    BY <1>1, <1>4, <2>1 DEF PresenceIsKnown
  <2>2. CASE inbox' = Append(inbox, m)
    <3>1. \/ i = Len(inbox) + 1 /\ inbox'[i] = m
          \/ i \in 1..Len(inbox) /\ inbox'[i] = inbox[i] /\ LastWord(i, c, inbox)
      <4>1. \A j \in 1..Len(Append(inbox, m)) :
              LastWord(j, c, Append(inbox, m)) =>
                \/ j = Len(inbox) + 1 /\ Append(inbox, m)[j] = m
                \/ /\ j \in 1..Len(inbox) /\ Append(inbox, m)[j] = inbox[j]
                   /\ LastWord(j, c, inbox)
                   /\ ~(m.kind = "present" /\ m.chassis = c)
        BY ONLY <1>2, m \in Signals, LastWordFacts
      <4> QED BY <1>4, <2>2, <4>1
    <3>2. inbox'[i].kind = "present"
      BY <1>4 DEF LastWord
    <3>3. i \in 1..Len(inbox) /\ inbox'[i] = inbox[i] /\ LastWord(i, c, inbox)
      BY <3>1, <3>2
    <3>4. \A j \in 1..Len(inbox) :
            LastWord(j, c, inbox) => inbox[j] = PresentSignal(c, present[c])
      BY <1>1 DEF PresenceIsKnown
    <3> QED BY <3>3, <3>4
  <2> QED BY <2>1, <2>2 DEF Emit
<1> QED BY <1>1, <1>3, <1>4 DEF PresenceIsKnown

\* ... and goes.
LEMMA OtherSignalGoes ==
  ASSUME TypeOK, PresenceIsKnown, inbox # <<>>, inbox' = Tail(inbox),
         Head(inbox).kind # "present", UNCHANGED <<present, cachedPresent, alive>>
  PROVE  PresenceIsKnown'
<1>1. SUFFICES ASSUME alive, NEW c \in Chassis
               PROVE  /\ \A i \in 1..Len(inbox') :
                           LastWord(i, c, inbox') => inbox'[i] = PresentSignal(c, present[c])
                      /\ \/ cachedPresent[c] = present[c] \/ About("present", c, inbox')
                         \/ c \in Unreadable /\ ~cachedPresent[c]
  BY DEF PresenceIsKnown
<1>2. inbox \in Seq(Signals)
  BY DEF TypeOK
<1>3. About("present", c, inbox) => About("present", c, inbox')
  BY <1>2, QueueFacts
<1>4. ASSUME NEW i \in 1..Len(inbox'), LastWord(i, c, inbox')
      PROVE  inbox'[i] = PresentSignal(c, present[c])
  <2>1. i + 1 \in 1..Len(inbox) /\ inbox'[i] = inbox[i + 1] /\ LastWord(i + 1, c, inbox)
    <3>1. \A j \in 1..Len(Tail(inbox)) :
            LastWord(j, c, Tail(inbox)) =>
              /\ j + 1 \in 1..Len(inbox) /\ Tail(inbox)[j] = inbox[j + 1]
              /\ LastWord(j + 1, c, inbox)
      BY ONLY <1>2, inbox # <<>>, LastWordFacts
    <3> QED BY <1>4, <3>1
  <2>2. PICK k \in 1..Len(inbox) : inbox'[i] = inbox[k] /\ LastWord(k, c, inbox)
    BY <2>1
  <2> QED BY <1>1, <2>2 DEF PresenceIsKnown
<1> QED BY <1>1, <1>3, <1>4 DEF PresenceIsKnown

\* Aggregating shows what was read, and reads what is counted.
LEMMA AggregateFacts ==
  ASSUME TypeOK, cachedPresent' \in [Chassis -> BOOLEAN],
         NEW old \in [Chassis -> PowerStates], NEW lost \in SUBSET Unreadable,
         NEW flag \in BOOLEAN, AggregatePowerState(old, lost, flag)
  PROVE  /\ cachedState' \in [Chassis -> PowerStates]
         /\ aggregate' \in PowerStates /\ coordinated' \in BOOLEAN
         /\ aggregate' = CombinedState(cachedPresent', cachedState')
         /\ \A c \in Chassis : cachedPresent'[c] =>
              cachedState'[c] = power[c] \/ (c \in Unreadable /\ cachedState'[c] = "Off")
<1>1. /\ cachedState' = ReadStates(cachedPresent', old, lost)
      /\ aggregate' = CombinedState(cachedPresent', cachedState')
      /\ coordinated' = (flag /\ aggregate' # "Off")
  BY DEF AggregatePowerState
<1>2. \A c \in Chassis : power[c] \in PowerStates
  BY DEF TypeOK
<1>3. cachedState' \in [Chassis -> PowerStates]
  BY <1>1, <1>2 DEF ReadStates, PowerStates
<1>4. aggregate' \in PowerStates
  BY <1>1 DEF CombinedState, PowerStates
<1>5. \A c \in Chassis : cachedPresent'[c] =>
        cachedState'[c] = power[c] \/ (c \in Unreadable /\ cachedState'[c] = "Off")
  BY <1>1 DEF ReadStates
<1>6. coordinated' \in BOOLEAN
  BY Zenon, <1>1
<1> QED BY <1>1, <1>3, <1>4, <1>5, <1>6

\* The status of all chassis is that of the statuses just read.
LEMMA AggregateStatusFacts ==
  ASSUME TypeOK, cachedPresent' \in [Chassis -> BOOLEAN],
         NEW old \in [Chassis -> PowerStatuses], NEW lost \in SUBSET Unreadable,
         AggregatePowerStatus(old, lost)
  PROVE  /\ cachedStatus' \in [Chassis -> PowerStatuses]
         /\ aggregateStatus' \in PowerStatuses
         /\ aggregateStatus' = CombinedStatus(cachedPresent', cachedStatus')
         /\ \A c \in Chassis : cachedPresent'[c] =>
              cachedStatus'[c] = status[c] \/ (c \in Unreadable /\ cachedStatus'[c] = "Good")
<1>1. /\ cachedStatus' = ReadStatuses(cachedPresent', old, lost)
      /\ aggregateStatus' = CombinedStatus(cachedPresent', cachedStatus')
  BY DEF AggregatePowerStatus
<1>2. \A c \in Chassis : status[c] \in PowerStatuses
  BY DEF TypeOK
<1>3. cachedStatus' \in [Chassis -> PowerStatuses]
  BY <1>1, <1>2 DEF ReadStatuses, PowerStatuses
<1>4. aggregateStatus' \in PowerStatuses
  BY <1>1 DEF CombinedStatus, PowerStatuses
<1>5. \A c \in Chassis : cachedPresent'[c] =>
        cachedStatus'[c] = status[c] \/ (c \in Unreadable /\ cachedStatus'[c] = "Good")
  BY <1>1 DEF ReadStatuses
<1> QED BY <1>1, <1>3, <1>4, <1>5

\* What is sent is of the known kinds.
LEMMA SendTypes ==
  ASSUME TypeOK, NEW t \in Transitions, NEW completed, Send(t, completed)
  PROVE  /\ jobs' \in Seq(Targets) /\ orders' \in [Chassis -> Seq(Transitions)]
         /\ forwarded' \in Transitions
<1>0. /\ jobs \in Seq(Targets) /\ orders \in [Chassis -> Seq(Transitions)]
      /\ forwarded \in Transitions
  BY DEF TypeOK
<1>1. CASE UNCHANGED <<jobs, orders, forwarded>>
  BY <1>0, <1>1
<1>2. ASSUME NEW k, jobs' = Append(jobs, TargetOf(t)), Forward(t, k)
      PROVE  /\ jobs' \in Seq(Targets) /\ orders' \in [Chassis -> Seq(Transitions)]
             /\ forwarded' \in Transitions
  <2>1. TargetOf(t) \in Targets
    BY DEF TargetOf, Transitions, Targets
  <2>2. jobs' \in Seq(Targets)
    BY <1>0, <1>2, <2>1
  <2>3. \A c \in Chassis : orders[c] \in Seq(Transitions)
                           /\ Append(orders[c], t) \in Seq(Transitions)
    BY <1>0
  <2>4. orders' \in [Chassis -> Seq(Transitions)]
    BY <1>2, <2>3 DEF Forward
  <2> QED BY <1>2, <2>2, <2>4 DEF Forward
<1> QED BY <1>1, <1>2 DEF Send

\* A transition keeps the types, completed or not.
LEMMA TransitionTypes ==
  ASSUME TypeOK, NEW t \in Transitions, NEW completed, Transition(t, completed)
  PROVE  /\ jobs' \in Seq(Targets) /\ orders' \in [Chassis -> Seq(Transitions)]
         /\ forwarded' \in Transitions /\ requested' \in Transitions
         /\ coordinated' \in BOOLEAN
BY SendTypes DEF Transition, TypeOK

\* A queued signal is one of the four kinds.
LEMMA HeadFacts ==
  ASSUME TypeOK, inbox # <<>>
  PROVE  /\ Head(inbox) \in Signals /\ Tail(inbox) \in Seq(Signals)
         /\ Head(inbox).kind = "state" =>
              Head(inbox).chassis \in Chassis /\ Head(inbox).value \in PowerStates
         /\ Head(inbox).kind = "status" =>
              Head(inbox).chassis \in Chassis /\ Head(inbox).value \in PowerStatuses
         /\ Head(inbox).kind = "present" =>
              Head(inbox).chassis \in Chassis /\ Head(inbox).value \in {"yes", "no"}
         /\ Head(inbox).kind = "JobNew" => Head(inbox).value \in Targets
<1>1. inbox \in Seq(Signals)
  BY DEF TypeOK
<1>2. Head(inbox) \in Signals /\ Tail(inbox) \in Seq(Signals)
  BY <1>1
<1> QED BY <1>2 DEF Signals

\* The handlers that aggregate the states leave every counted chassis read.
LEMMA StateChangedRefreshes ==
  ASSUME CacheInv, alive, UNCHANGED reading, inbox # <<>>, Head(inbox).kind = "state",
         ChassisStateChanged(Head(inbox).chassis, Head(inbox).value)
  PROVE  CacheInv'
<1> DEFINE c == Head(inbox).chassis
           s == Head(inbox).value
           old == [cachedState EXCEPT ![c] = s]
           AggregatedWith(flag) ==
             /\ UNCHANGED cachedPresent
             /\ \E lost \in SUBSET Unreadable : AggregatePowerState(old, lost, flag)
             /\ inbox' = Tail(inbox)
             /\ UNCHANGED <<chassisVars, alive, aggregateStatus, cachedStatus,
                            watched, histVars>>
<1>0. CacheIsShown /\ CountedIsWatched /\ CacheIsRead /\ PresenceIsKnown /\ TypeOK
  BY DEF CacheInv
<1>1. c \in Chassis /\ s \in PowerStates /\ Tail(inbox) \in Seq(Signals)
  BY <1>0, HeadFacts
<1>2. old \in [Chassis -> PowerStates]
  BY <1>0, <1>1 DEF TypeOK
<1>3. \/ AggregatedWith(coordinated) /\ UNCHANGED <<jobs, orders, forwarded, requested>>
      \/ requested' = "Off" /\ Send("Off", TRUE) /\ AggregatedWith(TRUE)
      \/ requested' = "Off" /\ Send("Off", FALSE) /\ coordinated' = TRUE /\ DieHandling
  BY DEF ChassisStateChanged
<1>4. /\ jobs' \in Seq(Targets) /\ orders' \in [Chassis -> Seq(Transitions)]
      /\ forwarded' \in Transitions /\ requested' \in Transitions
  <2>1. "Off" \in Transitions
    BY DEF Transitions
  <2>2. CASE UNCHANGED <<jobs, orders, forwarded, requested>>
    BY <1>0, <2>2 DEF TypeOK
  <2>3. CASE requested' = "Off" /\ (Send("Off", TRUE) \/ Send("Off", FALSE))
    BY <1>0, <2>1, <2>3, SendTypes
  <2> QED BY <1>3, <2>2, <2>3
<1>5. ASSUME NEW flag \in BOOLEAN, AggregatedWith(flag) PROVE CacheInv'
  <2>1. PICK lost \in SUBSET Unreadable : AggregatePowerState(old, lost, flag)
    BY <1>5
  <2>2. cachedPresent' = cachedPresent /\ cachedPresent' \in [Chassis -> BOOLEAN]
    BY <1>0, <1>5 DEF TypeOK
  <2>3. /\ cachedState' \in [Chassis -> PowerStates]
        /\ aggregate' \in PowerStates /\ coordinated' \in BOOLEAN
        /\ aggregate' = CombinedState(cachedPresent', cachedState')
        /\ \A d \in Chassis : cachedPresent'[d] =>
             cachedState'[d] = power[d] \/ (d \in Unreadable /\ cachedState'[d] = "Off")
    BY <1>0, <1>2, <2>1, <2>2, AggregateFacts
  <2>4. /\ UNCHANGED <<power, status, present, alive, aggregateStatus, cachedStatus,
                       watched, faults>>
        /\ inbox' = Tail(inbox)
    BY <1>5 DEF chassisVars, histVars
  <2>5. TypeOK'
    BY <1>0, <1>1, <1>4, <2>2, <2>3, <2>4 DEF TypeOK
  <2>6. CacheIsShown' /\ CountedIsWatched'
    BY <1>0, <2>2, <2>3, <2>4 DEF CacheIsShown, CountedIsWatched
  <2>7. PresenceIsKnown'
    BY <1>0, <2>2, <2>4, OtherSignalGoes
  <2>8. \A d \in Chassis : About("status", d, inbox) => About("status", d, inbox')
    BY <1>0, <2>4, QueueFacts DEF TypeOK
  <2>9. CacheIsRead'
    BY <1>0, <2>2, <2>3, <2>4, <2>8 DEF CacheIsRead
  <2> QED BY <2>5, <2>6, <2>7, <2>9 DEF CacheInv
<1>6. ASSUME DieHandling, coordinated' = TRUE PROVE CacheInv'
  <2>1. /\ alive' = FALSE /\ inbox' = <<>>
        /\ UNCHANGED <<power, status, present, aggregate, aggregateStatus,
                       cachedState, cachedStatus, cachedPresent, watched, faults>>
    BY <1>6 DEF DieHandling, chassisVars, cacheVars
  <2>2. inbox' \in Seq(Signals) /\ alive' \in BOOLEAN /\ coordinated' \in BOOLEAN
    <3>1. alive' \in BOOLEAN
      BY Zenon, <2>1
    <3>2. coordinated' \in BOOLEAN
      BY Zenon, <1>6
    <3> QED BY <2>1, <3>1, <3>2
  <2>3. TypeOK'
    BY <1>0, <1>4, <2>1, <2>2 DEF TypeOK
  <2> QED BY <1>0, <2>1, <2>3
          DEF CacheInv, CacheIsShown, CountedIsWatched, CacheIsRead, PresenceIsKnown
<1> QED BY <1>0, <1>3, <1>5, <1>6 DEF TypeOK

\* The handler of a status signal keeps the cache and what is shown together.
LEMMA StatusChangedRefreshes ==
  ASSUME CacheInv, alive, UNCHANGED reading, inbox # <<>>, Head(inbox).kind = "status",
         ChassisStatusChanged(Head(inbox).chassis, Head(inbox).value)
  PROVE  CacheInv'
<1> DEFINE old == [cachedStatus EXCEPT ![Head(inbox).chassis] = Head(inbox).value]
<1>0. CacheIsShown /\ CountedIsWatched /\ CacheIsRead /\ PresenceIsKnown /\ TypeOK
  BY DEF CacheInv
<1>1. /\ Head(inbox).chassis \in Chassis /\ Head(inbox).value \in PowerStatuses
      /\ Tail(inbox) \in Seq(Signals)
  BY <1>0, HeadFacts
<1>2. old \in [Chassis -> PowerStatuses]
  BY <1>0, <1>1 DEF TypeOK
<1>3. PICK lost \in SUBSET Unreadable : AggregatePowerStatus(old, lost)
  BY DEF ChassisStatusChanged
<1>4. /\ cachedPresent' = cachedPresent /\ inbox' = Tail(inbox)
      /\ UNCHANGED <<power, status, present, orders, alive, requested, aggregate,
                     cachedState, watched, reading, coordinated, jobs, faults, forwarded>>
  BY DEF ChassisStatusChanged, chassisVars, histVars
<1>5. cachedPresent' \in [Chassis -> BOOLEAN]
  BY <1>0, <1>4 DEF TypeOK
<1>6. /\ cachedStatus' \in [Chassis -> PowerStatuses]
      /\ aggregateStatus' \in PowerStatuses
      /\ aggregateStatus' = CombinedStatus(cachedPresent', cachedStatus')
      /\ \A d \in Chassis : cachedPresent'[d] =>
           cachedStatus'[d] = status[d] \/ (d \in Unreadable /\ cachedStatus'[d] = "Good")
  BY <1>0, <1>2, <1>3, <1>5, AggregateStatusFacts
<1>7. TypeOK'
  BY <1>0, <1>1, <1>4, <1>5, <1>6 DEF TypeOK
<1>8. CacheIsShown' /\ CountedIsWatched'
  BY <1>0, <1>4, <1>6 DEF CacheIsShown, CountedIsWatched
<1>9. PresenceIsKnown'
  BY <1>0, <1>4, OtherSignalGoes
<1>10. \A d \in Chassis : About("state", d, inbox) => About("state", d, inbox')
  BY <1>0, <1>4, QueueFacts DEF TypeOK
<1>11. CacheIsRead'
  BY <1>0, <1>4, <1>6, <1>10 DEF CacheIsRead
<1> QED BY <1>7, <1>8, <1>9, <1>11 DEF CacheInv

\* The handler of the inventory watches who has appeared.  The cache is behind
\* until ReadAll.
LEMMA PresentChangedRefreshes ==
  ASSUME CacheInv, alive, inbox # <<>>, Head(inbox).kind = "present",
         InventoryPresentChanged(Head(inbox).chassis, Head(inbox).value = "yes")
  PROVE  CacheInv'
<1> DEFINE m == Head(inbox)
           c == Head(inbox).chassis
           p == Head(inbox).value = "yes"
<1>0. CacheIsShown /\ CountedIsWatched /\ CacheIsRead /\ PresenceIsKnown /\ TypeOK
  BY DEF CacheInv
<1>1. c \in Chassis /\ inbox \in Seq(Signals) /\ Tail(inbox) \in Seq(Signals)
  BY <1>0, HeadFacts DEF TypeOK
<1>2. /\ cachedPresent' = [cachedPresent EXCEPT ![c] = p]
      /\ watched' = (IF p THEN watched \union {c} ELSE watched)
      /\ inbox' = Tail(inbox) /\ reading' = TRUE
      /\ UNCHANGED <<power, status, present, orders, alive, requested, aggregate,
                     aggregateStatus, cachedState, cachedStatus, coordinated, jobs,
                     faults, forwarded>>
  BY DEF InventoryPresentChanged, chassisVars, propVars, histVars
<1>3. /\ cachedPresent' \in [Chassis -> BOOLEAN]
      /\ \A d \in Chassis : cachedPresent'[d] = IF d = c THEN p ELSE cachedPresent[d]
  BY <1>0, <1>1, <1>2 DEF TypeOK
<1>7. watched' \in SUBSET Chassis
  BY <1>0, <1>1, <1>2 DEF TypeOK
<1>8. TypeOK'
  <2>1. reading' \in BOOLEAN
    BY Zenon, <1>2
  <2> QED BY <1>0, <1>1, <1>2, <1>3, <1>7, <2>1 DEF TypeOK
<1>9. CacheIsShown'
  BY <1>2 DEF CacheIsShown
<1>10. CountedIsWatched'
  BY <1>0, <1>2, <1>3 DEF CountedIsWatched
<1>11. CacheIsRead'
  BY <1>2 DEF CacheIsRead
<1>12. PresenceIsKnown'
  <2>1. SUFFICES ASSUME NEW d \in Chassis
                 PROVE  /\ \A i \in 1..Len(inbox') :
                             LastWord(i, d, inbox') => inbox'[i] = PresentSignal(d, present[d])
                        /\ \/ cachedPresent'[d] = present[d] \/ About("present", d, inbox')
                           \/ d \in Unreadable /\ ~cachedPresent'[d]
    BY <1>2 DEF PresenceIsKnown
  <2>2. /\ \A i \in 1..Len(inbox) :
             LastWord(i, d, inbox) => inbox[i] = PresentSignal(d, present[d])
        /\ \/ cachedPresent[d] = present[d] \/ About("present", d, inbox)
           \/ d \in Unreadable /\ ~cachedPresent[d]
    BY <1>0 DEF PresenceIsKnown
  <2>3. ASSUME NEW i \in 1..Len(inbox'), LastWord(i, d, inbox')
        PROVE  inbox'[i] = PresentSignal(d, present[d])
    <3>1. i + 1 \in 1..Len(inbox) /\ inbox'[i] = inbox[i + 1] /\ LastWord(i + 1, d, inbox)
      <4>1. \A j \in 1..Len(Tail(inbox)) :
              LastWord(j, d, Tail(inbox)) =>
                /\ j + 1 \in 1..Len(inbox) /\ Tail(inbox)[j] = inbox[j + 1]
                /\ LastWord(j + 1, d, inbox)
        BY ONLY <1>1, inbox # <<>>, inbox \in Seq(Signals), LastWordFacts
      <4> QED BY <1>2, <2>3, <4>1
    <3>2. PICK k \in 1..Len(inbox) : inbox'[i] = inbox[k] /\ LastWord(k, d, inbox)
      BY <3>1
    <3> QED BY <2>2, <3>2
  <2>4. CASE d # c
    <3>1. About("present", d, inbox) => About("present", d, inbox')
      BY <1>1, <1>2, <2>4, QueueFacts
    <3> QED BY <1>3, <2>2, <2>3, <2>4, <3>1
  <2>5. CASE d = c /\ ~About("present", c, inbox')
    <3>1. LastWord(1, c, inbox)
      BY <1>1, <1>2, <2>5, LastWordFacts
    <3>2. 1 \in 1..Len(inbox) /\ inbox[1] = m
      BY <1>1
    <3>3. m = PresentSignal(c, present[c])
      BY <2>2, <2>5, <3>1, <3>2
    <3>4. p = present[c]
      BY <1>0, <1>1, <3>3 DEF PresentSignal, TypeOK
    <3> QED BY <1>3, <2>3, <2>5, <3>4
  <2> QED BY <2>3, <2>4, <2>5
<1> QED BY <1>8, <1>9, <1>10, <1>11, <1>12 DEF CacheInv

\* A StartUnit call that was taken: the handler changes no cache.
LEMMA JobNewKeeps ==
  ASSUME CacheInv, alive, UNCHANGED reading, inbox # <<>>, Head(inbox).kind = "JobNew",
         SysStateChangeJobNew(Head(inbox).value)
  PROVE  CacheInv'
<1> DEFINE request == JobNewRequest(Head(inbox).value)
<1>0. CacheIsShown /\ CountedIsWatched /\ CacheIsRead /\ PresenceIsKnown /\ TypeOK
  BY DEF CacheInv
<1>1. inbox \in Seq(Signals) /\ Tail(inbox) \in Seq(Signals)
  BY <1>0, HeadFacts DEF TypeOK
<1>2. request # "none" => request \in Transitions
  BY DEF JobNewRequest, Transitions
<1>3. UNCHANGED <<power, status, present, aggregate, aggregateStatus, cachedState,
                  cachedStatus, cachedPresent, watched, faults>>
  BY DEF SysStateChangeJobNew, chassisVars, cacheVars, histVars, DieHandling
<1>4. \/ UNCHANGED <<orders, jobs, requested, forwarded, coordinated>>
      \/ \E completed \in BOOLEAN : request \in Transitions /\ Transition(request, completed)
  BY <1>2 DEF SysStateChangeJobNew
<1>5. /\ jobs' \in Seq(Targets) /\ orders' \in [Chassis -> Seq(Transitions)]
      /\ forwarded' \in Transitions /\ requested' \in Transitions
      /\ coordinated' \in BOOLEAN
  <2>1. CASE UNCHANGED <<orders, jobs, requested, forwarded, coordinated>>
    BY <1>0, <2>1 DEF TypeOK
  <2>2. CASE \E completed \in BOOLEAN :
               request \in Transitions /\ Transition(request, completed)
    BY <1>0, <2>2, TransitionTypes
  <2> QED BY <1>4, <2>1, <2>2
<1>6. CASE alive' = alive /\ inbox' = Tail(inbox)
  <2>1. \A k, d : k # "JobNew" => (About(k, d, inbox) => About(k, d, inbox'))
    BY <1>1, <1>6, QueueFacts
  <2>2. \A d : /\ About("state", d, inbox) => About("state", d, inbox')
               /\ About("status", d, inbox) => About("status", d, inbox')
    BY <2>1
  <2>3. CacheIsShown' /\ CountedIsWatched' /\ CacheIsRead'
    BY <1>0, <1>3, <1>6, <2>2 DEF CacheIsShown, CountedIsWatched, CacheIsRead
  <2>4. PresenceIsKnown'
    BY <1>0, <1>3, <1>6, OtherSignalGoes
  <2>5. TypeOK'
    BY <1>0, <1>1, <1>3, <1>5, <1>6 DEF TypeOK
  <2> QED BY <2>3, <2>4, <2>5 DEF CacheInv
<1>7. CASE DieHandling
  <2>1. alive' = FALSE /\ inbox' = <<>>
    BY <1>7 DEF DieHandling
  <2>2. alive' \in BOOLEAN
    BY Zenon, <2>1
  <2>3. TypeOK'
    BY <1>0, <1>3, <1>5, <2>1, <2>2 DEF TypeOK
  <2> QED BY <1>0, <1>3, <2>1, <2>3
          DEF CacheInv, CacheIsShown, CountedIsWatched, CacheIsRead, PresenceIsKnown
<1> QED BY <1>6, <1>7 DEF SysStateChangeJobNew

\* The aggregator begins with nothing read, and nothing queued.
LEMMA StartWatches ==
  ASSUME CacheInv, Start PROVE CacheInv'
<1>0. CountedIsWatched /\ TypeOK
  BY DEF CacheInv
<1>1. /\ ~alive /\ alive' = TRUE /\ reading' = TRUE /\ coordinated' = FALSE
      /\ requested' = "Off" /\ aggregate' = "Off" /\ aggregateStatus' = "Good"
      /\ inbox' = inbox /\ inbox = <<>>
      /\ UNCHANGED <<power, status, present, orders, jobs, faults, forwarded>>
  BY <1>0 DEF Start, CountedIsWatched, chassisVars, histVars
<1>2. PICK lost \in SUBSET Unreadable :
        /\ cachedPresent' = [c \in Chassis |-> present[c] /\ c \notin lost]
        /\ watched' = PresentOnes(cachedPresent')
        /\ cachedState' = [c \in Chassis |-> "Off"]
        /\ cachedStatus' = [c \in Chassis |-> "Good"]
  BY DEF Start
<1>3. \A c \in Chassis : present[c] \in BOOLEAN
  BY <1>0 DEF TypeOK
<1>4. /\ cachedPresent' \in [Chassis -> BOOLEAN]
      /\ \A c \in Chassis : cachedPresent'[c] = (present[c] /\ c \notin lost)
  BY <1>2
<1>5. cachedState' \in [Chassis -> PowerStates] /\ cachedStatus' \in [Chassis -> PowerStatuses]
  BY <1>2 DEF PowerStates, PowerStatuses
<1>6. aggregate' \in PowerStates /\ aggregateStatus' \in PowerStatuses
      /\ requested' \in Transitions
  BY <1>1 DEF PowerStates, PowerStatuses, Transitions
<1>7. watched' \in SUBSET Chassis /\ \A c \in Chassis : cachedPresent'[c] => c \in watched'
  BY <1>2 DEF PresentOnes
<1>8. alive' \in BOOLEAN /\ coordinated' \in BOOLEAN /\ reading' \in BOOLEAN
  BY Zenon, <1>1
<1>9. TypeOK'
  BY <1>0, <1>1, <1>4, <1>5, <1>6, <1>7, <1>8 DEF TypeOK
<1>10. CacheIsShown' /\ CountedIsWatched' /\ CacheIsRead'
  BY <1>1, <1>7 DEF CacheIsShown, CountedIsWatched, CacheIsRead
<1>12. PresenceIsKnown'
  <2>1. ASSUME NEW c \in Chassis
        PROVE  cachedPresent'[c] = present'[c] \/ (c \in Unreadable /\ ~cachedPresent'[c])
    BY <1>1, <1>3, <1>4
  <2>2. Len(inbox') = 0
    BY <1>1
  <2> QED BY <2>1, <2>2 DEF PresenceIsKnown
<1> QED BY <1>9, <1>10, <1>12 DEF CacheInv

\* Reading every chassis that is counted brings cache and properties up to date.
LEMMA ReadAllReads ==
  ASSUME CacheInv, ReadAll PROVE CacheInv'
<1>0. CountedIsWatched /\ PresenceIsKnown /\ TypeOK
  BY DEF CacheInv
<1>1. /\ alive /\ reading' = FALSE /\ cachedPresent' = cachedPresent
      /\ UNCHANGED <<power, status, present, orders, alive, requested, watched,
                     jobs, inbox, faults, forwarded>>
  BY DEF ReadAll, chassisVars, histVars
<1>2. cachedPresent' \in [Chassis -> BOOLEAN] /\ coordinated \in BOOLEAN
      /\ cachedState \in [Chassis -> PowerStates]
      /\ cachedStatus \in [Chassis -> PowerStatuses]
  BY <1>0, <1>1 DEF TypeOK
<1>3. /\ cachedState' \in [Chassis -> PowerStates]
      /\ aggregate' \in PowerStates /\ coordinated' \in BOOLEAN
      /\ aggregate' = CombinedState(cachedPresent', cachedState')
      /\ \A d \in Chassis : cachedPresent'[d] =>
           cachedState'[d] = power[d] \/ (d \in Unreadable /\ cachedState'[d] = "Off")
  <2>1. PICK lost \in SUBSET Unreadable :
          AggregatePowerState(cachedState, lost, coordinated)
    BY DEF ReadAll
  <2> QED BY <1>0, <1>2, <2>1, AggregateFacts
<1>4. /\ cachedStatus' \in [Chassis -> PowerStatuses]
      /\ aggregateStatus' \in PowerStatuses
      /\ aggregateStatus' = CombinedStatus(cachedPresent', cachedStatus')
      /\ \A d \in Chassis : cachedPresent'[d] =>
           cachedStatus'[d] = status[d] \/ (d \in Unreadable /\ cachedStatus'[d] = "Good")
  <2>1. PICK lost \in SUBSET Unreadable : AggregatePowerStatus(cachedStatus, lost)
    BY DEF ReadAll
  <2> QED BY <1>0, <1>2, <2>1, AggregateStatusFacts
<1>5. TypeOK'
  <2>1. reading' \in BOOLEAN
    BY Zenon, <1>1
  <2> QED BY <1>0, <1>1, <1>2, <1>3, <1>4, <2>1 DEF TypeOK
<1>6. CacheIsShown' /\ CacheIsRead'
  BY <1>1, <1>3, <1>4 DEF CacheIsShown, CacheIsRead
<1>7. CountedIsWatched' /\ PresenceIsKnown'
  BY <1>0, <1>1 DEF CountedIsWatched, PresenceIsKnown
<1> QED BY <1>5, <1>6, <1>7 DEF CacheInv

\* A chassis that is counted is watched, so a move of it is queued.
LEMMA MoveIsQueued ==
  ASSUME CacheInv, NEW c \in Chassis, NEW s \in PowerStates, MovesTo(c, s),
         orders' \in [Chassis -> Seq(Transitions)], faults' \in SUBSET Chassis
  PROVE  CacheInv'
<1>0. CacheIsShown /\ CountedIsWatched /\ CacheIsRead /\ PresenceIsKnown /\ TypeOK
  BY DEF CacheInv
<1>1. /\ power' = [power EXCEPT ![c] = s] /\ Emit(StateSignal(c, s))
      /\ UNCHANGED <<status, present, alive, requested, aggregate, aggregateStatus,
                     cachedState, cachedStatus, cachedPresent, watched, reading,
                     coordinated, jobs, forwarded>>
  BY DEF MovesTo, propVars, cacheVars
<1>2. /\ StateSignal(c, s) \in Signals
      /\ StateSignal(c, s).kind = "state" /\ StateSignal(c, s).chassis = c
  BY DEF StateSignal, Signals
<1>3. /\ inbox' \in Seq(Signals)
      /\ ~alive => inbox' = inbox
      /\ \A k, d : About(k, d, inbox) => About(k, d, inbox')
      /\ alive /\ c \in watched => About("state", c, inbox')
  BY <1>0, <1>1, <1>2, EmitFacts
<1>4. /\ power' \in [Chassis -> PowerStates]
      /\ \A d \in Chassis : d # c => power'[d] = power[d]
  BY <1>0, <1>1 DEF TypeOK
<1>5. TypeOK'
  BY <1>0, <1>1, <1>3, <1>4 DEF TypeOK
<1>6. CacheIsShown' /\ CountedIsWatched'
  BY <1>0, <1>1, <1>3 DEF CacheIsShown, CountedIsWatched
<1>7. CacheIsRead'
  <2> SUFFICES ASSUME alive, ~reading, NEW d \in Chassis, cachedPresent[d]
               PROVE  /\ \/ cachedState[d] = power'[d] \/ About("state", d, inbox')
                         \/ d \in Unreadable /\ cachedState[d] = "Off"
                      /\ \/ cachedStatus[d] = status[d] \/ About("status", d, inbox')
                         \/ d \in Unreadable /\ cachedStatus[d] = "Good"
    BY <1>1 DEF CacheIsRead
  <2>1. d \in watched
    BY <1>0 DEF CountedIsWatched
  <2> QED BY <1>0, <1>3, <1>4, <2>1 DEF CacheIsRead
<1>8. PresenceIsKnown'
  BY <1>0, <1>1, <1>2, OtherSignalComes
<1> QED BY <1>5, <1>6, <1>7, <1>8 DEF CacheInv

\* A status that moves has its signal in the inbox of a process that runs.
LEMMA StatusIsQueued ==
  ASSUME CacheInv, NEW c \in Chassis, NEW s \in PowerStatuses, PowerStatusMoves(c, s)
  PROVE  CacheInv'
<1>0. CacheIsShown /\ CountedIsWatched /\ CacheIsRead /\ PresenceIsKnown /\ TypeOK
  BY DEF CacheInv
<1>1. /\ status' = [status EXCEPT ![c] = s] /\ Emit(StatusSignal(c, s))
      /\ UNCHANGED <<power, present, orders, alive, requested, aggregate,
                     aggregateStatus, cachedState, cachedStatus, cachedPresent,
                     watched, reading, coordinated, jobs, faults, forwarded>>
  BY DEF PowerStatusMoves, propVars, cacheVars
<1>2. /\ StatusSignal(c, s) \in Signals
      /\ StatusSignal(c, s).kind = "status" /\ StatusSignal(c, s).chassis = c
  BY DEF StatusSignal, Signals
<1>3. /\ inbox' \in Seq(Signals)
      /\ ~alive => inbox' = inbox
      /\ \A k, d : About(k, d, inbox) => About(k, d, inbox')
      /\ alive /\ c \in watched => About("status", c, inbox')
  BY <1>0, <1>1, <1>2, EmitFacts
<1>4. /\ status' \in [Chassis -> PowerStatuses]
      /\ \A d \in Chassis : d # c => status'[d] = status[d]
  BY <1>0, <1>1 DEF TypeOK
<1>5. TypeOK'
  BY <1>0, <1>1, <1>3, <1>4 DEF TypeOK
<1>6. CacheIsShown' /\ CountedIsWatched'
  BY <1>0, <1>1, <1>3 DEF CacheIsShown, CountedIsWatched
<1>7. CacheIsRead'
  <2> SUFFICES ASSUME alive, ~reading, NEW d \in Chassis, cachedPresent[d]
               PROVE  /\ \/ cachedState[d] = power[d] \/ About("state", d, inbox')
                         \/ d \in Unreadable /\ cachedState[d] = "Off"
                      /\ \/ cachedStatus[d] = status'[d] \/ About("status", d, inbox')
                         \/ d \in Unreadable /\ cachedStatus[d] = "Good"
    BY <1>1 DEF CacheIsRead
  <2>1. d \in watched
    BY <1>0 DEF CountedIsWatched
  <2> QED BY <1>0, <1>3, <1>4, <2>1 DEF CacheIsRead
<1>8. PresenceIsKnown'
  BY <1>0, <1>1, <1>2, OtherSignalComes
<1> QED BY <1>5, <1>6, <1>7, <1>8 DEF CacheInv

\* Presence is heard of every chassis, watched or not.
LEMMA PresenceIsQueued ==
  ASSUME CacheInv, NEW c \in Chassis, PresenceMoves(c) PROVE CacheInv'
<1> DEFINE m == PresentSignal(c, present'[c])
<1>0. CacheIsShown /\ CountedIsWatched /\ CacheIsRead /\ PresenceIsKnown /\ TypeOK
  BY DEF CacheInv
<1>1. /\ present' = [present EXCEPT ![c] = ~present[c]] /\ Emit(m)
      /\ UNCHANGED <<power, status, orders, alive, requested, aggregate,
                     aggregateStatus, cachedState, cachedStatus, cachedPresent,
                     watched, reading, coordinated, jobs, faults, forwarded>>
  BY DEF PresenceMoves, propVars, cacheVars
<1>2. m \in Signals /\ m.kind = "present" /\ m.chassis = c
  BY DEF PresentSignal, Signals
<1>3. /\ inbox' \in Seq(Signals)
      /\ ~alive => inbox' = inbox
      /\ \A k, d : About(k, d, inbox) => About(k, d, inbox')
      /\ alive => About("present", c, inbox')
  BY <1>0, <1>1, <1>2, EmitFacts
<1>4. /\ present' \in [Chassis -> BOOLEAN]
      /\ \A d \in Chassis : d # c => present'[d] = present[d]
  BY <1>0, <1>1 DEF TypeOK
<1>5. TypeOK'
  BY <1>0, <1>1, <1>3, <1>4 DEF TypeOK
<1>6. CacheIsShown' /\ CountedIsWatched' /\ CacheIsRead'
  BY <1>0, <1>1, <1>3 DEF CacheIsShown, CountedIsWatched, CacheIsRead
<1>7. PresenceIsKnown'
  <2> SUFFICES ASSUME alive, NEW d \in Chassis
               PROVE  /\ \A i \in 1..Len(inbox') :
                           LastWord(i, d, inbox') => inbox'[i] = PresentSignal(d, present'[d])
                      /\ \/ cachedPresent[d] = present'[d] \/ About("present", d, inbox')
                         \/ d \in Unreadable /\ ~cachedPresent[d]
    BY <1>1 DEF PresenceIsKnown
  <2>1. inbox' = Append(inbox, m) /\ inbox \in Seq(Signals)
    BY <1>0, <1>1, <1>2 DEF Emit, TypeOK
  <2>2. ASSUME NEW i \in 1..Len(inbox'), LastWord(i, d, inbox')
        PROVE  inbox'[i] = PresentSignal(d, present'[d])
    <3>1. \A j \in 1..Len(Append(inbox, m)) :
            LastWord(j, d, Append(inbox, m)) =>
              \/ j = Len(inbox) + 1 /\ Append(inbox, m)[j] = m
              \/ /\ j \in 1..Len(inbox) /\ Append(inbox, m)[j] = inbox[j]
                 /\ LastWord(j, d, inbox)
                 /\ ~(m.kind = "present" /\ m.chassis = d)
      <4>1. inbox \in Seq(Signals) /\ m \in Signals
        BY <1>2, <2>1
      <4> HIDE DEF m
      <4> QED BY ONLY <4>1, LastWordFacts
    <3>2. CASE inbox'[i] = m
      <4>1. d = c
        BY <1>2, <2>2, <3>2 DEF LastWord
      <4> QED BY <3>2, <4>1
    <3>3. CASE inbox'[i] # m
      <4>1. /\ i \in 1..Len(inbox) /\ inbox'[i] = inbox[i] /\ LastWord(i, d, inbox)
            /\ d # c
        BY <1>2, <2>1, <2>2, <3>1, <3>3
      <4>2. inbox[i] = PresentSignal(d, present[d])
        BY <1>0, <4>1 DEF PresenceIsKnown
      <4> QED BY <1>4, <4>1, <4>2
    <3> QED BY <3>2, <3>3
  <2>3. \/ cachedPresent[d] = present'[d] \/ About("present", d, inbox')
        \/ d \in Unreadable /\ ~cachedPresent[d]
    BY <1>0, <1>3, <1>4 DEF PresenceIsKnown
  <2> QED BY <2>2, <2>3
<1> QED BY <1>5, <1>6, <1>7 DEF CacheInv

\* A start job of chassis 0 is of no concern to the cache.
LEMMA JobIsQueued ==
  ASSUME CacheInv, NEW t \in Targets, Emit(JobSignal(t)), jobs' \in Seq(Targets),
         UNCHANGED <<power, status, present, orders, alive, requested, aggregate,
                     aggregateStatus, cachedState, cachedStatus, cachedPresent,
                     watched, reading, coordinated, faults, forwarded>>
  PROVE  CacheInv'
<1>0. CacheIsShown /\ CountedIsWatched /\ CacheIsRead /\ PresenceIsKnown /\ TypeOK
  BY DEF CacheInv
<1>1. JobSignal(t) \in Signals /\ JobSignal(t).kind = "JobNew"
  BY DEF JobSignal, Signals
<1>2. /\ inbox' \in Seq(Signals)
      /\ ~alive => inbox' = inbox
      /\ \A k, d : About(k, d, inbox) => About(k, d, inbox')
  BY <1>0, <1>1, EmitFacts
<1>3. TypeOK'
  BY <1>0, <1>2 DEF TypeOK
<1>4. CacheIsShown' /\ CountedIsWatched' /\ CacheIsRead'
  BY <1>0, <1>2 DEF CacheIsShown, CountedIsWatched, CacheIsRead
<1>5. PresenceIsKnown'
  BY <1>0, <1>1, OtherSignalComes
<1> QED BY <1>3, <1>4, <1>5 DEF CacheInv

\* Steps that change only what the users and the chassis were told.
LEMMA ToldKeeps ==
  ASSUME CacheInv, TypeOK',
         UNCHANGED <<power, status, present, alive, aggregate, aggregateStatus,
                     cachedState, cachedStatus, cachedPresent, watched, reading, inbox>>
  PROVE  CacheInv'
BY DEF CacheInv, CacheIsShown, CountedIsWatched, CacheIsRead, PresenceIsKnown

\* Each part of the invariant is kept by each step.
LEMMA CachePreserved == CacheInv /\ [Next]_smpVars => CacheInv'
<1> SUFFICES ASSUME CacheInv, [Next]_smpVars PROVE CacheInv'
  OBVIOUS
<1>0. TypeOK
  BY DEF CacheInv
<1>1. CASE Start
  BY <1>1, StartWatches
<1>13. CASE ReadAll
  BY <1>13, ReadAllReads
<1>2. CASE Handle
  BY <1>2, StateChangedRefreshes, StatusChangedRefreshes, PresentChangedRefreshes,
     JobNewKeeps DEF Handle
<1>3. CASE SystemdTakes
  <2>1. /\ jobs # <<>> /\ jobs \in Seq(Targets)
        /\ Head(jobs) \in Targets /\ Tail(jobs) \in Seq(Targets)
    BY <1>0, <1>3 DEF SystemdTakes, TypeOK
  <2> QED BY <1>3, <2>1, JobIsQueued
          DEF SystemdTakes, chassisVars, propVars, cacheVars, histVars
<1>4. ASSUME NEW t \in {"poweron", "poweroff"}, DirectStart(t) PROVE CacheInv'
  <2>1. t \in Targets /\ jobs' \in Seq(Targets)
    BY <1>0, <1>4 DEF DirectStart, Targets, TypeOK
  <2> QED BY <1>4, <2>1, JobIsQueued DEF DirectStart, chassisVars, propVars, cacheVars
<1>5. ASSUME NEW c \in Chassis, CarryOut(c) PROVE CacheInv'
  <2> DEFINE t == Head(orders[c])
             rest == Tail(orders[c])
  <2>1. /\ orders[c] # <<>> /\ orders[c] \in Seq(Transitions)
        /\ t \in Transitions /\ rest \in Seq(Transitions)
        /\ orders \in [Chassis -> Seq(Transitions)] /\ faults \in SUBSET Chassis
    BY <1>0, <1>5 DEF CarryOut, TypeOK
  <2>2. <<"Off", "On">> \o rest \in Seq(Transitions)
    <3>1. <<"Off", "On">> \in Seq(Transitions)
      BY DEF Transitions
    <3> QED BY <2>1, <3>1
  <2>3. /\ \/ orders' = [orders EXCEPT ![c] = rest]
           \/ orders' = [orders EXCEPT ![c] = <<"Off", "On">> \o rest]
        /\ faults' = faults
    BY <1>5 DEF CarryOut, histVars
  <2>4. orders' \in [Chassis -> Seq(Transitions)]
    BY <2>1, <2>2, <2>3
  <2>5. CASE \E s \in PowerStates : MovesTo(c, s)
    BY <2>1, <2>3, <2>4, <2>5, MoveIsQueued
  <2>6. CASE UNCHANGED <<chassisVars, alive, propVars, cacheVars, reading, coordinated,
                         jobs, inbox, forwarded>>
    <3>1. UNCHANGED <<power, status, present, alive, requested, aggregate,
                      aggregateStatus, cachedState, cachedStatus, cachedPresent,
                      watched, reading, coordinated, jobs, inbox, forwarded>>
      BY <2>6 DEF chassisVars, propVars, cacheVars
    <3>2. TypeOK'
      BY <1>0, <2>3, <2>4, <3>1 DEF TypeOK
    <3> QED BY <3>1, <3>2, ToldKeeps
  <2> QED BY <1>5, <2>5, <2>6 DEF CarryOut, PowerStates
<1>6. ASSUME NEW c \in Chassis, Reaches(c) PROVE CacheInv'
  <2>1. orders' \in [Chassis -> Seq(Transitions)] /\ faults' \in SUBSET Chassis
    BY <1>0, <1>6 DEF Reaches, histVars, TypeOK
  <2> QED BY <1>6, <2>1, MoveIsQueued DEF Reaches, PowerStates
<1>7. ASSUME NEW c \in Chassis, Faults(c) PROVE CacheInv'
  <2>1. orders' \in [Chassis -> Seq(Transitions)] /\ faults' \in SUBSET Chassis
    BY <1>0, <1>7 DEF Faults, TypeOK
  <2> QED BY <1>7, <2>1, MoveIsQueued DEF Faults, PowerStates
<1>8. ASSUME NEW c \in Chassis, PresenceMoves(c) PROVE CacheInv'
  BY <1>8, PresenceIsQueued
<1>9. ASSUME NEW c \in Chassis, NEW s \in PowerStatuses, PowerStatusMoves(c, s)
      PROVE  CacheInv'
  BY <1>9, StatusIsQueued
<1>10. ASSUME NEW t \in UserTransitions, RequestedPowerTransition(t) PROVE CacheInv'
  <2>1. t \in Transitions
    BY SMPAssumption DEF Transitions
  <2>2. PICK completed \in BOOLEAN : Transition(t, completed)
    BY <1>10 DEF RequestedPowerTransition
  <2>3. /\ faults' = {}
        /\ UNCHANGED <<power, status, present, alive, aggregate, aggregateStatus,
                       cachedState, cachedStatus, cachedPresent, watched, reading, inbox>>
    BY <1>10 DEF RequestedPowerTransition, chassisVars, cacheVars
  <2>4. /\ jobs' \in Seq(Targets) /\ orders' \in [Chassis -> Seq(Transitions)]
        /\ forwarded' \in Transitions /\ requested' \in Transitions
        /\ coordinated' \in BOOLEAN
    BY <1>0, <2>1, <2>2, TransitionTypes
  <2>5. TypeOK'
    BY <1>0, <2>3, <2>4 DEF TypeOK
  <2> QED BY <2>3, <2>5, ToldKeeps
<1>11. CASE Dies
  <2>1. /\ alive' = FALSE /\ inbox' = <<>>
        /\ UNCHANGED <<power, status, present, orders, requested, aggregate,
                       aggregateStatus, cachedState, cachedStatus, cachedPresent,
                       watched, reading, coordinated, jobs, faults, forwarded>>
    BY <1>11 DEF Dies, chassisVars, propVars, cacheVars
  <2>2. alive' \in BOOLEAN
    BY Zenon, <2>1
  <2>3. TypeOK'
    BY <1>0, <2>1, <2>2 DEF TypeOK
  <2> QED BY <2>1, <2>3
          DEF CacheInv, CacheIsShown, CountedIsWatched, CacheIsRead, PresenceIsKnown
<1>12. CASE UNCHANGED smpVars
  <2>1. UNCHANGED <<power, status, present, orders, alive, requested, aggregate,
                    aggregateStatus, cachedState, cachedStatus, cachedPresent,
                    watched, reading, coordinated, jobs, inbox, faults, forwarded>>
    BY <1>12 DEF smpVars, chassisVars, propVars, cacheVars, histVars
  <2>2. TypeOK'
    BY <1>0, <2>1 DEF TypeOK
  <2> QED BY <2>1, <2>2, ToldKeeps
<1> QED BY <1>1, <1>2, <1>3, <1>4, <1>5, <1>6, <1>7, <1>8, <1>9, <1>10, <1>11, <1>12,
        <1>13
        DEF Next, Environment

\* ... and so it holds in every behaviour.
LEMMA CacheInvHolds == Spec => []CacheInv
<1>1. Init => CacheInv
  <2> SUFFICES ASSUME Init PROVE CacheInv
    OBVIOUS
  <2>1. /\ alive = FALSE /\ inbox = <<>> /\ jobs = <<>>
        /\ requested = "Off" /\ forwarded = "Off" /\ coordinated = FALSE
        /\ aggregate = "Off" /\ aggregateStatus = "Good"
        /\ cachedPresent = [c \in Chassis |-> FALSE] /\ watched = {} /\ faults = {}
        /\ reading = FALSE
        /\ present \in [Chassis -> BOOLEAN]
    BY DEF Init
  <2>2. /\ power \in [Chassis -> PowerStates] /\ cachedState \in [Chassis -> PowerStates]
        /\ status \in [Chassis -> PowerStatuses]
        /\ cachedStatus \in [Chassis -> PowerStatuses]
    BY DEF Init, PowerStates, PowerStatuses
  <2>3. orders \in [Chassis -> Seq(Transitions)]
    BY DEF Init
  <2>4. alive \in BOOLEAN /\ coordinated \in BOOLEAN /\ reading \in BOOLEAN
    BY Zenon, <2>1
  <2>5. "Off" \in Transitions /\ "Off" \in PowerStates /\ "Good" \in PowerStatuses
        /\ <<>> \in Seq(Targets) /\ <<>> \in Seq(Signals)
    BY DEF Transitions, PowerStates, PowerStatuses
  <2>6. cachedPresent \in [Chassis -> BOOLEAN] /\ PresentOnes(cachedPresent) = {}
    BY <2>1 DEF PresentOnes
  <2>7. TypeOK
    BY <2>1, <2>2, <2>3, <2>4, <2>5, <2>6 DEF TypeOK
  <2>8. CacheIsShown
    BY <2>1, <2>6 DEF CacheIsShown, CombinedState, CombinedStatus
  <2> QED BY <2>1, <2>7, <2>8 DEF CacheInv, CountedIsWatched, CacheIsRead, PresenceIsKnown
<1>2. CacheInv /\ [Next]_smpVars => CacheInv'
  BY CachePreserved
<1> QED BY <1>1, <1>2, PTL DEF Spec

\* Every variable keeps its type.  The code: class ChassisSMP.
THEOREM SMPTypeOK == Spec => []TypeOK
<1>1. CacheInv => TypeOK
  BY DEF CacheInv
<1> QED BY <1>1, CacheInvHolds, PTL

\* With its inbox empty the aggregator shows the chassis as they are, but for
\* those it could not read.  The code: chassisPropertyChanged,
\* inventoryPresentChanged, which installs the match before it reads: a change
\* between the two is both queued and, it may be, read.
THEOREM SMPAggregateIsCurrent == Spec => []AggregateIsCurrent
<1>1. CacheInv => AggregateIsCurrent
  <2> SUFFICES ASSUME CacheInv, alive, ~reading, inbox = <<>>
               PROVE  /\ \A c \in Chassis \ Unreadable : cachedPresent[c] = present[c]
                      /\ \E lost \in SUBSET Unreadable :
                           aggregate = CombinedState(present, ReadStates(present, cachedState, lost))
                      /\ \E lost \in SUBSET Unreadable :
                           aggregateStatus =
                             CombinedStatus(present, ReadStatuses(present, cachedStatus, lost))
    BY DEF AggregateIsCurrent
  <2>0. \A k, c : ~About(k, c, inbox)
    BY DEF About
  <2>1. \A c \in Chassis :
          /\ cachedPresent[c] = present[c] \/ (c \in Unreadable /\ ~cachedPresent[c])
          /\ cachedPresent[c] =>
               /\ cachedState[c] = power[c] \/ (c \in Unreadable /\ cachedState[c] = "Off")
               /\ cachedStatus[c] = status[c] \/ (c \in Unreadable /\ cachedStatus[c] = "Good")
    BY <2>0 DEF CacheInv, CacheIsRead, PresenceIsKnown
  <2>2. \E lost \in SUBSET Unreadable :
          aggregate = CombinedState(present, ReadStates(present, cachedState, lost))
    <3> DEFINE lost == {c \in Unreadable : ~cachedPresent[c] \/ cachedState[c] = "Off"}
               read == ReadStates(present, cachedState, lost)
    <3>1. \A c \in Chassis : cachedPresent[c] => present[c] /\ read[c] = cachedState[c]
      BY <2>1 DEF ReadStates
    <3>2. \A c \in Chassis : present[c] /\ ~cachedPresent[c] => read[c] = "Off"
      BY <2>1 DEF ReadStates
    <3>3. \A s : s # "Off" =>
            ((s \in {cachedState[c] : c \in PresentOnes(cachedPresent)})
               <=> (s \in {read[c] : c \in PresentOnes(present)}))
      BY <3>1, <3>2 DEF PresentOnes
    <3>4. CombinedState(cachedPresent, cachedState) = CombinedState(present, read)
      BY <3>3 DEF CombinedState
    <3> QED BY <3>4 DEF CacheInv, CacheIsShown
  <2>3. \E lost \in SUBSET Unreadable :
          aggregateStatus = CombinedStatus(present, ReadStatuses(present, cachedStatus, lost))
    <3> DEFINE lost == {c \in Unreadable : ~cachedPresent[c] \/ cachedStatus[c] = "Good"}
               read == ReadStatuses(present, cachedStatus, lost)
    <3>1. \A c \in Chassis : cachedPresent[c] => present[c] /\ read[c] = cachedStatus[c]
      BY <2>1 DEF ReadStatuses
    <3>2. \A c \in Chassis : present[c] /\ ~cachedPresent[c] => read[c] = "Good"
      BY <2>1 DEF ReadStatuses
    <3>3. \A s : s # "Good" =>
            ((s \in {cachedStatus[c] : c \in PresentOnes(cachedPresent)})
               <=> (s \in {read[c] : c \in PresentOnes(present)}))
      BY <3>1, <3>2 DEF PresentOnes
    <3>4. CombinedStatus(cachedPresent, cachedStatus) = CombinedStatus(present, read)
      BY <3>3 DEF CombinedStatus
    <3> QED BY <3>4 DEF CacheInv, CacheIsShown
  <2> QED BY <2>1, <2>2, <2>3
<1> QED BY <1>1, CacheInvHolds, PTL
===========================================================================
