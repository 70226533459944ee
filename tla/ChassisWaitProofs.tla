------------------------- MODULE ChassisWaitProofs -------------------------
(***************************************************************************)
(* The waiter for every number of chassis: success counts no stale power    *)
(* on, and no power on is missed.  The invariant says of each chassis that  *)
(* it watches and that is On: the last signal still queued, or else the     *)
(* cache, says so.                                                          *)
(***************************************************************************)
EXTENDS ChassisWait, TLAPS

\* No signal of c is queued.
Fresh(c) == \A i \in 1..Len(queue) : queue[i].chassis # c

\* The last one queued says On.
LastKnown(c) ==
  \E k \in 1..Len(queue) :
    /\ queue[k].chassis = c /\ queue[k].isOn
    /\ \A j \in 1..Len(queue) : j > k => queue[j].chassis # c

BeingRead(c) == reading /\ c = next

Tracked(c) ==
  c \in on =>
    \/ Fresh(c) /\ (BeingRead(c) \/ c \in cachedOn)
    \/ LastKnown(c)

\* How far the constructor is.
Progress ==
  /\ running = "setup" => \A c \in present : c < next \/ BeingRead(c)
  /\ running = "setup" /\ reading => next \in present /\ next \in Chassis
  /\ running = "setup" => \A c \in cachedOn : c < next
  /\ running = "waiting" => ~reading /\ ~(present \subseteq cachedOn)
  /\ running = "done" => present \subseteq cachedOn

Watches ==
  /\ \A c \in silent : c \notin on
  /\ Active =>
       /\ \A c \in Chassis \ present : Fresh(c)
       /\ unheard \subseteq present
       /\ \A c \in present \ unheard : Tracked(c)

HaveBeenOn ==
  /\ Active => on \subseteq wasOn
  /\ Active \/ running = "done" => cachedOn \subseteq wasOn
  /\ Active => \A i \in 1..Len(queue) : queue[i].isOn => queue[i].chassis \in wasOn

Inv == TypeOK /\ Progress /\ Watches /\ HaveBeenOn

\* The first message leaves the rest of the inbox.
LEMMA HeadTail ==
  ASSUME NEW S, NEW q \in Seq(S), q # <<>>
  PROVE  /\ Head(q) \in S /\ Head(q) = q[1]
         /\ Tail(q) \in Seq(S) /\ Len(Tail(q)) = Len(q) - 1 /\ Len(q) \in Nat \ {0}
         /\ \A i \in 1..Len(Tail(q)) : Tail(q)[i] = q[i + 1]
OBVIOUS

\* A signal of another chassis leaves what is known of d alone.
LEMMA OthersKnown ==
  ASSUME TypeOK, NEW m, queue' = Append(queue, m) \/ UNCHANGED queue,
         NEW d, queue' = Append(queue, m) => m.chassis # d
  PROVE  (Fresh(d) => Fresh(d)') /\ (LastKnown(d) => LastKnown(d)')
<1>1. CASE UNCHANGED queue
  BY <1>1 DEF Fresh, LastKnown
<1>2. CASE queue' = Append(queue, m)
  <2>1. /\ Len(queue) \in Nat /\ Len(queue') = Len(queue) + 1
        /\ \A i \in 1..Len(queue) : queue'[i] = queue[i]
        /\ queue'[Len(queue) + 1] = m
    BY <1>2 DEF TypeOK
  <2>2. m.chassis # d
    BY <1>2
  <2>3. ASSUME Fresh(d) PROVE Fresh(d)'
    BY <2>1, <2>2, <2>3 DEF Fresh
  <2>4. ASSUME NEW k \in 1..Len(queue), queue[k].chassis = d, queue[k].isOn,
               \A j \in 1..Len(queue) : j > k => queue[j].chassis # d
        PROVE LastKnown(d)'
    <3>1. k \in 1..Len(queue') /\ queue'[k].chassis = d /\ queue'[k].isOn
      BY <2>1, <2>4
    <3>2. \A j \in 1..Len(queue') : j > k => queue'[j].chassis # d
      BY <2>1, <2>2, <2>4
    <3> QED BY <3>1, <3>2 DEF LastKnown
  <2> QED BY <2>3, <2>4 DEF LastKnown
<1> QED BY <1>1, <1>2

\* A chassis that is watched is known by its own signal.
LEMMA OwnKnown ==
  ASSUME TypeOK, NEW c \in Chassis, queue' = Append(queue, PowerSignal(c)),
         c \in on'
  PROVE  LastKnown(c)'
<1>1. /\ Len(queue) \in Nat /\ Len(queue') = Len(queue) + 1
      /\ queue'[Len(queue) + 1] = PowerSignal(c)
  BY DEF TypeOK
<1>2. PowerSignal(c).chassis = c /\ PowerSignal(c).isOn
  BY DEF PowerSignal
<1>3. \A j \in 1..Len(queue') : ~(j > Len(queue) + 1)
  BY <1>1
<1> QED BY <1>1, <1>2, <1>3 DEF LastKnown

\* Handling a signal leaves what is known of d in the cache or in the queue.
LEMMA HandledKnown ==
  ASSUME TypeOK, Handle, NEW d
  PROVE  /\ Fresh(d) => Fresh(d)' /\ (d \in cachedOn' <=> d \in cachedOn)
         /\ LastKnown(d) => LastKnown(d)' \/ (Fresh(d)' /\ d \in cachedOn')
<1> DEFINE m == Head(queue)
<1>1. /\ m = queue[1] /\ Len(queue') = Len(queue) - 1 /\ Len(queue) \in Nat \ {0}
      /\ \A i \in 1..Len(queue') : queue'[i] = queue[i + 1]
  BY HeadTail DEF TypeOK, Handle
<1>2. cachedOn' = IF m.isOn THEN cachedOn \union {m.chassis} ELSE cachedOn \ {m.chassis}
  BY DEF Handle
<1>3. ASSUME Fresh(d) PROVE Fresh(d)' /\ (d \in cachedOn' <=> d \in cachedOn)
  <2>1. m.chassis # d
    BY <1>1, <1>3 DEF Fresh
  <2>2. Fresh(d)'
    BY <1>1, <1>3 DEF Fresh
  <2> QED BY <1>2, <2>1, <2>2
<1>4. ASSUME NEW k \in 1..Len(queue), queue[k].chassis = d, queue[k].isOn,
             \A j \in 1..Len(queue) : j > k => queue[j].chassis # d
      PROVE LastKnown(d)' \/ (Fresh(d)' /\ d \in cachedOn')
  <2>1. CASE k = 1
    <3>1. Fresh(d)'
      BY <1>1, <1>4, <2>1 DEF Fresh
    <3> QED BY <1>1, <1>2, <1>4, <2>1, <3>1
  <2>2. CASE k # 1
    <3>1. k - 1 \in 1..Len(queue') /\ queue'[k - 1] = queue[k]
      BY <1>1, <2>2
    <3>2. \A j \in 1..Len(queue') : j > k - 1 => queue'[j].chassis # d
      BY <1>1, <1>4
    <3> QED BY <1>2, <1>4, <3>1, <3>2 DEF LastKnown
  <2> QED BY <2>1, <2>2
<1> QED BY <1>3, <1>4 DEF LastKnown

\* Every step of the waiter and of the chassis keeps the types.
LEMMA Typed == TypeOK /\ Progress /\ [Next]_vars => TypeOK'
<1> SUFFICES ASSUME TypeOK, Progress, [Next]_vars PROVE TypeOK'
  OBVIOUS
<1> USE DEF TypeOK, world
<1>n. 1 \in 1..(N + 1) /\ \A i \in 1..(N + 1) : i # N + 1 => i + 1 \in 1..(N + 1) /\ i \in Chassis
  BY WaitAssumption DEF Chassis
<1>s. ASSUME NEW c \in Chassis, Signalled(c)
      PROVE queue' \in Seq([chassis : Chassis, isOn : BOOLEAN])
  <2> DEFINE S == [chassis : Chassis, isOn : BOOLEAN]
  <2>1. PowerSignal(c) \in S
    BY DEF PowerSignal
  <2>2. \A m \in S : \A q \in Seq(S) : Append(q, m) \in Seq(S)
    OBVIOUS
  <2> QED BY <1>s, <2>1, <2>2 DEF Signalled
<1>e. <<>> \in Seq([chassis : Chassis, isOn : BOOLEAN])
  OBVIOUS
<1>1. ASSUME NEW c \in Chassis, PowerChanges(c) \/ ManagerAppears(c) \/ ManagerDies(c)
      PROVE TypeOK'
  BY <1>1, <1>s DEF PowerChanges, ManagerAppears, ManagerDies
<1>2. ASSUME NEW c \in Chassis, Plug(c) PROVE TypeOK'
  BY <1>2 DEF Plug
<1>3. CASE Start \/ Kill
  BY <1>3, <1>e, <1>n DEF Start, Kill
<1>4. CASE CheckPresent
  <2>1. next \in Chassis /\ next # N + 1
    BY <1>4, WaitAssumption DEF CheckPresent, Chassis
  <2> QED BY <1>4, <1>n, <2>1 DEF CheckPresent
<1>5. CASE ReadPowerState
  <2>1. next \in Chassis /\ next # N + 1
    BY <1>5, WaitAssumption DEF ReadPowerState, Progress, Chassis
  <2> QED BY <1>5, <1>n, <2>1 DEF ReadPowerState, ReadOn
<1>6. CASE InitialCheck
  BY <1>6 DEF InitialCheck
<1>7. CASE Handle
  <2>1. Head(queue) \in [chassis : Chassis, isOn : BOOLEAN]
        /\ Tail(queue) \in Seq([chassis : Chassis, isOn : BOOLEAN])
    BY <1>7, HeadTail DEF Handle
  <2> QED BY <1>7, <2>1 DEF Handle
<1>8. CASE UNCHANGED vars
  BY <1>8 DEF vars
<1> QED BY <1>1, <1>2, <1>3, <1>4, <1>5, <1>6, <1>7, <1>8 DEF Next, Waiter

\* A step keeps what the waiter knows within what has happened.
LEMMA ProgressKept == TypeOK /\ Progress /\ [Next]_vars => Progress'
<1> SUFFICES ASSUME TypeOK, Progress, [Next]_vars PROVE Progress'
  OBVIOUS
<1> USE DEF TypeOK, Progress, BeingRead, world
<1>c. Chassis \subseteq Nat /\ 1..(N + 1) \subseteq Nat
  BY WaitAssumption DEF Chassis
<1>1. ASSUME NEW c \in Chassis, PowerChanges(c) \/ ManagerAppears(c) \/ ManagerDies(c) \/ Plug(c)
      PROVE Progress'
  BY <1>1 DEF PowerChanges, ManagerAppears, ManagerDies, Plug
<1>2. CASE Start \/ Kill
  BY <1>2 DEF Start, Kill
<1>3. CASE CheckPresent
  <2>1. \A c \in present \union cachedOn : c \in Nat /\ c < next
    BY <1>3, <1>c DEF CheckPresent
  <2>2. next \in Nat /\ next \in Chassis
    BY <1>3, <1>c DEF CheckPresent
  <2>3. running' = "setup" /\ UNCHANGED cachedOn
    BY <1>3 DEF CheckPresent
  <2>4. CASE present' = present \union {next} /\ reading' = TRUE /\ UNCHANGED next
    BY <2>1, <2>2, <2>3, <2>4
  <2>5. CASE next' = next + 1 /\ reading' = FALSE /\ UNCHANGED present
    BY <2>1, <2>2, <2>3, <2>5
  <2> QED BY <1>3, <2>4, <2>5 DEF CheckPresent
<1>4. CASE ReadPowerState
  <2>1. \A c \in present \union cachedOn : c \in Nat /\ (c < next \/ c = next)
    BY <1>4, <1>c DEF ReadPowerState
  <2>2. next \in Nat /\ next' = next + 1
    BY <1>4, <1>c DEF ReadPowerState
  <2>3. /\ cachedOn' \subseteq cachedOn \union {next}
        /\ running' = "setup" /\ reading' = FALSE /\ present' = present
    BY <1>4 DEF ReadPowerState, ReadOn
  <2> QED BY <2>1, <2>2, <2>3
<1>5. CASE InitialCheck
  BY <1>5 DEF InitialCheck, AllReady
<1>6. CASE Handle
  BY <1>6 DEF Handle, AllReady
<1>7. CASE UNCHANGED vars
  BY <1>7 DEF vars
<1> QED BY <1>1, <1>2, <1>3, <1>4, <1>5, <1>6, <1>7 DEF Next, Waiter

\* Each chassis that is On stays known while the waiter is set up and waits.
LEMMA WatchesKept == TypeOK /\ Progress /\ Watches /\ [Next]_vars => Watches'
<1> SUFFICES ASSUME TypeOK, Progress, Watches, [Next]_vars PROVE Watches'
  OBVIOUS
<1> USE DEF world
<1>1. ASSUME NEW c \in Chassis, PowerChanges(c) \/ ManagerAppears(c) \/ ManagerDies(c)
      PROVE Watches'
  <2>1. /\ UNCHANGED <<running, next, reading, present, cachedOn>>
        /\ \A d : d # c => (d \in on' <=> d \in on) /\ (d \in silent' <=> d \in silent)
                           /\ (d \in unheard' <=> d \in unheard)
        /\ Signalled(c) \/ UNCHANGED queue
    BY <1>1 DEF PowerChanges, ManagerAppears, ManagerDies
  <2>2. c \in silent' => c \notin on'
    BY <1>1 DEF PowerChanges, ManagerAppears, ManagerDies
  <2>3. \A d \in silent' : d \notin on'
    BY <2>1, <2>2 DEF Watches
  <2>4. CASE ~Active
    BY <2>1, <2>3, <2>4 DEF Watches, Active
  <2>5. CASE Active
    <3>1. c \notin present => UNCHANGED queue
      BY <2>1 DEF Signalled
    <3>2. queue' = Append(queue, PowerSignal(c)) \/ UNCHANGED queue
      BY <2>1 DEF Signalled
    <3>3. PowerSignal(c).chassis = c
      BY DEF PowerSignal
    <3>4. \A d : d # c => (Fresh(d) => Fresh(d)') /\ (LastKnown(d) => LastKnown(d)')
      BY <3>2, <3>3, OthersKnown
    <3>5. \A d \in Chassis \ present : Fresh(d)'
      BY <2>5, <3>1, <3>4 DEF Watches, Fresh
    <3>6. unheard' \subseteq present
      BY <1>1, <2>5 DEF Watches, PowerChanges, ManagerAppears, ManagerDies
    <3>7. ASSUME NEW d \in present \ unheard', d # c PROVE Tracked(d)'
      BY <2>1, <2>5, <3>4, <3>7 DEF Watches, Tracked, BeingRead
    <3>8. ASSUME c \in present \ unheard', c \in on' PROVE Tracked(c)'
      <4>1. queue' = Append(queue, PowerSignal(c))
        BY <1>1, <2>2, <2>5, <3>8 DEF PowerChanges, ManagerAppears, ManagerDies, Signalled
      <4> QED BY <3>8, <4>1, OwnKnown DEF Tracked
    <3>9. ASSUME NEW d \in present \ unheard' PROVE Tracked(d)'
      BY <3>7, <3>8, <3>9 DEF Tracked
    <3> QED BY <2>1, <2>3, <3>5, <3>6, <3>9 DEF Watches
  <2> QED BY <2>4, <2>5
<1>2. ASSUME NEW c \in Chassis, Plug(c) PROVE Watches'
  BY <1>2 DEF Plug, Watches, Active, Tracked, Fresh, LastKnown, BeingRead
<1>3. CASE Start
  BY <1>3 DEF Start, Watches, Fresh
<1>4. CASE Kill
  BY <1>4 DEF Kill, Active, Watches
<1>5. CASE CheckPresent
  <2>1. /\ Active /\ running = "setup" /\ ~reading /\ next \in Chassis
        /\ UNCHANGED <<running, cachedOn, queue, on, silent, unheard>>
        /\ \/ present' = present \union {next} /\ reading' = TRUE /\ UNCHANGED next
           \/ UNCHANGED <<present, reading>>
    BY <1>5 DEF CheckPresent, Active
  <2>2. next \notin present /\ \A d \in present : ~BeingRead(d)
    BY <2>1, WaitAssumption DEF Progress, BeingRead, Chassis
  <2>3. Fresh(next)
    BY <2>1, <2>2 DEF Watches
  <2>4. \A d : (Fresh(d)' <=> Fresh(d)) /\ (LastKnown(d)' <=> LastKnown(d))
    BY <2>1 DEF Fresh, LastKnown
  <2>5. \A d \in present \ unheard : Tracked(d)'
    BY <2>1, <2>2, <2>4 DEF Watches, Tracked
  <2>6. next \in present' => Tracked(next)'
    BY <2>1, <2>2, <2>3, <2>4 DEF BeingRead, Tracked
  <2> QED BY <2>1, <2>4, <2>5, <2>6 DEF Watches
<1>6. CASE ReadPowerState
  <2>1. /\ Active /\ running = "setup" /\ reading /\ next \in Chassis /\ next \in present
        /\ UNCHANGED <<running, present, queue, on, silent, unheard>> /\ reading' = FALSE
        /\ IF next \in silent THEN UNCHANGED cachedOn
           ELSE cachedOn' = (IF next \in on THEN cachedOn \union {next} ELSE cachedOn)
    BY <1>6 DEF ReadPowerState, ReadOn, Active, Progress
  <2>2. \A d : (Fresh(d)' <=> Fresh(d)) /\ (LastKnown(d)' <=> LastKnown(d))
    BY <2>1 DEF Fresh, LastKnown
  <2>3. next \in on => next \in cachedOn'
    BY <2>1 DEF Watches
  <2>4. cachedOn \subseteq cachedOn'
    BY <2>1
  <2>5. ASSUME NEW d \in present \ unheard PROVE Tracked(d)'
    BY <2>1, <2>2, <2>3, <2>4, <2>5 DEF Watches, Tracked, BeingRead
  <2> QED BY <2>1, <2>2, <2>5 DEF Watches
<1>7. CASE InitialCheck
  BY <1>7 DEF InitialCheck, Watches, Active, Tracked, Fresh, LastKnown, BeingRead
<1>8. CASE Handle
  <2>1. /\ Active /\ ~reading /\ UNCHANGED <<next, reading, present, on, silent, unheard>>
    BY <1>8 DEF Handle, Active, Progress
  <2>2. \A d : (Fresh(d) => Fresh(d)' /\ (d \in cachedOn' <=> d \in cachedOn))
               /\ (LastKnown(d) => LastKnown(d)' \/ (Fresh(d)' /\ d \in cachedOn'))
    BY <1>8, HandledKnown
  <2>3. ASSUME NEW d \in present \ unheard PROVE Tracked(d)'
    BY <2>1, <2>2, <2>3 DEF Watches, Tracked, BeingRead
  <2> QED BY <2>1, <2>2, <2>3 DEF Watches, BeingRead
<1>9. CASE UNCHANGED vars
  BY <1>9 DEF vars, Watches, Active, Tracked, Fresh, LastKnown, BeingRead
<1> QED BY <1>1, <1>2, <1>3, <1>4, <1>5, <1>6, <1>7, <1>8, <1>9 DEF Next, Waiter

\* A chassis the waiter took for On has been On since it started.
LEMMA OnceOnKept ==
  TypeOK /\ Progress /\ Watches /\ HaveBeenOn /\ [Next]_vars => HaveBeenOn'
<1> SUFFICES ASSUME TypeOK, Progress, Watches, HaveBeenOn, [Next]_vars PROVE HaveBeenOn'
  OBVIOUS
<1> USE DEF HaveBeenOn, Active, world
<1>q. queue \in Seq([chassis : Chassis, isOn : BOOLEAN])
  BY DEF TypeOK
<1>1. ASSUME NEW c \in Chassis, PowerChanges(c) \/ ManagerAppears(c) \/ ManagerDies(c)
      PROVE HaveBeenOn'
  <2>1. /\ UNCHANGED <<running, cachedOn>>
        /\ \/ on' = on \union {c} /\ wasOn' = wasOn \union {c}
           \/ on' \subseteq on /\ UNCHANGED wasOn
        /\ queue' = Append(queue, PowerSignal(c)) \/ UNCHANGED queue
    BY <1>1 DEF PowerChanges, ManagerAppears, ManagerDies, Signalled
  <2>2. CASE queue' = Append(queue, PowerSignal(c))
    <3>1. /\ Len(queue') = Len(queue) + 1 /\ Len(queue) \in Nat
          /\ \A i \in 1..Len(queue) : queue'[i] = queue[i]
          /\ queue'[Len(queue) + 1] = PowerSignal(c)
      BY <1>q, <2>2
    <3>2. \A i \in 1..Len(queue') : i \in 1..Len(queue) \/ i = Len(queue) + 1
      BY <3>1
    <3>3. Active => (PowerSignal(c).isOn => PowerSignal(c).chassis \in wasOn')
      BY <2>1 DEF PowerSignal
    <3> QED BY <2>1, <3>1, <3>2, <3>3
  <2> QED BY <2>1, <2>2
<1>2. ASSUME NEW c \in Chassis, Plug(c) PROVE HaveBeenOn'
  BY <1>2 DEF Plug
<1>3. CASE Start \/ Kill
  BY <1>3 DEF Start, Kill
<1>4. CASE CheckPresent \/ ReadPowerState \/ InitialCheck
  BY <1>4 DEF CheckPresent, ReadPowerState, ReadOn, InitialCheck
<1>5. CASE Handle
  <2>1. /\ Head(queue) = queue[1] /\ Len(queue') = Len(queue) - 1 /\ Len(queue) \in Nat \ {0}
        /\ \A i \in 1..Len(queue') : queue'[i] = queue[i + 1]
    BY <1>5, <1>q, HeadTail DEF Handle
  <2>2. cachedOn' \subseteq wasOn
    BY <1>5, <2>1 DEF Handle
  <2>3. \A i \in 1..Len(queue') : queue'[i].isOn => queue'[i].chassis \in wasOn
    BY <1>5, <2>1 DEF Handle
  <2> QED BY <1>5, <2>2, <2>3 DEF Handle
<1>6. CASE UNCHANGED vars
  BY <1>6 DEF vars
<1> QED BY <1>1, <1>2, <1>3, <1>4, <1>5, <1>6 DEF Next, Waiter

\* The invariant holds in every behaviour.
LEMMA InvHolds == Spec => []Inv
<1>1. Init => Inv
  <2>1. 1 \in 1..(N + 1) /\ <<>> \in Seq([chassis : Chassis, isOn : BOOLEAN])
    BY WaitAssumption
  <2> QED BY <2>1 DEF Init, Inv, TypeOK, Progress, Watches, HaveBeenOn, Active
<1>2. Inv /\ [Next]_vars => Inv'
  BY Typed, ProgressKept, WatchesKept, OnceOnKept DEF Inv
<1> QED BY <1>1, <1>2, PTL DEF Spec

\* Every variable keeps its type.  The code: the members of SMPChassisWaiter.
THEOREM WaitTypeOK == Spec => []TypeOK
<1>1. Inv => TypeOK
  BY DEF Inv
<1> QED BY <1>1, InvHolds, PTL

\* No stale power on counts as success, for every number of chassis.  The
\* code: chassisPowerStates and checkAllChassisReady.
THEOREM WaitSuccessMeansOn == Spec => []SuccessMeansOn
<1>1. Inv => SuccessMeansOn
  BY DEF Inv, Progress, HaveBeenOn, SuccessMeansOn
<1> QED BY <1>1, InvHolds, PTL

\* No power on is missed, for every number of chassis and every moment at
\* which one comes on.  The code: initializeMonitoring installs the match
\* before it reads the state.
THEOREM WaitNoLostWakeup == Spec => []NoLostWakeup
<1>1. Inv => NoLostWakeup
  <2> SUFFICES ASSUME Inv, running = "waiting", queue = <<>>, unheard = {}
               PROVE  ~(present \subseteq on)
    BY DEF NoLostWakeup
  <2>1. \A c \in present : Tracked(c) /\ ~BeingRead(c)
    BY DEF Inv, Watches, Progress, Active, BeingRead
  <2>2. \A c \in present : c \in on => c \in cachedOn
    BY <2>1 DEF Tracked, LastKnown
  <2>3. ~(present \subseteq cachedOn)
    BY DEF Inv, Progress
  <2> QED BY <2>2, <2>3
<1> QED BY <1>1, InvHolds, PTL
============================================================================
