----------------------------- MODULE ChassisWait -----------------------------
(***************************************************************************)
(* The service that holds obmc-power-on@0.target back until every present   *)
(* chassis of an SMP system is On (chassis_wait_for_smp_poweron.cpp), with  *)
(* the chassis it watches and the power off that stops it.                  *)
(***************************************************************************)
EXTENDS Naturals, Sequences

CONSTANTS N,           \* NUM_CHASSIS_SMP
          Unreadable,  \* chassis whose inventory cannot be read
          MaxSignals   \* bound: signals the waiter has not handled

Chassis == 1..N

ASSUME WaitAssumption == N \in Nat /\ Unreadable \subseteq Chassis

VARIABLES
  running,   \* "no", "setup" (the constructor), "waiting", "done" (success)
  next,      \* the chassis initializeMonitoring is at
  reading,   \* its match is installed, its state is not read yet
  present,   \* presentChassis, each with a match
  cachedOn,  \* the chassis chassisPowerStates holds true for
  queue,     \* signals of the chassis, oldest first
  plugged,   \* the chassis that are there
  on,        \* the chassis whose CurrentPowerState is On
  silent,    \* chassis whose state manager is not on the bus
  unheard,   \* history: watched chassis that came back On with no signal
  wasOn      \* history: chassis that have been On since the waiter started

world == <<plugged, on, silent>>
vars == <<running, next, reading, present, cachedOn, queue, world, unheard, wasOn>>

Init ==
  /\ running = "no" /\ next = 1 /\ reading = FALSE
  /\ present = {} /\ cachedOn = {} /\ queue = <<>>
  /\ plugged \in SUBSET Chassis /\ on = {} /\ silent \in SUBSET Chassis
  /\ unheard = {} /\ wasOn = {}

Active == running \in {"setup", "waiting"}
---------------------------------------------------------------------------
(* The chassis.                                                            *)

PowerSignal(c) == [chassis |-> c, isOn |-> c \in on']

Signalled(c) ==
  IF Active /\ c \in present
  THEN Len(queue) < MaxSignals /\ queue' = Append(queue, PowerSignal(c))
  ELSE UNCHANGED queue

\* CurrentPowerState becomes On, or something else.
PowerChanges(c) ==
  /\ c \in plugged \ silent
  /\ \/ c \notin on /\ on' = on \union {c} /\ wasOn' = wasOn \union {c}
     \/ c \in on /\ on' = on \ {c} /\ UNCHANGED wasOn
  /\ Signalled(c)
  /\ unheard' = unheard \ {c}
  /\ UNCHANGED <<running, next, reading, present, cachedOn, plugged, silent>>

\* A chassis manager leaves the bus, its properties with it; no signal that is
\* watched says so.
ManagerDies(c) ==
  /\ c \notin silent /\ silent' = silent \union {c}
  /\ on' = on \ {c}
  /\ unheard' = unheard \ {c}
  /\ UNCHANGED <<running, next, reading, present, cachedOn, queue, plugged, wasOn>>

\* A chassis manager appears, or is back, with the state it discovers.  Only the
\* signal of a change is watched, and it may come with none.
ManagerAppears(c) ==
  /\ c \in silent /\ silent' = silent \ {c}
  /\ \/ c \in plugged /\ on' = on \union {c} /\ wasOn' = wasOn \union {c}
     \/ UNCHANGED <<on, wasOn>>
  /\ \/ Signalled(c) /\ unheard' = unheard \ {c}
     \/ UNCHANGED queue /\ unheard' = IF c \in on' \intersect present
                                       THEN unheard \union {c} ELSE unheard \ {c}
  /\ UNCHANGED <<running, next, reading, present, cachedOn, plugged>>

\* A chassis that is off is inserted or removed.
Plug(c) ==
  /\ c \notin on
  /\ plugged' = IF c \in plugged THEN plugged \ {c} ELSE plugged \union {c}
  /\ UNCHANGED <<running, next, reading, present, cachedOn, queue, on, silent,
                 unheard, wasOn>>
---------------------------------------------------------------------------
(* The waiter.                                                             *)

\* obmc-chassis-poweron@0.target requires it; it is a oneshot service.
Start ==
  /\ ~Active
  /\ running' = "setup" /\ next' = 1 /\ reading' = FALSE
  /\ present' = {} /\ cachedOn' = {} /\ queue' = <<>>
  /\ unheard' = {} /\ wasOn' = on
  /\ UNCHANGED world

\* It conflicts with obmc-chassis-poweroff@0.target, and getService may throw
\* what isChassisPresent does not catch.
Kill ==
  /\ Active
  /\ running' = "no" /\ queue' = <<>>
  /\ UNCHANGED <<next, reading, present, cachedOn, world, unheard, wasOn>>

\* Mutant: one chassis too many.
CheckPresentBeyond ==
  /\ running = "setup" /\ ~reading /\ next \in 1..(N + 1)
  /\ IF next \in plugged \ Unreadable
     THEN present' = present \union {next} /\ reading' = TRUE /\ UNCHANGED next
     ELSE next' = next + 1 /\ UNCHANGED <<present, reading>>
  /\ UNCHANGED <<running, cachedOn, queue, world, unheard, wasOn>>

\* isChassisPresent, once for each chassis; one that cannot be read counts as
\* absent.
CheckPresent ==
  /\ running = "setup" /\ ~reading /\ next \in Chassis
  /\ IF next \in plugged \ Unreadable
     THEN present' = present \union {next} /\ reading' = TRUE /\ UNCHANGED next
     ELSE next' = next + 1 /\ UNCHANGED <<present, reading>>
  /\ UNCHANGED <<running, cachedOn, queue, world, unheard, wasOn>>

\* Mutant: only what is signalled counts.
ReadNothing(c) == UNCHANGED cachedOn

ReadOn(c) == cachedOn' = IF c \in on THEN cachedOn \union {c} ELSE cachedOn

\* updateChassisPowerState; a chassis that does not answer counts as off.
ReadPowerState ==
  /\ running = "setup" /\ reading
  /\ reading' = FALSE /\ next' = next + 1
  /\ IF next \in silent THEN UNCHANGED cachedOn ELSE ReadOn(next)
  /\ UNCHANGED <<running, present, queue, world, unheard, wasOn>>

\* Mutant: one chassis that is on will do.
AnyReady(states) == present = {} \/ present \intersect states # {}

\* checkAllChassisReady: with no chassis at all there is nothing to wait for.
AllReady(states) == present \subseteq states

\* Mutant: nothing is checked before the first signal.
InitialWait ==
  /\ running = "setup" /\ ~reading /\ next = N + 1
  /\ running' = "waiting"
  /\ UNCHANGED <<next, reading, present, cachedOn, queue, world, unheard, wasOn>>

\* The check at the end of the constructor.
InitialCheck ==
  /\ running = "setup" /\ ~reading /\ next = N + 1
  /\ running' = IF AllReady(cachedOn) THEN "done" ELSE "waiting"
  /\ UNCHANGED <<next, reading, present, cachedOn, queue, world, unheard, wasOn>>

\* chassisPowerStateChanged.
Handle ==
  /\ running = "waiting" /\ queue # <<>>
  /\ LET m == Head(queue) IN
     cachedOn' = IF m.isOn THEN cachedOn \union {m.chassis} ELSE cachedOn \ {m.chassis}
  /\ running' = IF AllReady(cachedOn') THEN "done" ELSE "waiting"
  /\ queue' = Tail(queue)
  /\ UNCHANGED <<next, reading, present, world, unheard, wasOn>>
---------------------------------------------------------------------------
Waiter == CheckPresent \/ ReadPowerState \/ InitialCheck \/ Handle

Next ==
  \/ Waiter \/ Start \/ Kill
  \/ \E c \in Chassis :
       PowerChanges(c) \/ ManagerDies(c) \/ ManagerAppears(c) \/ Plug(c)

Spec == Init /\ [][Next]_vars /\ WF_vars(Waiter)
---------------------------------------------------------------------------
(* Properties.                                                             *)

\* The type of the state.  The code: the members of SMPChassisWaiter.
TypeOK ==
  /\ running \in {"no", "setup", "waiting", "done"}
  /\ next \in 1..(N + 1) /\ reading \in BOOLEAN
  /\ present \subseteq Chassis /\ cachedOn \subseteq Chassis
  /\ queue \in Seq([chassis : Chassis, isOn : BOOLEAN])
  /\ plugged \subseteq Chassis /\ on \subseteq Chassis /\ silent \subseteq Chassis
  /\ unheard \subseteq Chassis /\ wasOn \subseteq Chassis

\* The waiter succeeds only when each chassis it found has been On since it
\* was started: a signal or a state of an earlier power on does not count.
\* The code: presentChassis, chassisPowerStates and checkAllChassisReady.
SuccessMeansOn == running = "done" => present \subseteq wasOn

\* A waiter that has handled every signal and still waits waits for a chassis
\* that is not On, whenever the chassis came on around its start and whichever
\* managers were not there to be read or died later; but for a manager that
\* joined the bus On after its match was installed and has not signalled since.
\* The code: the match before the read in initializeMonitoring.
NoLostWakeup ==
  running = "waiting" /\ queue = <<>> /\ unheard = {} => ~(present \subseteq on)

\* While all present chassis stay On the waiter does not wait for ever, with the
\* same exception.  The code: the check in the constructor and after each signal.
WaitEnds ==
  []<>(~Active \/ unheard # {} \/ ~(present \subseteq on))
============================================================================
