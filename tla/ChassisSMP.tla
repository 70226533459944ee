---------------------------- MODULE ChassisSMP ----------------------------
(***************************************************************************)
(* The SMP aggregator, the chassis state manager of chassis 0 when several *)
(* chassis act as one machine.  It mirrors the power state of chassis 1..N *)
(* from D-Bus signals, forwards requests to them and powers all of them    *)
(* off when one fails.  Chassis, systemd, the inventory and the users are  *)
(* modelled as far as the aggregator sees them.                            *)
(***************************************************************************)
EXTENDS Naturals, Sequences

CONSTANTS N,               \* numChassis
          UserTransitions, \* what users request
          Unreadable,      \* chassis whose Get calls may fail
          SendMayFail,     \* StartUnit and Set calls may fail to be sent
          HastyUsers,      \* users request again before things have settled
          MaxInbox,        \* bound: messages the aggregator has not handled
          MaxOrders,       \* bound: requests a chassis has not carried out
          MaxRequests, MaxFaults, MaxMoves, MaxStatus, MaxDeaths, MaxDirect
                           \* bounds on the environment, see spent

ASSUME SMPAssumption ==
  /\ N \in Nat \ {0}
  /\ UserTransitions \subseteq {"On", "Off", "PowerCycle"}
  /\ Unreadable \subseteq 1..N
  /\ SendMayFail \in BOOLEAN /\ HastyUsers \in BOOLEAN

Chassis == 1..N
PowerStates == {"Off", "TransitioningToOn", "On", "TransitioningToOff"}
PowerStatuses == {"Good", "UPS", "BrownOut"}
Transitions == {"On", "Off", "PowerCycle"}
Targets == {"poweron", "poweroff", "powercycle"}

VARIABLES
  power, status, present,   \* the chassis as they are
  orders,         \* Set calls sent to each chassis and not yet carried out
  alive,          \* the aggregator runs
  requested, aggregate, aggregateStatus,   \* its D-Bus properties
  cachedState, cachedStatus, cachedPresent,
  watched,        \* chassis with a property match (chassisMatches)
  reading,        \* a match is installed, the chassis are still to be read
  coordinated,    \* coordinatedPowerOffInProgress
  jobs,           \* StartUnit calls for chassis 0 that systemd has not taken
  inbox,          \* signals to the aggregator, oldest first
  faults,         \* history: chassis that failed since a user last asked
  forwarded,      \* history: the last transition sent to the chassis
  spent           \* what the environment has used of its bounds

chassisVars == <<power, status, present>>
propVars == <<requested, aggregate, aggregateStatus>>
cacheVars == <<cachedState, cachedStatus, cachedPresent, watched>>
histVars == <<faults, spent>>
smpVars == <<chassisVars, orders, alive, propVars, cacheVars, reading,
             coordinated, jobs, inbox, histVars, forwarded>>

StateSignal(c, s) == [kind |-> "state", chassis |-> c, value |-> s]
StatusSignal(c, s) == [kind |-> "status", chassis |-> c, value |-> s]
PresentSignal(c, p) ==
  [kind |-> "present", chassis |-> c, value |-> IF p THEN "yes" ELSE "no"]
\* The signal does not say who started the target.
JobSignal(t) == [kind |-> "JobNew", chassis |-> 0, value |-> t]

\* Mutant: the request is taken for the name of the target.
RequestAsTarget(t) == t
TargetOf(t) == CASE t = "On" -> "poweron"
                 [] t = "Off" -> "poweroff"
                 [] t = "PowerCycle" -> "powercycle"

PresentOnes(p) == {c \in Chassis : p[c]}

\* aggregatePowerState: read every present chassis again ("lost": the Gets
\* that fail and count as Off) over the cache "old", then combine in the
\* code's priority.
ReadStates(p, old, lost) ==
  [c \in Chassis |-> IF ~p[c] THEN old[c]
                     ELSE IF c \in lost THEN "Off" ELSE power[c]]
CombinedState(p, s) ==
  LET states == {s[c] : c \in PresentOnes(p)} IN
    IF "TransitioningToOff" \in states THEN "TransitioningToOff"
    ELSE IF "TransitioningToOn" \in states THEN "TransitioningToOn"
    ELSE IF "On" \in states THEN "On" ELSE "Off"

\* Mutant: the flag outlives the power off.
AggregateKeepingFlag(old, lost, flag) ==
  /\ cachedState' = ReadStates(cachedPresent', old, lost)
  /\ aggregate' = CombinedState(cachedPresent', cachedState')
  /\ coordinated' = flag

AggregatePowerState(old, lost, flag) ==
  /\ cachedState' = ReadStates(cachedPresent', old, lost)
  /\ aggregate' = CombinedState(cachedPresent', cachedState')
  /\ coordinated' = (flag /\ aggregate' # "Off")

\* aggregatePowerStatus: the worst status; one that cannot be read is Good.
ReadStatuses(p, old, lost) ==
  [c \in Chassis |-> IF ~p[c] THEN old[c]
                     ELSE IF c \in lost THEN "Good" ELSE status[c]]
CombinedStatus(p, s) ==
  LET statuses == {s[c] : c \in PresentOnes(p)} IN
    IF "BrownOut" \in statuses THEN "BrownOut"
    ELSE IF "UPS" \in statuses THEN "UPS" ELSE "Good"

AggregatePowerStatus(old, lost) ==
  /\ cachedStatus' = ReadStatuses(cachedPresent', old, lost)
  /\ aggregateStatus' = CombinedStatus(cachedPresent', cachedStatus')

\* Mutant: a chassis that is off as far as the cache goes is not sent an Off.
ForwardNeeded(t, k) ==
  /\ \A c \in Chassis : Len(orders[c]) < MaxOrders
  /\ orders' = [c \in Chassis |->
                  IF /\ cachedPresent[c] /\ c <= k
                     /\ ~(t = "Off" /\ cachedState[c] = "Off")
                  THEN Append(orders[c], t) ELSE orders[c]]
  /\ forwarded' = t

\* requestTransitionOnAllChassis, up to chassis k; k < N when sending to
\* chassis k+1 threw.
Forward(t, k) ==
  /\ \A c \in Chassis : Len(orders[c]) < MaxOrders
  /\ orders' = [c \in Chassis |-> IF cachedPresent[c] /\ c <= k
                                  THEN Append(orders[c], t) ELSE orders[c]]
  /\ forwarded' = t

\* How far a transition gets: StartUnit throws, forwarding stops at k, done.
SentUpTo == IF SendMayFail THEN 0..N ELSE {N}

\* startUnit, then requestTransitionOnAllChassis; not completed when one of
\* them throws.
Send(t, completed) ==
  \/ /\ SendMayFail /\ ~completed
     /\ UNCHANGED <<jobs, orders, forwarded>>
  \/ /\ jobs' = Append(jobs, TargetOf(t))
     /\ \E k \in SentUpTo : Forward(t, k) /\ completed = (k = N)

\* requestedPowerTransition of the aggregator, but for the frame.
Transition(t, completed) ==
  /\ Send(t, completed)
  /\ requested' = IF completed THEN t ELSE requested
  /\ coordinated' = FALSE
---------------------------------------------------------------------------
\* Construction, as far as the matches: every presence is watched and cached,
\* the present chassis are watched.  The properties have their defaults.
Start ==
  /\ ~alive
  /\ alive' = TRUE /\ reading' = TRUE
  /\ requested' = "Off" /\ aggregate' = "Off" /\ aggregateStatus' = "Good"
  /\ \E lost \in SUBSET Unreadable :
       cachedPresent' = [c \in Chassis |-> present[c] /\ c \notin lost]
  /\ watched' = PresentOnes(cachedPresent')
  /\ cachedState' = [c \in Chassis |-> "Off"]
  /\ cachedStatus' = [c \in Chassis |-> "Good"]
  /\ coordinated' = FALSE
  /\ UNCHANGED <<chassisVars, orders, jobs, inbox, histVars, forwarded>>

\* The rest of the construction, and of the handler of a presence: the chassis
\* are read.  What they do after the matches is in the inbox by then.
ReadAll ==
  /\ alive /\ reading
  /\ reading' = FALSE
  /\ UNCHANGED cachedPresent
  /\ \E lost \in SUBSET Unreadable : AggregatePowerState(cachedState, lost, coordinated)
  /\ \E lost \in SUBSET Unreadable : AggregatePowerStatus(cachedStatus, lost)
  /\ UNCHANGED <<chassisVars, orders, alive, requested, watched, jobs, inbox,
                 histVars, forwarded>>

\* A write of RequestedPowerTransition by a D-Bus client.
RequestedPowerTransition(t) ==
  /\ alive /\ ~reading
  /\ HastyUsers \/ (inbox = <<>> /\ jobs = <<>>)
  /\ spent.requests < MaxRequests
  /\ \E completed \in BOOLEAN : Transition(t, completed)
  /\ faults' = {}
  /\ spent' = [spent EXCEPT !.requests = @ + 1]
  /\ UNCHANGED <<chassisVars, alive, aggregate, aggregateStatus, cacheVars,
                 reading, inbox>>

\* An exception of a signal callback ends the process.
DieHandling ==
  /\ alive' = FALSE
  /\ inbox' = <<>>
  /\ UNCHANGED <<chassisVars, aggregate, aggregateStatus, cacheVars, faults,
                 spent>>

\* chassisPropertyChanged for CurrentPowerState.
Fails(c, s) ==
  /\ s = "TransitioningToOff"
  /\ cachedState[c] # "TransitioningToOff"
  /\ ~coordinated
  /\ aggregate \in {"TransitioningToOn", "On"}

ChassisStateChanged(c, s) ==
  LET Aggregate(flag) ==
        /\ UNCHANGED cachedPresent
        /\ \E lost \in SUBSET Unreadable :
             AggregatePowerState([cachedState EXCEPT ![c] = s], lost, flag)
        /\ inbox' = Tail(inbox)
        /\ UNCHANGED <<chassisVars, alive, aggregateStatus, cachedStatus,
                       watched, histVars>>
  IN \/ /\ ~Fails(c, s)
        /\ Aggregate(coordinated)
        /\ UNCHANGED <<jobs, orders, forwarded, requested>>
     \/ /\ Fails(c, s)
        /\ requested' = "Off"
        /\ \/ Send("Off", TRUE) /\ Aggregate(TRUE)
           \/ Send("Off", FALSE) /\ coordinated' = TRUE /\ DieHandling

\* ... and for CurrentPowerStatus.
ChassisStatusChanged(c, s) ==
  /\ UNCHANGED cachedPresent
  /\ \E lost \in SUBSET Unreadable :
       AggregatePowerStatus([cachedStatus EXCEPT ![c] = s], lost)
  /\ inbox' = Tail(inbox)
  /\ UNCHANGED <<chassisVars, orders, alive, requested, aggregate,
                 cachedState, watched, coordinated, jobs, histVars, forwarded>>

\* Mutant: a chassis that appears later is not watched.
InventoryUnwatched(c, p) ==
  /\ cachedPresent' = [cachedPresent EXCEPT ![c] = p]
  /\ reading' = TRUE
  /\ inbox' = Tail(inbox)
  /\ UNCHANGED <<chassisVars, orders, alive, propVars, cachedState, cachedStatus,
                 watched, coordinated, jobs, histVars, forwarded>>

\* inventoryPresentChanged, as far as the match: a chassis is watched from the
\* first time it is present, and for good.  ReadAll is the rest.
InventoryPresentChanged(c, p) ==
  /\ cachedPresent' = [cachedPresent EXCEPT ![c] = p]
  /\ watched' = IF p THEN watched \cup {c} ELSE watched
  /\ reading' = TRUE
  /\ inbox' = Tail(inbox)
  /\ UNCHANGED <<chassisVars, orders, alive, propVars, cachedState, cachedStatus,
                 coordinated, jobs, histVars, forwarded>>

\* sysStateChangeJobNew for a chassis 0 target.
JobNewRequest(t) ==
  CASE t = "poweron" /\ requested = "Off" /\ aggregate = "Off" -> "On"
    [] t = "poweroff" /\ requested # "Off"
         /\ aggregate \in {"TransitioningToOn", "On"} -> "Off"
    [] OTHER -> "none"

SysStateChangeJobNew(t) ==
  LET request == JobNewRequest(t) IN
  \/ /\ request = "none"
     /\ inbox' = Tail(inbox)
     /\ UNCHANGED <<orders, jobs, requested, forwarded, coordinated,
                    chassisVars, alive, aggregate, aggregateStatus, cacheVars,
                    histVars>>
  \/ /\ request # "none"
     /\ \/ /\ Transition(request, TRUE)
           /\ inbox' = Tail(inbox)
           /\ UNCHANGED <<chassisVars, alive, aggregate, aggregateStatus,
                          cacheVars, histVars>>
        \/ Transition(request, FALSE) /\ DieHandling

\* The aggregator handles its oldest message.
Handle ==
  /\ alive /\ ~reading /\ inbox # <<>>
  /\ LET m == Head(inbox) IN
       \/ m.kind = "present" /\ InventoryPresentChanged(m.chassis, m.value = "yes")
       \/ /\ \/ m.kind = "state" /\ ChassisStateChanged(m.chassis, m.value)
             \/ m.kind = "status" /\ ChassisStatusChanged(m.chassis, m.value)
             \/ m.kind = "JobNew" /\ SysStateChangeJobNew(m.value)
          /\ UNCHANGED reading
---------------------------------------------------------------------------
\* The surroundings.  A signal reaches an aggregator that runs and watches.
Emit(m) ==
  inbox' = IF alive /\ (m.kind \in {"state", "status"} => m.chassis \in watched)
           THEN Append(inbox, m) ELSE inbox

\* ... also while it reads: getService may throw what isChassisPresent does not
\* catch.
Dies ==
  /\ alive
  /\ spent.deaths < MaxDeaths
  /\ alive' = FALSE
  /\ inbox' = <<>>
  /\ spent' = [spent EXCEPT !.deaths = @ + 1]
  /\ UNCHANGED <<chassisVars, orders, propVars, cacheVars, reading, coordinated,
                 jobs, faults, forwarded>>

MovesTo(c, s) ==
  /\ Len(inbox) < MaxInbox
  /\ power' = [power EXCEPT ![c] = s]
  /\ Emit(StateSignal(c, s))
  /\ UNCHANGED <<status, present, alive, propVars, cacheVars, reading,
                 coordinated, jobs, forwarded>>

\* The state manager of chassis c carries out its oldest request.  A power on
\* waits for a power off under way; a power cycle is an off and an on.
CarryOut(c) ==
  /\ orders[c] # <<>>
  /\ UNCHANGED histVars
  /\ LET t == Head(orders[c])  rest == Tail(orders[c])
         done == orders' = [orders EXCEPT ![c] = rest]
         idle == UNCHANGED <<chassisVars, alive, propVars, cacheVars, reading,
                             coordinated, jobs, inbox, forwarded>>
     IN \/ /\ t = "Off" /\ power[c] \in {"TransitioningToOn", "On"}
           /\ done /\ MovesTo(c, "TransitioningToOff")
        \/ /\ t = "Off" /\ power[c] \in {"TransitioningToOff", "Off"}
           /\ done /\ idle
        \/ /\ t = "On" /\ power[c] = "Off"
           /\ done /\ MovesTo(c, "TransitioningToOn")
        \/ /\ t = "On" /\ power[c] \in {"TransitioningToOn", "On"}
           /\ done /\ idle
        \/ /\ t = "PowerCycle"
           /\ orders' = [orders EXCEPT ![c] = <<"Off", "On">> \o rest]
           /\ idle

Reaches(c) ==
  /\ \/ power[c] = "TransitioningToOn" /\ MovesTo(c, "On")
     \/ power[c] = "TransitioningToOff" /\ MovesTo(c, "Off")
  /\ UNCHANGED <<orders, histVars>>

\* Chassis c loses power on its own: its poweroff target runs.
Faults(c) ==
  /\ spent.faults < MaxFaults
  /\ power[c] \in {"TransitioningToOn", "On"}
  /\ MovesTo(c, "TransitioningToOff")
  /\ faults' = faults \cup {c}
  /\ spent' = [spent EXCEPT !.faults = @ + 1]
  /\ UNCHANGED orders

PowerStatusMoves(c, s) ==
  /\ spent.status < MaxStatus
  /\ Len(inbox) < MaxInbox
  /\ status[c] # s
  /\ status' = [status EXCEPT ![c] = s]
  /\ Emit(StatusSignal(c, s))
  /\ spent' = [spent EXCEPT !.status = @ + 1]
  /\ UNCHANGED <<power, present, orders, alive, propVars, cacheVars, reading,
                 coordinated, jobs, faults, forwarded>>

PresenceMoves(c) ==
  /\ spent.moves < MaxMoves
  /\ Len(inbox) < MaxInbox
  /\ present' = [present EXCEPT ![c] = ~@]
  /\ Emit(PresentSignal(c, present'[c]))
  /\ spent' = [spent EXCEPT !.moves = @ + 1]
  /\ UNCHANGED <<power, status, orders, alive, propVars, cacheVars, reading,
                 coordinated, jobs, faults, forwarded>>

\* systemd takes the aggregator's oldest StartUnit call; somebody else starts
\* one of the two targets of chassis 0.
SystemdTakes ==
  /\ jobs # <<>>
  /\ Len(inbox) < MaxInbox
  /\ jobs' = Tail(jobs)
  /\ Emit(JobSignal(Head(jobs)))
  /\ UNCHANGED <<chassisVars, orders, alive, propVars, cacheVars, reading,
                 coordinated, histVars, forwarded>>

DirectStart(t) ==
  /\ spent.direct < MaxDirect
  /\ Len(inbox) < MaxInbox
  /\ Emit(JobSignal(t))
  /\ spent' = [spent EXCEPT !.direct = @ + 1]
  /\ UNCHANGED <<chassisVars, orders, alive, propVars, cacheVars, reading,
                 coordinated, jobs, faults, forwarded>>
---------------------------------------------------------------------------
Init ==
  /\ power = [c \in Chassis |-> "Off"]
  /\ status = [c \in Chassis |-> "Good"]
  /\ present \in [Chassis -> BOOLEAN]
  /\ orders = [c \in Chassis |-> <<>>]
  /\ alive = FALSE
  /\ requested = "Off" /\ aggregate = "Off" /\ aggregateStatus = "Good"
  /\ cachedState = [c \in Chassis |-> "Off"]
  /\ cachedStatus = [c \in Chassis |-> "Good"]
  /\ cachedPresent = [c \in Chassis |-> FALSE]
  /\ watched = {} /\ reading = FALSE
  /\ coordinated = FALSE
  /\ jobs = <<>> /\ inbox = <<>>
  /\ faults = {} /\ forwarded = "Off"
  /\ spent = [requests |-> 0, faults |-> 0, status |-> 0, moves |-> 0,
              deaths |-> 0, direct |-> 0]

Environment ==
  \/ \E t \in UserTransitions : RequestedPowerTransition(t)
  \/ Dies
  \/ \E c \in Chassis :
       \/ Faults(c) \/ PresenceMoves(c)
       \/ \E s \in PowerStatuses : PowerStatusMoves(c, s)
  \/ \E t \in {"poweron", "poweroff"} : DirectStart(t)

Next ==
  \/ Start \/ ReadAll \/ Handle \/ SystemdTakes
  \/ \E c \in Chassis : CarryOut(c) \/ Reaches(c)
  \/ Environment

Spec == Init /\ [][Next]_smpVars

\* The event loop, systemd and the chassis carry on; nothing else is owed.
FairSpec ==
  /\ Spec
  /\ WF_smpVars(Start) /\ WF_smpVars(ReadAll) /\ WF_smpVars(Handle)
  /\ WF_smpVars(SystemdTakes)
  /\ \A c \in Chassis : WF_smpVars(CarryOut(c)) /\ WF_smpVars(Reaches(c))
---------------------------------------------------------------------------
Signals ==
  [kind : {"state"}, chassis : Chassis, value : PowerStates]
  \union [kind : {"status"}, chassis : Chassis, value : PowerStatuses]
  \union [kind : {"present"}, chassis : Chassis, value : {"yes", "no"}]
  \union [kind : {"JobNew"}, chassis : {0}, value : Targets]

\* The type of the state.  The code: the members of class ChassisSMP and the
\* D-Bus properties they implement.
TypeOK ==
  /\ power \in [Chassis -> PowerStates]
  /\ status \in [Chassis -> PowerStatuses]
  /\ present \in [Chassis -> BOOLEAN]
  /\ orders \in [Chassis -> Seq(Transitions)]
  /\ alive \in BOOLEAN
  /\ requested \in Transitions
  /\ aggregate \in PowerStates /\ aggregateStatus \in PowerStatuses
  /\ cachedState \in [Chassis -> PowerStates]
  /\ cachedStatus \in [Chassis -> PowerStatuses]
  /\ cachedPresent \in [Chassis -> BOOLEAN]
  /\ watched \in SUBSET Chassis
  /\ reading \in BOOLEAN
  /\ coordinated \in BOOLEAN
  /\ jobs \in Seq(Targets) /\ inbox \in Seq(Signals)
  /\ faults \in SUBSET Chassis
  /\ forwarded \in Transitions

\* While a coordinated power off is under way the request reads Off, Off is the
\* last thing the chassis were told and some chassis is still up: the flag that
\* silences failure detection is gone before the machine can be powered on
\* again, so the next failure is seen.
CoordinatedUntilOff ==
  alive /\ coordinated =>
    requested = "Off" /\ forwarded = "Off" /\ aggregate # "Off"

\* With its inbox empty the aggregator shows the true presence, and a state and
\* status combined from those the chassis truly have, whatever order chassis
\* moved, appeared and disappeared in and however often it restarted: no change
\* slips between the property match and the read of a chassis, at the start or
\* when it has just become present.  A chassis that could not be read counts as
\* Off and Good.  Which state stands for several is the code's own choice
\* (aggregatePowerState): On stands before Off, whatever README.md:181-182 says.
AggregateIsCurrent ==
  alive /\ ~reading /\ inbox = <<>> =>
    /\ \A c \in Chassis \ Unreadable : cachedPresent[c] = present[c]
    /\ \E lost \in SUBSET Unreadable :
         aggregate = CombinedState(present, ReadStates(present, cachedState, lost))
    /\ \E lost \in SUBSET Unreadable :
         aggregateStatus =
           CombinedStatus(present, ReadStatuses(present, cachedStatus, lost))

\* When the aggregator comes to rest with an Off request, a user's or that of
\* a coordinated power off, every chassis ends Off, whatever faults, cycles
\* and late signals came before (while presence does not change).
OffReachesAll ==
  <>[](requested = "Off" /\ inbox = <<>>) =>
    <>[](\A c \in Chassis : power[c] = "Off")

\* A chassis that fails while the aggregate is on or going on takes the
\* machine down (the failure check in chassisPropertyChanged).
FailureIsNoticed ==
  \A c \in Chassis :
    (/\ c \in faults /\ power[c] = "TransitioningToOff"
     /\ requested = "On" /\ aggregate \in {"TransitioningToOn", "On"})
      ~> (requested = "Off" \/ ~alive)
===========================================================================
