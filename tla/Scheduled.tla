----------------------------- MODULE Scheduled -----------------------------
(***************************************************************************)
(* The scheduled host transition service: a schedule written over D-Bus    *)
(* and kept on flash, a real-time timer, a second timer descriptor that    *)
(* tells when the clock was set, and the requests sent to the host state   *)
(* manager when the time has come.                                         *)
(***************************************************************************)
EXTENDS Naturals

CONSTANTS Transitions,    \* what may be scheduled, with "Off" and "On"
          NoFile, TornFile,
          MaxTime,        \* bound: the clock and the scheduled times
          MaxWrites, MaxSets, MaxDeaths, MaxHostDeaths  \* bounds, see spent

ASSUME ScheduledAssumption ==
  /\ "On" \in Transitions
  /\ MaxTime \in Nat \ {0}

Times == 1..MaxTime
Schedules == [time : Nat, trans : Transitions]

ASSUME NoScheduleIsMissing == NoFile \notin Schedules /\ TornFile \notin Schedules

VARIABLES
  now,            \* CLOCK_REALTIME, in seconds
  alive,          \* the service runs
  scheduledTime,  \* D-Bus property, 0: nothing is scheduled
  scheduledTransition,   \* D-Bus property
  deadline,       \* when the timer expires, 0: disabled
  timeChanged,    \* timeFd is readable: the clock was set
  file,           \* the persisted schedule
  hostUp,         \* the host state manager is on the bus
  ready,          \* ... and accepts a power on: the BMC is Ready
  sent,           \* history: requests sent for the present schedule
  interrupted,    \* history: how many of them ended in a failure
  stranded,       \* history: the last timer expiry ended in a failure
  spent           \* what the environment has used of its bounds

hostVars == <<hostUp, ready>>
histVars == <<sent, interrupted, stranded>>
schedVars == <<now, alive, scheduledTime, scheduledTransition, deadline,
               timeChanged, file, hostVars, histVars, spent>>

\* Mutant: the transition is not persisted.
SerializeTime == file' = [time |-> scheduledTime']

\* serializeScheduledValues, over the values the step leaves.
Serialize == file' = [time |-> scheduledTime', trans |-> scheduledTransition']

\* deserializeScheduledValues: a file that cannot be parsed is removed.
Readable == file \notin {NoFile, TornFile}
---------------------------------------------------------------------------
\* hostTransition: a first Set of RequestedHostTransition and, unless it asks
\* for Off, a second of RestartCause.  Nobody waits for the answers, so only
\* a host state manager that is not on the bus makes it throw.
HostTransition(trans, completed) ==
  \/ /\ hostUp /\ completed
     /\ sent' = sent + 1
     /\ UNCHANGED <<interrupted, hostUp, spent>>
  \/ /\ ~hostUp /\ ~completed
     /\ UNCHANGED <<sent, interrupted, hostUp, spent>>
  \/ /\ hostUp /\ ~completed /\ trans # "Off"      \* gone before the second
     /\ spent.hostDeaths < MaxHostDeaths
     /\ hostUp' = FALSE
     /\ spent' = [spent EXCEPT !.hostDeaths = @ + 1]
     /\ sent' = sent + 1
     /\ interrupted' = interrupted + 1

\* Mutant: the schedule that was carried out is forgotten in memory only.
DisabledInMemory == scheduledTime' = 0 /\ deadline' = 0 /\ UNCHANGED file

\* scheduledTime(0).
Disabled == scheduledTime' = 0 /\ deadline' = 0 /\ Serialize

\* The service dies with an uncaught exception or a signal.
Ends == alive' = FALSE /\ deadline' = 0 /\ timeChanged' = FALSE

\* Mutant: the comparison is off by one.
HandleTimeUpdatesEarly(time, trans) ==
  \/ /\ time = 0 \/ time > now + 1
     /\ deadline' = time
     /\ scheduledTime' = time
     /\ alive' = TRUE /\ timeChanged' = FALSE /\ stranded' = FALSE
     /\ UNCHANGED <<file, sent, interrupted, hostUp, spent>>
  \/ /\ time # 0 /\ time <= now + 1
     /\ HostTransition(trans, TRUE)
     /\ Disabled
     /\ alive' = TRUE /\ timeChanged' = FALSE /\ stranded' = FALSE

\* handleTimeUpdates for a schedule of the given time.  The BMCNotReady error
\* it looks for never arrives, see HostTransition; any other ends the process.
HandleTimeUpdates(time, trans) ==
  \/ /\ time = 0 \/ time > now
     /\ deadline' = time
     /\ scheduledTime' = time
     /\ alive' = TRUE /\ timeChanged' = FALSE /\ stranded' = FALSE
     /\ UNCHANGED <<file, sent, interrupted, hostUp, spent>>
  \/ /\ time # 0 /\ time <= now
     /\ HostTransition(trans, TRUE)
     /\ Disabled
     /\ alive' = TRUE /\ timeChanged' = FALSE /\ stranded' = FALSE
  \/ /\ time # 0 /\ time <= now
     /\ HostTransition(trans, FALSE)
     /\ Ends
     /\ stranded' = FALSE
     /\ UNCHANGED <<scheduledTime, file>>

\* Construction: the persisted schedule, or the defaults.
Start ==
  /\ ~alive
  /\ \/ /\ Readable
        /\ scheduledTransition' = file.trans
        /\ HandleTimeUpdates(file.time, file.trans)
     \/ /\ ~Readable
        /\ file' = NoFile
        /\ scheduledTime' = 0 /\ scheduledTransition' = "On"
        /\ alive' = TRUE /\ deadline' = 0 /\ timeChanged' = FALSE
        /\ stranded' = FALSE
        /\ UNCHANGED <<sent, interrupted, hostUp, spent>>
  /\ UNCHANGED <<now, ready>>

\* onTimeChange: the clock was set.
OnTimeChange ==
  /\ alive /\ timeChanged
  /\ UNCHANGED <<now, ready, scheduledTransition>>
  /\ HandleTimeUpdates(scheduledTime, scheduledTransition)

\* Mutant: the timer is stopped before the time is checked.
RejectedStopped(v) ==
  /\ v # 0 /\ v < now
  /\ deadline' = 0
  /\ UNCHANGED <<scheduledTime, file, sent, interrupted, stranded>>

Rejected(v) ==
  /\ v # 0 /\ v < now
  /\ UNCHANGED <<scheduledTime, deadline, file, sent, interrupted, stranded>>

\* A D-Bus write of ScheduledTime.
SetScheduledTime(v) ==
  /\ alive
  /\ spent.writes < MaxWrites
  /\ spent' = [spent EXCEPT !.writes = @ + 1]
  /\ UNCHANGED <<now, alive, scheduledTransition, timeChanged, hostVars>>
  /\ \/ Rejected(v)
     \/ /\ v = 0 \/ v >= now
        /\ deadline' = v
        /\ scheduledTime' = v
        /\ Serialize
        /\ sent' = 0 /\ interrupted' = 0 /\ stranded' = FALSE

\* A D-Bus write of ScheduledTransition, which is not persisted by itself.
SetScheduledTransition(t) ==
  /\ alive
  /\ spent.writes < MaxWrites
  /\ spent' = [spent EXCEPT !.writes = @ + 1]
  /\ scheduledTransition' = t
  /\ UNCHANGED <<now, alive, scheduledTime, deadline, timeChanged, file,
                 hostVars, histVars>>

\* The timer expires.  sdeventplus swallows an exception of the callback: the
\* schedule stays and its timer is off.
Callback ==
  /\ alive
  /\ deadline # 0 /\ deadline <= now
  /\ UNCHANGED <<now, alive, scheduledTransition, timeChanged, ready>>
  /\ \/ /\ HostTransition(scheduledTransition, TRUE)
        /\ Disabled
        /\ stranded' = FALSE
     \/ /\ HostTransition(scheduledTransition, FALSE)
        /\ deadline' = 0
        /\ stranded' = TRUE
        /\ UNCHANGED <<scheduledTime, file>>
---------------------------------------------------------------------------
MayDie == alive /\ spent.deaths < MaxDeaths
             /\ spent' = [spent EXCEPT !.deaths = @ + 1]

Dies ==
  /\ MayDie
  /\ Ends
  /\ UNCHANGED <<now, scheduledTime, scheduledTransition, file, hostVars,
                 histVars>>

\* ... while it writes the file: the old one is truncated first.
DiesSerializing(v) ==
  /\ MayDie
  /\ v = 0 \/ v >= now
  /\ Ends
  /\ file' = TornFile
  /\ sent' = 0 /\ interrupted' = 0 /\ stranded' = FALSE
  /\ UNCHANGED <<now, scheduledTime, scheduledTransition, hostVars>>

\* ... after it sent the requests of a schedule whose time has come.
DiesAfterSending ==
  /\ MayDie
  /\ hostUp
  /\ \/ deadline # 0 /\ deadline <= now
     \/ timeChanged /\ scheduledTime # 0 /\ scheduledTime <= now
  /\ Ends
  /\ file' \in {file, TornFile}
  /\ sent' = sent + 1 /\ interrupted' = interrupted + 1
  /\ UNCHANGED <<now, scheduledTime, scheduledTransition, hostVars, stranded>>

Tick ==
  /\ now < MaxTime
  /\ now' = now + 1
  /\ UNCHANGED <<alive, scheduledTime, scheduledTransition, deadline,
                 timeChanged, file, hostVars, histVars, spent>>

\* Somebody sets the clock.
ClockSet(t) ==
  /\ spent.sets < MaxSets
  /\ spent' = [spent EXCEPT !.sets = @ + 1]
  /\ now' = t
  /\ timeChanged' = alive
  /\ UNCHANGED <<alive, scheduledTime, scheduledTransition, deadline, file,
                 hostVars, histVars>>

HostDies ==
  /\ hostUp
  /\ spent.hostDeaths < MaxHostDeaths
  /\ hostUp' = FALSE
  /\ spent' = [spent EXCEPT !.hostDeaths = @ + 1]
  /\ UNCHANGED <<now, alive, scheduledTime, scheduledTransition, deadline,
                 timeChanged, file, ready, histVars>>

HostStarts ==
  /\ ~hostUp
  /\ hostUp' = TRUE
  /\ UNCHANGED <<now, alive, scheduledTime, scheduledTransition, deadline,
                 timeChanged, file, ready, histVars, spent>>

BMCReady ==
  /\ ~ready
  /\ ready' = TRUE
  /\ UNCHANGED <<now, alive, scheduledTime, scheduledTransition, deadline,
                 timeChanged, file, hostUp, histVars, spent>>
---------------------------------------------------------------------------
Init ==
  /\ now = 1
  /\ alive = FALSE
  /\ scheduledTime = 0 /\ scheduledTransition = "On"
  /\ deadline = 0 /\ timeChanged = FALSE
  /\ file = NoFile
  /\ hostUp \in BOOLEAN /\ ready = FALSE
  /\ sent = 0 /\ interrupted = 0 /\ stranded = FALSE
  /\ spent = [writes |-> 0, sets |-> 0, deaths |-> 0, hostDeaths |-> 0]

Next ==
  \/ Start \/ OnTimeChange \/ Callback
  \/ \E v \in Times \cup {0} : SetScheduledTime(v) \/ DiesSerializing(v)
  \/ \E t \in Transitions : SetScheduledTransition(t)
  \/ Dies \/ DiesAfterSending
  \/ Tick \/ \E t \in Times : ClockSet(t)
  \/ HostDies \/ HostStarts \/ BMCReady

Spec == Init /\ [][Next]_schedVars

\* Time passes, systemd restarts both processes, the event loop goes on.
FairSpec ==
  /\ Spec
  /\ WF_schedVars(Start) /\ WF_schedVars(OnTimeChange) /\ WF_schedVars(Callback)
  /\ WF_schedVars(Tick) /\ WF_schedVars(HostStarts)
---------------------------------------------------------------------------
TypeOK ==
  /\ now \in Times
  /\ alive \in BOOLEAN
  /\ scheduledTime \in Times \cup {0}
  /\ scheduledTransition \in Transitions
  /\ deadline \in Times \cup {0}
  /\ timeChanged \in BOOLEAN
  /\ file \in [time : Times \cup {0}, trans : Transitions] \cup {NoFile, TornFile}
  /\ hostUp \in BOOLEAN /\ ready \in BOOLEAN
  /\ sent \in Nat /\ interrupted \in Nat /\ stranded \in BOOLEAN

\* While the service runs its timer stands for the schedule on D-Bus: none
\* without a schedule, none left of a schedule that was cancelled, replaced,
\* moved by the clock or refused, and none missing unless the last expiry of
\* it ended in an error.
ArmedForSchedule ==
  alive => \/ deadline = scheduledTime
           \/ stranded /\ deadline = 0

\* A restart finds the time that was scheduled last: the file never holds a
\* schedule that was cancelled or carried out, and never misses one, but when
\* the service died while writing it.
RestartFindsSchedule ==
  alive => scheduledTime = IF Readable THEN file.time ELSE 0

\* The host gets the requests of a schedule once, however the timer, the
\* clock and restarts interleave; again only when the attempt before ended in
\* a failure before the schedule was taken off.
OnceUnlessInterrupted == sent <= 1 + interrupted

\* A transition is not requested before its time, whatever the clock did.
NeverEarly ==
  [][sent' > sent =>
       now >= IF alive THEN scheduledTime ELSE file.time]_schedVars

\* A schedule is carried out or cancelled in the end, through deaths of both
\* processes and a moving clock, unless its timer expired in vain or the
\* service died while it wrote the file.
EventuallyCarriedOut ==
  (alive /\ scheduledTime # 0) ~> (\/ scheduledTime = 0 /\ alive
                                   \/ stranded \/ file = TornFile)

\* handleTimeUpdates, at a start or when the clock was set, keeps a schedule
\* whose request the host refuses because the BMC is not Ready: "If error
\* indicates BMC is not at Ready error then reschedule for 60s later".
RefusedIsRescheduled ==
  [][(Start \/ OnTimeChange) /\ sent' > sent /\ alive'
       /\ ~ready /\ scheduledTransition' # "Off"
       => scheduledTime' # 0]_schedVars
===========================================================================
