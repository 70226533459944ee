----------------------------- MODULE BMCProofs -----------------------------
(***************************************************************************)
(* The BMC state manager keeps the promise of Readiness and follows its     *)
(* targets and the clock, for every set of boots and inputs, any number of  *)
(* deaths and resets and every order of signals.  The invariant that        *)
(* carries the proof says of each target what the queue still holds when    *)
(* CurrentBMCState is not yet what the target says.                         *)
(* The target monitor beside it leaves the manager the one it was, and its  *)
(* own invariant counts each failure until its error is logged.             *)
(***************************************************************************)
EXTENDS BMCSystem, FiniteSetTheorems, TLAPS

Occurs(m, q) == \E i \in 1..Len(q) : q[i] = m
DoneQueued(u) == Occurs(JobRemoved(u, "done"), inbox)

\* Which signals are watched in which phase of the process.
WatchedByPhase ==
  /\ phase = "down" => ~watching /\ ~syncWatch
  /\ watching => subscribed
  /\ phase \in {"listening", "unquiesced"} =>
       watching /\ syncWatch /\ currentState = "NotReady"
  /\ phase = "up" => (watching => currentState # "Quiesced")
                     /\ (~watching => currentState # "Ready")

\* What a target says is known already, or will be once the queue is read, but
\* for a target whose state could not be read.
TargetsKnown ==
  shutdown = "no" =>
    /\ phase = "unquiesced" /\ unit["quiesce"] = "active"
         => DoneQueued("quiesce") \/ misread
    /\ phase = "up" /\ watching /\ unit["quiesce"] = "active"
         => DoneQueued("quiesce") \/ misread
    /\ phase = "up" /\ watching /\ unit["standby"] = "active"
         => DoneQueued("standby") \/ currentState = "Ready" \/ misread
    /\ phase = "up" /\ currentState = "Ready" => unit["standby"] = "active"
    /\ phase = "up" /\ currentState = "Quiesced" => unit["quiesce"] = "active"

\* The same for the clock.
ClockKnown ==
  /\ Occurs(Synced, inbox) => clock = "synced"
  /\ phase = "up" /\ syncWatch /\ subscribed /\ clock = "synced"
       => Occurs(Synced, inbox) \/ rebootTime = "set"
  /\ phase = "up" /\ ~syncWatch => rebootTime = "set"

Inv == TypeOK /\ WatchedByPhase /\ TargetsKnown /\ ClockKnown

\* What is queued stays queued, and nothing else is.
LEMMA AppendOccurs ==
  ASSUME NEW S, NEW q \in Seq(S), NEW e \in S, NEW m
  PROVE  Occurs(m, Append(q, e)) <=> Occurs(m, q) \/ m = e
<1>1. ASSUME Occurs(m, q) PROVE Occurs(m, Append(q, e))
  BY <1>1 DEF Occurs
<1>2. Append(q, e)[Len(q) + 1] = e /\ Len(q) + 1 \in 1..Len(Append(q, e))
  OBVIOUS
<1>3. ASSUME Occurs(m, Append(q, e)) PROVE Occurs(m, q) \/ m = e
  BY <1>3 DEF Occurs
<1> QED BY <1>1, <1>2, <1>3 DEF Occurs

\* Reading a signal takes this one out of the queue and no other.
LEMMA TailOccurs ==
  ASSUME NEW S, NEW q \in Seq(S), q # <<>>, NEW m
  PROVE  /\ Occurs(m, Tail(q)) => Occurs(m, q)
         /\ Occurs(m, q) => m = Head(q) \/ Occurs(m, Tail(q))
<1>1. ASSUME Occurs(m, Tail(q)) PROVE Occurs(m, q)
  BY <1>1 DEF Occurs
<1>2. ASSUME NEW i \in 1..Len(q), q[i] = m, i # 1 PROVE Occurs(m, Tail(q))
  <2>1. i - 1 \in 1..Len(Tail(q)) /\ Tail(q)[i - 1] = q[i]
    BY <1>2
  <2> QED BY <1>2, <2>1 DEF Occurs
<1>3. ASSUME Occurs(m, q) PROVE m = Head(q) \/ Occurs(m, Tail(q))
  BY <1>2, <1>3 DEF Occurs
<1> QED BY <1>1, <1>3
---------------------------------------------------------------------------
\* A broadcast queues a signal or nothing.
LEMMA BroadcastType ==
  ASSUME inbox \in Seq(Signals), NEW m \in Signals, Broadcast(m)
  PROVE  inbox' \in Seq(Signals)
<1>1. inbox' = inbox \/ inbox' = Append(inbox, m)
  BY DEF Broadcast
<1> QED BY <1>1

\* Every variable keeps its type under every step of the manager, of systemd
\* and of the hardware.
LEMMA TypePreserved == TypeOK /\ [Next]_vars => TypeOK'
<1> SUFFICES ASSUME TypeOK, [Next]_vars PROVE TypeOK'
  OBVIOUS
<1> USE DEF TypeOK, Units, Transitions, manager, systemd, world
<1>s. ASSUME NEW what \in {"requests", "deaths", "resets", "failures", "misreads"}, NEW max,
             Spend(what, max)
      PROVE spent' \in [{"requests", "deaths", "resets", "failures", "misreads"} -> Nat]
  BY <1>s DEF Spend
<1>b. ASSUME NEW m \in Signals, Broadcast(m) PROVE inbox' \in Seq(Signals)
  <2>1. inbox \in Seq(Signals)
    OBVIOUS
  <2> QED BY <1>b, <2>1, BroadcastType
<1>m. /\ \A u \in Units : JobRemoved(u, "done") \in Signals
                          /\ JobRemoved(u, "failed") \in Signals
                          /\ JobRemoved(u, "canceled") \in Signals
      /\ Synced \in Signals
  BY DEF Signals, JobRemoved
<1>1. ASSUME NEW u \in Units, Completed(u) \/ Stopped(u) PROVE TypeOK'
  BY <1>1, <1>b, <1>m DEF Completed, Stopped
<1>2. CASE StandbyFails
  BY <1>2, <1>b, <1>m, <1>s DEF StandbyFails
<1>3. CASE Environment
  <2>1. CASE RebootDirectly \/ GuardReboots
    BY <1>s, <2>1 DEF RebootDirectly, GuardReboots
  <2>2. CASE FirmwareUpdate \/ ClockSet \/ TimeSynced
    BY <1>b, <1>m, <2>2 DEF FirmwareUpdate, ClockSet, TimeSynced
  <2> QED BY <1>3, <2>1, <2>2 DEF Environment
<1>4. CASE Start
  <2>1. <<>> \in Seq(Signals)
    OBVIOUS
  <2> QED BY <1>4, <2>1 DEF Start
<1>u. ASSUME NEW u \in Units, ReadsActive(u) \/ ReadsOther(u)
      PROVE /\ misread' \in BOOLEAN
            /\ spent' \in [{"requests", "deaths", "resets", "failures", "misreads"} -> Nat]
  BY <1>u, <1>s DEF ReadsActive, ReadsOther
<1>5. CASE DiscoverQuiesced \/ DiscoverStandby
  <2>1. PICK u \in Units : ReadsActive(u) \/ ReadsOther(u)
    BY <1>5 DEF DiscoverQuiesced, DiscoverStandby
  <2>2. /\ misread' \in BOOLEAN
        /\ spent' \in [{"requests", "deaths", "resets", "failures", "misreads"} -> Nat]
    BY <1>u, <2>1
  <2> QED BY <1>5, <2>2
          DEF DiscoverQuiesced, DiscoverStandby, Appears, BmcIsQuiesced,
              LastRebootCause, TheClock
<1>6. CASE HandleSignal
  <2>1. inbox' \in Seq(Signals)
    BY <1>6 DEF HandleSignal
  <2>2. UNCHANGED <<phase, requested, rebootCause, systemd, world>>
    BY <1>6 DEF HandleSignal
  <2>u. /\ misread' \in BOOLEAN
        /\ spent' \in [{"requests", "deaths", "resets", "failures", "misreads"} -> Nat]
    <3>1. \/ \E u \in Units : ReadsActive(u) \/ ReadsOther(u)
          \/ UNCHANGED <<misread, spent>>
      BY <1>6 DEF HandleSignal, BmcStateChange, ToQuiesced, ToReady, NotTaken
    <3> QED BY <3>1, <1>u
  <2>3. /\ syncWatch' \in {syncWatch, FALSE} /\ watching' \in {watching, FALSE}
        /\ subscribed' \in {subscribed, FALSE}
        /\ currentState' \in {currentState, "Ready", "Quiesced"}
        /\ rebootTime' \in {rebootTime, "unset", "set"}
    BY <1>6 DEF HandleSignal, TimeSyncHandled, TheClock, BmcStateChange, BmcIsQuiesced
  <2>4. watching' \in BOOLEAN /\ syncWatch' \in BOOLEAN /\ subscribed' \in BOOLEAN
    BY <2>3
  <2>5. /\ currentState' \in {"NotReady", "Ready", "Quiesced"}
        /\ rebootTime' \in {"none", "unset", "set"}
    BY <2>3
  <2> QED BY <2>1, <2>2, <2>u, <2>4, <2>5
<1>7. CASE Die
  <2>1. <<>> \in Seq(Signals)
    OBVIOUS
  <2>2. UNCHANGED <<currentState, requested, misread, rebootCause, rebootTime,
                    systemd, world>>
    BY <1>7 DEF Die
  <2>3. /\ phase' = "down" /\ inbox' = <<>> /\ watching' = FALSE
        /\ syncWatch' = FALSE /\ subscribed' = FALSE
    BY <1>7 DEF Die
  <2>4. spent' = spent \/ Spend("deaths", MaxDeaths)
    BY <1>7 DEF Die
  <2>5. spent' \in [{"requests", "deaths", "resets", "failures", "misreads"} -> Nat]
    BY <1>s, <2>4
  <2>6. /\ watching' \in BOOLEAN /\ syncWatch' \in BOOLEAN /\ subscribed' \in BOOLEAN
        /\ inbox' \in Seq(Signals)
    BY <2>1, <2>3
  <2> QED BY <2>2, <2>3, <2>5, <2>6
<1>8. ASSUME NEW t \in Transitions, RequestedBMCTransition(t) PROVE TypeOK'
  <2>1. UNCHANGED <<phase, syncWatch, subscribed, misread, rebootCause, rebootTime,
                    inbox, unit, guarded, world>>
    BY <1>8 DEF RequestedBMCTransition
  <2>2. spent' \in [{"requests", "deaths", "resets", "failures", "misreads"} -> Nat]
    BY <1>8, <1>s DEF RequestedBMCTransition
  <2>3. requested' = t /\ ExecuteTransition(t)
    BY <1>8 DEF RequestedBMCTransition
  <2>4. /\ currentState' \in {"NotReady", "Ready", "Quiesced"}
        /\ watching' \in BOOLEAN
        /\ shutdown' \in {"no", "ordered", "hard"}
    BY <2>3 DEF ExecuteTransition, AnnounceReboot
  <2> QED BY <2>1, <2>2, <2>3, <2>4
<1>9. CASE QuiesceStarted
  BY <1>9, <1>b, <1>m DEF QuiesceStarted, StartQuiesceTarget
<1>10. CASE Rebooted \/ ResetByHardware
  <2>1. <<>> \in Seq(Signals)
    OBVIOUS
  <2> QED BY <1>10, <2>1, <1>s DEF Rebooted, ResetByHardware, Reset
<1>11. CASE UNCHANGED vars
  BY <1>11 DEF vars
<1> QED BY <1>1, <1>2, <1>3, <1>4, <1>5, <1>6, <1>7, <1>8, <1>9, <1>10, <1>11
        DEF Next, Systemd, Manager

\* Every step watches the signals that its phase is to watch.
LEMMA WatchedPreserved == TypeOK /\ WatchedByPhase /\ [Next]_vars => WatchedByPhase'
<1> SUFFICES ASSUME TypeOK, WatchedByPhase, [Next]_vars PROVE WatchedByPhase'
  OBVIOUS
<1> USE DEF WatchedByPhase, manager, systemd, world
<1>1. ASSUME NEW u \in Units, Completed(u) \/ Stopped(u) PROVE WatchedByPhase'
  BY <1>1 DEF Completed, Stopped
<1>2. CASE StandbyFails \/ Environment \/ QuiesceStarted
  BY <1>2 DEF StandbyFails, Environment, RebootDirectly, GuardReboots,
              FirmwareUpdate, ClockSet, TimeSynced, QuiesceStarted
<1>3. CASE Start \/ Die
  BY <1>3 DEF Start, Die
<1>4. CASE DiscoverQuiesced \/ DiscoverStandby
  BY <1>4 DEF DiscoverQuiesced, DiscoverStandby, Appears, BmcIsQuiesced
<1>5. CASE HandleSignal
  BY <1>5 DEF TypeOK, HandleSignal, TimeSyncHandled, BmcStateChange, BmcIsQuiesced,
              ToReady, Done
<1>6. ASSUME NEW t \in Transitions, RequestedBMCTransition(t) PROVE WatchedByPhase'
  BY <1>6 DEF RequestedBMCTransition, ExecuteTransition, AnnounceReboot
<1>7. CASE Rebooted \/ ResetByHardware
  BY <1>7 DEF Rebooted, ResetByHardware, Reset
<1>8. CASE UNCHANGED vars
  BY <1>8 DEF vars
<1> QED BY <1>1, <1>2, <1>3, <1>4, <1>5, <1>6, <1>7, <1>8 DEF Next, Systemd, Manager

\* Each target and the clock are known, or will be, after every step.
LEMMA KnownPreserved == Inv /\ [Next]_vars => TargetsKnown' /\ ClockKnown'
<1> SUFFICES ASSUME Inv, [Next]_vars PROVE TargetsKnown' /\ ClockKnown'
  OBVIOUS
<1> USE DEF Inv, Units, Transitions, manager, systemd, world
<1>m. /\ \A u \in Units : JobRemoved(u, "done") \in Signals
                          /\ JobRemoved(u, "failed") \in Signals
                          /\ JobRemoved(u, "canceled") \in Signals
      /\ Synced \in Signals
      /\ \A u, v \in Units : \A r, t \in {"done", "failed", "canceled"} :
           /\ JobRemoved(u, r) # Synced
           /\ JobRemoved(u, r) = JobRemoved(v, t) => u = v /\ r = t
  BY DEF Signals, JobRemoved, Synced
<1>q. inbox \in Seq(Signals)
  BY DEF TypeOK
<1>b. ASSUME NEW m \in Signals, Broadcast(m), NEW n
      PROVE /\ Occurs(n, inbox) => Occurs(n, inbox')
            /\ Occurs(n, inbox') => Occurs(n, inbox) \/ n = m
            /\ Heard(m) /\ subscribed => Occurs(m, inbox')
  <2>1. CASE inbox' = Append(inbox, m)
    <3>1. \A x : Occurs(x, Append(inbox, m)) <=> Occurs(x, inbox) \/ x = m
      BY <1>q, AppendOccurs
    <3> QED BY <2>1, <3>1
  <2>2. CASE ~(Heard(m) /\ subscribed) /\ inbox' = inbox
    BY <2>2
  <2> QED BY <1>b, <2>1, <2>2 DEF Broadcast
<1>e. \A n : ~Occurs(n, <<>>)
  BY DEF Occurs
<1>1. ASSUME NEW u \in Units, Completed(u) PROVE TargetsKnown' /\ ClockKnown'
  <2> DEFINE m == JobRemoved(u, "done")
  <2>1. m \in Signals /\ Broadcast(m) /\ m # Synced
    BY <1>1, <1>m DEF Completed
  <2>2. Heard(m) <=> watching
    BY <2>1 DEF Heard
  <2>3. Occurs(Synced, inbox') <=> Occurs(Synced, inbox)
    BY <2>1, <1>b
  <2>4. ClockKnown'
    BY <1>1, <2>3 DEF Completed, ClockKnown
  <2>5. /\ \A v \in Units : DoneQueued(v) => DoneQueued(v)'
        /\ watching => DoneQueued(u)'
    BY <2>1, <2>2, <1>b DEF DoneQueued, JobRemoved, WatchedByPhase
  <2>6. /\ unit' = [unit EXCEPT ![u] = "active"] /\ unit \in [Units -> {"inactive", "starting", "active"}]
        /\ UNCHANGED <<phase, currentState, watching, misread, shutdown>>
    BY <1>1 DEF Completed, TypeOK
  <2>7. \A v \in Units : unit'[v] = IF v = u THEN "active" ELSE unit[v]
    BY <2>6
  <2>8. TargetsKnown'
    BY <2>5, <2>6, <2>7 DEF TargetsKnown, WatchedByPhase
  <2> QED BY <2>4, <2>8
<1>2. ASSUME NEW u \in Units, Stopped(u) PROVE TargetsKnown' /\ ClockKnown'
  <2>1. PICK r \in {"done", "canceled"} : Broadcast(JobRemoved(u, r))
    BY <1>2 DEF Stopped
  <2>2. JobRemoved(u, r) \in Signals /\ JobRemoved(u, r) # Synced
    BY <1>m, <2>1
  <2>3. Occurs(Synced, inbox') <=> Occurs(Synced, inbox)
    BY <2>1, <2>2, <1>b
  <2> QED BY <1>2, <2>3 DEF Stopped, TargetsKnown, ClockKnown
<1>3. CASE StandbyFails
  <2> DEFINE m == JobRemoved("standby", "failed")
  <2>1. m \in Signals /\ Broadcast(m) /\ m # Synced
    BY <1>3, <1>m DEF StandbyFails
  <2>2. Occurs(Synced, inbox') <=> Occurs(Synced, inbox)
    BY <2>1, <1>b
  <2>3. \A v \in Units : DoneQueued(v) => DoneQueued(v)'
    BY <2>1, <1>b DEF DoneQueued, JobRemoved
  <2>4. unit'["quiesce"] = unit["quiesce"] /\ unit'["standby"] = "inactive" /\ unit["standby"] = "starting"
    BY <1>3 DEF StandbyFails, TypeOK
  <2> QED BY <1>3, <2>2, <2>3, <2>4 DEF StandbyFails, TargetsKnown, ClockKnown
<1>4. CASE RebootDirectly \/ GuardReboots \/ FirmwareUpdate \/ ClockSet
  BY <1>4 DEF RebootDirectly, GuardReboots, FirmwareUpdate, ClockSet,
              TargetsKnown, ClockKnown, DoneQueued
<1>5. CASE TimeSynced
  <2>1. Synced \in Signals /\ Broadcast(Synced)
    BY <1>5, <1>m DEF TimeSynced
  <2>2. \A v \in Units : DoneQueued(v) => DoneQueued(v)'
    BY <2>1, <1>b DEF DoneQueued, JobRemoved
  <2>3. syncWatch /\ subscribed => Occurs(Synced, inbox')
    BY <2>1, <1>b DEF Heard
  <2> QED BY <1>5, <2>2, <2>3 DEF TimeSynced, TargetsKnown, ClockKnown
<1>6. CASE QuiesceStarted
  <2>1. CASE UNCHANGED <<unit, inbox>>
    BY <1>6, <2>1 DEF QuiesceStarted, TargetsKnown, ClockKnown, DoneQueued
  <2>2. CASE Broadcast(JobRemoved("quiesce", "done")) /\ UNCHANGED unit
    <3> DEFINE m == JobRemoved("quiesce", "done")
    <3>1. m \in Signals /\ Broadcast(m) /\ m # Synced
      BY <1>m, <2>2
    <3>2. Occurs(Synced, inbox') <=> Occurs(Synced, inbox)
      BY <3>1, <1>b
    <3>3. \A v \in Units : DoneQueued(v) => DoneQueued(v)'
      BY <3>1, <1>b DEF DoneQueued, JobRemoved
    <3> QED BY <1>6, <2>2, <3>2, <3>3 DEF QuiesceStarted, TargetsKnown, ClockKnown
  <2>3. CASE unit' = [unit EXCEPT !["quiesce"] = "starting"] /\ UNCHANGED inbox
             /\ unit["quiesce"] # "active"
    <3>1. unit'["quiesce"] = "starting" /\ unit'["standby"] = unit["standby"]
      BY <2>3 DEF TypeOK
    <3> QED BY <1>6, <2>3, <3>1 DEF QuiesceStarted, TargetsKnown, ClockKnown, DoneQueued
  <2> QED BY <1>6, <2>1, <2>2, <2>3 DEF QuiesceStarted, StartQuiesceTarget
<1>7. CASE Start
  BY <1>7, <1>e DEF Start, TargetsKnown, ClockKnown
<1>8. CASE DiscoverQuiesced
  BY <1>8 DEF DiscoverQuiesced, ReadsActive, ReadsOther, Appears, BmcIsQuiesced,
              TheClock, WatchedByPhase, TargetsKnown, ClockKnown, DoneQueued
<1>9. CASE DiscoverStandby
  BY <1>9 DEF DiscoverStandby, ReadsActive, ReadsOther, Appears, TheClock,
              WatchedByPhase, TargetsKnown, ClockKnown, DoneQueued
<1>10. CASE HandleSignal
  <2> DEFINE m == Head(inbox)
  <2>1. inbox # <<>> /\ inbox' = Tail(inbox) /\ phase = "up"
        /\ UNCHANGED <<phase, unit, shutdown, clock>>
        /\ (subscribed' => subscribed)
    BY <1>10 DEF HandleSignal, BmcStateChange, BmcIsQuiesced
  <2>2. \A n : /\ Occurs(n, inbox') => Occurs(n, inbox)
               /\ Occurs(n, inbox) => n = m \/ Occurs(n, inbox')
    BY <2>1, <1>q, TailOccurs
  <2>3. CASE m = Synced
    <3>1. \A v \in Units : DoneQueued(v) => DoneQueued(v)'
      BY <2>2, <2>3, <1>m DEF DoneQueued, JobRemoved
    <3>2. TargetsKnown'
      BY <1>10, <2>1, <2>3, <3>1 DEF HandleSignal, TargetsKnown
    <3>3. Occurs(Synced, inbox)
      <4>1. 1 \in 1..Len(inbox) /\ m = inbox[1]
        BY <2>1, <1>q
      <4> QED BY <2>3, <4>1 DEF Occurs
    <3>4. clock = "synced"
      BY <3>3 DEF ClockKnown
    <3>5. IF syncWatch THEN syncWatch' = FALSE /\ rebootTime' = "set"
          ELSE UNCHANGED <<syncWatch, rebootTime>>
      BY <1>10, <2>3, <3>4 DEF HandleSignal, TimeSyncHandled, TheClock
    <3> QED BY <2>1, <2>2, <3>2, <3>4, <3>5 DEF ClockKnown, TypeOK
  <2>4. CASE m # Synced
    <3>1. BmcStateChange(m) /\ UNCHANGED <<syncWatch, rebootTime>>
      BY <1>10, <2>4 DEF HandleSignal
    <3>2. ClockKnown'
      BY <2>1, <2>2, <2>4, <3>1 DEF ClockKnown
    <3>3. CASE ToQuiesced(m) /\ BmcIsQuiesced
      <4>1. unit["quiesce"] = "active"
        BY <3>3 DEF ToQuiesced, ReadsActive
      <4>2. currentState' = "Quiesced" /\ watching' = FALSE
        BY <3>3 DEF BmcIsQuiesced
      <4> QED BY <2>1, <3>2, <4>1, <4>2 DEF TargetsKnown
    <3>4. CASE ToReady(m) /\ currentState' = "Ready" /\ UNCHANGED <<watching, subscribed>>
      <4>1. /\ m = JobRemoved("standby", "done") /\ unit["standby"] = "active"
            /\ UNCHANGED misread
        BY <3>4 DEF ToReady, Done, ReadsActive
      <4>2. DoneQueued("quiesce") => DoneQueued("quiesce")'
        BY <2>2, <4>1 DEF DoneQueued, JobRemoved
      <4> QED BY <2>1, <3>2, <3>4, <4>1, <4>2 DEF TargetsKnown
    <3>5. CASE NotTaken(m) /\ UNCHANGED <<currentState, watching, subscribed>>
      <4>1. misread => misread'
        BY <3>5 DEF NotTaken, ReadsOther
      <4>2. watching => \A v \in Units :
                          DoneQueued(v) /\ unit[v] = "active" => DoneQueued(v)' \/ misread'
        <5>1. \A v \in Units : DoneQueued(v) => DoneQueued(v)' \/ m = JobRemoved(v, "done")
          BY <2>2 DEF DoneQueued
        <5>2. ASSUME NEW v \in Units, watching, m = JobRemoved(v, "done"), unit[v] = "active"
              PROVE misread'
          <6>1. Done(m, v) /\ \A w \in Units : Done(m, w) => w = v
            BY <5>2, <1>m DEF Done
          <6>2. ReadsOther(v)
            BY <3>5, <6>1 DEF NotTaken
          <6> QED BY <5>2, <6>2 DEF ReadsOther
        <5> QED BY <5>1, <5>2
      <4> QED BY <2>1, <3>2, <3>5, <4>1, <4>2 DEF TargetsKnown
    <3> QED BY <3>1, <3>3, <3>4, <3>5 DEF BmcStateChange
  <2> QED BY <2>3, <2>4
<1>11. CASE Die
  BY <1>11, <1>e DEF Die, TargetsKnown, ClockKnown
<1>12. ASSUME NEW t \in Transitions, RequestedBMCTransition(t)
       PROVE TargetsKnown' /\ ClockKnown'
  <2>1. UNCHANGED <<phase, unit, inbox, syncWatch, subscribed, misread, rebootTime, clock>>
    BY <1>12 DEF RequestedBMCTransition
  <2>2. ClockKnown'
    BY <2>1 DEF ClockKnown
  <2>3. \/ UNCHANGED <<currentState, watching, shutdown>>
        \/ currentState' = "NotReady" /\ watching' = FALSE
           /\ (shutdown' = "no" => shutdown = "no")
    BY <1>12 DEF RequestedBMCTransition, ExecuteTransition, AnnounceReboot
  <2>4. phase = "up"
    BY <1>12 DEF RequestedBMCTransition
  <2>5. TargetsKnown'
    BY <2>1, <2>3, <2>4 DEF TargetsKnown, DoneQueued
  <2> QED BY <2>2, <2>5
<1>13. CASE Rebooted \/ ResetByHardware
  BY <1>13, <1>e DEF Rebooted, ResetByHardware, Reset, TargetsKnown, ClockKnown
<1>14. CASE UNCHANGED vars
  BY <1>14 DEF vars, TargetsKnown, ClockKnown, DoneQueued
<1> QED BY <1>1, <1>2, <1>3, <1>4, <1>5, <1>6, <1>7, <1>8, <1>9, <1>10, <1>11,
           <1>12, <1>13, <1>14 DEF Next, Systemd, Manager, Environment
---------------------------------------------------------------------------
\* The two parts hold throughout.
LEMMA InvHolds == Spec => []Inv
<1>1. Init => Inv
  <2> SUFFICES ASSUME Init PROVE Inv
    OBVIOUS
  <2>1. <<>> \in Seq(Signals) /\ \A n : ~Occurs(n, <<>>)
    BY DEF Occurs
  <2>2. TypeOK
    <3>1. spent \in [{"requests", "deaths", "resets", "failures", "misreads"} -> Nat]
      BY DEF Init
    <3> QED BY <2>1, <3>1 DEF Init, TypeOK, Units, Transitions
  <2> QED BY <2>1, <2>2 DEF Init, Inv, WatchedByPhase, TargetsKnown, ClockKnown
<1>2. Inv /\ [Next]_vars => Inv'
  BY TypePreserved, WatchedPreserved, KnownPreserved DEF Inv
<1> QED BY <1>1, <1>2, PTL DEF Spec

\* Every variable keeps its type.  The code: class BMC and its properties.
THEOREM BMCTypeOK == Spec => []TypeOK
<1>1. Inv => TypeOK
  BY DEF Inv
<1> QED BY <1>1, InvHolds, PTL

\* CurrentBMCState is what the targets say once the signals are handled,
\* whatever completed before, during or after the manager's discovery, unless
\* one of its reads failed.  The code: discoverInitialState and bmcStateChange.
THEOREM BMCStateIsCurrent == Spec => []StateIsCurrent
<1>1. Inv => StateIsCurrent
  <2> SUFFICES ASSUME Inv, phase = "up", Life # "Rebooting", shutdown = "no",
                      ~misread, ~Unread("quiesce"), ~Unread("standby")
               PROVE  currentState =
                        IF unit["quiesce"] = "active" THEN "Quiesced"
                        ELSE IF unit["standby"] = "active" THEN "Ready" ELSE "NotReady"
    BY DEF StateIsCurrent
  <2>1. \A u \in Units : DoneQueued(u) => Unread(u)
    BY DEF Inv, TypeOK, DoneQueued, Occurs, Unread, JobRemoved
  <2>2. ~DoneQueued("quiesce") /\ ~DoneQueued("standby")
    BY <2>1 DEF Units
  <2>3. CASE watching
    BY <2>2, <2>3 DEF Inv, TypeOK, WatchedByPhase, TargetsKnown
  <2>4. CASE ~watching
    <3>1. currentState # "NotReady" /\ currentState # "Ready"
      BY <2>4 DEF Inv, WatchedByPhase, Life
    <3>2. currentState = "Quiesced"
      BY <3>1 DEF Inv, TypeOK
    <3>3. unit["quiesce"] = "active"
      BY <3>2 DEF Inv, TargetsKnown
    <3> QED BY <3>2, <3>3
  <2> QED BY <2>3, <2>4
<1> QED BY <1>1, InvHolds, PTL

\* LastRebootTime is computed with the synchronised clock by a manager that is
\* still subscribed.  The code: timeSyncSignal and updateLastRebootTime.
THEOREM BMCRebootTimeIsRight == Spec => []RebootTimeIsRight
<1>1. Inv => RebootTimeIsRight
  <2>1. ASSUME Inv, ~Unread("time-sync") PROVE ~Occurs(Synced, inbox)
    BY <2>1 DEF Inv, TypeOK, Occurs, Unread, Synced
  <2> QED BY <2>1 DEF Inv, TypeOK, ClockKnown, RebootTimeIsRight
<1> QED BY <1>1, InvHolds, PTL

\* The manager implements Readiness: every step of it is one of Readiness's
\* or leaves what a client sees alone.  The code: currentBMCState, and
\* stateSignal.reset wherever a state must not be left again.
THEOREM BMCKeepsPromise == Spec => KeepsPromise
<1> USE DEF Promise!LifeNext, Promise!Appear, Promise!Reach, Promise!Quiesce,
            Promise!Announce, Promise!Vanish, manager
<1>1. Init => Promise!LifeInit
  BY DEF Init, Promise!LifeInit, Life
<1>2. Inv /\ [Next]_vars => [Promise!LifeNext]_Life
  <2> SUFFICES ASSUME Inv, [Next]_vars PROVE Promise!LifeNext \/ UNCHANGED Life
    OBVIOUS
  <2> USE DEF Life
  <2>1. ASSUME UNCHANGED <<phase, manager>> PROVE UNCHANGED Life
    BY <2>1
  <2>2. CASE Systemd \/ Environment \/ QuiesceStarted
    BY <2>1, <2>2
       DEF Systemd, Completed, Stopped, StandbyFails, Environment, RebootDirectly,
           GuardReboots, FirmwareUpdate, ClockSet, TimeSynced, QuiesceStarted
  <2>3. CASE Start \/ Die \/ Rebooted \/ ResetByHardware
    BY <2>3 DEF Start, Die, Rebooted, ResetByHardware, Reset
  <2>4. CASE DiscoverQuiesced \/ DiscoverStandby
    BY <2>4 DEF DiscoverQuiesced, DiscoverStandby, Appears, BmcIsQuiesced, Inv,
                WatchedByPhase
  <2>5. CASE HandleSignal
    <3>1. \/ UNCHANGED <<currentState, watching>>
          \/ watching /\ currentState' = "Quiesced" /\ watching' = FALSE
          \/ watching /\ currentState' = "Ready" /\ UNCHANGED watching
      BY <2>5 DEF HandleSignal, BmcStateChange, BmcIsQuiesced, ToQuiesced, ToReady, Done
    <3>2. phase = "up" /\ phase' = "up"
      BY <2>5 DEF HandleSignal
    <3> QED BY <3>1, <3>2 DEF Inv, TypeOK, WatchedByPhase
  <2>6. ASSUME NEW t \in Transitions, RequestedBMCTransition(t)
        PROVE Promise!LifeNext \/ UNCHANGED Life
    <3>1. \/ UNCHANGED <<currentState, watching>>
          \/ currentState' = "NotReady" /\ watching' = FALSE
      BY <2>6 DEF RequestedBMCTransition, ExecuteTransition, AnnounceReboot
    <3>2. phase = "up" /\ phase' = "up"
      BY <2>6 DEF RequestedBMCTransition
    <3> QED BY <3>1, <3>2 DEF Inv, TypeOK
  <2>7. CASE UNCHANGED vars
    BY <2>1, <2>7 DEF vars
  <2> QED BY <2>2, <2>3, <2>4, <2>5, <2>6, <2>7 DEF Next, Manager
<1> QED BY <1>1, <1>2, InvHolds, PTL DEF Spec, KeepsPromise, Promise!LifeSpec
---------------------------------------------------------------------------
(* The manager and the target monitor on one systemd.                      *)

\* What still stands for an error to be logged for a unit: the signals about
\* it that report a failure, and a state yet to be read.
Reported(m) ==
  IF m.kind = "JobRemoved" THEN Watched(m.unit, m.result) ELSE m.result = "failed"
About(u, q) == {i \in 1..Len(q) : q[i].unit = u /\ Reported(q[i])}
Due(u) == IF u \in todo \/ unread = u THEN 1 ELSE 0

\* The set-up reads each service once.
ReadOnce ==
  /\ monPhase \in {"down", "waiting"} => todo = {} /\ unread = NoService
  /\ unread \notin todo

\* What is logged and what may still be is covered by failures and starts.
ErrorsCovered ==
  \A u \in Monitored :
    logged[u] + Cardinality(About(u, monInbox)) + Due(u)
      <= failures[u] + (IF u \in Immediate THEN monStarts ELSE 0)

\* A unit that never failed has left no trace of a failure.
NoTrace ==
  \A u \in Monitored :
    failures[u] = 0 =>
      /\ logged[u] = 0 /\ Cardinality(About(u, monInbox)) = 0
      /\ u \in Immediate => serviceState[u] = "running"

MonInv == MonTypeOK /\ ReadOnce /\ ErrorsCovered /\ NoTrace

\* How the signals about a unit change as the queue does.
LEMMA AboutChanges ==
  ASSUME NEW S, NEW q \in Seq(S), NEW u
  PROVE  /\ IsFiniteSet(About(u, q)) /\ Cardinality(About(u, q)) \in Nat
         /\ \A m \in S :
              Cardinality(About(u, Append(q, m))) =
                Cardinality(About(u, q))
                  + (IF m.unit = u /\ Reported(m) THEN 1 ELSE 0)
         /\ q # <<>> =>
              Cardinality(About(u, Tail(q)))
                + (IF Head(q).unit = u /\ Reported(Head(q)) THEN 1 ELSE 0)
              <= Cardinality(About(u, q))
<1>1. ASSUME NEW p \in Seq(S)
      PROVE IsFiniteSet(About(u, p)) /\ Cardinality(About(u, p)) \in Nat
  <2>1. Len(p) \in Nat /\ IsFiniteSet(1..Len(p))
    BY FS_Interval
  <2>2. About(u, p) \in SUBSET (1..Len(p))
    BY DEF About
  <2>3. IsFiniteSet(About(u, p))
    BY <2>1, <2>2, FS_Subset
  <2> QED BY <2>3, FS_CardinalityType
<1>2. ASSUME NEW m \in S
      PROVE Cardinality(About(u, Append(q, m))) =
              Cardinality(About(u, q))
                + (IF m.unit = u /\ Reported(m) THEN 1 ELSE 0)
  <2>1. /\ Len(Append(q, m)) = Len(q) + 1 /\ Append(q, m)[Len(q) + 1] = m
        /\ \A i \in 1..Len(q) : Append(q, m)[i] = q[i]
        /\ Len(q) \in Nat
    OBVIOUS
  <2>2. 1..(Len(q) + 1) = (1..Len(q)) \union {Len(q) + 1} /\ Len(q) + 1 \notin 1..Len(q)
    BY <2>1
  <2>3. Len(q) + 1 \notin About(u, q)
    BY <2>2 DEF About
  <2>4. CASE m.unit = u /\ Reported(m)
    <3>1. About(u, Append(q, m)) = About(u, q) \union {Len(q) + 1}
      BY <2>1, <2>2, <2>4 DEF About
    <3> QED BY <1>1, <2>3, <2>4, <3>1, FS_AddElement
  <2>5. CASE ~(m.unit = u /\ Reported(m))
    <3>1. About(u, Append(q, m)) = About(u, q)
      BY <2>1, <2>2, <2>5 DEF About
    <3> QED BY <1>1, <2>5, <3>1
  <2> QED BY <2>4, <2>5
<1>3. ASSUME q # <<>>
      PROVE Cardinality(About(u, Tail(q)))
              + (IF Head(q).unit = u /\ Reported(Head(q)) THEN 1 ELSE 0)
            <= Cardinality(About(u, q))
  <2>1. /\ Tail(q) \in Seq(S) /\ Len(Tail(q)) = Len(q) - 1 /\ Len(q) \in Nat \ {0}
        /\ \A i \in 1..Len(Tail(q)) : Tail(q)[i] = q[i + 1]
        /\ Head(q) = q[1]
    BY <1>3
  <2>2. IsFiniteSet(About(u, q) \ {1})
        /\ Cardinality(About(u, q) \ {1}) =
             IF 1 \in About(u, q) THEN Cardinality(About(u, q)) - 1
             ELSE Cardinality(About(u, q))
    BY <1>1, FS_RemoveElement
  <2> DEFINE f == [i \in About(u, Tail(q)) |-> i + 1]
  <2>3. \A i \in About(u, Tail(q)) : i \in Nat /\ i + 1 \in About(u, q) \ {1}
    BY <2>1 DEF About
  <2>4. f \in [About(u, Tail(q)) -> About(u, q) \ {1}]
    BY <2>3
  <2>5. \A i, j \in About(u, Tail(q)) : f[i] = f[j] => i = j
    BY <2>3
  <2>6. f \in Injection(About(u, Tail(q)), About(u, q) \ {1})
    BY <2>4, <2>5 DEF Injection, IsInjective
  <2>7. Cardinality(About(u, Tail(q))) <= Cardinality(About(u, q) \ {1})
    BY <2>2, <2>6, FS_Injection
  <2>8. 1 \in About(u, q) <=> Head(q).unit = u /\ Reported(Head(q))
    BY <2>1 DEF About
  <2>9. Cardinality(About(u, Tail(q))) \in Nat /\ Cardinality(About(u, q)) \in Nat
    BY <1>1, <2>1
  <2> QED BY <2>2, <2>7, <2>8, <2>9
<1> QED BY <1>1, <1>2, <1>3

\* Every step of the two together is one of the manager's, or none for it.
LEMMA SystemImplementsBMC == [SystemNext]_sysVars => [Next]_vars
<1> SUFFICES ASSUME [SystemNext]_sysVars PROVE [Next]_vars
  OBVIOUS
<1>1. CASE OfTheManager
  BY <1>1 DEF OfTheManager, Next, Systemd
<1>2. CASE StandbyFailsMonitored
  BY <1>2 DEF StandbyFailsMonitored, Next, Systemd
<1>3. CASE OfTheMonitor
  BY <1>3 DEF OfTheMonitor
<1>4. CASE QuiesceDelivered
  BY <1>4 DEF QuiesceDelivered, Next
<1>5. CASE SystemReset
  BY <1>5 DEF SystemReset, Next
<1>6. CASE UNCHANGED sysVars
  BY <1>6 DEF sysVars
<1> QED BY <1>1, <1>2, <1>3, <1>4, <1>5, <1>6 DEF SystemNext

\* With the monitor beside it, the manager is still the one that was verified
\* alone: what holds of every behaviour of BMC holds here.  The code: the two
\* processes share nothing but systemd.
THEOREM BMCSystemRefinesBMC == SystemSpec => Spec
<1>1. SystemInit => Init
  BY DEF SystemInit
<1> QED BY <1>1, SystemImplementsBMC, PTL DEF SystemSpec, Spec

\* What the monitor hears is of a known kind, and all that stands about a unit
\* afterwards is what stood before and the signal itself.
LEMMA HearFacts ==
  ASSUME MonTypeOK, NEW m \in MonSignals, MonHear(m)
  PROVE  /\ monInbox' \in Seq(MonSignals)
         /\ \A u : /\ Cardinality(About(u, monInbox)) \in Nat
                   /\ Cardinality(About(u, monInbox')) \in Nat
                   /\ Cardinality(About(u, monInbox'))
                      <= Cardinality(About(u, monInbox))
                           + (IF m.unit = u /\ Reported(m) THEN 1 ELSE 0)
<1> USE DEF MonTypeOK
<1>1. monInbox' = monInbox \/ monInbox' = Append(monInbox, m)
  BY DEF MonHear
<1>2. monInbox' \in Seq(MonSignals)
  <2>1. monInbox \in Seq(MonSignals)
    OBVIOUS
  <2>2. Append(monInbox, m) \in Seq(MonSignals)
    BY ONLY <2>1, m \in MonSignals
  <2> QED BY <1>1, <2>1, <2>2
<1>3. \A u : Cardinality(About(u, monInbox)) \in Nat
             /\ Cardinality(About(u, monInbox')) \in Nat
  BY <1>2, AboutChanges
<1>4. \A u : Cardinality(About(u, Append(monInbox, m))) =
               Cardinality(About(u, monInbox))
                 + (IF m.unit = u /\ Reported(m) THEN 1 ELSE 0)
  BY AboutChanges
<1>5. ASSUME NEW u
      PROVE  Cardinality(About(u, monInbox'))
             <= Cardinality(About(u, monInbox))
                  + (IF m.unit = u /\ Reported(m) THEN 1 ELSE 0)
  <2>1. CASE monInbox' = monInbox
    BY <1>3, <2>1
  <2>2. CASE monInbox' = Append(monInbox, m)
    BY <1>3, <1>4, <2>2
  <2> QED BY <1>1, <2>1, <2>2
<1> QED BY <1>2, <1>3, <1>5

\* The kinds of signals there are.
LEMMA SignalFacts ==
  /\ \A u \in Monitored \union {"standby"} : \A r \in Results :
       Removed(u, r) \in MonSignals
  /\ \A s \in Immediate : \A r \in {"failed", "active"} : Changed(s, r) \in MonSignals
  /\ \A u, r : Removed(u, r).unit = u /\ Removed(u, r).result = r
               /\ Changed(u, r).unit = u /\ Changed(u, r).result = r
  /\ \A u, r : Reported(Removed(u, r)) = Watched(u, r)
  /\ \A s : Reported(Changed(s, "failed")) = TRUE /\ Reported(Changed(s, "active")) = FALSE
<1>1. \A u, r : /\ Removed(u, r).kind = "JobRemoved" /\ Changed(u, r).kind # "JobRemoved"
                /\ Removed(u, r).unit = u /\ Removed(u, r).result = r
                /\ Changed(u, r).unit = u /\ Changed(u, r).result = r
  BY DEF Removed, Changed
<1>2. \A u, r : Reported(Removed(u, r)) = Watched(u, r)
  BY <1>1 DEF Reported
<1>3. \A s : Reported(Changed(s, "failed")) = TRUE /\ Reported(Changed(s, "active")) = FALSE
  BY <1>1 DEF Reported
<1>4. /\ \A u \in Monitored \union {"standby"} : \A r \in Results :
           Removed(u, r) \in MonSignals
      /\ \A s \in Immediate : \A r \in {"failed", "active"} : Changed(s, r) \in MonSignals
  BY DEF MonSignals, Removed, Changed
<1> QED BY <1>1, <1>2, <1>3, <1>4

\* Every step keeps the types of the monitor's state.
LEMMA MonTypePreserved == MonTypeOK /\ [SystemNext]_sysVars => MonTypeOK'
<1> SUFFICES ASSUME MonTypeOK, [SystemNext]_sysVars PROVE MonTypeOK'
  OBVIOUS
<1> USE DEF MonTypeOK
<1>0. "standby" \in Monitored \union {"standby"} /\ "failed" \in Results
  BY DEF Results
<1>s. \A w \in {"deaths", "misses", "failures"} : \A max :
        MonSpend(w, max) => monSpent' \in [{"deaths", "misses", "failures"} -> Nat]
  BY DEF MonSpend
<1>f. ASSUME NEW u, NEW w, Failed(u, w) PROVE failures' \in [Monitored -> Nat]
  <2>1. CASE u \in Monitored
    BY <1>f, <2>1 DEF Failed
  <2>2. CASE u \notin Monitored
    BY <1>f, <2>2 DEF Failed
  <2> QED BY <2>1, <2>2
<1>r. ASSUME NEW u, NEW q \in BOOLEAN, Report(u, q) \/ Nothing
      PROVE  logged' \in [Monitored -> Nat] /\ quiesceCall' \in BOOLEAN
  BY <1>r DEF Report, Nothing
<1>1. CASE UNCHANGED monVars
  BY <1>1 DEF monVars, setUp
<1>2. CASE StandbyFailsMonitored
  <2>1. monInbox' \in Seq(MonSignals)
    BY <1>2, <1>0, HearFacts, SignalFacts DEF StandbyFailsMonitored
  <2>2. UNCHANGED <<monPhase, onBus, todo, unread, matched, missed, monStarts,
                    quiesceCall, serviceState, logged, monSpent>>
    BY <1>2 DEF StandbyFailsMonitored, setUp
  <2>3. failures' \in [Monitored -> Nat]
    BY <1>2, <1>f DEF StandbyFailsMonitored
  <2> QED BY <2>1, <2>2, <2>3
<1>3. CASE MonStart
  BY <1>3 DEF MonStart, Subscribed, setUp
<1>4. ASSUME NEW s \in Immediate, LoadUnit(s) PROVE MonTypeOK'
  BY <1>4, <1>s DEF LoadUnit
<1>5. ASSUME NEW s \in Immediate, ServiceFails(s) PROVE MonTypeOK'
  <2>1. monInbox' \in Seq(MonSignals)
    BY <1>5, HearFacts, SignalFacts DEF ServiceFails
  <2>2. UNCHANGED <<monPhase, onBus, todo, unread, matched, missed, monStarts,
                    quiesceCall, logged>>
    BY <1>5 DEF ServiceFails, setUp
  <2>3. failures' \in [Monitored -> Nat]
        /\ monSpent' \in [{"deaths", "misses", "failures"} -> Nat]
    BY <1>5, <1>f, <1>s DEF ServiceFails
  <2>4. serviceState' \in [Immediate -> {"running", "failed"}]
    BY <1>5 DEF ServiceFails
  <2> QED BY <2>1, <2>2, <2>3, <2>4
<1>6. ASSUME NEW s \in Immediate, ServiceRestarts(s) PROVE MonTypeOK'
  <2>1. monInbox' \in Seq(MonSignals)
    BY <1>6, HearFacts, SignalFacts DEF ServiceRestarts
  <2>2. UNCHANGED <<monPhase, onBus, todo, unread, matched, missed, monStarts,
                    quiesceCall, failures, logged, monSpent>>
    BY <1>6 DEF ServiceRestarts, setUp
  <2>3. serviceState' \in [Immediate -> {"running", "failed"}]
    BY <1>6 DEF ServiceRestarts
  <2> QED BY <2>1, <2>2, <2>3
<1>7. ASSUME NEW s \in Services, NEW r \in Results, JobFails(s, r) PROVE MonTypeOK'
  <2>1. s \in Monitored \union {"standby"}
    BY DEF Monitored
  <2>2. monInbox' \in Seq(MonSignals)
    BY <1>7, <2>1, HearFacts, SignalFacts DEF JobFails
  <2>3. UNCHANGED <<monPhase, onBus, todo, unread, matched, missed, monStarts,
                    quiesceCall, serviceState, logged>>
    BY <1>7 DEF JobFails, setUp
  <2>4. failures' \in [Monitored -> Nat]
        /\ monSpent' \in [{"deaths", "misses", "failures"} -> Nat]
    BY <1>7, <1>f, <1>s DEF JobFails
  <2> QED BY <2>2, <2>3, <2>4
<1>8. CASE ReadState
  <2>1. Report(unread, TRUE) \/ Nothing
    BY <1>8 DEF ReadState, ReadActiveState
  <2>2. unread \in Immediate
    BY <1>8 DEF ReadState
  <2>3. missed' \subseteq Immediate
        /\ monSpent' \in [{"deaths", "misses", "failures"} -> Nat]
    BY <1>8, <1>s, <2>2 DEF ReadState, ReadActiveState
  <2>4. logged' \in [Monitored -> Nat] /\ quiesceCall' \in BOOLEAN
    BY <1>r, <2>1
  <2> QED BY <1>8, <2>3, <2>4 DEF ReadState
<1>9. CASE SetUp
  BY <1>9 DEF SetUp, setUp
<1>10. CASE MonHandle
  <2>1. \E u : Report(u, TRUE) \/ Report(u, FALSE) \/ Nothing
    BY <1>10 DEF MonHandle, ProcessError, ProcessStateChange
  <2>2. logged' \in [Monitored -> Nat] /\ quiesceCall' \in BOOLEAN
    BY <1>r, <2>1
  <2>3. monInbox' \in Seq(MonSignals)
    BY <1>10 DEF MonHandle
  <2>4. UNCHANGED <<monPhase, onBus, todo, unread, matched, missed, monStarts,
                    serviceState, failures, monSpent>>
    BY <1>10 DEF MonHandle, setUp
  <2> QED BY <2>2, <2>3, <2>4
<1>11. CASE MonDie
  BY <1>11, <1>s DEF MonDie, MonGone
<1>12. CASE SystemdAppears \/ ProcessNameChange
  <2>1. CASE SystemdAppears
    BY <2>1 DEF SystemdAppears, setUp
  <2>2. CASE ProcessNameChange
    BY <2>2 DEF ProcessNameChange, Subscribed
  <2> QED BY <1>12, <2>1, <2>2
<1>13. CASE QuiesceDelivered
  BY <1>13 DEF QuiesceDelivered, setUp
<1>14. CASE MonReset
  <2>1. serviceState' \in [Immediate -> {"running", "failed"}]
    BY <1>14 DEF MonReset
  <2>2. monInbox' \in Seq(MonSignals)
    BY <1>14 DEF MonReset, MonGone
  <2>3. /\ monPhase' = "down" /\ onBus' = FALSE /\ quiesceCall' = FALSE
        /\ todo' = {} /\ unread' = NoService /\ matched' = {} /\ missed' = {}
        /\ UNCHANGED <<monStarts, failures, logged, monSpent>>
    BY <1>14 DEF MonReset, MonGone
  <2> QED BY <2>1, <2>2, <2>3
<1> QED BY <1>1, <1>2, <1>3, <1>4, <1>5, <1>6, <1>7, <1>8, <1>9, <1>10, <1>11,
           <1>12, <1>13, <1>14
        DEF SystemNext, OfTheManager, OfTheMonitor, SystemReset, sysVars

\* Every step of the two keeps the accounts of the log.
LEMMA ErrorsCoveredPreserved ==
  MonInv /\ [SystemNext]_sysVars => ReadOnce' /\ ErrorsCovered'
<1> SUFFICES ASSUME MonInv, [SystemNext]_sysVars PROVE ReadOnce' /\ ErrorsCovered'
  OBVIOUS
<1> USE DEF MonInv
<1> DEFINE Count(u) == Cardinality(About(u, monInbox))
           Starts(u) == IF u \in Immediate THEN monStarts ELSE 0
<1>0. \A u \in Monitored : /\ Count(u) \in Nat /\ Due(u) \in Nat /\ u # NoService
                           /\ logged[u] \in Nat /\ failures[u] \in Nat
                           /\ Starts(u) \in Nat
                           /\ logged[u] + Count(u) + Due(u) <= failures[u] + Starts(u)
  <2>1. \A u : Count(u) \in Nat
    BY AboutChanges DEF MonTypeOK
  <2> QED BY <2>1, MonitorAssumption DEF Due, ErrorsCovered, MonTypeOK
<1>e. \A u : Cardinality(About(u, <<>>)) = 0
  BY FS_EmptySet DEF About
<1>h. ASSUME NEW u \in Monitored \union {"standby"}, NEW m \in MonSignals, m.unit = u,
             MonHear(m), Failed(u, Reported(m)),
             UNCHANGED <<todo, unread, monPhase, logged, monStarts>>
      PROVE  ReadOnce' /\ ErrorsCovered'
  <2>1. \A v : /\ Count(v)' \in Nat
               /\ Count(v)' <= Count(v) + (IF u = v /\ Reported(m) THEN 1 ELSE 0)
    BY <1>h, HearFacts
  <2>2. \A v \in Monitored : failures'[v] = failures[v] + (IF u = v /\ Reported(m) THEN 1 ELSE 0)
    <3>1. failures \in [Monitored -> Nat]
      BY DEF MonTypeOK
    <3> QED BY <1>h, <3>1 DEF Failed
  <2>3. \A v \in Monitored : logged'[v] + Count(v)' + Due(v)' <= failures'[v] + Starts(v)'
    BY <1>0, <1>h, <2>1, <2>2 DEF Due
  <2> QED BY <1>h, <2>3 DEF ErrorsCovered, ReadOnce
<1>r. ASSUME NEW u, NEW q \in BOOLEAN, Report(u, q), NEW v \in Monitored
      PROVE  logged'[v] = logged[v] + (IF u = v THEN 1 ELSE 0)
  <2>1. logged \in [Monitored -> Nat]
    BY DEF MonTypeOK
  <2> QED BY <1>r, <2>1 DEF Report
<1>s. ASSUME Subscribed, UNCHANGED <<monInbox, failures, logged>>,
             monPhase \in {"down", "waiting"}
      PROVE  ReadOnce' /\ ErrorsCovered'
  <2>1. todo = {} /\ unread = NoService
    BY <1>s DEF ReadOnce
  <2>2. monPhase' = "loading" /\ todo' = Immediate /\ monStarts' = monStarts + 1
        /\ unread' = unread
    BY <1>s DEF Subscribed
  <2>3. \A v \in Monitored : Due(v) = 0 /\ Due(v)' = IF v \in Immediate THEN 1 ELSE 0
    BY <1>0, <2>1, <2>2 DEF Due
  <2>4. \A v \in Monitored : Starts(v)' = Starts(v) + (IF v \in Immediate THEN 1 ELSE 0)
    BY <2>2 DEF MonTypeOK
  <2>5. \A v \in Monitored : logged'[v] + Count(v)' + Due(v)' <= failures'[v] + Starts(v)'
    BY <1>0, <1>s, <2>3, <2>4
  <2>6. NoService \notin Immediate
    BY MonitorAssumption DEF Monitored
  <2> QED BY <2>1, <2>2, <2>5, <2>6 DEF ErrorsCovered, ReadOnce
<1>g. ASSUME MonGone, UNCHANGED <<failures, logged, monStarts>>
      PROVE  ReadOnce' /\ ErrorsCovered'
  <2>1. monInbox' = <<>> /\ todo' = {} /\ unread' = NoService
    BY <1>g DEF MonGone
  <2>2. \A v \in Monitored : Count(v)' = 0 /\ Due(v)' = 0
    BY <1>0, <1>e, <2>1 DEF Due
  <2>3. \A v \in Monitored : logged'[v] + Count(v)' + Due(v)' <= failures'[v] + Starts(v)'
    BY <1>0, <1>g, <2>2
  <2> QED BY <2>1, <2>3 DEF ErrorsCovered, ReadOnce
<1>1. CASE UNCHANGED monVars \/ QuiesceDelivered
  BY <1>1 DEF monVars, setUp, QuiesceDelivered, ErrorsCovered, ReadOnce, Due
<1>2. CASE StandbyFailsMonitored
  <2>1. Removed("standby", "failed") \in MonSignals /\ Removed("standby", "failed").unit = "standby"
    BY SignalFacts DEF Results
  <2>2. Reported(Removed("standby", "failed")) = Watched("standby", "failed")
    BY SignalFacts
  <2> QED BY <1>2, <1>h, <2>1, <2>2 DEF StandbyFailsMonitored, setUp
<1>3. CASE MonStart
  <2>1. CASE onBus
    BY <1>3, <1>s, <2>1 DEF MonStart
  <2>2. CASE ~onBus
    BY <1>3, <2>2 DEF MonStart, setUp, ErrorsCovered, ReadOnce, Due
  <2> QED BY <2>1, <2>2
<1>4. ASSUME NEW s \in Immediate, LoadUnit(s) PROVE ReadOnce' /\ ErrorsCovered'
  <2>1. /\ unread = NoService /\ s \in todo /\ todo' = todo \ {s}
        /\ unread' = s \/ unread' = unread
        /\ UNCHANGED <<monPhase, monStarts, monInbox, failures, logged>>
        /\ monPhase = "loading"
    BY <1>4 DEF LoadUnit
  <2>2. \A v \in Monitored : Due(v)' \in Nat /\ Due(v)' <= Due(v)
    BY <1>0, <2>1 DEF Due
  <2>3. \A v \in Monitored : logged'[v] + Count(v)' + Due(v)' <= failures'[v] + Starts(v)'
    BY <1>0, <2>1, <2>2
  <2> QED BY <2>1, <2>3 DEF ErrorsCovered, ReadOnce
<1>5. ASSUME NEW s \in Immediate, ServiceFails(s) PROVE ReadOnce' /\ ErrorsCovered'
  <2>1. Changed(s, "failed") \in MonSignals /\ Changed(s, "failed").unit = s
        /\ s \in Monitored \union {"standby"} /\ Reported(Changed(s, "failed")) = TRUE
    BY SignalFacts DEF Monitored
  <2> QED BY <1>5, <1>h, <2>1 DEF ServiceFails, setUp
<1>6. ASSUME NEW s \in Immediate, ServiceRestarts(s) PROVE ReadOnce' /\ ErrorsCovered'
  <2>1. /\ Changed(s, "active") \in MonSignals /\ MonHear(Changed(s, "active"))
        /\ ~Reported(Changed(s, "active"))
    BY <1>6, SignalFacts DEF ServiceRestarts
  <2>2. \A v : Count(v)' \in Nat /\ Count(v)' <= Count(v)
    BY <2>1, HearFacts
  <2>3. UNCHANGED <<monPhase, todo, unread, monStarts, failures, logged>>
    BY <1>6 DEF ServiceRestarts, setUp
  <2>4. \A v \in Monitored : logged'[v] + Count(v)' + Due(v)' <= failures'[v] + Starts(v)'
    BY <1>0, <2>2, <2>3 DEF Due
  <2> QED BY <2>3, <2>4 DEF ErrorsCovered, ReadOnce
<1>7. ASSUME NEW s \in Services, NEW r \in Results, JobFails(s, r)
      PROVE  ReadOnce' /\ ErrorsCovered'
  <2>1. s \in Monitored \union {"standby"}
    BY DEF Monitored
  <2>2. /\ Removed(s, r) \in MonSignals /\ Removed(s, r).unit = s
        /\ Reported(Removed(s, r)) = Watched(s, r)
    BY <2>1, SignalFacts
  <2> QED BY <1>7, <1>h, <2>1, <2>2 DEF JobFails, setUp
<1>8. CASE ReadState
  <2>1. /\ unread # NoService /\ unread' = NoService
        /\ UNCHANGED <<monPhase, todo, monStarts, monInbox, failures>>
        /\ Report(unread, TRUE) \/ Nothing
    BY <1>8 DEF ReadState, ReadActiveState
  <2>2. unread \notin todo
    BY DEF ReadOnce
  <2>3. \A v \in Monitored : Due(v) = Due(v)' + (IF v = unread THEN 1 ELSE 0) /\ Due(v)' \in Nat
    BY <1>0, <2>1, <2>2 DEF Due
  <2>4. \A v \in Monitored : logged'[v] \in Nat /\ logged'[v] <= logged[v] + (IF v = unread THEN 1 ELSE 0)
    <3>1. CASE Report(unread, TRUE)
      <4>1. \A v \in Monitored : logged'[v] = logged[v] + (IF unread = v THEN 1 ELSE 0)
        BY <1>r, <3>1, TRUE \in BOOLEAN
      <4> QED BY <1>0, <4>1
    <3>2. CASE Nothing
      BY <1>0, <3>2 DEF Nothing
    <3> QED BY <2>1, <3>1, <3>2
  <2>5. \A v \in Monitored : logged'[v] + Count(v)' + Due(v)' <= failures'[v] + Starts(v)'
    BY <1>0, <2>1, <2>3, <2>4
  <2>6. NoService \notin todo
    <3>1. todo \subseteq Immediate
      BY DEF MonTypeOK
    <3> QED BY <3>1, MonitorAssumption DEF Monitored
  <2> QED BY <2>1, <2>5, <2>6 DEF ErrorsCovered, ReadOnce
<1>9. CASE SetUp
  <2>1. UNCHANGED <<todo, unread, monStarts, monInbox, failures, logged>> /\ monPhase' = "up"
    BY <1>9 DEF SetUp, setUp
  <2> QED BY <2>1 DEF ErrorsCovered, ReadOnce, Due
<1>10. CASE MonHandle
  <2> DEFINE m == Head(monInbox)
  <2>1. /\ monInbox # <<>> /\ monInbox' = Tail(monInbox)
        /\ UNCHANGED <<monPhase, todo, unread, monStarts, failures>>
        /\ IF m.kind = "JobRemoved" THEN ProcessError(m.unit, m.result)
           ELSE ProcessStateChange(m.unit, m.result)
    BY <1>10 DEF MonHandle, setUp
  <2>2. monInbox \in Seq(MonSignals)
    BY DEF MonTypeOK
  <2>3. \A v : /\ Count(v)' \in Nat
               /\ Count(v)' + (IF m.unit = v /\ Reported(m) THEN 1 ELSE 0) <= Count(v)
    <3>1. monInbox' \in Seq(MonSignals)
      BY <2>1, <2>2
    <3> QED BY <2>1, <2>2, <3>1, AboutChanges
  <2>4. Nothing \/ (Reported(m) /\ \E q \in BOOLEAN : Report(m.unit, q))
    BY <2>1 DEF ProcessError, ProcessStateChange, Reported, Watched
  <2>5. \A v \in Monitored :
          /\ logged'[v] \in Nat
          /\ logged'[v] <= logged[v] + (IF m.unit = v /\ Reported(m) THEN 1 ELSE 0)
    BY <1>0, <1>r, <2>4 DEF Nothing
  <2>6. \A v \in Monitored : logged'[v] + Count(v)' + Due(v)' <= failures'[v] + Starts(v)'
    <3>1. \A v \in Monitored : Due(v)' = Due(v) /\ Starts(v)' = Starts(v)
                               /\ failures'[v] = failures[v]
      BY <2>1 DEF Due
    <3> QED BY <1>0, <2>3, <2>5, <3>1
  <2> QED BY <2>1, <2>6 DEF ErrorsCovered, ReadOnce
<1>11. CASE MonDie \/ MonReset
  BY <1>11, <1>g DEF MonDie, MonReset
<1>12. CASE SystemdAppears
  BY <1>12 DEF SystemdAppears, setUp, ErrorsCovered, ReadOnce, Due
<1>13. CASE ProcessNameChange
  BY <1>13, <1>s DEF ProcessNameChange
<1> QED BY <1>1, <1>2, <1>3, <1>4, <1>5, <1>6, <1>7, <1>8, <1>9, <1>10, <1>11,
           <1>12, <1>13
        DEF SystemNext, OfTheManager, OfTheMonitor, SystemReset, sysVars

\* Every step leaves a unit that has not failed without a trace of a failure.
LEMMA NoTracePreserved == MonInv /\ [SystemNext]_sysVars => NoTrace'
<1> SUFFICES ASSUME MonInv, [SystemNext]_sysVars, NEW u \in Monitored, failures'[u] = 0
             PROVE  /\ logged'[u] = 0 /\ Cardinality(About(u, monInbox')) = 0
                    /\ u \in Immediate => serviceState'[u] = "running"
  BY DEF NoTrace
<1> DEFINE Goal == /\ logged'[u] = 0 /\ Cardinality(About(u, monInbox')) = 0
                   /\ u \in Immediate => serviceState'[u] = "running"
           Now == /\ failures[u] = 0 => logged[u] = 0 /\ Cardinality(About(u, monInbox)) = 0
                  /\ failures[u] = 0 /\ u \in Immediate => serviceState[u] = "running"
<1>0. /\ Now /\ failures \in [Monitored -> Nat] /\ logged \in [Monitored -> Nat]
      /\ serviceState \in [Immediate -> {"running", "failed"}]
      /\ MonTypeOK /\ monInbox \in Seq(MonSignals)
  BY DEF MonInv, NoTrace, MonTypeOK
<1>e. Cardinality(About(u, <<>>)) = 0
  BY FS_EmptySet DEF About
<1>k. ASSUME UNCHANGED <<monInbox, serviceState, failures, logged>> PROVE Goal
  BY <1>k, <1>0
<1>h. ASSUME NEW w \in Monitored \union {"standby"}, NEW m \in MonSignals, m.unit = w,
             MonHear(m), Failed(w, Reported(m)), UNCHANGED logged
      PROVE  /\ failures[u] = 0 /\ ~(w = u /\ Reported(m))
             /\ logged'[u] = 0 /\ Cardinality(About(u, monInbox')) = 0
  <2>1. failures'[u] = failures[u] + (IF w = u /\ Reported(m) THEN 1 ELSE 0)
    BY <1>0, <1>h DEF Failed
  <2>2. failures[u] = 0 /\ ~(w = u /\ Reported(m))
    BY <1>0, <2>1
  <2>3. /\ Cardinality(About(u, monInbox')) \in Nat
        /\ Cardinality(About(u, monInbox'))
             <= Cardinality(About(u, monInbox)) + (IF w = u /\ Reported(m) THEN 1 ELSE 0)
    BY <1>0, <1>h, HearFacts
  <2> QED BY <1>0, <1>h, <2>2, <2>3
<1>g. ASSUME monInbox' = <<>>, UNCHANGED <<failures, logged>>,
             serviceState' \in {serviceState, [s \in Immediate |-> "running"]}
      PROVE  Goal
  BY <1>0, <1>e, <1>g
<1>1. CASE UNCHANGED monVars \/ QuiesceDelivered \/ MonStart \/ SystemdAppears
           \/ ProcessNameChange \/ SetUp \/ \E s \in Immediate : LoadUnit(s)
  BY <1>1, <1>k DEF monVars, QuiesceDelivered, MonStart, SystemdAppears,
                    ProcessNameChange, SetUp, LoadUnit
<1>2. CASE StandbyFailsMonitored
  <2>1. /\ Removed("standby", "failed") \in MonSignals /\ Removed("standby", "failed").unit = "standby"
        /\ Reported(Removed("standby", "failed")) = Watched("standby", "failed")
    BY SignalFacts DEF Results
  <2>2. failures[u] = 0 /\ logged'[u] = 0 /\ Cardinality(About(u, monInbox')) = 0
    BY <1>2, <1>h, <2>1 DEF StandbyFailsMonitored
  <2> QED BY <1>0, <1>2, <2>2 DEF StandbyFailsMonitored
<1>3. ASSUME NEW s \in Immediate, ServiceFails(s) PROVE Goal
  <2>1. /\ Changed(s, "failed") \in MonSignals /\ Changed(s, "failed").unit = s
        /\ s \in Monitored \union {"standby"} /\ Reported(Changed(s, "failed")) = TRUE
    BY SignalFacts DEF Monitored
  <2>2. failures[u] = 0 /\ s # u /\ logged'[u] = 0 /\ Cardinality(About(u, monInbox')) = 0
    BY <1>3, <1>h, <2>1 DEF ServiceFails
  <2> QED BY <1>0, <1>3, <2>2 DEF ServiceFails
<1>4. ASSUME NEW s \in Immediate, ServiceRestarts(s) PROVE Goal
  <2>1. /\ Changed(s, "active") \in MonSignals /\ ~Reported(Changed(s, "active"))
        /\ MonHear(Changed(s, "active"))
    BY <1>4, SignalFacts DEF ServiceRestarts
  <2>2. /\ Cardinality(About(u, monInbox')) \in Nat
        /\ Cardinality(About(u, monInbox')) <= Cardinality(About(u, monInbox))
    BY <1>0, <2>1, HearFacts
  <2>3. UNCHANGED <<failures, logged>> /\ serviceState' = [serviceState EXCEPT ![s] = "running"]
    BY <1>4 DEF ServiceRestarts
  <2> QED BY <1>0, <2>2, <2>3
<1>5. ASSUME NEW s \in Services, NEW r \in Results, JobFails(s, r) PROVE Goal
  <2>1. /\ s \in Monitored \union {"standby"} /\ Removed(s, r) \in MonSignals
        /\ Removed(s, r).unit = s /\ Reported(Removed(s, r)) = Watched(s, r)
    BY SignalFacts DEF Monitored
  <2>2. failures[u] = 0 /\ logged'[u] = 0 /\ Cardinality(About(u, monInbox')) = 0
    BY <1>5, <1>h, <2>1 DEF JobFails
  <2> QED BY <1>0, <1>5, <2>2 DEF JobFails
<1>6. CASE ReadState
  <2>1. /\ UNCHANGED <<monInbox, serviceState, failures>> /\ unread \in Immediate
        /\ (serviceState[unread] = "failed" /\ Report(unread, TRUE)) \/ Nothing
    BY <1>0, <1>6 DEF ReadState, ReadActiveState, MonTypeOK
  <2>2. logged'[u] = 0
    BY <1>0, <2>1 DEF Report, Nothing
  <2> QED BY <1>0, <2>1, <2>2
<1>7. CASE MonHandle
  <2> DEFINE m == Head(monInbox)
  <2>1. /\ monInbox # <<>> /\ monInbox' = Tail(monInbox)
        /\ UNCHANGED <<serviceState, failures>>
        /\ IF m.kind = "JobRemoved" THEN ProcessError(m.unit, m.result)
           ELSE ProcessStateChange(m.unit, m.result)
    BY <1>7 DEF MonHandle
  <2>2. /\ Cardinality(About(u, monInbox)) = 0
        /\ Cardinality(About(u, monInbox')) \in Nat
        /\ Cardinality(About(u, monInbox')) + (IF m.unit = u /\ Reported(m) THEN 1 ELSE 0)
             <= Cardinality(About(u, monInbox))
    <3>1. monInbox' \in Seq(MonSignals)
      BY <1>0, <2>1
    <3> QED BY <1>0, <2>1, <3>1, AboutChanges
  <2>3. ~(m.unit = u /\ Reported(m)) /\ Cardinality(About(u, monInbox')) = 0
    BY <2>2
  <2>4. Nothing \/ (Reported(m) /\ \E q \in BOOLEAN : Report(m.unit, q))
    BY <2>1 DEF ProcessError, ProcessStateChange, Reported, Watched
  <2>5. logged'[u] = 0
    BY <1>0, <2>1, <2>3, <2>4 DEF Report, Nothing
  <2> QED BY <1>0, <2>1, <2>3, <2>5
<1>8. CASE MonDie \/ MonReset
  BY <1>8, <1>g DEF MonDie, MonReset, MonGone
<1> QED BY <1>1, <1>2, <1>3, <1>4, <1>5, <1>6, <1>7, <1>8
        DEF SystemNext, OfTheManager, OfTheMonitor, SystemReset, sysVars

\* The monitor keeps its invariant in every behaviour.
LEMMA MonInvHolds == SystemSpec => []MonInv
<1>1. SystemInit => MonInv
  <2> SUFFICES ASSUME MonInit PROVE MonInv
    BY DEF SystemInit
  <2>1. MonTypeOK
    <3>1. <<>> \in Seq(MonSignals)
      OBVIOUS
    <3>2. /\ failures = [u \in Monitored |-> 0] /\ logged = failures
          /\ monSpent = [deaths |-> 0, misses |-> 0, failures |-> 0]
      BY DEF MonInit
    <3>3. /\ failures \in [Monitored -> Nat] /\ logged \in [Monitored -> Nat]
          /\ monSpent \in [{"deaths", "misses", "failures"} -> Nat]
      BY <3>2
    <3> QED BY <3>1, <3>3 DEF MonInit, MonTypeOK
  <2>2. ReadOnce
    BY DEF MonInit, ReadOnce
  <2>3. \A u \in Monitored : Cardinality(About(u, monInbox)) = 0 /\ Due(u) = 0
    BY FS_EmptySet, MonitorAssumption DEF MonInit, About, Due
  <2>4. ErrorsCovered /\ NoTrace
    BY <2>3 DEF MonInit, ErrorsCovered, NoTrace
  <2> QED BY <2>1, <2>2, <2>4 DEF MonInv
<1>2. MonInv /\ [SystemNext]_sysVars => MonInv'
  BY MonTypePreserved, ErrorsCoveredPreserved, NoTracePreserved DEF MonInv
<1> QED BY <1>1, <1>2, PTL DEF SystemSpec

\* The monitor's variables keep their types.  The code: SystemdTargetLogging.
THEOREM MonitorTypeOK == SystemSpec => []MonTypeOK
<1>1. MonInv => MonTypeOK
  BY DEF MonInv
<1> QED BY <1>1, MonInvHolds, PTL

\* A unit that never failed in a way it is monitored for has no error logged,
\* one outside the immediate list has at most one for each such failure, and one
\* of the list at most one more for each start of the monitor.  The code:
\* processError, processImmediateQuiesceStateChange and the read of
\* initImmediateQuiesceMonitoring.
THEOREM MonitorLogsHaveFailures == SystemSpec => []LogsHaveFailures
<1>1. MonInv => LogsHaveFailures
  <2> SUFFICES ASSUME MonInv, NEW u \in Monitored
               PROVE  /\ logged[u] <= failures[u] + (IF u \in Immediate THEN monStarts ELSE 0)
                      /\ failures[u] = 0 => logged[u] = 0
    BY DEF LogsHaveFailures
  <2>1. Cardinality(About(u, monInbox)) \in Nat
    BY AboutChanges DEF MonInv, MonTypeOK
  <2>2. logged[u] \in Nat /\ failures[u] \in Nat /\ monStarts \in Nat /\ Due(u) \in Nat
    BY DEF MonInv, MonTypeOK, Due
  <2>3. logged[u] + Cardinality(About(u, monInbox)) + Due(u)
          <= failures[u] + (IF u \in Immediate THEN monStarts ELSE 0)
    BY DEF MonInv, ErrorsCovered
  <2>4. failures[u] = 0 => logged[u] = 0
    BY DEF MonInv, NoTrace
  <2> QED BY <2>1, <2>2, <2>3, <2>4
<1> QED BY <1>1, MonInvHolds, PTL
============================================================================
