---------------------------- MODULE ChassisProofs ----------------------------
(***************************************************************************)
(* The chassis state manager follows the power, its inputs and its files:  *)
(* proved for every set of power supplies, every bound on the environment  *)
(* and every kind of request, at any time.                                 *)
(***************************************************************************)
EXTENDS Chassis, TLAPS

Has(m, q) == \E i \in 1..Len(q) : q[i] = m
HasInput(q) == \E i \in 1..Len(q) : q[i].member = "PropertiesChanged"
OnlyInputs(q) == \A i \in 1..Len(q) : q[i].member = "PropertiesChanged"
\* The last message but for those of other units and inputs is that u is done.
EndsWith(u, q) ==
  \A i \in 1..Len(q) :
    q[i].member = "Set" => \E j \in i..Len(q) : q[j] = JobRemoved(u)

\* A message that is appended, whatever it is.
LEMMA AppendFacts ==
  ASSUME NEW q \in Seq(Messages), NEW e \in Messages, NEW m, NEW u
  PROVE  /\ Append(q, e) \in Seq(Messages)
         /\ Has(m, Append(q, e)) <=> Has(m, q) \/ m = e
         /\ HasInput(Append(q, e)) <=> HasInput(q) \/ e.member = "PropertiesChanged"
         /\ OnlyInputs(Append(q, e)) <=>
              OnlyInputs(q) /\ e.member = "PropertiesChanged"
         /\ e.member # "Set" /\ EndsWith(u, q) => EndsWith(u, Append(q, e))
         /\ EndsWith(u, Append(q, JobRemoved(u)))
<1> DEFINE r == Append(q, e)
<1>1. /\ r \in Seq(Messages) /\ Len(r) = Len(q) + 1 /\ r[Len(q) + 1] = e
      /\ \A i \in 1..Len(q) : r[i] = q[i]
      /\ Len(q) \in Nat
  OBVIOUS
<1>2. Has(m, r) <=> Has(m, q) \/ m = e
  BY <1>1 DEF Has
<1>3. HasInput(r) <=> HasInput(q) \/ e.member = "PropertiesChanged"
  BY <1>1 DEF HasInput
<1>4. OnlyInputs(r) <=> OnlyInputs(q) /\ e.member = "PropertiesChanged"
  BY <1>1 DEF OnlyInputs
<1>5. e.member # "Set" /\ EndsWith(u, q) => EndsWith(u, r)
  <2> SUFFICES ASSUME e.member # "Set", EndsWith(u, q),
                      NEW i \in 1..Len(r), r[i].member = "Set"
               PROVE  \E j \in i..Len(r) : r[j] = JobRemoved(u)
    BY DEF EndsWith
  <2>1. i \in 1..Len(q) /\ q[i].member = "Set"
    BY <1>1
  <2>2. PICK j \in i..Len(q) : q[j] = JobRemoved(u)
    BY <2>1 DEF EndsWith
  <2> QED BY <1>1, <2>1, <2>2
<1>6. EndsWith(u, Append(q, JobRemoved(u)))
  <2> DEFINE t == Append(q, JobRemoved(u))
  <2>1. Len(t) = Len(q) + 1 /\ t[Len(q) + 1] = JobRemoved(u)
    OBVIOUS
  <2> QED BY <1>1, <2>1 DEF EndsWith
<1> QED BY <1>1, <1>2, <1>3, <1>4, <1>5, <1>6

\* The oldest message is taken.
LEMMA TailFacts ==
  ASSUME NEW q \in Seq(Messages), q # <<>>, NEW m, NEW u
  PROVE  /\ Head(q) \in Messages /\ Tail(q) \in Seq(Messages)
         /\ Has(m, q) <=> Has(m, Tail(q)) \/ m = Head(q)
         /\ HasInput(q) <=> HasInput(Tail(q)) \/ Head(q).member = "PropertiesChanged"
         /\ OnlyInputs(q) =>
              OnlyInputs(Tail(q)) /\ Head(q).member = "PropertiesChanged"
         /\ EndsWith(u, q) => EndsWith(u, Tail(q))
         /\ EndsWith(u, q) /\ Head(q).member = "Set" => Has(JobRemoved(u), Tail(q))
<1> DEFINE t == Tail(q)
<1>1. /\ Head(q) = q[1] /\ Len(q) \in Nat \ {0} /\ Len(t) = Len(q) - 1
      /\ \A i \in 1..Len(t) : t[i] = q[i + 1]
      /\ q[1] \in Messages /\ t \in Seq(Messages)
  OBVIOUS
<1>2. \A i \in 2..Len(q) : i - 1 \in 1..Len(t) /\ q[i] = t[i - 1]
  BY <1>1
<1>3. Has(m, q) <=> Has(m, t) \/ m = Head(q)
  <2>1. ASSUME Has(m, q) PROVE Has(m, t) \/ m = Head(q)
    BY <1>1, <1>2, <2>1 DEF Has
  <2>2. ASSUME Has(m, t) PROVE Has(m, q)
    BY <1>1, <2>2 DEF Has
  <2> QED BY <1>1, <2>1, <2>2 DEF Has
<1>4. HasInput(q) <=> HasInput(t) \/ Head(q).member = "PropertiesChanged"
  <2>1. ASSUME HasInput(q) PROVE HasInput(t) \/ Head(q).member = "PropertiesChanged"
    BY <1>1, <1>2, <2>1 DEF HasInput
  <2>2. ASSUME HasInput(t) PROVE HasInput(q)
    BY <1>1, <2>2 DEF HasInput
  <2> QED BY <1>1, <2>1, <2>2 DEF HasInput
<1>5. OnlyInputs(q) => OnlyInputs(t) /\ Head(q).member = "PropertiesChanged"
  BY <1>1 DEF OnlyInputs
<1>6. EndsWith(u, q) => EndsWith(u, t)
  <2> SUFFICES ASSUME EndsWith(u, q), NEW i \in 1..Len(t), t[i].member = "Set"
               PROVE  \E j \in i..Len(t) : t[j] = JobRemoved(u)
    BY DEF EndsWith
  <2>1. PICK j \in (i + 1)..Len(q) : q[j] = JobRemoved(u)
    BY <1>1 DEF EndsWith
  <2> QED BY <1>1, <1>2, <2>1
<1>7. EndsWith(u, q) /\ Head(q).member = "Set" => Has(JobRemoved(u), t)
  <2> SUFFICES ASSUME EndsWith(u, q), q[1].member = "Set" PROVE Has(JobRemoved(u), t)
    BY <1>1
  <2>1. PICK j \in 1..Len(q) : q[j] = JobRemoved(u)
    BY <1>1 DEF EndsWith
  <2>2. j # 1
    BY <2>1 DEF JobRemoved
  <2> QED BY <1>1, <1>2, <2>1, <2>2 DEF Has
<1> QED BY <1>1, <1>3, <1>4, <1>5, <1>6, <1>7
---------------------------------------------------------------------------
(* systemd.                                                                *)

\* The two power targets exclude each other.
LEMMA TheOther == Other("poweron") = "poweroff" /\ Other("poweroff") = "poweron"
BY DEF Other, Units

\* What systemd emits reaches a process that runs.
LEMMA EmittedFacts ==
  ASSUME bus \in Seq(Messages), NEW m \in Messages
  PROVE  /\ Emitted(<<>>) = bus
         /\ Emitted(<<m>>) = IF alive THEN Append(bus, m) ELSE bus
<1>1. bus \o <<>> = bus /\ bus \o <<m>> = Append(bus, m)
  OBVIOUS
<1> QED BY <1>1 DEF Emitted

\* A message joined with an empty queue.
LEMMA EmptyTail ==
  ASSUME NEW m \in Messages
  PROVE  <<m>> \o <<>> = <<m>> /\ <<>> \o <<m>> = <<m>>
OBVIOUS

\* The signals and writes of both targets and of the inputs are messages.
LEMMA MessageTypes ==
  /\ \A u \in Units : JobRemoved(u) \in Messages /\ Write(u) \in Messages
  /\ InputSignal("ups") \in Messages /\ InputSignal("psu") \in Messages
BY DEF Messages, JobRemoved, Write, InputSignal

\* At most one of the two targets has a job or is active.
OneTarget == unit["poweron"] = "inactive" \/ unit["poweroff"] = "inactive"

\* A start job takes the place of the other target, of which the manager hears;
\* one of a target that is active is done at once.
LEMMA StartUnitFacts ==
  ASSUME TypeOK, OneTarget, NEW u \in Units, StartUnit(u)
  PROVE  /\ unit'[u] = IF unit[u] = "inactive" THEN "queued" ELSE unit[u]
         /\ unit'[Other(u)] = "inactive"
         /\ unit' \in [Units -> UnitStates]
         /\ ~alive => bus' = bus
         /\ bus' = bus \/ \E v \in Units : bus' = Append(bus, JobRemoved(v))
         /\ alive /\ unit[u] = "active" => bus' = Append(bus, JobRemoved(u))
<1>1. bus \in Seq(Messages) /\ unit \in [Units -> UnitStates]
  BY DEF TypeOK
<1>2. Other(u) \in Units /\ Other(u) # u
  BY TheOther DEF Units
<1>3. unit[u] = "inactive" \/ unit[Other(u)] = "inactive"
  BY TheOther DEF OneTarget, Units
<1>4. /\ unit'[u] = IF unit[u] = "inactive" THEN "queued" ELSE unit[u]
      /\ unit'[Other(u)] = "inactive"
      /\ unit' \in [Units -> UnitStates]
  BY <1>1, <1>2 DEF StartUnit, UnitStates
<1> DEFINE a == IF unit[Other(u)] # "inactive" THEN <<JobRemoved(Other(u))>> ELSE <<>>
           b == IF unit[u] = "active" THEN <<JobRemoved(u)>> ELSE <<>>
<1>5. bus' = Emitted(a \o b)
  BY DEF StartUnit
<1>6. CASE unit[Other(u)] # "inactive"
  <2>1. a \o b = <<JobRemoved(Other(u))>>
    <3>1. a = <<JobRemoved(Other(u))>> /\ b = <<>>
      BY <1>3, <1>6
    <3> HIDE DEF a, b
    <3> QED BY <1>2, <3>1, EmptyTail, MessageTypes
  <2> QED BY <1>1, <1>2, <1>3, <1>4, <1>5, <1>6, <2>1, EmittedFacts, MessageTypes
<1>7. CASE unit[Other(u)] = "inactive" /\ unit[u] = "active"
  <2>1. a \o b = <<JobRemoved(u)>>
    <3>1. a = <<>> /\ b = <<JobRemoved(u)>>
      BY <1>7
    <3> HIDE DEF a, b
    <3> QED BY <3>1, EmptyTail, MessageTypes
  <2> QED BY <1>1, <1>4, <1>5, <2>1, EmittedFacts, MessageTypes
<1>8. CASE unit[Other(u)] = "inactive" /\ unit[u] # "active"
  <2>1. a \o b = <<>>
    <3>1. a = <<>> /\ b = <<>>
      BY <1>8
    <3> QED BY <3>1
  <2> QED BY <1>1, <1>4, <1>5, <1>8, <2>1, EmittedFacts, MessageTypes
<1> QED BY <1>6, <1>7, <1>8
---------------------------------------------------------------------------
(* Types.                                                                  *)

\* A stamp leaves a time in memory and a file that is written or torn.
LEMMA ChangeTimeType ==
  ASSUME TypeOK, NEW s \in {"On", "Off"}, SetStateChangeTime(s)
  PROVE  /\ changeTime' \in Nat /\ stamped' \in BOOLEAN
         /\ changeFile' \in {NoFile, TornFile} \cup
              [kind : {"saved"}, value : [time : Nat, state : {"On", "Off"}]]
<1>1. Now \in Nat
  BY DEF TypeOK, Now
<1>2. Saved([time |-> Now, state |-> s]) \in
        [kind : {"saved"}, value : [time : Nat, state : {"On", "Off"}]]
  BY <1>1 DEF Saved
<1>3. CASE UNCHANGED <<changeTime, changeFile, stamped>>
  BY <1>3 DEF TypeOK
<1>4. CASE changeTime' = Now /\ stamped' = (s = PowerSays)
           /\ changeFile' = Saved([time |-> Now, state |-> s])
  BY <1>1, <1>2, <1>4
<1> QED BY <1>3, <1>4 DEF SetStateChangeTime

SpentOK ==
  spent \in [{"requests", "deaths", "resets", "losses", "failures", "unread",
              "inputs"} -> Nat]

\* A bound of the environment is used up by one.
LEMMA SpentType ==
  ASSUME TypeOK,
         NEW k \in {"requests", "deaths", "resets", "losses", "failures", "unread", "inputs"},
         spent' = [spent EXCEPT ![k] = @ + 1]
  PROVE  SpentOK'
BY DEF TypeOK, SpentOK

\* The history variables of a change of the power.
LEMMA PowerType ==
  ASSUME TypeOK, NEW p \in BOOLEAN, PowerBecomes(p)
  PROVE  pgood' \in BOOLEAN /\ changes' \in Nat
BY DEF PowerBecomes, TypeOK

\* A stamp stands or does not.
LEMMA StampType == StampStands => stamped' \in BOOLEAN
<1>1. (stamped /\ pgood' = pgood /\ changeFile' = changeFile) \in BOOLEAN
  OBVIOUS
<1> QED BY <1>1 DEF StampStands

\* A file that is cut is a torn one.
LEMMA CutType ==
  ASSUME TypeOK, WriteIsCut \/ UNCHANGED flash
  PROVE  /\ changeFile' \in {NoFile, TornFile} \cup
              [kind : {"saved"}, value : [time : Nat, state : {"On", "Off"}]]
         /\ pohFile' \in {NoFile, TornFile} \cup [kind : {"saved"}, value : Nat]
BY DEF WriteIsCut, flash, TypeOK

\* Every handler, service and start keeps the types.
LEMMA TypePreserved == ChassisAssumption /\ TypeOK /\ OneTarget /\ [Next]_vars => TypeOK'
<1> SUFFICES ASSUME ChassisAssumption, TypeOK, OneTarget, [Next]_vars PROVE TypeOK'
  OBVIOUS
<1> USE DEF Units
<1>a. \A m \in Messages : Emitted(<<m>>) \in Seq(Messages)
  <2> TAKE m \in Messages
  <2>1. bus \in Seq(Messages) /\ Append(bus, m) \in Seq(Messages)
    BY DEF TypeOK
  <2> QED BY <2>1, EmittedFacts
<1>b. \A u \in Units : StartUnit(u) => bus' \in Seq(Messages) /\ unit' \in [Units -> UnitStates]
  <2> SUFFICES ASSUME NEW u \in Units, StartUnit(u)
               PROVE  bus' \in Seq(Messages) /\ unit' \in [Units -> UnitStates]
    OBVIOUS
  <2>1. bus \in Seq(Messages) /\ \A v \in Units : Append(bus, JobRemoved(v)) \in Seq(Messages)
    BY MessageTypes DEF TypeOK
  <2> QED BY <2>1, StartUnitFacts
<1>c. <<>> \in Seq(Messages) /\ <<>> \in Seq(UserTransitions \cup {"blackout", "apr"})
  OBVIOUS
<1>d. \A j \in UserTransitions \cup {"blackout", "apr"} :
        Append(jobs, j) \in Seq(UserTransitions \cup {"blackout", "apr"})
  BY DEF TypeOK
<1>1. CASE Start
  <2>1. changeTime' \in Nat /\ stamped' \in BOOLEAN
        /\ changeFile' \in {NoFile, TornFile} \cup
              [kind : {"saved"}, value : [time : Nat, state : {"On", "Off"}]]
    <3>1. CASE SetStateChangeTime("Off")
      BY <3>1, ChangeTimeType
    <3>2. CASE changeTime' = RestoredTime /\ changeFile' = Readable(changeFile)
               /\ stamped' = stamped
      BY <3>2 DEF RestoredTime, Readable, NoFile, TornFile, TypeOK
    <3> QED BY <1>1, <3>1, <3>2 DEF Start, PgoodIsRead, PgoodIsUnread
  <2>2. poh' \in Nat /\ pohFile' \in {NoFile, TornFile} \cup [kind : {"saved"}, value : Nat]
    BY <1>1 DEF Start, RestoredPOH, Readable, NoFile, TornFile, TypeOK
  <2>3. powerState' \in PowerStates /\ requested' \in {"On", "Off", "PowerCycle"}
        /\ powerStatus' \in {"Good", "BrownOut", "UninterruptiblePowerSupply"}
    BY <1>1 DEF Start, PgoodIsRead, PgoodIsUnread, InitialState, PowerSays, StatusOf,
                PowerStates
  <2>4. jobs' \in Seq(UserTransitions \cup {"blackout", "apr"})
    <3>1. jobs' = jobs \/ jobs' = Append(jobs, "blackout")
      BY <1>1 DEF Start, PgoodIsRead, PgoodIsUnread
    <3>2. Append(jobs, "blackout") \in Seq(UserTransitions \cup {"blackout", "apr"})
      BY <1>d
    <3> QED BY <3>1, <3>2 DEF TypeOK
  <2>5. SpentOK' /\ lostPowerFile' \in BOOLEAN /\ owed' \in BOOLEAN /\ blind' \in BOOLEAN
        /\ unseen' \in BOOLEAN /\ alive' \in BOOLEAN
    BY <1>1, SpentType DEF Start, PgoodIsRead, PgoodIsUnread, TypeOK, SpentOK
  <2>6. UNCHANGED <<onFile, bus, unit, pending, pgood, inputs, changes, faked>>
    BY <1>1 DEF Start
  <2> QED BY <2>1, <2>2, <2>3, <2>4, <2>5, <2>6 DEF inputs, TypeOK, SpentOK
<1>2. CASE Handle
  <2>1. bus' \in Seq(Messages)
    BY <1>2 DEF Handle, TypeOK
  <2>2. changeTime' \in Nat /\ stamped' \in BOOLEAN
        /\ changeFile' \in {NoFile, TornFile} \cup
              [kind : {"saved"}, value : [time : Nat, state : {"On", "Off"}]]
    <3>1. \/ UNCHANGED <<changeTime, changeFile, stamped>>
          \/ SetStateChangeTime("On") \/ SetStateChangeTime("Off")
      BY <1>2 DEF Handle, SysStateChange
    <3> QED BY <3>1, ChangeTimeType DEF TypeOK
  <2>3. powerState' \in PowerStates /\ onFile' \in BOOLEAN
    BY <1>2 DEF Handle, SysStateChange, DetermineStatusOfPower, Announced, PowerStates, TypeOK
  <2>4. powerStatus' \in {"Good", "BrownOut", "UninterruptiblePowerSupply"}
        /\ jobs' \in Seq(UserTransitions \cup {"blackout", "apr"})
        /\ unseen' \in BOOLEAN
    <3>1. CASE UNCHANGED <<powerStatus, jobs, unseen>>
      BY <3>1 DEF TypeOK
    <3>2. CASE DetermineStatusOfPower
      BY <1>d, <3>2 DEF DetermineStatusOfPower, StatusOf, TypeOK
    <3> QED BY <1>2, <3>1, <3>2 DEF Handle
  <2>5. unit' \in [Units -> UnitStates]
    BY <1>2 DEF Handle, Answered, UnitStates, TypeOK
  <2>6. blind' \in BOOLEAN
    <3>1. blind' = blind \/ blind' \in BOOLEAN
      BY <1>2 DEF Handle
    <3> QED BY <3>1 DEF TypeOK
  <2>7. UNCHANGED <<alive, requested, poh, pohFile, lostPowerFile, pending, pgood,
                    inputs, changes, owed, faked, spent>>
    BY <1>2 DEF Handle
  <2> QED BY <2>1, <2>2, <2>3, <2>4, <2>5, <2>6, <2>7 DEF inputs, TypeOK
<1>3. CASE RequestedPowerTransition
  <2>1. jobs' \in Seq(UserTransitions \cup {"blackout", "apr"})
        /\ requested' \in {"On", "Off", "PowerCycle"}
    BY <1>3, <1>d DEF RequestedPowerTransition, ChassisAssumption
  <2>2. SpentOK'
    BY <1>3, SpentType DEF RequestedPowerTransition
  <2>3. UNCHANGED <<alive, powerState, powerStatus, changeTime, poh, flash, onFile,
                    lostPowerFile, bus, unit, pending, pgood, inputs, history>>
    BY <1>3 DEF RequestedPowerTransition
  <2> QED BY <2>1, <2>2, <2>3 DEF TypeOK, SpentOK, flash, inputs, history
<1>4. CASE POHCallback
  <2>1. Saved(poh + 1) \in [kind : {"saved"}, value : Nat] /\ poh + 1 \in Nat
    BY DEF TypeOK, Saved
  <2> QED BY <1>4, <2>1 DEF POHCallback, SerializePOH, TypeOK, inputs, history
<1>5. CASE Dies
  <2>1. changeFile' \in {NoFile, TornFile} \cup
              [kind : {"saved"}, value : [time : Nat, state : {"On", "Off"}]]
        /\ pohFile' \in {NoFile, TornFile} \cup [kind : {"saved"}, value : Nat]
    BY <1>5 DEF Dies, flash, TypeOK
  <2>2. unit' \in [Units -> UnitStates] /\ bus' \in Seq(Messages)
    BY <1>5, <1>c DEF Dies, Unanswered, UnitStates, TypeOK
  <2>3. SpentOK'
    BY <1>5, SpentType DEF Dies
  <2>4. alive' = FALSE /\ UNCHANGED <<manager, onFile, lostPowerFile, jobs, pending, pgood,
                                      inputs, history>>
    BY <1>5 DEF Dies
  <2> QED BY <2>1, <2>2, <2>3, <2>4 DEF TypeOK, SpentOK, manager, inputs, history
<1>6. CASE SystemdTakes
  <2>1. jobs' \in Seq(UserTransitions \cup {"blackout", "apr"})
    BY <1>6 DEF SystemdTakes, TypeOK
  <2>2. pending' \subseteq {"reset", "cycle"}
    BY <1>6 DEF SystemdTakes, TypeOK
  <2>3. bus' \in Seq(Messages) /\ unit' \in [Units -> UnitStates]
    <3>1. CASE \E u \in Units : StartUnit(u)
      BY <3>1, <1>b
    <3>2. CASE /\ unit' = [unit EXCEPT !["poweron"] = "inactive"]
               /\ bus' = Emitted(IF unit["poweron"] # "inactive"
                                 THEN <<JobRemoved("poweron")>> ELSE <<>>)
      <4>1. bus \in Seq(Messages) /\ JobRemoved("poweron") \in Messages
        BY MessageTypes DEF TypeOK
      <4> QED BY <3>2, <4>1, <1>a, EmittedFacts DEF TypeOK, UnitStates
    <3>3. CASE UNCHANGED <<unit, bus>>
      BY <3>3 DEF TypeOK
    <3> QED BY <1>6, <3>1, <3>2, <3>3 DEF SystemdTakes
  <2> QED BY <1>6, <2>1, <2>2, <2>3 DEF SystemdTakes, TypeOK, manager, flash, inputs, history
<1>7. CASE CyclesOn
  BY <1>7, <1>b DEF CyclesOn, TypeOK, manager, flash, inputs, history
<1>8. CASE ResetChassisRunning
  BY <1>8, <1>b DEF ResetChassisRunning, TypeOK, manager, flash, inputs, history
<1>9. CASE PowerOnFails
  <2>1. bus' \in Seq(Messages) /\ unit' \in [Units -> UnitStates]
    BY <1>9, <1>a, MessageTypes DEF PowerOnFails, UnitStates
  <2>2. SpentOK'
    BY <1>9, SpentType DEF PowerOnFails
  <2>3. UNCHANGED <<alive, manager, flash, onFile, lostPowerFile, jobs, pgood, inputs,
                    history>> /\ pending' \subseteq pending
    BY <1>9 DEF PowerOnFails
  <2> QED BY <2>1, <2>2, <2>3 DEF TypeOK, SpentOK, manager, flash, inputs, history
<1>10. ASSUME NEW u \in Units, AnnounceTransition(u) PROVE TypeOK'
  <2>1. Append(bus, Write(u)) \in Seq(Messages)
    BY MessageTypes DEF TypeOK
  <2>2. bus' \in Seq(Messages) /\ unit' \in [Units -> UnitStates]
    BY <1>10, <2>1 DEF AnnounceTransition, UnitStates, TypeOK
  <2> QED BY <1>10, <2>2
          DEF AnnounceTransition, TypeOK, manager, flash, inputs, history
<1>11. ASSUME NEW u \in Units, SwitchesPower(u) PROVE TypeOK'
  <2>1. unit' \in [Units -> UnitStates]
    BY <1>11 DEF SwitchesPower, UnitStates, TypeOK
  <2>2. pgood' \in BOOLEAN /\ changes' \in Nat /\ faked' \in BOOLEAN
    <3>1. CASE faked' = ~pgood /\ UNCHANGED <<pgood, changes>>
      BY <3>1 DEF TypeOK
    <3>2. CASE faked' = FALSE /\ PowerBecomes(u = "poweron")
      <4>1. (u = "poweron") \in BOOLEAN
        OBVIOUS
      <4> QED BY <3>2, <4>1, PowerType
    <3> QED BY <1>11, <3>1, <3>2 DEF SwitchesPower
  <2>3. stamped' \in BOOLEAN
    BY <1>11, StampType DEF SwitchesPower
  <2> QED BY <1>11, <2>1, <2>2, <2>3 DEF SwitchesPower, TypeOK, manager, flash, inputs
<1>12. ASSUME NEW u \in Units, Reached(u) PROVE TypeOK'
  BY <1>12, <1>a, MessageTypes
     DEF Reached, TypeOK, UnitStates, manager, flash, inputs, history
<1>13. CASE InputChanges
  <2>1. bus' \in Seq(Messages) /\ unseen' \in BOOLEAN
    <3>1. \/ \E i \in {"ups", "psu"} : bus' = Emitted(<<InputSignal(i)>>) /\ unseen' = unseen
          \/ bus' = bus /\ unseen' = TRUE
      BY <1>13 DEF InputChanges, Watched, NotWatched
    <3> QED BY <1>a, <3>1, MessageTypes DEF TypeOK
  <2>2. ups' \in {"none", "charged", "low"} /\ faulty' \subseteq PSUs \cup OtherPSUs
    BY <1>13 DEF InputChanges, TypeOK
  <2>3. SpentOK'
    BY <1>13, SpentType DEF InputChanges
  <2>4. UNCHANGED <<alive, manager, flash, onFile, lostPowerFile, jobs, unit, pending,
                    pgood, changes, stamped, owed, blind, faked>>
    BY <1>13 DEF InputChanges
  <2> QED BY <2>1, <2>2, <2>3, <2>4 DEF TypeOK, SpentOK, manager, flash
<1>14. CASE BMCResets \/ ACIsLost
  <2>1. BMCGoesDown
    BY <1>14 DEF BMCResets, ACIsLost
  <2>2. bus' \in Seq(Messages) /\ unit' \in [Units -> UnitStates]
        /\ jobs' \in Seq(UserTransitions \cup {"blackout", "apr"})
    BY <1>c, <2>1 DEF BMCGoesDown, UnitStates
  <2>3. pgood' \in BOOLEAN /\ changes' \in Nat /\ stamped' \in BOOLEAN /\ owed' \in BOOLEAN
    <3>1. stamped' \in BOOLEAN
      BY <1>14, StampType DEF BMCResets, ACIsLost
    <3>2. CASE BMCResets
      BY <3>1, <3>2 DEF BMCResets, TypeOK
    <3>3. CASE ACIsLost
      <4>1. (owed \/ (Settled /\ powerState = "On" /\ spent.deaths = 0)) \in BOOLEAN
        OBVIOUS
      <4>2. owed' \in BOOLEAN
        BY <3>3, <4>1 DEF ACIsLost
      <4> QED BY <3>1, <3>3, <4>2, PowerType DEF ACIsLost
    <3> QED BY <1>14, <3>2, <3>3
  <2>4. SpentOK'
    BY <1>14, SpentType DEF BMCResets, ACIsLost
  <2>5. /\ changeFile' \in {NoFile, TornFile} \cup
              [kind : {"saved"}, value : [time : Nat, state : {"On", "Off"}]]
        /\ pohFile' \in {NoFile, TornFile} \cup [kind : {"saved"}, value : Nat]
    BY <2>1, CutType DEF BMCGoesDown
  <2>6. /\ alive' = FALSE /\ onFile' = FALSE /\ lostPowerFile' = FALSE /\ faked' = FALSE
        /\ pending' = {"reset"} /\ UNCHANGED <<manager, inputs, blind, unseen>>
    BY <2>1 DEF BMCGoesDown
  <2> QED BY <2>2, <2>3, <2>4, <2>5, <2>6 DEF TypeOK, SpentOK, manager, inputs
<1>15. CASE UNCHANGED vars
  BY <1>15 DEF vars, TypeOK, manager, flash, inputs, history
<1> QED BY <1>1, <1>2, <1>3, <1>4, <1>5, <1>6, <1>7, <1>8, <1>9, <1>10, <1>11, <1>12,
           <1>13, <1>14, <1>15 DEF Next, Systemd

\* No step has both power targets queued or active.
LEMMA OneTargetPreserved == TypeOK /\ OneTarget /\ [Next]_vars => OneTarget'
<1> SUFFICES ASSUME TypeOK, OneTarget, [Next]_vars PROVE OneTarget'
  OBVIOUS
<1> USE DEF OneTarget, Units
<1>1. ASSUME NEW u \in Units, StartUnit(u) PROVE OneTarget'
  BY <1>1, StartUnitFacts, TheOther
<1>2. CASE Handle
  BY <1>2 DEF Handle, Answered, TypeOK
<1>3. CASE Dies
  BY <1>3 DEF Dies, Unanswered
<1>4. CASE SystemdTakes
  BY <1>1, <1>4 DEF SystemdTakes, TypeOK
<1>5. CASE CyclesOn \/ ResetChassisRunning
  BY <1>1, <1>5 DEF CyclesOn, ResetChassisRunning
<1>6. CASE PowerOnFails
  BY <1>6 DEF PowerOnFails
<1>7. ASSUME NEW u \in Units, AnnounceTransition(u) \/ SwitchesPower(u) \/ Reached(u)
      PROVE OneTarget'
  BY <1>7 DEF AnnounceTransition, SwitchesPower, Reached, TypeOK
<1>8. CASE Start \/ RequestedPowerTransition \/ POHCallback \/ InputChanges \/ UNCHANGED vars
  BY <1>8 DEF Start, RequestedPowerTransition, POHCallback, InputChanges, vars
<1>9. CASE BMCResets \/ ACIsLost
  BY <1>9 DEF BMCResets, ACIsLost, BMCGoesDown
<1> QED BY <1>2, <1>3, <1>4, <1>5, <1>6, <1>7, <1>8, <1>9 DEF Next, Systemd

\* At first neither target has a job.
LEMMA InitBasics == Init => TypeOK /\ OneTarget
<1>1. <<>> \in Seq(Messages) /\ <<>> \in Seq(UserTransitions \cup {"blackout", "apr"})
  OBVIOUS
<1> SUFFICES ASSUME Init PROVE TypeOK /\ OneTarget
  OBVIOUS
<1>2. spent \in [{"requests", "deaths", "resets", "losses", "failures", "unread",
                 "inputs"} -> Nat]
  BY DEF Init
<1>3. unit \in [Units -> UnitStates] /\ OneTarget
  BY DEF Init, OneTarget, Units, UnitStates
<1> QED BY <1>1, <1>2, <1>3 DEF Init, TypeOK, PowerStates

\* Every variable of the chassis manager and its surroundings keeps its type
\* under every handler, every target and every failure.
THEOREM ChassisTypeOK == Spec => []TypeOK
<1>1. Init => TypeOK /\ OneTarget
  BY InitBasics
<1>2. TypeOK /\ OneTarget /\ [Next]_vars => TypeOK' /\ OneTarget'
  BY TypePreserved, OneTargetPreserved, ChassisAssumption
<1> QED BY <1>1, <1>2, PTL DEF Spec
---------------------------------------------------------------------------
(* What D-Bus shows stands on flash.                                       *)

\* Setting the change time, for whatever state, leaves D-Bus and flash equal.
LEMMA ChangeTimeStands ==
  ASSUME NEW s, changeTime = RestoredTime, SetStateChangeTime(s)
  PROVE  changeTime' = RestoredTime'
<1>1. CASE Knows(s)
  BY <1>1 DEF SetStateChangeTime, RestoredTime
<1>2. CASE ~Knows(s)
  BY <1>2 DEF SetStateChangeTime, RestoredTime, Saved
<1>3. QED BY <1>1, <1>2

\* A start takes over what flash holds, a torn file counting as none; after a
\* loss of power it sets a new change time whatever the file said.
LEMMA StartStands ==
  ASSUME Start
  PROVE  FilesStand'
<1>1. poh' = RestoredPOH'
  BY DEF Start, RestoredPOH, Readable, TornFile, NoFile
<1>2. changeTime' = RestoredTime'
  <2>1. CASE PowerWasLost /\ SetStateChangeTime("Off")
    <3>1. ~Knows("Off")
      BY <2>1 DEF PowerWasLost, Knows
    <3>2. QED BY <2>1, <3>1 DEF SetStateChangeTime, RestoredTime, Saved
  <2>2. CASE changeTime' = RestoredTime /\ changeFile' = Readable(changeFile)
    BY <2>2 DEF RestoredTime, Readable, TornFile, NoFile
  <2>3. QED BY <2>1, <2>2 DEF Start, PgoodIsRead, PgoodIsUnread
<1>3. QED BY <1>1, <1>2 DEF FilesStand

\* While the process runs, LastStateChangeTime and POHCounter are what a
\* restart would read back from their files, however it died before and
\* whichever file a death has torn.
THEOREM ChassisFilesStand == Spec => []FilesStand
<1>1. Init => FilesStand
  BY DEF Init, FilesStand
<1>2. FilesStand /\ [Next]_vars => FilesStand'
  <2> SUFFICES ASSUME FilesStand, [Next]_vars PROVE FilesStand'
    OBVIOUS
  <2>1. CASE Start
    BY <2>1, StartStands
  <2>2. CASE Handle
    <3>1. changeTime = RestoredTime /\ poh = RestoredPOH
      BY <2>2 DEF Handle, FilesStand
    <3>2. poh' = RestoredPOH'
      BY <2>2, <3>1 DEF Handle, RestoredPOH
    <3>3. \/ \E s : SetStateChangeTime(s)
          \/ UNCHANGED <<changeTime, changeFile>>
      BY <2>2 DEF Handle, SysStateChange
    <3>4. changeTime' = RestoredTime'
      BY <3>1, <3>3, ChangeTimeStands DEF RestoredTime
    <3>5. QED BY <3>2, <3>4 DEF FilesStand
  <2>3. CASE POHCallback
    <3>1. poh' = RestoredPOH'
      BY <2>3 DEF POHCallback, SerializePOH, Saved, RestoredPOH
    <3>2. changeTime' = RestoredTime'
      BY <2>3 DEF POHCallback, FilesStand, RestoredTime
    <3>3. QED BY <3>1, <3>2 DEF FilesStand
  <2>4. CASE Dies \/ BMCResets \/ ACIsLost
    BY <2>4 DEF Dies, BMCResets, ACIsLost, BMCGoesDown, FilesStand
  <2>5. CASE RequestedPowerTransition \/ InputChanges \/ UNCHANGED vars
    BY <2>5 DEF RequestedPowerTransition, InputChanges, vars, manager, flash,
                FilesStand, RestoredTime, RestoredPOH
  <2>6. CASE Systemd
    <3>1. UNCHANGED <<alive, manager, flash>>
      BY <2>6 DEF Systemd, SystemdTakes, CyclesOn, ResetChassisRunning,
                  PowerOnFails, AnnounceTransition, SwitchesPower, Reached
    <3>2. QED BY <3>1 DEF manager, flash, FilesStand, RestoredTime, RestoredPOH
  <2>7. QED BY <2>1, <2>2, <2>3, <2>4, <2>5, <2>6 DEF Next
<1>3. QED BY <1>1, <1>2, PTL DEF Spec
---------------------------------------------------------------------------
(* The power inputs.                                                       *)

\* A process that is down has no inbox.
Unheard == ~alive => bus = <<>>

\* A status that is not that of the inputs has its signal on the way, unless
\* the change had none.
StatusKnown == alive => unseen \/ powerStatus = StatusOf(ups, faulty) \/ HasInput(bus)

\* A message that systemd emits is heard by a process that runs.
LEMMA Heard ==
  ASSUME TypeOK, NEW m \in Messages, bus' = Emitted(<<m>>)
  PROVE  bus' = IF alive THEN Append(bus, m) ELSE bus
BY EmittedFacts DEF TypeOK

\* What systemd does only adds to the inbox of a process that runs, and leaves
\* to the manager what is the manager's.
LEMMA SystemdTells ==
  ASSUME TypeOK, OneTarget, Systemd
  PROVE  /\ UNCHANGED <<alive, manager, flash, inputs, owed, blind, unseen, lostPowerFile>>
         /\ spent'.deaths = spent.deaths
         /\ ~alive => bus' = bus
         /\ bus' = bus \/ \E m \in Messages : bus' = Append(bus, m)
<1>1. UNCHANGED <<alive, manager, flash, inputs, owed, blind, unseen, lostPowerFile>>
  BY DEF Systemd, SystemdTakes, CyclesOn, ResetChassisRunning, AnnounceTransition,
         SwitchesPower, Reached, PowerOnFails, history
<1>2. spent'.deaths = spent.deaths
  BY DEF Systemd, SystemdTakes, CyclesOn, ResetChassisRunning, AnnounceTransition,
         SwitchesPower, Reached, PowerOnFails, TypeOK
<1> DEFINE Tells == /\ ~alive => bus' = bus
                    /\ bus' = bus \/ \E m \in Messages : bus' = Append(bus, m)
<1>3. ASSUME NEW u \in Units, StartUnit(u) PROVE Tells
  <2>1. /\ ~alive => bus' = bus
        /\ bus' = bus \/ \E v \in Units : bus' = Append(bus, JobRemoved(v))
    BY <1>3, StartUnitFacts
  <2> QED BY <2>1, MessageTypes
<1>4. ASSUME NEW m \in Messages, bus' = Emitted(<<m>>) PROVE Tells
  BY <1>4, Heard
<1>a. bus' = bus => Tells
  OBVIOUS
<1>b. ASSUME NEW m \in Messages, alive, bus' = Append(bus, m) PROVE Tells
  BY <1>b
<1> HIDE DEF Tells
<1>5. ASSUME SystemdTakes PROVE Tells
  <2>1. CASE bus' = Emitted(IF unit["poweron"] # "inactive"
                            THEN <<JobRemoved("poweron")>> ELSE <<>>)
    <3>1. JobRemoved("poweron") \in Messages
      BY MessageTypes DEF Units
    <3>2. bus' = bus \/ bus' = Emitted(<<JobRemoved("poweron")>>)
      BY <2>1, <3>1, EmittedFacts DEF TypeOK
    <3> QED BY <1>a, <1>4, <3>1, <3>2
  <2>2. (\E u \in Units : StartUnit(u)) \/ bus' = bus
        \/ bus' = Emitted(IF unit["poweron"] # "inactive"
                          THEN <<JobRemoved("poweron")>> ELSE <<>>)
    BY <1>5 DEF SystemdTakes, Units
  <2> QED BY <1>a, <1>3, <2>1, <2>2
<1>6. ASSUME CyclesOn \/ ResetChassisRunning PROVE Tells
  <2>1. StartUnit("poweron") \/ bus' = bus
    BY <1>6 DEF CyclesOn, ResetChassisRunning
  <2> QED BY <1>a, <1>3, <2>1 DEF Units
<1>7. ASSUME NEW u \in Units, AnnounceTransition(u) PROVE Tells
  BY <1>7, <1>a, <1>b, MessageTypes DEF AnnounceTransition
<1>8. ASSUME NEW u \in Units, SwitchesPower(u) \/ Reached(u) PROVE Tells
  BY <1>4, <1>8, <1>a, MessageTypes DEF SwitchesPower, Reached
<1>9. ASSUME PowerOnFails PROVE Tells
  BY <1>4, <1>9, MessageTypes DEF PowerOnFails, Units
<1>10. Tells
  BY <1>5, <1>6, <1>7, <1>8, <1>9 DEF Systemd
<1> QED BY <1>1, <1>2, <1>10 DEF Tells

\* So what is on its way stays on its way.
LEMMA StaysHeard ==
  ASSUME TypeOK, bus' = bus \/ \E m \in Messages : bus' = Append(bus, m), NEW n
  PROVE  /\ Has(n, bus) => Has(n, bus')
         /\ HasInput(bus) => HasInput(bus')
<1>1. ASSUME NEW m \in Messages, bus' = Append(bus, m)
      PROVE (Has(n, bus) => Has(n, bus')) /\ (HasInput(bus) => HasInput(bus'))
  <2>1. bus \in Seq(Messages)
    BY DEF TypeOK
  <2>2. /\ Has(n, Append(bus, m)) <=> Has(n, bus) \/ n = m
        /\ HasInput(Append(bus, m)) <=> HasInput(bus) \/ m.member = "PropertiesChanged"
    BY <2>1, AppendFacts
  <2> QED BY <1>1, <2>2
<1> QED BY <1>1

\* A change of an input adds at most the signal of an input.
LEMMA InputTells ==
  ASSUME TypeOK, InputChanges
  PROVE  \/ bus' = bus
         \/ \E m \in Messages : m.member = "PropertiesChanged" /\ bus' = Append(bus, m)
<1>1. ASSUME NEW i \in {"ups", "psu"}, Watched(i)
      PROVE  bus' = bus \/ \E m \in Messages :
                             m.member = "PropertiesChanged" /\ bus' = Append(bus, m)
  <2>1. InputSignal(i) \in Messages /\ InputSignal(i).member = "PropertiesChanged"
    BY MessageTypes DEF InputSignal
  <2> QED BY <1>1, <2>1, Heard DEF Watched
<1> QED BY <1>1 DEF InputChanges, NotWatched

\* A process that is down has no inbox, and the inputs whose status is not
\* the one shown have a signal on the way.
LEMMA StatusPreserved ==
  TypeOK /\ OneTarget /\ Unheard /\ StatusKnown /\ [Next]_vars => Unheard' /\ StatusKnown'
<1> SUFFICES ASSUME TypeOK, OneTarget, Unheard, StatusKnown, [Next]_vars
             PROVE  Unheard' /\ StatusKnown'
  OBVIOUS
<1> USE DEF Unheard, StatusKnown
<1>1. CASE Start
  BY <1>1 DEF Start, inputs
<1>2. CASE Handle
  <2>1. bus \in Seq(Messages) /\ bus # <<>>
    BY <1>2 DEF Handle, TypeOK
  <2>2. CASE Head(bus).member = "PropertiesChanged"
    BY <1>2, <2>2 DEF Handle, DetermineStatusOfPower, inputs
  <2>3. CASE Head(bus).member # "PropertiesChanged"
    <3>1. UNCHANGED <<alive, powerStatus, inputs, unseen>> /\ bus' = Tail(bus) /\ alive
      BY <1>2, <2>3 DEF Handle
    <3>2. HasInput(bus) => HasInput(bus')
      BY <2>1, <2>3, <3>1, TailFacts
    <3> QED BY <3>1, <3>2 DEF inputs
  <2> QED BY <2>2, <2>3
<1>3. CASE Systemd
  BY <1>3, SystemdTells, StaysHeard DEF manager, inputs
<1>4. CASE InputChanges
  <2>1. alive' = alive
    BY <1>4 DEF InputChanges
  <2>2. CASE NotWatched
    BY <2>1, <2>2 DEF NotWatched
  <2>3. ASSUME NEW i \in {"ups", "psu"}, Watched(i) PROVE Unheard' /\ StatusKnown'
    <3>1. InputSignal(i) \in Messages /\ InputSignal(i).member = "PropertiesChanged"
      BY MessageTypes DEF InputSignal
    <3>2. bus' = IF alive THEN Append(bus, InputSignal(i)) ELSE bus
      BY <2>3, <3>1, Heard DEF Watched
    <3>3. alive => HasInput(bus')
      BY <3>1, <3>2, AppendFacts DEF TypeOK
    <3> QED BY <2>1, <3>2, <3>3
  <2> QED BY <1>4, <2>2, <2>3 DEF InputChanges
<1>5. CASE Dies \/ BMCResets \/ ACIsLost
  BY <1>5 DEF Dies, BMCResets, ACIsLost, BMCGoesDown
<1>6. CASE RequestedPowerTransition \/ POHCallback \/ UNCHANGED vars
  BY <1>6 DEF RequestedPowerTransition, POHCallback, vars, manager, inputs, history
<1> QED BY <1>1, <1>2, <1>3, <1>4, <1>5, <1>6 DEF Next

Basics == TypeOK /\ OneTarget /\ Unheard /\ StatusKnown

\* The types and the parts about targets and status hold throughout.
LEMMA BasicsInvariant == Spec => []Basics
<1>1. Init => Basics
  BY InitBasics DEF Init, Basics, Unheard, StatusKnown
<1>2. Basics /\ [Next]_vars => Basics'
  BY TypePreserved, OneTargetPreserved, StatusPreserved, ChassisAssumption DEF Basics
<1> QED BY <1>1, <1>2, PTL DEF Spec

\* CurrentPowerStatus is that of the UPS and the power supplies whenever no
\* signal of theirs is waiting and none changed unwatched, whatever restarts
\* were in between.
THEOREM ChassisStatusIsCurrent == Spec => []StatusIsCurrent
<1>1. Basics => StatusIsCurrent
  <2> SUFFICES ASSUME Basics, alive, ~unseen,
                      \A i \in DOMAIN bus : bus[i].member # "PropertiesChanged"
               PROVE  /\ (powerStatus = "UninterruptiblePowerSupply") = (ups = "low")
                      /\ (powerStatus = "Good") = (ups # "low" /\ faulty = {})
    BY DEF StatusIsCurrent
  <2>1. ~HasInput(bus)
    BY DEF HasInput, Basics, TypeOK
  <2>2. powerStatus = StatusOf(ups, faulty)
    BY <2>1 DEF Basics, StatusKnown
  <2> QED BY <2>2 DEF StatusOf
<1> QED BY <1>1, BasicsInvariant, PTL
---------------------------------------------------------------------------
(* Losses of power.                                                        *)

Idle == unit["poweron"] = "inactive" /\ unit["poweroff"] = "inactive"
SavedOn == Knows("On")

\* A process that has not died yet: between a BMC reset and the first start
\* the targets do nothing, but for a poweron target that is faked; while no
\* target has a job D-Bus follows the power, once pgood was read; the target for
\* a loss of power is ordered before anything else, and stops nothing.
DownIsQuiet ==
  ~alive => /\ jobs = <<>> /\ "cycle" \notin pending
            /\ unit["poweroff"] = "inactive"
            /\ unit["poweron"] = "inactive" \/ (unit["poweron"] = "queued" /\ pgood)
IdleFollows ==
  Idle => /\ pgood => "reset" \in pending
          /\ alive => (blind \/ powerState = PowerSays) /\ OnlyInputs(bus)
BlackoutIsFirst ==
  \A i \in 1..Len(jobs) : jobs[i] = "blackout" => i = 1 /\ alive /\ Idle /\ ~pgood
Undied ==
  spent.deaths = 0 =>
    (alive => changeFile.kind # "torn") /\ DownIsQuiet /\ IdleFollows /\ BlackoutIsFirst

\* CurrentPowerState is On: the file says so, or something is under way that
\* will end in a signal that changes one of the two.
Coming ==
  /\ unit["poweroff"] \notin {"starting", "switched", "active"}
  /\ unit["poweroff"] = "announcing" => Has(Write("poweroff"), bus)
  /\ \/ "reset" \in pending /\ pgood
     \/ unit["poweron"] \in {"queued", "announcing", "starting", "switched"}
     \/ unit["poweron"] = "active" /\ Has(JobRemoved("poweron"), bus)
     \/ unit["poweroff"] \in {"queued", "announcing"}
OnIsSaved == alive /\ spent.deaths = 0 /\ powerState = "On" => SavedOn \/ Coming

\* A loss that has to be reported waits for the process to start.
OwedStands ==
  owed => ~alive /\ ~pgood /\ SavedOn /\ Idle /\ jobs = <<>> /\ "cycle" \notin pending

\* A death stays one.
LEMMA DeathsStay ==
  TypeOK /\ [Next]_vars => spent'.deaths = spent.deaths \/ (Dies /\ spent'.deaths # 0)
<1> SUFFICES ASSUME TypeOK, [Next]_vars
             PROVE  spent'.deaths = spent.deaths \/ (Dies /\ spent'.deaths # 0)
  OBVIOUS
<1>1. CASE Dies
  <2>1. spent'.deaths = spent.deaths + 1 /\ spent.deaths \in Nat
    BY <1>1 DEF Dies, TypeOK
  <2> QED BY <1>1, <2>1
<1>2. CASE Systemd
  BY <1>2 DEF Systemd, SystemdTakes, CyclesOn, ResetChassisRunning, AnnounceTransition,
         SwitchesPower, Reached, PowerOnFails, TypeOK
<1>3. CASE Start \/ Handle \/ RequestedPowerTransition \/ POHCallback
  BY <1>3 DEF Start, PgoodIsRead, PgoodIsUnread, Handle, RequestedPowerTransition, POHCallback, TypeOK
<1>4. CASE InputChanges \/ BMCResets \/ ACIsLost \/ UNCHANGED vars
  BY <1>4 DEF InputChanges, BMCResets, ACIsLost, vars, TypeOK
<1> QED BY <1>1, <1>2, <1>3, <1>4 DEF Next

\* What a start job does to the two targets.
LEMMA StartOn ==
  ASSUME TypeOK, OneTarget, StartUnit("poweron")
  PROVE  /\ unit'["poweron"] = IF unit["poweron"] = "inactive" THEN "queued"
                               ELSE unit["poweron"]
         /\ unit'["poweroff"] = "inactive"
         /\ alive /\ unit["poweron"] = "active" => Has(JobRemoved("poweron"), bus')
<1>1. bus \in Seq(Messages) /\ JobRemoved("poweron") \in Messages
  BY MessageTypes DEF TypeOK, Units
<1>2. Has(JobRemoved("poweron"), Append(bus, JobRemoved("poweron")))
  BY <1>1, AppendFacts
<1> QED BY <1>2, StartUnitFacts, TheOther DEF Units

\* A start job of the poweroff target.
LEMMA StartOff ==
  ASSUME TypeOK, OneTarget, StartUnit("poweroff")
  PROVE  /\ unit'["poweroff"] = IF unit["poweroff"] = "inactive" THEN "queued"
                                ELSE unit["poweroff"]
         /\ unit'["poweron"] = "inactive"
BY StartUnitFacts, TheOther DEF Units

\* The order for a loss of power stays the first, or is taken.
LEMMA BlackoutStays ==
  ASSUME TypeOK, BlackoutIsFirst,
         \/ /\ jobs' = jobs \/ \E j \in UserTransitions \cup {"apr"} : jobs' = Append(jobs, j)
            /\ alive /\ Idle /\ ~pgood => alive' /\ Idle' /\ ~pgood'
         \/ jobs # <<>> /\ jobs' = Tail(jobs),
         ChassisAssumption
  PROVE  BlackoutIsFirst'
<1>1. jobs \in Seq(UserTransitions \cup {"blackout", "apr"})
  BY DEF TypeOK
<1>2. CASE /\ jobs' = jobs
           /\ alive /\ Idle /\ ~pgood => alive' /\ Idle' /\ ~pgood'
  BY <1>2 DEF BlackoutIsFirst
<1>3. ASSUME NEW j \in UserTransitions \cup {"apr"}, jobs' = Append(jobs, j),
             alive /\ Idle /\ ~pgood => alive' /\ Idle' /\ ~pgood'
      PROVE  BlackoutIsFirst'
  <2>1. j # "blackout"
    BY DEF ChassisAssumption
  <2> SUFFICES ASSUME NEW i \in 1..Len(jobs'), jobs'[i] = "blackout"
               PROVE  i = 1 /\ alive' /\ Idle' /\ ~pgood'
    BY DEF BlackoutIsFirst
  <2>2. i \in 1..Len(jobs) /\ jobs[i] = "blackout"
    BY <1>1, <1>3, <2>1
  <2> QED BY <1>3, <2>2 DEF BlackoutIsFirst
<1>4. CASE jobs # <<>> /\ jobs' = Tail(jobs)
  <2> SUFFICES ASSUME NEW i \in 1..Len(jobs'), jobs'[i] = "blackout" PROVE FALSE
    BY DEF BlackoutIsFirst
  <2>1. i + 1 \in 1..Len(jobs) /\ jobs[i + 1] = "blackout" /\ i + 1 # 1
    BY <1>1, <1>4
  <2> QED BY <2>1 DEF BlackoutIsFirst
<1> QED BY <1>2, <1>3, <1>4

\* Without a death a start leaves no file torn, and no order is left behind.
LEMMA UndiedPreserved ==
  ASSUME ChassisAssumption, Basics, Undied, [Next]_vars
  PROVE  Undied'
<1> SUFFICES ASSUME spent'.deaths = 0
             PROVE  /\ alive' => changeFile'.kind # "torn"
                    /\ DownIsQuiet' /\ IdleFollows' /\ BlackoutIsFirst'
  BY DEF Undied
<1>1. spent.deaths = 0 /\ (Dies => FALSE)
  BY DeathsStay DEF Basics, Dies, TypeOK
<1>2. /\ alive => changeFile.kind # "torn"
      /\ DownIsQuiet /\ IdleFollows /\ BlackoutIsFirst
  BY <1>1 DEF Undied
<1>3. TypeOK /\ OneTarget /\ Unheard
  BY DEF Basics
<1> USE DEF Units
<1>4. CASE Start
  <2>1. jobs = <<>> /\ bus = <<>> /\ bus' = bus /\ alive'
    BY <1>2, <1>3, <1>4 DEF Start, DownIsQuiet, Unheard
  <2>2. changeFile'.kind # "torn"
    BY <1>4 DEF Start, PgoodIsRead, PgoodIsUnread, PowerWasLost, Knows,
                SetStateChangeTime, Saved, Readable, NoFile
  <2>3. DownIsQuiet'
    BY <2>1 DEF DownIsQuiet
  <2>4. IdleFollows'
    <3>1. UNCHANGED <<unit, pgood, pending>> /\ (blind' \/ powerState' = PowerSays)
      BY <1>4 DEF Start, PgoodIsRead, PgoodIsUnread, InitialState, PowerSays
    <3>2. OnlyInputs(bus')
      BY <2>1 DEF OnlyInputs
    <3> QED BY <1>2, <3>1, <3>2 DEF IdleFollows, Idle, PowerSays
  <2>5. BlackoutIsFirst'
    <3>1. CASE PowerWasLost /\ jobs' = Append(jobs, "blackout")
      <4>1. ~pgood' /\ Idle' /\ jobs' = <<"blackout">>
        BY <1>2, <1>4, <2>1, <3>1 DEF Start, PowerWasLost, DownIsQuiet, Idle
      <4>2. Len(jobs') = 1
        BY <4>1
      <4> QED BY <2>1, <4>1, <4>2 DEF BlackoutIsFirst
    <3>2. CASE jobs' = jobs
      BY <2>1, <3>2 DEF BlackoutIsFirst
    <3> QED BY <1>4, <3>1, <3>2 DEF Start, PgoodIsRead, PgoodIsUnread
  <2> QED BY <2>2, <2>3, <2>4, <2>5
<1>5. CASE Handle
  <2>1. alive /\ alive' /\ bus # <<>> /\ bus' = Tail(bus) /\ bus \in Seq(Messages)
        /\ UNCHANGED <<pending, pgood>>
    BY <1>3, <1>5 DEF Handle, TypeOK
  <2>2. Idle' = Idle
    BY <1>3, <1>5 DEF Handle, Answered, Idle, TypeOK
  <2>3. changeFile'.kind # "torn"
    BY <1>2, <1>5, <2>1 DEF Handle, SysStateChange, SetStateChangeTime, Saved
  <2>4. IdleFollows'
    <3> SUFFICES ASSUME Idle' PROVE /\ pgood' => "reset" \in pending'
                                    /\ blind' \/ powerState' = PowerSays'
                                    /\ OnlyInputs(bus')
      BY DEF IdleFollows
    <3>1. (pgood => "reset" \in pending) /\ (blind \/ powerState = PowerSays)
          /\ OnlyInputs(bus)
      BY <1>2, <2>1, <2>2 DEF IdleFollows
    <3>2. OnlyInputs(bus') /\ Head(bus).member = "PropertiesChanged"
      BY <2>1, <3>1, TailFacts
    <3>3. powerState' = powerState /\ blind' = blind
      BY <1>5, <3>2 DEF Handle
    <3> QED BY <2>1, <3>1, <3>2, <3>3 DEF PowerSays
  <2>5. BlackoutIsFirst'
    <3>1. jobs' = jobs \/ jobs' = Append(jobs, "apr")
      BY <1>5 DEF Handle, DetermineStatusOfPower
    <3> QED BY <1>2, <1>3, <2>1, <2>2, <3>1, BlackoutStays
  <2> QED BY <2>1, <2>3, <2>4, <2>5 DEF DownIsQuiet
<1>6. CASE RequestedPowerTransition
  <2>1. alive /\ UNCHANGED <<alive, powerState, changeFile, unit, pgood, pending, bus, blind>>
        /\ \E j \in UserTransitions : jobs' = Append(jobs, j)
    BY <1>6 DEF RequestedPowerTransition, flash, history
  <2>2. BlackoutIsFirst'
    BY <1>2, <1>3, <2>1, BlackoutStays DEF Idle
  <2> QED BY <1>2, <2>1, <2>2 DEF DownIsQuiet, IdleFollows, Idle, PowerSays
<1>7. CASE POHCallback \/ UNCHANGED vars
  <2>1. UNCHANGED <<alive, powerState, changeFile, unit, pgood, pending, bus, jobs, blind>>
    BY <1>7 DEF POHCallback, vars, manager, flash, history
  <2> QED BY <1>2, <2>1 DEF DownIsQuiet, IdleFollows, BlackoutIsFirst, Idle, PowerSays
<1>8. CASE InputChanges
  <2>1. UNCHANGED <<alive, powerState, changeFile, unit, pgood, pending, jobs, blind>>
    BY <1>8 DEF InputChanges, manager, flash
  <2>2. OnlyInputs(bus) => OnlyInputs(bus')
    <3>1. bus \in Seq(Messages)
      BY <1>3 DEF TypeOK
    <3>2. ASSUME NEW m \in Messages, m.member = "PropertiesChanged", bus' = Append(bus, m)
          PROVE  OnlyInputs(bus) => OnlyInputs(bus')
      BY <3>1, <3>2, AppendFacts
    <3> QED BY <1>3, <1>8, <3>2, InputTells
  <2> QED BY <1>2, <2>1, <2>2 DEF DownIsQuiet, IdleFollows, BlackoutIsFirst, Idle, PowerSays
<1>9. CASE BMCResets \/ ACIsLost
  <2>1. BMCGoesDown
    BY <1>9 DEF BMCResets, ACIsLost
  <2>2. ~alive' /\ jobs' = <<>> /\ pending' = {"reset"} /\ Idle' /\ Len(jobs') = 0
    BY <2>1 DEF BMCGoesDown, flash, Idle
  <2> QED BY <1>2, <2>2 DEF DownIsQuiet, IdleFollows, BlackoutIsFirst, Idle
<1>10. CASE Systemd
  <2>1. UNCHANGED <<alive, powerState, changeFile, blind>>
    BY <1>3, <1>10, SystemdTells DEF manager, flash
  <2>2. CASE SystemdTakes
    <3>1. alive /\ jobs # <<>> /\ jobs' = Tail(jobs) /\ pgood' = pgood
      BY <1>2, <2>2 DEF SystemdTakes, DownIsQuiet
    <3>2. BlackoutIsFirst'
      BY <1>2, <1>3, <3>1, BlackoutStays
    <3>3. StartUnit("poweroff") \/ ("reset" \in pending <=> "reset" \in pending')
      BY <2>2 DEF SystemdTakes
    <3>4. ASSUME StartUnit("poweron") \/ StartUnit("poweroff") PROVE ~Idle'
      BY <1>3, <3>4, StartOn, StartOff DEF Idle
    <3>5. CASE Head(jobs) = "blackout" /\ ~StartUnit("poweroff")
      <4>1. Idle
        BY <1>2, <1>3, <3>1, <3>5 DEF BlackoutIsFirst, TypeOK
      <4>2. UNCHANGED <<unit, bus>>
        <5>1. /\ unit' = [unit EXCEPT !["poweron"] = "inactive"]
              /\ bus' = Emitted(<<>>)
          BY <2>2, <3>5, <4>1 DEF SystemdTakes, Idle
        <5>2. \E m : m \in Messages
          BY MessageTypes
        <5>3. bus' = bus
          BY <1>3, <5>1, <5>2, EmittedFacts DEF TypeOK
        <5> QED BY <1>3, <4>1, <5>1, <5>3 DEF Idle, TypeOK
      <4>3. "reset" \in pending <=> "reset" \in pending'
        BY <3>3, <3>5
      <4> QED BY <1>2, <2>1, <3>1, <3>2, <4>2, <4>3
              DEF DownIsQuiet, IdleFollows, Idle, PowerSays
    <3>6. CASE UNCHANGED <<unit, bus>> /\ ~StartUnit("poweroff")
      BY <1>2, <2>1, <3>1, <3>2, <3>3, <3>6 DEF DownIsQuiet, IdleFollows, Idle, PowerSays
    <3>7. CASE StartUnit("poweron") \/ StartUnit("poweroff")
      BY <1>2, <2>1, <3>1, <3>2, <3>4, <3>7 DEF DownIsQuiet, IdleFollows
    <3> QED BY <2>2, <3>5, <3>6, <3>7 DEF SystemdTakes
  <2>3. CASE CyclesOn
    <3>1. alive /\ ~Idle /\ jobs' = jobs /\ StartUnit("poweron")
      BY <1>2, <2>3 DEF CyclesOn, DownIsQuiet, Idle
    <3>2. ~Idle'
      BY <1>3, <3>1, StartOn DEF Idle
    <3>3. BlackoutIsFirst'
      BY <1>2, <1>3, <3>1, BlackoutStays
    <3> QED BY <1>2, <2>1, <3>1, <3>2, <3>3 DEF DownIsQuiet, IdleFollows
  <2>4. CASE ResetChassisRunning
    <3>1. jobs' = jobs /\ pgood' = pgood /\ pending' = pending \ {"reset"}
      BY <2>4 DEF ResetChassisRunning
    <3>2. CASE pgood
      <4>1. StartUnit("poweron")
        BY <2>4, <3>2 DEF ResetChassisRunning
      <4>2. /\ ~Idle' /\ unit'["poweroff"] = "inactive"
            /\ unit["poweron"] \in {"inactive", "queued"} => unit'["poweron"] = "queued"
        BY <1>3, <4>1, StartOn DEF Idle
      <4>3. BlackoutIsFirst'
        BY <1>2, <1>3, <3>1, <3>2, BlackoutStays
      <4> QED BY <1>2, <2>1, <3>1, <3>2, <4>2, <4>3 DEF DownIsQuiet, IdleFollows
    <3>3. CASE ~pgood
      <4>1. UNCHANGED <<unit, bus>>
        BY <2>4, <3>3 DEF ResetChassisRunning
      <4> QED BY <1>2, <2>1, <3>1, <3>3, <4>1
              DEF DownIsQuiet, IdleFollows, BlackoutIsFirst, Idle, PowerSays
    <3> QED BY <3>2, <3>3
  <2>5. ASSUME NEW u \in Units, AnnounceTransition(u) \/ SwitchesPower(u) \/ Reached(u)
        PROVE  ~Idle /\ ~Idle' /\ jobs' = jobs /\ pending' = pending /\ alive
    <3>1. unit[u] \in {"queued", "starting", "switched"} /\ (alive \/ unit[u] # "queued")
      BY <2>5 DEF AnnounceTransition, SwitchesPower, Reached
    <3>2. ~Idle /\ alive
      BY <1>2, <3>1 DEF Idle, DownIsQuiet
    <3>3. unit'[u] # "inactive" /\ jobs' = jobs /\ pending' = pending
      BY <1>3, <2>5 DEF AnnounceTransition, SwitchesPower, Reached, TypeOK
    <3> QED BY <3>2, <3>3 DEF Idle
  <2>6. CASE PowerOnFails
    <3>1. ~Idle /\ ~Idle' /\ jobs' = jobs /\ alive
      BY <1>2, <2>6 DEF PowerOnFails, Idle, DownIsQuiet
    <3> QED BY <1>2, <1>3, <2>1, <3>1, BlackoutStays DEF DownIsQuiet, IdleFollows
  <2>7. CASE \E u \in Units : AnnounceTransition(u) \/ SwitchesPower(u) \/ Reached(u)
    <3>1. ~Idle /\ ~Idle' /\ jobs' = jobs /\ pending' = pending /\ alive
      BY <2>5, <2>7
    <3> QED BY <1>2, <1>3, <2>1, <3>1, BlackoutStays DEF DownIsQuiet, IdleFollows
  <2> QED BY <1>10, <2>2, <2>3, <2>4, <2>6, <2>7 DEF Systemd
<1> QED BY <1>1, <1>4, <1>5, <1>6, <1>7, <1>8, <1>9, <1>10 DEF Next

\* A power state of On is on flash, or a signal that changes one is to come.
LEMMA OnIsSavedPreserved ==
  ASSUME Basics, Undied, OnIsSaved, [Next]_vars
  PROVE  OnIsSaved'
<1> SUFFICES ASSUME alive', spent'.deaths = 0, powerState' = "On", ~SavedOn'
             PROVE  Coming'
  BY DEF OnIsSaved
<1>1. spent.deaths = 0 /\ (Dies => FALSE)
  BY DeathsStay DEF Basics, Dies, TypeOK
<1>2. DownIsQuiet /\ IdleFollows /\ BlackoutIsFirst
  BY <1>1 DEF Undied
<1>3. TypeOK /\ OneTarget
  BY DEF Basics
<1> USE DEF Units
<1>4. CASE Start
  <2>1. ~alive /\ pgood /\ UNCHANGED <<pgood, unit, pending>>
    BY <1>4 DEF Start, PgoodIsRead, PgoodIsUnread, InitialState
  <2> QED BY <1>2, <2>1 DEF DownIsQuiet, IdleFollows, Idle, Coming
<1>5. alive /\ powerState = "On" /\ UNCHANGED changeFile => Coming
  BY <1>1 DEF OnIsSaved, SavedOn, Knows
<1>6. CASE Handle
  <2>1. alive /\ bus # <<>> /\ bus \in Seq(Messages) /\ bus' = Tail(bus)
        /\ UNCHANGED <<pgood, pending>>
    BY <1>3, <1>6 DEF Handle, TypeOK
  <2> DEFINE m == Head(bus)
  <2>2. /\ Has(JobRemoved("poweron"), bus) =>
             Has(JobRemoved("poweron"), bus') \/ m = JobRemoved("poweron")
        /\ Has(Write("poweroff"), bus) =>
             Has(Write("poweroff"), bus') \/ m = Write("poweroff")
    BY <2>1, TailFacts
  <2>3. m.member # "Set"
    BY <1>6 DEF Handle, Announced
  <2>4. m # Write("poweroff")
    BY <2>3 DEF Write
  <2>5. ASSUME unit["poweron"] = "active" PROVE m # JobRemoved("poweron")
    <3> SUFFICES ASSUME m = JobRemoved("poweron") PROVE FALSE
      OBVIOUS
    <3>1. SysStateChange("poweron") /\ PowerIsOn("poweron") /\ ~PowerIsOff("poweron")
      BY <1>6, <2>5 DEF Handle, JobRemoved, PowerIsOn, PowerIsOff
    <3>2. SetStateChangeTime("On")
      BY <3>1 DEF SysStateChange
    <3> QED BY <3>2 DEF SetStateChangeTime, Saved, SavedOn, Knows
  <2>6. UNCHANGED <<powerState, changeFile, unit>>
    <3>1. CASE m.member = "PropertiesChanged"
      BY <1>6, <3>1 DEF Handle
    <3>2. CASE m.member = "JobRemoved"
      <4>1. SysStateChange(m.unit) /\ unit' = unit
        BY <1>6, <3>2 DEF Handle
      <4>2. m \in Messages
        BY <2>1, TailFacts
      <4>3. m.unit = "poweron" => m = JobRemoved("poweron")
        BY <3>2, <4>2 DEF Messages, JobRemoved
      <4>4. ~PowerIsOn(m.unit) /\ ~PowerIsOff(m.unit)
        BY <2>5, <4>1, <4>3 DEF SysStateChange, PowerIsOn, PowerIsOff
      <4> QED BY <4>1, <4>4 DEF SysStateChange
    <3> QED BY <1>6, <2>3, <3>1, <3>2 DEF Handle
  <2> QED BY <1>5, <2>1, <2>2, <2>4, <2>5, <2>6 DEF Coming
<1>7. CASE RequestedPowerTransition \/ POHCallback \/ UNCHANGED vars
  <2>1. UNCHANGED <<alive, powerState, changeFile, unit, pgood, pending, bus>>
    BY <1>7 DEF RequestedPowerTransition, POHCallback, vars, manager, flash
  <2> QED BY <1>5, <2>1 DEF Coming
<1>8. CASE InputChanges
  <2>1. UNCHANGED <<alive, powerState, changeFile, unit, pgood, pending>>
    BY <1>8 DEF InputChanges, manager, flash
  <2>2. bus' = bus \/ \E m \in Messages : bus' = Append(bus, m)
    BY <1>3, <1>8, InputTells
  <2> QED BY <1>3, <1>5, <2>1, <2>2, StaysHeard DEF Coming
<1>9. CASE BMCResets \/ ACIsLost
  BY <1>9 DEF BMCResets, ACIsLost, BMCGoesDown
<1>10. CASE Systemd
  <2>1. /\ UNCHANGED <<alive, powerState, changeFile>> /\ alive
        /\ bus' = bus \/ \E m \in Messages : bus' = Append(bus, m)
    BY <1>3, <1>10, SystemdTells DEF manager, flash
  <2>2. Coming
    BY <1>5, <2>1
  <2>3. /\ Has(JobRemoved("poweron"), bus) => Has(JobRemoved("poweron"), bus')
        /\ Has(Write("poweroff"), bus) => Has(Write("poweroff"), bus')
    BY <1>3, <2>1, StaysHeard
  <2>4. ASSUME StartUnit("poweron") PROVE Coming'
    <3>1. unit["poweron"] \in UnitStates
      BY <1>3 DEF TypeOK
    <3> QED BY <1>3, <2>1, <2>4, <3>1, StartOn DEF Coming, UnitStates
  <2>5. CASE SystemdTakes
    <3>1. pgood' = pgood
      BY <2>5 DEF SystemdTakes
    <3>2. CASE StartUnit("poweroff")
      <4>1. /\ unit'["poweroff"] = IF unit["poweroff"] = "inactive" THEN "queued"
                                   ELSE unit["poweroff"]
            /\ unit["poweroff"] \in UnitStates
            /\ unit["poweron"] = "inactive" \/ unit["poweroff"] = "inactive"
        BY <1>3, <3>2, StartOff DEF OneTarget, TypeOK
      <4> QED BY <2>2, <2>3, <4>1 DEF Coming, UnitStates
    <3>3. CASE Head(jobs) = "blackout" /\ pending' = pending
      <4>1. Idle
        BY <1>2, <1>3, <2>5, <3>3 DEF SystemdTakes, BlackoutIsFirst, TypeOK
      <4>2. unit' = unit
        BY <1>3, <2>5, <3>3, <4>1 DEF SystemdTakes, Idle, TypeOK
      <4> QED BY <2>2, <2>3, <3>1, <3>3, <4>2 DEF Coming
    <3>4. CASE UNCHANGED <<unit, pending>>
      BY <2>2, <2>3, <3>1, <3>4 DEF Coming
    <3> QED BY <2>4, <2>5, <3>2, <3>3, <3>4 DEF SystemdTakes
  <2>6. CASE CyclesOn
    BY <2>4, <2>6 DEF CyclesOn
  <2>7. CASE ResetChassisRunning
    <3>1. CASE pgood
      BY <2>4, <2>7, <3>1 DEF ResetChassisRunning
    <3>2. CASE ~pgood
      <4>1. UNCHANGED <<unit, bus, pgood>>
        BY <2>7, <3>2 DEF ResetChassisRunning
      <4> QED BY <2>2, <3>2, <4>1 DEF Coming
    <3> QED BY <3>1, <3>2
  <2>8. CASE AnnounceTransition("poweron")
    BY <1>3, <2>8 DEF AnnounceTransition, OneTarget, Coming, TypeOK
  <2>9. CASE AnnounceTransition("poweroff")
    <3>1. bus' = Append(bus, Write("poweroff")) /\ unit'["poweroff"] = "announcing"
      BY <1>3, <2>9 DEF AnnounceTransition, TypeOK
    <3>2. Has(Write("poweroff"), bus')
      BY <1>3, <3>1, AppendFacts, MessageTypes DEF TypeOK
    <3> QED BY <3>1, <3>2 DEF Coming
  <2>10. CASE SwitchesPower("poweron")
    BY <1>3, <2>10 DEF SwitchesPower, OneTarget, Coming, TypeOK
  <2>11. CASE Reached("poweron")
    <3>1. bus' = Append(bus, JobRemoved("poweron")) /\ unit'["poweron"] = "active"
          /\ unit'["poweroff"] = "inactive"
      BY <1>3, <2>1, <2>11, Heard, MessageTypes DEF Reached, OneTarget, TypeOK
    <3>2. Has(JobRemoved("poweron"), bus')
      BY <1>3, <3>1, AppendFacts, MessageTypes DEF TypeOK
    <3> QED BY <3>1, <3>2 DEF Coming
  <2>12. CASE SwitchesPower("poweroff") \/ Reached("poweroff")
    BY <2>2, <2>12 DEF SwitchesPower, Reached, Coming
  <2>13. CASE PowerOnFails
    BY <2>13 DEF PowerOnFails, Coming
  <2> QED BY <1>10, <2>5, <2>6, <2>7, <2>8, <2>9, <2>10, <2>11, <2>12, <2>13 DEF Systemd
<1> QED BY <1>1, <1>4, <1>6, <1>7, <1>8, <1>9, <1>10 DEF Next

\* A loss of power that is owed a report waits for the process to start.
LEMMA OwedPreserved ==
  ASSUME Basics, OnIsSaved, OwedStands, [Next]_vars
  PROVE  OwedStands'
<1> SUFFICES ASSUME owed'
             PROVE  /\ ~alive' /\ ~pgood' /\ SavedOn' /\ Idle'
                    /\ jobs' = <<>> /\ "cycle" \notin pending'
  BY DEF OwedStands
<1>1. TypeOK /\ OneTarget
  BY DEF Basics
<1>2. owed => ~alive /\ ~pgood /\ SavedOn /\ Idle /\ jobs = <<>> /\ "cycle" \notin pending
  BY DEF OwedStands
<1>3. CASE Start
  BY <1>2, <1>3 DEF Start, PgoodIsRead, PgoodIsUnread, PowerWasLost, SavedOn
<1>4. CASE Handle \/ RequestedPowerTransition \/ POHCallback \/ Dies
  BY <1>2, <1>4 DEF Handle, RequestedPowerTransition, POHCallback, Dies, history
<1>5. CASE InputChanges \/ UNCHANGED vars
  <2>1. UNCHANGED <<owed, alive, pgood, changeFile, unit, jobs, pending>>
    BY <1>5 DEF InputChanges, vars, flash, history
  <2> QED BY <1>2, <2>1 DEF SavedOn, Knows, Idle
<1>6. CASE Systemd
  <2>1. owed /\ ~alive /\ ~pgood /\ SavedOn /\ Idle /\ jobs = <<>> /\ "cycle" \notin pending
        /\ UNCHANGED <<alive, changeFile>>
    BY <1>1, <1>2, <1>6, SystemdTells DEF flash
  <2>2. ResetChassisRunning
    BY <1>6, <2>1 DEF Systemd, SystemdTakes, CyclesOn, PowerOnFails, AnnounceTransition,
                      SwitchesPower, Reached, Idle, Units
  <2>3. UNCHANGED <<unit, jobs, pgood>> /\ pending' = pending \ {"reset"}
    BY <2>1, <2>2 DEF ResetChassisRunning
  <2> QED BY <2>1, <2>3 DEF SavedOn, Knows, Idle
<1>7. CASE BMCResets \/ ACIsLost
  <2>1. BMCGoesDown
    BY <1>7 DEF BMCResets, ACIsLost
  <2>2. ~alive' /\ Idle' /\ jobs' = <<>> /\ "cycle" \notin pending'
    BY <2>1 DEF BMCGoesDown, Idle, Units
  <2>3. ~pgood' /\ SavedOn /\ (alive => bus = <<>>)
    <3>1. CASE owed
      <4>1. pgood' = pgood \/ pgood' = FALSE
        BY <1>7 DEF BMCResets, ACIsLost, PowerBecomes
      <4> QED BY <1>2, <3>1, <4>1
    <3>2. CASE ~owed
      <4>1. ACIsLost /\ ~pgood' /\ Settled /\ powerState = "On" /\ spent.deaths = 0
        BY <1>7, <3>2 DEF BMCResets, ACIsLost, PowerBecomes, history
      <4>2. /\ alive /\ pending = {} /\ bus = <<>> /\ ~Has(JobRemoved("poweron"), bus)
            /\ unit["poweron"] \in {"inactive", "active"}
            /\ unit["poweroff"] \in {"inactive", "active"}
        BY <4>1 DEF Settled, Has, Units
      <4>3. ~Coming
        BY <4>2 DEF Coming
      <4> QED BY <4>1, <4>2, <4>3 DEF OnIsSaved
    <3> QED BY <3>1, <3>2
  <2>4. changeFile' = changeFile
    BY <2>1, <2>3 DEF BMCGoesDown, WriteIsCut, WritesChangeTime, flash
  <2> QED BY <2>2, <2>3, <2>4 DEF SavedOn, Knows
<1> QED BY <1>3, <1>4, <1>5, <1>6, <1>7 DEF Next

\* What depends on nothing but the deaths.
Always == Basics /\ Undied /\ OnIsSaved /\ OwedStands

\* At first nothing is saved and nothing is owed.
LEMMA AlwaysAtFirst == Init => Always
<1> SUFFICES ASSUME Init PROVE Always
  OBVIOUS
<1>1. Basics
  BY InitBasics DEF Init, Basics, Unheard, StatusKnown
<1>2. Undied
  BY DEF Init, Undied, NoFile, DownIsQuiet, IdleFollows, BlackoutIsFirst, Units
<1> QED BY <1>1, <1>2 DEF Init, Always, OnIsSaved, OwedStands

\* Every step keeps all of it, ...
LEMMA AlwaysPreserved ==
  ASSUME Always, [Next]_vars
  PROVE  Always'
<1>1. Basics'
  BY TypePreserved, OneTargetPreserved, StatusPreserved, ChassisAssumption
     DEF Always, Basics
<1> QED BY <1>1, UndiedPreserved, OnIsSavedPreserved, OwedPreserved, ChassisAssumption
        DEF Always

\* ... and so they hold in every behaviour.
LEMMA AlwaysInvariant == Spec => []Always
<1>1. Init => Always
  BY AlwaysAtFirst
<1>2. Always /\ [Next]_vars => Always'
  BY AlwaysPreserved
<1> QED BY <1>1, <1>2, PTL DEF Spec

\* A loss of AC that hit a chassis that was On is reported by the first start
\* after it: at every loss the change time file knows of On once the manager
\* shows On and nothing is under way, and neither the targets nor a BMC reset
\* take that away before the manager has looked.
THEOREM ChassisLossIsReported == Spec => []LossIsReported
<1>1. Always => LossIsReported
  BY DEF Always, OwedStands, LossIsReported
<1> QED BY <1>1, AlwaysInvariant, PTL
---------------------------------------------------------------------------
(* The power.                                                              *)

\* The targets have switched the power, or faked it.
OffIsOff == unit["poweroff"] \in {"switched", "active"} => ~pgood
OnIsOn == unit["poweron"] \in {"switched", "active"} => pgood \/ faked

\* The manager knows of an active target or will hear of it, unless it could
\* not read pgood or the target is faked, and nothing that is on its way makes
\* it forget.
Follows(u, s) ==
  alive /\ unit[u] = "active" =>
    (blind \/ faked \/ powerState = s \/ Has(JobRemoved(u), bus)) /\ EndsWith(u, bus)

\* Without a death, the change time is that of a file that a BMC reset has not
\* torn, and once it was set after a change of the power the file knows of it.
Stamp ==
  spent.deaths = 0 =>
    /\ changeFile.kind # "torn" => changeTime = RestoredTime
    /\ stamped => Knows(PowerSays)

\* The poweroff target is reached without power only.
LEMMA OffIsOffPreserved ==
  ASSUME Basics, OffIsOff, [Next]_vars
  PROVE  OffIsOff'
<1>1. TypeOK /\ OneTarget
  BY DEF Basics
<1> USE DEF OffIsOff, Units
<1>2. ASSUME UNCHANGED pgood, StartUnit("poweron") \/ StartUnit("poweroff") PROVE OffIsOff'
  BY <1>1, <1>2, StartOn, StartOff
<1>3. CASE Start \/ RequestedPowerTransition \/ POHCallback \/ InputChanges \/ UNCHANGED vars
  BY <1>3 DEF Start, RequestedPowerTransition, POHCallback, InputChanges, vars
<1>4. CASE Handle \/ Dies
  BY <1>1, <1>4 DEF Handle, Dies, Answered, Unanswered, TypeOK
<1>5. CASE BMCResets \/ ACIsLost
  BY <1>5 DEF BMCResets, ACIsLost, BMCGoesDown
<1>6. CASE SystemdTakes \/ CyclesOn \/ ResetChassisRunning
  BY <1>1, <1>2, <1>6 DEF SystemdTakes, CyclesOn, ResetChassisRunning, TypeOK
<1>7. CASE PowerOnFails
  BY <1>7 DEF PowerOnFails
<1>8. ASSUME NEW u \in Units, AnnounceTransition(u) \/ Reached(u) PROVE OffIsOff'
  BY <1>1, <1>8 DEF AnnounceTransition, Reached, TypeOK
<1>9. ASSUME NEW u \in Units, SwitchesPower(u) PROVE OffIsOff'
  <2>1. CASE u = "poweron"
    BY <1>1, <1>9, <2>1 DEF SwitchesPower, OneTarget, TypeOK
  <2>2. CASE u = "poweroff"
    BY <1>9, <2>2 DEF SwitchesPower, PowerBecomes
  <2> QED BY <2>1, <2>2
<1> QED BY <1>3, <1>4, <1>5, <1>6, <1>7, <1>8, <1>9 DEF Next, Systemd

\* The poweron target is reached with power, or was faked.
LEMMA OnIsOnPreserved ==
  ASSUME Basics, OnIsOn, [Next]_vars
  PROVE  OnIsOn'
<1>1. TypeOK /\ OneTarget
  BY DEF Basics
<1> USE DEF OnIsOn, Units
<1>2. CASE Start \/ RequestedPowerTransition \/ POHCallback \/ InputChanges \/ UNCHANGED vars
  BY <1>2 DEF Start, RequestedPowerTransition, POHCallback, InputChanges, vars, history
<1>3. CASE Handle
  BY <1>1, <1>3 DEF Handle, Answered, TypeOK
<1>4. CASE Dies
  BY <1>1, <1>4 DEF Dies, Unanswered, TypeOK, history
<1>5. CASE BMCResets \/ ACIsLost
  BY <1>5 DEF BMCResets, ACIsLost, BMCGoesDown
<1>6. ASSUME UNCHANGED <<pgood, faked>>, StartUnit("poweron") \/ StartUnit("poweroff")
      PROVE  OnIsOn'
  BY <1>1, <1>6, StartOn, StartOff
<1>7. CASE SystemdTakes \/ CyclesOn \/ ResetChassisRunning
  <2>1. UNCHANGED <<pgood, faked>>
    BY <1>7 DEF SystemdTakes, CyclesOn, ResetChassisRunning, history
  <2>2. \/ StartUnit("poweron") \/ StartUnit("poweroff") \/ unit' = unit
        \/ unit' = [unit EXCEPT !["poweron"] = "inactive"]
    BY <1>7 DEF SystemdTakes, CyclesOn, ResetChassisRunning
  <2> QED BY <1>1, <1>6, <2>1, <2>2 DEF TypeOK
<1>8. CASE PowerOnFails
  BY <1>8 DEF PowerOnFails
<1>9. ASSUME NEW u \in Units, AnnounceTransition(u) \/ Reached(u) PROVE OnIsOn'
  BY <1>1, <1>9 DEF AnnounceTransition, Reached, TypeOK, history
<1>10. ASSUME NEW u \in Units, SwitchesPower(u) PROVE OnIsOn'
  <2>1. CASE u = "poweron"
    BY <1>1, <1>10, <2>1 DEF SwitchesPower, PowerBecomes, TypeOK
  <2>2. CASE u = "poweroff"
    BY <1>1, <1>10, <2>2 DEF SwitchesPower, OneTarget, TypeOK
  <2> QED BY <2>1, <2>2
<1> QED BY <1>2, <1>3, <1>4, <1>5, <1>7, <1>8, <1>9, <1>10 DEF Next, Systemd

\* For either target, whose switch has left the power in the state s.
LEMMA FollowsPreserved ==
  ASSUME Basics, NEW u \in Units, NEW s,
         s = IF u = "poweron" THEN "On" ELSE "Off",
         unit[u] = "active" => faked \/ PowerSays = s,
         Follows(u, s), [Next]_vars
  PROVE  Follows(u, s)'
<1> SUFFICES ASSUME alive', unit'[u] = "active"
             PROVE  /\ blind' \/ faked' \/ powerState' = s \/ Has(JobRemoved(u), bus')
                    /\ EndsWith(u, bus')
  BY DEF Follows
<1>1. TypeOK /\ OneTarget /\ bus \in Seq(Messages)
  BY DEF Basics, TypeOK
<1> USE DEF Units
<1>2. alive /\ unit[u] = "active" =>
        (blind \/ faked \/ powerState = s \/ Has(JobRemoved(u), bus)) /\ EndsWith(u, bus)
  BY DEF Follows
<1>3. ASSUME bus' = Append(bus, JobRemoved(u))
      PROVE  Has(JobRemoved(u), bus') /\ EndsWith(u, bus')
  BY <1>1, <1>3, AppendFacts, MessageTypes
<1>4. CASE Start
  <2>1. bus' = <<>> /\ (blind' \/ powerState' = PowerSays) /\ unit' = unit /\ faked' = faked
    BY <1>4 DEF Start, PgoodIsRead, PgoodIsUnread, Basics, Unheard, InitialState, PowerSays
  <2> QED BY <2>1 DEF EndsWith
<1>5. CASE Handle
  <2>1. alive /\ bus # <<>> /\ bus' = Tail(bus) /\ faked' = faked
    BY <1>5 DEF Handle
  <2>2. unit[u] = "active"
    BY <1>1, <1>5 DEF Handle, Answered, TypeOK
  <2> DEFINE m == Head(bus)
  <2>3. /\ m \in Messages /\ EndsWith(u, bus')
        /\ Has(JobRemoved(u), bus) => Has(JobRemoved(u), bus') \/ m = JobRemoved(u)
        /\ m.member = "Set" => Has(JobRemoved(u), bus')
    BY <1>1, <1>2, <2>1, <2>2, TailFacts
  <2>4. CASE m.member = "JobRemoved"
    <3>1. SysStateChange(m.unit)
      BY <1>5, <2>4 DEF Handle
    <3>2. CASE m = JobRemoved(u)
      <4>1. m.unit = u
        BY <3>2 DEF JobRemoved
      <4> QED BY <2>2, <2>3, <3>1, <4>1 DEF SysStateChange, PowerIsOn, PowerIsOff
    <3>3. CASE m # JobRemoved(u)
      <4>1. m.unit # u /\ m.unit \in Units
        BY <2>3, <2>4, <3>3 DEF Messages, JobRemoved
      <4>2. unit[m.unit] = "inactive"
        BY <1>1, <2>2, <4>1 DEF OneTarget
      <4>a. ~PowerIsOn(m.unit) /\ ~PowerIsOff(m.unit)
        BY <4>2 DEF PowerIsOn, PowerIsOff
      <4>3. powerState' = powerState /\ (blind => blind')
        BY <1>5, <2>4, <3>1, <4>a DEF Handle, SysStateChange
      <4> QED BY <1>2, <2>1, <2>2, <2>3, <3>3, <4>3
    <3> QED BY <3>2, <3>3
  <2>5. CASE m.member = "Set"
    BY <2>3, <2>5
  <2>6. CASE m.member = "PropertiesChanged"
    <3>1. powerState' = powerState /\ m # JobRemoved(u) /\ blind' = blind
      BY <1>5, <2>6 DEF Handle, JobRemoved
    <3> QED BY <1>2, <2>1, <2>2, <2>3, <3>1
  <2> QED BY <1>5, <2>4, <2>5, <2>6 DEF Handle
<1>6. CASE RequestedPowerTransition \/ POHCallback \/ UNCHANGED vars
  <2>1. UNCHANGED <<alive, powerState, unit, bus, blind, faked>>
    BY <1>6 DEF RequestedPowerTransition, POHCallback, vars, manager, history
  <2> QED BY <1>2, <2>1
<1>7. CASE InputChanges
  <2>1. UNCHANGED <<alive, powerState, unit, blind, faked>> /\ alive
    BY <1>7 DEF InputChanges, manager
  <2>2. CASE bus' = bus
    BY <1>2, <2>1, <2>2
  <2>3. ASSUME NEW m \in Messages, m.member # "Set", bus' = Append(bus, m)
        PROVE  /\ Has(JobRemoved(u), bus) => Has(JobRemoved(u), bus')
               /\ EndsWith(u, bus) => EndsWith(u, bus')
    BY <1>1, <2>3, AppendFacts
  <2> QED BY <1>1, <1>2, <1>7, <2>1, <2>2, <2>3, InputTells
<1>8. CASE Dies \/ BMCResets \/ ACIsLost
  BY <1>8 DEF Dies, BMCResets, ACIsLost, BMCGoesDown
<1>9. CASE Systemd
  <2>1. UNCHANGED <<alive, powerState, blind>> /\ alive
    BY <1>1, <1>9, SystemdTells DEF manager
  <2>2. ASSUME NEW v \in Units, StartUnit(v)
        PROVE  Has(JobRemoved(u), bus') /\ EndsWith(u, bus')
    <3>1. unit'[Other(v)] = "inactive" /\ Other(v) \in Units /\ Other(v) # v
      BY <1>1, <2>2, StartUnitFacts, TheOther
    <3>2. u = v
      BY <3>1
    <3>3. bus' = Append(bus, JobRemoved(u))
      BY <1>1, <2>1, <2>2, <3>2, StartUnitFacts
    <3> QED BY <1>3, <3>3
  <2>3. CASE UNCHANGED <<unit, bus, faked>>
    BY <1>2, <2>1, <2>3
  <2>4. CASE SystemdTakes
    <3>1. CASE /\ unit' = [unit EXCEPT !["poweron"] = "inactive"]
               /\ bus' = Emitted(IF unit["poweron"] # "inactive"
                                 THEN <<JobRemoved("poweron")>> ELSE <<>>)
      <4>1. u = "poweroff" /\ unit["poweroff"] = "active" /\ unit["poweron"] = "inactive"
        BY <1>1, <3>1 DEF OneTarget, TypeOK
      <4>2. bus' = Emitted(<<>>)
        BY <3>1, <4>1
      <4>3. bus' = bus
        BY <1>1, <4>2, EmittedFacts, MessageTypes
      <4>4. faked' = faked
        BY <2>4 DEF SystemdTakes, history
      <4> QED BY <1>2, <2>1, <4>1, <4>3, <4>4
    <3> QED BY <2>2, <2>3, <2>4, <3>1 DEF SystemdTakes, history
  <2>5. CASE CyclesOn \/ ResetChassisRunning
    BY <2>2, <2>3, <2>5 DEF CyclesOn, ResetChassisRunning, history
  <2>6. CASE PowerOnFails
    BY <2>6 DEF PowerOnFails
  <2>7. ASSUME NEW v \in Units, AnnounceTransition(v) \/ SwitchesPower(v) PROVE FALSE
    BY <1>1, <2>7 DEF AnnounceTransition, SwitchesPower, OneTarget, TypeOK
  <2>8. ASSUME NEW v \in Units, Reached(v)
        PROVE  Has(JobRemoved(u), bus') /\ EndsWith(u, bus')
    <3>1. u = v
      BY <1>1, <2>8 DEF Reached, OneTarget, TypeOK
    <3>2. bus' = Append(bus, JobRemoved(u))
      BY <1>1, <2>1, <2>8, <3>1, Heard, MessageTypes DEF Reached
    <3> QED BY <1>3, <3>2
  <2> QED BY <1>9, <2>4, <2>5, <2>6, <2>7, <2>8 DEF Systemd
<1> QED BY <1>4, <1>5, <1>6, <1>7, <1>8, <1>9 DEF Next

\* The manager writes the change time for the state that the power has, but for
\* a target that is faked.
LEMMA WritesPowerSays ==
  ASSUME Basics, OffIsOff, OnIsOn, ~faked, Handle
  PROVE  SetStateChangeTime(PowerSays) \/ UNCHANGED <<changeTime, changeFile, stamped>>
BY DEF Handle, SysStateChange, PowerIsOn, PowerIsOff, OffIsOff, OnIsOn, PowerSays

\* Without a death the stamp in memory is the one on flash.
LEMMA StampPreserved ==
  ASSUME Basics, Undied, Stamp, [Next]_vars
  PROVE  Stamp'
<1> SUFFICES ASSUME spent'.deaths = 0
             PROVE  Stamp'
  BY DEF Stamp
<1>1. spent.deaths = 0 /\ (Dies => FALSE)
  BY DeathsStay DEF Basics, Dies, TypeOK
<1>2. /\ changeFile.kind # "torn" => changeTime = RestoredTime
      /\ alive => changeFile.kind # "torn"
      /\ stamped => Knows(PowerSays)
  BY <1>1 DEF Stamp, Undied
<1>3. ASSUME UNCHANGED <<changeTime, changeFile>>,
             stamped' => stamped /\ pgood' = pgood
      PROVE  Stamp'
  BY <1>2, <1>3 DEF Stamp, RestoredTime, PowerSays, Knows
<1>4. ASSUME NEW s, SetStateChangeTime(s), pgood' = pgood
      PROVE  Stamp'
  <2>1. CASE Knows(s)
    BY <1>3, <1>4, <2>1 DEF SetStateChangeTime
  <2>2. CASE ~Knows(s)
    <3>1. /\ changeTime' = Now /\ changeFile' = Saved([time |-> Now, state |-> s])
          /\ stamped' => s = PowerSays
      BY <1>4, <2>2 DEF SetStateChangeTime
    <3>2. PowerSays' = PowerSays
      BY <1>4 DEF PowerSays
    <3>3. changeTime' = RestoredTime'
      BY <3>1 DEF RestoredTime, Saved
    <3>4. stamped' => Knows(PowerSays)'
      BY <3>1, <3>2 DEF Knows, Saved
    <3> QED BY <3>3, <3>4 DEF Stamp
  <2> QED BY <2>1, <2>2
<1>5. CASE Start
  <2>1. pgood' = pgood
    BY <1>5 DEF Start
  <2>2. CASE SetStateChangeTime("Off")
    BY <1>4, <2>1, <2>2
  <2>3. CASE changeTime' = RestoredTime /\ changeFile' = Readable(changeFile)
             /\ stamped' = stamped
    <3>1. changeTime' = RestoredTime'
      BY <2>3 DEF RestoredTime, Readable, TornFile, NoFile
    <3>2. stamped => changeFile' = changeFile
      BY <1>2, <2>3 DEF Readable, Knows
    <3> QED BY <1>2, <2>1, <2>3, <3>1, <3>2 DEF Stamp, Knows, PowerSays
  <2> QED BY <1>5, <2>2, <2>3 DEF Start, PgoodIsRead, PgoodIsUnread
<1>6. CASE Handle
  <2>1. pgood' = pgood
    BY <1>6 DEF Handle
  <2>2. (\E s : SetStateChangeTime(s)) \/ UNCHANGED <<changeTime, changeFile, stamped>>
    BY <1>6 DEF Handle, SysStateChange
  <2> QED BY <1>3, <1>4, <2>1, <2>2
<1>7. CASE Systemd
  <2>1. UNCHANGED <<changeTime, changeFile>>
    BY <1>7, SystemdTells DEF Basics, manager, flash
  <2>2. stamped' => stamped /\ pgood' = pgood
    BY <1>7 DEF Systemd, SystemdTakes, CyclesOn, ResetChassisRunning, PowerOnFails,
           AnnounceTransition, SwitchesPower, Reached, StampStands, history
  <2> QED BY <1>3, <2>1, <2>2
<1>8. CASE BMCResets \/ ACIsLost
  <2>1. BMCGoesDown /\ StampStands
    BY <1>8 DEF BMCResets, ACIsLost
  <2>2. changeTime' = changeTime /\ (changeFile' = changeFile \/ changeFile' = TornFile)
    BY <2>1 DEF BMCGoesDown, WriteIsCut, manager, flash
  <2>3. stamped' => stamped /\ pgood' = pgood /\ changeFile' = changeFile
    BY <2>1 DEF StampStands
  <2>4. CASE changeFile' = changeFile
    BY <1>3, <2>2, <2>3, <2>4
  <2>5. CASE changeFile' = TornFile
    BY <1>2, <2>2, <2>3, <2>5 DEF Stamp, TornFile, Knows
  <2> QED BY <2>2, <2>4, <2>5
<1>9. CASE RequestedPowerTransition \/ POHCallback \/ InputChanges \/ UNCHANGED vars
  <2>1. UNCHANGED <<changeTime, changeFile, stamped, pgood>>
    BY <1>9 DEF RequestedPowerTransition, POHCallback, InputChanges, vars, manager,
                flash, history
  <2> QED BY <1>3, <2>1
<1> QED BY <1>1, <1>5, <1>6, <1>7, <1>8, <1>9 DEF Next

\* All that holds together.
Whole == /\ Always /\ OffIsOff /\ OnIsOn /\ Stamp
         /\ Follows("poweron", "On") /\ Follows("poweroff", "Off")

\* All parts hold, whenever users ask for power.
LEMMA WholeInvariant == Spec => []Whole
<1>1. Init => Whole
  <2> SUFFICES ASSUME Init PROVE Whole
    OBVIOUS
  <2>1. Always
    BY AlwaysAtFirst
  <2>2. OffIsOff /\ OnIsOn /\ Follows("poweron", "On") /\ Follows("poweroff", "Off")
    BY DEF Init, OffIsOff, OnIsOn, Follows, Units
  <2>3. Stamp
    BY DEF Init, Stamp, RestoredTime, NoFile
  <2> QED BY <2>1, <2>2, <2>3 DEF Whole
<1>2. Whole /\ [Next]_vars => Whole'
  <2> SUFFICES ASSUME Whole, [Next]_vars PROVE Whole'
    OBVIOUS
  <2> USE DEF Whole
  <2>1. Basics /\ Undied
    BY DEF Always
  <2>2. Always'
    BY AlwaysPreserved
  <2>3. OffIsOff' /\ OnIsOn' /\ Stamp'
    BY <2>1, OffIsOffPreserved, OnIsOnPreserved, StampPreserved
  <2>4. Follows("poweron", "On")'
    <3>1. unit["poweron"] = "active" => faked \/ PowerSays = "On"
      BY DEF OnIsOn, PowerSays
    <3> QED BY <2>1, <3>1, FollowsPreserved DEF Units
  <2>5. Follows("poweroff", "Off")'
    <3>1. unit["poweroff"] = "active" => faked \/ PowerSays = "Off"
      BY DEF OffIsOff, PowerSays
    <3> QED BY <2>1, <3>1, FollowsPreserved DEF Units
  <2> QED BY <2>2, <2>3, <2>4, <2>5
<1> QED BY <1>1, <1>2, PTL DEF Spec

\* Once everything has settled, CurrentPowerState is what the power control
\* says, however requests, recoveries, failures, losses of power and deaths of
\* the manager were interleaved: but where poweron is faked for a chassis that
\* has no power, and where the manager could not read pgood.
THEOREM ChassisStateFollowsPower == Spec => []StateFollowsPower
<1>1. Whole => StateFollowsPower
  <2> SUFFICES ASSUME Whole, Settled, ~faked, ~blind,
                      spent.deaths = 0 \/ \E u \in Units : unit[u] = "active"
               PROVE  powerState = PowerSays
    BY DEF StateFollowsPower
  <2>1. alive /\ \A u \in Units : ~Has(JobRemoved(u), bus)
    BY DEF Settled, Has
  <2>2. CASE unit["poweron"] = "active"
    BY <2>1, <2>2 DEF Whole, Follows, OnIsOn, PowerSays, Units
  <2>3. CASE unit["poweroff"] = "active"
    BY <2>1, <2>3 DEF Whole, Follows, OffIsOff, PowerSays, Units
  <2>4. CASE unit["poweron"] # "active" /\ unit["poweroff"] # "active"
    <3>1. Idle /\ spent.deaths = 0
      BY <2>4 DEF Settled, Idle, Units
    <3> QED BY <2>1, <3>1 DEF Whole, Always, Undied, IdleFollows
  <2> QED BY <2>2, <2>3, <2>4
<1> QED BY <1>1, WholeInvariant, PTL

\* LastStateChangeTime moves only with the power, whatever users ask meanwhile,
\* so that a BMC reset that finds the chassis On, and fakes the poweron target,
\* leaves it.
THEOREM ChassisMovesWithPower == Spec => MovesWithPower
<1>1. Whole /\ [Next]_vars =>
        [stamped /\ changeTime' # changeTime => spent.deaths > 0 \/ faked]_vars
  <2> SUFFICES ASSUME Whole, [Next]_vars, stamped, spent.deaths = 0, ~faked
               PROVE  changeTime' = changeTime
    BY DEF Whole, Always, Basics, TypeOK
  <2>1. Knows(PowerSays) /\ Basics
    BY DEF Whole, Always, Stamp
  <2>2. changeTime = RestoredTime
    BY <2>1 DEF Whole, Stamp, Knows
  <2>3. CASE Start
    BY <2>1, <2>2, <2>3 DEF Start, PgoodIsRead, PgoodIsUnread, PowerWasLost, PowerSays, Knows
  <2>4. CASE Handle
    BY <2>1, <2>4, WritesPowerSays DEF Whole, SetStateChangeTime
  <2>5. CASE Systemd
    BY <2>1, <2>5, SystemdTells DEF Basics, manager
  <2>6. CASE ~Start /\ ~Handle /\ ~Systemd
    BY <2>6 DEF Next, RequestedPowerTransition, POHCallback, Dies, InputChanges,
           BMCResets, ACIsLost, BMCGoesDown, vars, manager
  <2> QED BY <2>3, <2>4, <2>5, <2>6
<1> QED BY <1>1, WholeInvariant, PTL DEF Spec, MovesWithPower
=============================================================================
