-------------------------- MODULE HostSystemProofs --------------------------
(***************************************************************************)
(* The host state manager among systemd, its services, the host-reboot     *)
(* script, users and crashes: it implements Host, it follows the targets,  *)
(* and the script keeps to its budget, for every bound on the environment. *)
(* The invariants say what is still queued when a target is reached, and   *)
(* which reboots are still to be charged.                                  *)
(***************************************************************************)
EXTENDS HostProofs, HostSystem, FiniteSetTheorems

Messages ==
  [member : {"JobNew"}, unit : Units \union {"host-crash"}, result : {"none"}]
  \union [member : {"JobRemoved"}, unit : Units, result : {"done", "failed"}]
  \union [member : {"Set"}, unit : {"host-stop", "host-startmin"}, result : {"none"}]

SystemTypeOK ==
  /\ unit \in [Units -> UnitStates] /\ bus \in Seq(Messages)
  /\ script \in ScriptStates /\ reading \in Nat
  /\ allowance \in Int

Announcing == {"host-stop", "host-startmin"}

\* A target that is not inactive excludes those in conflict; a manager that
\* does not run has no inbox and nobody waits for its answer.
Exclusive(s) ==
  s["host-stop"] # "inactive" =>
    s["host-startmin"] = "inactive" /\ s["host-quiesce"] = "inactive"

Basics ==
  /\ TypeOK /\ SystemTypeOK
  /\ Exclusive(unit)
  /\ ~alive => bus = <<>> /\ \A u \in Units : unit[u] # "announcing"

\* The messages after which a target may no longer be what was announced.
Stirs(m) == m.member = "Set" \/ m.unit = "host-crash"
Has(m, q) == \E i \in 1..Len(q) : q[i] = m
Calm(q) == \A i \in 1..Len(q) : ~Stirs(q[i])
EndsWith(m, q) ==
  \E i \in 1..Len(q) : q[i] = m /\ \A j \in 1..Len(q) : j > i => ~Stirs(q[j])

\* The manager knows of an active target and nothing in its inbox stirs, or it
\* will hear of the target after all that does.
Reflected(u) == current = IF u = "host-stop" THEN "Off" ELSE "Running"
Decisive(u) ==
  unit[u] = "active" /\ (u = "host-startmin" => unit["host-quiesce"] # "active")
TargetIsKnown ==
  alive => \A u \in Announcing : Decisive(u) =>
    (Reflected(u) /\ Calm(bus)) \/ EndsWith(JobRemoved(u, "done"), bus)

FollowInv == Basics /\ TargetIsKnown
---------------------------------------------------------------------------
\* There is at most one crash the manager has not heard of, and the script it
\* led to has not read the counter.
CrashUnheard == Has(JobNew("host-crash"), bus)
CrashOnce(q) ==
  \A i, j \in 1..Len(q) :
    q[i] = JobNew("host-crash") /\ q[j] = JobNew("host-crash") => i = j
CrashBeforeCount ==
  /\ CrashOnce(bus)
  /\ CrashUnheard =>
       script \in {"waiting", "sleeping"} /\ restartCause = "HostCrash"

\* What the reboots under way may still take from the allowance: nothing, if
\* their script will find no attempts and a crash.
Exhausted == attemptsLeft = 0 /\ restartCause = "HostCrash"
RebootsIn(q) == {i \in DOMAIN q : q[i] = "host-reboot"}
RebootJobs == Cardinality(RebootsIn(jobs))
Owed == IF Exhausted THEN 0 ELSE RebootJobs
Cost ==
  IF \/ script = "idle"
     \/ script \in {"waiting", "sleeping"} /\ Exhausted
     \/ script = "counted" /\ GoesToQuiesce
  THEN 0 ELSE 1
Claimed == Owed + Cost

\* The attempt that an unheard crash will be charged, or pass without.
Unpaid == IF CrashUnheard /\ attemptsLeft > 0 THEN 1 ELSE 0
Unspent == attemptsLeft - Unpaid
Budget ==
  /\ allowance >= 0
  /\ alive => allowance >= Unspent + Claimed

BudgetInv == FollowInv /\ CrashBeforeCount /\ Budget
---------------------------------------------------------------------------
\* The sequence of a finite set's elements holds nothing else.
LEMMA SetToSeqType ==
  ASSUME NEW S, IsFiniteSet(S)
  PROVE  SetToSeq(S) \in Seq(S)
<1>1. Cardinality(S) \in Nat /\ ExistsBijection(1..Cardinality(S), S)
  BY FS_CardinalityType
<1>2. \E f \in [1..Cardinality(S) -> S] : IsInjective(f)
  <2>1. PICK f \in Bijection(1..Cardinality(S), S) : TRUE
    BY <1>1 DEF ExistsBijection
  <2>2. /\ f \in [1..Cardinality(S) -> S]
        /\ \A a, b \in 1..Cardinality(S) : f[a] = f[b] => a = b
    BY <2>1 DEF Bijection, Injection, IsInjective
  <2> QED BY <2>2 DEF IsInjective
<1>3. SetToSeq(S) \in [1..Cardinality(S) -> S]
  BY <1>2 DEF SetToSeq
<1> QED BY <1>1, <1>3

\* What follows says nothing of the values of the messages.
LEMMA ConcatElements ==
  ASSUME NEW S, NEW q \in Seq(S), NEW s \in Seq(S)
  PROVE  /\ q \o s \in Seq(S) /\ Len(q \o s) = Len(q) + Len(s)
         /\ \A i \in 1..Len(q) : (q \o s)[i] = q[i]
         /\ \A i \in 1..Len(s) : (q \o s)[Len(q) + i] = s[i]
         /\ \A i \in 1..Len(q \o s) :
              i \notin 1..Len(q) => i - Len(q) \in 1..Len(s) /\ (q \o s)[i] = s[i - Len(q)]
<1>1. q \o s \in Seq(S) /\ Len(q) \in Nat /\ Len(s) \in Nat
  OBVIOUS
<1>2. Len(q \o s) = Len(q) + Len(s)
  OBVIOUS
<1>3. \A i \in 1..Len(q) : (q \o s)[i] = q[i]
  OBVIOUS
<1>4. \A i \in 1..Len(s) : (q \o s)[Len(q) + i] = s[i]
  OBVIOUS
<1>5. \A i \in 1..Len(q \o s) :
        i \notin 1..Len(q) => i - Len(q) \in 1..Len(s) /\ (q \o s)[i] = s[i - Len(q)]
  BY <1>1, <1>2
<1> QED BY <1>1, <1>2, <1>3, <1>4, <1>5

\* Calm signals after a queue disturb nothing that is known of it.
LEMMA CalmSignals ==
  ASSUME NEW q \in Seq(Messages), NEW s \in Seq(Messages), Calm(s)
  PROVE  /\ Calm(q) => Calm(q \o s)
         /\ \A m : EndsWith(m, q) => EndsWith(m, q \o s)
         /\ \A m : Has(m, q) \/ Has(m, s) => Has(m, q \o s)
         /\ \A m : Stirs(m) /\ Has(m, q \o s) => Has(m, q)
<1>1. /\ q \o s \in Seq(Messages) /\ Len(q \o s) = Len(q) + Len(s)
      /\ Len(q) \in Nat /\ Len(s) \in Nat
      /\ \A i \in 1..Len(q) : (q \o s)[i] = q[i]
      /\ \A i \in 1..Len(s) : (q \o s)[Len(q) + i] = s[i]
      /\ \A i \in 1..Len(q \o s) :
           i \notin 1..Len(q) => i - Len(q) \in 1..Len(s) /\ (q \o s)[i] = s[i - Len(q)]
  BY ConcatElements
<1>2. \A i \in 1..Len(q \o s) : i \notin 1..Len(q) => ~Stirs((q \o s)[i])
  BY <1>1 DEF Calm
<1>3. 1..Len(q) \subseteq 1..Len(q \o s)
  BY <1>1
<1>4. \A i \in 1..Len(s) : Len(q) + i \in 1..Len(q \o s)
  BY <1>1
<1>5. Calm(q) => Calm(q \o s)
  BY <1>1, <1>2 DEF Calm
<1>6. ASSUME NEW m, EndsWith(m, q) PROVE EndsWith(m, q \o s)
  <2>1. PICK i \in 1..Len(q) : q[i] = m /\ \A j \in 1..Len(q) : j > i => ~Stirs(q[j])
    BY <1>6 DEF EndsWith
  <2>2. (q \o s)[i] = m /\ i \in 1..Len(q \o s)
    BY <1>1, <1>3, <2>1
  <2>3. \A j \in 1..Len(q \o s) : j > i => ~Stirs((q \o s)[j])
    BY <1>1, <1>2, <2>1
  <2> QED BY <2>2, <2>3 DEF EndsWith
<1>7. ASSUME NEW m, Has(m, q) \/ Has(m, s) PROVE Has(m, q \o s)
  <2>1. ASSUME NEW i \in 1..Len(q), q[i] = m PROVE Has(m, q \o s)
    BY <1>1, <1>3, <2>1 DEF Has
  <2>2. ASSUME NEW i \in 1..Len(s), s[i] = m PROVE Has(m, q \o s)
    BY <1>1, <1>4, <2>2 DEF Has
  <2> QED BY <1>7, <2>1, <2>2 DEF Has
<1>8. ASSUME NEW m, Stirs(m), Has(m, q \o s) PROVE Has(m, q)
  <2>1. PICK i \in 1..Len(q \o s) : (q \o s)[i] = m
    BY <1>8 DEF Has
  <2>2. i \in 1..Len(q)
    BY <1>2, <1>8, <2>1
  <2> QED BY <1>1, <2>1, <2>2 DEF Has
<1> QED BY <1>5, <1>6, <1>7, <1>8

\* A write at the end of the queue is the last to stir.
LEMMA AppendedWrite ==
  ASSUME NEW q \in Seq(Messages), NEW m \in Messages
  PROVE  /\ EndsWith(m, Append(q, m))
         /\ \A k : Has(k, q) => Has(k, Append(q, m))
         /\ \A k : k # m /\ Has(k, Append(q, m)) => Has(k, q)
<1>1. /\ Len(Append(q, m)) = Len(q) + 1 /\ Len(q) \in Nat
      /\ Append(q, m)[Len(q) + 1] = m
      /\ \A i \in 1..Len(q) : Append(q, m)[i] = q[i]
  OBVIOUS
<1>2. /\ Len(q) + 1 \in 1..Len(Append(q, m))
      /\ \A j \in 1..Len(Append(q, m)) : ~(j > Len(q) + 1)
      /\ \A j \in 1..Len(Append(q, m)) : j # Len(q) + 1 => j \in 1..Len(q)
      /\ \A j \in 1..Len(q) : j \in 1..Len(Append(q, m))
  BY <1>1
<1>3. EndsWith(m, Append(q, m))
  BY <1>1, <1>2 DEF EndsWith
<1>4. \A k : Has(k, q) => Has(k, Append(q, m))
  BY <1>1, <1>2 DEF Has
<1>5. \A k : k # m /\ Has(k, Append(q, m)) => Has(k, q)
  BY <1>1, <1>2 DEF Has
<1> QED BY <1>3, <1>4, <1>5

\* The head of the queue is handled, the rest stays as it was.
LEMMA TailOfQueue ==
  ASSUME NEW q \in Seq(Messages), q # <<>>
  PROVE  /\ Calm(q) => ~Stirs(Head(q)) /\ Calm(Tail(q))
         /\ \A m : EndsWith(m, q) => \/ m = Head(q) /\ Calm(Tail(q))
                                     \/ EndsWith(m, Tail(q)) /\ \E i \in 2..Len(q) : q[i] = m
         /\ \A m : Has(m, q) <=> m = Head(q) \/ Has(m, Tail(q))
         /\ Calm(Tail(q)) => \A i \in 2..Len(q) : ~Stirs(q[i])
         /\ Head(q) \in Messages /\ Tail(q) \in Seq(Messages)
<1>1. /\ Len(Tail(q)) = Len(q) - 1 /\ Len(q) \in Nat /\ Len(q) >= 1
      /\ Tail(q) \in Seq(Messages) /\ Head(q) = q[1] /\ Head(q) \in Messages
      /\ \A i \in 1..Len(Tail(q)) : Tail(q)[i] = q[i + 1]
  OBVIOUS
<1>2. /\ 1 \in 1..Len(q)
      /\ \A i \in 1..Len(Tail(q)) : i + 1 \in 1..Len(q) /\ i + 1 \in 2..Len(q)
      /\ \A i \in 1..Len(q) : i # 1 => i - 1 \in 1..Len(Tail(q)) /\ Tail(q)[i - 1] = q[i]
                                       /\ i \in 2..Len(q)
  BY <1>1
<1>3. Calm(q) => ~Stirs(Head(q)) /\ Calm(Tail(q))
  BY <1>1, <1>2 DEF Calm
<1>4. ASSUME NEW m, EndsWith(m, q)
      PROVE  \/ m = Head(q) /\ Calm(Tail(q))
             \/ EndsWith(m, Tail(q)) /\ \E i \in 2..Len(q) : q[i] = m
  <2>1. PICK i \in 1..Len(q) : q[i] = m /\ \A j \in 1..Len(q) : j > i => ~Stirs(q[j])
    BY <1>4 DEF EndsWith
  <2>2. \A j \in 1..Len(Tail(q)) : j + 1 > i => ~Stirs(Tail(q)[j])
    BY <1>1, <1>2, <2>1
  <2>3. CASE i = 1
    <3>1. \A j \in 1..Len(Tail(q)) : j + 1 > 1
      BY <1>1
    <3> QED BY <1>1, <2>1, <2>2, <2>3, <3>1 DEF Calm
  <2>4. CASE i # 1
    <3>1. i - 1 \in 1..Len(Tail(q)) /\ Tail(q)[i - 1] = m /\ i \in 2..Len(q)
      BY <1>2, <2>1, <2>4
    <3>2. \A j \in 1..Len(Tail(q)) : j > i - 1 => j + 1 > i
      BY <1>1
    <3> QED BY <2>1, <2>2, <3>1, <3>2 DEF EndsWith
  <2> QED BY <2>3, <2>4
<1>5. ASSUME NEW m PROVE Has(m, q) <=> m = Head(q) \/ Has(m, Tail(q))
  <2>1. ASSUME Has(m, q) PROVE m = Head(q) \/ Has(m, Tail(q))
    BY <1>1, <1>2, <2>1 DEF Has
  <2>2. ASSUME m = Head(q) \/ Has(m, Tail(q)) PROVE Has(m, q)
    BY <1>1, <1>2, <2>2 DEF Has
  <2> QED BY <2>1, <2>2
<1>6. Calm(Tail(q)) => \A i \in 2..Len(q) : ~Stirs(q[i])
  <2>1. \A i \in 2..Len(q) : i \in 1..Len(q) /\ i # 1
    BY <1>1
  <2> QED BY <1>2, <2>1 DEF Calm
<1> QED BY <1>1, <1>3, <1>4, <1>5, <1>6
---------------------------------------------------------------------------
\* Which messages stir CurrentHostState and which do not.
LEMMA MessageKinds ==
  /\ \A u \in Units \union {"host-crash"} : JobNew(u) \in Messages
  /\ \A u \in Units, r \in {"done", "failed"} : JobRemoved(u, r) \in Messages
  /\ \A u \in Announcing : Write(u) \in Messages /\ Stirs(Write(u))
  /\ \A u \in Units : ~Stirs(JobNew(u))
  /\ \A u \in Units, r \in {"done", "failed"} : ~Stirs(JobRemoved(u, r))
  /\ Stirs(JobNew("host-crash"))
  /\ \A u, v : Write(u) # JobNew(v) /\ (Write(u) = Write(v) => u = v)
  /\ \A u, v, r : JobRemoved(u, r) # JobNew(v) /\ Write(u) # JobRemoved(v, r)
  /\ Announcing \subseteq Units
BY DEF Messages, Units, Announcing, Stirs, JobNew, JobRemoved, Write

\* Queues of messages joined, one by one and together.
LEMMA CalmTypes ==
  /\ \A q, s \in Seq(Messages) : q \o s \in Seq(Messages)
                                 /\ (Calm(q) /\ Calm(s) => Calm(q \o s))
  /\ \A m \in Messages : <<m>> \in Seq(Messages) /\ (~Stirs(m) => Calm(<<m>>))
                         /\ Has(m, <<m>>)
  /\ <<>> \in Seq(Messages) /\ Calm(<<>>)
<1>1. ASSUME NEW q \in Seq(Messages), NEW s \in Seq(Messages)
      PROVE  q \o s \in Seq(Messages) /\ (Calm(q) /\ Calm(s) => Calm(q \o s))
  BY CalmSignals
<1>2. ASSUME NEW m \in Messages
      PROVE  <<m>> \in Seq(Messages) /\ (~Stirs(m) => Calm(<<m>>)) /\ Has(m, <<m>>)
  <2>1. <<m>> \in Seq(Messages) /\ Len(<<m>>) = 1 /\ <<m>>[1] = m
    OBVIOUS
  <2>2. \A i \in 1..1 : i = 1
    OBVIOUS
  <2>3. 1 \in 1..1
    OBVIOUS
  <2> QED BY <2>1, <2>2, <2>3 DEF Calm, Has
<1>3. <<>> \in Seq(Messages) /\ Calm(<<>>)
  BY DEF Calm
<1> QED BY <1>1, <1>2, <1>3

\* The signals of a start job stir nothing.
LEMMA InstallFacts ==
  ASSUME NEW s \in [Units -> UnitStates], NEW u \in Units
  PROVE  /\ Installed(u, s) \in [Units -> UnitStates]
         /\ InstallSignals(u, s) \in Seq(Messages) /\ Calm(InstallSignals(u, s))
<1>1. Installed(u, s) \in [Units -> UnitStates]
  BY DEF Installed, UnitStates
<1> DEFINE S == {JobRemoved(v, "done") : v \in Stopped(u, s)}
           a == <<JobNew(u)>>
           b == SetToSeq(S)
           c == IF s[u] = "active" THEN <<JobRemoved(u, "done")>> ELSE <<>>
<1>2. S \subseteq Messages /\ \A m \in S : ~Stirs(m)
  BY MessageKinds DEF Stopped
<1>3. IsFiniteSet(S)
  <2>1. S \subseteq {JobRemoved("host-stop", "done"), JobRemoved("host-startmin", "done"),
                     JobRemoved("host-quiesce", "done")}
    BY DEF Stopped, Units
  <2> HIDE DEF S
  <2>2. ASSUME NEW x, NEW y, NEW z PROVE IsFiniteSet({x, y, z})
    <3>1. IsFiniteSet({x})
      BY FS_Singleton
    <3>2. IsFiniteSet({x} \cup {y})
      BY <3>1, FS_AddElement
    <3>3. IsFiniteSet(({x} \cup {y}) \cup {z})
      BY <3>2, FS_AddElement
    <3>4. ({x} \cup {y}) \cup {z} = {x, y, z}
      OBVIOUS
    <3> QED BY <3>3, <3>4
  <2> QED BY <2>1, <2>2, FS_Subset
<1>4. b \in Seq(Messages) /\ Calm(b)
  <2> HIDE DEF S
  <2>1. SetToSeq(S) \in Seq(S)
    BY <1>3, SetToSeqType
  <2>2. \A i \in 1..Len(b) : b[i] \in S
    BY <2>1
  <2>3. b \in Seq(Messages)
    BY <1>2, <2>1
  <2> QED BY <1>2, <2>2, <2>3 DEF Calm
<1>5. a \in Seq(Messages) /\ Calm(a)
  BY MessageKinds, CalmTypes
<1>6. c \in Seq(Messages) /\ Calm(c)
  BY MessageKinds, CalmTypes
<1>7. InstallSignals(u, s) = (a \o b) \o c
  BY DEF InstallSignals
<1> HIDE DEF S, a, b, c
<1>8. a \o b \in Seq(Messages) /\ Calm(a \o b)
  BY <1>4, <1>5, CalmTypes
<1>9. (a \o b) \o c \in Seq(Messages) /\ Calm((a \o b) \o c)
  BY <1>6, <1>8, CalmTypes
<1> QED BY <1>1, <1>7, <1>9

\* The signals of systemd reach a manager that runs.
LEMMA EmittedFacts ==
  ASSUME bus \in Seq(Messages), alive \in BOOLEAN, NEW s \in Seq(Messages), Calm(s)
  PROVE  /\ Emitted(s) \in Seq(Messages) /\ (~alive => Emitted(s) = bus)
         /\ Calm(bus) => Calm(Emitted(s))
         /\ \A m : EndsWith(m, bus) => EndsWith(m, Emitted(s))
         /\ \A m : Has(m, bus) \/ (alive /\ Has(m, s)) => Has(m, Emitted(s))
         /\ \A m : Stirs(m) /\ Has(m, Emitted(s)) => Has(m, bus)
<1>1. CASE alive
  <2>1. Emitted(s) = bus \o s
    BY <1>1 DEF Emitted
  <2> QED BY <1>1, <2>1, CalmSignals, CalmTypes
<1>2. CASE ~alive
  BY <1>2 DEF Emitted
<1> QED BY <1>1, <1>2

\* How the reboot jobs change as the queue of jobs does.
LEMMA RebootJobsChange ==
  ASSUME NEW S, NEW q \in Seq(S)
  PROVE  /\ Cardinality(RebootsIn(q)) \in Nat
         /\ \A u \in S : Cardinality(RebootsIn(Append(q, u))) =
              Cardinality(RebootsIn(q)) + (IF u = "host-reboot" THEN 1 ELSE 0)
         /\ q # <<>> =>
              Cardinality(RebootsIn(Tail(q))) + (IF Head(q) = "host-reboot" THEN 1 ELSE 0)
              <= Cardinality(RebootsIn(q))
<1>1. ASSUME NEW p \in Seq(S)
      PROVE IsFiniteSet(RebootsIn(p)) /\ Cardinality(RebootsIn(p)) \in Nat
  <2>1. DOMAIN p = 1..Len(p) /\ Len(p) \in Nat /\ IsFiniteSet(1..Len(p))
    BY FS_Interval
  <2>2. RebootsIn(p) \in SUBSET (1..Len(p))
    BY <2>1 DEF RebootsIn
  <2>3. IsFiniteSet(RebootsIn(p))
    BY <2>1, <2>2, FS_Subset
  <2> QED BY <2>3, FS_CardinalityType
<1>2. ASSUME NEW u \in S
      PROVE Cardinality(RebootsIn(Append(q, u))) =
              Cardinality(RebootsIn(q)) + (IF u = "host-reboot" THEN 1 ELSE 0)
  <2>1. /\ DOMAIN Append(q, u) = 1..(Len(q) + 1) /\ Append(q, u)[Len(q) + 1] = u
        /\ \A i \in 1..Len(q) : Append(q, u)[i] = q[i]
        /\ Len(q) \in Nat /\ DOMAIN q = 1..Len(q)
    OBVIOUS
  <2>2. 1..(Len(q) + 1) = (1..Len(q)) \union {Len(q) + 1} /\ Len(q) + 1 \notin 1..Len(q)
    BY <2>1
  <2>3. Len(q) + 1 \notin RebootsIn(q)
    BY <2>1, <2>2 DEF RebootsIn
  <2>4. CASE u = "host-reboot"
    <3>1. RebootsIn(Append(q, u)) = RebootsIn(q) \union {Len(q) + 1}
      BY <2>1, <2>2, <2>4 DEF RebootsIn
    <3> QED BY <1>1, <2>3, <2>4, <3>1, FS_AddElement
  <2>5. CASE u # "host-reboot"
    <3>1. RebootsIn(Append(q, u)) = RebootsIn(q)
      BY <2>1, <2>2, <2>5 DEF RebootsIn
    <3> QED BY <1>1, <2>5, <3>1
  <2> QED BY <2>4, <2>5
<1>3. ASSUME q # <<>>
      PROVE Cardinality(RebootsIn(Tail(q))) + (IF Head(q) = "host-reboot" THEN 1 ELSE 0)
            <= Cardinality(RebootsIn(q))
  <2>1. /\ Tail(q) \in Seq(S) /\ Len(q) \in Nat \ {0}
        /\ DOMAIN Tail(q) = 1..(Len(q) - 1) /\ DOMAIN q = 1..Len(q)
        /\ \A i \in 1..(Len(q) - 1) : Tail(q)[i] = q[i + 1]
        /\ Head(q) = q[1]
    BY <1>3
  <2>2. IsFiniteSet(RebootsIn(q) \ {1})
        /\ Cardinality(RebootsIn(q) \ {1}) =
             IF 1 \in RebootsIn(q) THEN Cardinality(RebootsIn(q)) - 1
             ELSE Cardinality(RebootsIn(q))
    BY <1>1, FS_RemoveElement
  <2> DEFINE f == [i \in RebootsIn(Tail(q)) |-> i + 1]
  <2>3. \A i \in RebootsIn(Tail(q)) : i \in Nat /\ i + 1 \in RebootsIn(q) \ {1}
    BY <2>1 DEF RebootsIn
  <2>4. f \in [RebootsIn(Tail(q)) -> RebootsIn(q) \ {1}]
    BY <2>3
  <2>5. \A i, j \in RebootsIn(Tail(q)) : f[i] = f[j] => i = j
    BY <2>3
  <2>6. f \in Injection(RebootsIn(Tail(q)), RebootsIn(q) \ {1})
    BY <2>4, <2>5 DEF Injection, IsInjective
  <2>7. Cardinality(RebootsIn(Tail(q))) <= Cardinality(RebootsIn(q) \ {1})
    BY <2>2, <2>6, FS_Injection
  <2>8. 1 \in RebootsIn(q) <=> Head(q) = "host-reboot"
    BY <2>1 DEF RebootsIn
  <2>9. Cardinality(RebootsIn(Tail(q))) \in Nat /\ Cardinality(RebootsIn(q)) \in Nat
    BY <1>1, <2>1
  <2> QED BY <2>2, <2>7, <2>8, <2>9
<1> QED BY <1>1, <1>2, <1>3

\* A refill allows what the counter now says and what is under way.
LEMMA RefillFacts ==
  ASSUME TypeOK', allowance \in Int
  PROVE  /\ RebootJobs' \in Nat
         /\ Refill => allowance' = attemptsLeft' + RebootJobs'
                                    + (IF script = "idle" THEN 0 ELSE 1)
         /\ Refill \/ Account \/ Uncharged \/ UNCHANGED allowance
              => allowance' \in Int
<1>1. RebootJobs' \in Nat
  <2>1. jobs' \in Seq(TransitionUnits)
    BY DEF TypeOK
  <2>2. Cardinality(RebootsIn(jobs')) \in Nat
    BY <2>1, RebootJobsChange
  <2> QED BY <2>2 DEF RebootJobs, RebootsIn
<1>2. attemptsLeft' \in Nat
  BY DEF TypeOK
<1>3. Refill => allowance' = attemptsLeft' + RebootJobs'
                             + (IF script = "idle" THEN 0 ELSE 1)
  <2>1. UnderWay = RebootJobs' + (IF script = "idle" THEN 0 ELSE 1)
    BY Zenon DEF UnderWay, RebootJobs, RebootsIn
  <2> QED BY <1>2, <1>1, <2>1 DEF Refill
<1>4. Refill => allowance' \in Int
  BY <1>2, <1>1, <1>3 DEF Refill
<1>5. Uncharged \/ UNCHANGED allowance => allowance' \in Int
  BY DEF Uncharged
<1> QED BY <1>1, <1>3, <1>4, <1>5 DEF Account
---------------------------------------------------------------------------
\* Every step of the system is one of the manager's, or none for it.
LEMMA SystemImplementsHost ==
  SystemTypeOK /\ [SystemNext]_allVars => [Next]_hostVars
<1> SUFFICES ASSUME SystemTypeOK, [SystemNext]_allVars PROVE [Next]_hostVars
  OBVIOUS
<1>1. CASE Handle
  <2>1. Head(bus) \in Messages
    BY <1>1, TailOfQueue DEF Handle, SystemTypeOK
  <2>2. ASSUME Head(bus).member = "JobRemoved", NEW a \in Surroundings, NEW active \in BOOLEAN,
               SysStateChangeJobRemoved(Head(bus).unit, Head(bus).result, active, a)
        PROVE  Next
    <3>1. Head(bus).unit \in SignalUnits /\ Head(bus).result \in {"done", "failed"}
      BY <2>1, <2>2 DEF Messages, Units, SignalUnits
    <3> QED BY <2>2, <3>1, SystemAssumption DEF Next, Signals
  <2>3. ASSUME Head(bus).member = "JobNew", SysStateChangeJobNew(Head(bus).unit) PROVE Next
    <3>1. Head(bus).unit \in SignalUnits
      BY <2>1, <2>3 DEF Messages, Units, SignalUnits
    <3> QED BY <2>3, <3>1 DEF Next, Signals
  <2>4. ASSUME Head(bus).member = "Set", SetCurrentHostState(Announced(Head(bus).unit))
        PROVE Next
    <3>1. Announced(Head(bus).unit) \in HostStates
      BY DEF Announced, HostStates
    <3> QED BY <2>4, <3>1 DEF Next, Writes
  <2>5. \A u : IsActive(u) \in BOOLEAN
    BY DEF IsActive
  <2>6. ASSUME NEW a \in Surroundings, DieInRequest("Reboot", a) PROVE Next
    BY <2>6, SystemAssumption DEF Next, Requests, Transitions
  <2> QED BY <1>1, <2>2, <2>3, <2>4, <2>5, <2>6 DEF Handle
<1>2. CASE UserRequest
  BY <1>2, SystemAssumption DEF UserRequest, Next, Requests
<1>3. CASE ManagerDies
  BY <1>3 DEF ManagerDies, Next
<1>4. CASE ManagerStarts
  <2>1. (unit["host-startmin"] = "active") \in BOOLEAN
    OBVIOUS
  <2> QED BY <1>4, <2>1 DEF ManagerStarts, Next
<1>5. CASE CarryOut
  BY <1>5 DEF CarryOut, Next
<1>6. CASE HostCrashes
  <2>1. "HostCrash" \in RestartCauses
    BY DEF RestartCauses
  <2> QED BY <1>6, <2>1 DEF HostCrashes, Next, Writes
<1>7. CASE \E u \in Units : AnnounceTransition(u) \/ Reached(u)
  BY <1>7 DEF AnnounceTransition, Reached
<1>8. CASE BootFails \/ ScriptStarts \/ ScriptReadsCount \/ ScriptDecides \/ ScriptFails
  BY <1>8 DEF BootFails, ScriptStarts, ScriptReadsCount, ScriptDecides, ScriptFails
<1>9. CASE UNCHANGED allVars
  BY <1>9 DEF allVars
<1> QED
  BY <1>1, <1>2, <1>3, <1>4, <1>5, <1>6, <1>7, <1>8, <1>9 DEF SystemNext, Working

\* What the steps leave of the queue and of the targets.
LEMMA SystemTypePreserved ==
  TypeOK /\ TypeOK' /\ SystemTypeOK /\ [SystemNext]_allVars => SystemTypeOK'
<1> SUFFICES ASSUME TypeOK, TypeOK', SystemTypeOK, [SystemNext]_allVars PROVE SystemTypeOK'
  OBVIOUS
<1>1. \A u \in Units : StartUnit(u) =>
        bus' \in Seq(Messages) /\ unit' \in [Units -> UnitStates]
  <2>1. ASSUME NEW u \in Units, StartUnit(u)
        PROVE  bus' \in Seq(Messages) /\ unit' \in [Units -> UnitStates]
    BY <2>1, InstallFacts, EmittedFacts DEF StartUnit, SystemTypeOK, TypeOK
  <2> QED BY <2>1
<1>2. \A m \in Messages : ~Stirs(m) => Emitted(<<m>>) \in Seq(Messages)
  BY CalmTypes, EmittedFacts DEF SystemTypeOK, TypeOK
<1>3. Unanswered \in [Units -> UnitStates]
  BY DEF Unanswered, SystemTypeOK, UnitStates
<1>4. CASE Handle
  <2>1. Tail(bus) \in Seq(Messages) /\ <<>> \in Seq(Messages)
    BY <1>4, TailOfQueue DEF Handle, SystemTypeOK
  <2>2. bus' \in Seq(Messages)
    BY <1>4, <2>1 DEF Handle
  <2>3. \A u : Answered(u) \in [Units -> UnitStates]
    BY DEF Answered, SystemTypeOK, UnitStates
  <2>4. unit' \in [Units -> UnitStates]
    BY <1>3, <1>4, <2>3 DEF Handle, SystemTypeOK
  <2>5. allowance' \in Int
    BY <1>4, RefillFacts DEF Handle, SystemTypeOK
  <2> QED BY <1>4, <2>2, <2>4, <2>5 DEF Handle, SystemTypeOK
<1>5. CASE UserRequest
  <2>1. /\ \/ UNCHANGED <<unit, bus>>
           \/ unit' = Unanswered /\ bus' = <<>>
        /\ Uncharged \/ UNCHANGED allowance
        /\ UNCHANGED <<script, reading>>
    BY <1>5 DEF UserRequest
  <2>2. allowance' \in Int
    BY <2>1, RefillFacts DEF SystemTypeOK
  <2> QED BY <1>3, <2>1, <2>2, CalmTypes DEF SystemTypeOK
<1>6. CASE ManagerDies
  BY <1>3, <1>6, CalmTypes DEF ManagerDies, SystemTypeOK
<1>7. CASE ManagerStarts
  BY <1>7, RefillFacts DEF ManagerStarts, SystemTypeOK
<1>8. CASE CarryOut
  BY <1>1, <1>8 DEF CarryOut, SystemTypeOK, ScriptStates, Units
<1>9. CASE HostCrashes
  <2>1. <<JobNew("host-crash")>> \in Seq(Messages)
    BY MessageKinds, CalmTypes
  <2>2. unit' \in [Units -> UnitStates] /\ InstallSignals("host-stop", unit) \in Seq(Messages)
    BY <1>9, InstallFacts DEF HostCrashes, SystemTypeOK, Units
  <2>3. bus' \in Seq(Messages)
    <3>1. <<JobNew("host-crash")>> \o InstallSignals("host-stop", unit) \in Seq(Messages)
      BY <2>1, <2>2, CalmTypes
    <3> QED BY <1>9, <3>1, CalmTypes DEF HostCrashes, Emitted, SystemTypeOK
  <2> QED BY <1>9, <2>2, <2>3 DEF HostCrashes, SystemTypeOK, ScriptStates
<1>10. ASSUME NEW u \in Units, AnnounceTransition(u) PROVE SystemTypeOK'
  <2>1. unit' \in [Units -> UnitStates]
    BY <1>10 DEF AnnounceTransition, SystemTypeOK, UnitStates
  <2>2. bus' \in Seq(Messages)
    <3>1. u \in Announcing => Append(bus, Write(u)) \in Seq(Messages)
      BY MessageKinds DEF SystemTypeOK
    <3> QED BY <1>10, <3>1 DEF AnnounceTransition, SystemTypeOK, Announcing
  <2> QED BY <1>10, <2>1, <2>2 DEF AnnounceTransition, SystemTypeOK
<1>11. ASSUME NEW u \in Units, Reached(u) PROVE SystemTypeOK'
  <2>1. unit' \in [Units -> UnitStates]
    BY <1>11 DEF Reached, SystemTypeOK, UnitStates
  <2>2. bus' \in Seq(Messages)
    BY <1>2, <1>11, MessageKinds DEF Reached
  <2> QED BY <1>11, <2>1, <2>2 DEF Reached, SystemTypeOK
<1>12. CASE BootFails
  <2> DEFINE failed == [unit EXCEPT !["host-startmin"] = "inactive"]
  <2>1. failed \in [Units -> UnitStates] /\ "host-quiesce" \in Units
    BY DEF SystemTypeOK, UnitStates, Units
  <2>2. /\ unit' = Installed("host-quiesce", failed)
        /\ bus' = Emitted(<<JobRemoved("host-startmin", "failed")>>
                            \o InstallSignals("host-quiesce", failed))
    BY <1>12 DEF BootFails
  <2> HIDE DEF failed
  <2>3. /\ Installed("host-quiesce", failed) \in [Units -> UnitStates]
        /\ InstallSignals("host-quiesce", failed) \in Seq(Messages)
        /\ Calm(InstallSignals("host-quiesce", failed))
    BY <2>1, InstallFacts
  <2>4. JobRemoved("host-startmin", "failed") \in Messages
        /\ ~Stirs(JobRemoved("host-startmin", "failed"))
    BY MessageKinds DEF Units
  <2>5. /\ <<JobRemoved("host-startmin", "failed")>> \o InstallSignals("host-quiesce", failed)
             \in Seq(Messages)
        /\ Calm(<<JobRemoved("host-startmin", "failed")>>
                  \o InstallSignals("host-quiesce", failed))
    BY <2>3, <2>4, CalmTypes
  <2>6. bus' \in Seq(Messages)
    BY <2>2, <2>5, EmittedFacts DEF SystemTypeOK, TypeOK
  <2> QED BY <1>12, <2>2, <2>3, <2>6 DEF BootFails, SystemTypeOK
<1>13. CASE ScriptStarts \/ ScriptReadsCount \/ ScriptFails
  BY <1>13 DEF ScriptStarts, ScriptReadsCount, ScriptFails, SystemTypeOK, TypeOK, ScriptStates
<1>14. CASE ScriptDecides
  BY <1>1, <1>14 DEF ScriptDecides, SystemTypeOK, ScriptStates, Units
<1>15. CASE UNCHANGED allVars
  BY <1>15 DEF allVars, systemVars, SystemTypeOK
<1> QED
  BY <1>4, <1>5, <1>6, <1>7, <1>8, <1>9, <1>10, <1>11, <1>12, <1>13, <1>14, <1>15
  DEF SystemNext, Working

\* Types hold in the manager and around it.
LEMMA SystemTypes == SystemSpec => [](TypeOK /\ SystemTypeOK)
<1>1. SystemInit => TypeOK /\ SystemTypeOK
  <2> SUFFICES ASSUME SystemInit PROVE TypeOK /\ SystemTypeOK
    OBVIOUS
  <2>1. TypeOK
    BY InitType DEF SystemInit
  <2>2. bus \in Seq(Messages)
    BY CalmTypes DEF SystemInit
  <2>3. unit \in [Units -> UnitStates]
    BY DEF SystemInit, UnitStates
  <2> QED BY <2>1, <2>2, <2>3 DEF SystemInit, SystemTypeOK, ScriptStates
<1>2. TypeOK /\ SystemTypeOK /\ [SystemNext]_allVars => TypeOK' /\ SystemTypeOK'
  BY SystemImplementsHost, SystemTypePreserved, NextType
<1> QED BY <1>1, <1>2, PTL DEF SystemSpec

\* The closed system is the open manager of Host with an environment: what
\* holds of the manager for every order of signals, writes and deaths holds
\* of it among systemd, the services, the script and the users.
THEOREM HostSystemRefinesHost == SystemSpec => Spec
<1>1. SystemInit => Init
  BY DEF SystemInit
<1>2. SystemTypeOK /\ [SystemNext]_allVars => [Next]_hostVars
  BY SystemImplementsHost
<1> QED BY <1>1, <1>2, SystemTypes, PTL DEF SystemSpec, Spec
---------------------------------------------------------------------------
\* What a start job does to the targets.
LEMMA InstalledFacts ==
  ASSUME NEW s \in [Units -> UnitStates], NEW u \in Units
  PROVE  /\ \A v \in Units : v # u => Installed(u, s)[v] \in {s[v], "inactive"}
         /\ Installed(u, s)[u] = IF s[u] = "active" THEN "active" ELSE "queued"
         /\ Exclusive(s) => Exclusive(Installed(u, s))
         /\ u = "host-stop" => /\ Installed(u, s)["host-startmin"] = "inactive"
                               /\ Installed(u, s)["host-quiesce"] = "inactive"
         /\ u # "host-stop" => Installed(u, s)["host-stop"] = "inactive"
<1>1. \A v \in Units : Installed(u, s)[v] =
        IF v = u THEN IF s[u] = "active" THEN "active" ELSE "queued"
        ELSE IF v \in Stopped(u, s) THEN "inactive" ELSE s[v]
  BY DEF Installed
<1>2. u = "host-stop" => /\ Installed(u, s)["host-startmin"] = "inactive"
                         /\ Installed(u, s)["host-quiesce"] = "inactive"
  BY <1>1 DEF Stopped, Conflicts, Units
<1>3. u # "host-stop" => Installed(u, s)["host-stop"] = "inactive"
  BY <1>1 DEF Stopped, Conflicts, Units
<1>4. Exclusive(Installed(u, s))
  BY <1>2, <1>3 DEF Exclusive, Units
<1> QED BY <1>1, <1>2, <1>3, <1>4

\* The two targets and the signals of a failed boot.
LEMMA BootFailsFacts ==
  ASSUME unit \in [Units -> UnitStates], Exclusive(unit), BootFails
  PROVE  /\ unit' \in [Units -> UnitStates] /\ Exclusive(unit')
         /\ unit["host-startmin"] = "starting"
         /\ unit'["host-stop"] = "inactive" /\ unit'["host-startmin"] = "inactive"
         /\ unit["host-quiesce"] = "active" <=> unit'["host-quiesce"] = "active"
         /\ \A u \in Units : unit'[u] # "announcing"
         /\ \E s \in Seq(Messages) : Calm(s) /\ bus' = Emitted(s)
<1> DEFINE failed == [unit EXCEPT !["host-startmin"] = "inactive"]
<1>1. failed \in [Units -> UnitStates] /\ "host-quiesce" \in Units
  BY DEF UnitStates, Units
<1>2. \A u \in Units : failed[u] = IF u = "host-startmin" THEN "inactive" ELSE unit[u]
  OBVIOUS
<1>3. Exclusive(failed)
  BY <1>2 DEF Exclusive, Units
<1>4. /\ unit' = Installed("host-quiesce", failed)
      /\ bus' = Emitted(<<JobRemoved("host-startmin", "failed")>>
                          \o InstallSignals("host-quiesce", failed))
      /\ unit["host-startmin"] = "starting"
  BY DEF BootFails
<1> HIDE DEF failed
<1>5. /\ unit' \in [Units -> UnitStates] /\ Exclusive(unit')
      /\ InstallSignals("host-quiesce", failed) \in Seq(Messages)
      /\ Calm(InstallSignals("host-quiesce", failed))
  BY <1>1, <1>3, <1>4, InstallFacts, InstalledFacts
<1>6. JobRemoved("host-startmin", "failed") \in Messages
      /\ ~Stirs(JobRemoved("host-startmin", "failed"))
  BY MessageKinds DEF Units
<1>7. /\ <<JobRemoved("host-startmin", "failed")>> \o InstallSignals("host-quiesce", failed)
           \in Seq(Messages)
      /\ Calm(<<JobRemoved("host-startmin", "failed")>>
                \o InstallSignals("host-quiesce", failed))
  BY <1>5, <1>6, CalmTypes
<1>8. unit["host-stop"] = "inactive"
  BY <1>4 DEF Exclusive
<1>9. /\ unit'["host-stop"] = "inactive" /\ unit'["host-startmin"] = "inactive"
      /\ unit'["host-quiesce"] = IF unit["host-quiesce"] = "active" THEN "active" ELSE "queued"
  BY <1>1, <1>2, <1>4, <1>8, InstalledFacts DEF Units
<1>10. \A u \in Units : unit'[u] # "announcing"
  BY <1>9 DEF Units
<1> QED BY <1>4, <1>5, <1>7, <1>9, <1>10

\* A request of a user leaves the state of the host; the process lives, or it
\* dies over the request.
LEMMA UserRequestFacts ==
  ASSUME UserRequest
  PROVE  /\ alive
         /\ UNCHANGED <<current, runningFile, script, reading, restartCause, retryAttempts>>
         /\ \/ alive' /\ UNCHANGED <<unit, bus>>
            \/ /\ ~alive' /\ bus' = <<>> /\ unit' = Unanswered
               /\ UNCHANGED <<attemptsLeft, allowance>>
BY DEF UserRequest, RequestedHostTransition, DieInRequest, Execute, hostVars, props

\* A request takes attempts away, never adds any, and asks for one unit.
LEMMA UserCharge ==
  ASSUME attemptsLeft \in Nat, UserRequest
  PROVE  /\ attemptsLeft' \in Nat /\ attemptsLeft' <= attemptsLeft
         /\ \/ jobs' = jobs
            \/ \E t \in UserTransitions : jobs' = Append(jobs, UnitOf(t))
<1>1. PICK t \in UserTransitions, a \in Surroundings :
        RequestedHostTransition(t, a) \/ DieInRequest(t, a)
  BY DEF UserRequest
<1>2. Charge(t) => attemptsLeft' \in Nat /\ attemptsLeft' <= attemptsLeft
  BY DEF Charge, Decremented
<1>3. CASE Execute(t)
  BY <1>2, <1>3 DEF Execute
<1>4. CASE Charge(t) /\ jobs' = jobs
  BY <1>2, <1>4
<1>5. CASE UNCHANGED hostVars
  BY <1>5 DEF hostVars, props
<1>6. CASE DieInRequest(t, a)
  BY <1>6 DEF DieInRequest, props
<1> QED BY <1>1, <1>3, <1>4, <1>5, <1>6 DEF RequestedHostTransition

\* The process ends in a handler or goes on with the rest of its inbox.
LEMMA HandleEnds ==
  ASSUME TypeOK, Handle
  PROVE  /\ alive
         /\ \/ ~alive' /\ bus' = <<>> /\ unit' = Unanswered
            \/ alive' /\ bus' = Tail(bus)
<1>1. bus' = IF alive' THEN Tail(bus) ELSE <<>>
  BY DEF Handle
<1>2. ASSUME NEW u, NEW r, NEW a, SysStateChangeJobRemoved(u, r, IsActive(u), a)
      PROVE  alive
  BY <1>2 DEF SysStateChangeJobRemoved
<1>3. ASSUME NEW a, DieInRequest("Reboot", a) PROVE alive
  BY <1>3 DEF DieInRequest
<1>4. ASSUME NEW u, SysStateChangeJobNew(u) \/ SetCurrentHostState(Announced(u))
      PROVE  alive
  BY <1>4 DEF SysStateChangeJobNew, SetCurrentHostState
<1>5. alive
  BY <1>2, <1>3, <1>4 DEF Handle
<1>6. ~alive' => unit' = Unanswered
  BY DEF Handle, SysStateChangeJobNew, SetCurrentHostState
<1> QED BY <1>1, <1>5, <1>6

\* Each part of Basics holds after a step: only a start job and an answer
\* move a target from or to inactive, and both respect the conflicts.
LEMMA BasicsPreserved == Basics /\ [SystemNext]_allVars => Basics'
<1> SUFFICES ASSUME Basics, [SystemNext]_allVars PROVE Basics'
  OBVIOUS
<1>1. TypeOK' /\ SystemTypeOK'
  BY SystemImplementsHost, SystemTypePreserved, NextType DEF Basics
<1>2. TypeOK /\ unit \in [Units -> UnitStates] /\ Exclusive(unit)
  BY DEF Basics, SystemTypeOK
<1> DEFINE Missing == ~alive => bus = <<>> /\ \A u \in Units : unit[u] # "announcing"
<1>3. SUFFICES Exclusive(unit') /\ Missing'
  BY <1>1 DEF Basics, Exclusive
<1>4. \A u \in Units :
        /\ Unanswered[u] # "announcing"
        /\ Unanswered[u] = "inactive" <=> unit[u] = "inactive"
  BY DEF Unanswered
<1>5. Exclusive(Unanswered)
  BY <1>2, <1>4 DEF Exclusive, Units
<1>6. CASE Handle
  <2>1. ASSUME NEW v PROVE Exclusive(Answered(v))
    BY <1>2 DEF Answered, Awaits, Exclusive, Units
  <2>2. Exclusive(unit')
    BY <1>2, <1>5, <1>6, <2>1 DEF Handle
  <2>3. Missing'
    BY <1>2, <1>4, <1>6, HandleEnds
  <2> QED BY <2>2, <2>3
<1>7. CASE UserRequest
  BY <1>2, <1>4, <1>5, <1>7, UserRequestFacts
<1>8. CASE ManagerDies
  BY <1>2, <1>4, <1>5, <1>8 DEF ManagerDies, Die
<1>9. CASE ManagerStarts
  BY <1>2, <1>9 DEF ManagerStarts, Start
<1>10. ASSUME NEW u \in Units, StartUnit(u), UNCHANGED alive
       PROVE  Exclusive(unit') /\ Missing'
  <2>1. Exclusive(unit')
    BY <1>2, <1>10, InstalledFacts DEF StartUnit
  <2>2. Missing'
    BY <1>2, <1>10, InstalledFacts DEF StartUnit, Emitted, Basics
  <2> QED BY <1>2, <1>10, <2>1, <2>2
<1>11. CASE CarryOut
  BY <1>10, <1>11 DEF CarryOut, SystemdTakes, Units
<1>12. CASE HostCrashes
  <2>1. alive'
    BY <1>2, <1>12 DEF HostCrashes, SetRestartCause
  <2>2. Exclusive(unit')
    BY <1>2, <1>12, InstalledFacts DEF HostCrashes, Units
  <2> QED BY <2>1, <2>2
<1>13. ASSUME NEW u \in Units, AnnounceTransition(u)
       PROVE  Exclusive(unit') /\ Missing'
  <2>1. Exclusive(unit')
    BY <1>2, <1>13 DEF AnnounceTransition, Exclusive, Units, hostVars
  <2>2. Missing'
    BY <1>2, <1>13 DEF AnnounceTransition, Units, hostVars, Basics
  <2> QED BY <2>1, <2>2
<1>14. ASSUME NEW u \in Units, Reached(u)
       PROVE  Exclusive(unit') /\ Missing'
  <2>1. Exclusive(unit')
    BY <1>2, <1>14 DEF Reached, Exclusive, Units, hostVars
  <2>2. Missing'
    BY <1>2, <1>14 DEF Reached, Units, hostVars, Basics, Emitted
  <2> QED BY <2>1, <2>2
<1>15. CASE BootFails
  <2>1. Exclusive(unit') /\ \A u \in Units : unit'[u] # "announcing"
    BY <1>2, <1>15, BootFailsFacts
  <2>2. alive' = alive /\ (~alive => bus' = bus)
    BY <1>2, <1>15 DEF BootFails, hostVars, Emitted
  <2> QED BY <2>1, <2>2 DEF Basics
<1>16. CASE ScriptStarts \/ ScriptReadsCount \/ ScriptFails
  BY <1>2, <1>16 DEF ScriptStarts, ScriptReadsCount, ScriptFails, hostVars, Basics
<1>17. CASE ScriptDecides
  BY <1>10, <1>17 DEF ScriptDecides, hostVars, Units
<1>18. CASE UNCHANGED allVars
  BY <1>2, <1>18 DEF allVars, systemVars, hostVars, Basics
<1> QED
  BY <1>6, <1>7, <1>8, <1>9, <1>11, <1>12, <1>13, <1>14, <1>15, <1>16, <1>17, <1>18
  DEF SystemNext, Working
---------------------------------------------------------------------------
\* The write that is answered is the one the head of the inbox holds.
LEMMA HandleUnits ==
  ASSUME Basics, Handle, alive'
  PROVE  /\ bus' = Tail(bus) /\ bus # <<>> /\ Head(bus) \in Messages
         /\ \/ Head(bus).member # "Set" /\ unit' = unit
            \/ \E u \in Announcing : /\ Head(bus) = Write(u) /\ unit' = Answered(u)
                                     /\ current' = Announced(u)
<1>1. bus' = Tail(bus) /\ bus # <<>> /\ Head(bus) \in Messages
  BY HandleEnds, TailOfQueue DEF Handle, Basics, SystemTypeOK
<1>2. Head(bus).member = "Set" =>
        Head(bus).unit \in Announcing /\ Head(bus) = Write(Head(bus).unit)
  BY <1>1 DEF Messages, Announcing, Write
<1> QED BY <1>1, <1>2 DEF Handle, SetCurrentHostState

---------------------------------------------------------------------------
\* A handler that goes on sets the state of a decisive target, or leaves it.
LEMMA HandleKnows ==
  ASSUME Basics, TargetIsKnown, Handle, alive', NEW u \in Announcing, Decisive(u)'
  PROVE  (Reflected(u)' /\ Calm(bus')) \/ EndsWith(JobRemoved(u, "done"), bus')
<1> DEFINE Reaching == JobRemoved(u, "done")
<1>1. /\ bus' = Tail(bus) /\ bus # <<>> /\ Head(bus) \in Messages /\ alive
      /\ \/ Head(bus).member # "Set" /\ unit' = unit
         \/ \E v \in Announcing : Head(bus) = Write(v) /\ unit' = Answered(v)
  BY HandleUnits, HandleEnds DEF Basics
<1>2. /\ unit \in [Units -> UnitStates] /\ bus \in Seq(Messages) /\ u \in Units
      /\ Exclusive(unit)
  BY MessageKinds DEF Basics, SystemTypeOK
<1>3. Decisive(u)
  <2>1. \A w \in Units : unit'[w] = "active" <=> unit[w] = "active"
    BY <1>1, <1>2 DEF Answered, Awaits
  <2> QED BY <1>2, <2>1 DEF Decisive, Units
<1>4. (Reflected(u) /\ Calm(bus)) \/ EndsWith(Reaching, bus)
  BY <1>1, <1>3 DEF TargetIsKnown
<1>5. /\ Calm(bus) => ~Stirs(Head(bus)) /\ Calm(Tail(bus))
      /\ EndsWith(Reaching, bus) => \/ Reaching = Head(bus) /\ Calm(Tail(bus))
                                    \/ EndsWith(Reaching, Tail(bus))
  <2> HIDE DEF Reaching
  <2> QED BY <1>1, <1>2, TailOfQueue
<1> HIDE DEF Reaching
<1>6. ASSUME current' = current, Reaching # Head(bus)
      PROVE  (Reflected(u)' /\ Calm(bus')) \/ EndsWith(Reaching, bus')
  BY <1>1, <1>4, <1>5, <1>6 DEF Reflected
<1>7. CASE Head(bus).member = "Set"
  <2>1. Stirs(Head(bus)) /\ Reaching # Head(bus)
    BY <1>7 DEF Stirs, Reaching, JobRemoved
  <2>2. EndsWith(Reaching, bus')
    BY <1>1, <1>4, <1>5, <2>1
  <2> QED BY <2>2 DEF Reaching
<1>8. CASE Head(bus).member = "JobNew"
  <2>1. SysStateChangeJobNew(Head(bus).unit)
    BY <1>8 DEF Handle
  <2>2. Head(bus).unit # "host-diagnostic-mode"
    BY <1>1, <1>8 DEF Messages, Units
  <2>3. current' = current /\ Reaching # Head(bus)
    BY <1>8, <2>1, <2>2 DEF SysStateChangeJobNew, JobRemoved, Reaching
  <2> QED BY <1>6, <2>3 DEF Reaching
<1>9. CASE Head(bus).member = "JobRemoved"
  <2> DEFINE v == Head(bus).unit
             r == Head(bus).result
  <2>1. PICK a \in Surroundings : SysStateChangeJobRemoved(v, r, IsActive(v), a)
    BY <1>9 DEF Handle, DieInRequest
  <2>2. v \in Units /\ r \in {"done", "failed"} /\ Head(bus) = JobRemoved(v, r)
    BY <1>1, <1>9 DEF Messages, JobRemoved
  <2>3. CASE r = "done" /\ unit[v] = "active"
    <3>1. v = u
      BY <1>2, <1>3, <2>2, <2>3 DEF Decisive, Exclusive, Units, Announcing
    <3>2. u = "host-stop" => HostIsOff
      BY <2>1, <2>2, <2>3, <3>1 DEF SysStateChangeJobRemoved, Happened, IsActive
    <3>3. u = "host-startmin" => HostIsRunning
      BY <2>1, <2>2, <2>3, <3>1 DEF SysStateChangeJobRemoved, Happened, IsActive
    <3>4. Reflected(u)'
      BY <3>2, <3>3 DEF HostIsOff, HostIsRunning, Reflected, Announcing
    <3> QED BY <1>1, <1>4, <1>5, <3>4 DEF Reaching
  <2>4. CASE ~(r = "done" /\ unit[v] = "active")
    <3>1. current' = current
      BY <2>1, <2>2, <2>4 DEF SysStateChangeJobRemoved, Happened, IsActive, hostVars, props
    <3>2. Reaching # Head(bus)
      BY <1>3, <2>2, <2>4 DEF JobRemoved, Decisive, Reaching
    <3> QED BY <1>6, <3>1, <3>2 DEF Reaching
  <2> QED BY <2>3, <2>4
<1> QED BY <1>1, <1>7, <1>8, <1>9 DEF Messages

\* A target becomes decisive with the signal that says so, and stays known:
\* while it is active no other target in conflict is announced.
LEMMA TargetKnownPreserved ==
  Basics /\ TargetIsKnown /\ [SystemNext]_allVars => TargetIsKnown'
<1> SUFFICES ASSUME Basics, TargetIsKnown, [SystemNext]_allVars, alive',
                    NEW u \in Announcing, Decisive(u)'
             PROVE  (Reflected(u)' /\ Calm(bus')) \/ EndsWith(JobRemoved(u, "done"), bus')
  BY DEF TargetIsKnown, EndsWith, Calm, Stirs, JobRemoved
<1> DEFINE Reaching == JobRemoved(u, "done")
           Known == (Reflected(u)' /\ Calm(bus')) \/ EndsWith(Reaching, bus')
<1>1. /\ unit \in [Units -> UnitStates] /\ bus \in Seq(Messages) /\ alive \in BOOLEAN
      /\ u \in Units /\ Exclusive(unit)
  BY MessageKinds DEF Basics, SystemTypeOK, TypeOK
<1>2. alive /\ Decisive(u) => (Reflected(u) /\ Calm(bus)) \/ EndsWith(Reaching, bus)
  BY DEF TargetIsKnown
<1> HIDE DEF Reaching
<1>3. ASSUME alive, Decisive(u), current' = current,
             NEW s \in Seq(Messages), Calm(s), bus' = Emitted(s)
      PROVE  Known
  <2>1. /\ Calm(bus) => Calm(bus')
        /\ EndsWith(Reaching, bus) => EndsWith(Reaching, bus')
    BY <1>1, <1>3, EmittedFacts
  <2> QED BY <1>2, <1>3, <2>1 DEF Reflected
<1>4. ASSUME UNCHANGED <<alive, bus, current>>, Decisive(u) PROVE Known
  BY <1>2, <1>4 DEF Reflected
<1>5. CASE Handle
  BY <1>5, HandleKnows DEF Reaching
<1>6. CASE UserRequest
  BY <1>4, <1>6, UserRequestFacts DEF Decisive, Reaching
<1>7. CASE ManagerDies
  BY <1>7 DEF ManagerDies, Die
<1>8. CASE ManagerStarts
  <2>1. PICK firmware \in BOOLEAN :
          /\ firmware => unit["host-stop"] # "active"
          /\ Start(unit["host-startmin"] = "active", firmware)
    BY <1>8 DEF ManagerStarts
  <2>2. /\ current' = IF unit["host-startmin"] = "active" \/ firmware THEN "Running" ELSE "Off"
        /\ unit' = unit /\ bus' = <<>>
    BY <1>8, <2>1 DEF ManagerStarts, Start, Basics
  <2>3. Reflected(u)'
    BY <1>1, <2>1, <2>2 DEF Decisive, Reflected, Exclusive, Announcing
  <2> QED BY <2>2, <2>3, CalmTypes
<1>9. ASSUME NEW v \in Units, StartUnit(v), UNCHANGED <<alive, current>> PROVE Known
  <2>1. /\ InstallSignals(v, unit) \in Seq(Messages) /\ Calm(InstallSignals(v, unit))
        /\ bus' = Emitted(InstallSignals(v, unit))
    BY <1>1, <1>9, InstallFacts DEF StartUnit
  <2>2. \A w \in Units : /\ unit'[w] = "active" => unit[w] = "active"
                         /\ w # v => unit'[w] \in {unit[w], "inactive"}
                         /\ w = v /\ unit[w] = "active" => unit'[w] = "active"
    BY <1>1, <1>9, InstalledFacts DEF StartUnit
  <2>3. v = "host-stop" => unit'["host-startmin"] = "inactive"
    BY <1>1, <1>9, InstalledFacts DEF StartUnit
  <2>4. unit' = Installed(v, unit)
    BY <1>9 DEF StartUnit
  <2>5. Decisive(u)
    BY <1>1, <2>2, <2>3, <2>4 DEF Decisive, Announcing, Units, Installed, Stopped, Conflicts
  <2> QED BY <1>3, <1>9, <2>1, <2>5
<1>10. CASE CarryOut
  BY <1>9, <1>10 DEF CarryOut, SystemdTakes, Units, props, Reaching
<1>11. CASE HostCrashes
  <2>1. unit["host-startmin"] # "inactive" /\ unit' = Installed("host-stop", unit)
    BY <1>11 DEF HostCrashes
  <2>2. unit["host-stop"] = "inactive"
    BY <1>1, <2>1 DEF Exclusive
  <2>3. unit'["host-stop"] = "queued" /\ unit'["host-startmin"] = "inactive"
    BY <1>1, <2>1, <2>2, InstalledFacts DEF Units
  <2> QED BY <2>3 DEF Announcing, Decisive
<1>12. ASSUME NEW v \in Units, AnnounceTransition(v) PROVE Known
  <2>1. /\ UNCHANGED <<alive, current>> /\ unit[v] = "queued"
        /\ \A w \in Units : w # v => unit'[w] = unit[w]
        /\ unit'[v] # "active"
    BY <1>1, <1>12 DEF AnnounceTransition, hostVars, props
  <2>2. Decisive(u)
    BY <1>1, <2>1 DEF Decisive, Units
  <2>3. v \notin Announcing
    BY <1>1, <2>1, <2>2 DEF Decisive, Exclusive, Announcing
  <2>4. bus' = bus
    BY <1>12, <2>3 DEF AnnounceTransition, Announcing
  <2> QED BY <1>4, <2>1, <2>2, <2>4
<1>13. ASSUME NEW v \in Units, Reached(v) PROVE Known
  <2>1. /\ <<JobRemoved(v, "done")>> \in Seq(Messages) /\ Calm(<<JobRemoved(v, "done")>>)
        /\ JobRemoved(v, "done") \in Messages /\ ~Stirs(JobRemoved(v, "done"))
        /\ bus' = Emitted(<<JobRemoved(v, "done")>>) /\ UNCHANGED <<alive, current>>
    BY <1>13, MessageKinds, CalmTypes DEF Reached, hostVars, props
  <2>2. CASE u = v
    <3>1. bus' = Append(bus, Reaching)
      BY <1>1, <2>1, <2>2 DEF Emitted, Reaching
    <3> QED BY <1>1, <2>1, <2>2, <3>1, AppendedWrite DEF Reaching
  <2>3. CASE u # v
    <3>1. Decisive(u)
      BY <1>1, <1>13, <2>3 DEF Decisive, Reached
    <3> QED BY <1>3, <2>1, <3>1
  <2> QED BY <2>2, <2>3
<1>14. CASE BootFails
  <2>1. unit'["host-stop"] = "inactive" /\ unit'["host-startmin"] = "inactive"
    BY <1>1, <1>14, BootFailsFacts
  <2> QED BY <2>1 DEF Announcing, Decisive
<1>15. CASE ScriptStarts \/ ScriptReadsCount \/ ScriptFails
  BY <1>4, <1>15 DEF ScriptStarts, ScriptReadsCount, ScriptFails, hostVars, props, Decisive, Reaching
<1>16. CASE ScriptDecides
  BY <1>9, <1>16 DEF ScriptDecides, hostVars, props, Units, Reaching
<1>17. CASE UNCHANGED allVars
  BY <1>4, <1>17 DEF allVars, systemVars, hostVars, props, Decisive, Reaching
<1> QED
  BY <1>5, <1>6, <1>7, <1>8, <1>10, <1>11, <1>12, <1>13, <1>14, <1>15, <1>16, <1>17
  DEF SystemNext, Working, Reaching

\* The invariant behind StateFollowsTargets holds in every behaviour.
LEMMA FollowInvHolds == SystemSpec => []FollowInv
<1>1. SystemInit => FollowInv
  <2> SUFFICES ASSUME SystemInit PROVE FollowInv
    OBVIOUS
  <2>1. TypeOK /\ bus \in Seq(Messages) /\ unit \in [Units -> UnitStates]
    BY InitType, CalmTypes DEF SystemInit, UnitStates
  <2>2. Basics
    BY <2>1 DEF SystemInit, Init, Basics, SystemTypeOK, ScriptStates, Exclusive, Units
  <2> QED BY <2>2 DEF FollowInv, TargetIsKnown, SystemInit, Init
<1>2. FollowInv /\ [SystemNext]_allVars => FollowInv'
  BY BasicsPreserved, TargetKnownPreserved DEF FollowInv
<1> QED BY <1>1, <1>2, PTL DEF SystemSpec

\* Once everything has settled CurrentHostState is the state systemd is in,
\* for every bound on requests, crashes and deaths: targets that replace each
\* other and handlers that see them too late never leave a wrong state behind.
THEOREM HostStateFollowsTargets == SystemSpec => []StateFollowsTargets
<1>1. FollowInv => StateFollowsTargets
  <2> SUFFICES ASSUME FollowInv, Settled PROVE StateFollowsTargets
    BY DEF StateFollowsTargets
  <2>1. \A u : ~EndsWith(JobRemoved(u, "done"), bus)
    BY DEF Settled, EndsWith
  <2>2. alive /\ TargetIsKnown
    BY DEF Settled, FollowInv
  <2>3. /\ Decisive("host-stop") => Reflected("host-stop")
        /\ Decisive("host-startmin") => Reflected("host-startmin")
    BY <2>1, <2>2 DEF TargetIsKnown, Announcing
  <2> QED BY <2>3 DEF Decisive, Reflected, StateFollowsTargets
<1> QED BY <1>1, FollowInvHolds, PTL
---------------------------------------------------------------------------
\* A second crash does not come into the queue with what else does.
LEMMA CrashOnceFacts ==
  ASSUME NEW q \in Seq(Messages)
  PROVE  /\ \A s \in Seq(Messages) : CrashOnce(q) /\ Calm(s) => CrashOnce(q \o s)
         /\ \A m \in Messages : CrashOnce(q) /\ m # JobNew("host-crash")
                              => CrashOnce(Append(q, m))
         /\ ~Has(JobNew("host-crash"), q) => CrashOnce(Append(q, JobNew("host-crash")))
         /\ q # <<>> /\ CrashOnce(q) =>
              /\ CrashOnce(Tail(q))
              /\ Head(q) = JobNew("host-crash") => ~Has(JobNew("host-crash"), Tail(q))
<1> DEFINE crash == JobNew("host-crash")
<1>1. Stirs(crash)
  BY MessageKinds
<1>2. \A p : CrashOnce(p) <=>
        \A i, j \in 1..Len(p) : p[i] = crash /\ p[j] = crash => i = j
  BY DEF CrashOnce
<1>3. \A p : Has(crash, p) <=> \E i \in 1..Len(p) : p[i] = crash
  BY DEF Has
<1> HIDE DEF crash
<1>4. ASSUME NEW s \in Seq(Messages), CrashOnce(q), Calm(s) PROVE CrashOnce(q \o s)
  <2>1. /\ Len(q) \in Nat /\ Len(q \o s) \in Nat
        /\ \A i \in 1..Len(q) : (q \o s)[i] = q[i]
        /\ \A i \in 1..Len(q \o s) :
             i \notin 1..Len(q) => i - Len(q) \in 1..Len(s) /\ (q \o s)[i] = s[i - Len(q)]
    BY ConcatElements
  <2>2. \A i \in 1..Len(q \o s) : (q \o s)[i] = crash => i \in 1..Len(q)
    BY <1>1, <1>4, <2>1 DEF Calm
  <2> QED BY <1>2, <1>4, <2>1, <2>2
<1>5. ASSUME NEW m \in Messages, CrashOnce(q), m = crash => ~Has(crash, q)
      PROVE  CrashOnce(Append(q, m))
  <2>1. /\ Len(Append(q, m)) = Len(q) + 1 /\ Len(q) \in Nat
        /\ Append(q, m)[Len(q) + 1] = m
        /\ \A i \in 1..Len(q) : Append(q, m)[i] = q[i]
    OBVIOUS
  <2>2. \A i \in 1..Len(Append(q, m)) : i \in 1..Len(q) \/ i = Len(q) + 1
    BY <2>1
  <2> QED BY <1>2, <1>3, <1>5, <2>1, <2>2
<1>6. ~Has(crash, q) => CrashOnce(q)
  BY <1>2, <1>3
<1>7. ASSUME q # <<>>, CrashOnce(q)
      PROVE  CrashOnce(Tail(q)) /\ (Head(q) = crash => ~Has(crash, Tail(q)))
  <2>1. /\ Len(Tail(q)) = Len(q) - 1 /\ Len(q) \in Nat /\ Len(q) >= 1 /\ Head(q) = q[1]
        /\ \A i \in 1..Len(Tail(q)) : Tail(q)[i] = q[i + 1]
    BY <1>7
  <2>2. /\ 1 \in 1..Len(q)
        /\ \A i \in 1..Len(Tail(q)) : i + 1 \in 1..Len(q) /\ i + 1 # 1
        /\ \A i, j \in 1..Len(Tail(q)) : i + 1 = j + 1 => i = j
    BY <2>1
  <2>3. CrashOnce(Tail(q))
    BY <1>2, <1>7, <2>1, <2>2
  <2>4. ASSUME Head(q) = crash, NEW i \in 1..Len(Tail(q)), Tail(q)[i] = crash PROVE FALSE
    <3>1. q[1] = crash /\ q[i + 1] = crash /\ i + 1 \in 1..Len(q)
      BY <2>1, <2>2, <2>4
    <3> QED BY <1>2, <1>7, <2>2, <3>1
  <2> QED BY <1>3, <2>3, <2>4
<1>8. crash \in Messages
  BY MessageKinds DEF crash
<1> QED BY <1>4, <1>5, <1>6, <1>7, <1>8 DEF crash

\* The steps that neither handle a message nor end the process nor report a
\* crash.
Elsewhere ==
  \/ UserRequest \/ ManagerStarts \/ CarryOut
  \/ \E u \in Units : AnnounceTransition(u) \/ Reached(u)
  \/ BootFails \/ ScriptStarts \/ ScriptReadsCount \/ ScriptDecides \/ ScriptFails
  \/ UNCHANGED allVars

\* The definition after a step.
LEMMA CrashUnheardNext == CrashUnheard' <=> Has(JobNew("host-crash"), bus')
BY DEF CrashUnheard, Has, JobNew

\* A step that leaves the manager alone adds no crash to its inbox.
LEMMA ElsewhereFacts ==
  ASSUME Basics, CrashOnce(bus), Elsewhere, alive'
  PROVE  CrashOnce(bus') /\ (CrashUnheard' <=> CrashUnheard)
<1>1. bus \in Seq(Messages) /\ unit \in [Units -> UnitStates] /\ alive \in BOOLEAN
      /\ Exclusive(unit)
  BY DEF Basics, SystemTypeOK, TypeOK
<1>2. SUFFICES CrashOnce(bus') /\ (Has(JobNew("host-crash"), bus')
                                      <=> Has(JobNew("host-crash"), bus))
  BY CrashUnheardNext DEF CrashUnheard
<1> DEFINE Goal == CrashOnce(bus') /\ (Has(JobNew("host-crash"), bus')
                                          <=> Has(JobNew("host-crash"), bus))
<1>3. ASSUME bus' = bus PROVE Goal
  BY <1>1, <1>3
<1>4. ASSUME NEW s \in Seq(Messages), Calm(s), bus' = Emitted(s) PROVE Goal
  <2>1. Stirs(JobNew("host-crash"))
    BY MessageKinds
  <2>2. CrashOnce(Emitted(s))
    BY <1>1, <1>4, CrashOnceFacts DEF Emitted
  <2>3. Has(JobNew("host-crash"), Emitted(s)) <=> Has(JobNew("host-crash"), bus)
    BY <1>1, <1>4, <2>1, EmittedFacts
  <2> QED BY <1>4, <2>2, <2>3
<1>5. ASSUME NEW u \in Units, StartUnit(u) PROVE Goal
  BY <1>1, <1>4, <1>5, InstallFacts DEF StartUnit
<1>6. CASE UserRequest \/ ManagerStarts \/ ScriptStarts \/ ScriptReadsCount
             \/ ScriptFails \/ UNCHANGED allVars
  BY <1>3, <1>6, UserRequestFacts
  DEF ManagerStarts, ScriptStarts, ScriptReadsCount, ScriptFails, allVars, systemVars
<1>7. CASE CarryOut \/ ScriptDecides
  BY <1>5, <1>7 DEF CarryOut, ScriptDecides, Units
<1>8. ASSUME NEW u \in Units, AnnounceTransition(u) PROVE Goal
  <2>1. bus' = bus \/ (u \in Announcing /\ bus' = Append(bus, Write(u)))
    BY <1>8 DEF AnnounceTransition, Announcing
  <2>2. ASSUME u \in Announcing, bus' = Append(bus, Write(u)) PROVE Goal
    <3>1. Write(u) \in Messages /\ JobNew("host-crash") # Write(u)
      BY <2>2, MessageKinds
    <3>2. CrashOnce(bus')
      BY <1>1, <2>2, <3>1, CrashOnceFacts
    <3>3. Has(JobNew("host-crash"), bus') <=> Has(JobNew("host-crash"), bus)
      BY <1>1, <2>2, <3>1, AppendedWrite
    <3> QED BY <3>2, <3>3
  <2> QED BY <1>3, <2>1, <2>2
<1>9. ASSUME NEW u \in Units, Reached(u) PROVE Goal
  <2>1. /\ <<JobRemoved(u, "done")>> \in Seq(Messages) /\ Calm(<<JobRemoved(u, "done")>>)
        /\ bus' = Emitted(<<JobRemoved(u, "done")>>)
    BY <1>9, MessageKinds, CalmTypes DEF Reached
  <2> QED BY <1>4, <2>1
<1>10. CASE BootFails
  BY <1>1, <1>4, <1>10, BootFailsFacts
<1> QED BY <1>6, <1>7, <1>8, <1>9, <1>10 DEF Elsewhere

\* One message and then more of them.
LEMMA AppendedFirst ==
  ASSUME NEW S, NEW q \in Seq(S), NEW e \in S, NEW s \in Seq(S)
  PROVE  q \o (<<e>> \o s) = Append(q, e) \o s
<1>1. /\ q \o (<<e>> \o s) \in Seq(S) /\ Append(q, e) \o s \in Seq(S)
      /\ Len(q \o (<<e>> \o s)) = Len(Append(q, e) \o s)
  OBVIOUS
<1>2. ASSUME NEW i \in 1..Len(Append(q, e) \o s)
      PROVE  (q \o (<<e>> \o s))[i] = (Append(q, e) \o s)[i]
  OBVIOUS
<1> QED BY <1>1, <1>2

\* A crash reaches a manager that runs, and is the only one in its inbox.
LEMMA CrashFacts ==
  ASSUME Basics, CrashBeforeCount, HostCrashes
  PROVE  alive /\ ~CrashUnheard /\ CrashOnce(bus') /\ CrashUnheard'
<1>1. bus \in Seq(Messages) /\ unit \in [Units -> UnitStates] /\ "host-stop" \in Units
  BY DEF Basics, SystemTypeOK, Units
<1>2. alive /\ ~CrashUnheard /\ CrashOnce(bus)
  BY DEF HostCrashes, SetRestartCause, CrashBeforeCount
<1>3. Stirs(JobNew("host-crash")) /\ JobNew("host-crash") \in Messages
  BY MessageKinds
<1> DEFINE crash == JobNew("host-crash")
           s == InstallSignals("host-stop", unit)
<1>5. s \in Seq(Messages) /\ Calm(s)
  BY <1>1, InstallFacts
<1>6. bus' = bus \o (<<crash>> \o s)
  BY <1>2 DEF HostCrashes, Emitted
<1> HIDE DEF crash, s
<1>7. bus' = Append(bus, crash) \o s
  BY <1>1, <1>3, <1>5, <1>6, AppendedFirst DEF crash
<1>8. Append(bus, crash) \in Seq(Messages) /\ CrashOnce(Append(bus, crash))
  BY <1>1, <1>2, <1>3, CrashOnceFacts DEF crash, CrashUnheard
<1>9. CrashOnce(bus')
  BY <1>5, <1>7, <1>8, CrashOnceFacts
<1>10. Has(crash, Append(bus, crash))
  <2>1. EndsWith(crash, Append(bus, crash))
    BY <1>1, <1>3, AppendedWrite DEF crash
  <2> QED BY <2>1 DEF EndsWith, Has
<1>11. Has(crash, bus')
  BY <1>5, <1>7, <1>8, <1>10, CalmSignals
<1> QED
  BY <1>2, <1>9, <1>11, CrashUnheardNext DEF crash
---------------------------------------------------------------------------
\* What a handler that goes on does to the counter and the jobs.
LEMMA HandleEffects ==
  ASSUME Basics, CrashOnce(bus), Handle, alive'
  PROVE  /\ CrashOnce(bus') /\ UNCHANGED restartCause
         /\ CrashUnheard <=> CrashUnheard' \/ Head(bus) = JobNew("host-crash")
         /\ \/ /\ Head(bus) = JobNew("host-crash") /\ ~CrashUnheard'
               /\ attemptsLeft' = IF current = "Running" THEN Decremented ELSE attemptsLeft
               /\ UNCHANGED jobs
            \/ /\ Head(bus) # JobNew("host-crash")
               /\ attemptsLeft > 0 /\ Execute("Reboot")
            \/ /\ Head(bus) # JobNew("host-crash")
               /\ attemptsLeft' \in {attemptsLeft, retryAttempts} /\ UNCHANGED jobs
<1> DEFINE crash == JobNew("host-crash")
<1>1. /\ bus' = Tail(bus) /\ bus # <<>> /\ Head(bus) \in Messages /\ alive
      /\ bus \in Seq(Messages)
  BY HandleUnits, HandleEnds DEF Basics, SystemTypeOK
<1>2. CrashOnce(bus') /\ (Head(bus) = crash => ~CrashUnheard')
  BY <1>1, CrashOnceFacts, CrashUnheardNext
<1>3. CrashUnheard <=> CrashUnheard' \/ Head(bus) = crash
  BY <1>1, CrashUnheardNext, TailOfQueue DEF CrashUnheard
<1>4. CASE Head(bus).member = "JobNew"
  <2>1. SysStateChangeJobNew(Head(bus).unit)
    BY <1>4 DEF Handle
  <2>2. CASE Head(bus) = crash
    <3>1. Head(bus).unit = "host-crash"
      BY <2>2 DEF JobNew
    <3>2. /\ attemptsLeft' = IF current = "Running" THEN Decremented ELSE attemptsLeft
          /\ UNCHANGED <<jobs, restartCause>>
      BY <2>1, <3>1 DEF SysStateChangeJobNew
    <3> QED BY <1>2, <1>3, <2>2, <3>2
  <2>3. CASE Head(bus) # crash
    <3>1. Head(bus).unit # "host-crash"
      BY <1>1, <1>4, <2>3 DEF Messages, JobNew
    <3>2. UNCHANGED <<attemptsLeft, jobs, restartCause>>
      BY <2>1, <3>1 DEF SysStateChangeJobNew
    <3> QED BY <1>2, <1>3, <2>3, <3>2
  <2> QED BY <2>2, <2>3
<1>5. CASE Head(bus).member = "Set"
  <2>1. UNCHANGED <<attemptsLeft, jobs, restartCause>>
    BY <1>5 DEF Handle, SetCurrentHostState
  <2>2. Head(bus) # crash
    BY <1>5 DEF JobNew
  <2> QED BY <1>2, <1>3, <2>1, <2>2
<1>6. CASE Head(bus).member = "JobRemoved"
  <2> DEFINE v == Head(bus).unit
             r == Head(bus).result
  <2>1. PICK a \in Surroundings : SysStateChangeJobRemoved(v, r, IsActive(v), a)
    BY <1>6 DEF Handle, DieInRequest
  <2>2. Head(bus) # crash
    BY <1>6 DEF JobNew
  <2>3. CASE HostIsQuiesced(a)
    <3>1. \/ attemptsLeft > 0 /\ Execute("Reboot")
          \/ /\ attemptsLeft' \in {attemptsLeft, retryAttempts}
             /\ UNCHANGED <<jobs, restartCause>>
      BY <2>3 DEF HostIsQuiesced, Reboots
    <3>2. UNCHANGED restartCause
      BY <3>1 DEF Execute
    <3> QED BY <1>2, <1>3, <2>2, <3>1, <3>2
  <2>4. CASE HostIsOff \/ HostIsRunning \/ UNCHANGED hostVars
    <3>1. UNCHANGED <<attemptsLeft, jobs, restartCause>>
      BY <2>4 DEF HostIsOff, HostIsRunning, hostVars, props
    <3> QED BY <1>2, <1>3, <2>2, <3>1
  <2> QED BY <2>1, <2>3, <2>4 DEF SysStateChangeJobRemoved
<1> QED BY <1>1, <1>4, <1>5, <1>6 DEF Messages

\* A handler that ends the process settles no account.
LEMMA HandleDies ==
  ASSUME Basics, Handle, ~alive'
  PROVE  UNCHANGED allowance
<1>1. Head(bus).member = "JobRemoved"
  BY DEF Handle, SysStateChangeJobNew, SetCurrentHostState
<1>2. PICK a \in Surroundings :
        \/ SysStateChangeJobRemoved(Head(bus).unit, Head(bus).result,
                                    IsActive(Head(bus).unit), a)
        \/ DieInRequest("Reboot", a)
  BY <1>1 DEF Handle
<1>3. alive
  BY <1>2 DEF SysStateChangeJobRemoved, DieInRequest
<1>4. ASSUME HostIsQuiesced(a) PROVE attemptsLeft' = attemptsLeft
  BY <1>3, <1>4 DEF HostIsQuiesced, Execute, props
<1>5. ASSUME DieInRequest("Reboot", a) PROVE attemptsLeft' = attemptsLeft
  BY <1>5 DEF DieInRequest, props
<1>6. ASSUME HostIsOff \/ HostIsRunning \/ UNCHANGED hostVars
      PROVE  attemptsLeft' = attemptsLeft
  BY <1>3, <1>6 DEF HostIsOff, HostIsRunning, hostVars
<1>7. attemptsLeft' = attemptsLeft
  BY <1>2, <1>4, <1>5, <1>6 DEF SysStateChangeJobRemoved
<1>8. ~(attemptsLeft' > attemptsLeft)
  BY <1>7 DEF Basics, TypeOK
<1>9. ~CrashPasses
  BY <1>1 DEF CrashPasses, JobNew
<1> QED BY <1>8, <1>9 DEF Handle, Account

\* The script of a crash does not read the counter before the manager has
\* heard of the crash, and the cause is forgotten only by a new process.
LEMMA CrashBeforeCountPreserved ==
  Basics /\ CrashBeforeCount /\ [SystemNext]_allVars => CrashBeforeCount'
<1> SUFFICES ASSUME Basics, CrashBeforeCount, [SystemNext]_allVars
             PROVE  CrashBeforeCount'
  OBVIOUS
<1>1. Basics' /\ bus \in Seq(Messages)
  BY BasicsPreserved DEF Basics, SystemTypeOK
<1>2. SUFFICES /\ CrashOnce(bus')
               /\ CrashUnheard' => script' \in {"waiting", "sleeping"}
                                    /\ restartCause' = "HostCrash"
  BY DEF CrashBeforeCount, CrashOnce, JobNew
<1> DEFINE Goal == /\ CrashOnce(bus')
                   /\ CrashUnheard' => script' \in {"waiting", "sleeping"}
                                        /\ restartCause' = "HostCrash"
<1>3. /\ CrashOnce(bus)
      /\ CrashUnheard => script \in {"waiting", "sleeping"} /\ restartCause = "HostCrash"
  BY DEF CrashBeforeCount
<1>4. ASSUME ~alive' PROVE Goal
  <2>1. bus' = <<>>
    BY <1>1, <1>4 DEF Basics
  <2>2. CrashOnce(<<>>) /\ ~Has(JobNew("host-crash"), <<>>)
    BY DEF CrashOnce, Has
  <2> QED BY <2>1, <2>2, CrashUnheardNext
<1>5. ASSUME Handle, alive' PROVE Goal
  <2>1. /\ CrashOnce(bus') /\ UNCHANGED restartCause /\ (CrashUnheard' => CrashUnheard)
    BY <1>3, <1>5, HandleEffects
  <2> QED BY <1>3, <1>5, <2>1 DEF Handle
<1>6. CASE ManagerDies
  BY <1>4, <1>6 DEF ManagerDies, Die
<1>7. CASE HostCrashes
  BY <1>7, CrashFacts DEF HostCrashes, SetRestartCause
<1>8. ASSUME Elsewhere, alive' PROVE Goal
  <2>1. CrashOnce(bus') /\ (CrashUnheard' <=> CrashUnheard)
    BY <1>3, <1>8, ElsewhereFacts
  <2>2. ASSUME CrashUnheard
        PROVE  script' \in {"waiting", "sleeping"} /\ restartCause' = "HostCrash"
    <3>1. script \in {"waiting", "sleeping"} /\ restartCause = "HostCrash" /\ alive
      <4>1. bus # <<>>
        BY <2>2 DEF CrashUnheard, Has
      <4> QED BY <1>3, <2>2, <4>1 DEF Basics
    <3>2. CASE UserRequest
      BY <3>1, <3>2, UserRequestFacts
    <3>3. CASE CarryOut
      BY <3>1, <3>3 DEF CarryOut, SystemdTakes, props
    <3>4. CASE ScriptReadsCount
      BY <2>2, <3>4 DEF ScriptReadsCount, CrashUnheard, Has
    <3>5. CASE ManagerStarts \/ ScriptDecides \/ ScriptFails
      BY <3>1, <3>5 DEF ManagerStarts, Start, ScriptDecides, ScriptFails
    <3>6. CASE \/ \E u \in Units : AnnounceTransition(u) \/ Reached(u)
               \/ BootFails \/ ScriptStarts \/ UNCHANGED allVars
      BY <3>1, <3>6 DEF AnnounceTransition, Reached, BootFails, ScriptStarts, allVars,
                        systemVars, hostVars, props
    <3> QED BY <1>8, <3>2, <3>3, <3>4, <3>5, <3>6 DEF Elsewhere
  <2> QED BY <2>1, <2>2
<1> QED BY <1>4, <1>5, <1>6, <1>7, <1>8 DEF SystemNext, Working, Elsewhere
---------------------------------------------------------------------------
\* The arithmetic of the ledger is stated for numbers, so that the proofs below
\* only put the manager's quantities in their place.  Sums of one small term:
LEMMA Sums ==
  ASSUME NEW a \in Nat, NEW b \in Nat, NEW m \in Nat, NEW n \in Nat,
         m <= 1, n <= 1
  PROVE  /\ a - m \in Int /\ a + m \in Int /\ a - m <= a /\ a <= a + m
         /\ m <= a => 0 <= a - m
         /\ b < a => b - n <= a - m
         /\ b = a /\ m <= n => b - n <= a - m
         /\ b = a => b - n <= (a - m) + 1
         /\ b = a - 1 /\ m = n => b - n = (a - m) - 1
         /\ b <= a /\ n <= m => b + n <= a + m
         /\ b <= a + 1 /\ n <= m => b + n <= (a + m) + 1
         /\ b <= a /\ n <= 1 => b + n <= (a + m) + 1
         /\ b + 1 <= a => b + n <= a + m
OBVIOUS

\* A balance that covers two sums covers them when neither grows,
LEMMA BalanceKept ==
  ASSUME NEW a \in Int, NEW u \in Int, NEW v \in Int, NEW c \in Int, NEW d \in Int,
         a >= u + c, v <= u, d <= c
  PROVE  a >= v + d
OBVIOUS

\* when the one pays for the other,
LEMMA BalanceMoved ==
  ASSUME NEW a \in Int, NEW u \in Int, NEW v \in Int, NEW c \in Int, NEW d \in Int,
         a >= u + c, v = u - 1, d <= c + 1
  PROVE  a >= v + d
OBVIOUS

\* when one is paid in for either,
LEMMA BalanceRaised ==
  ASSUME NEW a \in Int, NEW u \in Int, NEW v \in Int, NEW c \in Int, NEW d \in Int,
         a >= u + c, (v <= u + 1 /\ d <= c) \/ (v <= u /\ d <= c + 1)
  PROVE  a + 1 >= v + d
OBVIOUS

\* when it is paid in anew,
LEMMA BalanceRefilled ==
  ASSUME NEW n \in Nat, NEW r \in Nat, NEW x \in Nat, NEW v \in Int, NEW d \in Int,
         v <= n, d <= r + x
  PROVE  n + r + x >= 0 /\ n + r + x >= v + d
OBVIOUS

\* and when one of the second sum is paid out.
LEMMA BalancePaid ==
  ASSUME NEW a \in Int, NEW u \in Int, NEW v \in Int, NEW c \in Int, NEW d \in Int,
         a >= u + c, v <= u, d = c - 1, 0 <= u, 0 <= d
  PROVE  a - 1 >= 0 /\ a - 1 >= v + d
OBVIOUS

\* Sums that are bounded term by term.
LEMMA SumGrows ==
  ASSUME NEW o \in Nat, NEW r \in Nat, NEW m \in Nat, NEW n \in Nat, o <= r, m <= n
  PROVE  /\ o + m <= r + n
         /\ o + 0 = (o + 1) - 1 /\ 0 <= o + 0
         /\ m + n <= r => n <= r
OBVIOUS

LEMMA PartBounded ==
  ASSUME NEW m \in Nat, NEW n \in Nat, NEW r \in Nat, m + n <= r
  PROVE  m <= r
OBVIOUS

\* What is left of the counter and what is claimed by the pending reboots.
LEMMA ClaimFacts ==
  ASSUME Basics, Basics'
  PROVE  /\ allowance \in Int /\ allowance' \in Int
         /\ attemptsLeft \in Nat /\ attemptsLeft' \in Nat /\ retryAttempts \in Nat
         /\ RebootJobs \in Nat /\ RebootJobs' \in Nat
         /\ Owed \in Nat /\ Owed' \in Nat /\ Owed' <= RebootJobs'
         /\ Cost \in Nat /\ Cost' \in Nat /\ Unpaid \in Nat /\ Unpaid' \in Nat
         /\ Cost <= 1 /\ Cost' <= 1 /\ Unpaid <= 1 /\ Unpaid' <= 1
         /\ Unpaid <= attemptsLeft
         /\ Unspent = attemptsLeft - Unpaid /\ Unspent' = attemptsLeft' - Unpaid'
         /\ Claimed = Owed + Cost /\ Claimed' = Owed' + Cost'
         /\ Unspent \in Int /\ Unspent' \in Int /\ Claimed \in Int /\ Claimed' \in Int
         /\ jobs' = jobs => RebootJobs' = RebootJobs
<1>1. /\ allowance \in Int /\ allowance' \in Int
      /\ attemptsLeft \in Nat /\ attemptsLeft' \in Nat /\ retryAttempts \in Nat
      /\ jobs \in Seq(TransitionUnits) /\ jobs' \in Seq(TransitionUnits)
  BY DEF Basics, SystemTypeOK, TypeOK
<1>2. Cardinality(RebootsIn(jobs)) \in Nat /\ Cardinality(RebootsIn(jobs')) \in Nat
  BY <1>1, RebootJobsChange
<1>3. RebootJobs \in Nat /\ RebootJobs' \in Nat
  BY <1>2 DEF RebootJobs, RebootsIn
<1>4. Owed \in Nat /\ Owed' \in Nat /\ Owed' <= RebootJobs'
  BY <1>3 DEF Owed
<1>5. /\ Cost \in Nat /\ Cost' \in Nat /\ Unpaid \in Nat /\ Unpaid' \in Nat
      /\ Cost <= 1 /\ Cost' <= 1 /\ Unpaid <= 1 /\ Unpaid' <= 1
  BY DEF Cost, Unpaid
<1>6. Unpaid <= attemptsLeft
  BY <1>1 DEF Unpaid
<1>7. /\ Unspent = attemptsLeft - Unpaid /\ Unspent' = attemptsLeft' - Unpaid'
      /\ Claimed = Owed + Cost /\ Claimed' = Owed' + Cost'
  BY DEF Unspent, Claimed
<1>8. Unspent \in Int /\ Unspent' \in Int /\ Claimed \in Int /\ Claimed' \in Int
  BY <1>1, <1>4, <1>5, <1>7, Sums
<1>9. jobs' = jobs => RebootJobs' = RebootJobs
  BY DEF RebootJobs, RebootsIn
<1> QED BY <1>1, <1>3, <1>4, <1>5, <1>6, <1>7, <1>8, <1>9

\* How the two change with what they are made of.
LEMMA ClaimChanges ==
  ASSUME Basics, Basics'
  PROVE  /\ attemptsLeft' < attemptsLeft => Unspent' <= Unspent
         /\ attemptsLeft' = attemptsLeft /\ Unpaid <= Unpaid' => Unspent' <= Unspent
         /\ attemptsLeft' = attemptsLeft => Unspent' <= Unspent + 1
         /\ attemptsLeft' = attemptsLeft /\ (CrashUnheard => CrashUnheard')
              => Unspent' <= Unspent
         /\ Owed' <= Owed /\ Cost' <= Cost => Claimed' <= Claimed
         /\ 0 <= Unspent /\ Unspent' <= attemptsLeft'
<1>1. /\ attemptsLeft \in Nat /\ attemptsLeft' \in Nat
      /\ Owed \in Nat /\ Owed' \in Nat
      /\ Cost \in Nat /\ Cost' \in Nat /\ Unpaid \in Nat /\ Unpaid' \in Nat
      /\ Cost <= 1 /\ Cost' <= 1 /\ Unpaid <= 1 /\ Unpaid' <= 1
      /\ Unpaid <= attemptsLeft
      /\ Unspent = attemptsLeft - Unpaid /\ Unspent' = attemptsLeft' - Unpaid'
      /\ Claimed = Owed + Cost /\ Claimed' = Owed' + Cost'
  BY ClaimFacts
<1>2. /\ attemptsLeft' < attemptsLeft => Unspent' <= Unspent
      /\ attemptsLeft' = attemptsLeft /\ Unpaid <= Unpaid' => Unspent' <= Unspent
      /\ attemptsLeft' = attemptsLeft => Unspent' <= Unspent + 1
  BY <1>1, Sums
<1>3. Owed' <= Owed /\ Cost' <= Cost => Claimed' <= Claimed
  BY <1>1, Sums
<1>4. attemptsLeft' = attemptsLeft /\ (CrashUnheard => CrashUnheard') => Unpaid <= Unpaid'
  BY <1>1 DEF Unpaid
<1>5. 0 <= Unspent /\ Unspent' <= attemptsLeft'
  BY <1>1, Sums
<1> QED BY <1>2, <1>3, <1>4, <1>5

\* A manager that adds no attempt and leaves the script alone claims no more
\* than one boot for a reboot it orders.
LEMMA ManagerClaims ==
  ASSUME Basics, Basics', UNCHANGED <<script, reading, restartCause>>,
         attemptsLeft' <= attemptsLeft
  PROVE  /\ RebootJobs' <= RebootJobs => Claimed' <= Claimed
         /\ Exhausted' => Claimed' <= Claimed
         /\ RebootJobs' = RebootJobs + 1 => Claimed' <= Claimed + 1
<1>1. /\ attemptsLeft \in Nat /\ attemptsLeft' \in Nat
      /\ RebootJobs \in Nat /\ RebootJobs' \in Nat /\ Owed \in Nat /\ Owed' \in Nat
      /\ Cost \in Nat /\ Cost' \in Nat /\ Cost <= 1 /\ Cost' <= 1
      /\ Claimed = Owed + Cost /\ Claimed' = Owed' + Cost'
  BY ClaimFacts
<1>2. Exhausted => Exhausted'
  BY <1>1 DEF Exhausted
<1>3. Cost' <= Cost
  BY <1>1, <1>2 DEF Cost, GoesToQuiesce
<1>4. /\ RebootJobs' <= RebootJobs \/ Exhausted' => Owed' <= Owed
      /\ RebootJobs' = RebootJobs + 1 => Owed' <= Owed + 1
  BY <1>1, <1>2 DEF Owed
<1>5. /\ Owed' <= Owed => Claimed' <= Claimed
      /\ Owed' <= Owed + 1 => Claimed' <= Claimed + 1
  BY <1>1, <1>3, Sums
<1> QED BY <1>4, <1>5

\* A job more for the reboot target.
LEMMA RebootOrdered ==
  ASSUME Basics, NEW u \in TransitionUnits, jobs' = Append(jobs, u)
  PROVE  RebootJobs' = RebootJobs + (IF u = "host-reboot" THEN 1 ELSE 0)
<1>1. jobs \in Seq(TransitionUnits)
  BY DEF Basics, TypeOK
<1>2. Cardinality(RebootsIn(jobs)) \in Nat
  BY <1>1, RebootJobsChange
<1>3. Cardinality(RebootsIn(Append(jobs, u)))
        = Cardinality(RebootsIn(jobs)) + (IF u = "host-reboot" THEN 1 ELSE 0)
  BY <1>1, <1>2, RebootJobsChange
<1> QED BY <1>3 DEF RebootJobs, RebootsIn

\* The ways a step settles what it changes: nothing more is claimed, an attempt
\* pays for it, or the ledger is raised for a reboot that passes.
Kept == UNCHANGED allowance /\ Unspent' <= Unspent /\ Claimed' <= Claimed
Moved == UNCHANGED allowance /\ Unspent' = Unspent - 1 /\ Claimed' <= Claimed + 1
Raised ==
  /\ Uncharged
  /\ \/ Unspent' <= Unspent + 1 /\ Claimed' <= Claimed
     \/ Unspent' <= Unspent /\ Claimed' <= Claimed + 1

\* The attempt of a reboot pays for its boot; if it was the last one and a crash
\* is still unheard, no script boots the host any more.
LEMMA RebootIsCharged ==
  ASSUME Basics, Basics', CrashBeforeCount, UNCHANGED <<script, reading, restartCause>>,
         CrashUnheard' <=> CrashUnheard, attemptsLeft > 0, attemptsLeft' = attemptsLeft - 1,
         RebootJobs' = RebootJobs + 1, UNCHANGED allowance
  PROVE  Kept \/ Moved
<1>1. /\ attemptsLeft \in Nat /\ attemptsLeft' \in Nat /\ attemptsLeft' < attemptsLeft
      /\ Unpaid \in Nat /\ Unpaid' \in Nat /\ Unpaid <= 1 /\ Unpaid' <= 1
      /\ Unspent = attemptsLeft - Unpaid /\ Unspent' = attemptsLeft' - Unpaid'
  BY ClaimFacts
<1>2. attemptsLeft' <= attemptsLeft
  BY <1>1
<1>3. CASE CrashUnheard /\ attemptsLeft' = 0
  <2>1. Exhausted'
    BY <1>3 DEF Exhausted, CrashBeforeCount
  <2>2. Claimed' <= Claimed
    BY <1>2, <2>1, ManagerClaims
  <2>3. Unspent' <= Unspent
    BY <1>1, ClaimChanges
  <2> QED BY <2>2, <2>3 DEF Kept
<1>4. CASE ~(CrashUnheard /\ attemptsLeft' = 0)
  <2>1. Unpaid' = Unpaid
    BY <1>1, <1>4 DEF Unpaid
  <2>2. Unspent' = Unspent - 1
    BY <1>1, <2>1, Sums
  <2>3. Claimed' <= Claimed + 1
    BY <1>2, ManagerClaims
  <2> QED BY <2>2, <2>3 DEF Moved
<1> QED BY <1>3, <1>4

\* A handler that goes on refills, or pays for what it claims.
LEMMA HandleKeepsBudget ==
  ASSUME Basics, Basics', CrashBeforeCount, Handle, alive'
  PROVE  (Refill /\ script' = script) \/ Kept \/ Moved \/ Raised
<1>1. /\ attemptsLeft \in Nat /\ attemptsLeft' \in Nat /\ retryAttempts \in Nat
      /\ RebootJobs \in Nat /\ Unpaid \in Nat /\ Unpaid' \in Nat
  BY ClaimFacts
<1>2. /\ UNCHANGED <<script, reading, restartCause>> /\ CrashOnce(bus)
      /\ CrashUnheard <=> CrashUnheard' \/ Head(bus) = JobNew("host-crash")
  BY HandleEffects DEF Handle, CrashBeforeCount
<1>3. /\ attemptsLeft' > attemptsLeft => Refill
      /\ attemptsLeft' <= attemptsLeft => IF CrashPasses THEN Uncharged ELSE UNCHANGED allowance
  BY <1>1 DEF Handle, Account
<1>4. CASE attemptsLeft' > attemptsLeft
  BY <1>2, <1>3, <1>4
<1>5. CASE attemptsLeft' <= attemptsLeft
  <2>1. jobs' = jobs => Claimed' <= Claimed
    <3>1. jobs' = jobs => RebootJobs' <= RebootJobs
      BY <1>1, ClaimFacts
    <3> QED BY <1>2, <1>5, <3>1, ManagerClaims
  <2>2. attemptsLeft' < attemptsLeft => Unspent' <= Unspent
    BY ClaimChanges
  <2>3. ASSUME Head(bus) = JobNew("host-crash"), ~CrashUnheard', UNCHANGED jobs,
               attemptsLeft' = IF current = "Running" THEN Decremented ELSE attemptsLeft
        PROVE  Kept \/ Raised
    <3>1. CASE CrashPasses
      <4>1. attemptsLeft' = attemptsLeft
        BY <2>3, <3>1 DEF CrashPasses
      <4> QED BY <1>3, <1>5, <2>1, <2>3, <3>1, <4>1, ClaimChanges DEF Raised
    <3>2. CASE ~CrashPasses
      <4>1. attemptsLeft' < attemptsLeft \/ (attemptsLeft' = attemptsLeft /\ Unpaid = 0)
        BY <1>1, <2>3, <3>2 DEF CrashPasses, Decremented, Unpaid
      <4>2. Unpaid = 0 => Unpaid <= Unpaid'
        BY <1>1
      <4>3. Unspent' <= Unspent
        BY <2>2, <4>1, <4>2, ClaimChanges
      <4> QED BY <1>3, <1>5, <2>1, <2>3, <3>2, <4>3 DEF Kept
    <3> QED BY <3>1, <3>2
  <2>4. ASSUME Head(bus) # JobNew("host-crash") PROVE UNCHANGED allowance
    BY <1>3, <1>5, <2>4 DEF CrashPasses
  <2>5. ASSUME Head(bus) # JobNew("host-crash"), attemptsLeft > 0, Execute("Reboot")
        PROVE  Kept \/ Moved
    <3>1. attemptsLeft' = attemptsLeft - 1 /\ jobs' = Append(jobs, "host-reboot")
      BY <2>5 DEF Execute, Charge, Decremented, UnitOf
    <3>2. RebootJobs' = RebootJobs + 1
      BY <3>1, RebootOrdered DEF TransitionUnits
    <3> QED BY <1>2, <2>4, <2>5, <3>1, <3>2, RebootIsCharged
  <2>6. ASSUME Head(bus) # JobNew("host-crash"), UNCHANGED jobs
        PROVE  Kept
    <3>1. attemptsLeft' < attemptsLeft \/ attemptsLeft' = attemptsLeft
      BY <1>1, <1>5
    <3>2. Unspent' <= Unspent
      BY <1>2, <2>2, <2>6, <3>1, ClaimChanges
    <3> QED BY <2>1, <2>4, <2>6, <3>2 DEF Kept
  <2> QED BY <1>2, <2>3, <2>5, <2>6, HandleEffects
<1> QED BY <1>1, <1>4, <1>5

\* So does a user's request that the process survives.
LEMMA RequestKeepsBudget ==
  ASSUME Basics, Basics', CrashBeforeCount, UserRequest, alive'
  PROVE  Kept \/ Moved \/ Raised
<1>1. /\ attemptsLeft \in Nat /\ attemptsLeft' \in Nat /\ RebootJobs \in Nat
  BY ClaimFacts
<1>2. UNCHANGED <<script, reading, restartCause, bus>>
  BY UserRequestFacts
<1>3. CrashUnheard' <=> CrashUnheard
  BY <1>2, CrashUnheardNext DEF CrashUnheard
<1>4. PICK t \in UserTransitions, a \in Surroundings :
        /\ RequestedHostTransition(t, a)
        /\ IF jobs' # jobs /\ RebootPasses(t) THEN Uncharged ELSE UNCHANGED allowance
  BY DEF UserRequest, DieInRequest
<1>5. /\ \/ jobs' = jobs /\ attemptsLeft' \in {attemptsLeft, Decremented}
         \/ /\ jobs' = Append(jobs, UnitOf(t)) /\ Charge(t)
      /\ t \in Transitions
  BY <1>4, SystemAssumption DEF RequestedHostTransition, Execute, Charge, hostVars, props
<1>6. attemptsLeft' <= attemptsLeft
  BY <1>1, <1>5 DEF Charge, Decremented
<1>7. Unspent' <= Unspent
  <2>1. attemptsLeft' < attemptsLeft \/ attemptsLeft' = attemptsLeft
    BY <1>1, <1>6
  <2> QED BY <1>3, <2>1, ClaimChanges
<1>8. CASE jobs' = jobs
  <2>1. RebootJobs' <= RebootJobs
    BY <1>1, <1>8, ClaimFacts
  <2> QED BY <1>2, <1>4, <1>6, <1>7, <1>8, <2>1, ManagerClaims DEF Kept
<1>9. CASE jobs' = Append(jobs, UnitOf(t)) /\ Charge(t)
  <2>1. UnitOf(t) \in TransitionUnits
    BY <1>5 DEF Transitions, UnitOf, TransitionUnits
  <2>2. RebootJobs' = RebootJobs + (IF UnitOf(t) = "host-reboot" THEN 1 ELSE 0)
    BY <1>9, <2>1, RebootOrdered
  <2>3. jobs' # jobs
    BY <1>9, <2>1 DEF Basics, TypeOK
  <2>4. CASE UnitOf(t) # "host-reboot"
    <3>1. RebootJobs' <= RebootJobs /\ UNCHANGED allowance
      BY <1>1, <1>4, <2>2, <2>4 DEF RebootPasses
    <3> QED BY <1>2, <1>6, <1>7, <3>1, ManagerClaims DEF Kept
  <2>5. CASE UnitOf(t) = "host-reboot" /\ attemptsLeft > 0
    <3>1. t # "Off"
      BY <2>5 DEF UnitOf
    <3>2. attemptsLeft' = attemptsLeft - 1
      BY <1>9, <2>5, <3>1 DEF Charge, Decremented
    <3>3. UNCHANGED allowance
      BY <1>1, <1>4, <2>5 DEF RebootPasses
    <3> QED BY <1>2, <1>3, <2>2, <2>5, <3>2, <3>3, RebootIsCharged
  <2>6. CASE UnitOf(t) = "host-reboot" /\ attemptsLeft = 0
    <3>1. CASE restartCause = "HostCrash"
      <4>1. Exhausted' /\ UNCHANGED allowance
        BY <1>1, <1>2, <1>4, <1>6, <2>6, <3>1 DEF Exhausted, RebootPasses
      <4> QED BY <1>2, <1>6, <1>7, <4>1, ManagerClaims DEF Kept
    <3>2. CASE restartCause # "HostCrash"
      <4>1. Uncharged
        BY <1>4, <2>3, <2>6, <3>2 DEF RebootPasses
      <4> QED BY <1>2, <1>6, <1>7, <2>2, <2>6, <4>1, ManagerClaims DEF Raised
    <3> QED BY <3>1, <3>2
  <2> QED BY <1>1, <2>4, <2>5, <2>6
<1> QED BY <1>5, <1>8, <1>9

\* Each step keeps what is left and what is claimed within the allowance.
LEMMA BudgetPreserved == BudgetInv /\ [SystemNext]_allVars => Budget'
<1> SUFFICES ASSUME BudgetInv, [SystemNext]_allVars PROVE Budget'
  OBVIOUS
<1>1. Basics /\ Basics' /\ CrashBeforeCount /\ CrashOnce(bus)
  BY BasicsPreserved DEF BudgetInv, FollowInv, CrashBeforeCount
<1>2. /\ allowance \in Int /\ attemptsLeft \in Nat /\ attemptsLeft' \in Nat
      /\ RebootJobs \in Nat /\ RebootJobs' \in Nat /\ Owed \in Nat /\ Owed' \in Nat
      /\ Cost \in Nat /\ Cost' \in Nat /\ Cost <= 1 /\ Cost' <= 1 /\ Owed' <= RebootJobs'
      /\ Unspent \in Int /\ Unspent' \in Int /\ Claimed \in Int /\ Claimed' \in Int
      /\ Claimed = Owed + Cost /\ Claimed' = Owed' + Cost'
  BY <1>1, ClaimFacts
<1>3. /\ allowance >= 0 /\ (alive => allowance >= Unspent + Claimed)
  BY DEF BudgetInv, Budget
<1>4. SUFFICES allowance' >= 0 /\ (alive' => allowance' >= Unspent' + Claimed')
  BY DEF Budget
<1> DEFINE Goal == allowance' >= 0 /\ (alive' => allowance' >= Unspent' + Claimed')
<1>5. ASSUME alive' => alive, Kept PROVE Goal
  BY <1>2, <1>3, <1>5, BalanceKept DEF Kept
<1>6. ASSUME alive, Moved PROVE Goal
  BY <1>2, <1>3, <1>6, BalanceMoved DEF Moved
<1>7. ASSUME alive, Raised PROVE Goal
  <2>1. allowance' = allowance + 1 /\ allowance' >= 0
    BY <1>2, <1>3, <1>7 DEF Raised, Uncharged
  <2> QED BY <1>2, <1>3, <1>7, <2>1, BalanceRaised DEF Raised
<1>8. ASSUME Refill, script' = script PROVE Goal
  <2> DEFINE x == IF script = "idle" THEN 0 ELSE 1
  <2>1. allowance' = attemptsLeft' + RebootJobs' + x
    BY <1>1, <1>8, RefillFacts DEF Basics, SystemTypeOK
  <2>2. Cost' <= x /\ x \in Nat
    <3>1. script' = "idle" => Cost' = 0
      BY DEF Cost
    <3> QED BY <1>2, <1>8, <3>1
  <2> HIDE DEF x
  <2>3. Claimed' <= RebootJobs' + x
    BY <1>2, <2>2, SumGrows
  <2>4. Unspent' <= attemptsLeft'
    BY <1>1, ClaimChanges
  <2> QED BY <1>2, <2>1, <2>2, <2>3, <2>4, BalanceRefilled
<1>9. ASSUME UNCHANGED allowance, ~alive' PROVE Goal
  BY <1>3, <1>9
\* A step away from the manager: what it knows of crashes stays as it was.
<1>10. ASSUME UNCHANGED <<alive, attemptsLeft, allowance>>, Elsewhere,
              Owed' <= Owed, Cost' <= Cost
       PROVE  Goal
  <2>1. CASE alive'
    <3>1. CrashUnheard => CrashUnheard'
      BY <1>1, <1>10, <2>1, ElsewhereFacts
    <3>2. Kept
      BY <1>1, <1>10, <3>1, ClaimChanges DEF Kept
    <3> QED BY <1>5, <1>10, <3>2
  <2>2. CASE ~alive'
    BY <1>9, <1>10, <2>2
  <2> QED BY <2>1, <2>2
<1>11. CASE Handle
  <2>1. CASE ~alive'
    BY <1>1, <1>9, <1>11, <2>1, HandleDies
  <2>2. CASE alive'
    <3>1. alive
      BY <1>1, <1>11, HandleEnds DEF Basics
    <3> QED BY <1>1, <1>5, <1>6, <1>7, <1>8, <1>11, <2>2, <3>1, HandleKeepsBudget
  <2> QED BY <2>1, <2>2
<1>12. CASE UserRequest
  <2>1. CASE ~alive'
    BY <1>9, <1>12, <2>1, UserRequestFacts
  <2>2. CASE alive'
    BY <1>1, <1>5, <1>6, <1>7, <1>12, <2>2, UserRequestFacts, RequestKeepsBudget
  <2> QED BY <2>1, <2>2
<1>13. CASE ManagerDies
  BY <1>9, <1>13 DEF ManagerDies, Die
<1>14. CASE ManagerStarts
  BY <1>8, <1>14 DEF ManagerStarts
\* A reboot that systemd takes becomes the script's, if that was idle.
<1>15. CASE CarryOut
  <2>1. /\ jobs # <<>> /\ jobs' = Tail(jobs) /\ Elsewhere
        /\ UNCHANGED <<alive, attemptsLeft, restartCause, reading, allowance>>
        /\ \/ script' = script
           \/ Head(jobs) = "host-reboot" /\ script = "idle" /\ script' = "waiting"
    BY <1>15 DEF CarryOut, SystemdTakes, props, Elsewhere
  <2>2. RebootJobs' + (IF Head(jobs) = "host-reboot" THEN 1 ELSE 0) <= RebootJobs
    <3>1. jobs \in Seq(TransitionUnits)
      BY <1>1 DEF Basics, TypeOK
    <3>2. Cardinality(RebootsIn(Tail(jobs))) + (IF Head(jobs) = "host-reboot" THEN 1 ELSE 0)
            <= Cardinality(RebootsIn(jobs))
      BY <2>1, <3>1, RebootJobsChange
    <3>3. RebootJobs' = Cardinality(RebootsIn(Tail(jobs)))
      BY <2>1 DEF RebootJobs, RebootsIn
    <3> QED BY <3>2, <3>3 DEF RebootJobs
  <2>3. Exhausted' <=> Exhausted
    BY <2>1 DEF Exhausted
  <2>4. CASE script' = script
    <3>1. Cost' = Cost
      BY <2>1, <2>3, <2>4 DEF Cost, GoesToQuiesce
    <3>2. RebootJobs' <= RebootJobs
      <4> DEFINE x == IF Head(jobs) = "host-reboot" THEN 1 ELSE 0
      <4>1. x \in Nat /\ RebootJobs' + x <= RebootJobs
        BY <2>2
      <4> HIDE DEF x
      <4> QED BY <1>2, <4>1, PartBounded
    <3>3. Owed' <= Owed
      BY <1>2, <2>3, <3>2 DEF Owed
    <3>4. Cost' <= Cost
      BY <1>2, <3>1
    <3> QED BY <1>10, <2>1, <3>3, <3>4
  <2>5. CASE Head(jobs) = "host-reboot" /\ script = "idle" /\ script' = "waiting"
    <3>1. Cost = 0 /\ (Exhausted => Cost' = 0) /\ RebootJobs' + 1 <= RebootJobs
      BY <2>2, <2>3, <2>5 DEF Cost
    <3>2. Claimed' <= Claimed
      <4>1. CASE Exhausted
        BY <1>2, <2>3, <3>1, <4>1 DEF Owed
      <4>2. CASE ~Exhausted
        <5>1. Owed' + 1 <= Owed
          BY <1>2, <2>3, <3>1, <4>2 DEF Owed
        <5> QED BY <1>2, <3>1, <5>1, Sums
      <4> QED BY <4>1, <4>2
    <3>3. CASE alive'
      <4>1. CrashUnheard => CrashUnheard'
        BY <1>1, <2>1, <3>3, ElsewhereFacts
      <4>2. Unspent' <= Unspent
        BY <1>1, <2>1, <4>1, ClaimChanges
      <4> QED BY <1>5, <2>1, <3>2, <4>2 DEF Kept
    <3>4. CASE ~alive'
      BY <1>9, <2>1, <3>4
    <3> QED BY <3>3, <3>4
  <2> QED BY <2>1, <2>4, <2>5
\* A crash is charged, or passes, when the manager hears of it, and one without
\* attempts left lets every script go to Quiesced.
<1>16. CASE HostCrashes
  <2>1. /\ script = "idle" /\ script' = "waiting" /\ restartCause' = "HostCrash"
        /\ UNCHANGED <<attemptsLeft, jobs, allowance>>
    BY <1>16 DEF HostCrashes, SetRestartCause
  <2>2. alive /\ ~CrashUnheard /\ CrashUnheard'
    BY <1>1, <1>16, CrashFacts
  <2>3. Cost = 0 /\ Unpaid = 0 /\ RebootJobs' = RebootJobs
    BY <1>1, <2>1, <2>2, ClaimFacts DEF Cost, Unpaid
  <2>4. Unspent = attemptsLeft - 0 /\ Unspent' = attemptsLeft' - Unpaid'
    BY <1>1, <2>3, ClaimFacts
  <2>5. CASE attemptsLeft > 0
    <3>1. Unpaid' = 1 /\ ~Exhausted /\ ~Exhausted'
      BY <1>2, <2>1, <2>2, <2>5 DEF Unpaid, Exhausted
    <3>2. Unspent' = Unspent - 1
      BY <1>2, <2>1, <2>4, <3>1
    <3>3. Owed' = Owed
      BY <2>3, <3>1 DEF Owed
    <3>4. Claimed' <= Claimed + 1
      <4>1. Owed' <= Owed
        BY <1>2, <3>3
      <4>2. Owed' + Cost' <= (Owed + Cost) + 1
        BY <1>2, <4>1, Sums
      <4> QED BY <1>2, <4>2
    <3> QED BY <1>6, <2>1, <2>2, <3>2, <3>4 DEF Moved
  <2>6. CASE ~(attemptsLeft > 0)
    <3>1. Unpaid' = 0 /\ Exhausted'
      BY <1>2, <2>1, <2>6 DEF Unpaid, Exhausted
    <3>2. Unspent' <= Unspent
      BY <1>2, <2>1, <2>4, <3>1
    <3>3. Owed' <= Owed /\ Cost' <= Cost
      BY <1>2, <2>1, <2>3, <3>1 DEF Owed, Cost
    <3>4. Claimed' <= Claimed
      BY <1>1, <3>3, ClaimChanges
    <3> QED BY <1>5, <2>1, <2>2, <3>2, <3>4 DEF Kept
  <2> QED BY <2>5, <2>6
<1>17. CASE (\E u \in Units : AnnounceTransition(u) \/ Reached(u)) \/ BootFails
             \/ UNCHANGED allVars
  <2>1. Elsewhere /\ UNCHANGED <<alive, attemptsLeft, restartCause, jobs, script, reading,
                                 allowance>>
    BY <1>17 DEF Elsewhere, AnnounceTransition, Reached, BootFails, allVars, systemVars,
                 hostVars, props
  <2>2. Cost' = Cost /\ Owed' = Owed
    BY <2>1 DEF Cost, GoesToQuiesce, Exhausted, Owed, RebootJobs, RebootsIn
  <2>3. Cost' <= Cost /\ Owed' <= Owed
    BY <1>2, <2>2
  <2> QED BY <1>10, <2>1, <2>3
\* The script's reading says what the counter said.
<1>18. CASE ScriptStarts \/ ScriptReadsCount \/ ScriptFails
  <2>1. /\ Elsewhere
        /\ UNCHANGED <<alive, attemptsLeft, restartCause, jobs, allowance>>
    BY <1>18 DEF Elsewhere, ScriptStarts, ScriptReadsCount, ScriptFails, hostVars, props
  <2>2. \/ script = "waiting" /\ script' = "sleeping"
        \/ script = "sleeping" /\ script' = "counted" /\ reading' = attemptsLeft
        \/ script' = "idle"
    BY <1>18 DEF ScriptStarts, ScriptReadsCount, ScriptFails
  <2>3. Owed' = Owed /\ (Exhausted' <=> Exhausted)
    BY <2>1 DEF Owed, Exhausted, RebootJobs, RebootsIn
  <2>4. Cost' = Cost \/ Cost' = 0
    BY <2>1, <2>2, <2>3 DEF Cost, GoesToQuiesce, Exhausted
  <2>5. Cost' <= Cost /\ Owed' <= Owed
    BY <1>2, <2>3, <2>4
  <2> QED BY <1>10, <2>1, <2>5
<1>19. CASE ScriptDecides
  <2>1. /\ Elsewhere /\ alive /\ script = "counted" /\ script' = "idle"
        /\ UNCHANGED <<alive, attemptsLeft, restartCause, jobs>>
        /\ \/ UNCHANGED allowance
           \/ ~GoesToQuiesce /\ allowance' = allowance - 1
    BY <1>19 DEF Elsewhere, ScriptDecides, hostVars, props
  <2>2. Cost' = 0 /\ Owed' = Owed
    BY <2>1 DEF Cost, Owed, Exhausted, RebootJobs, RebootsIn
  <2>3. CASE UNCHANGED allowance
    <3>1. UNCHANGED allowance /\ Owed' <= Owed /\ Cost' <= Cost
      BY <1>2, <2>1, <2>2, <2>3
    <3> QED BY <1>10, <2>1, <3>1
  <2>4. CASE ~GoesToQuiesce /\ allowance' = allowance - 1
    <3>1. Cost = 1
      BY <2>1, <2>4 DEF Cost
    <3>2. Claimed' = Claimed - 1 /\ 0 <= Claimed'
      BY <1>2, <2>2, <3>1
    <3>3. CrashUnheard => CrashUnheard'
      BY <1>1, <2>1, ElsewhereFacts
    <3>4. Unspent' <= Unspent /\ 0 <= Unspent
      BY <1>1, <2>1, <3>3, ClaimChanges
    <3>5. allowance >= Unspent + Claimed
      BY <1>3, <2>1
    <3> QED BY <1>2, <2>4, <3>2, <3>4, <3>5, BalancePaid
  <2> QED BY <2>1, <2>3, <2>4
<1> QED
  BY <1>11, <1>12, <1>13, <1>14, <1>15, <1>16, <1>17, <1>18, <1>19 DEF SystemNext, Working

\* Between two refills of the counter the script never boots more often than
\* there were attempts and reboots under way at the refill and reboots that the
\* manager let pass without an attempt since, for every bound on requests,
\* crashes and deaths and whatever users request: the manager's counter, the
\* script's own reading of it and the crash in its inbox are never spent twice.
THEOREM HostRebootsWithinBudget == SystemSpec => []RebootsWithinBudget
<1>1. SystemInit => CrashBeforeCount /\ Budget
  <2> SUFFICES ASSUME SystemInit PROVE CrashBeforeCount /\ Budget
    OBVIOUS
  <2>1. ~CrashUnheard /\ CrashOnce(bus)
    BY DEF SystemInit, CrashUnheard, Has, CrashOnce
  <2> QED BY <2>1 DEF SystemInit, Init, CrashBeforeCount, Budget
<1>2. BudgetInv /\ [SystemNext]_allVars => (CrashBeforeCount /\ Budget)'
  BY CrashBeforeCountPreserved, BudgetPreserved DEF BudgetInv, FollowInv
<1>3. BudgetInv <=> FollowInv /\ (CrashBeforeCount /\ Budget)
  BY DEF BudgetInv
<1>4. Budget => RebootsWithinBudget
  BY DEF Budget, RebootsWithinBudget
<1> QED BY <1>1, <1>2, <1>3, <1>4, FollowInvHolds, PTL DEF SystemSpec
=============================================================================
