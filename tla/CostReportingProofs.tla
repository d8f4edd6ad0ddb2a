-------------------------- MODULE CostReportingProofs --------------------------
(***************************************************************************)
(* Proofs about PriceGenerator for every list of jobs, every concurrency   *)
(* and every number of attempts, and about CostReporting, which runs it,   *)
(* for every cluster, usage, price list and order of steps.                *)
(*                                                                         *)
(* The generator is a count.  A job that is not done is not sent yet, in   *)
(* the channel, or in the hand of exactly one worker (Conserved).  When    *)
(* all workers wait to send, there are the 2 * level + 1 jobs of the full  *)
(* channel and the level jobs they hold, so at least 3 * level + 1 jobs;   *)
(* and when the channel is closed there are none at all.                   *)
(*                                                                         *)
(* The reports take three arguments.  A dataset agrees with itself because *)
(* every view is a table whose rows stand for disjoint groups of the same  *)
(* pods or nodes (Groups), so that its column adds up to the column of the *)
(* pods (GroupsAddUp, NodesAddUp, TypesAddUp); this needs no invariant but *)
(* that what was listed can be added up (Collecting).  The gauges follow   *)
(* from what Update has still to do: a vector that waits for its reset has *)
(* all its series to be set, any other shows exactly those that are set    *)
(* already (Exporting); a series replaces no other of its dataset because  *)
(* the labels of two differ (KeysDiffer).  And a price that was fetched is *)
(* followed from the answer (Offering) through the file and the program    *)
(* built with it (Fetched) to the node shown at it.                        *)
(***************************************************************************)
EXTENDS CostReporting, SequenceTheorems, SumTheorems

-----------------------------------------------------------------------------
(* The generator *)

Holding == {w \in Workers : worker[w].task.job # 0}

HeldWhileBusy ==
    \A w \in Workers : w \in Holding <=> worker[w].at \in {"asking", "resending"}

(* jobWG counts the jobs that are somewhere. *)
Conserved == jobWG = (Len(jobs) - sent) + Len(tasks) + Cardinality(Holding)

(* A job that was sent is in the channel, held, or settled. *)
Accounted ==
    \A n \in 1 .. sent :
        \/ \E i \in 1 .. Len(tasks) : tasks[i].job = n
        \/ \E w \in Workers : worker[w].task.job = n
        \/ jobs[n] \in DOMAIN result \cup warned

Ending ==
    /\ closed => jobWG = 0
    /\ \A w \in Workers : worker[w].at = "exited" => closed
    /\ main = "written" =>
         /\ \A w \in Workers : worker[w].at = "exited"
         /\ DOMAIN file = DOMAIN result

IInv ==
    /\ Len(jobs) \in Nat
    /\ GeneratorTypeOK
    /\ HeldWhileBusy /\ Conserved /\ Accounted /\ Ending

(* The workers that hold a job are finitely many, and as many as are busy. *)
LEMMA HoldingFinite ==
    ASSUME level \in Nat PROVE IsFiniteSet(Holding) /\ Cardinality(Holding) \in Nat
<1>1. IsFiniteSet(Workers)
  BY FS_Interval DEF Workers
<1>2. IsFiniteSet(Holding)
  BY <1>1, FS_Subset DEF Holding
<1>3. QED BY <1>2, FS_CardinalityType

(* One worker takes a job: the count of holders grows by one. *)
LEMMA TakesOne ==
    ASSUME level \in Nat, level' = level, NEW w \in Workers, w \notin Holding,
           Holding' = Holding \cup {w}
    PROVE  Cardinality(Holding') = Cardinality(Holding) + 1
BY HoldingFinite, FS_AddElement

(* One worker gives its job away: there was one, and the count shrinks by one. *)
LEMMA GivesOne ==
    ASSUME level \in Nat, level' = level, NEW w \in Workers, w \in Holding,
           Holding' = Holding \ {w}
    PROVE  /\ Cardinality(Holding') = Cardinality(Holding) - 1
           /\ Cardinality(Holding) >= 1
           /\ Cardinality(Holding') \in Nat
<1>1. IsFiniteSet(Holding) /\ Cardinality(Holding) \in Nat
  BY HoldingFinite
<1>2. IsFiniteSet(Holding \ {w}) /\ Cardinality(Holding \ {w}) = Cardinality(Holding) - 1
  BY <1>1, FS_RemoveElement
<1>3. Cardinality(Holding \ {w}) \in Nat
  BY <1>2, FS_CardinalityType
<1>4. QED BY <1>1, <1>2, <1>3

(* Nobody holds a job at the start, and none was sent. *)
LEMMA InitEstablishes == InitGenerator => IInv
<1> SUFFICES ASSUME InitGenerator PROVE IInv
  OBVIOUS
<1>1. PICK call \in Invocations :
        /\ jobs = JobsFor(call)
        /\ level = Level(call.concurrency, Len(jobs))
        /\ tasks = << >> /\ sent = 0 /\ closed = FALSE
        /\ worker = [w \in 1 .. level |-> Idle]
        /\ jobWG = Len(jobs)
        /\ main = IF call.regions = << >> \/ call.types = << >> THEN "failed" ELSE "running"
  BY DEF InitGenerator
<1>2. Len(jobs) \in Nat /\ call.concurrency \in Int /\ MaxPricingAttempts \in Nat
  BY <1>1, GeneratorAssumption
<1>3. level \in Nat \ {0}
  BY <1>1, <1>2 DEF Level
<1>4. Idle \in Place
  BY <1>2 DEF Idle, NoTask, Place
<1>5. GeneratorTypeOK
  <2>1. tasks \in Seq(Task) /\ Len(tasks) = 0
    BY <1>1, EmptySeq
  <2>2. worker \in [Workers -> Place]
    BY <1>1, <1>4 DEF Workers
  <2>3. main \in {"running", "written", "failed"}
    BY <1>1
  <2>4. sent \in 0 .. Len(jobs) /\ jobWG \in 0 .. Len(jobs) /\ closed \in BOOLEAN
    <3>1. sent = 0 /\ jobWG = Len(jobs) /\ closed = FALSE
      BY <1>1
    <3>2. closed \in BOOLEAN
      BY <3>1, Zenon
    <3>3. QED BY <3>1, <3>2, <1>2
  <2>5. Len(tasks) <= Capacity
    BY <2>1, <1>3 DEF Capacity
  <2>6. QED BY <1>3, <2>1, <2>2, <2>3, <2>4, <2>5 DEF GeneratorTypeOK
<1>6. Holding = {}
  BY <1>1 DEF Holding, Workers, Idle, NoTask
<1>7. HeldWhileBusy
  BY <1>1, <1>6 DEF HeldWhileBusy, Workers, Idle
<1>8. Conserved
  BY <1>1, <1>2, <1>6, FS_EmptySet DEF Conserved
<1>9. Accounted /\ Ending
  BY <1>1 DEF Accounted, Ending, Workers, Idle
<1>10. QED BY <1>2, <1>5, <1>7, <1>8, <1>9 DEF IInv

(* What the invariant says of the parts a step of a worker works with. *)
LEMMA Parts ==
    ASSUME IInv
    PROVE  /\ Len(jobs) \in Nat /\ level \in Nat /\ sent \in Nat /\ jobWG \in Nat
           /\ tasks \in Seq(Task) /\ Len(tasks) \in Nat
           /\ worker \in [Workers -> Place]
           /\ Cardinality(Holding) \in Nat
BY HoldingFinite, LenProperties DEF IInv, GeneratorTypeOK

(* A worker receives the job at the head of the channel. *)
LEMMA ReceiveStep == ASSUME IInv, NEW w \in Workers, Receive(w) PROVE IInv'
<1> USE Parts DEF Receive
<1>1. /\ tasks # << >> /\ Workers' = Workers /\ Task' = Task /\ Place' = Place
      /\ Capacity' = Capacity
  BY DEF Workers, Task, Place, Capacity
<1>2. /\ Head(tasks) \in Task /\ Head(tasks) = tasks[1]
      /\ tasks' \in Seq(Task)
      /\ Len(tasks') = Len(tasks) - 1
      /\ \A i \in 1 .. Len(tasks') : tasks'[i] = tasks[i + 1]
  BY <1>1, HeadTailProperties
<1>3. /\ worker' = [worker EXCEPT ![w] = [at |-> "asking", task |-> Head(tasks)]]
      /\ [at |-> "asking", task |-> Head(tasks)] \in Place
      /\ Head(tasks).job # 0
  BY <1>2 DEF Task, Place
<1>4. GeneratorTypeOK'
  <2>1. worker' \in [Workers -> Place]
    BY <1>3
  <2>2. Len(tasks') <= Capacity
    BY <1>2 DEF IInv, GeneratorTypeOK, Capacity
  <2>3. QED BY <1>1, <1>2, <2>1, <2>2 DEF IInv, GeneratorTypeOK
<1>5. w \notin Holding /\ Holding' = Holding \cup {w}
  <2>1. w \notin Holding
    BY DEF IInv, HeldWhileBusy
  <2>2. \A v \in Workers : worker'[v] = IF v = w THEN [at |-> "asking", task |-> Head(tasks)]
                                               ELSE worker[v]
    BY <1>3
  <2>3. QED BY <2>1, <2>2, <1>1, <1>3 DEF Holding
<1>6. HeldWhileBusy'
  BY <1>1, <1>3, <1>5 DEF IInv, HeldWhileBusy
<1>7. Conserved'
  <2>1. Cardinality(Holding') = Cardinality(Holding) + 1
    BY <1>1, <1>5, TakesOne
  <2>2. QED BY <1>1, <1>2, <2>1 DEF IInv, Conserved
<1>8. Accounted'
  <2> SUFFICES ASSUME NEW n \in 1 .. sent
               PROVE  \/ \E i \in 1 .. Len(tasks') : tasks'[i].job = n
                      \/ \E v \in Workers : worker'[v].task.job = n
                      \/ jobs[n] \in DOMAIN result \cup warned
    BY <1>1 DEF Accounted
  <2>1. CASE \E i \in 1 .. Len(tasks) : tasks[i].job = n
    <3>1. PICK i \in 1 .. Len(tasks) : tasks[i].job = n
      BY <2>1
    <3>2. CASE i = 1
      BY <1>2, <1>3, <3>1, <3>2
    <3>3. CASE i # 1
      <4>1. i - 1 \in 1 .. Len(tasks') /\ tasks'[i - 1] = tasks[i]
        BY <1>2, <3>1, <3>3
      <4>2. QED BY <4>1, <3>1
    <3>4. QED BY <3>2, <3>3
  <2>2. CASE \E v \in Workers : worker[v].task.job = n
    <3>1. PICK v \in Workers : worker[v].task.job = n
      BY <2>2
    <3>2. v # w
      BY <3>1, <1>5 DEF Holding
    <3>3. QED BY <3>1, <3>2, <1>3
  <2>3. CASE jobs[n] \in DOMAIN result \cup warned
    BY <2>3
  <2>4. QED BY <2>1, <2>2, <2>3 DEF IInv, Accounted
<1>9. Ending'
  BY <1>1, <1>3 DEF IInv, Ending
<1>10. QED BY <1>1, <1>4, <1>6, <1>7, <1>8, <1>9 DEF IInv

(* A worker gives its job away, with a price or a warning. *)
LEMMA SettleStep ==
    ASSUME IInv, NEW w \in Workers, Priced(w) \/ GivenUp(w) PROVE IInv'
<1> USE Parts
<1>1. /\ worker[w].at = "asking" /\ worker' = [worker EXCEPT ![w] = Idle]
      /\ jobWG' = jobWG - 1
      /\ UNCHANGED <<jobs, level, tasks, sent, closed, file, main>>
      /\ DOMAIN result \cup warned \subseteq DOMAIN result' \cup warned'
      /\ jobs[worker[w].task.job] \in DOMAIN result' \cup warned'
  <2>1. CASE Priced(w)
    <3> DEFINE key == jobs[worker[w].task.job]
    <3>1. DOMAIN result' = DOMAIN result \cup {key}
      BY <2>1 DEF Priced
    <3>2. QED BY <2>1, <3>1 DEF Priced
  <2>2. CASE GivenUp(w)
    BY <2>2 DEF GivenUp
  <2>3. QED BY <2>1, <2>2
<1>2. Workers' = Workers /\ Task' = Task /\ Place' = Place /\ Capacity' = Capacity
  BY <1>1 DEF Workers, Task, Place, Capacity
<1>3. Idle \in Place /\ Idle.task.job = 0 /\ Idle.at = "idle"
  <2>1. MaxPricingAttempts \in Nat
    BY GeneratorAssumption
  <2>2. QED BY <2>1 DEF Idle, NoTask, Place
<1>4. w \in Holding /\ Holding' = Holding \ {w}
  <2>1. w \in Holding
    BY <1>1 DEF IInv, HeldWhileBusy
  <2>2. \A v \in Workers : worker'[v] = IF v = w THEN Idle ELSE worker[v]
    BY <1>1
  <2>3. QED BY <2>1, <2>2, <1>2, <1>3 DEF Holding
<1>5. HeldWhileBusy'
  BY <1>1, <1>2, <1>3, <1>4 DEF IInv, HeldWhileBusy
<1>6. Conserved' /\ jobWG' \in 0 .. Len(jobs)
  <2>1. /\ Cardinality(Holding') = Cardinality(Holding) - 1
        /\ Cardinality(Holding) >= 1
    BY <1>1, <1>4, GivesOne
  <2>2. QED BY <1>1, <2>1 DEF IInv, Conserved, GeneratorTypeOK
<1>7. GeneratorTypeOK'
  <2>1. worker' \in [Workers -> Place]
    BY <1>1, <1>3
  <2>2. QED BY <1>1, <1>2, <1>6, <2>1 DEF IInv, GeneratorTypeOK
<1>8. Accounted'
  <2> SUFFICES ASSUME NEW n \in 1 .. sent
               PROVE  \/ \E i \in 1 .. Len(tasks) : tasks[i].job = n
                      \/ \E v \in Workers : worker'[v].task.job = n
                      \/ jobs[n] \in DOMAIN result' \cup warned'
    BY <1>1, <1>2 DEF Accounted
  <2>1. CASE \E v \in Workers : worker[v].task.job = n
    <3>1. PICK v \in Workers : worker[v].task.job = n
      BY <2>1
    <3>2. CASE v = w
      BY <3>1, <3>2, <1>1
    <3>3. CASE v # w
      BY <3>1, <3>3, <1>1
    <3>4. QED BY <3>2, <3>3
  <2>2. QED BY <2>1, <1>1 DEF IInv, Accounted
<1>9. Ending'
  <2>1. jobWG # 0
    <3>1. Cardinality(Holding) >= 1
      BY <1>1, <1>4, GivesOne
    <3>2. sent <= Len(jobs)
      BY DEF IInv, GeneratorTypeOK
    <3>3. QED BY <3>1, <3>2 DEF IInv, Conserved
  <2>2. ~closed /\ main # "written"
    BY <2>1, <1>1 DEF IInv, Ending
  <2>3. \A v \in Workers : worker'[v].at # "exited"
    BY <2>2, <1>1, <1>3 DEF IInv, Ending
  <2>4. QED BY <2>2, <2>3, <1>1, <1>2 DEF Ending
<1>10. QED BY <1>1, <1>5, <1>6, <1>7, <1>8, <1>9 DEF IInv

(* A throttled worker keeps its job. *)
LEMMA ThrottledStep == ASSUME IInv, NEW w \in Workers, Throttled(w) PROVE IInv'
<1> USE Parts DEF Throttled
<1> DEFINE next == Again(worker[w].task)
<1>1. Workers' = Workers /\ Task' = Task /\ Place' = Place /\ Capacity' = Capacity
  BY DEF Workers, Task, Place, Capacity
<1>2. /\ worker[w].task \in [job : 0 .. Len(jobs), attempt : 0 .. MaxPricingAttempts]
      /\ worker[w].task.attempt < MaxPricingAttempts
      /\ MaxPricingAttempts \in Nat
  BY GeneratorAssumption DEF Place, ShouldRetry
<1>3. next \in Place /\ next.task.job = worker[w].task.job /\ next.at = "resending"
  BY <1>2 DEF Again, Place
<1>4. worker' = [worker EXCEPT ![w] = next]
  OBVIOUS
<1>5. \A v \in Workers : worker'[v] = IF v = w THEN next ELSE worker[v]
  BY <1>4
<1> HIDE DEF next
<1>6. Holding' = Holding
  BY <1>1, <1>3, <1>5 DEF Holding
<1>7. HeldWhileBusy'
  BY <1>1, <1>3, <1>5, <1>6 DEF IInv, HeldWhileBusy
<1>8. GeneratorTypeOK'
  <2>1. worker' \in [Workers -> Place]
    BY <1>3, <1>4
  <2>2. QED BY <1>1, <2>1 DEF IInv, GeneratorTypeOK
<1>9. Conserved'
  BY <1>6 DEF IInv, Conserved
<1>10. Accounted'
  <2>1. \A v \in Workers : worker'[v].task.job = worker[v].task.job
    BY <1>3, <1>5
  <2>2. QED BY <1>1, <2>1 DEF IInv, Accounted
<1>11. Ending'
  BY <1>1, <1>3, <1>5 DEF IInv, Ending
<1>12. QED BY <1>7, <1>8, <1>9, <1>10, <1>11 DEF IInv

(* What Append does to the channel when the feeder or a worker sends. *)
LEMMA Sending ==
    ASSUME IInv, NEW t \in Task, tasks' = Append(tasks, t), Len(tasks) < Capacity,
           UNCHANGED <<jobs, level>>
    PROVE  /\ Workers' = Workers /\ Task' = Task /\ Place' = Place /\ Capacity' = Capacity
           /\ tasks' \in Seq(Task) /\ Len(tasks') = Len(tasks) + 1
           /\ Len(tasks') <= Capacity'
           /\ \A n : (\E i \in 1 .. Len(tasks) : tasks[i].job = n) =>
                     (\E i \in 1 .. Len(tasks') : tasks'[i].job = n)
           /\ \E i \in 1 .. Len(tasks') : tasks'[i].job = t.job
<1>1. /\ Workers' = Workers /\ Task' = Task /\ Place' = Place /\ Capacity' = Capacity
      /\ Capacity \in Nat
  BY Parts DEF Workers, Task, Place, Capacity
<1>2. /\ tasks' \in Seq(Task) /\ Len(tasks') = Len(tasks) + 1
      /\ \A i \in 1 .. Len(tasks) : tasks'[i] = tasks[i]
      /\ tasks'[Len(tasks) + 1] = t
  BY Parts, AppendProperties
<1>3. Len(tasks') <= Capacity'
  BY <1>1, <1>2, Parts
<1>4. ASSUME NEW n, NEW i \in 1 .. Len(tasks), tasks[i].job = n
      PROVE  \E k \in 1 .. Len(tasks') : tasks'[k].job = n
  <2>1. i \in 1 .. Len(tasks') /\ tasks'[i].job = n
    BY <1>2, <1>4, Parts
  <2>2. QED BY <2>1
<1>5. \E i \in 1 .. Len(tasks') : tasks'[i].job = t.job
  <2>1. Len(tasks) + 1 \in 1 .. Len(tasks')
    BY <1>2, Parts
  <2>2. QED BY <1>2, <2>1
<1>6. QED BY <1>1, <1>2, <1>3, <1>4, <1>5

(* The feeder sends the next job. *)
LEMMA FeedStep == ASSUME IInv, Feed PROVE IInv'
<1> USE Parts DEF Feed
<1> DEFINE t == [job |-> sent + 1, attempt |-> 0]
<1>1. t \in Task /\ t.job = sent + 1
  BY GeneratorAssumption DEF Task
<1>2. tasks' = Append(tasks, t)
  OBVIOUS
<1> HIDE DEF t
<1>3. /\ Workers' = Workers /\ Task' = Task /\ Place' = Place /\ Capacity' = Capacity
      /\ tasks' \in Seq(Task) /\ Len(tasks') = Len(tasks) + 1 /\ Len(tasks') <= Capacity'
      /\ \A n : (\E i \in 1 .. Len(tasks) : tasks[i].job = n) =>
                (\E i \in 1 .. Len(tasks') : tasks'[i].job = n)
      /\ \E i \in 1 .. Len(tasks') : tasks'[i].job = t.job
  BY <1>1, <1>2, Sending
<1>4. Holding' = Holding
  BY <1>3 DEF Holding
<1>5. HeldWhileBusy'
  BY <1>3, <1>4 DEF IInv, HeldWhileBusy
<1>6. GeneratorTypeOK'
  <2>1. sent' = sent + 1 /\ sent < Len(jobs)
    OBVIOUS
  <2>2. sent' \in 0 .. Len(jobs')
    BY <2>1
  <2>3. worker' \in [Workers' -> Place'] /\ jobWG' \in 0 .. Len(jobs')
    BY <1>3 DEF IInv, GeneratorTypeOK
  <2>4. /\ level' \in Nat \ {0} /\ closed' \in BOOLEAN
        /\ main' \in {"running", "written", "failed"}
    BY DEF IInv, GeneratorTypeOK
  <2>5. QED BY <1>3, <2>2, <2>3, <2>4 DEF GeneratorTypeOK
<1>7. Conserved'
  <2>1. /\ Len(tasks') = Len(tasks) + 1 /\ sent' = sent + 1 /\ jobWG' = jobWG
        /\ jobs' = jobs /\ Cardinality(Holding') = Cardinality(Holding)
    BY <1>3, <1>4
  <2>2. jobWG = (Len(jobs) - sent) + Len(tasks) + Cardinality(Holding)
    BY DEF IInv, Conserved
  <2>3. QED BY <2>1, <2>2 DEF Conserved
<1>8. Accounted'
  <2> SUFFICES ASSUME NEW n \in 1 .. sent + 1
               PROVE  \/ \E i \in 1 .. Len(tasks') : tasks'[i].job = n
                      \/ \E v \in Workers : worker[v].task.job = n
                      \/ jobs[n] \in DOMAIN result \cup warned
    BY <1>3 DEF Accounted
  <2>1. CASE n = sent + 1
    BY <1>1, <1>3, <2>1
  <2>2. CASE n # sent + 1
    <3>1. n \in 1 .. sent
      BY <2>2
    <3>2. QED BY <3>1, <1>3 DEF IInv, Accounted
  <2>3. QED BY <2>1, <2>2
<1>9. Ending'
  BY <1>3 DEF IInv, Ending
<1>10. QED BY <1>5, <1>6, <1>7, <1>8, <1>9 DEF IInv

(* A worker puts its throttled job back. *)
LEMMA ResendStep == ASSUME IInv, NEW w \in Workers, Resend(w) PROVE IInv'
<1> USE Parts DEF Resend
<1>1. w \in Holding
  BY DEF IInv, HeldWhileBusy
<1>2. worker[w].task \in Task
  BY <1>1 DEF Holding, Place, Task
<1>3. /\ Workers' = Workers /\ Task' = Task /\ Place' = Place /\ Capacity' = Capacity
      /\ tasks' \in Seq(Task) /\ Len(tasks') = Len(tasks) + 1 /\ Len(tasks') <= Capacity'
      /\ \A n : (\E i \in 1 .. Len(tasks) : tasks[i].job = n) =>
                (\E i \in 1 .. Len(tasks') : tasks'[i].job = n)
      /\ \E i \in 1 .. Len(tasks') : tasks'[i].job = worker[w].task.job
  BY <1>2, Sending
<1>4. Idle \in Place /\ Idle.task.job = 0 /\ Idle.at = "idle"
  BY GeneratorAssumption DEF Idle, NoTask, Place
<1>5. \A v \in Workers : worker'[v] = IF v = w THEN Idle ELSE worker[v]
  OBVIOUS
<1>6. Holding' = Holding \ {w}
  BY <1>3, <1>4, <1>5 DEF Holding
<1>7. HeldWhileBusy'
  BY <1>3, <1>4, <1>5, <1>6 DEF IInv, HeldWhileBusy
<1>8. GeneratorTypeOK'
  <2>1. worker' \in [Workers -> Place]
    BY <1>4
  <2>2. QED BY <1>3, <2>1 DEF IInv, GeneratorTypeOK
<1>9. Conserved'
  <2>1. Cardinality(Holding') = Cardinality(Holding) - 1
    BY <1>1, <1>6, GivesOne
  <2>2. QED BY <1>3, <2>1 DEF IInv, Conserved
<1>10. Accounted'
  <2> SUFFICES ASSUME NEW n \in 1 .. sent
               PROVE  \/ \E i \in 1 .. Len(tasks') : tasks'[i].job = n
                      \/ \E v \in Workers : worker'[v].task.job = n
                      \/ jobs[n] \in DOMAIN result \cup warned
    BY <1>3 DEF Accounted
  <2>1. CASE \E v \in Workers : worker[v].task.job = n
    <3>1. PICK v \in Workers : worker[v].task.job = n
      BY <2>1
    <3>2. CASE v = w
      BY <3>1, <3>2, <1>3
    <3>3. CASE v # w
      BY <3>1, <3>3, <1>5
    <3>4. QED BY <3>2, <3>3
  <2>2. QED BY <2>1, <1>3 DEF IInv, Accounted
<1>11. Ending'
  BY <1>3, <1>4, <1>5 DEF IInv, Ending
<1>12. QED BY <1>7, <1>8, <1>9, <1>10, <1>11 DEF IInv

(* The closer, a worker that leaves, and main that writes move no job. *)
LEMMA OtherSteps ==
    ASSUME IInv, Close \/ WriteGoFile \/ (\E w \in Workers : Exit(w)) PROVE IInv'
<1> USE Parts
<1>1. CASE Close
  <2>1. UNCHANGED <<Workers, Task, Place, Capacity, Holding>>
    BY <1>1 DEF Close, Workers, Task, Place, Capacity, Holding
  <2>2. QED
    BY <1>1, <2>1 DEF Close, IInv, GeneratorTypeOK, HeldWhileBusy, Conserved, Accounted, Ending
<1>2. CASE WriteGoFile
  <2>1. UNCHANGED <<Workers, Task, Place, Capacity, Holding>>
    BY <1>2 DEF WriteGoFile, Workers, Task, Place, Capacity, Holding
  <2>2. GeneratorTypeOK' /\ HeldWhileBusy' /\ Conserved' /\ Accounted'
    BY <1>2, <2>1
    DEF WriteGoFile, IInv, GeneratorTypeOK, HeldWhileBusy, Conserved, Accounted
  <2>3. main' = "written" => DOMAIN file' = DOMAIN result'
    BY <1>2 DEF WriteGoFile, Formatted
  <2>4. Ending'
    BY <1>2, <2>1, <2>3 DEF WriteGoFile, IInv, Ending
  <2>5. QED BY <1>2, <2>2, <2>4 DEF WriteGoFile, IInv
<1>3. ASSUME NEW w \in Workers, Exit(w) PROVE IInv'
  <2>1. UNCHANGED <<Workers, Task, Place, Capacity>>
    BY <1>3 DEF Exit, Workers, Task, Place, Capacity
  <2> DEFINE next == [worker[w] EXCEPT !.at = "exited"]
  <2>2. next \in Place /\ next.task.job = worker[w].task.job /\ next.at = "exited"
    BY DEF Place
  <2>3. worker' = [worker EXCEPT ![w] = next]
    BY <1>3 DEF Exit
  <2>4. \A v \in Workers : worker'[v] = IF v = w THEN next ELSE worker[v]
    BY <2>3
  <2> HIDE DEF next
  <2>5. Holding' = Holding /\ w \notin Holding
    BY <1>3, <2>1, <2>2, <2>4 DEF Holding, Exit, IInv, HeldWhileBusy
  <2>6. HeldWhileBusy' /\ Conserved'
    BY <1>3, <2>1, <2>2, <2>4, <2>5 DEF Exit, IInv, HeldWhileBusy, Conserved
  <2>7. GeneratorTypeOK'
    <3>1. worker' \in [Workers -> Place]
      BY <2>2, <2>3
    <3>2. QED BY <1>3, <2>1, <3>1 DEF Exit, IInv, GeneratorTypeOK
  <2>8. Accounted'
    <3>1. \A v \in Workers : worker'[v].task.job = worker[v].task.job
      BY <2>2, <2>4
    <3>2. QED BY <1>3, <2>1, <3>1 DEF Exit, IInv, Accounted
  <2>9. Ending'
    BY <1>3, <2>1, <2>2, <2>4 DEF Exit, IInv, Ending
  <2>10. QED BY <1>3, <2>6, <2>7, <2>8, <2>9 DEF Exit, IInv
<1>4. QED BY <1>1, <1>2, <1>3

(* Every step of the generator keeps the invariant. *)
LEMMA StepKeeps == IInv /\ [Generate]_generatorVars => IInv'
<1> SUFFICES ASSUME IInv, [Generate]_generatorVars PROVE IInv'
  OBVIOUS
<1>1. CASE UNCHANGED generatorVars
  BY <1>1 DEF generatorVars, IInv, GeneratorTypeOK, HeldWhileBusy, Conserved, Accounted, Ending,
              Holding, Workers, Task, Place, Capacity
<1>2. CASE Feed
  BY <1>2, FeedStep
<1>3. CASE Close \/ WriteGoFile
  BY <1>3, OtherSteps
<1>4. ASSUME NEW w \in Workers, WorkerStep(w) PROVE IInv'
  BY <1>4, ReceiveStep, SettleStep, ThrottledStep, ResendStep, OtherSteps DEF WorkerStep
<1>5. QED BY <1>1, <1>2, <1>3, <1>4 DEF Generate

(* The state of the generator is well formed, always: attempts stay within
   maxPricingAttempts and the channel within its capacity. *)
THEOREM GeneratorTypes == GeneratorSpec => []GeneratorTypeOK
<1>1. IInv => GeneratorTypeOK
  BY DEF IInv
<1>2. QED BY InitEstablishes, StepKeeps, <1>1, PTL DEF GeneratorSpec

(* No run with at most 3 * level jobs ever has all workers waiting for each other
   at the full channel (main.go:104). *)
THEOREM NeverStuckWithoutBacklog == GeneratorSpec => []StuckNeedsBacklog
<1>1. IInv => StuckNeedsBacklog
  <2> SUFFICES ASSUME IInv, Stuck PROVE Len(jobs) > 3 * level
    BY DEF StuckNeedsBacklog
  <2>1. Holding = Workers
    BY DEF IInv, HeldWhileBusy, Stuck, Holding
  <2>2. Cardinality(Holding) = level
    BY <2>1, Parts, FS_Interval DEF Workers
  <2>3. Len(tasks) = 2 * level + 1
    BY DEF Stuck, Capacity
  <2>4. sent <= Len(jobs) /\ jobWG <= Len(jobs)
    BY Parts DEF IInv, GeneratorTypeOK
  <2>5. QED BY <2>2, <2>3, <2>4, Parts DEF IInv, Conserved
<1>2. QED BY InitEstablishes, StepKeeps, <1>1, PTL DEF GeneratorSpec

(* A closed channel is empty and nobody holds a job, so that every job was sent and
   settled. *)
LEMMA NoneIsLost == IInv => NoJobLost
<1> SUFFICES ASSUME IInv PROVE NoJobLost
  OBVIOUS
<1>1. ASSUME closed PROVE sent = Len(jobs) /\ Len(tasks) = 0 /\ Holding = {}
  <2>1. jobWG = 0 /\ sent <= Len(jobs)
    BY <1>1 DEF IInv, Ending, GeneratorTypeOK
  <2>2. sent = Len(jobs) /\ Len(tasks) = 0 /\ Cardinality(Holding) = 0
    BY <2>1, Parts DEF IInv, Conserved
  <2>3. QED BY <2>2, Parts, HoldingFinite, FS_EmptySet
<1>2. ASSUME closed, NEW w \in Workers PROVE worker[w].at \in {"idle", "exited"}
  <2>1. worker[w].at \notin {"asking", "resending"}
    BY <1>1, <1>2 DEF IInv, HeldWhileBusy
  <2>2. QED BY <2>1, Parts DEF Place
<1>3. ASSUME main = "written", NEW n \in 1 .. Len(jobs)
      PROVE  jobs[n] \in DOMAIN file \cup warned
  <2>1. closed /\ DOMAIN file = DOMAIN result
    <3>1. 1 \in Workers
      BY Parts DEF IInv, GeneratorTypeOK, Workers
    <3>2. QED BY <1>3, <3>1 DEF IInv, Ending
  <2>2. n \in 1 .. sent /\ Len(tasks) = 0 /\ Holding = {}
    BY <2>1, <1>1
  <2>3. \A w \in Workers : worker[w].task.job # n
    BY <2>2, Parts DEF Holding
  <2>4. QED BY <2>1, <2>2, <2>3 DEF IInv, Accounted
<1>4. QED BY <1>1, <1>2, <1>3 DEF NoJobLost

(* tasks is closed after the last send, and a job that the file does not price was
   given up with a warning (main.go:144). *)
THEOREM JobsAreNotLost == GeneratorSpec => []NoJobLost
BY InitEstablishes, StepKeeps, NoneIsLost, PTL DEF GeneratorSpec

-----------------------------------------------------------------------------
(* The reports *)

(* What is listed can be added up, and no pod is listed twice. *)
Addable(s) ==
    /\ IsFiniteSet(DOMAIN s.pods) /\ IsFiniteSet(DOMAIN s.nodes)
    /\ \A i \in DOMAIN s.pods : Measured(s.pods[i].containers)
    /\ \A i, j \in DOMAIN s.pods :
         s.pods[i].namespace = s.pods[j].namespace /\ s.pods[i].name = s.pods[j].name => i = j

(* The prices of a table are numbers. *)
Whole(table) == \A key \in DOMAIN table : table[key] \in Int

(* A row of a vector is told from the others by its labels. *)
KeysDiffer(d) == \A v \in Vectors : \A s, t \in Series(d)[v] : s[1] = t[1] => s = t

(* What is collected can be added up, wherever the loop is. *)
Collecting ==
    /\ at = "unbuilt" \/ (cluster \in Clusters /\ usage \in Usages /\ Whole(prices))
    /\ snapshot = [pods |-> snapshot.pods, namespaces |-> snapshot.namespaces, nodes |-> snapshot.nodes]
    /\ Addable(snapshot) /\ Measured(used)
    /\ last = NoData \/ Measured(last)

(* The vectors Update has still to reset. *)
Waiting == {pending.reset[i] : i \in DOMAIN pending.reset}

(* A vector that waits for its reset has all its series to be set; one that does not
   shows those of the dataset that are not to be set any more. *)
Exporting ==
    /\ pending.set \subseteq UNION {{v} \X Series(data)[v] : v \in Vectors}
    /\ \A v \in Vectors :
         IF v \in Waiting THEN {v} \X Series(data)[v] \subseteq pending.set
         ELSE gauge[v] = {s \in Series(data)[v] : <<v, s>> \notin pending.set}

(* The gauges and what Update has still to do, in and between two updates. *)
Shown ==
    /\ gauge = [v \in Vectors |-> gauge[v]]
    /\ pending = [reset |-> pending.reset, set |-> pending.set]
    /\ pending.reset \in Seq(Vectors)
    /\ at # "update" => pending = Idling
    /\ \/ data = NoData /\ at # "update"
       \/ KeysDiffer(data) /\ Exporting

(* What the generator leaves are prices the API offered for jobs. *)
Offering ==
    /\ DOMAIN jobs = 1 .. Len(jobs)
    /\ \A n \in DOMAIN jobs : jobs[n][2] # "" /\ Offered[jobs[n]] \subseteq Int
    /\ \A key \in DOMAIN result : result[key] \in Offered[key] /\ result[key] \in Int
    /\ IF main = "written" THEN file = Formatted(result) ELSE file \in {OldTable, Garbled}

(* What the program was built with, and what the nodes are shown at. *)
Fetched ==
    /\ main = "written" =>
         \A n \in DOMAIN jobs :
            /\ jobs[n][2] # ""
            /\ \/ jobs[n] \in DOMAIN ConfiguredPrices \cup warned
               \/ jobs[n] \in DOMAIN prices /\ \E p \in Offered[jobs[n]] : prices[jobs[n]] = Rounded(p)
    /\ data = NoData \/ \A n \in data.nodes : n.raw = NodeHourlyPrice(prices, n.type)

(* Before the program is built there is the generator; afterwards what it fetched. *)
Built == IF at = "unbuilt" THEN IInv /\ Offering /\ data = NoData ELSE Fetched

(* The inductive invariant. *)
RInv == Collecting /\ Shown /\ Built

-----------------------------------------------------------------------------
(* Views of one dataset *)

(* The cost of rows is the sum of a function that is their cost. *)
LEMMA CostIsSum ==
    ASSUME NEW S, IsFiniteSet(S), NEW f, \A x \in S : f[x] = x.cost
    PROVE  CostOf(S) = SumOf(f, S)
<1> DEFINE E(g) == g = [s \in SUBSET S |-> IF s = {} THEN 0 ELSE Pick(s).cost + g[s \ {Pick(s)}]]
           k == CHOOSE g : E(g)
<1>1. CostOf(S) = k[S]
  BY DEF CostOf, MapThenSumSet, MapThenFoldSet, Pick
<1>2. \A g : E(g) <=> SumEquation(f, S, g)
  <2>1. \A s \in SUBSET S : s # {} => f[Pick(s)] = Pick(s).cost
    BY Picked
  <2> QED BY <2>1 DEF SumEquation
<1>3. SumEquation(f, S, Sums(f, S))
  BY SumExists
<1> HIDE DEF E
<1>4. E(k)
  BY <1>2, <1>3
<1>5. SumEquation(f, S, k)
  BY <1>2, <1>4
<1> HIDE DEF k
<1> QED BY <1>1, <1>5, SumChosen

(* The sums of the two columns of a table of nodes or instance types. *)
AllocatedOf(S) == MapThenSumSet(LAMBDA r : r.allocated, S)
RawOf(S) == MapThenSumSet(LAMBDA r : r.raw, S)

(* The same of what is allocated. *)
LEMMA AllocatedIsSum ==
    ASSUME NEW S, IsFiniteSet(S), NEW f, \A x \in S : f[x] = x.allocated
    PROVE  AllocatedOf(S) = SumOf(f, S)
<1> DEFINE E(g) == g = [s \in SUBSET S |-> IF s = {} THEN 0 ELSE Pick(s).allocated + g[s \ {Pick(s)}]]
           k == CHOOSE g : E(g)
<1>1. AllocatedOf(S) = k[S]
  BY DEF AllocatedOf, MapThenSumSet, MapThenFoldSet, Pick
<1>2. \A g : E(g) <=> SumEquation(f, S, g)
  <2>1. \A s \in SUBSET S : s # {} => f[Pick(s)] = Pick(s).allocated
    BY Picked
  <2> QED BY <2>1 DEF SumEquation
<1>3. SumEquation(f, S, Sums(f, S))
  BY SumExists
<1> HIDE DEF E
<1>4. E(k)
  BY <1>2, <1>3
<1>5. SumEquation(f, S, k)
  BY <1>2, <1>4
<1> HIDE DEF k
<1> QED BY <1>1, <1>5, SumChosen

(* The same of raw prices. *)
LEMMA RawIsSum ==
    ASSUME NEW S, IsFiniteSet(S), NEW f, \A x \in S : f[x] = x.raw
    PROVE  RawOf(S) = SumOf(f, S)
<1> DEFINE E(g) == g = [s \in SUBSET S |-> IF s = {} THEN 0 ELSE Pick(s).raw + g[s \ {Pick(s)}]]
           k == CHOOSE g : E(g)
<1>1. RawOf(S) = k[S]
  BY DEF RawOf, MapThenSumSet, MapThenFoldSet, Pick
<1>2. \A g : E(g) <=> SumEquation(f, S, g)
  <2>1. \A s \in SUBSET S : s # {} => f[Pick(s)] = Pick(s).raw
    BY Picked
  <2> QED BY <2>1 DEF SumEquation
<1>3. SumEquation(f, S, Sums(f, S))
  BY SumExists
<1> HIDE DEF E
<1>4. E(k)
  BY <1>2, <1>3
<1>5. SumEquation(f, S, k)
  BY <1>2, <1>4
<1> HIDE DEF k
<1> QED BY <1>1, <1>5, SumChosen

(* The requests of a pod are numbers. *)
LEMMA TotalsAreNumbers ==
    ASSUME NEW containers, IsFiniteSet(DOMAIN containers), NEW r \in Resources,
           \A i \in DOMAIN containers : containers[i][r] \in Int
    PROVE  PodRequestTotals(containers)[r] \in Int
<1> DEFINE S == DOMAIN containers
           f == [i \in S |-> containers[i][r]]
           E(g) == g = [s \in SUBSET S |-> IF s = {} THEN 0 ELSE containers[Pick(s)][r] + g[s \ {Pick(s)}]]
           k == CHOOSE g : E(g)
<1>0. IsFiniteSet(S) /\ \A i \in S : f[i] \in Int
  OBVIOUS
<1>1. PodRequestTotals(containers)[r] = k[S]
  BY DEF PodRequestTotals, MapThenSumSet, MapThenFoldSet, Pick
<1>2. \A g : E(g) <=> SumEquation(f, S, g)
  <2>1. \A s \in SUBSET S : s # {} => f[Pick(s)] = containers[Pick(s)][r]
    BY Picked
  <2> QED BY <2>1 DEF SumEquation
<1> HIDE DEF f, S
<1>3. SumEquation(f, S, Sums(f, S))
  BY <1>0, SumExists
<1> HIDE DEF E
<1>4. E(k)
  BY <1>2, <1>3
<1>5. SumEquation(f, S, k)
  BY <1>2, <1>4
<1> HIDE DEF k
<1>6. k[S] = SumOf(f, S)
  BY <1>0, <1>5, SumChosen
<1>7. SumOf(f, S) \in Int
  BY <1>0, SumInt
<1> QED BY <1>1, <1>6, <1>7

(* The rows of the namespaces add up to the pods. *)
LEMMA NamespacesAddUp ==
    ASSUME NEW P, IsFiniteSet(P), \A p \in P : p.cost \in Int
    PROVE  CostOf(NamespaceCosts(P)) = CostOf(P)
<1> DEFINE K == NamespaceCosts(P)
           Of(n) == {p \in P : p.namespace = n}
           Row(n) == NamespaceCost(n, Of(n))
           f == [p \in P |-> p.cost]
           id == [p \in P |-> p.namespace]
           name == [k \in K |-> k.name]
           h == [k \in K |-> k.cost]
           g == [p \in P |-> Row(p.namespace)]
<1>1. \A n : Row(n).name = n /\ Row(n).cost = CostOf(Of(n))
  BY DEF NamespaceCost
<1>2. K = {Row(n) : n \in {p.namespace : p \in P}}
  BY DEF NamespaceCosts
<1> HIDE DEF Row, K
<1>3. (\A p \in P : g[p] \in K) /\ (\A k \in K : \E p \in P : k = g[p])
  BY <1>2
<1>4. \A p \in P : f[p] \in Int /\ f[p] = p.cost
  OBVIOUS
<1>5. IsFiniteSet(K)
  <2> HIDE DEF g
  <2> QED BY <1>3, FiniteImage
<1>6. \A p \in P : \E k \in K : name[k] = id[p]
  <2>1. \A p \in P : g[p].name = id[p]
    BY <1>1
  <2> QED BY <1>3, <2>1
<1>7. \A k, l \in K : name[k] = name[l] => k = l
  BY <1>1, <1>2
<1>9. \A k \in K : h[k] = SumOf(f, {p \in P : id[p] = name[k]})
  <2> SUFFICES ASSUME NEW k \in K PROVE h[k] = SumOf(f, {p \in P : id[p] = name[k]})
    OBVIOUS
  <2> DEFINE A == Of(k.name)
  <2>1. A = {p \in P : id[p] = name[k]} /\ h[k] = CostOf(A)
    BY <1>1, <1>2
  <2>2. IsFiniteSet(A) /\ \A p \in A : f[p] = p.cost
    BY FS_Subset
  <2> HIDE DEF A, f
  <2>3. CostOf(A) = SumOf(f, A)
    BY <2>2, CostIsSum
  <2> QED BY <2>1, <2>3
<1>10. \A k \in K : h[k] = k.cost
  OBVIOUS
<1>11. Tabulates(K, name, h, P, id, f)
  BY <1>5, <1>6, <1>7, <1>9 DEF Tabulates
<1> HIDE DEF f, id, name, h
<1>12. SumOf(h, K) = SumOf(f, P)
  BY <1>11, RowsAddUp
<1>13. CostOf(K) = SumOf(h, K) /\ CostOf(P) = SumOf(f, P)
  BY <1>4, <1>5, <1>10, CostIsSum
<1> QED BY <1>12, <1>13 DEF K

(* Every node has one row, listed or made up, and the rows add up to the pods. *)
LEMMA NodesAddUp ==
    ASSUME NEW P, IsFiniteSet(P), \A p \in P : p.cost \in Int,
           NEW listed, IsFiniteSet(DOMAIN listed), NEW table
    PROVE  LET K == NodeCosts(P, listed, table)
           IN  /\ IsFiniteSet(K) /\ \A k \in K : k.allocated \in Int
               /\ \A k, l \in K : k.name = l.name => k = l
               /\ AllocatedOf(K) = CostOf(P)
<1> DEFINE K == NodeCosts(P, listed, table)
           On(n) == {p \in P : p.node = n}
           Row(n) == IF n \in DOMAIN listed THEN ListedNode(n, listed[n], table, On(n))
                     ELSE MissingNode(n, On(n))
           Hosts == {p.node : p \in P}
           Names == DOMAIN listed \cup Hosts
           f == [p \in P |-> p.cost]
           id == [p \in P |-> p.node]
           name == [k \in K |-> k.name]
           h == [k \in K |-> k.allocated]
           g == [n \in Names |-> Row(n)]
<1>1. \A n : Row(n).name = n /\ Row(n).allocated = CostOf(On(n))
  BY DEF ListedNode, MissingNode
<1>2. K = {Row(n) : n \in Names}
  BY DEF NodeCosts
<1> HIDE DEF Row, K
<1>3. IsFiniteSet(Names)
  <2>1. (\A p \in P : id[p] \in Hosts) /\ (\A n \in Hosts : \E p \in P : n = id[p])
    OBVIOUS
  <2>2. IsFiniteSet(Hosts)
    <3> HIDE DEF Hosts, id
    <3> QED BY <2>1, FiniteImage
  <2> QED BY <2>2, FS_Union
<1>4. \A p \in P : f[p] \in Int /\ f[p] = p.cost
  OBVIOUS
<1>5. IsFiniteSet(K)
  <2>1. (\A n \in Names : g[n] \in K) /\ (\A k \in K : \E n \in Names : k = g[n])
    BY <1>2
  <2> HIDE DEF g, Names
  <2> QED BY <1>3, <2>1, FiniteImage
<1>6. \A p \in P : \E k \in K : name[k] = id[p]
  BY <1>1, <1>2
<1>7. \A k, l \in K : k.name = l.name => k = l
  BY <1>1, <1>2
<1>8. \A k \in K : k.allocated = SumOf(f, {p \in P : id[p] = name[k]})
  <2> SUFFICES ASSUME NEW k \in K PROVE k.allocated = SumOf(f, {p \in P : id[p] = name[k]})
    OBVIOUS
  <2> DEFINE A == On(k.name)
  <2>1. A = {p \in P : id[p] = name[k]} /\ k.allocated = CostOf(A)
    BY <1>1, <1>2
  <2>2. IsFiniteSet(A) /\ \A p \in A : f[p] = p.cost
    BY FS_Subset
  <2> HIDE DEF A, f
  <2>3. CostOf(A) = SumOf(f, A)
    BY <2>2, CostIsSum
  <2> QED BY <2>1, <2>3
<1>9. \A k \in K : SumOf(f, {p \in P : id[p] = name[k]}) \in Int
  <2> SUFFICES ASSUME NEW k \in K PROVE SumOf(f, {p \in P : id[p] = name[k]}) \in Int
    OBVIOUS
  <2> DEFINE A == {p \in P : id[p] = name[k]}
  <2>1. IsFiniteSet(A) /\ \A p \in A : f[p] \in Int
    BY FS_Subset
  <2> HIDE DEF A
  <2>2. SumOf(f, A) \in Int
    BY <2>1, SumInt
  <2> QED BY <2>2 DEF A
<1>10. \A k \in K : k.allocated \in Int
  BY <1>8, <1>9
<1>11. Tabulates(K, name, h, P, id, f)
  <2>1. \A k, l \in K : name[k] = name[l] => k = l
    BY <1>7
  <2>2. \A k \in K : h[k] = SumOf(f, {p \in P : id[p] = name[k]})
    BY <1>8
  <2> QED BY <1>5, <1>6, <2>1, <2>2 DEF Tabulates
<1>12. \A k \in K : h[k] = k.allocated
  OBVIOUS
<1> HIDE DEF f, id, name, h
<1>13. SumOf(h, K) = SumOf(f, P)
  BY <1>11, RowsAddUp
<1>14. AllocatedOf(K) = SumOf(h, K) /\ CostOf(P) = SumOf(f, P)
  BY <1>4, <1>5, <1>12, CostIsSum, AllocatedIsSum
<1> QED BY <1>5, <1>7, <1>10, <1>13, <1>14 DEF K

(* The elements of S in groups with the same id, and a row for each of them. *)
Groups(K, name, S, id) ==
    /\ \A x \in S : \E k \in K : name[k] = id[x]
    /\ \A k \in K : \E x \in S : name[k] = id[x]
    /\ \A k, l \in K : name[k] = name[l] => k = l

(* Each row has the cost of its group. *)
CostRows(K, name, S, id) == \A k \in K : k.cost = CostOf({x \in S : id[x] = name[k]})

(* Rows of groups of some of the pods, and the other pods. *)
LEMMA GroupsAddUp ==
    ASSUME NEW P, IsFiniteSet(P), \A p \in P : p.cost \in Int, NEW S, S \subseteq P,
           NEW id, NEW K, NEW name, Groups(K, name, S, id), CostRows(K, name, S, id)
    PROVE  CostOf(P) = CostOf(K) + CostOf(P \ S)
<1> DEFINE f == [p \in P |-> p.cost]
           h == [k \in K |-> k.cost]
           g == [p \in S |-> CHOOSE k \in K : name[k] = id[p]]
<1>1. \A p \in P : f[p] \in Int /\ f[p] = p.cost
  OBVIOUS
<1>2. IsFiniteSet(S) /\ IsFiniteSet(P \ S)
  BY FS_Subset
<1>3. IsFiniteSet(K)
  <2>1. (\A p \in S : g[p] \in K) /\ (\A k \in K : \E p \in S : k = g[p])
    BY DEF Groups
  <2> HIDE DEF g
  <2> QED BY <1>2, <2>1, FiniteImage
<1>4. \A k \in K : h[k] = SumOf(f, {p \in S : id[p] = name[k]})
  <2> SUFFICES ASSUME NEW k \in K PROVE h[k] = SumOf(f, {p \in S : id[p] = name[k]})
    OBVIOUS
  <2> DEFINE A == {p \in S : id[p] = name[k]}
  <2>1. h[k] = CostOf(A)
    BY DEF CostRows
  <2>2. IsFiniteSet(A) /\ \A p \in A : f[p] = p.cost
    BY FS_Subset
  <2> HIDE DEF A, f
  <2>3. CostOf(A) = SumOf(f, A)
    BY <2>2, CostIsSum
  <2> QED BY <2>1, <2>3 DEF A
<1>5. Tabulates(K, name, h, S, id, f)
  BY <1>1, <1>2, <1>3, <1>4 DEF Tabulates, Groups
<1>6. \A k \in K : h[k] = k.cost
  OBVIOUS
<1> HIDE DEF f, h, g
<1>7. SumOf(h, K) = SumOf(f, S)
  BY <1>5, RowsAddUp
<1>8. CostOf(K) = SumOf(h, K)
  BY <1>3, <1>6, CostIsSum
<1>9. CostOf(P) = SumOf(f, P) /\ CostOf(P \ S) = SumOf(f, P \ S)
  BY <1>1, <1>2, CostIsSum
<1>10. SumOf(f, P) = SumOf(f, S) + SumOf(f, P \ S)
  BY <1>1, SumSplit
<1> QED BY <1>7, <1>8, <1>9, <1>10

(* Workloads and the pods without a controller add up to all pods. *)
LEMMA WorkloadsAddUp ==
    ASSUME NEW P, IsFiniteSet(P), \A p \in P : p.cost \in Int
    PROVE  CostOf(P) = CostOf(WorkloadsFromPods(P)) + CostOf({p \in P : p.owner = ""})
<1> DEFINE none == ""
           S == {p \in P : p.owner # none}
           K == WorkloadsFromPods(P)
           Id(p) == <<p.namespace, p.owner>>
           Row(w) == WorkloadCost(w, {p \in S : Id(p) = w})
           id == [p \in P |-> Id(p)]
           name == [k \in K |-> k.id]
<1>1. \A w : Row(w).id = w /\ Row(w).cost = CostOf({p \in S : Id(p) = w})
  BY DEF WorkloadCost
<1>2. K = {Row(w) : w \in {Id(p) : p \in S}}
  BY DEF WorkloadsFromPods
<1>3. P \ S = {p \in P : p.owner = none}
  OBVIOUS
<1> HIDE DEF none
<1>4. S \subseteq P
  OBVIOUS
<1> HIDE DEF S, K, Row
<1>5. \A p \in S : \E k \in K : name[k] = id[p]
  BY <1>1, <1>2, <1>4
<1>6. ASSUME NEW k \in K PROVE \E p \in S : name[k] = id[p]
  <2>1. PICK p \in S : k = Row(Id(p))
    BY <1>2
  <2>2. name[k] = id[p]
    BY <1>1, <1>4, <2>1
  <2> QED BY <2>2
<1>7. \A k, l \in K : name[k] = name[l] => k = l
  BY <1>1, <1>2
<1>8. \A k \in K : k.cost = CostOf({p \in S : id[p] = name[k]})
  <2> SUFFICES ASSUME NEW k \in K PROVE k.cost = CostOf({p \in S : id[p] = name[k]})
    OBVIOUS
  <2>1. {p \in S : id[p] = name[k]} = {p \in S : Id(p) = k.id}
    BY <1>4
  <2>2. k.cost = CostOf({p \in S : Id(p) = k.id})
    BY <1>1, <1>2
  <2> QED BY <2>1, <2>2
<1> HIDE DEF id, name
<1>9. Groups(K, name, S, id) /\ CostRows(K, name, S, id)
  BY <1>5, <1>6, <1>7, <1>8 DEF Groups, CostRows
<1>10. CostOf(P) = CostOf(K) + CostOf(P \ S)
  BY <1>4, <1>9, GroupsAddUp
<1> QED BY <1>3, <1>10 DEF K, none

(* The values of one label key and the pods that do not have it add up to all pods. *)
LEMMA LabelsAddUp ==
    ASSUME NEW P, IsFiniteSet(P), \A p \in P : p.cost \in Int, NEW key \in TrackedKeys
    PROVE  CostOf(P) = CostOf({c \in LabelCosts(P) : c.key = key})
                       + CostOf({p \in P : p.labels[key] = 0})
<1> DEFINE S == {p \in P : p.labels[key] # 0}
           Row(l) == [key |-> l[1], value |-> l[2], cost |-> CostOf({p \in P : p.labels[l[1]] = l[2]})]
           RowOf(v) == Row(<<key, v>>)
           K == {c \in LabelCosts(P) : c.key = key}
           Values == {p.labels[key] : p \in S}
           id == [p \in P |-> p.labels[key]]
           name == [k \in K |-> k.value]
<1>1. K = {RowOf(v) : v \in Values}
  <2> DEFINE Pairs == {<<k, p.labels[k]>> : k \in TrackedKeys, p \in P} \ (TrackedKeys \X {0})
  <2>1. LabelCosts(P) = {Row(l) : l \in Pairs}
    BY DEF LabelCosts
  <2>2. \A l : Row(l).key = l[1]
    OBVIOUS
  <2>3. \A v \in Values : <<key, v>> \in Pairs
    OBVIOUS
  <2>4. \A l \in Pairs : l[1] = key => \E v \in Values : l = <<key, v>>
    <3> SUFFICES ASSUME NEW k \in TrackedKeys, NEW p \in P, k = key,
                        <<k, p.labels[k]>> \notin TrackedKeys \X {0}
                 PROVE  \E v \in Values : <<k, p.labels[k]>> = <<key, v>>
      OBVIOUS
    <3>1. p.labels[key] # 0
      OBVIOUS
    <3>2. p.labels[key] \in Values
      BY <3>1
    <3> QED BY <3>2
  <2> HIDE DEF Row, Pairs, Values
  <2>5. \A v \in Values : Row(<<key, v>>) \in K
    BY <2>1, <2>2, <2>3
  <2>6. \A c \in K : \E v \in Values : c = Row(<<key, v>>)
    BY <2>1, <2>2, <2>4
  <2> QED BY <2>5, <2>6
<1>2. \A v : RowOf(v).value = v /\ RowOf(v).cost = CostOf({p \in P : p.labels[key] = v})
  OBVIOUS
<1>3. P \ S = {p \in P : p.labels[key] = 0} /\ S \subseteq P
  OBVIOUS
<1>4. \A v \in Values : {p \in P : p.labels[key] = v} = {p \in S : p.labels[key] = v}
  OBVIOUS
<1> HIDE DEF S, K, RowOf
<1>5. \A p \in S : \E k \in K : name[k] = id[p]
  BY <1>1, <1>2, <1>3
<1>6. ASSUME NEW k \in K PROVE \E p \in S : name[k] = id[p]
  <2>1. PICK p \in S : k = RowOf(p.labels[key])
    BY <1>1
  <2>2. name[k] = id[p]
    BY <1>2, <1>3, <2>1
  <2> QED BY <2>2
<1>7. \A k, l \in K : name[k] = name[l] => k = l
  BY <1>1, <1>2
<1>8. \A k \in K : k.cost = CostOf({p \in S : id[p] = name[k]})
  <2> SUFFICES ASSUME NEW v \in Values, NEW k \in K, k = RowOf(v)
               PROVE  k.cost = CostOf({p \in S : id[p] = name[k]})
    BY <1>1
  <2>1. {p \in S : id[p] = name[k]} = {p \in S : p.labels[key] = v}
    BY <1>2, <1>3
  <2>2. k.cost = CostOf({p \in S : p.labels[key] = v})
    BY <1>2, <1>4
  <2> QED BY <2>1, <2>2
<1> HIDE DEF id, name
<1>9. Groups(K, name, S, id) /\ CostRows(K, name, S, id)
  BY <1>5, <1>6, <1>7, <1>8 DEF Groups, CostRows
<1>10. CostOf(P) = CostOf(K) + CostOf(P \ S)
  BY <1>3, <1>9, GroupsAddUp
<1> QED BY <1>3, <1>10 DEF K

(* Each row has what is allocated to its group, and its price. *)
NodeRows(K, name, S, id) ==
    \A k \in K : /\ k.allocated = AllocatedOf({x \in S : id[x] = name[k]})
                 /\ k.raw = RawOf({x \in S : id[x] = name[k]})

(* Instance types and the nodes without a type: what is allocated adds up; and so
   does the raw price, when a node without a type has none. *)
LEMMA TypeRows ==
    ASSUME NEW N, IsFiniteSet(N), \A n \in N : n.allocated \in Int, \A n \in N : n.raw \in Int,
           NEW S, S \subseteq N, \A n \in N \ S : n.raw = 0,
           NEW id, NEW K, NEW name,
           Groups(K, name, S, id), NodeRows(K, name, S, id)
    PROVE  AllocatedOf(N) = AllocatedOf(K) + AllocatedOf(N \ S) /\ RawOf(K) = RawOf(N)
<1> DEFINE a == [n \in N |-> n.allocated]
           b == [k \in K |-> k.allocated]
           r == [n \in N |-> n.raw]
           q == [k \in K |-> k.raw]
           g == [n \in S |-> CHOOSE k \in K : name[k] = id[n]]
<1>1. IsFiniteSet(S) /\ IsFiniteSet(N \ S)
  BY FS_Subset
<1>2. IsFiniteSet(K)
  <2> HIDE DEF a, b, r, q
  <2>1. (\A n \in S : g[n] \in K) /\ (\A k \in K : \E n \in S : k = g[n])
    BY DEF Groups
  <2> HIDE DEF g
  <2> QED BY <1>1, <2>1, FiniteImage
<1>3. (\A n \in N : a[n] \in Int /\ a[n] = n.allocated) /\ (\A k \in K : b[k] = k.allocated)
  OBVIOUS
<1>4. (\A n \in N : r[n] \in Int /\ r[n] = n.raw) /\ (\A k \in K : q[k] = k.raw)
  OBVIOUS
<1> HIDE DEF a, b, r, q, g
<1>5. ASSUME NEW k \in K
      PROVE  /\ b[k] = SumOf(a, {n \in S : id[n] = name[k]})
             /\ q[k] = SumOf(r, {n \in S : id[n] = name[k]})
  <2> DEFINE A == {n \in S : id[n] = name[k]}
  <2>1. b[k] = AllocatedOf(A) /\ q[k] = RawOf(A)
    BY <1>3, <1>4 DEF NodeRows
  <2>2. IsFiniteSet(A) /\ (\A n \in A : a[n] = n.allocated) /\ (\A n \in A : r[n] = n.raw)
    BY <1>1, <1>3, <1>4, FS_Subset
  <2> HIDE DEF A
  <2>3. AllocatedOf(A) = SumOf(a, A)
    BY <2>2, AllocatedIsSum
  <2>4. RawOf(A) = SumOf(r, A)
    BY <2>2, RawIsSum
  <2> QED BY <2>1, <2>3, <2>4 DEF A
<1>6. Tabulates(K, name, b, S, id, a)
  BY <1>1, <1>2, <1>3, <1>5 DEF Tabulates, Groups
<1>7. Tabulates(K, name, q, S, id, r)
  BY <1>1, <1>2, <1>4, <1>5 DEF Tabulates, Groups
<1>8. SumOf(b, K) = SumOf(a, S) /\ SumOf(q, K) = SumOf(r, S)
  BY <1>6, <1>7, RowsAddUp
<1>9. AllocatedOf(K) = SumOf(b, K) /\ RawOf(K) = SumOf(q, K)
  BY <1>2, <1>3, <1>4, AllocatedIsSum, RawIsSum
<1>10. AllocatedOf(N) = SumOf(a, N) /\ RawOf(N) = SumOf(r, N)
  BY <1>3, <1>4, AllocatedIsSum, RawIsSum
<1>11. AllocatedOf(N \ S) = SumOf(a, N \ S)
  BY <1>1, <1>3, AllocatedIsSum
<1>12. SumOf(a, N) = SumOf(a, S) + SumOf(a, N \ S)
  BY <1>3, SumSplit
<1>13. SumOf(r, N) = SumOf(r, S)
  BY <1>4, SumSupport
<1> QED BY <1>8, <1>9, <1>10, <1>11, <1>12, <1>13

(* The instance types of a list of nodes are such rows. *)
LEMMA TypesAddUp ==
    ASSUME NEW N, IsFiniteSet(N), \A n \in N : n.allocated \in Int, \A n \in N : n.raw \in Int,
           \A n \in N : n.type = "" => n.raw = 0
    PROVE  /\ AllocatedOf(N) = AllocatedOf(InstanceTypeTotals(N)) + AllocatedOf({n \in N : n.type = ""})
           /\ RawOf(InstanceTypeTotals(N)) = RawOf(N)
<1> DEFINE none == ""
           S == {n \in N : n.type # none}
           K == InstanceTypeTotals(N)
           Row(t) == InstanceTypeCost(t, {n \in N : n.type = t})
           id == [n \in N |-> n.type]
           name == [k \in K |-> k.type]
<1>1. \A t : /\ Row(t).type = t /\ Row(t).allocated = AllocatedOf({n \in N : n.type = t})
             /\ Row(t).raw = RawOf({n \in N : n.type = t})
  BY ONLY DEF InstanceTypeCost, AllocatedOf, RawOf
<1>2. K = {Row(t) : t \in {n.type : n \in N} \ {none}}
  BY ONLY DEF InstanceTypeTotals
<1>3. \A n \in N \ S : n.raw = 0
  OBVIOUS
<1> HIDE DEF none, K, Row
<1>4. N \ S = {n \in N : n.type = none} /\ S \subseteq N
  BY ONLY DEF S
<1>5. \A n \in S : \E k \in K : name[k] = id[n]
  BY ONLY <1>1, <1>2 DEF S
<1>6. \A k \in K : \E n \in S : name[k] = id[n]
  BY ONLY <1>1, <1>2 DEF S
<1>7. \A k, l \in K : name[k] = name[l] => k = l
  BY ONLY <1>1, <1>2
<1>8. \A k \in K : {n \in N : n.type = k.type} = {n \in S : id[n] = name[k]}
  BY ONLY <1>1, <1>2 DEF S
<1>9. \A k \in K : k.allocated = AllocatedOf({n \in S : id[n] = name[k]})
  <2>1. \A k \in K : k.allocated = AllocatedOf({n \in N : n.type = k.type})
    BY ONLY <1>1, <1>2
  <2> QED BY ONLY <1>8, <2>1
<1>10. \A k \in K : k.raw = RawOf({n \in S : id[n] = name[k]})
  <2>1. \A k \in K : k.raw = RawOf({n \in N : n.type = k.type})
    BY ONLY <1>1, <1>2
  <2> QED BY ONLY <1>8, <2>1
<1> HIDE DEF S, id, name
<1>11. Groups(K, name, S, id) /\ NodeRows(K, name, S, id)
  BY ONLY <1>5, <1>6, <1>7, <1>9, <1>10 DEF Groups, NodeRows
<1>12. AllocatedOf(N) = AllocatedOf(K) + AllocatedOf(N \ S) /\ RawOf(K) = RawOf(N)
  BY <1>3, <1>4, <1>11, TypeRows
<1> QED BY <1>4, <1>12 DEF K, none

(* The costs of the pods are finitely many numbers. *)
LEMMA PodCostsAreNumbers ==
    ASSUME NEW s, Addable(s), NEW u, Measured(u)
    PROVE  LET P == PodCosts(s.pods, s.namespaces, u)
           IN  IsFiniteSet(P) /\ \A p \in P : p.cost \in Int
<1> DEFINE P == PodCosts(s.pods, s.namespaces, u)
           g == [i \in DOMAIN s.pods |-> PodCost(s.pods[i], i, s.namespaces, u)]
<1>1. IsFiniteSet(P)
  <2>1. (\A i \in DOMAIN s.pods : g[i] \in P) /\ (\A p \in P : \E i \in DOMAIN s.pods : p = g[i])
    BY DEF PodCosts
  <2>2. IsFiniteSet(DOMAIN s.pods)
    BY DEF Addable
  <2> HIDE DEF P, g
  <2> QED BY <2>1, <2>2, FiniteImage
<1>2. ASSUME NEW i \in DOMAIN s.pods, NEW r \in Resources
      PROVE  UsageOf(s.pods[i], u)[r] \in Int
  <2> DEFINE pod == s.pods[i]
             key == <<pod.namespace, pod.name>>
             request == PodRequestTotals(pod.containers)
  <2>1. request[r] \in Int
    <3>1. IsFiniteSet(DOMAIN pod.containers) /\ \A n \in DOMAIN pod.containers : pod.containers[n][r] \in Int
      BY DEF Addable, Measured
    <3> QED BY <3>1, TotalsAreNumbers
  <2>2. key \in DOMAIN u => u[key][r] \in Int
    BY DEF Measured
  <2>3. UsageOf(pod, u)[r] = IF key \notin DOMAIN u \/ u[key][r] = 0 THEN request[r] ELSE u[key][r]
    BY DEF UsageOf
  <2> QED BY <2>1, <2>2, <2>3
<1>3. ASSUME NEW i \in DOMAIN s.pods PROVE CostFor(UsageOf(s.pods[i], u)) \in Int
  <2>1. "cpu" \in Resources /\ "memory" \in Resources
    BY DEF Resources
  <2>2. UsageOf(s.pods[i], u)["cpu"] \in Int /\ UsageOf(s.pods[i], u)["memory"] \in Int
    BY <1>2, <2>1
  <2>3. CPUPrice \in Int /\ MemoryPrice \in Int
    BY AggregatorAssumption
  <2> QED BY <2>2, <2>3 DEF CostFor
<1>4. \A p \in P : \E i \in DOMAIN s.pods : p.cost = CostFor(UsageOf(s.pods[i], u))
  BY DEF PodCosts, PodCost
<1> QED BY <1>1, <1>3, <1>4

(* A node is shown at the price of its type, and one without a type at 0. *)
LEMMA RawOfNodes ==
    ASSUME NEW P, NEW listed, NEW table, NEW n \in NodeCosts(P, listed, table)
    PROVE  n.raw = NodeHourlyPrice(table, n.type)
<1>1. ASSUME NEW type PROVE type = "" => NodeHourlyPrice(table, type) = 0
  BY Zenon DEF NodeHourlyPrice, HasPrice
<1>2. ASSUME NEW m \in DOMAIN listed, NEW A, n = ListedNode(m, listed[m], table, A)
      PROVE  n.raw = NodeHourlyPrice(table, n.type)
  BY <1>2 DEF ListedNode
<1>3. ASSUME NEW m, NEW A, n = MissingNode(m, A)
      PROVE  n.raw = NodeHourlyPrice(table, n.type)
  <2>1. n.raw = 0 /\ n.type = ""
    BY <1>3 DEF MissingNode
  <2> QED BY <1>1, <2>1
<1> QED BY <1>2, <1>3 DEF NodeCosts

(* A price list of numbers has a number for every type, 0 for none. *)
LEMMA PricesAreNumbers ==
    ASSUME NEW table, Whole(table), NEW type
    PROVE  NodeHourlyPrice(table, type) \in Int /\ (type = "" => NodeHourlyPrice(table, type) = 0)
<1> DEFINE key == <<Region, type>>
<1>1. key \in DOMAIN table => table[key] \in Int
  BY DEF Whole
<1>2. HasPrice(table, type) => key \in DOMAIN table
  BY DEF HasPrice
<1>3. NodeHourlyPrice(table, type) \in Int
  <2>1. NodeHourlyPrice(table, type) = IF HasPrice(table, type) THEN table[key] ELSE 0
    BY DEF NodeHourlyPrice
  <2> QED BY <1>1, <1>2, <2>1
<1>4. type = "" => NodeHourlyPrice(table, type) = 0
  BY Zenon DEF NodeHourlyPrice, HasPrice
<1> QED BY <1>3, <1>4

(* However the lists came about, a dataset agrees with itself. *)
LEMMA DatasetsAddUp ==
    ASSUME NEW s, Addable(s), NEW u, Measured(u), NEW price, Whole(price)
    PROVE  ViewsAddUp(Aggregate(s, u, price))
<1> DEFINE P == PodCosts(s.pods, s.namespaces, u)
           N == NodeCosts(P, s.nodes, price)
           d == Aggregate(s, u, price)
<1>1. /\ d.pods = P /\ d.nodes = N /\ d.namespaces = NamespaceCosts(P) /\ d.labels = LabelCosts(P)
      /\ d.cluster.cost = CostOf(P) /\ d.cluster.byType = InstanceTypeTotals(N)
  BY DEF Aggregate
<1>2. IsFiniteSet(P) /\ \A p \in P : p.cost \in Int
  BY PodCostsAreNumbers
<1>3. IsFiniteSet(DOMAIN s.nodes)
  BY DEF Addable
<1> HIDE DEF P, d
<1>4. IsFiniteSet(N) /\ (\A n \in N : n.allocated \in Int) /\ AllocatedOf(N) = CostOf(P)
  BY <1>2, <1>3, NodesAddUp
<1>5. \A n \in N : n.raw = NodeHourlyPrice(price, n.type)
  BY RawOfNodes
<1>6. (\A n \in N : n.raw \in Int) /\ (\A n \in N : n.type = "" => n.raw = 0)
  BY <1>5, PricesAreNumbers
<1> HIDE DEF N
<1>7. /\ AllocatedOf(N) = AllocatedOf(InstanceTypeTotals(N)) + AllocatedOf({n \in N : n.type = ""})
      /\ RawOf(InstanceTypeTotals(N)) = RawOf(N)
  BY <1>4, <1>6, TypesAddUp
<1>8. CostOf(P) = CostOf(NamespaceCosts(P))
  BY <1>2, NamespacesAddUp
<1>9. CostOf(P) = CostOf(WorkloadsFromPods(P)) + CostOf({p \in P : p.owner = ""})
  BY <1>2, WorkloadsAddUp
<1>10. \A k \in TrackedKeys :
         CostOf(P) = CostOf({c \in LabelCosts(P) : c.key = k}) + CostOf({p \in P : p.labels[k] = 0})
  BY <1>2, LabelsAddUp
<1>11. /\ d.cluster.cost = CostOf(d.namespaces)
       /\ d.cluster.cost = AllocatedOf(d.nodes)
       /\ d.cluster.cost = CostOf(WorkloadsFromPods(d.pods)) + CostOf({p \in d.pods : p.owner = ""})
       /\ d.cluster.cost = AllocatedOf(d.cluster.byType) + AllocatedOf({n \in d.nodes : n.type = ""})
       /\ RawOf(d.cluster.byType) = RawOf(d.nodes)
       /\ \A k \in TrackedKeys :
            d.cluster.cost = CostOf({c \in d.labels : c.key = k})
                             + CostOf({p \in d.pods : p.labels[k] = 0})
  BY <1>1, <1>4, <1>7, <1>8, <1>9, <1>10
<1>12. ViewsAddUp(d)
  BY <1>11, Zenon DEF ViewsAddUp, AllocatedOf, RawOf
<1> QED BY <1>12 DEF d

(* A namespace has one row. *)
LEMMA NamespacesDiffer ==
    ASSUME NEW P PROVE \A k, l \in NamespaceCosts(P) : k.name = l.name => k = l
<1> DEFINE Row(n) == NamespaceCost(n, {p \in P : p.namespace = n})
<1>1. \A n : Row(n).name = n
  BY DEF NamespaceCost
<1>2. \A k \in NamespaceCosts(P) : \E n : k = Row(n)
  BY DEF NamespaceCosts
<1> HIDE DEF Row
<1> QED BY <1>1, <1>2

(* No two series of a vector have the same labels: pods are listed once, and
   namespaces and nodes have one row. *)
LEMMA SeriesDiffer ==
    ASSUME NEW s, Addable(s), NEW u, Measured(u), NEW table
    PROVE  KeysDiffer(Aggregate(s, u, table))
<1> DEFINE P == PodCosts(s.pods, s.namespaces, u)
           N == NodeCosts(P, s.nodes, table)
           d == Aggregate(s, u, table)
<1>1. d.pods = P /\ d.nodes = N /\ d.namespaces = NamespaceCosts(P)
  BY DEF Aggregate
<1>2. \A p, q \in P : p.namespace = q.namespace /\ p.name = q.name => p = q
  <2> SUFFICES ASSUME NEW i \in DOMAIN s.pods, NEW j \in DOMAIN s.pods,
                      s.pods[i].namespace = s.pods[j].namespace, s.pods[i].name = s.pods[j].name
               PROVE  i = j
    BY DEF PodCosts, PodCost
  <2> QED BY DEF Addable
<1>3. \A m, n \in N : m.name = n.name => m = n
  <2>1. IsFiniteSet(P) /\ (\A p \in P : p.cost \in Int) /\ IsFiniteSet(DOMAIN s.nodes)
    BY PodCostsAreNumbers DEF Addable
  <2> HIDE DEF P
  <2> QED BY <2>1, NodesAddUp
<1>4. \A m, n \in d.namespaces : m.name = n.name => m = n
  BY <1>1, NamespacesDiffer
<1> HIDE DEF P, N, d
<1>5. \A x, y \in Series(d)["cluster"] : x[1] = y[1] => x = y
  BY DEF Series
<1>6. \A x, y \in Series(d)["pod"] : x[1] = y[1] => x = y
  <2> SUFFICES ASSUME NEW p \in P, NEW q \in P,
                      <<p.namespace, p.name, p.node, p.owner, Exported(p.labels)>>
                        = <<q.namespace, q.name, q.node, q.owner, Exported(q.labels)>>
               PROVE  p = q
    BY <1>1 DEF Series
  <2> QED BY <1>2
<1>7. \A x, y \in Series(d)["namespace"] : x[1] = y[1] => x = y
  <2> SUFFICES ASSUME NEW m \in d.namespaces, NEW n \in d.namespaces,
                      <<m.name, Exported(m.labels)>> = <<n.name, Exported(n.labels)>>
               PROVE  m = n
    BY DEF Series
  <2> QED BY <1>4
<1>8. \A x, y \in Series(d)["allocated"] : x[1] = y[1] => x = y
  <2> SUFFICES ASSUME NEW m \in N, NEW n \in N, <<m.name>> = <<n.name>> PROVE m = n
    BY <1>1 DEF Series
  <2> QED BY <1>3
<1>9. \A x, y \in Series(d)["raw"] : x[1] = y[1] => x = y
  <2> SUFFICES ASSUME NEW m \in N, NEW n \in N, <<m.name, m.type>> = <<n.name, n.type>> PROVE m = n
    BY <1>1 DEF Series
  <2> QED BY <1>3
<1>10. KeysDiffer(d)
  BY <1>5, <1>6, <1>7, <1>8, <1>9 DEF KeysDiffer, Vectors
<1> QED BY <1>10 DEF d

-----------------------------------------------------------------------------
(* The steps *)

(* Before the program is built nothing is collected, aggregated or exported. *)
LEMMA StartsWell == Init => RInv
<1> SUFFICES ASSUME Init PROVE RInv
  OBVIOUS
<1>1. Collecting
  <2>1. Measured(<< >>)
    BY FS_EmptySet DEF Measured
  <2>2. Addable(NoSnapshot)
    BY FS_EmptySet DEF Addable, NoSnapshot
  <2>3. snapshot = [pods |-> snapshot.pods, namespaces |-> snapshot.namespaces, nodes |-> snapshot.nodes]
    BY DEF Init, NoSnapshot
  <2> QED BY <2>1, <2>2, <2>3 DEF Init, Collecting
<1>2. Shown
  <2>1. pending = Idling /\ data = NoData /\ at # "update"
    BY DEF Init
  <2>2. gauge = [v \in Vectors |-> gauge[v]]
    BY DEF Init, NewGauges
  <2>3. pending = [reset |-> pending.reset, set |-> pending.set] /\ pending.reset \in Seq(Vectors)
    BY <2>1 DEF Idling
  <2> QED BY <2>1, <2>2, <2>3 DEF Shown
<1>3. Built
  <2>1. IInv
    BY InitEstablishes DEF Init
  <2>2. PICK call \in Invocations : jobs = JobsFor(call) /\ result = << >> /\ file = OldTable
                                     /\ main # "written"
    BY DEF Init, InitGenerator
  <2>3. DOMAIN result = {}
    BY <2>2
  <2>4. Offering
    BY <2>2, <2>3, ReportingAssumption DEF Offering
  <2> QED BY <2>1, <2>4 DEF Built, Init
<1> QED BY <1>1, <1>2, <1>3 DEF RInv

(* The generator keeps only prices that were offered. *)
LEMMA OfferingKept == ASSUME IInv, Offering, Generate PROVE Offering'
<1>1. jobs' = jobs
  BY DEF Generate, Feed, Close, WriteGoFile, WorkerStep, Receive, Priced, GivenUp, Throttled, Resend, Exit
<1>2. CASE WriteGoFile
  BY <1>2 DEF WriteGoFile, Offering
<1>3. ASSUME NEW w \in Workers, Priced(w) PROVE Offering'
  <2> DEFINE key == jobs[worker[w].task.job]
  <2>1. worker[w].task.job \in DOMAIN jobs
    <3>1. w \in Holding /\ worker[w] \in Place
      BY <1>3, Parts DEF IInv, HeldWhileBusy, Priced
    <3>2. worker[w].task.job \in 0 .. Len(jobs) /\ worker[w].task.job # 0
      BY <3>1 DEF Place, Holding
    <3>3. DOMAIN jobs = 1 .. Len(jobs) /\ Len(jobs) \in Nat
      BY Parts DEF Offering
    <3> QED BY <3>2, <3>3
  <2>2. PICK price \in Offered[key] :
          result' = [k \in DOMAIN result \cup {key} |-> IF k = key THEN price ELSE result[k]]
    BY <1>3 DEF Priced, FetchOnDemandPrice
  <2>3. price \in Int
    BY <2>1, <2>2 DEF Offering
  <2>4. \A k \in DOMAIN result' : result'[k] \in Offered[k] /\ result'[k] \in Int
    BY <2>2, <2>3 DEF Offering
  <2>5. main # "written"
    <3>1. worker[w].at # "exited"
      BY <1>3 DEF Priced
    <3> QED BY <3>1 DEF IInv, Ending
  <2> QED BY <1>1, <1>3, <2>4, <2>5 DEF Offering, Priced
<1>4. CASE UNCHANGED <<jobs, result, file, main>>
  BY <1>4 DEF Offering
<1>5. Feed \/ Close \/ (\E w \in Workers : Receive(w) \/ GivenUp(w) \/ Throttled(w) \/ Resend(w) \/ Exit(w))
        => UNCHANGED <<jobs, result, file, main>>
  BY DEF Feed, Close, Receive, GivenUp, Throttled, Resend, Exit
<1> QED BY <1>2, <1>3, <1>4, <1>5 DEF Generate, WorkerStep

(* What is still to be set, and what is shown, hang on these alone. *)
LEMMA ShownAlike ==
    ASSUME Shown, UNCHANGED <<gauge, pending, data>>, at # "update", at' # "update" PROVE Shown'
BY DEF Shown, Exporting, Waiting, Idling

(* While the generator runs only its own state changes. *)
LEMMA GeneratorRuns == ASSUME RInv, RunGenerator PROVE RInv'
<1> USE DEF RInv, RunGenerator
<1>1. at = "unbuilt" /\ Generate /\ UNCHANGED reportingVars
  OBVIOUS
<1>2. UNCHANGED <<prices, at, snapshot, used, last, data, gauge, pending, cluster, usage, changes, failures>>
  BY DEF reportingVars, loopVars, worldVars
<1>3. Collecting'
  BY <1>2 DEF Collecting
<1>4. Shown'
  BY <1>1, <1>2, ShownAlike
<1>5. IInv /\ Offering /\ data = NoData
  BY <1>1 DEF Built
<1>6. IInv' /\ Offering'
  BY <1>1, <1>5, StepKeeps, OfferingKept
<1> QED BY <1>1, <1>2, <1>3, <1>4, <1>5, <1>6 DEF Built

(* The table the program is built with holds what was fetched, unless the
   configuration file says otherwise. *)
LEMMA ProgramIsBuilt == ASSUME RInv, Build PROVE RInv'
<1>1. /\ at = "unbuilt" /\ at' = "idle" /\ file # Garbled
      /\ prices' = MergeNodePrices(file, ConfiguredPrices)
      /\ cluster' \in Clusters /\ usage' \in Usages
      /\ warned' = (IF main = "written" THEN warned ELSE {})
      /\ UNCHANGED <<jobs, level, file, main, snapshot, used, last, data, gauge, pending>>
  BY DEF Build
<1>2. IInv /\ Offering /\ data = NoData /\ Shown /\ Collecting
  BY <1>1 DEF RInv, Built
<1>3. main = "written" => \A key \in DOMAIN result :
         key \in DOMAIN file /\ file[key] = Rounded(result[key])
  BY <1>2 DEF Offering, Formatted
<1>4. file = OldTable \/ (main = "written" /\ file = Formatted(result))
  BY <1>1, <1>2 DEF Offering
<1>5. Whole(file)
  <2>1. CASE file = OldTable
    BY <2>1, ReportingAssumption DEF Whole
  <2>2. CASE file = Formatted(result)
    <3>1. \A key \in DOMAIN file : file[key] = Rounded(result[key]) /\ result[key] \in Int
      BY <1>2, <2>2 DEF Formatted, Offering
    <3>2. \A p \in Int : Rounded(p) \in Int
      BY DEF Rounded
    <3> QED BY <3>1, <3>2 DEF Whole
  <2> QED BY <1>4, <2>1, <2>2
<1>6. /\ DOMAIN prices' = DOMAIN ConfiguredPrices \cup DOMAIN file
      /\ \A key \in DOMAIN prices' :
           prices'[key] = IF key \in DOMAIN ConfiguredPrices THEN ConfiguredPrices[key] ELSE file[key]
  BY <1>1 DEF MergeNodePrices
<1>7. Whole(ConfiguredPrices)
  BY ReportingAssumption DEF Whole
<1>8. Whole(prices')
  BY <1>5, <1>6, <1>7 DEF Whole
<1>9. Collecting'
  BY <1>1, <1>2, <1>8 DEF Collecting
<1>10. Shown'
  BY <1>1, <1>2, ShownAlike
<1>11. ASSUME main = "written", NEW n \in DOMAIN jobs
       PROVE  /\ jobs[n][2] # ""
              /\ \/ jobs[n] \in DOMAIN ConfiguredPrices \cup warned
                 \/ jobs[n] \in DOMAIN prices' /\ \E p \in Offered[jobs[n]] : prices'[jobs[n]] = Rounded(p)
  <2> DEFINE key == jobs[n]
  <2>1. jobs[n][2] # ""
    BY <1>2 DEF Offering
  <2>2. key \in DOMAIN file \cup warned
    <3>1. n \in 1 .. Len(jobs)
      BY <1>2 DEF Offering
    <3> QED BY <1>2, <1>11, <3>1, NoneIsLost DEF NoJobLost
  <2>3. ASSUME key \in DOMAIN file, key \notin DOMAIN ConfiguredPrices
        PROVE  key \in DOMAIN prices' /\ \E p \in Offered[key] : prices'[key] = Rounded(p)
    <3>1. key \in DOMAIN result
      BY <1>2, <1>11, <2>3 DEF Offering, Formatted
    <3>2. result[key] \in Offered[key]
      BY <1>2, <3>1 DEF Offering
    <3>3. prices'[key] = Rounded(result[key]) /\ key \in DOMAIN prices'
      BY <1>3, <1>6, <1>11, <2>3, <3>1
    <3> QED BY <3>2, <3>3
  <2> HIDE DEF key
  <2>4. \/ key \in DOMAIN ConfiguredPrices \cup warned
        \/ key \in DOMAIN prices' /\ \E p \in Offered[key] : prices'[key] = Rounded(p)
    BY <2>2, <2>3
  <2> QED BY <2>1, <2>4 DEF key
<1>12. Built'
  <2>1. at' # "unbuilt" /\ data' = NoData
    BY <1>1, <1>2
  <2>2. main' = main /\ jobs' = jobs /\ (main = "written" => warned' = warned)
    BY <1>1
  <2> QED BY <1>11, <2>1, <2>2 DEF Built, Fetched
<1> QED BY <1>9, <1>10, <1>12 DEF RInv

(* What is fetched and shown does not change while the loop collects. *)
LEMMA FetchedAlike ==
    ASSUME Built, at # "unbuilt", at' # "unbuilt", UNCHANGED <<main, jobs, warned, prices, data>>
    PROVE  Built'
BY DEF Built, Fetched

(* A pod of a listing is one of the API server's. *)
LEMMA PodsAddable ==
    ASSUME cluster \in Clusters PROVE Addable([NoSnapshot EXCEPT !.pods = Pods])
<1> DEFINE s == [NoSnapshot EXCEPT !.pods = Pods]
<1>1. s.pods = Pods /\ s.nodes = << >>
  BY DEF NoSnapshot
<1>2. DOMAIN Pods = DOMAIN cluster.pods
  BY DEF Pods
<1>3. \A i \in DOMAIN cluster.pods :
         /\ Pods[i].containers = cluster.pods[i].containers
         /\ Pods[i].namespace = cluster.pods[i].namespace
         /\ Pods[i].name = cluster.pods[i].name
  BY DEF Pods, PodOf
<1>4. IsFiniteSet(DOMAIN << >>)
  BY FS_EmptySet
<1> HIDE DEF s
<1>5. Addable(s)
  BY <1>1, <1>2, <1>3, <1>4, ReportingAssumption DEF Addable
<1> QED BY <1>5 DEF s

(* Whenever the cluster changes between two lists, what was listed can be added up. *)
LEMMA LoopCollects ==
    ASSUME RInv, Collect \/ ListFails, UNCHANGED <<generatorVars, prices>> PROVE RInv'
<1>1. /\ UNCHANGED <<data, gauge, pending, cluster, usage, prices, main, jobs, warned>>
      /\ at \notin {"unbuilt", "update"} /\ at' \notin {"unbuilt", "update"}
  BY DEF Collect, ListPods, ListNamespaces, ListNodes, CollectPodMetrics, ListFails,
         worldVars, generatorVars
<1>2. Shown' /\ Built'
  BY <1>1, ShownAlike, FetchedAlike DEF RInv
<1>3. /\ cluster \in Clusters /\ usage \in Usages /\ Whole(prices)
      /\ snapshot = [pods |-> snapshot.pods, namespaces |-> snapshot.namespaces, nodes |-> snapshot.nodes]
      /\ Addable(snapshot) /\ Measured(used) /\ (last = NoData \/ Measured(last))
  BY <1>1 DEF RInv, Collecting
<1>4. Measured(<< >>)
  BY FS_EmptySet DEF Measured
<1>5. NoSnapshot = [pods |-> NoSnapshot.pods, namespaces |-> NoSnapshot.namespaces,
                    nodes |-> NoSnapshot.nodes]
      /\ Addable(NoSnapshot)
  BY FS_EmptySet DEF Addable, NoSnapshot
<1>6. CASE ListPods
  <2> DEFINE s == [NoSnapshot EXCEPT !.pods = Pods]
  <2>1. s = [pods |-> s.pods, namespaces |-> s.namespaces, nodes |-> s.nodes]
    BY DEF NoSnapshot
  <2>2. Addable(s)
    BY <1>3, PodsAddable
  <2>3. snapshot' = s /\ UNCHANGED <<used, last>>
    BY <1>6 DEF ListPods
  <2> HIDE DEF s
  <2>4. Collecting'
    BY <1>1, <1>3, <2>1, <2>2, <2>3 DEF Collecting
  <2> QED BY <1>2, <2>4 DEF RInv
<1>7. CASE ListNamespaces
  <2> DEFINE s == [snapshot EXCEPT !.namespaces = cluster.namespaces]
  <2>1. /\ s = [pods |-> s.pods, namespaces |-> s.namespaces, nodes |-> s.nodes]
        /\ s.pods = snapshot.pods /\ s.nodes = snapshot.nodes
    BY <1>3
  <2>2. snapshot' = s /\ UNCHANGED <<used, last>>
    BY <1>7 DEF ListNamespaces
  <2> HIDE DEF s
  <2>3. Addable(s)
    BY <1>3, <2>1 DEF Addable
  <2>4. Collecting'
    BY <1>1, <1>3, <2>1, <2>2, <2>3 DEF Collecting
  <2> QED BY <1>2, <2>4 DEF RInv
<1>8. CASE ListNodes
  <2> DEFINE nodes == [n \in DOMAIN cluster.nodes |->
                [type |-> ResolveInstanceType(cluster.nodes[n]), requested |-> NodeRequests(snapshot.pods, n)]]
             s == [snapshot EXCEPT !.nodes = nodes]
  <2>1. snapshot' = s /\ UNCHANGED <<used, last>>
    BY <1>8 DEF ListNodes
  <2>2. IsFiniteSet(DOMAIN nodes)
    BY <1>3, ReportingAssumption
  <2> HIDE DEF nodes
  <2>3. /\ s = [pods |-> s.pods, namespaces |-> s.namespaces, nodes |-> s.nodes]
        /\ s.pods = snapshot.pods /\ s.nodes = nodes
    BY <1>3
  <2> HIDE DEF s
  <2>4. Addable(s)
    BY <1>3, <2>2, <2>3 DEF Addable
  <2>5. Collecting'
    BY <1>1, <1>3, <2>1, <2>3, <2>4 DEF Collecting
  <2> QED BY <1>2, <2>5 DEF RInv
<1>9. CASE ListFails
  <2>1. snapshot' = NoSnapshot /\ UNCHANGED <<used, last>>
    BY <1>9 DEF ListFails
  <2>2. Collecting'
    BY <1>1, <1>3, <1>5, <2>1 DEF Collecting
  <2> QED BY <1>2, <2>2 DEF RInv
<1>10. CASE CollectPodMetrics
  <2>1. Measured(usage)
    BY <1>3, ReportingAssumption
  <2>2. Measured(used') /\ (last' = NoData \/ Measured(last')) /\ snapshot' = snapshot
    BY <1>3, <1>4, <1>10, <2>1 DEF CollectPodMetrics
  <2>3. Collecting'
    BY <1>1, <1>3, <2>2 DEF Collecting
  <2> QED BY <1>2, <2>3 DEF RInv
<1> QED BY <1>6, <1>7, <1>8, <1>9, <1>10 DEF Collect

(* Aggregate: every vector waits for its reset and has all its series to be set. *)
LEMMA CostsAggregated ==
    ASSUME RInv, AggregateCosts, UNCHANGED <<generatorVars, prices>> PROVE RInv'
<1>1. /\ at = "aggregate" /\ at' = "update"
      /\ data' = Aggregate(snapshot, used, prices)
      /\ pending' = [reset |-> ResetOrder, set |-> UNION {{v} \X Series(data')[v] : v \in Vectors}]
      /\ snapshot' = NoSnapshot /\ used' = << >>
      /\ UNCHANGED <<last, gauge, cluster, usage, prices, main, jobs, warned>>
  BY DEF AggregateCosts, worldVars, generatorVars
<1>2. /\ cluster \in Clusters /\ usage \in Usages /\ Whole(prices)
      /\ Addable(snapshot) /\ Measured(used) /\ (last = NoData \/ Measured(last))
      /\ Shown /\ Fetched
  BY <1>1 DEF RInv, Collecting, Built
<1>3. Measured(<< >>)
  BY FS_EmptySet DEF Measured
<1>4. NoSnapshot = [pods |-> NoSnapshot.pods, namespaces |-> NoSnapshot.namespaces,
                    nodes |-> NoSnapshot.nodes]
      /\ Addable(NoSnapshot)
  BY FS_EmptySet DEF Addable, NoSnapshot
<1>5. Collecting'
  BY <1>1, <1>2, <1>3, <1>4 DEF Collecting
<1>6. Waiting' = Vectors /\ pending'.reset \in Seq(Vectors)
  <2>1. pending'.reset = <<"pod", "namespace", "allocated", "raw", "cluster">>
    BY <1>1 DEF ResetOrder
  <2> QED BY <2>1 DEF Waiting, Vectors
<1>7. KeysDiffer(data')
  BY <1>1, <1>2, SeriesDiffer
<1>8. Exporting'
  <2>1. pending'.set = UNION {{v} \X Series(data')[v] : v \in Vectors}
    BY <1>1
  <2>2. \A v \in Vectors : {v} \X Series(data')[v] \subseteq pending'.set
    BY <2>1
  <2> QED BY <1>6, <2>1, <2>2 DEF Exporting
<1>9. Shown'
  <2>1. pending' = [reset |-> pending'.reset, set |-> pending'.set]
    BY <1>1
  <2>2. gauge' = [v \in Vectors |-> gauge'[v]]
    BY <1>1, <1>2 DEF Shown
  <2> QED BY <1>1, <1>6, <1>7, <1>8, <2>1, <2>2 DEF Shown
<1>10. Built'
  <2>1. \A n \in data'.nodes : n.raw = NodeHourlyPrice(prices, n.type)
    <3>1. data'.nodes = NodeCosts(PodCosts(snapshot.pods, snapshot.namespaces, used), snapshot.nodes, prices)
      BY <1>1 DEF Aggregate
    <3> QED BY <3>1, RawOfNodes
  <2> QED BY <1>1, <1>2, <2>1 DEF Built, Fetched
<1> QED BY <1>5, <1>9, <1>10 DEF RInv

(* What a step of Update leaves alone. *)
LEMMA WhileUpdating ==
    ASSUME RInv, at = "update", at' # "unbuilt", UNCHANGED <<generatorVars, prices>>,
           UNCHANGED <<snapshot, used, data, last, worldVars>>
    PROVE  Collecting' /\ Built'
<1>1. UNCHANGED <<cluster, usage, main, jobs, warned>>
  BY DEF worldVars, generatorVars
<1>2. Collecting'
  BY <1>1 DEF RInv, Collecting
<1> QED BY <1>1, <1>2, FetchedAlike DEF RInv

(* A vector that is reset shows nothing, and everything of it is still to be set. *)
LEMMA VectorIsReset ==
    ASSUME RInv, ResetVector, UNCHANGED <<generatorVars, prices>> PROVE RInv'
<1> DEFINE h == Head(pending.reset)
<1>1. /\ at = "update" /\ at' = "update" /\ pending.reset # << >>
      /\ gauge' = [gauge EXCEPT ![h] = {}]
      /\ pending' = [pending EXCEPT !.reset = Tail(@)]
      /\ UNCHANGED <<snapshot, used, last, data, worldVars>>
  BY DEF ResetVector
<1>2. Collecting' /\ Built'
  BY <1>1, WhileUpdating
<1>3. /\ gauge = [v \in Vectors |-> gauge[v]]
      /\ pending = [reset |-> pending.reset, set |-> pending.set]
      /\ pending.reset \in Seq(Vectors)
      /\ KeysDiffer(data) /\ Exporting
  BY <1>1 DEF RInv, Shown
<1>4. /\ pending'.reset = Tail(pending.reset) /\ pending'.set = pending.set
      /\ pending' = [reset |-> pending'.reset, set |-> pending'.set]
  BY <1>1, <1>3
<1>5. /\ h \in Vectors /\ h \in Waiting /\ pending'.reset \in Seq(Vectors)
      /\ Waiting' \subseteq Waiting /\ Waiting \subseteq Waiting' \cup {h}
  <2> DEFINE s == pending.reset
             t == pending'.reset
  <2>1. s \in Seq(Vectors) /\ s # << >> /\ t = Tail(s) /\ h = Head(s)
    BY <1>1, <1>3, <1>4
  <2>2. Waiting = {s[i] : i \in DOMAIN s} /\ Waiting' = {t[i] : i \in DOMAIN t}
    BY DEF Waiting
  <2> HIDE DEF s, t, h
  <2>3. /\ h = s[1] /\ h \in Vectors /\ t \in Seq(Vectors) /\ Len(t) = Len(s) - 1 /\ Len(s) \in Nat \ {0}
        /\ \A i \in 1 .. Len(t) : t[i] = s[i + 1]
    BY <2>1, HeadTailProperties, EmptySeq
  <2>4. DOMAIN s = 1 .. Len(s) /\ DOMAIN t = 1 .. Len(t)
    BY <2>1, <2>3
  <2>5. h \in Waiting
    BY <2>2, <2>3, <2>4
  <2>6. ASSUME NEW i \in DOMAIN t PROVE t[i] \in Waiting
    <3>1. i + 1 \in DOMAIN s /\ t[i] = s[i + 1]
      BY <2>3, <2>4
    <3> QED BY <2>2, <3>1
  <2>7. ASSUME NEW i \in DOMAIN s PROVE s[i] \in Waiting' \cup {h}
    <3>1. CASE i = 1
      BY <2>3, <3>1
    <3>2. CASE i # 1
      <4>1. i - 1 \in DOMAIN t /\ t[i - 1] = s[(i - 1) + 1] /\ (i - 1) + 1 = i
        BY <2>3, <2>4, <3>2
      <4> QED BY <2>2, <4>1
    <3> QED BY <3>1, <3>2
  <2> QED BY <2>2, <2>3, <2>5, <2>6, <2>7 DEF s, t
<1>6. \A v \in Vectors : gauge'[v] = IF v = h THEN {} ELSE gauge[v]
  BY <1>1, <1>3, <1>5
<1> HIDE DEF h
<1>7. Exporting'
  <2>1. pending'.set \subseteq UNION {{v} \X Series(data')[v] : v \in Vectors}
    BY <1>1, <1>3, <1>4 DEF Exporting
  <2>2. ASSUME NEW v \in Vectors, v \in Waiting' PROVE {v} \X Series(data')[v] \subseteq pending'.set
    BY <1>1, <1>3, <1>4, <1>5, <2>2 DEF Exporting
  <2>3. ASSUME NEW v \in Vectors, v \notin Waiting'
        PROVE  gauge'[v] = {s \in Series(data')[v] : <<v, s>> \notin pending'.set}
    <3>1. CASE v = h
      <4>1. {v} \X Series(data)[v] \subseteq pending.set
        BY <1>3, <1>5, <3>1 DEF Exporting
      <4>2. {s \in Series(data)[v] : <<v, s>> \notin pending.set} = {}
        BY <4>1
      <4> QED BY <1>1, <1>4, <1>6, <3>1, <4>2
    <3>2. CASE v # h
      <4>1. v \notin Waiting
        BY <1>5, <2>3, <3>2
      <4>2. gauge[v] = {s \in Series(data)[v] : <<v, s>> \notin pending.set}
        BY <1>3, <4>1 DEF Exporting
      <4> QED BY <1>1, <1>4, <1>6, <3>2, <4>2
    <3> QED BY <3>1, <3>2
  <2> QED BY <2>1, <2>2, <2>3 DEF Exporting
<1>8. gauge' = [v \in Vectors |-> gauge'[v]]
  BY <1>1, <1>3
<1>9. Shown'
  BY <1>1, <1>3, <1>4, <1>5, <1>7, <1>8 DEF Shown
<1> QED BY <1>2, <1>9 DEF RInv

(* The order of the vectors leaves a series to be set next. *)
LEMMA SomeIsNext ==
    ASSUME NEW S, S # {}, \A s \in S : s[1] \in Vectors
    PROVE  \E s \in S : \A t \in S : t[1] \notin Before[s[1]]
<1>1. /\ Before["cluster"] = {} /\ Before["pod"] = {"cluster"} /\ Before["namespace"] = {"cluster", "pod"}
      /\ Before["allocated"] = {"cluster", "pod", "namespace"}
      /\ Before["raw"] = {"cluster", "pod", "namespace"}
  BY DEF Before
<1>2. CASE \E s \in S : s[1] = "cluster"
  BY <1>1, <1>2
<1>3. CASE (\A s \in S : s[1] # "cluster") /\ \E s \in S : s[1] = "pod"
  BY <1>1, <1>3
<1>4. CASE (\A s \in S : s[1] \notin {"cluster", "pod"}) /\ \E s \in S : s[1] = "namespace"
  BY <1>1, <1>4
<1>5. CASE \A s \in S : s[1] \notin {"cluster", "pod", "namespace"}
  BY <1>1, <1>5 DEF Vectors
<1> QED BY <1>2, <1>3, <1>4, <1>5

(* A series that is set replaces none of its dataset, names being different. *)
LEMMA SeriesIsSet ==
    ASSUME RInv, SetSeries, UNCHANGED <<generatorVars, prices>> PROVE RInv'
<1> DEFINE next == CHOOSE s \in pending.set : \A t \in pending.set : t[1] \notin Before[s[1]]
<1>1. /\ at = "update" /\ at' = "update" /\ pending.reset = << >> /\ pending.set # {}
      /\ gauge' = [gauge EXCEPT ![next[1]] = {old \in @ : old[1] # next[2][1]} \cup {next[2]}]
      /\ pending' = [pending EXCEPT !.set = @ \ {next}]
      /\ UNCHANGED <<snapshot, used, last, data, worldVars>>
  BY DEF SetSeries
<1>2. Collecting' /\ Built'
  BY <1>1, WhileUpdating
<1>3. /\ gauge = [v \in Vectors |-> gauge[v]]
      /\ pending = [reset |-> pending.reset, set |-> pending.set]
      /\ pending.reset \in Seq(Vectors)
      /\ KeysDiffer(data) /\ Exporting
  BY <1>1 DEF RInv, Shown
<1>4. /\ pending'.reset = << >> /\ pending'.set = pending.set \ {next}
      /\ pending' = [reset |-> pending'.reset, set |-> pending'.set]
  BY <1>1, <1>3
<1>5. Waiting = {} /\ Waiting' = {}
  BY <1>1, <1>4 DEF Waiting
<1>6. \A s \in pending.set : s[1] \in Vectors /\ s[2] \in Series(data)[s[1]] /\ s = <<s[1], s[2]>>
  BY <1>3 DEF Exporting
<1>7. next \in pending.set
  BY <1>1, <1>6, SomeIsNext
<1> HIDE DEF next
<1>8. PICK v \in Vectors : next[1] = v /\ next[2] \in Series(data)[v] /\ next = <<v, next[2]>>
  BY <1>6, <1>7
<1> DEFINE x == next[2]
<1>9. /\ next = <<v, x>> /\ x \in Series(data)[v]
      /\ gauge' = [gauge EXCEPT ![v] = {old \in gauge[v] : old[1] # x[1]} \cup {x}]
  BY <1>1, <1>8
<1> HIDE DEF x
<1>10. \A w \in Vectors : gauge'[w] = IF w = v THEN {old \in gauge[v] : old[1] # x[1]} \cup {x} ELSE gauge[w]
  BY <1>3, <1>9
<1>11. \A w \in Vectors : gauge[w] = {s \in Series(data)[w] : <<w, s>> \notin pending.set}
  BY <1>3, <1>5 DEF Exporting
<1>12. ASSUME NEW w \in Vectors
       PROVE  gauge'[w] = {s \in Series(data)[w] : <<w, s>> \notin pending.set \ {next}}
  <2>1. CASE w = v
    <3>1. \A old \in gauge[v] : old[1] # x[1]
      BY <1>3, <1>7, <1>9, <1>11 DEF KeysDiffer
    <3>2. gauge'[v] = gauge[v] \cup {x}
      BY <1>10, <3>1
    <3>3. \A s \in Series(data)[v] : <<v, s>> \in {next} <=> s = x
      BY <1>9
    <3> QED BY <1>9, <1>11, <2>1, <3>2, <3>3
  <2>2. CASE w # v
    <3>1. \A s : <<w, s>> # next
      BY <1>9, <2>2
    <3> QED BY <1>10, <1>11, <2>2, <3>1
  <2> QED BY <2>1, <2>2
<1>13. Exporting'
  <2>1. pending'.set \subseteq UNION {{w} \X Series(data')[w] : w \in Vectors}
    BY <1>1, <1>3, <1>4 DEF Exporting
  <2> QED BY <1>1, <1>4, <1>5, <1>12, <2>1 DEF Exporting
<1>14. gauge' = [w \in Vectors |-> gauge'[w]]
  BY <1>3, <1>9
<1>15. pending'.reset \in Seq(Vectors)
  BY <1>4, EmptySeq
<1>16. Shown'
  BY <1>1, <1>3, <1>4, <1>13, <1>14, <1>15 DEF Shown
<1> QED BY <1>2, <1>16 DEF RInv

(* Update ends when nothing is left to reset or to set. *)
LEMMA UpdateEnds ==
    ASSUME RInv, EndUpdate, UNCHANGED <<generatorVars, prices>> PROVE RInv'
<1>1. /\ at = "update" /\ at' = "idle" /\ pending = Idling
      /\ UNCHANGED <<snapshot, used, last, data, gauge, pending, worldVars>>
  BY DEF EndUpdate
<1>2. Collecting' /\ Built'
  BY <1>1, WhileUpdating
<1>3. Shown'
  BY <1>1 DEF RInv, Shown, Exporting, Waiting
<1> QED BY <1>2, <1>3 DEF RInv

(* Another state of the cluster can be added up as well. *)
LEMMA WorldChanges == ASSUME RInv, ClusterChanges PROVE RInv'
<1>1. /\ at # "unbuilt"
      /\ cluster' = cluster \/ cluster' \in Clusters
      /\ usage' = usage \/ usage' \in Usages
      /\ UNCHANGED <<prices, at, snapshot, used, last, data, gauge, pending, main, jobs, warned>>
  BY DEF ClusterChanges, generatorVars, loopVars
<1>2. Collecting'
  BY <1>1 DEF RInv, Collecting
<1>3. Shown'
  BY <1>1 DEF RInv, Shown, Exporting, Waiting
<1>4. Built'
  BY <1>1, FetchedAlike DEF RInv
<1> QED BY <1>2, <1>3, <1>4 DEF RInv

(* Every step keeps the invariant. *)
LEMMA RoundKeeps == RInv /\ [Next]_vars => RInv'
<1> SUFFICES ASSUME RInv, [Next]_vars PROVE RInv'
  OBVIOUS
<1>1. CASE UNCHANGED vars
  <2>1. UNCHANGED <<generatorVars, prices, at, snapshot, used, last, data, gauge, pending, cluster, usage>>
    BY <1>1 DEF vars, reportingVars, loopVars, worldVars
  <2>2. UNCHANGED <<jobs, level, tasks, sent, worker, jobWG, closed, result, warned, file, main>>
    BY <2>1 DEF generatorVars
  <2>3. Collecting' /\ Shown'
    BY <2>1 DEF RInv, Collecting, Shown, Exporting, Waiting
  <2>4. CASE at = "unbuilt"
    <3>1. IInv /\ Offering /\ data = NoData
      BY <2>4 DEF RInv, Built
    <3>2. IInv'
      BY <2>1, <3>1, StepKeeps
    <3>3. Offering'
      BY <2>2, <3>1 DEF Offering
    <3> QED BY <2>1, <2>3, <2>4, <3>1, <3>2, <3>3 DEF RInv, Built
  <2>5. CASE at # "unbuilt"
    BY <2>1, <2>2, <2>3, <2>5, FetchedAlike DEF RInv
  <2> QED BY <2>4, <2>5
<1>2. CASE RunGenerator
  BY <1>2, GeneratorRuns
<1>3. CASE Build
  BY <1>3, ProgramIsBuilt
<1>4. CASE Round
  BY <1>4, LoopCollects, CostsAggregated, VectorIsReset, SeriesIsSet, UpdateEnds DEF Round, Export
<1>5. CASE ClusterChanges
  BY <1>5, WorldChanges
<1> QED BY <1>1, <1>2, <1>3, <1>4, <1>5 DEF Next, Work

-----------------------------------------------------------------------------
(* No scrape shows a series or a value of an earlier round in a vector that Update has
   reset, and between two updates /metrics shows what the JSON API answers
   (prometheus_exporter.go:72). *)
THEOREM ScrapesAreCurrent == Spec => []SeriesAreCurrent
<1>1. RInv => SeriesAreCurrent
  <2> SUFFICES ASSUME RInv, data # NoData PROVE SeriesAreCurrent
    BY DEF SeriesAreCurrent
  <2>1. KeysDiffer(data) /\ Exporting /\ gauge = [v \in Vectors |-> gauge[v]]
        /\ (at # "update" => pending = Idling)
    BY DEF RInv, Shown
  <2>2. \A v \in Vectors \ Waiting : gauge[v] \subseteq Series(data)[v]
    BY <2>1 DEF Exporting
  <2> DEFINE d == [cluster |-> Answer("health"), pods |-> Answer("pods"),
                   namespaces |-> Answer("namespaces"), nodes |-> Answer("nodes")]
  <2>3. ASSUME at # "update" PROVE gauge = Series(d)
    <3>1. Waiting = {} /\ pending.set = {}
      BY <2>1, <2>3 DEF Waiting, Idling
    <3>2. \A v \in Vectors : gauge[v] = Series(data)[v]
      BY <2>1, <3>1 DEF Exporting
    <3>3. Series(data) = [v \in Vectors |-> Series(data)[v]]
      BY DEF Series, Vectors
    <3>4. gauge = Series(data)
      BY <2>1, <3>2, <3>3
    <3>5. /\ d.cluster = data.cluster /\ d.pods = data.pods
          /\ d.namespaces = data.namespaces /\ d.nodes = data.nodes
      BY DEF Answer
    <3> HIDE DEF d
    <3>6. Series(d) = Series(data)
      BY <3>5 DEF Series
    <3> QED BY <3>4, <3>6
  <2> HIDE DEF d
  <2> QED BY <2>2, <2>3 DEF SeriesAreCurrent, Waiting, d
<1> QED BY StartsWell, RoundKeeps, <1>1, PTL DEF Spec

(* A node of a type the generator fetched a price for is shown at a price the API offered
   for its region, unless the configuration file has another (generate-pricing/main.go:117). *)
THEOREM RawPricesAreFetched == Spec => []RawPriceIsFetched
<1>1. RInv => RawPriceIsFetched
  <2> SUFFICES ASSUME RInv, data # NoData, main = "written", NEW n \in data.nodes, NEW j \in DOMAIN jobs,
                      jobs[j] = <<Region, n.type>>,
                      jobs[j] \notin DOMAIN ConfiguredPrices \cup warned
               PROVE  \E p \in Offered[jobs[j]] : n.raw = Rounded(p)
    BY DEF RawPriceIsFetched
  <2>1. Fetched
    BY DEF RInv, Built
  <2>2. jobs[j][2] # "" /\ jobs[j] \in DOMAIN prices
    BY <2>1 DEF Fetched
  <2>3. PICK p \in Offered[jobs[j]] : prices[jobs[j]] = Rounded(p)
    BY <2>1 DEF Fetched
  <2>4. n.raw = NodeHourlyPrice(prices, n.type)
    BY <2>1 DEF Fetched
  <2>5. jobs[j][2] = n.type
    OBVIOUS
  <2>6. HasPrice(prices, n.type)
    BY <2>2, <2>5 DEF HasPrice
  <2>7. n.raw = prices[jobs[j]]
    BY <2>4, <2>6 DEF NodeHourlyPrice
  <2> QED BY <2>3, <2>7
<1> QED BY StartsWell, RoundKeeps, <1>1, PTL DEF Spec

(* Pods, namespaces, nodes, workloads, instance types and labels of every dataset add up to
   the cluster, whatever changed between the lists (cost_aggregator.go:140). *)
THEOREM DatasetsAgree == Spec => GroupingsAgree
<1>1. RInv /\ [Next]_vars => (data' # data => ViewsAddUp(data'))
  <2> SUFFICES ASSUME RInv, [Next]_vars, data' # data PROVE ViewsAddUp(data')
    OBVIOUS
  <2>1. AggregateCosts
    BY DEF Next, Work, RunGenerator, Build, Round, Collect, Export, ListFails, ListPods, ListNamespaces,
           ListNodes, CollectPodMetrics, ResetVector, SetSeries, EndUpdate, ClusterChanges,
           vars, reportingVars, loopVars
  <2>2. Addable(snapshot) /\ Measured(used) /\ Whole(prices)
    BY <2>1 DEF RInv, Collecting, AggregateCosts
  <2>3. data' = Aggregate(snapshot, used, prices)
    BY <2>1 DEF AggregateCosts
  <2> QED BY <2>2, <2>3, DatasetsAddUp
<1> QED BY StartsWell, RoundKeeps, <1>1, PTL DEF Spec, GroupingsAgree
=============================================================================
