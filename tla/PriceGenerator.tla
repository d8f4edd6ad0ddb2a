---------------------------- MODULE PriceGenerator ----------------------------
(***************************************************************************)
(* hack/cmd/generate-pricing: the helper that asks the AWS pricing API for *)
(* the price of every instance type in every region and writes             *)
(* internal/config/aws_prices_gen.go, the table the agent is built with.   *)
(*                                                                         *)
(* The goroutines are the workers, the feeder that fills the bounded       *)
(* channel tasks, the closer that waits for jobWG, and main, which waits   *)
(* for the workers.  A worker that is throttled puts its job back into the *)
(* channel it reads from.  A send, a receive, an answer of the API, the    *)
(* close and the write of the file are one step each; the back-off sleep   *)
(* is the time between an answer and the send that follows it.             *)
(*                                                                         *)
(* Data.  A price is a number of 10^-7 dollars, the file holds 10^-6.  The *)
(* answer of the API is a price it offers for the instance type, or an     *)
(* error: "throttled" is ThrottlingException, "failed" stands for every    *)
(* other one, an empty or unreadable product included.                     *)
(***************************************************************************)
EXTENDS Integers, Sequences, FiniteSets

CONSTANTS
    MaxPricingAttempts,  \* maxPricingAttempts
    RegionLocation,      \* the keys of regionLocation
    Offered,             \* prices the API may answer, by region and instance type
    Invocations,         \* command lines: regions, types (given or discovered), concurrency
    OldTable,            \* the table in the file before
    Garbled              \* a file that was truncated and not written

(* The concurrency given; at least one worker, and no more than jobs. *)
Level(concurrency, n) ==
    IF concurrency <= 0 THEN 1 ELSE IF concurrency > n /\ n > 0 THEN n ELSE concurrency

(* Region by region, every instance type; regions without a location are skipped. *)
JobsFor(call) ==
    LET Located(r) == r \in RegionLocation
        known == SelectSeq(call.regions, Located)
        width == Len(call.types)
    IN  [n \in 1 .. Len(known) * width |->
           <<known[((n - 1) \div width) + 1], call.types[((n - 1) % width) + 1]>>]

ASSUME GeneratorAssumption ==
    /\ MaxPricingAttempts \in Nat
    /\ \A call \in Invocations : call.concurrency \in Int /\ Len(JobsFor(call)) \in Nat

VARIABLES
    jobs,     \* the jobs, in the order the feeder sends them
    level,    \* concurrencyLevel
    tasks,    \* the channel
    sent,     \* jobs the feeder has sent
    worker,   \* where each worker is and the job it holds
    jobWG,    \* jobs not done
    closed,   \* tasks is closed
    result,   \* the prices resolved
    warned,   \* jobs given up with a warning
    file,     \* the table in the output file
    main      \* main: "running", "written", or "failed" with log.Fatal

generatorVars ==
    <<jobs, level, tasks, sent, worker, jobWG, closed, result, warned, file, main>>

Workers == 1 .. level

(* Mutant: a channel of twice the number of workers. *)
Capacity_OneLess == 2 * level
Capacity == 2 * level + 1

NoTask == [job |-> 0, attempt |-> 0]
Idle == [at |-> "idle", task |-> NoTask]

Task == [job : 1 .. Len(jobs), attempt : 0 .. MaxPricingAttempts]
Place == [at : {"idle", "asking", "resending", "exited"},
          task : [job : 0 .. Len(jobs), attempt : 0 .. MaxPricingAttempts]]

GeneratorTypeOK ==
    /\ level \in Nat \ {0} /\ sent \in 0 .. Len(jobs) /\ jobWG \in 0 .. Len(jobs)
    /\ tasks \in Seq(Task) /\ Len(tasks) <= Capacity
    /\ worker \in [Workers -> Place]
    /\ closed \in BOOLEAN
    /\ main \in {"running", "written", "failed"}

InitGenerator ==
    \E call \in Invocations :
        /\ jobs = JobsFor(call)
        /\ level = Level(call.concurrency, Len(jobs))
        /\ tasks = << >> /\ sent = 0 /\ closed = FALSE
        /\ worker = [w \in 1 .. level |-> Idle]
        /\ jobWG = Len(jobs)
        /\ result = << >> /\ warned = {} /\ file = OldTable
        /\ main = IF call.regions = << >> \/ call.types = << >> THEN "failed" ELSE "running"

(* The feeder blocks while the channel is full. *)
Feed ==
    /\ main = "running" /\ sent < Len(jobs) /\ Len(tasks) < Capacity
    /\ sent' = sent + 1
    /\ tasks' = Append(tasks, [job |-> sent + 1, attempt |-> 0])
    /\ UNCHANGED <<jobs, level, worker, jobWG, closed, result, warned, file, main>>

Receive(w) ==
    /\ main = "running" /\ worker[w].at = "idle" /\ tasks # << >>
    /\ worker' = [worker EXCEPT ![w] = [at |-> "asking", task |-> Head(tasks)]]
    /\ tasks' = Tail(tasks)
    /\ UNCHANGED <<jobs, level, sent, jobWG, closed, result, warned, file, main>>

(* fetchOnDemandPrice: a price the API offers, or an error. *)
FetchOnDemandPrice(key) == [prices |-> Offered[key], errors |-> {"throttled", "failed"}]

(* A job is done with a price or a warning. *)
Priced(w) ==
    LET key == jobs[worker[w].task.job]
    IN  /\ worker[w].at = "asking"
        /\ \E price \in FetchOnDemandPrice(key).prices :
             result' = [k \in DOMAIN result \cup {key} |-> IF k = key THEN price ELSE result[k]]
        /\ worker' = [worker EXCEPT ![w] = Idle]
        /\ jobWG' = jobWG - 1
        /\ UNCHANGED <<jobs, level, tasks, sent, closed, warned, file, main>>

ShouldRetry(error, attempt) == attempt < MaxPricingAttempts /\ error = "throttled"

GivenUp(w) ==
    /\ worker[w].at = "asking"
    /\ \E error \in FetchOnDemandPrice(jobs[worker[w].task.job]).errors :
          ~ShouldRetry(error, worker[w].task.attempt)
    /\ warned' = warned \cup {jobs[worker[w].task.job]}
    /\ worker' = [worker EXCEPT ![w] = Idle]
    /\ jobWG' = jobWG - 1
    /\ UNCHANGED <<jobs, level, tasks, sent, closed, result, file, main>>

Again(task) == [at |-> "resending", task |-> [task EXCEPT !.attempt = @ + 1]]

(* Mutant: the job counts as done as soon as its request was answered. *)
Throttled_Done(w) ==
    /\ worker[w].at = "asking"
    /\ ShouldRetry("throttled", worker[w].task.attempt)
    /\ worker' = [worker EXCEPT ![w] = Again(worker[w].task)]
    /\ jobWG' = jobWG - 1
    /\ UNCHANGED <<jobs, level, tasks, sent, closed, result, warned, file, main>>

(* A throttled job sleeps and goes back into the channel, which may be full. *)
Throttled(w) ==
    /\ worker[w].at = "asking"
    /\ ShouldRetry("throttled", worker[w].task.attempt)
    /\ worker' = [worker EXCEPT ![w] = Again(worker[w].task)]
    /\ UNCHANGED <<jobs, level, tasks, sent, jobWG, closed, result, warned, file, main>>

Resend(w) ==
    /\ main = "running" /\ worker[w].at = "resending" /\ Len(tasks) < Capacity
    /\ tasks' = Append(tasks, worker[w].task)
    /\ worker' = [worker EXCEPT ![w] = Idle]
    /\ UNCHANGED <<jobs, level, sent, jobWG, closed, result, warned, file, main>>

(* The closer. *)
Close ==
    /\ main = "running" /\ jobWG = 0 /\ ~closed
    /\ closed' = TRUE
    /\ UNCHANGED <<jobs, level, tasks, sent, worker, jobWG, result, warned, file, main>>

(* The range over a closed and empty channel ends. *)
Exit(w) ==
    /\ worker[w].at = "idle" /\ tasks = << >> /\ closed
    /\ worker' = [worker EXCEPT ![w].at = "exited"]
    /\ UNCHANGED <<jobs, level, tasks, sent, jobWG, closed, result, warned, file, main>>

(* What writeGoFile writes: every price with "%.6f". *)
Rounded(price) == (price + 5) \div 10
Formatted(prices) == [key \in DOMAIN prices |-> Rounded(prices[key])]

(* The end of main; when writeGoFile fails the file is as it was or truncated. *)
WriteGoFile ==
    /\ main = "running" /\ \A w \in Workers : worker[w].at = "exited"
    /\ \/ main' = "written" /\ file' = Formatted(result)
       \/ main' = "failed" /\ file' \in {file, Garbled}
    /\ UNCHANGED <<jobs, level, tasks, sent, worker, jobWG, closed, result, warned>>

WorkerStep(w) ==
    Receive(w) \/ Priced(w) \/ GivenUp(w) \/ Throttled(w) \/ Resend(w) \/ Exit(w)

Generate == Feed \/ Close \/ WriteGoFile \/ \E w \in Workers : WorkerStep(w)

GeneratorSpec == InitGenerator /\ [][Generate]_generatorVars

-----------------------------------------------------------------------------
(* Every worker waits to put its job into a full channel: nobody is left to
   read it, the feeder and the closer wait as well, and main never writes. *)
Stuck ==
    /\ main = "running" /\ Len(tasks) = Capacity
    /\ \A w \in Workers : worker[w].at = "resending"

(* The workers can only all wait for each other when there are more jobs than
   they and the channel hold (main.go:104 and main.go:120): a run with at most
   3 * level jobs always ends. *)
StuckNeedsBacklog == Stuck => Len(jobs) > 3 * level

(* No sender is left when the channel is closed, where a send panics, and no job
   is lost: every job the file does not price was given up with a warning. *)
NoJobLost ==
    /\ closed => sent = Len(jobs) /\ \A w \in Workers : worker[w].at \in {"idle", "exited"}
    /\ main = "written" => \A n \in 1 .. Len(jobs) : jobs[n] \in DOMAIN file \cup warned
=============================================================================
