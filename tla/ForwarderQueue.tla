---------------------------- MODULE ForwarderQueue ----------------------------
(***************************************************************************)
(* The store-and-forward queue of internal/forwarder: buildOnce hands one  *)
(* report per snapshot to Queue.Enqueue, which keeps it in memory or       *)
(* spills it to the spool directory; the goroutine Queue.Run POSTs         *)
(* batches, first from memory and then from the spool, bumps the retry     *)
(* count in a file's name when a POST fails and parks a file in failed/    *)
(* when the count is used up.                                              *)
(*                                                                         *)
(* Two goroutines run here: the producer (one caller of Enqueue) and the   *)
(* flusher (Run).  They share mem, memBytes and flushCh; the mutex mu      *)
(* covers the whole spill loop of Enqueue, disk writes included, and the   *)
(* short prefix cut of flushMemory, which is one step here.                *)
(*                                                                         *)
(* Data.  A report is the number of its Enqueue call.  A spool file is a   *)
(* record: name is the order of its nanosecond prefix among the names,     *)
(* tries the number after "_r".  The .tmp file of writeToDisk is never     *)
(* read by the code, so a file exists here from the moment it has its      *)
(* final name.  Time is abstracted to the set ripe: the files whose age    *)
(* exceeds every backoff the code may draw for them.                       *)
(***************************************************************************)
EXTENDS Integers, Sequences, FiniteSets, Functions, FiniteSetsExt

CONSTANTS
    N,              \* reports the producer enqueues (a bound of the model)
    Size,           \* Size[r]: bytes of the marshalled report r
    MaxBatch,       \* maxBatch
    MaxRetries,     \* maxRetries
    MaxBatchBytes,  \* maxBatchBytes
    MemoryBuffer,   \* memoryBuffer; 0 means "write every report to disk"
    MaxRestarts,    \* bound: crashes and shutdowns of the agent
    MaxFaults,      \* bound: file system calls that return an error
    MaxTorn         \* bound: spool files damaged by a power loss

Reports == 1..N

ASSUME BoundsAssumption ==
    /\ N \in Nat
    /\ Size \in [Reports -> Nat \ {0}]
    /\ MaxRestarts \in Nat /\ MaxFaults \in Nat /\ MaxTorn \in Nat

(* What NewQueue leaves in the fields whatever the configuration says. *)
ASSUME NewQueueAssumption ==
    /\ MaxBatch \in Nat \ {0}
    /\ MaxRetries \in Nat
    /\ MaxBatchBytes \in Nat \ {0}
    /\ MemoryBuffer \in Nat

VARIABLES
    produced,   \* Enqueue calls begun so far
    epc,        \* where the producer is inside Enqueue
    hand,       \* the file writeToDisk is about to commit for the producer
    wake,       \* shouldFlush
    mem,        \* q.mem
    memBytes,   \* q.memBytes
    flushCh,    \* TRUE when the one-slot channel holds a signal
    fpc,        \* where the flusher is inside Run
    passes,     \* flushOnce calls left, this one included, before select
    flight,     \* flushMemory's batch
    todo,       \* listed files not scanned yet, then batch files not read yet
    batch,      \* batchFiles (those still to remove or bump, at the end)
    readable,   \* the files of batch whose report was decoded
    verdict,    \* what the remote endpoint did with the outstanding POST
    dir,        \* the spool directory
    failed,     \* the failed/ directory
    ripe,       \* names of files whose backoff has surely elapsed
    torn,       \* names of files a power loss left undecodable
    stamps,     \* names given out so far
    ctxDone,    \* the agent's context is cancelled
    restarts, faults,
    \* History: what happened to each report.
    posts,      \* SendBatch attempts that carried it
    acked,      \* attempts answered with a 2xx
    received,   \* reports the remote endpoint accepted at least once
    lost        \* reports dropped without ever being received or parked

producerVars == <<produced, epc, hand, wake>>
sharedVars   == <<mem, memBytes, flushCh>>
flusherVars  == <<fpc, passes, flight, todo, batch, readable, verdict>>
diskVars     == <<dir, failed, ripe, torn, stamps>>
envVars      == <<ctxDone, restarts, faults>>
historyVars  == <<posts, acked, received, lost>>
vars == <<producerVars, sharedVars, flusherVars, diskVars, envVars, historyVars>>

File == [name : Nat, rep : Reports, tries : Nat]

-----------------------------------------------------------------------------
(* Helpers *)

BytesOf(R) == MapThenSumSet(LAMBDA r : Size[r], R)

RepsOf(F) == {f.rep : f \in F}

(* writeToDisk's fresh name: one more than every name given out. *)
NewFile(r) == [name |-> stamps + 1, rep |-> r, tries |-> 0]

(* The mutex is held by the producer from its append to the end of the spill loop. *)
Locked == MemoryBuffer > 0 /\ epc \in {"spill", "write"}

(* flushMemory cuts off n items: they fit, at least one goes, and the next would not. *)
PrefixBytes(n) == MapThenSumSet(LAMBDA i : Size[mem[i]], 1..n)
Fits(n) == n <= MaxBatch /\ (n = 1 \/ PrefixBytes(n) <= MaxBatchBytes)
CutsAt(n) == Fits(n) /\ (n < Len(mem) => ~Fits(n + 1))

(* A file system call fails: one unit of the fault budget. *)
Fault == faults < MaxFaults /\ faults' = faults + 1

(* sort.Strings: files are visited in the order of their names. *)
Foremost(f, F) == f \in F /\ \A g \in F : f.name <= g.name

(* Reports R leave the agent without a copy: those never received are lost. *)
Drop(R) == lost' = lost \cup (R \ received)

(* flushOnce returns: Run makes its next call or waits in select. *)
FlushReturns ==
    IF passes = 2 THEN fpc' = "flush" /\ passes' = 1
                  ELSE fpc' = "select" /\ passes' = passes

-----------------------------------------------------------------------------
Init ==
    /\ produced = 0 /\ epc = "idle" /\ hand = {} /\ wake = FALSE
    /\ mem = <<>> /\ memBytes = 0 /\ flushCh = FALSE
    /\ fpc = "flush" /\ passes = 1 /\ flight = <<>>
    /\ todo = {} /\ batch = {} /\ readable = {} /\ verdict = "none"
    /\ dir = {} /\ failed = {} /\ ripe = {} /\ torn = {} /\ stamps = 0
    /\ ctxDone = FALSE /\ restarts = 0 /\ faults = 0
    /\ posts = [r \in Reports |-> 0] /\ acked = [r \in Reports |-> 0]
    /\ received = {} /\ lost = {}

-----------------------------------------------------------------------------
(* Mistakes the properties are tested against: each of the following is a
   wrong version of the definition named before the underscore. *)

(* The spill loop forgets memBytes -= item.size. *)
SpillHead_NoAccounting ==
    /\ epc = "spill" /\ (Len(mem) > MemoryBuffer \/ memBytes > MaxBatchBytes) /\ mem # <<>>
    /\ hand' = {NewFile(Head(mem))} /\ stamps' = stamps + 1
    /\ mem' = Tail(mem) /\ epc' = "write"
    /\ UNCHANGED <<produced, wake, memBytes, flushCh, flusherVars, dir, failed, ripe, torn, envVars, historyVars>>

(* flushMemory forgets q.mem = q.mem[len(batch):]. *)
TakeMemory_KeepsPrefix ==
    /\ fpc = "flush" /\ ~Locked /\ mem # <<>>
    /\ \E n \in 1..Len(mem) : CutsAt(n) /\ flight' = SubSeq(mem, 1, n)
    /\ fpc' = "sendMem"
    /\ UNCHANGED <<producerVars, sharedVars, passes, todo, batch, readable, verdict, diskVars, envVars, historyVars>>

(* flushMemory reports "sent" although memory was empty: the spool is never read. *)
MemoryEmpty_Returns ==
    /\ fpc = "flush" /\ ~Locked /\ mem = <<>>
    /\ FlushReturns
    /\ UNCHANGED <<producerVars, sharedVars, flight, todo, batch, readable, verdict, diskVars, envVars, historyVars>>

(* A failed memory batch is not written back. *)
MemoryNotAcked_Forgets ==
    /\ fpc = "awaitMem"
    /\ verdict' = "none" /\ flight' = <<>> /\ FlushReturns
    /\ UNCHANGED <<producerVars, sharedVars, todo, batch, readable, diskVars, envVars, historyVars>>

(* The retry limit is off by one. *)
Exhausted_OffByOne(f) == f.tries > MaxRetries + 1

(* The continue after moveToFailed is missing: the parked path joins the batch. *)
ParkExhausted_NoContinue ==
    /\ \E f \in todo :
        /\ fpc = "scan" /\ Cardinality(batch) < MaxBatch /\ Foremost(f, todo)
        /\ f.tries > MaxRetries
        /\ todo' = todo \ {f} /\ batch' = batch \cup {f}
        /\ dir' = dir \ {f} /\ failed' = failed \cup {f}
    /\ UNCHANGED <<producerVars, sharedVars, fpc, passes, flight, readable, verdict, ripe, torn, stamps, envVars, historyVars>>

(* moveToFailed copies instead of renaming. *)
ParkExhausted_Copies ==
    /\ \E f \in todo :
        /\ fpc = "scan" /\ Cardinality(batch) < MaxBatch /\ Foremost(f, todo)
        /\ f.tries > MaxRetries
        /\ todo' = todo \ {f} /\ failed' = failed \cup {f}
    /\ UNCHANGED <<producerVars, sharedVars, fpc, passes, flight, batch, readable, verdict, dir, ripe, torn, stamps, envVars, historyVars>>

(* The error of the disk batch is ignored: the files are removed. *)
DiskNotAcked_Removes ==
    /\ fpc = "awaitDisk"
    /\ verdict' = "none" /\ fpc' = "remove"
    /\ UNCHANGED <<producerVars, sharedVars, passes, flight, todo, batch, readable, diskVars, envVars, historyVars>>

(* A delivered file stays in the spool. *)
RemoveFile_Keeps ==
    /\ fpc = "remove"
    /\ \E f \in batch : Foremost(f, batch) /\ batch' = batch \ {f}
    /\ UNCHANGED <<producerVars, sharedVars, fpc, passes, flight, todo, readable, verdict, diskVars, envVars, historyVars>>

(* bumpRetries refreshes the age but keeps the retry count. *)
BumpFile_SameName ==
    /\ fpc = "bump"
    /\ \E f \in batch :
        /\ Foremost(f, batch)
        /\ batch' = batch \ {f} /\ ripe' = ripe \ {f.name}
    /\ UNCHANGED <<producerVars, sharedVars, fpc, passes, flight, todo, readable, verdict, dir, failed, torn, stamps, envVars, historyVars>>

-----------------------------------------------------------------------------
(* The producer: Enqueue *)

(* The condition of the spill loop of Enqueue. *)
OverLimit == Len(mem) > MemoryBuffer \/ memBytes > MaxBatchBytes

(* memoryBuffer = 0: the report goes straight to writeToDisk, without the mutex. *)
AcceptDirect ==
    /\ MemoryBuffer = 0 /\ epc = "idle" /\ produced < N
    /\ produced' = produced + 1
    /\ hand' = {NewFile(produced + 1)}
    /\ stamps' = stamps + 1
    /\ epc' = "write"
    /\ UNCHANGED <<wake, sharedVars, flusherVars, dir, failed, ripe, torn, envVars, historyVars>>

AcceptToMemory ==
    /\ MemoryBuffer > 0 /\ epc = "idle" /\ produced < N
    /\ produced' = produced + 1
    /\ mem' = Append(mem, produced + 1)
    /\ memBytes' = memBytes + Size[produced + 1]
    /\ wake' = (memBytes' >= MaxBatchBytes)
    /\ epc' = "spill"
    /\ UNCHANGED <<hand, flushCh, flusherVars, diskVars, envVars, historyVars>>

(* One turn of the spill loop up to the disk write: the oldest item leaves memory.
   Over the limit with empty memory the code would panic at q.mem[0] and the
   producer is stuck here; MemoryWithinLimits shows that it never is. *)
SpillHead ==
    /\ epc = "spill" /\ OverLimit /\ mem # <<>>
    /\ hand' = {NewFile(Head(mem))}
    /\ stamps' = stamps + 1
    /\ mem' = Tail(mem)
    /\ memBytes' = memBytes - Size[Head(mem)]
    /\ epc' = "write"
    /\ UNCHANGED <<produced, wake, flushCh, flusherVars, dir, failed, ripe, torn, envVars, historyVars>>

WriteReturns == epc' = IF MemoryBuffer = 0 THEN "idle" ELSE "spill"

(* The rename of writeToDisk makes the file visible to ReadDir. *)
CommitWrite ==
    /\ epc = "write"
    /\ dir' = dir \cup hand
    /\ hand' = {}
    /\ WriteReturns
    /\ UNCHANGED <<produced, wake, sharedVars, flusherVars, failed, ripe, torn, stamps, envVars, historyVars>>

(* mkdir, write or rename fails: the error is logged and the report is gone. *)
FailWrite ==
    /\ epc = "write" /\ Fault
    /\ Drop(RepsOf(hand))
    /\ hand' = {}
    /\ WriteReturns
    /\ UNCHANGED <<produced, wake, sharedVars, flusherVars, diskVars, ctxDone, restarts, posts, acked, received>>

UnlockMu ==
    /\ epc = "spill" /\ ~OverLimit
    /\ epc' = IF wake THEN "signal" ELSE "idle"
    /\ UNCHANGED <<produced, hand, wake, sharedVars, flusherVars, diskVars, envVars, historyVars>>

(* A send that never blocks: a signal already waiting absorbs this one. *)
SignalFlush ==
    /\ epc = "signal"
    /\ flushCh' = TRUE /\ wake' = FALSE /\ epc' = "idle"
    /\ UNCHANGED <<produced, hand, mem, memBytes, flusherVars, diskVars, envVars, historyVars>>

-----------------------------------------------------------------------------
(* The flusher: Run and flushOnce *)

Tick ==
    /\ fpc = "select" /\ fpc' = "flush"
    /\ UNCHANGED <<producerVars, sharedVars, passes, flight, todo, batch, readable, verdict, diskVars, envVars, historyVars>>

(* A signal costs two flushOnce calls: one in the case, one at the top of the loop. *)
WakeUp ==
    /\ fpc = "select" /\ flushCh
    /\ flushCh' = FALSE /\ fpc' = "flush" /\ passes' = 2
    /\ UNCHANGED <<producerVars, mem, memBytes, flight, todo, batch, readable, verdict, diskVars, envVars, historyVars>>

Stop ==
    /\ fpc = "select" /\ ctxDone /\ fpc' = "stopped"
    /\ UNCHANGED <<producerVars, sharedVars, passes, flight, todo, batch, readable, verdict, diskVars, envVars, historyVars>>

(* MkdirAll fails at the top of flushOnce, or ReadDir fails after memory was empty. *)
AbortFlush ==
    /\ fpc \in {"flush", "readdir"} /\ Fault
    /\ FlushReturns
    /\ UNCHANGED <<producerVars, sharedVars, flight, todo, batch, readable, verdict, diskVars, ctxDone, restarts, historyVars>>

(* flushMemory cuts a batch off the front of memory under the mutex. *)
TakeMemory ==
    /\ fpc = "flush" /\ ~Locked /\ mem # <<>>
    /\ \E n \in 1..Len(mem) :
        /\ CutsAt(n)
        /\ flight' = SubSeq(mem, 1, n)
        /\ mem' = SubSeq(mem, n + 1, Len(mem))
        /\ memBytes' = memBytes - PrefixBytes(n)
    /\ fpc' = "sendMem"
    /\ UNCHANGED <<producerVars, flushCh, passes, todo, batch, readable, verdict, diskVars, envVars, historyVars>>

MemoryEmpty ==
    /\ fpc = "flush" /\ ~Locked /\ mem = <<>>
    /\ fpc' = "readdir"
    /\ UNCHANGED <<producerVars, sharedVars, passes, flight, todo, batch, readable, verdict, diskVars, envVars, historyVars>>

ListSpool ==
    /\ fpc = "readdir"
    /\ todo' = dir /\ fpc' = "scan"
    /\ UNCHANGED <<producerVars, sharedVars, passes, flight, batch, readable, verdict, diskVars, envVars, historyVars>>

(* The scan loop looks at f next. *)
Scanning(f) ==
    /\ fpc = "scan" /\ Cardinality(batch) < MaxBatch
    /\ Foremost(f, todo)

(* The backoff drawn for f may have elapsed: with tries > 0 the jitter decides. *)
MayBeDue(f) == f.name \in ripe \/ f.tries > 0

FitsBatch(f) == batch = {} \/ BytesOf(RepsOf(batch)) + Size[f.rep] <= MaxBatchBytes

Exhausted(f) == f.tries > MaxRetries

(* moveToFailed; when it fails the file waits for the next scan. *)
ParkExhausted ==
    /\ \E f \in todo :
        /\ Scanning(f) /\ Exhausted(f)
        /\ todo' = todo \ {f}
        /\ \/ dir' = dir \ {f} /\ failed' = failed \cup {f} /\ faults' = faults
           \/ Fault /\ UNCHANGED <<dir, failed>>
    /\ UNCHANGED <<producerVars, sharedVars, fpc, passes, flight, batch, readable, verdict, ripe, torn, stamps, ctxDone, restarts, historyVars>>

(* The file is backing off, or Stat failed. *)
SkipFile ==
    /\ \E f \in todo :
        /\ Scanning(f) /\ ~Exhausted(f)
        /\ \/ f.name \notin ripe /\ faults' = faults
           \/ Fault
        /\ todo' = todo \ {f}
    /\ UNCHANGED <<producerVars, sharedVars, fpc, passes, flight, batch, readable, verdict, diskVars, ctxDone, restarts, historyVars>>

TakeFile ==
    /\ \E f \in todo :
        /\ Scanning(f) /\ ~Exhausted(f) /\ MayBeDue(f) /\ FitsBatch(f)
        /\ todo' = todo \ {f}
        /\ batch' = batch \cup {f}
    /\ UNCHANGED <<producerVars, sharedVars, fpc, passes, flight, readable, verdict, diskVars, envVars, historyVars>>

(* The loop ends: listing used up, batch full, or the next due file does not fit. *)
EndScan ==
    /\ fpc = "scan"
    /\ \/ todo = {}
       \/ Cardinality(batch) >= MaxBatch
       \/ \E f \in todo : Scanning(f) /\ ~Exhausted(f) /\ MayBeDue(f) /\ ~FitsBatch(f)
    /\ todo' = batch
    /\ IF batch = {} THEN FlushReturns ELSE fpc' = "read" /\ passes' = passes
    /\ UNCHANGED <<producerVars, sharedVars, flight, batch, readable, verdict, diskVars, envVars, historyVars>>

(* A file that cannot be read or decoded yields no report but stays in batchFiles. *)
ReadFile ==
    /\ fpc = "read"
    /\ \E f \in todo :
        /\ Foremost(f, todo)
        /\ todo' = todo \ {f}
        /\ \/ readable' = (IF f.name \in torn THEN readable ELSE readable \cup {f}) /\ faults' = faults
           \/ Fault /\ readable' = readable
    /\ UNCHANGED <<producerVars, sharedVars, fpc, passes, flight, batch, verdict, diskVars, ctxDone, restarts, historyVars>>

(* With nothing decoded flushOnce returns and leaves every name as it is. *)
ReadDone ==
    /\ fpc = "read" /\ todo = {}
    /\ IF readable = {} THEN batch' = {} /\ FlushReturns
                        ELSE batch' = batch /\ fpc' = "sendDisk" /\ passes' = passes
    /\ UNCHANGED <<producerVars, sharedVars, flight, todo, readable, verdict, diskVars, envVars, historyVars>>

-----------------------------------------------------------------------------
(* SendBatch, called for the memory batch and for the disk batch *)

Payload == IF fpc = "sendMem" THEN Range(flight) ELSE RepsOf(readable)

(* The request goes out and the endpoint takes the batch or does not: it is
   down, answers another status, or the cancelled context stops the call. *)
Post ==
    /\ fpc \in {"sendMem", "sendDisk"}
    /\ posts' = [r \in Reports |-> IF r \in Payload THEN posts[r] + 1 ELSE posts[r]]
    /\ \/ ~ctxDone /\ verdict' = "accepted" /\ received' = received \cup Payload
       \/ verdict' = "refused" /\ received' = received
    /\ fpc' = IF fpc = "sendMem" THEN "awaitMem" ELSE "awaitDisk"
    /\ UNCHANGED <<producerVars, sharedVars, passes, flight, todo, batch, readable, diskVars, envVars, acked, lost>>

CountAck(R) == acked' = [r \in Reports |-> IF r \in R THEN acked[r] + 1 ELSE acked[r]]

MemoryAcked ==
    /\ fpc = "awaitMem" /\ verdict = "accepted"
    /\ CountAck(Range(flight))
    /\ flight' = <<>> /\ verdict' = "none"
    /\ FlushReturns
    /\ UNCHANGED <<producerVars, sharedVars, todo, batch, readable, diskVars, envVars, posts, received, lost>>

(* A refusal, or an answer that never arrives although the batch was taken. *)
MemoryNotAcked ==
    /\ fpc = "awaitMem"
    /\ verdict' = "none" /\ fpc' = "writeBack"
    /\ UNCHANGED <<producerVars, sharedVars, passes, flight, todo, batch, readable, diskVars, envVars, historyVars>>

(* The failed memory batch goes to the spool item by item, at zero retries. *)
WriteBack ==
    /\ fpc = "writeBack" /\ flight # <<>>
    /\ flight' = Tail(flight)
    /\ stamps' = stamps + 1
    /\ \/ dir' = dir \cup {NewFile(Head(flight))} /\ UNCHANGED <<faults, lost>>
       \/ Fault /\ Drop({Head(flight)}) /\ dir' = dir
    /\ UNCHANGED <<producerVars, sharedVars, fpc, passes, todo, batch, readable, verdict, failed, ripe, torn, ctxDone, restarts, posts, acked, received>>

WriteBackDone ==
    /\ fpc = "writeBack" /\ flight = <<>>
    /\ FlushReturns
    /\ UNCHANGED <<producerVars, sharedVars, flight, todo, batch, readable, verdict, diskVars, envVars, historyVars>>

DiskAcked ==
    /\ fpc = "awaitDisk" /\ verdict = "accepted"
    /\ CountAck(RepsOf(readable))
    /\ verdict' = "none" /\ fpc' = "remove"
    /\ UNCHANGED <<producerVars, sharedVars, passes, flight, todo, batch, readable, diskVars, envVars, posts, received, lost>>

DiskNotAcked ==
    /\ fpc = "awaitDisk"
    /\ verdict' = "none" /\ fpc' = "bump"
    /\ UNCHANGED <<producerVars, sharedVars, passes, flight, todo, batch, readable, diskVars, envVars, historyVars>>

(* After a successful POST every path of batchFiles is removed, the paths
   whose report never made it into the POST included. *)
RemoveFile ==
    /\ fpc = "remove"
    /\ \E f \in batch :
        /\ Foremost(f, batch)
        /\ batch' = batch \ {f}
        /\ \/ dir' = dir \ {f} /\ Drop({f.rep}) /\ faults' = faults
           \/ Fault /\ UNCHANGED <<dir, lost>>
    /\ UNCHANGED <<producerVars, sharedVars, fpc, passes, flight, todo, readable, verdict, failed, ripe, torn, stamps, ctxDone, restarts, posts, acked, received>>

(* bumpRetries: the name carries one retry more and the age starts again;
   when the rename fails only the age does. *)
BumpFile ==
    /\ fpc = "bump"
    /\ \E f \in batch :
        /\ Foremost(f, batch)
        /\ batch' = batch \ {f}
        /\ ripe' = ripe \ {f.name}
        /\ \/ dir' = (dir \ {f}) \cup {[f EXCEPT !.tries = @ + 1]} /\ faults' = faults
           \/ Fault /\ dir' = dir
    /\ UNCHANGED <<producerVars, sharedVars, fpc, passes, flight, todo, readable, verdict, failed, torn, stamps, ctxDone, restarts, historyVars>>

BatchDone ==
    /\ fpc \in {"remove", "bump"} /\ batch = {}
    /\ readable' = {}
    /\ FlushReturns
    /\ UNCHANGED <<producerVars, sharedVars, flight, todo, batch, verdict, diskVars, envVars, historyVars>>

-----------------------------------------------------------------------------
(* Time, shutdown, crash *)

(* The backoff of r's file has elapsed whatever jitter is drawn. *)
Ripen(r) ==
    /\ \E f \in dir :
        /\ f.rep = r /\ f.name \notin ripe
        /\ ripe' = ripe \cup {f.name}
    /\ UNCHANGED <<producerVars, sharedVars, flusherVars, dir, failed, torn, stamps, envVars, historyVars>>

(* SIGTERM: main's context is cancelled; nothing waits for the queue. *)
Shutdown ==
    /\ ~ctxDone /\ restarts < MaxRestarts
    /\ ctxDone' = TRUE
    /\ UNCHANGED <<producerVars, sharedVars, flusherVars, diskVars, restarts, faults, historyVars>>

Volatile == Range(mem) \cup Range(flight) \cup RepsOf(hand)

(* The process ends and a new one starts: memory and both goroutines are
   fresh, the directories are what they were. *)
Reboot ==
    /\ restarts < MaxRestarts /\ restarts' = restarts + 1
    /\ Drop(Volatile)
    /\ epc' = "idle" /\ hand' = {} /\ wake' = FALSE
    /\ mem' = <<>> /\ memBytes' = 0 /\ flushCh' = FALSE
    /\ fpc' = "flush" /\ passes' = 1 /\ flight' = <<>>
    /\ todo' = {} /\ batch' = {} /\ readable' = {} /\ verdict' = "none"
    /\ ctxDone' = FALSE
    /\ UNCHANGED <<produced, dir, failed, ripe, stamps, faults, posts, acked, received>>

Exit == ctxDone /\ Reboot /\ torn' = torn

Crash == ~ctxDone /\ Reboot /\ torn' = torn

(* writeToDisk renames without fsync: a power loss can leave the name with
   content that does not decode. *)
PowerLoss ==
    /\ ~ctxDone /\ Reboot
    /\ Cardinality(torn) < MaxTorn
    /\ \E f \in dir : f.name \notin torn /\ torn' = torn \cup {f.name}

-----------------------------------------------------------------------------
Enqueue == SpillHead \/ CommitWrite \/ FailWrite \/ UnlockMu \/ SignalFlush

Run ==
    \/ Tick \/ WakeUp \/ Stop \/ AbortFlush
    \/ TakeMemory \/ MemoryEmpty \/ ListSpool
    \/ ParkExhausted \/ SkipFile \/ TakeFile \/ EndScan \/ ReadFile \/ ReadDone
    \/ Post \/ MemoryAcked \/ MemoryNotAcked \/ WriteBack \/ WriteBackDone
    \/ DiskAcked \/ DiskNotAcked \/ RemoveFile \/ BumpFile \/ BatchDone

Next ==
    \/ AcceptDirect \/ AcceptToMemory \/ Enqueue
    \/ Run
    \/ \E r \in Reports : Ripen(r)
    \/ Shutdown \/ Exit \/ Crash \/ PowerLoss

Spec == Init /\ [][Next]_vars

(* Goroutines are scheduled, time passes, and a cancelled process exits.
   Nothing is assumed of the endpoint, of new reports or of shutdowns. *)
Fairness ==
    /\ WF_vars(Enqueue) /\ WF_vars(Run) /\ WF_vars(Exit)
    /\ \A r \in Reports : WF_vars(Ripen(r))

FairSpec == Spec /\ Fairness
-----------------------------------------------------------------------------
(* Properties *)

(* Every variable has its type; a file never carries more than MaxRetries + 1
   retries, because moveToFailed catches it there.  (memBytes is pinned down by
   MemoryWithinLimits.) *)
TypeOK ==
    /\ produced \in 0..N
    /\ epc \in {"idle", "spill", "write", "signal"}
    /\ hand \subseteq File /\ wake \in BOOLEAN
    /\ mem \in Seq(Reports) /\ flushCh \in BOOLEAN
    /\ fpc \in {"flush", "select", "stopped", "readdir", "scan", "read",
                "sendMem", "sendDisk", "awaitMem", "awaitDisk", "writeBack", "remove", "bump"}
    /\ passes \in {1, 2}
    /\ flight \in Seq(Reports)
    /\ todo \subseteq File /\ batch \subseteq File /\ readable \subseteq File
    /\ verdict \in {"none", "accepted", "refused"}
    /\ dir \subseteq File /\ failed \subseteq File
    /\ \A f \in dir : f.tries <= MaxRetries + 1
    /\ ripe \subseteq Nat /\ torn \subseteq Nat /\ stamps \in Nat
    /\ ctxDone \in BOOLEAN /\ restarts \in Nat /\ faults \in Nat
    /\ posts \in [Reports -> Nat] /\ acked \in [Reports -> Nat]
    /\ received \subseteq Reports /\ lost \subseteq Reports

Spooled == RepsOf(dir)
Parked  == RepsOf(failed)
Held    == Volatile \cup Spooled

OneFileEach(F) == \A f, g \in F : f.rep = g.rep => f = g

Disjoint(A, B) == A \cap B = {}

(* A report has one copy at most: it is in memory, in the producer's hand, in
   the batch being sent from memory, in one spool file or in one parked file,
   however Enqueue's spill and Run's batches interleave. *)
SingleCustody ==
    /\ IsInjective(mem) /\ IsInjective(flight)
    /\ OneFileEach(hand) /\ OneFileEach(dir) /\ OneFileEach(failed)
    /\ Disjoint(Range(mem), Range(flight))
    /\ Disjoint(Range(mem) \cup Range(flight), RepsOf(hand) \cup Spooled \cup Parked)
    /\ Disjoint(RepsOf(hand), Spooled \cup Parked)
    /\ Disjoint(Spooled, Parked)

(* No report vanishes unaccounted: once enqueued it is held, parked, received
   by the endpoint, or in the set of reports whose loss the model names. *)
NoSilentLoss ==
    1..produced \subseteq Held \cup Parked \cup received \cup lost

(* What is off disk at one moment: the memory buffer, the report being spilled
   and a batch cut from the buffer, which is no longer than the buffer was. *)
Exposure == MemoryBuffer + 1 + (IF MaxBatch < MemoryBuffer THEN MaxBatch ELSE MemoryBuffer)

(* What can be lost is bounded: a file system error costs one report, a damaged
   file one, and a restart what is off disk, although Enqueue and Run fill their
   parts of it independently and neither looks at the other's.  In particular
   no answer of the endpoint ever costs a report. *)
LossBounded ==
    Cardinality(lost) <= faults + Cardinality(torn) + restarts * Exposure

(* A report that starts in memory has one attempt more than one that starts on
   disk, because writeToDisk after a failed memory batch names it _r0.  So it is
   retried once more than config.go:218 says: "Max retries per batch". *)
FirstAttempts == IF MemoryBuffer = 0 THEN 1 ELSE 2

(* No report is POSTed for ever: the initial attempts, MaxRetries retries, and
   one more for every I/O error or restart that kept a retry from being counted. *)
BoundedAttempts ==
    \A r \in Reports : posts[r] <= FirstAttempts + MaxRetries + (faults + restarts)

(* A report whose delivery was acknowledged is not delivered again, except once
   for every failed removal and every restart between the answer and os.Remove. *)
AckedOnce ==
    \A r \in Reports : acked[r] <= 1 + (faults + restarts)

(* Whenever the mutex is free the buffer is within both limits and memBytes is
   the sum of the sizes in it. *)
MemoryWithinLimits ==
    /\ memBytes = PrefixBytes(Len(mem))
    /\ ~Locked => Len(mem) <= MemoryBuffer /\ memBytes <= MaxBatchBytes

(* Every POST is within maxBatch reports and maxBatchBytes bytes; only a report
   that is larger by itself exceeds the bytes, and it travels alone. *)
BatchFitsLimits ==
    fpc \in {"sendMem", "sendDisk"} =>
        /\ Payload # {} /\ Cardinality(Payload) <= MaxBatch
        /\ BytesOf(Payload) <= MaxBatchBytes \/ Cardinality(Payload) = 1

(* Both limits of the configuration hold on both ways a report may take: buffer
   and spill loop, which share memBytes with the flusher, and the batches cut
   from memory or collected from the spool, which Run sends. *)
WithinLimits == MemoryWithinLimits /\ BatchFitsLimits

(* The listing taken by ReadDir stays valid while the flusher works through it:
   every file still to scan, read, remove or rename exists, although the producer
   goes on adding files. *)
ListingStaysValid == todo \cup batch \subseteq dir

(* The queue implements the outbox: a held report is let go only when received,
   parked, or lost to a fault or restart, and none comes back. *)
Outbox == INSTANCE ReportOutbox WITH
    accepted <- produced, held <- Held, parked <- Parked,
    mayLose <- (faults > 0 \/ restarts > 0)

ImplementsOutbox == Outbox!Spec

(* When the producer has stopped, memory and spool eventually empty for good,
   whatever the endpoint answers: retries run out and files are parked. *)
QueueDrains ==
    (produced = N) ~> [](Held = {})
-----------------------------------------------------------------------------
(* What the documentation says, and the runs refute *)

(* docs/remote.md:23: "Agents spool reports to disk and POST batches".  A report
   that reached the spool leaves it for failed/ or after a POST that carried it. *)
SpooledIsPosted ==
    [][\A f \in dir : f.rep \notin RepsOf(dir') \cup RepsOf(failed') => posts'[f.rep] > 0]_vars

Intact == {f.rep : f \in {g \in dir : g.name \notin torn}}

(* The same sentence as a promise: a spool file that stays intact is eventually
   POSTed, whatever happened to its neighbours. *)
IntactIsPosted ==
    \A r \in Reports : r \in Intact ~> (posts[r] > 0 \/ r \notin Intact)
=============================================================================
