-------------------------- MODULE ForwarderQueueProofs --------------------------
(***************************************************************************)
(* Proofs about ForwarderQueue for every number of reports, every size     *)
(* function, every limit of the configuration and every bound on faults,   *)
(* restarts and damaged files.                                             *)
(*                                                                         *)
(* The argument.  Phase says which of the flusher's local variables are    *)
(* in use at each point of Run; Fifo says that memory always holds the     *)
(* newest reports, in order and without a gap, so that everything that     *)
(* left it is older.  Together with the types and SingleCustody they are   *)
(* inductive.  The attempt bounds need one fact per place a report can be  *)
(* in (Attempts and Acks): how many POSTs the retry count in a file's      *)
(* name stands for.                                                        *)
(*                                                                         *)
(* That the queue implements ReportOutbox needs to know why a report is    *)
(* missing from a POST (Blame): RemoveFile only runs on received reports,  *)
(* except for those a failed read or a damaged file has left out.  The     *)
(* bound on lost reports counts them together with those about to be lost  *)
(* (LossAccount), each paid for by a fault, by the name of a damaged file  *)
(* or by the limits of what is off disk when the process stops (Named,     *)
(* Buffered).                                                              *)
(*                                                                         *)
(* The limits of the configuration are about sums of bytes: memBytes is    *)
(* the sum along memory (Along), which the cut of flushMemory splits in    *)
(* two, and the files of a batch add up to no more than the limit unless   *)
(* there is only one (BatchLimits).                                        *)
(***************************************************************************)
EXTENDS ForwarderQueue, SumTheorems, SequenceTheorems, FiniteSetTheorems, TLAPS

(* Reports that have left the memory buffer, for the producer's hand, the
   flusher's batch, the disk or for good. *)
Left == produced - Len(mem)

(* What the flusher holds at each point of Run, and the producer of Enqueue. *)
Phase ==
    /\ todo \cup batch \subseteq dir
    /\ fpc = "scan" => todo \cap batch = {} /\ readable = {}
    /\ fpc = "read" => todo \subseteq batch
    /\ fpc \notin {"scan", "read"} => todo = {}
    /\ fpc \notin {"scan", "read", "sendDisk", "awaitDisk", "remove", "bump"} => batch = {}
    /\ fpc \in {"read", "sendDisk", "awaitDisk"} => readable \subseteq batch
    /\ fpc \notin {"read", "sendDisk", "awaitDisk", "remove", "bump"} => readable = {}
    /\ \A f \in batch : f.tries <= MaxRetries
    /\ fpc \notin {"sendMem", "awaitMem", "writeBack"} => flight = <<>>
    /\ flight # <<>> => MemoryBuffer > 0
    /\ mem # <<>> => MemoryBuffer > 0
    /\ epc # "write" => hand = {}
    /\ \A f \in hand : f.tries = 0

(* Memory holds the newest reports; older ones are everywhere else. *)
Fifo ==
    /\ \A i \in 1..Len(mem) : mem[i] = Left + i
    /\ \A i \in 1..Len(flight) : flight[i] <= Left
    /\ \A f \in hand \cup dir \cup failed : f.rep <= Left

IInv == TypeOK /\ Phase /\ Fifo /\ SingleCustody

(* POSTs behind each place a report can be in.  In the spool the retry count of
   the name stands for all of them but the one that has just been answered. *)
Fuel == faults + restarts

Pending(f) == f \in batch /\ fpc \in {"awaitDisk", "remove", "bump"}

One(b) == IF b THEN 1 ELSE 0

Attempts ==
    /\ \A r \in Reports : r > Left => posts[r] = 0
    /\ \A f \in hand : posts[f.rep] = 0
    /\ \A i \in 1..Len(flight) : posts[flight[i]] <= IF fpc = "sendMem" THEN 0 ELSE 1
    /\ \A f \in dir : posts[f.rep] <= f.tries + (FirstAttempts - 1) + Fuel + One(Pending(f))
    /\ BoundedAttempts

Removing(f) == f \in batch /\ fpc = "remove"

(* Acknowledged deliveries behind each place: none in memory, and none in the
   spool but the one whose file is about to be removed. *)
Acks ==
    /\ \A r \in Reports : r > Left => acked[r] = 0
    /\ \A f \in hand : acked[f.rep] = 0
    /\ \A i \in 1..Len(flight) : acked[flight[i]] = 0
    /\ \A f \in dir : acked[f.rep] <= Fuel + One(Removing(f))
    /\ AckedOnce

-----------------------------------------------------------------------------
(* Sequences *)

(* Appending an item adds it to the items of the sequence. *)
LEMMA RangeAppend ==
    ASSUME NEW S, NEW s \in Seq(S), NEW e \in S
    PROVE  Range(Append(s, e)) = Range(s) \cup {e}
<1>1. /\ Append(s, e) \in Seq(S) /\ DOMAIN Append(s, e) = 1..(Len(s) + 1)
      /\ DOMAIN s = 1..Len(s) /\ Len(s) \in Nat
  OBVIOUS
<1>2. /\ \A i \in 1..Len(s) : Append(s, e)[i] = s[i]
      /\ Append(s, e)[Len(s) + 1] = e
  OBVIOUS
<1>3. Range(Append(s, e)) \subseteq Range(s) \cup {e}
  BY <1>1, <1>2 DEF Range
<1>4. Range(s) \cup {e} \subseteq Range(Append(s, e))
  BY <1>1, <1>2 DEF Range
<1>5. QED BY <1>3, <1>4

(* Taking the head off splits the items of the sequence. *)
LEMMA RangeTail ==
    ASSUME NEW S, NEW s \in Seq(S), s # <<>>
    PROVE  /\ Tail(s) \in Seq(S) /\ Head(s) \in S /\ Len(Tail(s)) = Len(s) - 1
           /\ Len(s) >= 1 /\ Head(s) = s[1]
           /\ \A i \in 1..Len(Tail(s)) : Tail(s)[i] = s[i + 1]
           /\ Range(s) = {Head(s)} \cup Range(Tail(s))
<1>1. /\ Tail(s) \in Seq(S) /\ Head(s) \in S /\ Len(Tail(s)) = Len(s) - 1
      /\ Len(s) >= 1 /\ Head(s) = s[1] /\ Len(s) \in Nat
      /\ DOMAIN s = 1..Len(s) /\ DOMAIN Tail(s) = 1..(Len(s) - 1)
  OBVIOUS
<1>2. \A i \in 1..(Len(s) - 1) : Tail(s)[i] = s[i + 1]
  OBVIOUS
<1>3. Range(Tail(s)) \subseteq Range(s)
  BY <1>1, <1>2 DEF Range
<1>4. Range(s) \subseteq {Head(s)} \cup Range(Tail(s))
  <2>1. SUFFICES ASSUME NEW i \in 1..Len(s)
                 PROVE  s[i] = Head(s) \/ s[i] \in Range(Tail(s))
    BY <1>1 DEF Range
  <2>2. CASE i = 1
    BY <1>1, <2>2
  <2>3. CASE i # 1
    <3>1. i - 1 \in 1..(Len(s) - 1)
      BY <2>3, <1>1
    <3>2. Tail(s)[i - 1] = s[i]
      BY <3>1, <1>2
    <3>3. QED BY <3>1, <3>2, <1>1 DEF Range
  <2>4. QED BY <2>2, <2>3
<1>5. Head(s) \in Range(s)
  BY <1>1 DEF Range
<1>6. QED BY <1>1, <1>2, <1>3, <1>4, <1>5

(* The positions behind a cut. *)
LEMMA CutPositions ==
    ASSUME NEW L \in Nat, NEW n \in 1..L
    PROVE  /\ n \in Nat /\ L - (n + 1) + 1 = L - n
           /\ (IF n + 1 <= L THEN L - (n + 1) + 1 ELSE 0) = L - n
           /\ \A i \in 1..(L - n) : n + i \in 1..L /\ (n + 1) + i - 1 = n + i
OBVIOUS

(* Cutting a sequence in two: the parts, their lengths and their items. *)
LEMMA RangeCut ==
    ASSUME NEW S, NEW s \in Seq(S), NEW n \in 1..Len(s)
    PROVE  LET a == SubSeq(s, 1, n)
               b == SubSeq(s, n + 1, Len(s))
           IN /\ a \in Seq(S) /\ b \in Seq(S)
              /\ Len(a) = n /\ Len(b) = Len(s) - n
              /\ \A i \in 1..n : a[i] = s[i]
              /\ \A i \in 1..(Len(s) - n) : b[i] = s[n + i]
              /\ Range(s) = Range(a) \cup Range(b)
<1> DEFINE a == SubSeq(s, 1, n)
           b == SubSeq(s, n + 1, Len(s))
<1>1. /\ Len(s) \in Nat /\ DOMAIN s = 1..Len(s) /\ \A i \in 1..Len(s) : s[i] \in S
  OBVIOUS
<1>2. /\ a \in Seq(S) /\ Len(a) = n /\ \A i \in 1..n : a[i] = s[i]
  <2>1. \A i \in 1..n : s[i] \in S
    BY <1>1
  <2>2. /\ a \in Seq(S) /\ Len(a) = IF 1 <= n THEN n - 1 + 1 ELSE 0
        /\ \A i \in 1..(n - 1 + 1) : a[i] = s[1 + i - 1]
    BY <2>1, <1>1, SubSeqProperties
  <2>3. QED BY <2>2
<1>3. /\ b \in Seq(S) /\ Len(b) = Len(s) - n
      /\ \A i \in 1..(Len(s) - n) : b[i] = s[n + i]
  <2>1. \A i \in (n + 1)..Len(s) : s[i] \in S
    BY <1>1
  <2>2. /\ b \in Seq(S)
        /\ Len(b) = IF n + 1 <= Len(s) THEN Len(s) - (n + 1) + 1 ELSE 0
        /\ \A i \in 1..(Len(s) - (n + 1) + 1) : b[i] = s[(n + 1) + i - 1]
    BY <2>1, <1>1, SubSeqProperties
  <2>3. /\ n \in Nat /\ Len(s) - (n + 1) + 1 = Len(s) - n
        /\ (IF n + 1 <= Len(s) THEN Len(s) - (n + 1) + 1 ELSE 0) = Len(s) - n
    BY <1>1, CutPositions
  <2>4. ASSUME NEW i \in 1..(Len(s) - n)
        PROVE  b[i] = s[n + i]
    <3>1. (n + 1) + i - 1 = n + i
      BY <1>1, CutPositions
    <3>2. b[i] = s[(n + 1) + i - 1]
      BY <2>2, <2>3
    <3>3. QED BY <3>1, <3>2
  <2>5. QED BY <2>2, <2>3, <2>4
<1>4. DOMAIN a = 1..n /\ DOMAIN b = 1..(Len(s) - n)
  BY <1>2, <1>3
<1>5. Range(a) \cup Range(b) \subseteq Range(s)
  <2>1. \A i \in 1..n : i \in DOMAIN s /\ a[i] = s[i]
    BY <1>1, <1>2
  <2>2. \A i \in 1..(Len(s) - n) : n + i \in DOMAIN s /\ b[i] = s[n + i]
    BY <1>1, <1>3, CutPositions
  <2>3. Range(a) \subseteq Range(s)
    BY <2>1, <1>4 DEF Range
  <2>4. Range(b) \subseteq Range(s)
    BY <2>2, <1>4 DEF Range
  <2>5. QED BY <2>3, <2>4
<1>6. Range(s) \subseteq Range(a) \cup Range(b)
  <2>1. SUFFICES ASSUME NEW i \in 1..Len(s)
                 PROVE  s[i] \in Range(a) \/ s[i] \in Range(b)
    BY <1>1 DEF Range
  <2>2. CASE i <= n
    BY <2>2, <1>2, <1>4 DEF Range
  <2>3. CASE i > n
    <3>1. i - n \in 1..(Len(s) - n) /\ n + (i - n) = i
      BY <2>3, <1>1
    <3>2. b[i - n] = s[n + (i - n)]
      BY <3>1, <1>3
    <3>3. QED BY <3>1, <3>2, <1>4 DEF Range
  <2>4. QED BY <2>2, <2>3, <1>1
<1>7. QED BY <1>2, <1>3, <1>5, <1>6

-----------------------------------------------------------------------------
(* The inductive invariant *)

(* Init establishes it. *)
LEMMA InitEstablishes == Init => IInv
<1> SUFFICES ASSUME Init PROVE IInv
  OBVIOUS
<1> USE BoundsAssumption, NewQueueAssumption DEF Init
<1>1. TypeOK
  <2>1. produced \in 0..N /\ mem \in Seq(Reports) /\ flight \in Seq(Reports)
    OBVIOUS
  <2>2. posts \in [Reports -> Nat] /\ acked \in [Reports -> Nat]
    OBVIOUS
  <2>3. QED BY <2>1, <2>2 DEF TypeOK
<1>2. Phase
  BY DEF Phase
<1>3. Fifo
  BY DEF Fifo, Left
<1>4. SingleCustody
  BY DEF SingleCustody, OneFileEach, Disjoint, Spooled, Parked, RepsOf, Range, IsInjective
<1>5. QED BY <1>1, <1>2, <1>3, <1>4 DEF IInv

(* A fresh file is a file, and the reports of files are reports. *)
LEMMA Files ==
    ASSUME TypeOK
    PROVE  /\ \A r \in Reports : NewFile(r) \in File /\ NewFile(r).rep = r /\ NewFile(r).tries = 0
           /\ RepsOf(hand) \subseteq Reports /\ RepsOf(batch) \subseteq Reports
           /\ RepsOf(readable) \subseteq Reports
           /\ Volatile \subseteq Reports
           /\ Payload \subseteq Reports
<1>1. \A r \in Reports : NewFile(r) \in File /\ NewFile(r).rep = r /\ NewFile(r).tries = 0
  BY DEF TypeOK, NewFile, File
<1>2. \A F : F \subseteq File => RepsOf(F) \subseteq Reports
  BY DEF RepsOf, File
<1>3. \A s \in Seq(Reports) : Range(s) \subseteq Reports
  BY DEF Range
<1>4. /\ hand \subseteq File /\ batch \subseteq File /\ readable \subseteq File
      /\ mem \in Seq(Reports) /\ flight \in Seq(Reports)
  BY DEF TypeOK
<1>5. QED BY <1>1, <1>2, <1>3, <1>4 DEF Volatile, Payload

(* Every step keeps the types. *)
LEMMA TypeStep == IInv /\ [Next]_vars => TypeOK'
<1> SUFFICES ASSUME IInv, [Next]_vars PROVE TypeOK'
  OBVIOUS
<1>0. TypeOK /\ Phase
  BY DEF IInv
<1>a. /\ \A r \in Reports : NewFile(r) \in File /\ NewFile(r).tries = 0
      /\ RepsOf(hand) \subseteq Reports /\ RepsOf(batch) \subseteq Reports
      /\ Volatile \subseteq Reports /\ Payload \subseteq Reports
  BY <1>0, Files
<1>b. stamps + 1 \in Nat /\ faults + 1 \in Nat /\ restarts + 1 \in Nat
  BY <1>0 DEF TypeOK
<1>c. ASSUME NEW R \in SUBSET Reports, Drop(R) PROVE lost' \subseteq Reports
  BY <1>c, <1>0 DEF TypeOK, Drop
<1>d. ASSUME FlushReturns
      PROVE  fpc' \in {"flush", "select"} /\ passes' \in {1, 2}
  BY <1>d, <1>0 DEF TypeOK, FlushReturns
<1>e. ASSUME Fault PROVE faults' \in Nat
  BY <1>e, <1>b DEF Fault
<1> USE DEF producerVars, sharedVars, flusherVars, diskVars, envVars, historyVars
<1>1. CASE UNCHANGED vars
  BY <1>1, <1>0 DEF vars, TypeOK
<1>2. CASE AcceptDirect
  <2>1. produced + 1 \in Reports /\ produced' \in 0..N
    BY <1>2, <1>0, BoundsAssumption DEF AcceptDirect, TypeOK, Reports
  <2>2. NewFile(produced + 1) \in File
    BY <2>1, <1>a
  <2>3. QED BY <1>2, <2>1, <2>2, <1>0, <1>b DEF AcceptDirect, TypeOK
<1>3. CASE AcceptToMemory
  <2>1. produced + 1 \in Reports /\ produced' \in 0..N
    BY <1>3, <1>0, BoundsAssumption DEF AcceptToMemory, TypeOK, Reports
  <2>2. mem' \in Seq(Reports) /\ wake' \in BOOLEAN
    BY <1>3, <2>1, <1>0 DEF AcceptToMemory, TypeOK
  <2>3. QED BY <1>3, <2>1, <2>2, <1>0 DEF AcceptToMemory, TypeOK
<1>4. CASE Enqueue
  <2>1. CASE SpillHead
    <3>1. Tail(mem) \in Seq(Reports) /\ Head(mem) \in Reports
      BY <2>1, <1>0, RangeTail DEF SpillHead, TypeOK
    <3>2. NewFile(Head(mem)) \in File
      BY <3>1, <1>a
    <3>3. QED BY <2>1, <3>1, <3>2, <1>0, <1>b DEF SpillHead, TypeOK
  <2>2. CASE CommitWrite
    BY <2>2, <1>0, NewQueueAssumption DEF CommitWrite, WriteReturns, Phase, TypeOK
  <2>3. CASE FailWrite
    BY <2>3, <1>0, <1>a, <1>c, <1>e DEF FailWrite, WriteReturns, TypeOK
  <2>4. CASE UnlockMu
    BY <2>4, <1>0 DEF UnlockMu, TypeOK
  <2>5. CASE SignalFlush
    BY <2>5, <1>0 DEF SignalFlush, TypeOK
  <2>6. QED
    BY <1>4, <2>1, <2>2, <2>3, <2>4, <2>5 DEF Enqueue
<1>5. CASE Run
  <2>1. CASE Tick
    BY <2>1, <1>0 DEF Tick, TypeOK
  <2>2. CASE WakeUp
    BY <2>2, <1>0 DEF WakeUp, TypeOK
  <2>3. CASE Stop
    BY <2>3, <1>0 DEF Stop, TypeOK
  <2>4. CASE AbortFlush
    BY <2>4, <1>0, <1>d, <1>e DEF AbortFlush, TypeOK
  <2>5. CASE TakeMemory
    <3>1. PICK n \in 1..Len(mem) : /\ flight' = SubSeq(mem, 1, n)
                                   /\ mem' = SubSeq(mem, n + 1, Len(mem))
      BY <2>5 DEF TakeMemory
    <3>2. flight' \in Seq(Reports) /\ mem' \in Seq(Reports)
      BY <3>1, <1>0, RangeCut DEF TypeOK
    <3>3. QED BY <2>5, <3>2, <1>0 DEF TakeMemory, TypeOK
  <2>6. CASE MemoryEmpty
    BY <2>6, <1>0 DEF MemoryEmpty, TypeOK
  <2>7. CASE ListSpool
    BY <2>7, <1>0 DEF ListSpool, TypeOK
  <2>8. CASE ParkExhausted
    BY <2>8, <1>0, <1>e DEF ParkExhausted, TypeOK
  <2>9. CASE SkipFile
    BY <2>9, <1>0, <1>e DEF SkipFile, TypeOK
  <2>10. CASE TakeFile
    BY <2>10, <1>0 DEF TakeFile, TypeOK
  <2>11. CASE EndScan
    BY <2>11, <1>0, <1>d DEF EndScan, TypeOK
  <2>12. CASE ReadFile
    BY <2>12, <1>0, <1>e DEF ReadFile, TypeOK
  <2>13. CASE ReadDone
    BY <2>13, <1>0, <1>d DEF ReadDone, TypeOK
  <2>14. CASE Post
    <3>1. posts' \in [Reports -> Nat]
      BY <2>14, <1>0 DEF Post, TypeOK
    <3>2. received' \subseteq Reports
      BY <2>14, <1>0, <1>a DEF Post, TypeOK
    <3>3. QED BY <2>14, <3>1, <3>2, <1>0 DEF Post, TypeOK
  <2>15. CASE MemoryAcked
    <3>1. acked' \in [Reports -> Nat]
      BY <2>15, <1>0 DEF MemoryAcked, CountAck, TypeOK
    <3>2. QED BY <2>15, <3>1, <1>0, <1>d DEF MemoryAcked, TypeOK
  <2>16. CASE MemoryNotAcked
    BY <2>16, <1>0 DEF MemoryNotAcked, TypeOK
  <2>17. CASE WriteBack
    <3>1. Tail(flight) \in Seq(Reports) /\ Head(flight) \in Reports
      BY <2>17, <1>0, RangeTail DEF WriteBack, TypeOK
    <3>2. NewFile(Head(flight)) \in File /\ NewFile(Head(flight)).tries = 0
      BY <3>1, <1>a
    <3>3. dir' \subseteq File /\ \A f \in dir' : f.tries <= MaxRetries + 1
      BY <2>17, <3>2, <1>0, NewQueueAssumption DEF WriteBack, TypeOK
    <3>4. faults' \in Nat /\ lost' \subseteq Reports
      BY <2>17, <3>1, <1>0, <1>c, <1>e DEF WriteBack, TypeOK
    <3>5. QED BY <2>17, <3>1, <3>3, <3>4, <1>0, <1>b DEF WriteBack, TypeOK
  <2>18. CASE WriteBackDone
    BY <2>18, <1>0, <1>d DEF WriteBackDone, TypeOK
  <2>19. CASE DiskAcked
    <3>1. acked' \in [Reports -> Nat]
      BY <2>19, <1>0 DEF DiskAcked, CountAck, TypeOK
    <3>2. QED BY <2>19, <3>1, <1>0 DEF DiskAcked, TypeOK
  <2>20. CASE DiskNotAcked
    BY <2>20, <1>0 DEF DiskNotAcked, TypeOK
  <2>21. CASE RemoveFile
    <3>1. faults' \in Nat /\ lost' \subseteq Reports
      <4>1. PICK f \in batch : \/ Drop({f.rep}) /\ faults' = faults
                               \/ Fault /\ lost' = lost
        BY <2>21 DEF RemoveFile
      <4>2. {f.rep} \subseteq Reports
        BY <1>a DEF RepsOf
      <4>3. QED BY <4>1, <4>2, <1>0, <1>c, <1>e DEF TypeOK
    <3>2. dir' \subseteq dir /\ batch' \subseteq batch
      BY <2>21 DEF RemoveFile
    <3>3. QED BY <2>21, <3>1, <3>2, <1>0 DEF RemoveFile, TypeOK
  <2>22. CASE BumpFile
    <3>1. PICK f \in batch :
              /\ batch' = batch \ {f} /\ ripe' = ripe \ {f.name}
              /\ \/ dir' = (dir \ {f}) \cup {[f EXCEPT !.tries = @ + 1]} /\ faults' = faults
                 \/ Fault /\ dir' = dir
      BY <2>22 DEF BumpFile
    <3>2. f \in File /\ f.tries <= MaxRetries
      BY <1>0 DEF Phase, TypeOK
    <3>3. /\ [f EXCEPT !.tries = @ + 1] \in File
          /\ [f EXCEPT !.tries = @ + 1].tries <= MaxRetries + 1
      BY <3>2, NewQueueAssumption DEF File
    <3>4. dir' \subseteq File /\ \A g \in dir' : g.tries <= MaxRetries + 1
      BY <3>1, <3>3, <1>0 DEF TypeOK
    <3>5. faults' \in Nat
      BY <3>1, <1>0, <1>e DEF TypeOK
    <3>6. QED BY <2>22, <3>1, <3>4, <3>5, <1>0 DEF BumpFile, TypeOK
  <2>23. CASE BatchDone
    BY <2>23, <1>0, <1>d DEF BatchDone, TypeOK
  <2>24. QED
    BY <1>5, <2>1, <2>2, <2>3, <2>4, <2>5, <2>6, <2>7, <2>8, <2>9, <2>10, <2>11, <2>12, <2>13,
       <2>14, <2>15, <2>16, <2>17, <2>18, <2>19, <2>20, <2>21, <2>22, <2>23 DEF Run
<1>6. CASE \E r \in Reports : Ripen(r)
  <2>1. PICK f \in dir : ripe' = ripe \cup {f.name}
    BY <1>6 DEF Ripen
  <2>2. f.name \in Nat
    BY <1>0 DEF TypeOK, File
  <2>3. ripe' \subseteq Nat
    BY <2>1, <2>2, <1>0 DEF TypeOK
  <2>4. QED BY <1>6, <2>3, <1>0 DEF Ripen, TypeOK
<1>7. CASE Shutdown
  BY <1>7, <1>0 DEF Shutdown, TypeOK
<1>8. CASE Exit \/ Crash \/ PowerLoss
  <2>1. Reboot
    BY <1>8 DEF Exit, Crash, PowerLoss
  <2>2. torn' \subseteq Nat
    <3>1. \A f \in dir : f.name \in Nat
      BY <1>0 DEF TypeOK, File
    <3>2. QED BY <1>8, <3>1, <1>0 DEF Exit, Crash, PowerLoss, TypeOK
  <2>3. lost' \subseteq Reports
    BY <2>1, <1>a, <1>c DEF Reboot
  <2>4. mem' \in Seq(Reports) /\ flight' \in Seq(Reports)
    BY <2>1 DEF Reboot
  <2>5. restarts' \in Nat
    BY <2>1, <1>b DEF Reboot
  <2>6. QED BY <2>1, <2>2, <2>3, <2>4, <2>5, <1>0 DEF Reboot, TypeOK
<1>9. QED
  BY <1>1, <1>2, <1>3, <1>4, <1>5, <1>6, <1>7, <1>8 DEF Next

(* Every step keeps the flusher's and the producer's local state in phase: in
   particular no file of a listing disappears while the flusher works on it. *)
LEMMA PhaseStep == IInv /\ [Next]_vars => Phase'
<1> SUFFICES ASSUME IInv, [Next]_vars PROVE Phase'
  OBVIOUS
<1>0. TypeOK /\ Phase
  BY DEF IInv
<1>a. \A r \in Reports : NewFile(r).tries = 0
  BY <1>0, Files
<1>d. ASSUME FlushReturns PROVE fpc' \in {"flush", "select"}
  BY <1>d DEF FlushReturns
<1> USE DEF producerVars, sharedVars, flusherVars, diskVars, envVars, historyVars
<1>1. CASE UNCHANGED vars
  BY <1>1, <1>0 DEF vars, Phase
<1>2. CASE AcceptDirect
  <2>1. NewFile(produced + 1).tries = 0
    BY DEF NewFile
  <2>2. QED BY <1>2, <2>1, <1>0 DEF AcceptDirect, Phase
<1>3. CASE AcceptToMemory
  BY <1>3, <1>0 DEF AcceptToMemory, Phase
<1>4. CASE Enqueue
  <2>1. CASE SpillHead
    <3>1. NewFile(Head(mem)).tries = 0
      BY DEF NewFile
    <3>2. QED BY <2>1, <3>1, <1>0 DEF SpillHead, Phase
  <2>2. CASE CommitWrite
    BY <2>2, <1>0 DEF CommitWrite, WriteReturns, Phase
  <2>3. CASE FailWrite
    BY <2>3, <1>0 DEF FailWrite, WriteReturns, Phase
  <2>4. CASE UnlockMu
    BY <2>4, <1>0 DEF UnlockMu, Phase
  <2>5. CASE SignalFlush
    BY <2>5, <1>0 DEF SignalFlush, Phase
  <2>6. QED
    BY <1>4, <2>1, <2>2, <2>3, <2>4, <2>5 DEF Enqueue
<1>5. CASE Run
  <2>1. CASE Tick
    BY <2>1, <1>0 DEF Tick, Phase
  <2>2. CASE WakeUp
    BY <2>2, <1>0 DEF WakeUp, Phase
  <2>3. CASE Stop
    BY <2>3, <1>0 DEF Stop, Phase
  <2>4. CASE AbortFlush
    BY <2>4, <1>0, <1>d DEF AbortFlush, Phase
  <2>5. CASE TakeMemory
    BY <2>5, <1>0 DEF TakeMemory, Phase
  <2>6. CASE MemoryEmpty
    BY <2>6, <1>0 DEF MemoryEmpty, Phase
  <2>7. CASE ListSpool
    BY <2>7, <1>0 DEF ListSpool, Phase
  <2>8. CASE ParkExhausted
    BY <2>8, <1>0 DEF ParkExhausted, Scanning, Phase
  <2>9. CASE SkipFile
    BY <2>9, <1>0 DEF SkipFile, Scanning, Phase
  <2>10. CASE TakeFile
    <3>1. PICK f \in todo : ~Exhausted(f) /\ todo' = todo \ {f} /\ batch' = batch \cup {f}
      BY <2>10 DEF TakeFile
    <3>2. f.tries <= MaxRetries
      BY <3>1, <1>0, NewQueueAssumption DEF Exhausted, TypeOK, File
    <3>3. QED BY <2>10, <3>1, <3>2, <1>0 DEF TakeFile, Scanning, Phase
  <2>11. CASE EndScan
    BY <2>11, <1>0, <1>d DEF EndScan, Phase
  <2>12. CASE ReadFile
    BY <2>12, <1>0 DEF ReadFile, Phase
  <2>13. CASE ReadDone
    BY <2>13, <1>0, <1>d DEF ReadDone, Phase
  <2>14. CASE Post
    BY <2>14, <1>0 DEF Post, Phase
  <2>15. CASE MemoryAcked
    BY <2>15, <1>0, <1>d DEF MemoryAcked, Phase
  <2>16. CASE MemoryNotAcked
    BY <2>16, <1>0 DEF MemoryNotAcked, Phase
  <2>17. CASE WriteBack
    BY <2>17, <1>0 DEF WriteBack, Phase
  <2>18. CASE WriteBackDone
    BY <2>18, <1>0, <1>d DEF WriteBackDone, Phase
  <2>19. CASE DiskAcked
    BY <2>19, <1>0 DEF DiskAcked, Phase
  <2>20. CASE DiskNotAcked
    BY <2>20, <1>0 DEF DiskNotAcked, Phase
  <2>21. CASE RemoveFile
    BY <2>21, <1>0 DEF RemoveFile, Phase
  <2>22. CASE BumpFile
    <3>1. PICK f \in batch :
              /\ batch' = batch \ {f}
              /\ \/ dir' = (dir \ {f}) \cup {[f EXCEPT !.tries = @ + 1]}
                 \/ dir' = dir
      BY <2>22 DEF BumpFile
    <3>2. batch' \subseteq dir' /\ todo = {}
      BY <2>22, <3>1, <1>0 DEF BumpFile, Phase
    <3>3. QED BY <2>22, <3>1, <3>2, <1>0 DEF BumpFile, Phase
  <2>23. CASE BatchDone
    BY <2>23, <1>0, <1>d DEF BatchDone, Phase
  <2>24. QED
    BY <1>5, <2>1, <2>2, <2>3, <2>4, <2>5, <2>6, <2>7, <2>8, <2>9, <2>10, <2>11, <2>12, <2>13,
       <2>14, <2>15, <2>16, <2>17, <2>18, <2>19, <2>20, <2>21, <2>22, <2>23 DEF Run
<1>6. CASE \E r \in Reports : Ripen(r)
  BY <1>6, <1>0 DEF Ripen, Phase
<1>7. CASE Shutdown
  BY <1>7, <1>0 DEF Shutdown, Phase
<1>8. CASE Exit \/ Crash \/ PowerLoss
  <2>1. Reboot
    BY <1>8 DEF Exit, Crash, PowerLoss
  <2>2. QED BY <2>1 DEF Reboot, Phase
<1>9. QED
  BY <1>1, <1>2, <1>3, <1>4, <1>5, <1>6, <1>7, <1>8 DEF Next

(* The steps that move a report from one place to another; all others leave
   memory, the batch in flight, the producer's hand and the directories alone. *)
Quiet == UNCHANGED <<produced, mem, flight, hand, dir, failed>>

Move ==
    \/ AcceptDirect \/ AcceptToMemory \/ SpillHead \/ CommitWrite \/ FailWrite
    \/ TakeMemory \/ ParkExhausted \/ MemoryAcked \/ WriteBack \/ RemoveFile \/ BumpFile
    \/ Exit \/ Crash \/ PowerLoss

(* Nothing else moves a report. *)
LEMMA MoveOrQuiet == [Next]_vars => Quiet \/ Move
<1> SUFFICES ASSUME [Next]_vars, ~Move PROVE Quiet
  OBVIOUS
<1> USE DEF producerVars, sharedVars, flusherVars, diskVars, envVars, historyVars
<1>1. CASE UNCHANGED vars
  BY <1>1 DEF vars, Quiet
<1>2. CASE UnlockMu \/ SignalFlush \/ Tick \/ WakeUp \/ Stop \/ AbortFlush \/ MemoryEmpty \/ ListSpool
  BY <1>2 DEF Quiet, UnlockMu, SignalFlush, Tick, WakeUp, Stop, AbortFlush, MemoryEmpty, ListSpool
<1>3. CASE SkipFile \/ TakeFile \/ EndScan \/ ReadFile \/ ReadDone \/ Post
  BY <1>3 DEF Quiet, SkipFile, TakeFile, EndScan, ReadFile, ReadDone, Post
<1>4. CASE MemoryNotAcked \/ WriteBackDone \/ DiskAcked \/ DiskNotAcked \/ BatchDone
  BY <1>4 DEF Quiet, MemoryNotAcked, WriteBackDone, DiskAcked, DiskNotAcked, BatchDone
<1>5. CASE Shutdown \/ \E r \in Reports : Ripen(r)
  BY <1>5 DEF Quiet, Shutdown, Ripen
<1>6. QED
  BY <1>1, <1>2, <1>3, <1>4, <1>5 DEF Next, Enqueue, Run, Move

(* Items numbered upwards from L + 1 are distinct and above L. *)
LEMMA Numbered ==
    ASSUME NEW m \in Seq(Reports), NEW L \in Int,
           \A i \in 1..Len(m) : m[i] = L + i
    PROVE  IsInjective(m) /\ \A r \in Range(m) : r > L
<1>1. DOMAIN m = 1..Len(m) /\ Len(m) \in Nat
  OBVIOUS
<1>2. IsInjective(m)
  BY <1>1 DEF IsInjective
<1>3. \A r \in Range(m) : r > L
  BY <1>1 DEF Range
<1>4. QED BY <1>2, <1>3

(* Reports are numbers. *)
LEMMA ReportNumbers == \A r \in Reports : r \in Nat /\ r \in Int
BY BoundsAssumption DEF Reports

(* Where Left is, and that a move keeps Fifo. *)
LEMMA FifoStep == IInv /\ TypeOK' /\ Move => Fifo'
<1> SUFFICES ASSUME IInv, TypeOK', Move PROVE Fifo'
  OBVIOUS
<1>0. TypeOK /\ Phase /\ Fifo
  BY DEF IInv
<1>a. /\ produced \in Nat /\ Len(mem) \in Nat /\ Left \in Int
      /\ mem \in Seq(Reports) /\ flight \in Seq(Reports) /\ Reports \subseteq Nat
  BY <1>0, BoundsAssumption DEF TypeOK, Left, Reports
<1>b. \A f \in hand \cup dir \cup failed : f.rep \in Int /\ f.rep <= Left
  <2>1. \A f \in File : f.rep \in Int
    <3>1. \A f \in File : f.rep \in Reports
      BY DEF File
    <3>2. QED BY <3>1, ReportNumbers
  <2>2. hand \cup dir \cup failed \subseteq File
    BY <1>0 DEF TypeOK
  <2>3. QED BY <2>1, <2>2, <1>0 DEF Fifo
<1>c. \A i \in 1..Len(flight) : flight[i] \in Int /\ flight[i] <= Left
  <2>1. \A i \in 1..Len(flight) : flight[i] \in Reports
    BY <1>0 DEF TypeOK
  <2>2. QED BY <2>1, ReportNumbers, <1>0 DEF Fifo
<1>d. ASSUME NEW k \in Nat, NEW x \in Int, x <= Left PROVE x <= Left + k
  BY <1>a, <1>d
<1> USE DEF producerVars, sharedVars, flusherVars, diskVars, envVars, historyVars
<1>1. CASE AcceptDirect
  <2>1. mem = <<>> /\ flight = <<>> /\ mem' = <<>> /\ flight' = <<>>
    BY <1>1, <1>0, NewQueueAssumption DEF AcceptDirect, Phase
  <2>2. Left = produced /\ Left' = produced + 1
    BY <1>1, <1>a, <2>1 DEF AcceptDirect, Left
  <2>3. /\ hand' = {NewFile(produced + 1)} /\ NewFile(produced + 1).rep = produced + 1
        /\ dir' = dir /\ failed' = failed
    BY <1>1 DEF AcceptDirect, NewFile
  <2>4. \A f \in dir \cup failed : f.rep <= produced + 1
    BY <1>b, <1>d, <2>2
  <2>5. QED BY <2>1, <2>2, <2>3, <2>4, <1>a DEF Fifo
<1>2. CASE AcceptToMemory
  <2>1. produced + 1 \in Reports /\ mem' = Append(mem, produced + 1) /\ flight' = flight
    BY <1>2, <1>0, BoundsAssumption DEF AcceptToMemory, TypeOK, Reports
  <2>2. Len(mem') = Len(mem) + 1 /\ Left' = Left
    BY <1>2, <1>a, <2>1 DEF AcceptToMemory, Left
  <2>3. ASSUME NEW i \in 1..Len(mem') PROVE mem'[i] = Left + i
    <3>1. CASE i <= Len(mem)
      BY <3>1, <2>1, <2>2, <1>0, <1>a DEF Fifo
    <3>2. CASE i = Len(mem) + 1
      BY <3>2, <2>1, <1>a DEF Left
    <3>3. QED BY <3>1, <3>2, <2>2, <1>a
  <2>4. QED BY <1>2, <2>1, <2>2, <2>3, <1>0 DEF AcceptToMemory, Fifo
<1>3. CASE SpillHead
  <2>1. mem # <<>> /\ mem' = Tail(mem) /\ flight' = flight /\ dir' = dir /\ failed' = failed
    BY <1>3 DEF SpillHead
  <2>2. /\ Len(mem') = Len(mem) - 1 /\ Len(mem) >= 1 /\ Head(mem) = mem[1]
        /\ \A i \in 1..Len(mem') : mem'[i] = mem[i + 1]
    BY <2>1, <1>a, RangeTail
  <2>3. Left' = Left + 1 /\ Head(mem) = Left + 1
    <3>1. mem[1] = Left + 1
      BY <1>0, <1>a, <2>2 DEF Fifo
    <3>2. QED BY <1>3, <1>a, <2>2, <3>1 DEF SpillHead, Left
  <2>4. \A i \in 1..Len(mem') : mem'[i] = Left' + i
    <3>1. \A i \in 1..Len(mem') : i + 1 \in 1..Len(mem) /\ Left + (i + 1) = (Left + 1) + i
      BY <2>2, <1>a
    <3>2. QED BY <3>1, <2>2, <2>3, <1>0 DEF Fifo
  <2>5. \A i \in 1..Len(flight) : flight[i] <= Left + 1
    BY <1>c, <1>d
  <2>6. \A f \in dir \cup failed : f.rep <= Left + 1
    BY <1>b, <1>d
  <2>7. hand' = {NewFile(Head(mem))} /\ NewFile(Head(mem)).rep = Head(mem)
    BY <1>3 DEF SpillHead, NewFile
  <2>8. QED BY <2>1, <2>3, <2>4, <2>5, <2>6, <2>7, <1>a DEF Fifo
<1>4. CASE CommitWrite \/ FailWrite
  BY <1>4, <1>0 DEF CommitWrite, FailWrite, Fifo, Left
<1>5. CASE TakeMemory
  <2>1. PICK n \in 1..Len(mem) : /\ flight' = SubSeq(mem, 1, n)
                                 /\ mem' = SubSeq(mem, n + 1, Len(mem))
    BY <1>5 DEF TakeMemory
  <2>2. /\ Len(flight') = n /\ Len(mem') = Len(mem) - n /\ n \in Nat
        /\ \A i \in 1..n : flight'[i] = mem[i]
        /\ \A i \in 1..(Len(mem) - n) : mem'[i] = mem[n + i]
    BY <2>1, <1>a, RangeCut
  <2>3. Left' = Left + n
    <3>1. produced' = produced
      BY <1>5 DEF TakeMemory
    <3>2. produced - (Len(mem) - n) = (produced - Len(mem)) + n
      BY <2>2, <1>a
    <3>3. QED BY <3>1, <3>2, <2>2 DEF Left
  <2>4. \A i \in 1..Len(mem') : mem'[i] = Left' + i
    <3>1. \A i \in 1..(Len(mem) - n) : n + i \in 1..Len(mem)
      BY <1>a, CutPositions
    <3>2. \A i \in 1..(Len(mem) - n) : mem[n + i] = Left + (n + i)
      BY <3>1, <1>0 DEF Fifo
    <3>3. \A i \in Nat : Left + (n + i) = (Left + n) + i
      BY <1>a, <2>2
    <3>4. QED BY <3>2, <3>3, <2>2, <2>3
  <2>5. \A i \in 1..Len(flight') : flight'[i] <= Left'
    <3>1. \A i \in 1..n : i \in 1..Len(mem) /\ i <= n
      BY <1>a
    <3>2. \A i \in 1..n : mem[i] = Left + i
      BY <3>1, <1>0 DEF Fifo
    <3>3. \A i \in 1..n : Left + i <= Left + n
      BY <1>a, <2>2
    <3>4. QED BY <3>2, <3>3, <2>2, <2>3
  <2>6. \A f \in hand \cup dir \cup failed : f.rep <= Left + n
    BY <1>b, <1>d, <2>2
  <2>7. hand' = hand /\ dir' = dir /\ failed' = failed
    BY <1>5 DEF TakeMemory
  <2>8. QED BY <2>3, <2>4, <2>5, <2>6, <2>7 DEF Fifo
<1>6. CASE ParkExhausted
  BY <1>6, <1>0 DEF ParkExhausted, Phase, Fifo, Left
<1>7. CASE MemoryAcked
  BY <1>7, <1>0 DEF MemoryAcked, Fifo, Left
<1>8. CASE WriteBack
  <2>1. /\ flight' = Tail(flight) /\ mem' = mem /\ produced' = produced /\ Left' = Left
        /\ hand' = hand /\ failed' = failed
        /\ dir' \subseteq dir \cup {NewFile(Head(flight))}
        /\ NewFile(Head(flight)).rep = Head(flight)
    BY <1>8 DEF WriteBack, Left, NewFile
  <2>2. /\ Head(flight) = flight[1] /\ Len(flight) >= 1
        /\ Len(flight') = Len(flight) - 1
        /\ \A i \in 1..Len(flight') : flight'[i] = flight[i + 1]
    BY <1>8, <2>1, <1>a, RangeTail DEF WriteBack
  <2>3. Head(flight) <= Left
    BY <2>2, <1>a, <1>0 DEF Fifo
  <2>4. \A i \in 1..Len(flight') : flight'[i] <= Left
    <3>1. \A i \in 1..Len(flight') : i + 1 \in 1..Len(flight)
      BY <2>2, <1>a
    <3>2. QED BY <3>1, <2>2, <1>0 DEF Fifo
  <2>5. QED BY <2>1, <2>3, <2>4, <1>0 DEF Fifo
<1>9. CASE RemoveFile
  <2>1. dir' \subseteq dir
    BY <1>9 DEF RemoveFile
  <2>2. QED BY <1>9, <2>1, <1>0 DEF RemoveFile, Fifo, Left
<1>10. CASE BumpFile
  <2>1. PICK f \in batch : \/ dir' = (dir \ {f}) \cup {[f EXCEPT !.tries = @ + 1]}
                           \/ dir' = dir
    BY <1>10 DEF BumpFile
  <2>2. f \in dir /\ [f EXCEPT !.tries = @ + 1].rep = f.rep
    BY <1>0 DEF Phase, TypeOK, File
  <2>3. \A g \in dir' : g.rep <= Left
    BY <2>1, <2>2, <1>0 DEF Fifo
  <2>4. QED BY <1>10, <2>3, <1>0 DEF BumpFile, Fifo, Left
<1>11. CASE Reboot
  <2>1. mem' = <<>> /\ flight' = <<>> /\ hand' = {} /\ dir' = dir /\ failed' = failed
    BY <1>11 DEF Reboot
  <2>2. Left' = produced /\ Left <= produced
    BY <1>11, <1>a DEF Reboot, Left
  <2>3. \A f \in dir \cup failed : f.rep <= produced
    BY <1>a, <1>b, <2>2
  <2>4. QED BY <2>1, <2>2, <2>3 DEF Fifo
<1>12. QED
  BY <1>1, <1>2, <1>3, <1>4, <1>5, <1>6, <1>7, <1>8, <1>9, <1>10, <1>11 DEF Move, Exit, Crash, PowerLoss

(* The part of SingleCustody that Fifo does not give: the batch in flight, the
   producer's hand and the two directories hold different reports. *)
Apart ==
    /\ IsInjective(flight)
    /\ OneFileEach(hand) /\ OneFileEach(dir) /\ OneFileEach(failed)
    /\ Disjoint(Range(flight), RepsOf(hand) \cup Spooled \cup Parked)
    /\ Disjoint(RepsOf(hand), Spooled \cup Parked)
    /\ Disjoint(Spooled, Parked)

(* A move keeps them apart. *)
LEMMA ApartStep == IInv /\ Move => Apart'
<1> SUFFICES ASSUME IInv, Move PROVE Apart'
  OBVIOUS
<1>0. TypeOK /\ Phase /\ Fifo /\ Apart
  BY DEF IInv, SingleCustody, Apart, Disjoint
<1>a. /\ produced \in Nat /\ Len(mem) \in Nat /\ Left \in Int
      /\ mem \in Seq(Reports) /\ flight \in Seq(Reports)
  BY <1>0, BoundsAssumption DEF TypeOK, Left
<1>b. \A r \in RepsOf(hand) \cup Spooled \cup Parked : r \in Int /\ r <= Left
  <2>1. \A f \in hand \cup dir \cup failed : f.rep \in Reports
    BY <1>0 DEF TypeOK, File
  <2>2. QED BY <2>1, ReportNumbers, <1>0 DEF Fifo, RepsOf, Spooled, Parked
<1>c. \A r \in Range(flight) : r \in Int /\ r <= Left
  <2>1. DOMAIN flight = 1..Len(flight) /\ \A i \in 1..Len(flight) : flight[i] \in Reports
    BY <1>a
  <2>2. QED BY <2>1, ReportNumbers, <1>0 DEF Fifo, Range
<1> USE DEF producerVars, sharedVars, flusherVars, diskVars, envVars, historyVars
<1>1. CASE AcceptDirect
  <2>1. flight = <<>> /\ flight' = flight /\ mem = <<>> /\ Left = produced
    BY <1>1, <1>0, <1>a, NewQueueAssumption DEF AcceptDirect, Phase, Left
  <2>2. hand' = {NewFile(produced + 1)} /\ dir' = dir /\ failed' = failed
    BY <1>1 DEF AcceptDirect
  <2>3. RepsOf(hand') = {produced + 1} /\ Range(flight') = {}
    BY <2>1, <2>2 DEF RepsOf, NewFile, Range
  <2>4. produced + 1 \notin Spooled \cup Parked
    BY <1>a, <1>b, <2>1
  <2>5. QED BY <2>1, <2>2, <2>3, <2>4, <1>0 DEF Apart, OneFileEach, Disjoint, Spooled, Parked
<1>2. CASE AcceptToMemory
  BY <1>2, <1>0 DEF AcceptToMemory, Apart, Spooled, Parked
<1>3. CASE SpillHead
  <2>1. Head(mem) = Left + 1
    <3>1. Head(mem) = mem[1] /\ 1 \in 1..Len(mem)
      BY <1>3, <1>a, RangeTail DEF SpillHead
    <3>2. QED BY <3>1, <1>0 DEF Fifo
  <2>2. /\ hand' = {NewFile(Head(mem))} /\ dir' = dir /\ failed' = failed /\ flight' = flight
    BY <1>3 DEF SpillHead
  <2>3. RepsOf(hand') = {Left + 1}
    BY <2>1, <2>2 DEF RepsOf, NewFile
  <2>4. Left + 1 \notin Range(flight) \cup Spooled \cup Parked
    <3>1. Left \in Int /\ ~(Left + 1 <= Left)
      BY <1>a
    <3>2. Left + 1 \in Range(flight) => Left + 1 <= Left
      BY <1>c
    <3>3. Left + 1 \in Spooled \cup Parked => Left + 1 <= Left
      BY <1>b
    <3>4. QED BY <3>1, <3>2, <3>3
  <2>5. OneFileEach(hand')
    BY <2>2 DEF OneFileEach
  <2>6. dir' = dir /\ failed' = failed /\ flight' = flight
    BY <2>2
  <2>7. Spooled' = Spooled /\ Parked' = Parked
    BY <2>6 DEF Spooled, Parked
  <2>8. QED BY <2>3, <2>4, <2>5, <2>6, <2>7, <1>0 DEF Apart, Disjoint
<1>4. CASE CommitWrite
  <2>1. dir' = dir \cup hand /\ hand' = {} /\ failed' = failed /\ flight' = flight
    BY <1>4 DEF CommitWrite
  <2>2. Spooled' = Spooled \cup RepsOf(hand) /\ Parked' = Parked /\ RepsOf(hand') = {}
    BY <2>1 DEF Spooled, Parked, RepsOf
  <2>3. OneFileEach(dir')
    BY <2>1, <1>0 DEF Apart, OneFileEach, Disjoint, Spooled, RepsOf
  <2>4. QED BY <2>1, <2>2, <2>3, <1>0 DEF Apart, OneFileEach, Disjoint
<1>5. CASE FailWrite
  <2>1. hand' = {} /\ dir' = dir /\ failed' = failed /\ flight' = flight
    BY <1>5 DEF FailWrite
  <2>2. QED BY <2>1, <1>0 DEF Apart, OneFileEach, Disjoint, Spooled, Parked, RepsOf
<1>6. CASE TakeMemory
  <2>1. PICK n \in 1..Len(mem) : flight' = SubSeq(mem, 1, n)
    BY <1>6 DEF TakeMemory
  <2>2. /\ flight' \in Seq(Reports) /\ Len(flight') = n
        /\ \A i \in 1..n : flight'[i] = mem[i]
    BY <2>1, <1>a, RangeCut
  <2>3. \A i \in 1..n : flight'[i] = Left + i
    BY <2>2, <1>a, <1>0 DEF Fifo
  <2>4. IsInjective(flight') /\ \A r \in Range(flight') : r > Left
    BY <2>2, <2>3, <1>a, Numbered
  <2>5. hand' = hand /\ dir' = dir /\ failed' = failed
    BY <1>6 DEF TakeMemory
  <2>6. Disjoint(Range(flight'), RepsOf(hand) \cup Spooled \cup Parked)
    BY <2>4, <1>b, <1>a DEF Disjoint
  <2>7. QED BY <2>4, <2>5, <2>6, <1>0 DEF Apart, Spooled, Parked
<1>7. CASE ParkExhausted
  <2>1. PICK f \in todo : \/ dir' = dir \ {f} /\ failed' = failed \cup {f}
                          \/ dir' = dir /\ failed' = failed
    BY <1>7 DEF ParkExhausted
  <2>2. f \in dir /\ hand' = hand /\ flight' = flight
    BY <1>7, <1>0 DEF ParkExhausted, Phase
  <2>3. CASE dir' = dir \ {f} /\ failed' = failed \cup {f}
    <3>1. Parked' = Parked \cup {f.rep} /\ f.rep \in Spooled
      BY <2>2, <2>3 DEF Parked, Spooled, RepsOf
    <3>2. Spooled' = Spooled \ {f.rep}
      BY <2>2, <2>3, <1>0 DEF Apart, OneFileEach, Spooled, RepsOf
    <3>3. OneFileEach(dir') /\ OneFileEach(failed')
      BY <2>2, <2>3, <1>0 DEF Apart, OneFileEach, Disjoint, Spooled, Parked, RepsOf
    <3>4. QED BY <2>2, <3>1, <3>2, <3>3, <1>0 DEF Apart, Disjoint
  <2>4. CASE dir' = dir /\ failed' = failed
    BY <2>2, <2>4, <1>0 DEF Apart, Spooled, Parked
  <2>5. QED BY <2>1, <2>3, <2>4
<1>8. CASE MemoryAcked
  <2>1. flight' = <<>> /\ hand' = hand /\ dir' = dir /\ failed' = failed
    BY <1>8 DEF MemoryAcked
  <2>2. IsInjective(flight') /\ Range(flight') = {}
    BY <2>1 DEF IsInjective, Range
  <2>3. QED BY <2>1, <2>2, <1>0 DEF Apart, Disjoint, Spooled, Parked
<1>9. CASE WriteBack
  <2>1. /\ flight' = Tail(flight) /\ hand' = hand /\ failed' = failed
        /\ dir' = dir \cup {NewFile(Head(flight))} \/ dir' = dir
        /\ NewFile(Head(flight)).rep = Head(flight)
    BY <1>9 DEF WriteBack, NewFile
  <2>2. /\ Head(flight) = flight[1] /\ Len(flight) >= 1 /\ Tail(flight) \in Seq(Reports)
        /\ Len(Tail(flight)) = Len(flight) - 1
        /\ \A i \in 1..Len(Tail(flight)) : Tail(flight)[i] = flight[i + 1]
        /\ Range(flight) = {Head(flight)} \cup Range(Tail(flight))
    BY <1>9, <1>a, RangeTail DEF WriteBack
  <2>3. \A i \in 1..(Len(flight) - 1), j \in 1..(Len(flight) - 1) :
           /\ flight[i + 1] # flight[1]
           /\ flight[i + 1] = flight[j + 1] => i = j
    <3>1. DOMAIN flight = 1..Len(flight)
      BY <1>a
    <3>2. ASSUME NEW i \in 1..(Len(flight) - 1), NEW j \in 1..(Len(flight) - 1)
          PROVE  /\ flight[i + 1] # flight[1]
                 /\ flight[i + 1] = flight[j + 1] => i = j
      <4>1. /\ i + 1 \in 1..Len(flight) /\ j + 1 \in 1..Len(flight) /\ 1 \in 1..Len(flight)
            /\ i + 1 # 1 /\ (i + 1 = j + 1 => i = j)
        BY <1>a, <2>2
      <4>2. QED BY <3>1, <4>1, <1>0 DEF Apart, IsInjective
    <3>3. QED BY <3>2
  <2>4. IsInjective(Tail(flight)) /\ Head(flight) \notin Range(Tail(flight))
    <3>1. DOMAIN Tail(flight) = 1..(Len(flight) - 1)
      BY <2>2
    <3>2. QED BY <2>2, <2>3, <3>1 DEF IsInjective, Range
  <2>5. CASE dir' = dir \cup {NewFile(Head(flight))}
    <3>1. Spooled' = Spooled \cup {Head(flight)} /\ Parked' = Parked
      BY <2>1, <2>5 DEF Spooled, Parked, RepsOf
    <3>2. Head(flight) \notin RepsOf(hand) \cup Spooled \cup Parked
      BY <2>2, <1>0 DEF Apart, Disjoint
    <3>3. OneFileEach(dir')
      BY <2>1, <2>5, <3>2, <1>0 DEF Apart, OneFileEach, Spooled, RepsOf
    <3>4. Range(Tail(flight)) \subseteq Range(flight)
      BY <2>2
    <3>5. QED BY <2>1, <2>4, <3>1, <3>2, <3>3, <3>4, <1>0 DEF Apart, Disjoint
  <2>6. CASE dir' = dir
    <3>1. Spooled' = Spooled /\ Parked' = Parked
      BY <2>1, <2>6 DEF Spooled, Parked
    <3>2. Range(Tail(flight)) \subseteq Range(flight)
      BY <2>2
    <3>3. QED BY <2>1, <2>4, <2>6, <3>1, <3>2, <1>0 DEF Apart, Disjoint
  <2>7. QED BY <2>1, <2>5, <2>6
<1>10. CASE RemoveFile
  <2>1. dir' \subseteq dir /\ hand' = hand /\ failed' = failed /\ flight' = flight
    BY <1>10 DEF RemoveFile
  <2>2. Spooled' \subseteq Spooled /\ Parked' = Parked /\ OneFileEach(dir')
    BY <2>1, <1>0 DEF Apart, OneFileEach, Spooled, Parked, RepsOf
  <2>3. QED BY <2>1, <2>2, <1>0 DEF Apart, Disjoint
<1>11. CASE BumpFile
  <2>a. PICK f \in batch : \/ dir' = (dir \ {f}) \cup {[f EXCEPT !.tries = @ + 1]}
                           \/ dir' = dir
    BY <1>11 DEF BumpFile
  <2>b. PICK g : g = [f EXCEPT !.tries = @ + 1]
    OBVIOUS
  <2>1. dir' = (dir \ {f}) \cup {g} \/ dir' = dir
    BY <2>a, <2>b
  <2>2. /\ f \in dir /\ g.rep = f.rep
        /\ hand' = hand /\ failed' = failed /\ flight' = flight
    BY <1>11, <1>0, <2>b DEF BumpFile, Phase, TypeOK, File
  <2>3. CASE dir' = (dir \ {f}) \cup {g}
    <3>1. Spooled' = Spooled
      BY <2>2, <2>3 DEF Spooled, RepsOf
    <3>2. OneFileEach(dir')
      BY <2>2, <2>3, <1>0 DEF Apart, OneFileEach
    <3>3. QED BY <2>2, <3>1, <3>2, <1>0 DEF Apart, Parked
  <2>4. CASE dir' = dir
    BY <2>2, <2>4, <1>0 DEF Apart, Spooled, Parked
  <2>5. QED BY <2>1, <2>3, <2>4
<1>12. CASE Reboot
  <2>1. flight' = <<>> /\ hand' = {} /\ dir' = dir /\ failed' = failed
    BY <1>12 DEF Reboot
  <2>2. IsInjective(flight') /\ Range(flight') = {} /\ RepsOf(hand') = {}
    BY <2>1 DEF IsInjective, Range, RepsOf
  <2>3. QED BY <2>1, <2>2, <1>0 DEF Apart, OneFileEach, Disjoint, Spooled, Parked
<1>13. QED
  BY <1>1, <1>2, <1>3, <1>4, <1>5, <1>6, <1>7, <1>8, <1>9, <1>10, <1>11, <1>12 DEF Move, Exit, Crash, PowerLoss

(* Types, Fifo and Apart together are SingleCustody. *)
LEMMA Custody == TypeOK /\ Fifo /\ Apart => SingleCustody
<1> SUFFICES ASSUME TypeOK, Fifo, Apart PROVE SingleCustody
  OBVIOUS
<1>1. mem \in Seq(Reports) /\ flight \in Seq(Reports) /\ Left \in Int
  BY BoundsAssumption DEF TypeOK, Left
<1>2. IsInjective(mem) /\ \A r \in Range(mem) : r > Left
  BY <1>1, Numbered DEF Fifo
<1>3. \A r \in Range(flight) : r \in Int /\ r <= Left
  <2>1. DOMAIN flight = 1..Len(flight) /\ \A i \in 1..Len(flight) : flight[i] \in Reports
    BY <1>1
  <2>2. QED BY <2>1, ReportNumbers DEF Fifo, Range
<1>4. \A r \in RepsOf(hand) \cup Spooled \cup Parked : r \in Int /\ r <= Left
  <2>1. \A f \in hand \cup dir \cup failed : f.rep \in Reports
    BY DEF TypeOK, File
  <2>2. QED BY <2>1, ReportNumbers DEF Fifo, RepsOf, Spooled, Parked
<1>5. Disjoint(Range(mem), Range(flight) \cup RepsOf(hand) \cup Spooled \cup Parked)
  BY <1>1, <1>2, <1>3, <1>4 DEF Disjoint
<1>6. QED BY <1>2, <1>5 DEF SingleCustody, Apart, Disjoint

(* The invariant is inductive. *)
LEMMA IInvStep == IInv /\ [Next]_vars => IInv'
<1> SUFFICES ASSUME IInv, [Next]_vars PROVE IInv'
  OBVIOUS
<1>1. TypeOK' /\ Phase'
  BY TypeStep, PhaseStep
<1>2. Fifo' /\ Apart'
  <2>1. CASE Quiet
    <3>1. Fifo /\ Apart
      BY DEF IInv, SingleCustody, Apart, Disjoint
    <3>2. QED BY <2>1, <3>1 DEF Quiet, Fifo, Left, Apart, Spooled, Parked
  <2>2. CASE Move
    BY <2>2, <1>1, FifoStep, ApartStep
  <2>3. QED BY <2>1, <2>2, MoveOrQuiet
<1>3. (TypeOK /\ Fifo /\ Apart => SingleCustody)'
  BY Custody, PTL
<1>4. QED BY <1>1, <1>2, <1>3 DEF IInv

(* The invariant holds in every state. *)
THEOREM Invariance == Spec => []IInv
BY InitEstablishes, IInvStep, PTL DEF Spec

(* The types hold in every reachable state; with them the retry count of a
   spool file never exceeds MaxRetries + 1. *)
THEOREM TypeCorrect == Spec => []TypeOK
<1>1. IInv => TypeOK
  BY DEF IInv
<1>2. QED BY <1>1, Invariance, PTL

(* A report is never in two places, for any interleaving of Enqueue and Run and
   any pattern of faults and restarts. *)
THEOREM CustodySafe == Spec => []SingleCustody
<1>1. IInv => SingleCustody
  BY DEF IInv
<1>2. QED BY <1>1, Invariance, PTL

(* The files the flusher is about to look at, read, remove or rename exist. *)
THEOREM ListingValid == Spec => []ListingStaysValid
<1>1. IInv => ListingStaysValid
  BY DEF IInv, Phase, ListingStaysValid
<1>2. QED BY <1>1, Invariance, PTL

-----------------------------------------------------------------------------
(* No silent loss *)

(* An accepted memory batch was received as a whole. *)
Accepted ==
    fpc = "awaitMem" /\ verdict = "accepted" => Range(flight) \subseteq received

(* What was received stays received, what was lost stays lost. *)
LEMMA HistoryGrows == [Next]_vars => received \subseteq received' /\ lost \subseteq lost'
<1> SUFFICES ASSUME [Next]_vars PROVE received \subseteq received' /\ lost \subseteq lost'
  OBVIOUS
<1> USE DEF producerVars, sharedVars, flusherVars, diskVars, envVars, historyVars, Drop
<1>1. CASE UNCHANGED vars
  BY <1>1 DEF vars
<1>2. CASE AcceptDirect \/ AcceptToMemory \/ Shutdown \/ \E r \in Reports : Ripen(r)
  BY <1>2 DEF AcceptDirect, AcceptToMemory, Shutdown, Ripen
<1>3. CASE Enqueue
  BY <1>3 DEF Enqueue, SpillHead, CommitWrite, FailWrite, UnlockMu, SignalFlush
<1>4. CASE Tick \/ WakeUp \/ Stop \/ AbortFlush \/ TakeMemory \/ MemoryEmpty \/ ListSpool
  BY <1>4 DEF Tick, WakeUp, Stop, AbortFlush, TakeMemory, MemoryEmpty, ListSpool
<1>5. CASE ParkExhausted \/ SkipFile \/ TakeFile \/ EndScan \/ ReadFile \/ ReadDone
  BY <1>5 DEF ParkExhausted, SkipFile, TakeFile, EndScan, ReadFile, ReadDone
<1>6. CASE Post \/ MemoryAcked \/ MemoryNotAcked \/ WriteBack \/ WriteBackDone
  BY <1>6 DEF Post, MemoryAcked, MemoryNotAcked, WriteBack, WriteBackDone
<1>7. CASE DiskAcked \/ DiskNotAcked \/ RemoveFile \/ BumpFile \/ BatchDone
  BY <1>7 DEF DiskAcked, DiskNotAcked, RemoveFile, BumpFile, BatchDone
<1>8. CASE Reboot
  BY <1>8 DEF Reboot
<1>9. QED
  BY <1>1, <1>2, <1>3, <1>4, <1>5, <1>6, <1>7, <1>8 DEF Next, Run, Exit, Crash, PowerLoss

(* What was accepted once stays accepted. *)
LEMMA AcceptedStep == Accepted /\ [Next]_vars => Accepted'
<1> SUFFICES ASSUME Accepted, [Next]_vars PROVE Accepted'
  OBVIOUS
<1> USE DEF producerVars, sharedVars, flusherVars, diskVars, envVars, historyVars
<1>d. ASSUME FlushReturns PROVE fpc' # "awaitMem"
  BY <1>d DEF FlushReturns
<1>1. CASE UNCHANGED vars
  BY <1>1 DEF vars, Accepted
<1>2. CASE AcceptDirect \/ AcceptToMemory \/ Shutdown \/ \E r \in Reports : Ripen(r)
  BY <1>2 DEF AcceptDirect, AcceptToMemory, Shutdown, Ripen, Accepted
<1>3. CASE Enqueue
  BY <1>3 DEF Enqueue, SpillHead, CommitWrite, FailWrite, UnlockMu, SignalFlush, Accepted
<1>4. CASE Tick \/ WakeUp \/ Stop \/ AbortFlush \/ TakeMemory \/ MemoryEmpty \/ ListSpool
  BY <1>4, <1>d DEF Tick, WakeUp, Stop, AbortFlush, TakeMemory, MemoryEmpty, ListSpool, Accepted
<1>5. CASE ParkExhausted \/ SkipFile \/ TakeFile \/ EndScan \/ ReadFile \/ ReadDone
  BY <1>5, <1>d DEF ParkExhausted, SkipFile, TakeFile, EndScan, ReadFile, ReadDone, Scanning, Accepted
<1>6. CASE Post
  BY <1>6 DEF Post, Payload, Accepted
<1>7. CASE MemoryAcked \/ MemoryNotAcked \/ WriteBack \/ WriteBackDone
  BY <1>7, <1>d DEF MemoryAcked, MemoryNotAcked, WriteBack, WriteBackDone, Accepted
<1>8. CASE DiskAcked \/ DiskNotAcked \/ RemoveFile \/ BumpFile \/ BatchDone
  BY <1>8, <1>d DEF DiskAcked, DiskNotAcked, RemoveFile, BumpFile, BatchDone, Accepted
<1>9. CASE Reboot
  BY <1>9 DEF Reboot, Accepted
<1>10. QED
  BY <1>1, <1>2, <1>3, <1>4, <1>5, <1>6, <1>7, <1>8, <1>9 DEF Next, Run, Exit, Crash, PowerLoss

(* Whatever a move takes from one place is in another, received or lost. *)
LEMMA AccountStep == IInv /\ Accepted /\ NoSilentLoss /\ [Next]_vars => NoSilentLoss'
<1> SUFFICES ASSUME IInv, Accepted, NoSilentLoss, [Next]_vars PROVE NoSilentLoss'
  OBVIOUS
<1>0. TypeOK /\ Phase
  BY DEF IInv
<1>a. received \subseteq received' /\ lost \subseteq lost'
  BY HistoryGrows
<1>b. mem \in Seq(Reports) /\ flight \in Seq(Reports) /\ produced \in Nat
  BY <1>0, BoundsAssumption DEF TypeOK
<1>c. SUFFICES ASSUME produced' = produced \/ (produced' = produced + 1 /\ produced + 1 \in Held'),
                      Held \cup Parked \subseteq Held' \cup Parked' \cup received' \cup lost'
               PROVE  NoSilentLoss'
  <2>1. CASE Quiet
    <3>1. Held' = Held /\ Parked' = Parked
      BY <2>1 DEF Quiet, Held, Parked, Volatile, Spooled
    <3>2. QED BY <2>1, <3>1, <1>c DEF Quiet
  <2>2. SUFFICES ASSUME Move
                 PROVE  /\ produced' = produced \/ (produced' = produced + 1 /\ produced + 1 \in Held')
                        /\ Held \cup Parked \subseteq Held' \cup Parked' \cup received' \cup lost'
    BY <1>c, <2>1, MoveOrQuiet
  <2> USE DEF producerVars, sharedVars, flusherVars, diskVars, envVars, historyVars
  <2> USE DEF Held, Volatile, Spooled, Parked, RepsOf
  <2>3. CASE AcceptDirect
    <3>1. /\ hand = {} /\ hand' = {NewFile(produced + 1)} /\ mem' = mem /\ flight' = flight
          /\ dir' = dir /\ failed' = failed /\ produced' = produced + 1
      BY <2>3, <1>0 DEF AcceptDirect, Phase
    <3>2. NewFile(produced + 1).rep = produced + 1
      BY DEF NewFile
    <3>3. QED BY <3>1, <3>2
  <2>4. CASE AcceptToMemory
    <3>1. produced + 1 \in Reports
      BY <2>4, <1>0, BoundsAssumption DEF AcceptToMemory, TypeOK, Reports
    <3>2. /\ mem' = Append(mem, produced + 1) /\ hand' = hand /\ flight' = flight
          /\ dir' = dir /\ failed' = failed /\ produced' = produced + 1
      BY <2>4 DEF AcceptToMemory
    <3>3. Range(mem') = Range(mem) \cup {produced + 1}
      BY <3>1, <3>2, <1>b, RangeAppend
    <3>4. QED BY <3>2, <3>3
  <2>5. CASE SpillHead
    <3>1. /\ hand = {} /\ hand' = {NewFile(Head(mem))} /\ mem' = Tail(mem) /\ flight' = flight
          /\ dir' = dir /\ failed' = failed /\ produced' = produced /\ mem # <<>>
      BY <2>5, <1>0 DEF SpillHead, Phase
    <3>2. NewFile(Head(mem)).rep = Head(mem)
      BY DEF NewFile
    <3>3. Range(mem) = {Head(mem)} \cup Range(mem')
      BY <3>1, <1>b, RangeTail
    <3>4. QED BY <3>1, <3>2, <3>3
  <2>6. CASE CommitWrite
    BY <2>6 DEF CommitWrite
  <2>7. CASE FailWrite
    BY <2>7 DEF FailWrite, Drop
  <2>8. CASE TakeMemory
    <3>1. PICK n \in 1..Len(mem) : /\ flight' = SubSeq(mem, 1, n)
                                   /\ mem' = SubSeq(mem, n + 1, Len(mem))
      BY <2>8 DEF TakeMemory
    <3>2. Range(mem) = Range(flight') \cup Range(mem')
      BY <3>1, <1>b, RangeCut
    <3>3. Range(flight) = {}
      BY <2>8, <1>0 DEF TakeMemory, Phase, Range
    <3>4. QED BY <2>8, <3>2, <3>3 DEF TakeMemory
  <2>9. CASE ParkExhausted
    BY <2>9 DEF ParkExhausted
  <2>10. CASE MemoryAcked
    <3>1. Range(flight) \subseteq received
      BY <2>10 DEF MemoryAcked, Accepted
    <3>2. QED BY <2>10, <3>1, <1>a DEF MemoryAcked
  <2>11. CASE WriteBack
    <3>1. Range(flight) = {Head(flight)} \cup Range(flight')
      BY <2>11, <1>b, RangeTail DEF WriteBack
    <3>2. NewFile(Head(flight)).rep = Head(flight)
      BY DEF NewFile
    <3>3. Head(flight) \in Spooled' \cup received' \cup lost'
      BY <2>11, <3>2, <1>a DEF WriteBack, Drop
    <3>4. dir \subseteq dir'
      BY <2>11 DEF WriteBack
    <3>5. QED BY <2>11, <3>1, <3>3, <3>4 DEF WriteBack
  <2>12. CASE RemoveFile
    BY <2>12 DEF RemoveFile, Drop
  <2>13. CASE BumpFile
    <3>1. PICK f \in batch : \/ dir' = (dir \ {f}) \cup {[f EXCEPT !.tries = @ + 1]}
                             \/ dir' = dir
      BY <2>13 DEF BumpFile
    <3>2. PICK g : g = [f EXCEPT !.tries = @ + 1]
      OBVIOUS
    <3>3. g.rep = f.rep
      BY <3>2, <1>0 DEF TypeOK, File
    <3>4. Spooled \subseteq Spooled'
      BY <3>1, <3>2, <3>3
    <3>5. QED BY <2>13, <3>4 DEF BumpFile
  <2>14. CASE Reboot
    BY <2>14 DEF Reboot, Drop
  <2>15. QED
    BY <2>2, <2>3, <2>4, <2>5, <2>6, <2>7, <2>8, <2>9, <2>10, <2>11, <2>12, <2>13, <2>14 DEF Move, Exit, Crash, PowerLoss
<1>1. 1..produced' \subseteq 1..produced \cup {produced'}
  BY <1>b, <1>c
<1>2. CASE produced' = produced
  BY <1>2, <1>a, <1>c DEF NoSilentLoss
<1>3. CASE produced' = produced + 1 /\ produced + 1 \in Held'
  BY <1>1, <1>3, <1>a, <1>c DEF NoSilentLoss
<1>4. QED BY <1>2, <1>3, <1>c

(* Every report handed to Enqueue is held, parked, received, or lost in an event
   the model names: a failed write, a removal of an unread file, a restart. *)
THEOREM NothingVanishes == Spec => []NoSilentLoss
<1>1. Init => Accepted /\ NoSilentLoss
  BY DEF Init, Accepted, NoSilentLoss
<1>2. IInv /\ (Accepted /\ NoSilentLoss) /\ [Next]_vars => (Accepted /\ NoSilentLoss)'
  BY AcceptedStep, AccountStep
<1>3. QED BY <1>1, <1>2, Invariance, PTL DEF Spec

-----------------------------------------------------------------------------
(* Bounded attempts *)

(* Faults and restarts are only counted up. *)
LEMMA Counters ==
    IInv /\ [Next]_vars =>
        /\ faults' >= faults /\ restarts' >= restarts
        /\ faults' \in Nat /\ restarts' \in Nat
<1> SUFFICES ASSUME IInv, [Next]_vars
             PROVE  /\ faults' >= faults /\ restarts' >= restarts
                    /\ faults' \in Nat /\ restarts' \in Nat
  OBVIOUS
<1>0. TypeOK /\ TypeOK'
  BY TypeStep DEF IInv
<1>1. /\ faults \in Nat /\ restarts \in Nat /\ faults' \in Nat /\ restarts' \in Nat
  BY <1>0 DEF TypeOK
<1> USE DEF producerVars, sharedVars, flusherVars, diskVars, envVars, historyVars, Fault
<1>2. faults' >= faults /\ restarts' >= restarts
  <2>1. CASE UNCHANGED vars
    BY <2>1, <1>1 DEF vars
  <2>2. CASE AcceptDirect \/ AcceptToMemory \/ Shutdown \/ \E r \in Reports : Ripen(r)
    BY <2>2, <1>1 DEF AcceptDirect, AcceptToMemory, Shutdown, Ripen
  <2>3. CASE Enqueue
    BY <2>3, <1>1 DEF Enqueue, SpillHead, CommitWrite, FailWrite, UnlockMu, SignalFlush
  <2>4. CASE Tick \/ WakeUp \/ Stop \/ AbortFlush \/ TakeMemory \/ MemoryEmpty \/ ListSpool
    BY <2>4, <1>1 DEF Tick, WakeUp, Stop, AbortFlush, TakeMemory, MemoryEmpty, ListSpool
  <2>5. CASE ParkExhausted \/ SkipFile \/ TakeFile \/ EndScan \/ ReadFile \/ ReadDone
    BY <2>5, <1>1 DEF ParkExhausted, SkipFile, TakeFile, EndScan, ReadFile, ReadDone
  <2>6. CASE Post \/ MemoryAcked \/ MemoryNotAcked \/ WriteBack \/ WriteBackDone
    BY <2>6, <1>1 DEF Post, MemoryAcked, MemoryNotAcked, WriteBack, WriteBackDone
  <2>7. CASE DiskAcked \/ DiskNotAcked \/ RemoveFile \/ BumpFile \/ BatchDone
    <3>1. /\ faults' = faults \/ faults' = faults + 1
          /\ restarts' = restarts
      BY <2>7 DEF DiskAcked, DiskNotAcked, RemoveFile, BumpFile, BatchDone
    <3>2. QED BY <3>1, <1>1
  <2>8. CASE Reboot
    BY <2>8, <1>1 DEF Reboot
  <2>9. QED
    BY <2>1, <2>2, <2>3, <2>4, <2>5, <2>6, <2>7, <2>8 DEF Next, Run, Exit, Crash, PowerLoss
<1>3. QED BY <1>1, <1>2

(* Faults and restarts are only counted up, and reports only leave memory. *)
LEMMA Monotone ==
    IInv /\ [Next]_vars => Fuel \in Nat /\ Fuel' \in Nat /\ Fuel <= Fuel' /\ Left <= Left' /\ Left \in Int /\ Left' \in Int
<1> SUFFICES ASSUME IInv, [Next]_vars
             PROVE  Fuel \in Nat /\ Fuel' \in Nat /\ Fuel <= Fuel' /\ Left <= Left' /\ Left \in Int /\ Left' \in Int
  OBVIOUS
<1>0. TypeOK /\ TypeOK'
  BY TypeStep DEF IInv
<1>1. /\ faults \in Nat /\ restarts \in Nat /\ faults' \in Nat /\ restarts' \in Nat
      /\ produced \in Nat /\ produced' \in Nat
      /\ Len(mem) \in Nat /\ Len(mem') \in Nat
  BY <1>0, BoundsAssumption DEF TypeOK
<1> USE DEF producerVars, sharedVars, flusherVars, diskVars, envVars, historyVars, Fault
<1>2. faults' >= faults /\ restarts' >= restarts
  BY Counters
<1>3. Left <= Left'
  <2>1. CASE Quiet
    BY <2>1, <1>1 DEF Quiet, Left
  <2>2. CASE AcceptDirect
    BY <2>2, <1>1 DEF AcceptDirect, Left
  <2>3. CASE AcceptToMemory
    <3>1. Len(mem') = Len(mem) + 1 /\ produced' = produced + 1
      BY <2>3, <1>0 DEF AcceptToMemory, TypeOK
    <3>2. QED BY <3>1, <1>1 DEF Left
  <2>4. CASE SpillHead
    <3>1. Len(mem') = Len(mem) - 1 /\ produced' = produced
      BY <2>4, <1>0, RangeTail DEF SpillHead, TypeOK
    <3>2. QED BY <3>1, <1>1 DEF Left
  <2>5. CASE TakeMemory
    <3>1. PICK n \in 1..Len(mem) : mem' = SubSeq(mem, n + 1, Len(mem))
      BY <2>5 DEF TakeMemory
    <3>2. Len(mem') = Len(mem) - n
      BY <3>1, <1>0, RangeCut DEF TypeOK
    <3>3. produced' = produced
      BY <2>5 DEF TakeMemory
    <3>4. QED BY <3>2, <3>3, <1>1 DEF Left
  <2>6. CASE CommitWrite \/ FailWrite \/ ParkExhausted \/ MemoryAcked \/ WriteBack \/ RemoveFile \/ BumpFile
    BY <2>6, <1>1 DEF CommitWrite, FailWrite, ParkExhausted, MemoryAcked, WriteBack, RemoveFile, BumpFile, Left
  <2>7. CASE Reboot
    BY <2>7, <1>1 DEF Reboot, Left
  <2>8. QED
    BY <2>1, <2>2, <2>3, <2>4, <2>5, <2>6, <2>7, MoveOrQuiet DEF Move, Exit, Crash, PowerLoss
<1>4. Fuel \in Nat /\ Fuel' \in Nat /\ Fuel <= Fuel'
  <2>1. ASSUME NEW a \in Nat, NEW b \in Nat, NEW c \in Nat, NEW d \in Nat, c >= a, d >= b
        PROVE  a + b \in Nat /\ c + d \in Nat /\ a + b <= c + d
    BY <2>1
  <2>2. /\ faults + restarts \in Nat /\ faults' + restarts' \in Nat
        /\ faults + restarts <= faults' + restarts'
    BY <1>1, <1>2, <2>1
  <2>3. QED BY <2>2 DEF Fuel
<1>5. Left \in Int /\ Left' \in Int
  BY <1>1 DEF Left
<1>6. QED BY <1>3, <1>4, <1>5

(* Which steps count a POST, start a memory batch, or end a file's pending state. *)
LEMMA FlusherSteps ==
    IInv /\ [Next]_vars =>
        /\ Post \/ posts' = posts
        /\ TakeMemory \/ (fpc' = "sendMem" => fpc = "sendMem")
        /\ Post \/ RemoveFile \/ BumpFile \/ Reboot \/ \A f : Pending(f) => Pending(f)'
<1> DEFINE Q == /\ Post \/ posts' = posts
                /\ TakeMemory \/ (fpc' = "sendMem" => fpc = "sendMem")
                /\ Post \/ RemoveFile \/ BumpFile \/ Reboot \/ \A f : Pending(f) => Pending(f)'
<1> SUFFICES ASSUME IInv, [Next]_vars PROVE Q
  OBVIOUS
<1> USE DEF producerVars, sharedVars, flusherVars, diskVars, envVars, historyVars
<1>d. ASSUME FlushReturns PROVE fpc' \in {"flush", "select"}
  BY <1>d DEF FlushReturns
<1>1. CASE UNCHANGED vars
  BY <1>1 DEF vars, Pending
<1>2. CASE AcceptDirect \/ AcceptToMemory \/ Shutdown \/ \E r \in Reports : Ripen(r)
  BY <1>2 DEF AcceptDirect, AcceptToMemory, Shutdown, Ripen, Pending
<1>3. CASE Enqueue
  BY <1>3 DEF Enqueue, SpillHead, CommitWrite, FailWrite, UnlockMu, SignalFlush, Pending
<1>4. CASE Tick \/ WakeUp \/ Stop \/ AbortFlush \/ MemoryEmpty \/ ListSpool
  BY <1>4, <1>d DEF Tick, WakeUp, Stop, AbortFlush, MemoryEmpty, ListSpool, Pending
<1>5. CASE TakeMemory
  BY <1>5 DEF TakeMemory, Pending
<1>6. CASE ParkExhausted \/ SkipFile \/ TakeFile \/ EndScan \/ ReadFile \/ ReadDone
  BY <1>6, <1>d DEF ParkExhausted, SkipFile, TakeFile, EndScan, ReadFile, ReadDone, Scanning, Pending
<1>7. CASE Post
  BY <1>7 DEF Post
<1>8. CASE MemoryAcked \/ MemoryNotAcked \/ WriteBack \/ WriteBackDone
  BY <1>8, <1>d DEF MemoryAcked, MemoryNotAcked, WriteBack, WriteBackDone, Pending
<1>9. CASE DiskAcked \/ DiskNotAcked \/ BatchDone
  BY <1>9, <1>d DEF DiskAcked, DiskNotAcked, BatchDone, Pending
<1>10. CASE RemoveFile \/ BumpFile
  BY <1>10 DEF RemoveFile, BumpFile
<1>11. CASE Reboot
  BY <1>11 DEF Reboot
<1>12. QED
  BY <1>1, <1>2, <1>3, <1>4, <1>5, <1>6, <1>7, <1>8, <1>9, <1>10, <1>11
     DEF Next, Run, Exit, Crash, PowerLoss

(* Where the reports of the next state come from: the producer's hand and the
   flusher's batch are fed from memory, a spool file that was not there before
   comes from one of them or is a file bumped once. *)
LEMMA Origins ==
    IInv /\ [Next]_vars =>
        /\ \A f \in hand' : f \in hand \/ (f.rep > Left /\ f.rep \in Reports)
        /\ \/ TakeMemory
           \/ Range(flight') \subseteq Range(flight)
        /\ \/ BumpFile
           \/ \A f \in dir' : f \in dir \cup hand \/ (f.rep \in Range(flight) /\ f.tries = 0 /\ WriteBack)
<1> SUFFICES ASSUME IInv, [Next]_vars
             PROVE  /\ \A f \in hand' : f \in hand \/ (f.rep > Left /\ f.rep \in Reports)
                    /\ \/ TakeMemory
                       \/ Range(flight') \subseteq Range(flight)
                    /\ \/ BumpFile
                       \/ \A f \in dir' : f \in dir \cup hand \/ (f.rep \in Range(flight) /\ f.tries = 0 /\ WriteBack)
  OBVIOUS
<1>0. TypeOK /\ Phase /\ Fifo
  BY DEF IInv
<1>a. /\ produced \in Nat /\ Len(mem) \in Nat
      /\ mem \in Seq(Reports) /\ flight \in Seq(Reports)
  BY <1>0, BoundsAssumption DEF TypeOK
<1> USE DEF producerVars, sharedVars, flusherVars, diskVars, envVars, historyVars
<1>1. CASE Quiet
  BY <1>1 DEF Quiet
<1>2. CASE AcceptDirect
  <2>1. /\ hand' = {NewFile(produced + 1)} /\ NewFile(produced + 1).rep = produced + 1
        /\ flight' = flight /\ dir' = dir
    BY <1>2 DEF AcceptDirect, NewFile
  <2>2. produced + 1 \in Reports
    BY <1>2, <1>a, <1>0, BoundsAssumption DEF AcceptDirect, TypeOK, Reports
  <2>3. produced + 1 > Left
    BY <1>a DEF Left
  <2>4. QED BY <2>1, <2>2, <2>3
<1>3. CASE AcceptToMemory
  BY <1>3 DEF AcceptToMemory
<1>4. CASE SpillHead
  <2>1. /\ hand' = {NewFile(Head(mem))} /\ NewFile(Head(mem)).rep = Head(mem)
        /\ flight' = flight /\ dir' = dir
    BY <1>4 DEF SpillHead, NewFile
  <2>2. Head(mem) = mem[1] /\ 1 \in 1..Len(mem) /\ Head(mem) \in Reports
    BY <1>4, <1>a, RangeTail DEF SpillHead
  <2>3. Head(mem) = Left + 1
    BY <2>2, <1>0 DEF Fifo
  <2>4. Left + 1 > Left
    BY <1>a DEF Left
  <2>5. QED BY <2>1, <2>2, <2>3, <2>4
<1>5. CASE CommitWrite \/ FailWrite
  BY <1>5 DEF CommitWrite, FailWrite
<1>6. CASE TakeMemory
  BY <1>6 DEF TakeMemory
<1>7. CASE ParkExhausted \/ RemoveFile
  BY <1>7 DEF ParkExhausted, RemoveFile
<1>8. CASE MemoryAcked
  BY <1>8 DEF MemoryAcked, Range
<1>9. CASE WriteBack
  <2>1. Range(flight) = {Head(flight)} \cup Range(flight')
    BY <1>9, <1>a, RangeTail DEF WriteBack
  <2>2. NewFile(Head(flight)).rep = Head(flight) /\ NewFile(Head(flight)).tries = 0
    BY DEF NewFile
  <2>3. hand' = hand /\ dir' \subseteq dir \cup {NewFile(Head(flight))}
    BY <1>9 DEF WriteBack
  <2>4. QED BY <1>9, <2>1, <2>2, <2>3
<1>10. CASE BumpFile
  BY <1>10 DEF BumpFile
<1>11. CASE Reboot
  BY <1>11 DEF Reboot, Range
<1>12. QED
  BY <1>1, <1>2, <1>3, <1>4, <1>5, <1>6, <1>7, <1>8, <1>9, <1>10, <1>11, MoveOrQuiet DEF Move, Exit, Crash, PowerLoss

(* Every step keeps the number of POSTs within what the places stand for. *)
LEMMA AttemptsStep == IInv /\ Attempts /\ [Next]_vars => Attempts'
<1> SUFFICES ASSUME IInv, Attempts, [Next]_vars PROVE Attempts'
  OBVIOUS
<1>0. TypeOK /\ Phase /\ Fifo /\ Apart
  BY DEF IInv, SingleCustody, Apart, Disjoint
<1>a. /\ Fuel \in Nat /\ Fuel' \in Nat /\ Fuel <= Fuel'
      /\ Left \in Int /\ Left' \in Int /\ Left <= Left'
  BY Monotone
<1>b. FirstAttempts \in {1, 2} /\ MaxRetries \in Nat /\ (MemoryBuffer > 0 => FirstAttempts = 2)
  BY NewQueueAssumption DEF FirstAttempts
<1>c. \A r \in Reports : posts[r] \in Nat /\ r \in Int
  BY <1>0, ReportNumbers DEF TypeOK
<1>d. \A f \in hand \cup dir : f.rep \in Reports /\ f.tries \in Nat /\ f.rep <= Left
  BY <1>0 DEF TypeOK, File, Fifo
<1>e. /\ DOMAIN flight = 1..Len(flight)
      /\ \A i \in 1..Len(flight) : flight[i] \in Reports /\ flight[i] <= Left
  <2>1. flight \in Seq(Reports)
    BY <1>0 DEF TypeOK
  <2>2. QED BY <2>1, <1>0 DEF Fifo
<1>f. \A r \in Range(flight) : r \in Reports /\ r <= Left /\ posts[r] <= One(fpc # "sendMem")
  BY <1>e DEF Attempts, Range, One
<1>g. \A r \in Reports : posts[r] <= FirstAttempts + MaxRetries + Fuel
  BY DEF Attempts, BoundedAttempts, Fuel
<1>h. ASSUME NEW x \in Nat, NEW fa \in Nat, NEW mr \in Nat, NEW fuel \in Nat, NEW t \in Nat,
             (x <= 1 /\ 1 <= fa) \/ (t <= mr /\ x <= t + (fa - 1) + fuel + 1)
      PROVE  x <= fa + mr + fuel
  BY <1>h
<1>i. ASSUME NEW x \in Nat, NEW t \in Nat, NEW fa \in Nat, NEW fuel \in Nat, NEW o \in {0, 1},
             1 <= fa, x <= fa - 1
      PROVE  x <= t + (fa - 1) + fuel + o
  BY <1>i
<1>1. CASE Post
  <2>0. /\ mem' = mem /\ produced' = produced /\ hand' = hand /\ flight' = flight /\ dir' = dir
        /\ batch' = batch /\ Fuel' = Fuel
        /\ posts' = [r \in Reports |-> IF r \in Payload THEN posts[r] + 1 ELSE posts[r]]
    BY <1>1 DEF Post, producerVars, sharedVars, diskVars, envVars, Fuel
  <2>a. Left' = Left
    BY <2>0 DEF Left
  <2>b. \A r \in Reports : /\ r \in Payload => posts'[r] = posts[r] + 1
                           /\ r \notin Payload => posts'[r] = posts[r]
    BY <2>0
  <2>1. CASE fpc = "sendMem"
    <3>1. Payload = Range(flight) /\ fpc' = "awaitMem"
      BY <1>1, <2>1 DEF Post, Payload
    <3>2. \A r \in Reports : r > Left => posts'[r] = 0
      BY <3>1, <2>b, <1>a, <1>c, <1>f DEF Attempts
    <3>3. \A f \in hand : posts'[f.rep] = 0
      BY <3>1, <2>b, <1>0, <1>d DEF Attempts, Apart, Disjoint, RepsOf
    <3>4. \A i \in 1..Len(flight) : posts'[flight[i]] <= 1
      <4>1. \A i \in 1..Len(flight) : flight[i] \in Range(flight)
        BY <1>e DEF Range
      <4>2. QED BY <4>1, <3>1, <2>b, <2>1, <1>c, <1>f DEF One
    <3>5. \A f \in dir : posts'[f.rep] <= f.tries + (FirstAttempts - 1) + Fuel + One(FALSE)
      <4>1. \A f \in dir : f.rep \notin Range(flight) /\ ~Pending(f)
        BY <1>0, <2>1 DEF Apart, Disjoint, Spooled, RepsOf, Pending
      <4>2. QED BY <4>1, <3>1, <2>b, <1>d DEF Attempts, One
    <3>6. \A f : ~(Pending(f)')
      BY <3>1 DEF Pending
    <3>7. BoundedAttempts'
      <4>1. ASSUME NEW r \in Reports
            PROVE  posts'[r] <= FirstAttempts + MaxRetries + Fuel
        <5>1. CASE r \in Range(flight)
          <6>1. posts'[r] = posts[r] + 1
            BY <5>1, <3>1, <2>b
          <6>2. posts[r] \in Nat /\ posts[r] <= 0
            BY <5>1, <2>1, <1>c, <1>f DEF One
          <6>3. posts'[r] \in Nat /\ posts'[r] <= 1 /\ FirstAttempts \in Nat /\ 1 <= FirstAttempts
            BY <6>1, <6>2, <1>b
          <6>4. QED BY <6>3, <1>a, <1>b, <1>h
        <5>2. CASE r \notin Range(flight)
          BY <5>2, <3>1, <2>b, <1>g
        <5>3. QED BY <5>1, <5>2
      <4>2. QED BY <4>1, <2>0 DEF BoundedAttempts, Fuel
    <3>8. QED BY <2>0, <2>a, <3>1, <3>2, <3>3, <3>4, <3>5, <3>6, <3>7 DEF Attempts, One
  <2>2. CASE fpc = "sendDisk"
    <3>1. /\ Payload = RepsOf(readable) /\ fpc' = "awaitDisk" /\ flight = <<>>
          /\ readable \subseteq batch /\ batch \subseteq dir
      BY <1>1, <2>2, <1>0 DEF Post, Payload, Phase
    <3>2. \A r \in Payload : \E f \in batch : f \in dir /\ f.rep = r /\ f.tries <= MaxRetries
      BY <3>1, <1>0 DEF RepsOf, Phase
    <3>3. \A r \in Reports : r > Left => posts'[r] = 0
      <4>1. \A r \in Reports : r > Left => r \notin Payload
        BY <3>2, <1>a, <1>c, <1>d
      <4>2. QED BY <4>1, <2>b DEF Attempts
    <3>4. \A f \in hand : posts'[f.rep] = 0
      <4>1. \A f \in hand : f.rep \notin Payload
        BY <3>2, <1>0 DEF Apart, Disjoint, Spooled, RepsOf
      <4>2. QED BY <4>1, <2>b, <1>d DEF Attempts
    <3>5. ASSUME NEW f \in dir
          PROVE  posts'[f.rep] <= f.tries + (FirstAttempts - 1) + Fuel + One(Pending(f)')
      <4>1. ~Pending(f) /\ posts[f.rep] <= f.tries + (FirstAttempts - 1) + Fuel
        BY <2>2, <1>a, <1>b, <1>d DEF Attempts, Pending, One
      <4>2. CASE f.rep \in Payload
        <5>1. f \in batch
          BY <3>2, <4>2, <1>0 DEF Apart, OneFileEach
        <5>2. Pending(f)'
          BY <5>1, <2>0, <3>1 DEF Pending
        <5>3. posts'[f.rep] = posts[f.rep] + 1
          BY <4>2, <2>b, <1>d
        <5>4. QED BY <4>1, <5>2, <5>3, <1>a, <1>b, <1>c, <1>d DEF One
      <4>3. CASE f.rep \notin Payload
        <5>1. posts'[f.rep] = posts[f.rep]
          BY <4>3, <2>b, <1>d
        <5>2. QED BY <4>1, <5>1, <1>a, <1>b, <1>c, <1>d DEF One
      <4>4. QED BY <4>2, <4>3
    <3>6. BoundedAttempts'
      <4>1. ASSUME NEW r \in Reports
            PROVE  posts'[r] <= FirstAttempts + MaxRetries + Fuel
        <5>1. CASE r \in Payload
          <6>1. PICK f \in dir : f.rep = r /\ f.tries <= MaxRetries
            BY <3>2, <5>1
          <6>2. posts[r] <= f.tries + (FirstAttempts - 1) + Fuel
            BY <6>1, <2>2, <1>a, <1>b, <1>d DEF Attempts, Pending, One
          <6>3. posts'[r] = posts[r] + 1 /\ f.tries \in Nat
            BY <5>1, <6>1, <2>b, <1>d
          <6>4. posts'[r] \in Nat /\ posts'[r] <= f.tries + (FirstAttempts - 1) + Fuel + 1
            BY <6>2, <6>3, <1>a, <1>b, <1>c
          <6>5. FirstAttempts \in Nat
            BY <1>b
          <6>6. QED BY <6>1, <6>3, <6>4, <6>5, <1>a, <1>b, <1>h
        <5>2. CASE r \notin Payload
          BY <5>2, <2>b, <1>g
        <5>3. QED BY <5>1, <5>2
      <4>2. QED BY <4>1, <2>0 DEF BoundedAttempts, Fuel
    <3>7. QED BY <2>0, <2>a, <3>1, <3>3, <3>4, <3>5, <3>6 DEF Attempts
  <2>3. QED BY <1>1, <2>1, <2>2 DEF Post
<1>2. CASE ~Post
  <2>0. posts' = posts
    BY <1>2, FlusherSteps
  <2>1. \A r \in Reports : r > Left' => posts'[r] = 0
    BY <2>0, <1>a, <1>c DEF Attempts
  <2>2. \A f \in hand' : posts'[f.rep] = 0
    BY <2>0, Origins DEF Attempts
  <2>3. \A i \in 1..Len(flight') : posts'[flight'[i]] <= One(fpc' # "sendMem")
    <3>0. flight' \in Seq(Reports) /\ DOMAIN flight' = 1..Len(flight')
      BY TypeStep DEF TypeOK
    <3>1. CASE TakeMemory
      <4>1. PICK n \in 1..Len(mem) : flight' = SubSeq(mem, 1, n)
        BY <3>1 DEF TakeMemory
      <4>2. mem \in Seq(Reports) /\ Len(mem) \in Nat
        BY <1>0 DEF TypeOK
      <4>3. Len(flight') = n /\ \A i \in 1..n : flight'[i] = mem[i] /\ mem[i] \in Reports
        BY <4>1, <4>2, RangeCut
      <4>4. \A i \in 1..n : mem[i] = Left + i /\ Left + i > Left
        BY <4>2, <1>0, <1>a DEF Fifo
      <4>5. \A i \in 1..Len(flight') : posts'[flight'[i]] = 0
        BY <4>3, <4>4, <2>0 DEF Attempts
      <4>6. QED BY <4>5 DEF One
    <3>2. CASE ~TakeMemory
      <4>1. Range(flight') \subseteq Range(flight) /\ (fpc' = "sendMem" => fpc = "sendMem")
        BY <3>2, FlusherSteps, Origins
      <4>2. \A i \in 1..Len(flight') : flight'[i] \in Range(flight)
        BY <3>0, <4>1 DEF Range
      <4>3. QED BY <4>1, <4>2, <2>0, <1>c, <1>f DEF One
    <3>3. QED BY <3>1, <3>2
  <2>4. \A f \in dir' : posts'[f.rep] <= f.tries + (FirstAttempts - 1) + Fuel' + One(Pending(f)')
    <3>a. ASSUME NEW f \in dir, NEW p \in BOOLEAN, Fuel' >= Fuel + 1 \/ ~Pending(f) \/ p
          PROVE  posts'[f.rep] <= f.tries + (FirstAttempts - 1) + Fuel' + One(p)
      <4>1. posts[f.rep] <= f.tries + (FirstAttempts - 1) + Fuel + One(Pending(f))
        BY DEF Attempts
      <4>2. One(Pending(f)) \in {0, 1} /\ One(p) \in {0, 1} /\ (Pending(f) \/ One(Pending(f)) = 0)
            /\ (p => One(p) = 1)
        BY DEF One
      <4>3. f.tries \in Nat /\ posts[f.rep] \in Nat
        BY <1>c, <1>d
      <4>4. QED BY <3>a, <4>1, <4>2, <4>3, <2>0, <1>a, <1>b
    <3>b. ASSUME NEW x \in Nat, NEW b \in BOOLEAN, x <= FirstAttempts - 1
          PROVE  \A t \in Nat : x <= t + (FirstAttempts - 1) + Fuel' + One(b)
      <4>1. One(b) \in {0, 1} /\ FirstAttempts \in Nat /\ 1 <= FirstAttempts
        BY <1>b DEF One
      <4>2. QED BY <3>b, <4>1, <1>a, <1>i
    <3>1. CASE BumpFile
      <4>1. PICK f \in batch :
              \/ dir' = (dir \ {f}) \cup {[f EXCEPT !.tries = @ + 1]}
                 /\ batch' = batch \ {f} /\ fpc' = fpc /\ faults' = faults
              \/ Fault /\ dir' = dir
        BY <3>1 DEF BumpFile
      <4>2. f \in dir /\ restarts' = restarts /\ f \in File
        BY <3>1, <1>0 DEF BumpFile, Phase, TypeOK
      <4>3. CASE Fault /\ dir' = dir
        <5>1. Fuel' = Fuel + 1
          BY <4>2, <4>3, <1>0 DEF Fault, Fuel, TypeOK
        <5>2. \A g : Pending(g)' \in BOOLEAN
          BY DEF Pending
        <5>3. QED BY <4>3, <5>1, <5>2, <3>a, <1>a
      <4>4. CASE /\ dir' = (dir \ {f}) \cup {[f EXCEPT !.tries = @ + 1]}
                 /\ batch' = batch \ {f} /\ fpc' = fpc
        <5>1. PICK g : g = [f EXCEPT !.tries = @ + 1]
          OBVIOUS
        <5>2. g.rep = f.rep /\ g.tries = f.tries + 1 /\ f.tries \in Nat
          BY <4>2, <5>1 DEF File
        <5>3. posts[f.rep] <= f.tries + (FirstAttempts - 1) + Fuel + 1 /\ posts[f.rep] \in Nat
          <6>1. posts[f.rep] <= f.tries + (FirstAttempts - 1) + Fuel + One(Pending(f))
            BY <4>2 DEF Attempts
          <6>2. posts[f.rep] \in Nat /\ One(Pending(f)) \in {0, 1}
            BY <4>2, <1>c, <1>d DEF One
          <6>3. QED BY <6>1, <6>2, <5>2, <1>a, <1>b
        <5>4. posts'[g.rep] <= g.tries + (FirstAttempts - 1) + Fuel' + One(Pending(g)')
          <6>1. One(Pending(g)') \in {0, 1}
            BY DEF One
          <6>2. QED BY <6>1, <5>2, <5>3, <2>0, <1>a, <1>b
        <5>5. ASSUME NEW h \in dir \ {f}
              PROVE  posts'[h.rep] <= h.tries + (FirstAttempts - 1) + Fuel' + One(Pending(h)')
          <6>1. (Pending(h)') \in BOOLEAN /\ (Pending(h) => Pending(h)')
            BY <4>4 DEF Pending
          <6>2. QED BY <6>1, <3>a
        <5>6. QED BY <4>4, <5>1, <5>4, <5>5
      <4>5. QED BY <4>1, <4>3, <4>4
    <3>2. CASE ~BumpFile
      <4>1. ASSUME NEW f \in dir', f \in hand
            PROVE  posts'[f.rep] <= f.tries + (FirstAttempts - 1) + Fuel' + One(Pending(f)')
        <5>1. posts[f.rep] = 0 /\ f.tries \in Nat
          BY <4>1, <1>d DEF Attempts
        <5>2. (Pending(f)') \in BOOLEAN
          BY DEF Pending
        <5>3. posts[f.rep] \in Nat /\ posts[f.rep] <= FirstAttempts - 1
          BY <5>1, <1>b
        <5>4. QED BY <5>1, <5>2, <5>3, <3>b, <2>0
      <4>2. ASSUME NEW f \in dir', f.rep \in Range(flight), f.tries = 0, WriteBack
            PROVE  posts'[f.rep] <= f.tries + (FirstAttempts - 1) + Fuel' + One(Pending(f)')
        <5>1. posts[f.rep] <= 1 /\ posts[f.rep] \in Nat
          BY <4>2, <1>c, <1>f DEF One
        <5>2. FirstAttempts = 2
          BY <4>2, <1>0, <1>b DEF WriteBack, Phase
        <5>3. (Pending(f)') \in BOOLEAN
          BY DEF Pending
        <5>4. posts[f.rep] <= FirstAttempts - 1 /\ f.tries \in Nat
          BY <4>2, <5>1, <5>2
        <5>5. QED BY <5>1, <5>3, <5>4, <3>b, <2>0
      <4>3. ASSUME NEW f \in dir', f \in dir
            PROVE  posts'[f.rep] <= f.tries + (FirstAttempts - 1) + Fuel' + One(Pending(f)')
        <5>0. (Pending(f)') \in BOOLEAN
          BY DEF Pending
        <5>1. Fuel' >= Fuel + 1 \/ (Pending(f) => Pending(f)')
          <6>1. CASE RemoveFile
            <7>1. PICK g \in batch :
                    /\ batch' = batch \ {g} /\ fpc' = fpc /\ restarts' = restarts
                    /\ dir' = dir \ {g} \/ faults' = faults + 1
              BY <6>1 DEF RemoveFile, Fault
            <7>2. CASE dir' = dir \ {g}
              BY <4>3, <7>1, <7>2 DEF Pending
            <7>3. CASE faults' = faults + 1
              BY <7>1, <7>3, <1>0 DEF Fuel, TypeOK
            <7>4. QED BY <7>1, <7>2, <7>3
          <6>2. CASE Reboot
            BY <6>2, <1>0 DEF Reboot, Fuel, TypeOK
          <6>3. CASE ~RemoveFile /\ ~Reboot
            BY <6>3, <3>2, <1>2, FlusherSteps
          <6>4. QED BY <6>1, <6>2, <6>3
        <5>2. QED BY <4>3, <5>0, <5>1, <3>a
      <4>4. QED BY <4>1, <4>2, <4>3, <3>2, Origins
    <3>3. QED BY <3>1, <3>2
  <2>5. BoundedAttempts'
    <3>1. ASSUME NEW r \in Reports PROVE posts'[r] <= FirstAttempts + MaxRetries + Fuel'
      <4>1. posts[r] <= FirstAttempts + MaxRetries + Fuel
        BY <1>g
      <4>2. QED BY <4>1, <2>0, <1>a, <1>b, <1>c
    <3>2. QED BY <3>1 DEF BoundedAttempts, Fuel
  <2>6. QED BY <2>1, <2>2, <2>3, <2>4, <2>5 DEF Attempts, One
<1>3. QED BY <1>1, <1>2

(* No report is POSTed more often than its first attempts, its retries, the
   faults and the restarts together, whatever the endpoint answers. *)
THEOREM AttemptsBounded == Spec => []BoundedAttempts
<1>1. Init => Attempts
  <2>1. SUFFICES ASSUME Init PROVE Attempts
    OBVIOUS
  <2>2. /\ \A r \in Reports : posts[r] = 0
        /\ faults = 0 /\ restarts = 0 /\ hand = {} /\ dir = {} /\ Len(flight) = 0
    BY <2>1 DEF Init
  <2>3. QED BY <2>2, NewQueueAssumption DEF Attempts, BoundedAttempts, FirstAttempts
<1>2. Attempts => BoundedAttempts
  BY DEF Attempts
<1>3. QED BY <1>1, <1>2, AttemptsStep, Invariance, PTL DEF Spec

-----------------------------------------------------------------------------
(* Acknowledged once *)

(* An acknowledgement is counted in two actions, and a file whose delivery was
   acknowledged keeps waiting for its removal. *)
LEMMA AckSteps ==
    IInv /\ [Next]_vars =>
        /\ MemoryAcked \/ DiskAcked \/ acked' = acked
        /\ RemoveFile \/ Reboot \/ \A f : Removing(f) => Removing(f)'
<1> DEFINE Q == /\ MemoryAcked \/ DiskAcked \/ acked' = acked
                /\ RemoveFile \/ Reboot \/ \A f : Removing(f) => Removing(f)'
<1> SUFFICES ASSUME IInv, [Next]_vars PROVE Q
  OBVIOUS
<1> USE DEF producerVars, sharedVars, flusherVars, diskVars, envVars, historyVars
<1>d. ASSUME FlushReturns PROVE fpc' \in {"flush", "select"}
  BY <1>d DEF FlushReturns
<1>1. CASE UNCHANGED vars
  BY <1>1 DEF vars, Removing
<1>2. CASE AcceptDirect \/ AcceptToMemory \/ Shutdown \/ \E r \in Reports : Ripen(r)
  BY <1>2 DEF AcceptDirect, AcceptToMemory, Shutdown, Ripen, Removing
<1>3. CASE Enqueue
  BY <1>3 DEF Enqueue, SpillHead, CommitWrite, FailWrite, UnlockMu, SignalFlush, Removing
<1>4. CASE Tick \/ WakeUp \/ Stop \/ AbortFlush \/ TakeMemory \/ MemoryEmpty \/ ListSpool
  BY <1>4, <1>d DEF Tick, WakeUp, Stop, AbortFlush, TakeMemory, MemoryEmpty, ListSpool, Removing
<1>5. CASE ParkExhausted \/ SkipFile \/ TakeFile \/ EndScan \/ ReadFile \/ ReadDone
  BY <1>5, <1>d DEF ParkExhausted, SkipFile, TakeFile, EndScan, ReadFile, ReadDone, Scanning, Removing
<1>6. CASE Post
  BY <1>6 DEF Post, Removing
<1>7. CASE MemoryAcked \/ DiskAcked
  BY <1>7, <1>d DEF MemoryAcked, DiskAcked, Removing
<1>8. CASE MemoryNotAcked \/ WriteBack \/ WriteBackDone \/ DiskNotAcked \/ BumpFile \/ BatchDone
  BY <1>8, <1>d DEF MemoryNotAcked, WriteBack, WriteBackDone, DiskNotAcked, BumpFile, BatchDone, Removing
<1>9. CASE RemoveFile
  BY <1>9 DEF RemoveFile
<1>10. CASE Reboot
  BY <1>10 DEF Reboot
<1>11. QED
  BY <1>1, <1>2, <1>3, <1>4, <1>5, <1>6, <1>7, <1>8, <1>9, <1>10
     DEF Next, Run, Exit, Crash, PowerLoss

(* Every step keeps the acknowledgements within what the places stand for. *)
LEMMA AcksStep == IInv /\ Acks /\ [Next]_vars => Acks'
<1> SUFFICES ASSUME IInv, Acks, [Next]_vars PROVE Acks'
  OBVIOUS
<1>0. TypeOK /\ Phase /\ Fifo /\ Apart
  BY DEF IInv, SingleCustody, Apart, Disjoint
<1>a. /\ Fuel \in Nat /\ Fuel' \in Nat /\ Fuel <= Fuel'
      /\ Left \in Int /\ Left' \in Int /\ Left <= Left'
  BY Monotone
<1>c. \A r \in Reports : acked[r] \in Nat /\ r \in Int
  BY <1>0, ReportNumbers DEF TypeOK
<1>d. \A f \in hand \cup dir : f.rep \in Reports /\ f.rep <= Left
  BY <1>0 DEF TypeOK, File, Fifo
<1>e. /\ DOMAIN flight = 1..Len(flight)
      /\ \A i \in 1..Len(flight) : flight[i] \in Reports /\ flight[i] <= Left
  <2>1. flight \in Seq(Reports)
    BY <1>0 DEF TypeOK
  <2>2. QED BY <2>1, <1>0 DEF Fifo
<1>f. \A r \in Range(flight) : r \in Reports /\ r <= Left /\ acked[r] = 0
  BY <1>e DEF Acks, Range
<1>g. \A r \in Reports : acked[r] <= 1 + Fuel
  BY DEF Acks, AckedOnce, Fuel
<1>1. CASE MemoryAcked
  <2>0. /\ mem' = mem /\ produced' = produced /\ hand' = hand /\ flight' = <<>> /\ dir' = dir
        /\ batch' = batch /\ Fuel' = Fuel /\ fpc = "awaitMem" /\ fpc' # "remove"
        /\ acked' = [r \in Reports |-> IF r \in Range(flight) THEN acked[r] + 1 ELSE acked[r]]
    BY <1>1 DEF MemoryAcked, CountAck, FlushReturns, producerVars, sharedVars, diskVars, envVars, Fuel
  <2>a. Left' = Left
    BY <2>0 DEF Left
  <2>b. \A r \in Reports : acked'[r] = IF r \in Range(flight) THEN 1 ELSE acked[r]
    BY <2>0, <1>f
  <2>1. \A r \in Reports : r > Left => acked'[r] = 0
    BY <2>b, <1>a, <1>c, <1>f DEF Acks
  <2>2. \A f \in hand : acked'[f.rep] = 0
    BY <2>b, <1>0, <1>d DEF Acks, Apart, Disjoint, RepsOf
  <2>3. \A f \in dir : acked'[f.rep] <= Fuel + One(FALSE)
    <3>1. \A f \in dir : f.rep \notin Range(flight) /\ ~Removing(f)
      BY <2>0, <1>0 DEF Apart, Disjoint, Spooled, RepsOf, Removing
    <3>2. QED BY <3>1, <2>b, <1>d DEF Acks, One
  <2>4. \A f : ~(Removing(f)')
    BY <2>0 DEF Removing
  <2>5. AckedOnce'
    <3>1. \A r \in Reports : acked'[r] <= 1 + Fuel
      BY <2>b, <1>a, <1>g
    <3>2. QED BY <3>1, <2>0 DEF AckedOnce, Fuel
  <2>6. Len(flight') = 0
    BY <2>0
  <2>7. QED BY <2>0, <2>a, <2>1, <2>2, <2>3, <2>4, <2>5, <2>6 DEF Acks, One
<1>2. CASE DiskAcked
  <2>0. /\ mem' = mem /\ produced' = produced /\ hand' = hand /\ flight' = flight /\ dir' = dir
        /\ batch' = batch /\ Fuel' = Fuel /\ fpc = "awaitDisk" /\ fpc' = "remove"
        /\ acked' = [r \in Reports |-> IF r \in RepsOf(readable) THEN acked[r] + 1 ELSE acked[r]]
    BY <1>2 DEF DiskAcked, CountAck, producerVars, sharedVars, diskVars, envVars, Fuel
  <2>a. Left' = Left /\ flight = <<>> /\ readable \subseteq batch /\ batch \subseteq dir
    BY <2>0, <1>0 DEF Left, Phase
  <2>b. \A r \in Reports : /\ r \in RepsOf(readable) => acked'[r] = acked[r] + 1
                           /\ r \notin RepsOf(readable) => acked'[r] = acked[r]
    BY <2>0
  <2>c. \A r \in RepsOf(readable) : \E f \in batch : f \in dir /\ f.rep = r
    BY <2>a DEF RepsOf
  <2>d. \A f \in dir : acked[f.rep] <= Fuel
    <3>1. \A f \in dir : ~Removing(f)
      BY <2>0 DEF Removing
    <3>2. QED BY <3>1, <1>a DEF Acks, One
  <2>1. \A r \in Reports : r > Left => acked'[r] = 0
    <3>1. \A r \in Reports : r > Left => r \notin RepsOf(readable)
      BY <2>c, <1>a, <1>c, <1>d
    <3>2. QED BY <3>1, <2>b DEF Acks
  <2>2. \A f \in hand : acked'[f.rep] = 0
    <3>1. \A f \in hand : f.rep \notin RepsOf(readable)
      BY <2>c, <1>0 DEF Apart, Disjoint, Spooled, RepsOf
    <3>2. QED BY <3>1, <2>b, <1>d DEF Acks
  <2>3. ASSUME NEW f \in dir
        PROVE  acked'[f.rep] <= Fuel + One(Removing(f)')
    <3>1. CASE f.rep \in RepsOf(readable)
      <4>1. f \in batch
        BY <2>c, <3>1, <1>0 DEF Apart, OneFileEach
      <4>2. Removing(f)'
        BY <4>1, <2>0 DEF Removing
      <4>3. acked'[f.rep] = acked[f.rep] + 1
        BY <3>1, <2>b, <1>d
      <4>4. QED BY <4>2, <4>3, <2>d, <1>a, <1>c, <1>d DEF One
    <3>2. CASE f.rep \notin RepsOf(readable)
      <4>1. acked'[f.rep] = acked[f.rep]
        BY <3>2, <2>b, <1>d
      <4>2. One(Removing(f)') \in {0, 1}
        BY DEF One
      <4>3. QED BY <4>1, <4>2, <2>d, <1>a, <1>c, <1>d
    <3>3. QED BY <3>1, <3>2
  <2>4. AckedOnce'
    <3>1. ASSUME NEW r \in Reports
          PROVE  acked'[r] <= 1 + Fuel
      <4>1. CASE r \in RepsOf(readable)
        <5>1. acked[r] <= Fuel
          BY <4>1, <2>c, <2>d
        <5>2. acked'[r] = acked[r] + 1
          BY <4>1, <2>b
        <5>3. QED BY <5>1, <5>2, <1>a, <1>c
      <4>2. CASE r \notin RepsOf(readable)
        BY <4>2, <2>b, <1>g
      <4>3. QED BY <4>1, <4>2
    <3>2. QED BY <3>1, <2>0 DEF AckedOnce, Fuel
  <2>5. Len(flight') = 0
    BY <2>0, <2>a
  <2>6. QED BY <2>0, <2>a, <2>1, <2>2, <2>3, <2>4, <2>5 DEF Acks
<1>3. CASE ~MemoryAcked /\ ~DiskAcked
  <2>0. acked' = acked
    BY <1>3, AckSteps
  <2>1. \A r \in Reports : r > Left' => acked'[r] = 0
    BY <2>0, <1>a, <1>c DEF Acks
  <2>2. \A f \in hand' : acked'[f.rep] = 0
    BY <2>0, Origins DEF Acks
  <2>3. \A i \in 1..Len(flight') : acked'[flight'[i]] = 0
    <3>0. flight' \in Seq(Reports) /\ DOMAIN flight' = 1..Len(flight')
      BY TypeStep DEF TypeOK
    <3>1. CASE TakeMemory
      <4>1. PICK n \in 1..Len(mem) : flight' = SubSeq(mem, 1, n)
        BY <3>1 DEF TakeMemory
      <4>2. mem \in Seq(Reports) /\ Len(mem) \in Nat
        BY <1>0 DEF TypeOK
      <4>3. Len(flight') = n /\ \A i \in 1..n : flight'[i] = mem[i] /\ mem[i] \in Reports
        BY <4>1, <4>2, RangeCut
      <4>4. \A i \in 1..n : mem[i] = Left + i /\ Left + i > Left
        BY <4>2, <1>0, <1>a DEF Fifo
      <4>5. QED BY <4>3, <4>4, <2>0 DEF Acks
    <3>2. CASE ~TakeMemory
      <4>1. Range(flight') \subseteq Range(flight)
        BY <3>2, Origins
      <4>2. \A i \in 1..Len(flight') : flight'[i] \in Range(flight)
        BY <3>0, <4>1 DEF Range
      <4>3. QED BY <4>2, <2>0, <1>f
    <3>3. QED BY <3>1, <3>2
  <2>4. \A f \in dir' : acked'[f.rep] <= Fuel' + One(Removing(f)')
    <3>a. ASSUME NEW f \in dir, NEW p \in BOOLEAN, Fuel' >= Fuel + 1 \/ ~Removing(f) \/ p
          PROVE  acked'[f.rep] <= Fuel' + One(p)
      <4>1. acked[f.rep] <= Fuel + One(Removing(f))
        BY DEF Acks
      <4>2. One(Removing(f)) \in {0, 1} /\ One(p) \in {0, 1} /\ (Removing(f) \/ One(Removing(f)) = 0)
            /\ (p => One(p) = 1)
        BY DEF One
      <4>3. acked[f.rep] \in Nat
        BY <1>c, <1>d
      <4>4. QED BY <3>a, <4>1, <4>2, <4>3, <2>0, <1>a
    <3>b. \A f : One(Removing(f)') \in {0, 1} /\ (Removing(f)') \in BOOLEAN
      BY DEF One, Removing
    <3>c. ASSUME NEW f \in dir
          PROVE  Fuel' >= Fuel + 1 \/ (Removing(f) => Removing(f)') \/ f \notin dir'
      <4>1. CASE RemoveFile
        <5>1. PICK g \in batch :
                /\ batch' = batch \ {g} /\ fpc' = fpc /\ restarts' = restarts
                /\ dir' = dir \ {g} \/ faults' = faults + 1
          BY <4>1 DEF RemoveFile, Fault
        <5>2. CASE dir' = dir \ {g}
          BY <5>1, <5>2 DEF Removing
        <5>3. CASE faults' = faults + 1
          BY <5>1, <5>3, <1>0 DEF Fuel, TypeOK
        <5>4. QED BY <5>1, <5>2, <5>3
      <4>2. CASE Reboot
        BY <4>2, <1>0 DEF Reboot, Fuel, TypeOK
      <4>3. CASE ~RemoveFile /\ ~Reboot
        BY <4>3, AckSteps
      <4>4. QED BY <4>1, <4>2, <4>3
    <3>1. ASSUME NEW f \in dir', f \in dir
          PROVE  acked'[f.rep] <= Fuel' + One(Removing(f)')
      <4>1. (Removing(f)') \in BOOLEAN
        BY <3>b
      <4>2. Fuel' >= Fuel + 1 \/ ~Removing(f) \/ Removing(f)'
        BY <3>1, <3>c
      <4>3. QED BY <3>1, <4>1, <4>2, <3>a
    <3>2. ASSUME NEW f \in dir', acked[f.rep] = 0
          PROVE  acked'[f.rep] <= Fuel' + One(Removing(f)')
      BY <3>2, <3>b, <2>0, <1>a
    <3>3. CASE BumpFile
      <4>1. PICK f \in batch : dir' = (dir \ {f}) \cup {[f EXCEPT !.tries = @ + 1]} \/ dir' = dir
        BY <3>3 DEF BumpFile
      <4>2. f \in dir /\ f \in File /\ fpc = "bump" /\ fpc' = "bump"
        BY <3>3, <1>0 DEF BumpFile, Phase, TypeOK
      <4>3. PICK g : g = [f EXCEPT !.tries = @ + 1]
        OBVIOUS
      <4>4. g.rep = f.rep
        BY <4>2, <4>3 DEF File
      <4>5. acked'[f.rep] <= Fuel' + One(FALSE)
        <5>1. ~Removing(f)
          BY <4>2 DEF Removing
        <5>2. QED BY <4>2, <5>1, <3>a
      <4>6. ~(Removing(g)')
        BY <4>2 DEF Removing
      <4>7. acked'[g.rep] <= Fuel' + One(Removing(g)')
        BY <4>4, <4>5, <4>6 DEF One
      <4>8. QED BY <4>1, <4>3, <4>7, <3>1
    <3>4. CASE ~BumpFile
      <4>1. ASSUME NEW f \in dir'
            PROVE  f \in dir \/ acked[f.rep] = 0
        <5>1. f \in dir \cup hand \/ f.rep \in Range(flight)
          BY <3>4, Origins
        <5>2. QED BY <5>1, <1>f DEF Acks
      <4>2. QED BY <4>1, <3>1, <3>2
    <3>5. QED BY <3>3, <3>4
  <2>5. AckedOnce'
    <3>1. \A r \in Reports : acked'[r] <= 1 + Fuel'
      BY <2>0, <1>a, <1>c, <1>g
    <3>2. QED BY <3>1 DEF AckedOnce, Fuel
  <2>6. QED BY <2>1, <2>2, <2>3, <2>4, <2>5 DEF Acks
<1>4. QED BY <1>1, <1>2, <1>3

(* A delivery that was acknowledged is repeated at most once for every failed
   removal and every restart, whatever the endpoint answers in between. *)
THEOREM AckedOnceHolds == Spec => []AckedOnce
<1>1. Init => Acks
  <2>1. SUFFICES ASSUME Init PROVE Acks
    OBVIOUS
  <2>2. /\ \A r \in Reports : acked[r] = 0
        /\ faults = 0 /\ restarts = 0 /\ hand = {} /\ dir = {} /\ Len(flight) = 0
    BY <2>1 DEF Init
  <2>3. QED BY <2>2 DEF Acks, AckedOnce
<1>2. Acks => AckedOnce
  BY DEF Acks
<1>3. QED BY <1>1, <1>2, AcksStep, Invariance, PTL DEF Spec

-----------------------------------------------------------------------------
(* The refinement of ReportOutbox *)

(* Files of the batch that ReadFile has been at. *)
Opened == IF fpc = "read" THEN batch \ todo ELSE batch

(* Files whose report is missing from the POST because a read failed. *)
Unread ==
    IF fpc \in {"read", "sendDisk", "awaitDisk", "remove"}
    THEN {f \in Opened : f \notin readable /\ f.name \notin torn}
    ELSE {}

(* RemoveFile runs on received reports, and where one was left out of the POST
   a read has failed or a restart has damaged its file. *)
Blame ==
    /\ fpc = "awaitDisk" /\ verdict = "accepted" => RepsOf(readable) \subseteq received
    /\ fpc = "remove" => RepsOf(readable) \subseteq received
    /\ Unread # {} => faults > 0
    /\ torn # {} => restarts > 0

(* Every step keeps the blame. *)
LEMMA BlameStep == IInv /\ Blame /\ [Next]_vars => Blame'
<1> SUFFICES ASSUME IInv, Blame, [Next]_vars PROVE Blame'
  OBVIOUS
<1>0. TypeOK /\ Phase
  BY DEF IInv
<1>a. faults \in Nat /\ restarts \in Nat
  BY <1>0 DEF TypeOK
<1>b. faults' >= faults /\ restarts' >= restarts /\ faults' \in Nat /\ restarts' \in Nat
  BY Counters
<1>d. ASSUME FlushReturns PROVE fpc' \in {"flush", "select"}
  BY <1>d DEF FlushReturns
<1> USE DEF producerVars, sharedVars, flusherVars, diskVars, envVars, historyVars
<1>1. CASE UNCHANGED vars
  BY <1>1 DEF vars, Blame, Unread, Opened
<1>2. CASE AcceptDirect \/ AcceptToMemory \/ Shutdown \/ \E r \in Reports : Ripen(r)
  BY <1>2 DEF AcceptDirect, AcceptToMemory, Shutdown, Ripen, Blame, Unread, Opened
<1>3. CASE Enqueue
  <2>1. UNCHANGED <<fpc, verdict, batch, todo, readable, torn, received, restarts>>
    BY <1>3 DEF Enqueue, SpillHead, CommitWrite, FailWrite, UnlockMu, SignalFlush
  <2>2. Unread' = Unread
    BY <2>1 DEF Unread, Opened
  <2>3. QED BY <2>1, <2>2, <1>a, <1>b DEF Blame
<1>4. ASSUME fpc' \notin {"read", "sendDisk", "awaitDisk", "remove"}, torn' = torn
      PROVE  Blame'
  BY <1>4, <1>a, <1>b DEF Blame, Unread
<1>5. CASE Tick \/ WakeUp \/ Stop \/ AbortFlush \/ TakeMemory \/ MemoryEmpty \/ ListSpool
  BY <1>4, <1>5, <1>d DEF Tick, WakeUp, Stop, AbortFlush, TakeMemory, MemoryEmpty, ListSpool
<1>6. CASE ParkExhausted \/ SkipFile \/ TakeFile
  BY <1>4, <1>6 DEF ParkExhausted, SkipFile, TakeFile, Scanning
<1>7. CASE EndScan
  <2>1. fpc' = "read" => todo' = batch'
    BY <1>7, <1>d DEF EndScan
  <2>2. fpc' = "read" \/ fpc' \in {"flush", "select"}
    BY <1>7, <1>d DEF EndScan
  <2>3. Unread' = {} /\ torn' = torn
    BY <1>7, <2>1, <2>2 DEF EndScan, Unread, Opened
  <2>4. QED BY <2>2, <2>3, <1>a, <1>b DEF Blame
<1>8. CASE ReadFile
  <2>1. PICK f \in todo :
          /\ todo' = todo \ {f}
          /\ \/ readable' = (IF f.name \in torn THEN readable ELSE readable \cup {f}) /\ faults' = faults
             \/ Fault /\ readable' = readable
    BY <1>8 DEF ReadFile
  <2>2. /\ fpc = "read" /\ fpc' = "read" /\ batch' = batch /\ torn' = torn /\ restarts' = restarts
    BY <1>8 DEF ReadFile
  <2>3. CASE Fault
    BY <2>2, <2>3, <1>a DEF Blame, Fault
  <2>4. CASE readable' = (IF f.name \in torn THEN readable ELSE readable \cup {f}) /\ faults' = faults
    <3>1. Unread' \subseteq Unread
      BY <2>1, <2>2, <2>4 DEF Unread, Opened
    <3>2. QED BY <2>2, <2>4, <3>1 DEF Blame
  <2>5. QED BY <2>1, <2>3, <2>4
<1>9. CASE ReadDone
  <2>1. CASE readable = {}
    BY <1>4, <1>9, <1>d, <2>1 DEF ReadDone
  <2>2. CASE readable # {}
    <3>1. /\ fpc = "read" /\ todo = {} /\ fpc' = "sendDisk"
          /\ UNCHANGED <<batch, readable, torn, faults, restarts>>
      BY <1>9, <2>2 DEF ReadDone
    <3>2. Unread' = Unread
      BY <3>1 DEF Unread, Opened
    <3>3. QED BY <3>1, <3>2 DEF Blame
  <2>3. QED BY <2>1, <2>2
<1>10. CASE Post
  <2>1. CASE fpc = "sendMem"
    BY <1>4, <1>10, <2>1 DEF Post
  <2>2. CASE fpc = "sendDisk"
    <3>1. /\ fpc' = "awaitDisk" /\ UNCHANGED <<batch, readable, torn, faults, restarts>>
          /\ verdict' = "accepted" => received' = received \cup RepsOf(readable)
      BY <1>10, <2>2 DEF Post, Payload
    <3>2. Unread' = Unread
      BY <2>2, <3>1 DEF Unread, Opened
    <3>3. QED BY <3>1, <3>2 DEF Blame
  <2>3. QED BY <1>10, <2>1, <2>2 DEF Post
<1>11. CASE MemoryAcked \/ MemoryNotAcked \/ WriteBack \/ WriteBackDone
  BY <1>4, <1>11, <1>d DEF MemoryAcked, MemoryNotAcked, WriteBack, WriteBackDone
<1>12. CASE DiskAcked
  <2>1. /\ fpc = "awaitDisk" /\ verdict = "accepted" /\ fpc' = "remove"
        /\ UNCHANGED <<batch, readable, torn, faults, restarts, received>>
    BY <1>12 DEF DiskAcked
  <2>2. Unread' = Unread
    BY <2>1 DEF Unread, Opened
  <2>3. QED BY <2>1, <2>2 DEF Blame
<1>13. CASE DiskNotAcked \/ BumpFile \/ BatchDone
  BY <1>4, <1>13, <1>d DEF DiskNotAcked, BumpFile, BatchDone
<1>14. CASE RemoveFile
  <2>1. /\ fpc = "remove" /\ fpc' = "remove" /\ batch' \subseteq batch
        /\ UNCHANGED <<readable, torn, restarts, received>>
    BY <1>14 DEF RemoveFile
  <2>2. Unread' \subseteq Unread
    BY <2>1 DEF Unread, Opened
  <2>3. QED BY <2>1, <2>2, <1>a, <1>b DEF Blame
<1>15. CASE Exit \/ Crash \/ PowerLoss
  <2>1. /\ fpc' = "flush" /\ restarts' = restarts + 1
    BY <1>15 DEF Exit, Crash, PowerLoss, Reboot
  <2>2. QED BY <2>1, <1>a DEF Blame, Unread
<1>16. QED
  BY <1>1, <1>2, <1>3, <1>5, <1>6, <1>7, <1>8, <1>9, <1>10, <1>11, <1>12, <1>13, <1>14, <1>15
     DEF Next, Run

(* What the abstract steps see of a state. *)
MayLose == faults > 0 \/ restarts > 0

Unseen == UNCHANGED <<produced, Held, Parked, received, lost>>

(* A step of the outbox: the names of ReportOutbox on this state. *)
LEMMA OutboxStep ==
    ASSUME \/ Unseen /\ MayLose' = MayLose
           \/ /\ produced + 1 \in Reports /\ produced' = produced + 1
              /\ Held' = Held \cup {produced + 1}
              /\ UNCHANGED <<Parked, received, lost>> /\ MayLose' = MayLose
           \/ /\ \E S \in SUBSET Held : received' = received \cup S
              /\ UNCHANGED <<produced, Held, Parked, lost>> /\ MayLose' = MayLose
           \/ /\ \E S \in SUBSET (Held \cap received) : Held' = Held \ S
              /\ UNCHANGED <<produced, Parked, received, lost>> /\ MayLose' = MayLose
           \/ /\ \E r \in Held : Held' = Held \ {r} /\ Parked' = Parked \cup {r}
              /\ UNCHANGED <<produced, received, lost>> /\ MayLose' = MayLose
           \/ /\ \E S \in SUBSET Held : Held' = Held \ S /\ lost' = lost \cup (S \ received)
              /\ UNCHANGED <<produced, Parked, received>> /\ MayLose' = TRUE
    PROVE  [Outbox!Next]_(Outbox!vars)
BY DEF Unseen, MayLose, Outbox!Next, Outbox!vars, Outbox!Accept, Outbox!Deliver,
       Outbox!Release, Outbox!Park, Outbox!Lose

(* A step that moves no report loses none, and only Post delivers. *)
LEMMA QuietSteps ==
    [Next]_vars /\ ~Move =>
        /\ Quiet /\ lost' = lost /\ restarts' = restarts
        /\ stamps' = stamps /\ torn' = torn
        /\ Post \/ received' = received
<1> SUFFICES ASSUME [Next]_vars, ~Move
             PROVE  /\ lost' = lost /\ restarts' = restarts
                    /\ stamps' = stamps /\ torn' = torn
                    /\ Post \/ received' = received
  BY MoveOrQuiet
<1> USE DEF producerVars, sharedVars, flusherVars, diskVars, envVars, historyVars
<1>1. CASE UNCHANGED vars
  BY <1>1 DEF vars
<1>2. CASE UnlockMu \/ SignalFlush \/ Tick \/ WakeUp \/ Stop \/ AbortFlush \/ MemoryEmpty \/ ListSpool
  BY <1>2 DEF UnlockMu, SignalFlush, Tick, WakeUp, Stop, AbortFlush, MemoryEmpty, ListSpool
<1>3. CASE SkipFile \/ TakeFile \/ EndScan \/ ReadFile \/ ReadDone \/ Post
  BY <1>3 DEF SkipFile, TakeFile, EndScan, ReadFile, ReadDone, Post
<1>4. CASE MemoryNotAcked \/ WriteBackDone \/ DiskAcked \/ DiskNotAcked \/ BatchDone
  BY <1>4 DEF MemoryNotAcked, WriteBackDone, DiskAcked, DiskNotAcked, BatchDone
<1>5. CASE Shutdown \/ \E r \in Reports : Ripen(r)
  BY <1>5 DEF Shutdown, Ripen
<1>6. QED
  BY <1>1, <1>2, <1>3, <1>4, <1>5 DEF Next, Enqueue, Run, Move

(* Every step of the queue is a step of the outbox or leaves it alone. *)
LEMMA Simulation == IInv /\ Blame /\ Accepted /\ [Next]_vars => [Outbox!Next]_(Outbox!vars)
<1> SUFFICES ASSUME IInv, Blame, Accepted, [Next]_vars PROVE [Outbox!Next]_(Outbox!vars)
  OBVIOUS
<1>0. TypeOK /\ Phase /\ Fifo /\ SingleCustody
  BY DEF IInv
<1>a. faults \in Nat /\ restarts \in Nat /\ produced \in Nat /\ mem \in Seq(Reports) /\ flight \in Seq(Reports)
  BY <1>0, BoundsAssumption DEF TypeOK
<1>b. ASSUME Fault PROVE MayLose'
  BY <1>b, <1>a DEF Fault, MayLose
<1>c. faults' >= faults /\ restarts' >= restarts /\ faults' \in Nat /\ restarts' \in Nat
  BY Counters
<1>d. MayLose => MayLose'
  BY <1>a, <1>c DEF MayLose
<1>e. MayLose \in BOOLEAN /\ MayLose' \in BOOLEAN
  BY DEF MayLose
<1>f. ASSUME UNCHANGED <<produced, Parked, received>>,
             NEW S \in SUBSET Held, Held' = Held \ S, lost' = lost \cup (S \ received),
             MayLose'
      PROVE  [Outbox!Next]_(Outbox!vars)
  BY <1>f, <1>e, OutboxStep
<1>g. ASSUME Unseen PROVE [Outbox!Next]_(Outbox!vars)
  <2>1. CASE MayLose' = MayLose
    BY <1>g, <2>1, OutboxStep
  <2>2. CASE MayLose' # MayLose
    <3>1. MayLose'
      BY <2>2, <1>d, <1>e
    <3>2. {} \in SUBSET Held /\ Held' = Held \ {} /\ lost' = lost \cup ({} \ received)
      BY <1>g DEF Unseen
    <3>3. QED BY <3>1, <3>2, <1>f, <1>g DEF Unseen
  <2>3. QED BY <2>1, <2>2
<1> USE DEF producerVars, sharedVars, flusherVars, diskVars, envVars, historyVars
<1>1. CASE ~Move
  <2>1. /\ Quiet /\ lost' = lost /\ restarts' = restarts
        /\ Post \/ received' = received
    BY <1>1, QuietSteps
  <2>2. produced' = produced /\ Held' = Held /\ Parked' = Parked
    BY <2>1 DEF Quiet, Held, Parked, Volatile, Spooled
  <2>3. CASE received' = received
    BY <2>1, <2>2, <2>3, <1>g DEF Unseen
  <2>4. CASE Post
    <3>1. Payload \subseteq Held
      <4>1. CASE fpc = "sendMem"
        BY <4>1 DEF Payload, Held, Volatile
      <4>2. CASE fpc = "sendDisk"
        <5>1. readable \subseteq dir
          BY <4>2, <1>0 DEF Phase
        <5>2. QED BY <4>2, <5>1 DEF Payload, Held, Spooled, RepsOf
      <4>3. QED BY <2>4, <4>1, <4>2 DEF Post
    <3>2. /\ received' = received \cup Payload \/ received' = received
          /\ faults' = faults
      BY <2>4 DEF Post
    <3>3. MayLose' = MayLose
      BY <2>1, <3>2 DEF MayLose
    <3>4. CASE received' = received \cup Payload
      BY <2>1, <2>2, <3>1, <3>3, <3>4, OutboxStep
    <3>5. QED BY <3>2, <3>4, <2>3
  <2>5. QED BY <2>1, <2>3, <2>4
<1>2. CASE AcceptDirect
  <2>1. /\ hand = {} /\ hand' = {NewFile(produced + 1)} /\ NewFile(produced + 1).rep = produced + 1
        /\ produced' = produced + 1
        /\ UNCHANGED <<mem, flight, dir, failed, received, lost, faults, restarts>>
    BY <1>2, <1>0 DEF AcceptDirect, Phase, NewFile
  <2>2. produced + 1 \in Reports
    BY <1>2, <1>0, BoundsAssumption DEF AcceptDirect, TypeOK, Reports
  <2>3. Held' = Held \cup {produced + 1}
    BY <2>1 DEF Held, Volatile, Spooled, RepsOf
  <2>4. Parked' = Parked /\ MayLose' = MayLose
    BY <2>1 DEF Parked, MayLose
  <2>5. QED BY <2>1, <2>2, <2>3, <2>4, OutboxStep
<1>3. CASE AcceptToMemory
  <2>1. produced + 1 \in Reports
    BY <1>3, <1>0, BoundsAssumption DEF AcceptToMemory, TypeOK, Reports
  <2>2. /\ mem' = Append(mem, produced + 1) /\ produced' = produced + 1
        /\ UNCHANGED <<hand, flight, dir, failed, received, lost, faults, restarts>>
    BY <1>3 DEF AcceptToMemory
  <2>3. Range(mem') = Range(mem) \cup {produced + 1}
    BY <2>1, <2>2, <1>a, RangeAppend
  <2>4. Held' = Held \cup {produced + 1}
    BY <2>2, <2>3 DEF Held, Volatile, Spooled
  <2>5. Parked' = Parked /\ MayLose' = MayLose
    BY <2>2 DEF Parked, MayLose
  <2>6. QED BY <2>1, <2>2, <2>4, <2>5, OutboxStep
<1>4. CASE SpillHead
  <2>1. /\ hand = {} /\ hand' = {NewFile(Head(mem))} /\ mem' = Tail(mem) /\ mem # <<>>
        /\ NewFile(Head(mem)).rep = Head(mem)
        /\ UNCHANGED <<produced, flight, dir, failed, received, lost>>
    BY <1>4, <1>0 DEF SpillHead, Phase, NewFile
  <2>2. Range(mem) = {Head(mem)} \cup Range(mem')
    BY <2>1, <1>a, RangeTail
  <2>3. Held' = Held
    BY <2>1, <2>2 DEF Held, Volatile, Spooled, RepsOf
  <2>4. QED BY <2>1, <2>3, <1>g DEF Unseen, Parked
<1>5. CASE CommitWrite
  <2>1. /\ dir' = dir \cup hand /\ hand' = {}
        /\ UNCHANGED <<produced, mem, flight, failed, received, lost>>
    BY <1>5 DEF CommitWrite
  <2>2. Held' = Held
    BY <2>1 DEF Held, Volatile, Spooled, RepsOf
  <2>3. QED BY <2>1, <2>2, <1>g DEF Unseen, Parked
<1>6. CASE FailWrite
  <2>1. /\ hand' = {} /\ lost' = lost \cup (RepsOf(hand) \ received) /\ MayLose'
        /\ UNCHANGED <<produced, mem, flight, dir, failed, received>>
    BY <1>6, <1>b DEF FailWrite, Drop
  <2>2. RepsOf(hand') = {}
    BY <2>1 DEF RepsOf
  <2>3. RepsOf(hand) \subseteq Held /\ Held' = Held \ RepsOf(hand)
    <3>1. RepsOf(hand) \cap (Range(mem) \cup Range(flight) \cup Spooled) = {}
      BY <1>0 DEF SingleCustody, Disjoint
    <3>2. QED BY <2>1, <2>2, <3>1 DEF Held, Volatile, Spooled
  <2>4. Parked' = Parked
    BY <2>1 DEF Parked
  <2>5. QED BY <2>1, <2>3, <2>4, <1>f
<1>7. CASE TakeMemory
  <2>1. PICK n \in 1..Len(mem) : /\ flight' = SubSeq(mem, 1, n)
                                 /\ mem' = SubSeq(mem, n + 1, Len(mem))
    BY <1>7 DEF TakeMemory
  <2>2. Range(mem) = Range(flight') \cup Range(mem')
    BY <2>1, <1>a, RangeCut
  <2>3. Range(flight) = {}
    BY <1>7, <1>0 DEF TakeMemory, Phase, Range
  <2>4. UNCHANGED <<produced, hand, dir, failed, received, lost>>
    BY <1>7 DEF TakeMemory
  <2>5. Held' = Held
    BY <2>2, <2>3, <2>4 DEF Held, Volatile, Spooled
  <2>6. QED BY <2>4, <2>5, <1>g DEF Unseen, Parked
<1>8. CASE ParkExhausted
  <2>1. PICK f \in todo : \/ dir' = dir \ {f} /\ failed' = failed \cup {f} /\ faults' = faults
                          \/ dir' = dir /\ failed' = failed
    BY <1>8 DEF ParkExhausted
  <2>2. f \in dir /\ UNCHANGED <<produced, mem, flight, hand, received, lost, restarts>>
    BY <1>8, <1>0 DEF ParkExhausted, Phase
  <2>3. CASE dir' = dir \ {f} /\ failed' = failed \cup {f} /\ faults' = faults
    <3>1. Parked' = Parked \cup {f.rep} /\ f.rep \in Spooled
      BY <2>2, <2>3 DEF Parked, Spooled, RepsOf
    <3>2. Spooled' = Spooled \ {f.rep}
      BY <2>2, <2>3, <1>0 DEF SingleCustody, OneFileEach, Spooled, RepsOf
    <3>3. f.rep \notin Volatile
      BY <3>1, <1>0 DEF SingleCustody, Disjoint, Volatile
    <3>4. f.rep \in Held /\ Held' = Held \ {f.rep}
      BY <2>2, <3>1, <3>2, <3>3 DEF Held, Volatile
    <3>5. MayLose' = MayLose
      BY <2>2, <2>3 DEF MayLose
    <3>6. QED BY <2>2, <3>1, <3>4, <3>5, OutboxStep
  <2>4. CASE dir' = dir /\ failed' = failed
    BY <2>2, <2>4, <1>g DEF Unseen, Held, Parked, Volatile, Spooled
  <2>5. QED BY <2>1, <2>3, <2>4
<1>9. CASE MemoryAcked
  <2>1. Range(flight) \subseteq received
    BY <1>9 DEF MemoryAcked, Accepted
  <2>2. flight' = <<>> /\ UNCHANGED <<produced, mem, hand, dir, failed, received, lost, faults, restarts>>
    BY <1>9 DEF MemoryAcked
  <2>3. Range(flight') = {}
    BY <2>2 DEF Range
  <2>4. Range(flight) \cap (Range(mem) \cup RepsOf(hand) \cup Spooled) = {}
    BY <1>0 DEF SingleCustody, Disjoint
  <2>5. Range(flight) \in SUBSET (Held \cap received) /\ Held' = Held \ Range(flight)
    BY <2>1, <2>2, <2>3, <2>4 DEF Held, Volatile, Spooled
  <2>6. Parked' = Parked /\ MayLose' = MayLose
    BY <2>2 DEF Parked, MayLose
  <2>7. QED BY <2>2, <2>5, <2>6, OutboxStep
<1>10. CASE WriteBack
  <2>1. /\ flight # <<>> /\ flight' = Tail(flight)
        /\ UNCHANGED <<produced, mem, hand, failed, received, restarts>>
        /\ NewFile(Head(flight)).rep = Head(flight)
    BY <1>10 DEF WriteBack, NewFile
  <2>2. /\ Range(flight) = {Head(flight)} \cup Range(flight')
        /\ Head(flight) = flight[1] /\ Len(flight) >= 1 /\ Len(flight') = Len(flight) - 1
        /\ \A i \in 1..Len(flight') : flight'[i] = flight[i + 1]
        /\ flight' \in Seq(Reports)
    BY <2>1, <1>a, RangeTail
  <2>3. CASE dir' = dir \cup {NewFile(Head(flight))} /\ lost' = lost
    <3>1. Held' = Held
      BY <2>1, <2>2, <2>3 DEF Held, Volatile, Spooled, RepsOf
    <3>2. QED BY <2>1, <2>3, <3>1, <1>g DEF Unseen, Parked
  <2>4. CASE Fault /\ lost' = lost \cup ({Head(flight)} \ received) /\ dir' = dir
    <3>1. Head(flight) \notin Range(flight')
      <4>1. DOMAIN flight = 1..Len(flight) /\ DOMAIN flight' = 1..Len(flight')
        BY <1>a, <2>2
      <4>2. \A i \in 1..Len(flight') : i + 1 \in 1..Len(flight) /\ 1 \in 1..Len(flight) /\ i + 1 # 1
        BY <1>a, <2>2
      <4>3. \A i \in 1..Len(flight') : flight'[i] # Head(flight)
        BY <4>1, <4>2, <2>2, <1>0 DEF SingleCustody, IsInjective
      <4>4. QED BY <4>1, <4>3 DEF Range
    <3>2. Head(flight) \notin Range(mem) \cup RepsOf(hand) \cup Spooled
      BY <2>2, <1>0 DEF SingleCustody, Disjoint
    <3>3. {Head(flight)} \in SUBSET Held /\ Held' = Held \ {Head(flight)}
      BY <2>1, <2>2, <2>4, <3>1, <3>2 DEF Held, Volatile, Spooled
    <3>4. QED BY <2>1, <2>4, <3>3, <1>b, <1>f DEF Parked
  <2>5. QED BY <1>10, <2>3, <2>4 DEF WriteBack, Drop
<1>11. CASE RemoveFile
  <2>1. PICK f \in batch : \/ dir' = dir \ {f} /\ Drop({f.rep}) /\ faults' = faults
                           \/ dir' = dir /\ lost' = lost
    BY <1>11 DEF RemoveFile
  <2>2. /\ f \in dir /\ fpc = "remove"
        /\ UNCHANGED <<produced, mem, flight, hand, failed, received, restarts>>
    BY <1>11, <1>0 DEF RemoveFile, Phase
  <2>3. CASE dir' = dir \ {f} /\ Drop({f.rep}) /\ faults' = faults
    <3>1. f.rep \in Spooled /\ Spooled' = Spooled \ {f.rep}
      BY <2>2, <2>3, <1>0 DEF SingleCustody, OneFileEach, Spooled, RepsOf
    <3>2. f.rep \notin Volatile
      BY <3>1, <1>0 DEF SingleCustody, Disjoint, Volatile
    <3>3. {f.rep} \in SUBSET Held /\ Held' = Held \ {f.rep} /\ Parked' = Parked
      BY <2>2, <3>1, <3>2 DEF Held, Volatile, Parked
    <3>4. CASE f.rep \in received
      <4>1. lost' = lost /\ MayLose' = MayLose /\ {f.rep} \in SUBSET (Held \cap received)
        BY <2>2, <2>3, <3>3, <3>4 DEF Drop, MayLose
      <4>2. QED BY <2>2, <3>3, <4>1, OutboxStep
    <3>5. CASE f.rep \notin received
      <4>1. f \notin readable
        BY <2>2, <3>5 DEF Blame, RepsOf
      <4>2. f \in Unread \/ torn # {}
        BY <2>2, <4>1 DEF Unread, Opened
      <4>3. MayLose'
        BY <4>2, <1>d DEF Blame, MayLose
      <4>4. lost' = lost \cup ({f.rep} \ received)
        BY <2>3 DEF Drop
      <4>5. QED BY <2>2, <3>3, <4>3, <4>4, <1>f
    <3>6. QED BY <3>4, <3>5
  <2>4. CASE dir' = dir /\ lost' = lost
    BY <2>2, <2>4, <1>g DEF Unseen, Held, Parked, Volatile, Spooled
  <2>5. QED BY <2>1, <2>3, <2>4
<1>12. CASE BumpFile
  <2>a. PICK f \in batch : \/ dir' = (dir \ {f}) \cup {[f EXCEPT !.tries = @ + 1]}
                           \/ dir' = dir
    BY <1>12 DEF BumpFile
  <2>b. PICK g : g = [f EXCEPT !.tries = @ + 1]
    OBVIOUS
  <2>1. f \in dir /\ g.rep = f.rep
    BY <2>b, <1>0 DEF Phase, TypeOK, File
  <2>2. Spooled' = Spooled
    BY <2>a, <2>b, <2>1 DEF Spooled, RepsOf
  <2>3. UNCHANGED <<produced, mem, flight, hand, failed, received, lost>>
    BY <1>12 DEF BumpFile
  <2>4. QED BY <2>2, <2>3, <1>g DEF Unseen, Held, Parked, Volatile
<1>13. CASE Reboot
  <2>1. /\ mem' = <<>> /\ flight' = <<>> /\ hand' = {}
        /\ lost' = lost \cup (Volatile \ received) /\ restarts' = restarts + 1
        /\ UNCHANGED <<produced, dir, failed, received>>
    BY <1>13 DEF Reboot, Drop
  <2>2. Volatile' = {}
    BY <2>1 DEF Volatile, Range, RepsOf
  <2>3. Volatile \cap Spooled = {}
    BY <1>0 DEF SingleCustody, Disjoint, Volatile
  <2>4. Volatile \in SUBSET Held /\ Held' = Held \ Volatile
    BY <2>1, <2>2, <2>3 DEF Held, Spooled
  <2>5. MayLose' /\ Parked' = Parked
    BY <2>1, <1>a DEF MayLose, Parked
  <2>6. QED BY <2>1, <2>4, <2>5, <1>f
<1>14. QED
  BY <1>1, <1>2, <1>3, <1>4, <1>5, <1>6, <1>7, <1>8, <1>9, <1>10, <1>11, <1>12, <1>13 DEF Move, Exit, Crash, PowerLoss

(* The queue implements the outbox: whatever Enqueue and Run do to a report, with
   whatever faults and restarts, is an acceptance, a delivery, a release of what
   was received, a parking, or a loss that a fault or restart accounts for. *)
THEOREM OutboxImplemented == Spec => ImplementsOutbox
<1>1. Init => Accepted /\ Blame
  BY DEF Init, Accepted, Blame, Unread, RepsOf
<1>2. Init => Outbox!Init
  <2> SUFFICES ASSUME Init PROVE Outbox!Init
    OBVIOUS
  <2>1. Held = {} /\ Parked = {}
    BY DEF Init, Held, Parked, Volatile, Spooled, RepsOf, Range
  <2>2. QED BY <2>1 DEF Init, Outbox!Init
<1>3. IInv /\ (Accepted /\ Blame) /\ [Next]_vars => (Accepted /\ Blame)'
  BY AcceptedStep, BlameStep
<1>4. IInv /\ (Accepted /\ Blame) /\ [Next]_vars => [Outbox!Next]_(Outbox!vars)
  BY Simulation
<1>5. QED BY <1>1, <1>2, <1>3, <1>4, Invariance, PTL DEF Spec, ImplementsOutbox, Outbox!Spec

-----------------------------------------------------------------------------
(* Bounded loss *)

NamesOf(F) == {f.name : f \in F}

(* File names are fresh, the producer holds one file at most, and a damaged file is one that has reached the disk. *)
Named ==
    /\ \A f, g \in dir : f.name = g.name => f = g
    /\ \A f \in hand \cup dir : f.name <= stamps
    /\ \A n \in torn : n <= stamps
    /\ \A f \in hand : f.name \notin NamesOf(dir) \cup torn
    /\ \A f, g \in hand : f = g
    /\ IsFiniteSet(torn)

(* What is off disk: the limits of the buffer, of the hand and of the batch. *)
Buffered ==
    /\ epc = "spill" => Len(mem) <= MemoryBuffer + 1
    /\ epc # "spill" => Len(mem) <= MemoryBuffer
    /\ Len(flight) <= MemoryBuffer /\ Len(flight) <= MaxBatch

(* Lost reports and those about to be are paid for: an unread report by the
   fault of its read, the report of a damaged file by the name that left the
   spool with it. *)
LossAccount ==
    Cardinality(lost) + Cardinality(RepsOf(Unread))
        <= faults + Cardinality(torn \ NamesOf(dir)) + restarts * Exposure

(* Every step keeps the names fresh. *)
LEMMA NamedStep == IInv /\ Named /\ [Next]_vars => Named'
<1> SUFFICES ASSUME IInv, Named, [Next]_vars PROVE Named'
  OBVIOUS
<1>0. TypeOK /\ Phase
  BY DEF IInv
<1>a. /\ stamps \in Nat /\ torn \subseteq Nat
      /\ \A f \in hand \cup dir : f.name \in Nat
  BY <1>0 DEF TypeOK, File
<1>b. \A n \in Nat : n <= stamps => n <= stamps + 1 /\ n # stamps + 1
  BY <1>a
<1>c. \A r : NewFile(r).name = stamps + 1
  BY DEF NewFile
<1>d. stamps + 1 \notin torn /\ stamps + 1 \notin NamesOf(hand \cup dir)
  BY <1>a, <1>b DEF Named, NamesOf
<1> USE DEF producerVars, sharedVars, flusherVars, diskVars, envVars, historyVars
<1>1. CASE ~Move
  BY <1>1, QuietSteps DEF Quiet, Named, NamesOf
<1>2. ASSUME stamps' = stamps + 1, NEW r, hand' = {NewFile(r)}, dir' = dir, torn' = torn
      PROVE  Named'
  <2>1. hand' \cup dir' = dir \cup {NewFile(r)}
    BY <1>2
  <2>2. \A f \in hand' \cup dir' : f.name <= stamps'
    BY <2>1, <1>2, <1>a, <1>b, <1>c DEF Named
  <2>3. \A n \in torn' : n <= stamps'
    BY <1>2, <1>a, <1>b DEF Named
  <2>4. \A f \in hand' : f.name \notin NamesOf(dir') \cup torn'
    BY <1>2, <1>c, <1>d DEF NamesOf
  <2>5. QED BY <1>2, <2>2, <2>3, <2>4 DEF Named
<1>3. CASE AcceptDirect
  BY <1>2, <1>3 DEF AcceptDirect
<1>4. CASE SpillHead
  BY <1>2, <1>4 DEF SpillHead
<1>5. CASE AcceptToMemory \/ TakeMemory \/ MemoryAcked
  BY <1>5 DEF AcceptToMemory, TakeMemory, MemoryAcked, Named, NamesOf
<1>6. CASE CommitWrite
  <2>1. dir' = dir \cup hand /\ hand' = {} /\ stamps' = stamps /\ torn' = torn
    BY <1>6 DEF CommitWrite
  <2>2. \A f, g \in hand : f = g
    BY DEF Named
  <2>3. \A f, g \in dir' : f.name = g.name => f = g
    BY <2>1, <2>2 DEF Named, NamesOf
  <2>4. QED BY <2>1, <2>3 DEF Named
<1>7. CASE FailWrite
  BY <1>7 DEF FailWrite, Named
<1>8. CASE ParkExhausted \/ RemoveFile
  <2>1. dir' \subseteq dir /\ hand' = hand /\ stamps' = stamps /\ torn' = torn
    BY <1>8 DEF ParkExhausted, RemoveFile
  <2>2. QED BY <2>1 DEF Named, NamesOf
<1>9. CASE WriteBack
  <2>1. /\ hand' = hand /\ stamps' = stamps + 1 /\ torn' = torn
        /\ dir' = dir \cup {NewFile(Head(flight))} \/ dir' = dir
    BY <1>9 DEF WriteBack
  <2>2. \A f \in hand' \cup dir' : f.name <= stamps'
    BY <2>1, <1>a, <1>b, <1>c DEF Named
  <2>3. \A n \in torn' : n <= stamps'
    BY <2>1, <1>a, <1>b DEF Named
  <2>4. \A f, g \in dir' : f.name = g.name => f = g
    BY <2>1, <1>c, <1>d DEF Named, NamesOf
  <2>5. \A f \in hand' : f.name \notin NamesOf(dir') \cup torn'
    BY <2>1, <1>c, <1>d DEF Named, NamesOf
  <2>6. QED BY <2>1, <2>2, <2>3, <2>4, <2>5 DEF Named
<1>10. CASE BumpFile
  <2>a. PICK f \in batch : \/ dir' = (dir \ {f}) \cup {[f EXCEPT !.tries = @ + 1]}
                           \/ dir' = dir
    BY <1>10 DEF BumpFile
  <2>b. PICK g : g = [f EXCEPT !.tries = @ + 1]
    OBVIOUS
  <2>1. f \in dir /\ g.name = f.name
    BY <2>b, <1>0 DEF Phase, TypeOK, File
  <2>2. dir' = (dir \ {f}) \cup {g} \/ dir' = dir
    BY <2>a, <2>b
  <2>3. hand' = hand /\ stamps' = stamps /\ torn' = torn
    BY <1>10 DEF BumpFile
  <2>4. QED BY <2>1, <2>2, <2>3 DEF Named, NamesOf
<1>11. CASE Exit \/ Crash \/ PowerLoss
  <2>1. hand' = {} /\ dir' = dir /\ stamps' = stamps
    BY <1>11 DEF Exit, Crash, PowerLoss, Reboot
  <2>2. torn' = torn \/ \E f \in dir : torn' = torn \cup {f.name}
    BY <1>11 DEF Exit, Crash, PowerLoss
  <2>3. IsFiniteSet(torn')
    BY <2>2, FS_AddElement DEF Named
  <2>4. \A n \in torn' : n <= stamps'
    BY <2>1, <2>2 DEF Named
  <2>5. QED BY <2>1, <2>3, <2>4 DEF Named
<1>12. QED
  BY <1>1, <1>3, <1>4, <1>5, <1>6, <1>7, <1>8, <1>9, <1>10, <1>11
     DEF Move

(* Every step keeps the buffer, the hand and the batch within their limits. *)
LEMMA BufferedStep == IInv /\ Buffered /\ [Next]_vars => Buffered'
<1> SUFFICES ASSUME IInv, Buffered, [Next]_vars PROVE Buffered'
  OBVIOUS
<1>0. TypeOK /\ Phase
  BY DEF IInv
<1>a. /\ mem \in Seq(Reports) /\ flight \in Seq(Reports)
      /\ Len(mem) \in Nat /\ Len(flight) \in Nat
      /\ MemoryBuffer \in Nat /\ MaxBatch \in Nat
  BY <1>0, NewQueueAssumption DEF TypeOK
<1>b. epc \in {"idle", "spill", "write", "signal"}
  BY <1>0 DEF TypeOK
<1> USE DEF producerVars, sharedVars, flusherVars, diskVars, envVars, historyVars
<1>1. CASE UNCHANGED vars
  BY <1>1 DEF vars, Buffered
<1>2. CASE AcceptDirect
  <2>1. mem = <<>>
    BY <1>2, <1>0, <1>a DEF AcceptDirect, Phase
  <2>2. Len(mem') = 0 /\ flight' = flight
    BY <1>2, <2>1 DEF AcceptDirect
  <2>3. QED BY <2>2, <1>a DEF Buffered
<1>3. CASE AcceptToMemory
  <2>1. produced + 1 \in Reports
    BY <1>3, <1>0, BoundsAssumption DEF AcceptToMemory, TypeOK, Reports
  <2>2. Len(mem') = Len(mem) + 1 /\ Len(mem) <= MemoryBuffer /\ epc' = "spill" /\ flight' = flight
    BY <1>3, <2>1, <1>a DEF AcceptToMemory, Buffered
  <2>3. QED BY <2>2, <1>a DEF Buffered
<1>4. CASE SpillHead
  <2>1. Len(mem') = Len(mem) - 1 /\ Len(mem) <= MemoryBuffer + 1 /\ epc' = "write" /\ flight' = flight
    BY <1>4, <1>a, RangeTail DEF SpillHead, Buffered
  <2>2. QED BY <2>1, <1>a DEF Buffered
<1>5. CASE CommitWrite \/ FailWrite
  <2>1. mem' = mem /\ flight' = flight /\ Len(mem) <= MemoryBuffer
    BY <1>5 DEF CommitWrite, FailWrite, Buffered
  <2>2. QED BY <2>1, <1>a DEF Buffered
<1>6. CASE UnlockMu
  <2>1. mem' = mem /\ flight' = flight /\ ~(Len(mem) > MemoryBuffer)
    BY <1>6 DEF UnlockMu, OverLimit
  <2>2. QED BY <2>1, <1>a DEF Buffered
<1>7. CASE SignalFlush
  BY <1>7 DEF SignalFlush, Buffered
<1>8. CASE TakeMemory
  <2>1. PICK n \in 1..Len(mem) : /\ CutsAt(n)
                                 /\ flight' = SubSeq(mem, 1, n)
                                 /\ mem' = SubSeq(mem, n + 1, Len(mem))
    BY <1>8 DEF TakeMemory
  <2>2. Len(flight') = n /\ Len(mem') = Len(mem) - n /\ n <= MaxBatch
    BY <2>1, <1>a, RangeCut DEF CutsAt, Fits
  <2>3. Len(mem) <= MemoryBuffer /\ epc' = epc
    <3>1. mem # <<>> /\ ~Locked /\ epc' = epc
      BY <1>8 DEF TakeMemory
    <3>2. epc # "spill"
      BY <3>1, <1>0 DEF Locked, Phase
    <3>3. QED BY <3>1, <3>2 DEF Buffered
  <2>4. QED BY <2>2, <2>3, <1>a DEF Buffered
<1>9. CASE MemoryAcked
  <2>1. Len(flight') = 0 /\ mem' = mem /\ epc' = epc
    BY <1>9 DEF MemoryAcked
  <2>2. QED BY <2>1, <1>a DEF Buffered
<1>10. CASE WriteBack
  <2>1. Len(flight') = Len(flight) - 1 /\ mem' = mem /\ epc' = epc
    BY <1>10, <1>a, RangeTail DEF WriteBack
  <2>2. QED BY <2>1, <1>a DEF Buffered
<1>11. ASSUME UNCHANGED <<mem, flight, epc>> PROVE Buffered'
  BY <1>11 DEF Buffered
<1>12. CASE Shutdown \/ \E r \in Reports : Ripen(r)
  BY <1>11, <1>12 DEF Shutdown, Ripen
<1>13. CASE Tick \/ WakeUp \/ Stop \/ AbortFlush \/ MemoryEmpty \/ ListSpool
  BY <1>11, <1>13 DEF Tick, WakeUp, Stop, AbortFlush, MemoryEmpty, ListSpool
<1>14. CASE ParkExhausted \/ SkipFile \/ TakeFile \/ EndScan \/ ReadFile \/ ReadDone \/ Post
  BY <1>11, <1>14 DEF ParkExhausted, SkipFile, TakeFile, EndScan, ReadFile, ReadDone, Post
<1>15. CASE MemoryNotAcked \/ WriteBackDone
  BY <1>11, <1>15 DEF MemoryNotAcked, WriteBackDone
<1>16. CASE DiskAcked \/ DiskNotAcked \/ RemoveFile \/ BumpFile \/ BatchDone
  BY <1>11, <1>16 DEF DiskAcked, DiskNotAcked, RemoveFile, BumpFile, BatchDone
<1>17. CASE Exit \/ Crash \/ PowerLoss
  <2>1. Len(mem') = 0 /\ Len(flight') = 0
    BY <1>17 DEF Exit, Crash, PowerLoss, Reboot
  <2>2. QED BY <2>1, <1>a DEF Buffered
<1>18. QED
  BY <1>1, <1>2, <1>3, <1>4, <1>5, <1>6, <1>7, <1>8, <1>9, <1>10, <1>12, <1>13, <1>14, <1>15,
     <1>16, <1>17 DEF Next, Enqueue, Run

(* A set of reports is finite; a larger one has at least as many. *)
LEMMA ReportSets ==
    ASSUME NEW A \in SUBSET Reports
    PROVE  IsFiniteSet(A) /\ Cardinality(A) \in Nat
<1>1. IsFiniteSet(Reports)
  BY FS_Interval, BoundsAssumption DEF Reports
<1>2. QED BY <1>1, FS_Subset, FS_CardinalityType

(* The items of a sequence are at most as many as its positions. *)
LEMMA RangeSize ==
    ASSUME NEW s \in Seq(Reports)
    PROVE  Range(s) \subseteq Reports /\ Cardinality(Range(s)) <= Len(s)
<1>1. Len(s) \in Nat /\ DOMAIN s = 1..Len(s) /\ s \in [1..Len(s) -> Reports]
  OBVIOUS
<1>2. Range(s) \subseteq Reports
  BY <1>1 DEF Range
<1>3. s \in Surjection(1..Len(s), Range(s))
  BY <1>1 DEF Surjection, Range
<1>4. ExistsSurjection(1..Len(s), Range(s))
  BY <1>3 DEF ExistsSurjection
<1>5. QED BY <1>1, <1>2, <1>4, FS_SurjCardinalityBound

(* A union has at most as many elements as its parts together. *)
LEMMA UnionSize ==
    ASSUME NEW A \in SUBSET Reports, NEW B \in SUBSET Reports
    PROVE  Cardinality(A \cup B) <= Cardinality(A) + Cardinality(B)
<1>1. IsFiniteSet(A) /\ IsFiniteSet(B) /\ Cardinality(A) \in Nat /\ Cardinality(B) \in Nat
  BY ReportSets
<1>2. A \cap B \in SUBSET Reports
  OBVIOUS
<1>3. Cardinality(A \cap B) \in Nat
  BY <1>2, ReportSets
<1>4. Cardinality(A \cup B) = Cardinality(A) + Cardinality(B) - Cardinality(A \cap B)
  BY <1>1, FS_Union
<1>5. QED BY <1>1, <1>3, <1>4

(* A restart drops no more than Exposure reports. *)
LEMMA ExposureBounds ==
    IInv /\ Named /\ Buffered =>
        Volatile \subseteq Reports /\ Cardinality(Volatile) <= Exposure /\ Exposure \in Nat
<1> SUFFICES ASSUME IInv, Named, Buffered
             PROVE  Volatile \subseteq Reports /\ Cardinality(Volatile) <= Exposure /\ Exposure \in Nat
  OBVIOUS
<1>0. TypeOK /\ Phase
  BY DEF IInv
<1>1. /\ mem \in Seq(Reports) /\ flight \in Seq(Reports)
      /\ Len(mem) \in Nat /\ Len(flight) \in Nat
      /\ MemoryBuffer \in Nat /\ MaxBatch \in Nat
  BY <1>0, NewQueueAssumption DEF TypeOK
<1>2. /\ Range(mem) \in SUBSET Reports /\ Cardinality(Range(mem)) <= Len(mem)
      /\ Range(flight) \in SUBSET Reports /\ Cardinality(Range(flight)) <= Len(flight)
  BY <1>1, RangeSize
<1>3. RepsOf(hand) \in SUBSET Reports
  BY <1>0, Files
<1>4. Len(mem) + Cardinality(RepsOf(hand)) <= MemoryBuffer + 1
  <2>1. CASE hand = {}
    <3>1. Cardinality(RepsOf(hand)) = 0
      BY <2>1, FS_EmptySet DEF RepsOf
    <3>2. QED BY <3>1, <1>1 DEF Buffered
  <2>2. CASE hand # {}
    <3>1. PICK f : f \in hand
      BY <2>2
    <3>2. RepsOf(hand) = {f.rep}
      BY <3>1 DEF Named, RepsOf
    <3>3. Cardinality(RepsOf(hand)) = 1
      BY <3>2, FS_Singleton
    <3>4. epc # "spill"
      BY <2>2, <1>0 DEF Phase
    <3>5. QED BY <3>3, <3>4, <1>1 DEF Buffered
  <2>3. QED BY <2>1, <2>2
<1>5. Range(mem) \cup Range(flight) \in SUBSET Reports
  BY <1>2
<1>6. /\ Cardinality(Range(mem)) \in Nat /\ Cardinality(Range(flight)) \in Nat
      /\ Cardinality(RepsOf(hand)) \in Nat
      /\ Cardinality(Range(mem) \cup Range(flight)) \in Nat
  BY <1>2, <1>3, <1>5, ReportSets
<1>7. /\ Cardinality(Range(mem) \cup Range(flight)) <= Cardinality(Range(mem)) + Cardinality(Range(flight))
      /\ Cardinality(Volatile) <= Cardinality(Range(mem) \cup Range(flight)) + Cardinality(RepsOf(hand))
  BY <1>2, <1>3, <1>5, UnionSize DEF Volatile
<1>8. Volatile \in SUBSET Reports
  BY <1>3, <1>5 DEF Volatile
<1>9. Cardinality(Volatile) \in Nat
  BY <1>8, ReportSets
<1>10. Cardinality(Volatile) <= MemoryBuffer + 1 + Len(flight)
  BY <1>1, <1>2, <1>4, <1>6, <1>7, <1>9
<1>11. Exposure \in Nat /\ MemoryBuffer + 1 + Len(flight) <= Exposure
  BY <1>1 DEF Buffered, Exposure
<1>12. QED BY <1>1, <1>8, <1>9, <1>10, <1>11

(* One report more, at most. *)
LEMMA OneMore ==
    ASSUME NEW A \in SUBSET Reports, NEW r, NEW B, B \subseteq A \cup {r}
    PROVE  Cardinality(B) <= Cardinality(A) + 1
<1>1. IsFiniteSet(A) /\ Cardinality(A) \in Nat
  BY ReportSets
<1>2. IsFiniteSet(A \cup {r}) /\ Cardinality(A \cup {r}) <= Cardinality(A) + 1
  BY <1>1, FS_AddElement
<1>3. Cardinality(B) <= Cardinality(A \cup {r}) /\ Cardinality(B) \in Nat /\ Cardinality(A \cup {r}) \in Nat
  BY <1>2, FS_Subset, FS_CardinalityType
<1>4. QED BY <1>1, <1>2, <1>3

(* What the account adds up is finite. *)
LEMMA Countable ==
    TypeOK /\ Phase /\ Named =>
        /\ lost \in SUBSET Reports /\ RepsOf(Unread) \in SUBSET Reports
        /\ IsFiniteSet(torn \ NamesOf(dir))
        /\ Cardinality(lost) \in Nat /\ Cardinality(RepsOf(Unread)) \in Nat
        /\ Cardinality(torn \ NamesOf(dir)) \in Nat
        /\ faults \in Nat /\ restarts \in Nat /\ restarts * Exposure \in Nat
<1> SUFFICES ASSUME TypeOK, Phase, Named
             PROVE  /\ lost \in SUBSET Reports /\ RepsOf(Unread) \in SUBSET Reports
                    /\ IsFiniteSet(torn \ NamesOf(dir))
                    /\ Cardinality(lost) \in Nat /\ Cardinality(RepsOf(Unread)) \in Nat
                    /\ Cardinality(torn \ NamesOf(dir)) \in Nat
                    /\ faults \in Nat /\ restarts \in Nat /\ restarts * Exposure \in Nat
  OBVIOUS
<1>1. lost \in SUBSET Reports /\ faults \in Nat /\ restarts \in Nat
  BY DEF TypeOK
<1>2. RepsOf(Unread) \in SUBSET Reports
  <2>1. Unread \subseteq batch
    BY DEF Unread, Opened
  <2>2. RepsOf(Unread) \subseteq RepsOf(batch)
    BY <2>1 DEF RepsOf
  <2>3. QED BY <2>2, Files
<1>3. IsFiniteSet(torn \ NamesOf(dir)) /\ Cardinality(torn \ NamesOf(dir)) \in Nat
  <2>1. torn \ NamesOf(dir) \in SUBSET torn
    OBVIOUS
  <2>2. IsFiniteSet(torn \ NamesOf(dir))
    BY <2>1, FS_Subset DEF Named
  <2>3. QED BY <2>2, FS_CardinalityType
<1>4. restarts * Exposure \in Nat
  <2>1. Exposure \in Nat
    BY NewQueueAssumption DEF Exposure
  <2>2. QED BY <1>1, <2>1
<1>5. QED BY <1>1, <1>2, <1>3, <1>4, ReportSets

(* A step keeps the account when what it adds to one side it adds to the other. *)
LEMMA Balance ==
    ASSUME IInv, Named, LossAccount, TypeOK', Phase', Named',
           NEW x \in Int, NEW y \in Int, NEW z \in Int, NEW w \in Int,
           Cardinality(lost') <= Cardinality(lost) + x,
           Cardinality(RepsOf(Unread)') <= Cardinality(RepsOf(Unread)) + y,
           Cardinality((torn \ NamesOf(dir))') >= Cardinality(torn \ NamesOf(dir)) + z,
           restarts' * Exposure = restarts * Exposure + w,
           faults + x + y <= faults' + z + w
    PROVE  LossAccount'
<1>0. TypeOK /\ Phase
  BY DEF IInv
<1>1. /\ Cardinality(lost) \in Nat /\ Cardinality(RepsOf(Unread)) \in Nat
      /\ Cardinality(torn \ NamesOf(dir)) \in Nat
      /\ faults \in Nat /\ restarts * Exposure \in Nat
  BY <1>0, Countable
<1>c. (TypeOK /\ Phase /\ Named =>
        /\ lost \in SUBSET Reports /\ RepsOf(Unread) \in SUBSET Reports
        /\ IsFiniteSet(torn \ NamesOf(dir))
        /\ Cardinality(lost) \in Nat /\ Cardinality(RepsOf(Unread)) \in Nat
        /\ Cardinality(torn \ NamesOf(dir)) \in Nat
        /\ faults \in Nat /\ restarts \in Nat /\ restarts * Exposure \in Nat)'
  BY Countable, PTL
<1>2. /\ Cardinality(lost') \in Nat /\ Cardinality(RepsOf(Unread)') \in Nat
      /\ Cardinality((torn \ NamesOf(dir))') \in Nat
      /\ faults' \in Nat
  BY <1>c
<1>3. ASSUME NEW a \in Nat, NEW b \in Nat, NEW c \in Nat, NEW d \in Nat, NEW e \in Nat,
             NEW a1 \in Nat, NEW b1 \in Nat, NEW c1 \in Nat, NEW d1 \in Nat,
             a + b <= c + d + e, a1 <= a + x, b1 <= b + y, d1 >= d + z, c + x + y <= c1 + z + w
      PROVE  a1 + b1 <= c1 + d1 + (e + w)
  BY <1>3
<1>4. Cardinality(lost) + Cardinality(RepsOf(Unread))
        <= faults + Cardinality(torn \ NamesOf(dir)) + restarts * Exposure
  BY DEF LossAccount
<1>5. Cardinality(lost') + Cardinality(RepsOf(Unread)')
        <= faults' + Cardinality((torn \ NamesOf(dir))') + (restarts * Exposure + w)
  BY <1>1, <1>2, <1>3, <1>4
<1>6. Exposure' = Exposure
  BY DEF Exposure
<1>7. QED BY <1>5, <1>6 DEF LossAccount

(* The parts of the account that a step does not make worse. *)
LEMMA NoWorse ==
    ASSUME IInv, Named, TypeOK', Phase', Named'
    PROVE  /\ lost' \subseteq lost => Cardinality(lost') <= Cardinality(lost)
           /\ RepsOf(Unread)' \subseteq RepsOf(Unread) => Cardinality(RepsOf(Unread)') <= Cardinality(RepsOf(Unread))
           /\ torn \ NamesOf(dir) \subseteq (torn \ NamesOf(dir))'
                => Cardinality((torn \ NamesOf(dir))') >= Cardinality(torn \ NamesOf(dir))
           /\ Cardinality(lost) \in Nat /\ Cardinality(RepsOf(Unread)) \in Nat
           /\ Cardinality(torn \ NamesOf(dir)) \in Nat
           /\ lost \in SUBSET Reports /\ RepsOf(Unread) \in SUBSET Reports
           /\ faults \in Nat /\ faults' \in Nat /\ restarts \in Nat /\ restarts * Exposure \in Nat
           /\ IsFiniteSet((torn \ NamesOf(dir))')
           /\ Cardinality((torn \ NamesOf(dir))') \in Nat
<1>0. TypeOK /\ Phase
  BY DEF IInv
<1>1. /\ lost \in SUBSET Reports /\ RepsOf(Unread) \in SUBSET Reports
      /\ Cardinality(lost) \in Nat /\ Cardinality(RepsOf(Unread)) \in Nat
      /\ Cardinality(torn \ NamesOf(dir)) \in Nat
      /\ faults \in Nat /\ restarts \in Nat /\ restarts * Exposure \in Nat
  BY <1>0, Countable
<1>c. (TypeOK /\ Phase /\ Named =>
        /\ lost \in SUBSET Reports /\ RepsOf(Unread) \in SUBSET Reports
        /\ IsFiniteSet(torn \ NamesOf(dir))
        /\ Cardinality(lost) \in Nat /\ Cardinality(RepsOf(Unread)) \in Nat
        /\ Cardinality(torn \ NamesOf(dir)) \in Nat
        /\ faults \in Nat /\ restarts \in Nat /\ restarts * Exposure \in Nat)'
  BY Countable, PTL
<1>2. /\ IsFiniteSet((torn \ NamesOf(dir))') /\ faults' \in Nat
      /\ Cardinality((torn \ NamesOf(dir))') \in Nat
  BY <1>c
<1>3. IsFiniteSet(lost) /\ IsFiniteSet(RepsOf(Unread))
  BY <1>1, ReportSets
<1>4. lost' \subseteq lost => Cardinality(lost') <= Cardinality(lost)
  BY <1>3, FS_Subset
<1>5. RepsOf(Unread)' \subseteq RepsOf(Unread) => Cardinality(RepsOf(Unread)') <= Cardinality(RepsOf(Unread))
  BY <1>3, FS_Subset
<1>6. torn \ NamesOf(dir) \subseteq (torn \ NamesOf(dir))'
        => Cardinality(torn \ NamesOf(dir)) <= Cardinality((torn \ NamesOf(dir))')
  BY <1>2, FS_Subset
<1>7. QED BY <1>1, <1>2, <1>4, <1>5, <1>6

(* The account only gets better when nothing is lost, no read fails and no name
   comes back. *)
LEMMA AccountKept ==
    ASSUME IInv, Named, LossAccount, TypeOK', Phase', Named',
           faults' >= faults, restarts' = restarts,
           lost' = lost, RepsOf(Unread)' \subseteq RepsOf(Unread),
           torn \ NamesOf(dir) \subseteq (torn \ NamesOf(dir))'
    PROVE  LossAccount'
<1>1. /\ Cardinality(lost') <= Cardinality(lost) + 0
      /\ Cardinality(RepsOf(Unread)') <= Cardinality(RepsOf(Unread)) + 0
      /\ Cardinality((torn \ NamesOf(dir))') >= Cardinality(torn \ NamesOf(dir)) + 0
      /\ restarts' * Exposure = restarts * Exposure + 0
      /\ faults + 0 + 0 <= faults' + 0 + 0
  BY NoWorse
<1>2. 0 \in Int
  OBVIOUS
<1>3. QED BY <1>1, <1>2, Balance, Zenon

(* Steps that lose nothing, read nothing wrongly and keep the names of the spool
   but for those of parked files. *)
LEMMA LightSteps ==
    ASSUME IInv, [Next]_vars
    PROVE  \/ FailWrite \/ WriteBack \/ ReadFile \/ RemoveFile \/ Exit \/ Crash \/ PowerLoss
           \/ /\ lost' = lost /\ torn' = torn /\ restarts' = restarts
              /\ Unread' \subseteq Unread
              /\ NamesOf(dir') \subseteq NamesOf(dir \cup hand)
<1> DEFINE Goal == /\ lost' = lost /\ torn' = torn /\ restarts' = restarts
                   /\ Unread' \subseteq Unread
                   /\ NamesOf(dir') \subseteq NamesOf(dir \cup hand)
<1>0. TypeOK /\ Phase
  BY DEF IInv
<1>d. ASSUME FlushReturns PROVE fpc' \in {"flush", "select"}
  BY <1>d DEF FlushReturns
<1> USE DEF producerVars, sharedVars, flusherVars, diskVars, envVars, historyVars
<1>a. ASSUME dir' \subseteq dir \cup hand PROVE NamesOf(dir') \subseteq NamesOf(dir \cup hand)
  BY <1>a DEF NamesOf
<1>b. ASSUME UNCHANGED <<fpc, batch, todo, readable, torn>> PROVE Unread' \subseteq Unread
  BY <1>b DEF Unread, Opened
<1>c. ASSUME fpc' \notin {"read", "sendDisk", "awaitDisk", "remove"} PROVE Unread' \subseteq Unread
  BY <1>c DEF Unread
<1>1. CASE UNCHANGED vars
  BY <1>1, <1>a, <1>b DEF vars
<1>2. CASE AcceptDirect \/ AcceptToMemory \/ Shutdown \/ \E r \in Reports : Ripen(r)
  BY <1>2, <1>a, <1>b DEF AcceptDirect, AcceptToMemory, Shutdown, Ripen
<1>3. CASE SpillHead \/ CommitWrite \/ UnlockMu \/ SignalFlush
  BY <1>3, <1>a, <1>b DEF SpillHead, CommitWrite, UnlockMu, SignalFlush
<1>4. CASE Tick \/ WakeUp \/ Stop \/ AbortFlush \/ TakeMemory \/ MemoryEmpty \/ ListSpool
  BY <1>4, <1>a, <1>c, <1>d DEF Tick, WakeUp, Stop, AbortFlush, TakeMemory, MemoryEmpty, ListSpool
<1>5. CASE ParkExhausted \/ SkipFile \/ TakeFile
  BY <1>5, <1>a, <1>c DEF ParkExhausted, SkipFile, TakeFile, Scanning
<1>6. CASE EndScan
  <2>1. Unread' = {}
    BY <1>6, <1>d DEF EndScan, Unread, Opened
  <2>2. QED BY <1>6, <2>1, <1>a DEF EndScan
<1>7. CASE ReadDone
  <2>1. CASE readable = {}
    BY <1>7, <2>1, <1>a, <1>c, <1>d DEF ReadDone
  <2>2. CASE readable # {}
    <3>1. /\ fpc = "read" /\ todo = {} /\ batch' = batch /\ readable' = readable
          /\ fpc' = "sendDisk" /\ torn' = torn
      BY <1>7, <2>2 DEF ReadDone
    <3>2. Unread' = Unread
      BY <3>1 DEF Unread, Opened
    <3>3. QED BY <1>7, <3>2, <1>a DEF ReadDone
  <2>3. QED BY <2>1, <2>2
<1>8. CASE Post \/ DiskAcked
  <2>1. /\ fpc \in {"sendMem", "sendDisk", "awaitDisk"}
        /\ fpc = "sendMem" => fpc' = "awaitMem"
        /\ fpc' # "read" /\ UNCHANGED <<batch, readable, torn>>
    BY <1>8 DEF Post, DiskAcked
  <2>2. Unread' \subseteq Unread
    BY <2>1 DEF Unread, Opened
  <2>3. QED BY <1>8, <2>2, <1>a DEF Post, DiskAcked
<1>9. CASE MemoryAcked \/ MemoryNotAcked \/ WriteBackDone \/ DiskNotAcked \/ BatchDone
  BY <1>9, <1>a, <1>c, <1>d DEF MemoryAcked, MemoryNotAcked, WriteBackDone, DiskNotAcked, BatchDone
<1>10. CASE BumpFile
  <2>a. PICK f \in batch : \/ dir' = (dir \ {f}) \cup {[f EXCEPT !.tries = @ + 1]}
                           \/ dir' = dir
    BY <1>10 DEF BumpFile
  <2>b. PICK g : g = [f EXCEPT !.tries = @ + 1]
    OBVIOUS
  <2>1. f \in dir /\ g.name = f.name
    BY <2>b, <1>0 DEF Phase, TypeOK, File
  <2>2. dir' \subseteq dir \cup {g}
    BY <2>a, <2>b
  <2>3. NamesOf(dir') \subseteq NamesOf(dir \cup hand)
    BY <2>1, <2>2 DEF NamesOf
  <2>4. QED BY <1>10, <2>3, <1>c DEF BumpFile
<1>11. QED
  BY <1>1, <1>2, <1>3, <1>4, <1>5, <1>6, <1>7, <1>8, <1>9, <1>10 DEF Next, Enqueue, Run

(* Every step keeps the account. *)
LEMMA LossStep ==
    ASSUME IInv, Blame, Named, Buffered, LossAccount, [Next]_vars
    PROVE  LossAccount'
<1>0. TypeOK /\ Phase /\ SingleCustody /\ TypeOK' /\ Phase' /\ Named'
  BY IInvStep, NamedStep DEF IInv
<1>a. /\ lost' \subseteq lost => Cardinality(lost') <= Cardinality(lost)
      /\ RepsOf(Unread)' \subseteq RepsOf(Unread) => Cardinality(RepsOf(Unread)') <= Cardinality(RepsOf(Unread))
      /\ torn \ NamesOf(dir) \subseteq (torn \ NamesOf(dir))'
           => Cardinality((torn \ NamesOf(dir))') >= Cardinality(torn \ NamesOf(dir))
      /\ Cardinality(lost) \in Nat /\ Cardinality(RepsOf(Unread)) \in Nat
      /\ Cardinality(torn \ NamesOf(dir)) \in Nat
      /\ lost \in SUBSET Reports /\ RepsOf(Unread) \in SUBSET Reports
      /\ faults \in Nat /\ faults' \in Nat /\ restarts \in Nat /\ restarts * Exposure \in Nat
      /\ IsFiniteSet((torn \ NamesOf(dir))')
      /\ Cardinality((torn \ NamesOf(dir))') \in Nat
  BY <1>0, NoWorse
<1>b. 0 \in Int /\ 1 \in Int /\ -1 \in Int
  OBVIOUS
<1>c. faults' >= faults
  BY Counters
<1>d. /\ faults + 1 + 0 <= faults' + 1 + 0
      /\ faults + 1 + (-1) <= faults' + 0 + 0
  <2>1. ASSUME NEW a \in Nat, NEW b \in Nat, b >= a
        PROVE  a + 1 + 0 <= b + 1 + 0 /\ a + 1 + (-1) <= b + 0 + 0
    BY ONLY <2>1
  <2>2. faults \in Nat /\ faults' \in Nat
    BY <1>a
  <2>3. QED BY <1>c, <2>1, <2>2
<1> USE DEF producerVars, sharedVars, flusherVars, diskVars, envVars, historyVars
<1>1. CASE /\ lost' = lost /\ torn' = torn /\ restarts' = restarts
           /\ Unread' \subseteq Unread
           /\ NamesOf(dir') \subseteq NamesOf(dir \cup hand)
  <2>1. RepsOf(Unread)' \subseteq RepsOf(Unread)
    BY <1>1 DEF RepsOf
  <2>2. torn \ NamesOf(dir) \subseteq (torn \ NamesOf(dir))'
    BY <1>1 DEF Named, NamesOf
  <2>3. QED BY <1>0, <1>1, <1>c, <2>1, <2>2, AccountKept
<1>2. ASSUME NEW r, lost' \subseteq lost \cup {r}, Fault,
             RepsOf(Unread)' \subseteq RepsOf(Unread), restarts' = restarts,
             torn \ NamesOf(dir) \subseteq (torn \ NamesOf(dir))'
      PROVE  LossAccount'
  <2>1. Cardinality(lost') <= Cardinality(lost) + 1
    BY <1>2, <1>a, OneMore
  <2>2. faults' = faults + 1
    BY <1>2 DEF Fault
  <2>3. /\ Cardinality(RepsOf(Unread)') <= Cardinality(RepsOf(Unread)) + 0
        /\ Cardinality((torn \ NamesOf(dir))') >= Cardinality(torn \ NamesOf(dir)) + 0
    BY <1>2, <1>a
  <2>4. restarts' * Exposure = restarts * Exposure + 0
    BY <1>2, <1>a
  <2>5. faults + 1 + 0 <= faults' + 0 + 0
    BY <2>2, <1>a
  <2>6. QED BY <1>0, <1>b, <2>1, <2>3, <2>4, <2>5, Balance, Zenon
<1>3. CASE FailWrite
  <2>1. /\ Fault /\ lost' = lost \cup (RepsOf(hand) \ received)
        /\ UNCHANGED <<fpc, todo, batch, readable, torn, dir, restarts>>
    BY <1>3 DEF FailWrite, Drop
  <2>2. PICK r : RepsOf(hand) \subseteq {r}
    <3>1. CASE hand = {}
      BY <3>1 DEF RepsOf
    <3>2. CASE hand # {}
      BY <3>2 DEF Named, RepsOf
    <3>3. QED BY <3>1, <3>2
  <2>3. lost' \subseteq lost \cup {r}
    BY <2>1, <2>2
  <2>4. Unread' = Unread /\ (torn \ NamesOf(dir))' = torn \ NamesOf(dir)
    BY <2>1 DEF Unread, Opened
  <2>5. QED BY <1>2, <2>1, <2>3, <2>4
<1>4. CASE WriteBack
  <2>1. /\ fpc = "writeBack" /\ fpc' = "writeBack" /\ torn' = torn /\ restarts' = restarts
        /\ \/ dir' = dir \cup {NewFile(Head(flight))} /\ lost' = lost
           \/ Fault /\ lost' = lost \cup ({Head(flight)} \ received) /\ dir' = dir
    BY <1>4 DEF WriteBack, Drop
  <2>2. RepsOf(Unread)' \subseteq RepsOf(Unread)
    BY <2>1 DEF Unread, RepsOf
  <2>3. CASE dir' = dir \cup {NewFile(Head(flight))} /\ lost' = lost
    <3>1. NewFile(Head(flight)).name \notin torn
      <4>1. NewFile(Head(flight)).name = stamps + 1 /\ stamps \in Nat
        BY <1>0 DEF NewFile, TypeOK
      <4>2. stamps + 1 \notin torn
        BY <4>1 DEF Named
      <4>3. QED BY <4>1, <4>2
    <3>2. torn \ NamesOf(dir) \subseteq (torn \ NamesOf(dir))'
      BY <2>1, <2>3, <3>1 DEF NamesOf
    <3>3. QED BY <1>0, <1>c, <2>1, <2>2, <2>3, <3>2, AccountKept
  <2>4. CASE Fault /\ lost' = lost \cup ({Head(flight)} \ received) /\ dir' = dir
    <3>1. torn \ NamesOf(dir) \subseteq (torn \ NamesOf(dir))'
      BY <2>1, <2>4
    <3>2. lost' \subseteq lost \cup {Head(flight)}
      BY <2>4
    <3>3. QED BY <1>2, <2>1, <2>2, <2>4, <3>1, <3>2
  <2>5. QED BY <2>1, <2>3, <2>4
<1>5. CASE ReadFile
  <2>1. PICK f \in todo :
          /\ todo' = todo \ {f}
          /\ \/ readable' = (IF f.name \in torn THEN readable ELSE readable \cup {f}) /\ faults' = faults
             \/ Fault /\ readable' = readable
    BY <1>5 DEF ReadFile
  <2>2. /\ fpc = "read" /\ fpc' = "read"
        /\ UNCHANGED <<batch, torn, dir, lost, restarts>>
    BY <1>5 DEF ReadFile
  <2>3. torn \ NamesOf(dir) \subseteq (torn \ NamesOf(dir))'
    BY <2>2
  <2>4. CASE readable' = (IF f.name \in torn THEN readable ELSE readable \cup {f}) /\ faults' = faults
    <3>1. Unread' \subseteq Unread
      BY <2>1, <2>2, <2>4 DEF Unread, Opened
    <3>2. RepsOf(Unread)' \subseteq RepsOf(Unread)
      BY <3>1 DEF RepsOf
    <3>3. QED BY <1>0, <1>c, <2>2, <2>3, <3>2, AccountKept
  <2>5. CASE Fault /\ readable' = readable
    <3>1. Unread' \subseteq Unread \cup {f}
      BY <2>1, <2>2, <2>5 DEF Unread, Opened
    <3>2. RepsOf(Unread)' \subseteq RepsOf(Unread) \cup {f.rep}
      BY <3>1 DEF RepsOf
    <3>3. Cardinality(RepsOf(Unread)') <= Cardinality(RepsOf(Unread)) + 1
      BY <3>2, <1>a, OneMore
    <3>4. /\ Cardinality(lost') <= Cardinality(lost) + 0
          /\ Cardinality((torn \ NamesOf(dir))') >= Cardinality(torn \ NamesOf(dir)) + 0
      BY <2>2, <2>3, <1>a
    <3>5. restarts' * Exposure = restarts * Exposure + 0
      BY <2>2, <1>a
    <3>6. faults + 0 + 1 <= faults' + 0 + 0
      BY <2>5, <1>a DEF Fault
    <3>7. QED BY <1>0, <1>b, <3>3, <3>4, <3>5, <3>6, Balance, Zenon
  <2>6. QED BY <2>1, <2>4, <2>5
<1>6. CASE RemoveFile
  <2>1. PICK f \in batch : /\ batch' = batch \ {f}
                           /\ \/ dir' = dir \ {f} /\ Drop({f.rep})
                              \/ dir' = dir /\ lost' = lost
    BY <1>6 DEF RemoveFile
  <2>2. /\ f \in dir /\ batch \subseteq dir /\ fpc = "remove" /\ fpc' = "remove"
        /\ UNCHANGED <<readable, torn, received, restarts>>
    BY <1>6, <1>0 DEF RemoveFile, Phase
  <2>3. Unread' = Unread \ {f} /\ Unread \subseteq dir
    BY <2>1, <2>2 DEF Unread, Opened
  <2>4. RepsOf(Unread)' \subseteq RepsOf(Unread)
    BY <2>3 DEF RepsOf
  <2>5. torn \ NamesOf(dir) \subseteq (torn \ NamesOf(dir))'
    BY <2>1, <2>2 DEF NamesOf
  <2>6. CASE lost' = lost
    BY <1>0, <1>c, <2>2, <2>4, <2>5, <2>6, AccountKept
  <2>7. CASE dir' = dir \ {f} /\ Drop({f.rep})
    <3>1. lost' \subseteq lost \cup {f.rep}
      BY <2>7 DEF Drop
    <3>2. Cardinality(lost') <= Cardinality(lost) + 1
      BY <3>1, <1>a, OneMore
    <3>3. restarts' * Exposure = restarts * Exposure + 0
      BY <2>2, <1>a
    <3>4. CASE f \in readable
      <4>1. f.rep \in received
        BY <2>2, <3>4 DEF Blame, RepsOf
      <4>2. lost' = lost
        BY <2>7, <4>1 DEF Drop
      <4>3. QED BY <4>2, <2>6
    <3>5. CASE f \notin readable /\ f.name \in torn
      <4>1. f.name \notin NamesOf(dir') /\ f.name \in NamesOf(dir)
        BY <2>2, <2>7 DEF Named, NamesOf
      <4>2. /\ f.name \in (torn \ NamesOf(dir))' /\ f.name \notin torn \ NamesOf(dir)
        BY <4>1, <2>2, <3>5
      <4>3. torn \ NamesOf(dir) \subseteq (torn \ NamesOf(dir))' \ {f.name}
        BY <4>2, <2>5
      <4>4. /\ IsFiniteSet((torn \ NamesOf(dir))' \ {f.name})
            /\ Cardinality((torn \ NamesOf(dir))' \ {f.name}) = Cardinality((torn \ NamesOf(dir))') - 1
        BY <4>2, <1>a, FS_RemoveElement
      <4>5. Cardinality(torn \ NamesOf(dir)) <= Cardinality((torn \ NamesOf(dir))' \ {f.name})
        BY <4>3, <4>4, FS_Subset
      <4>6. Cardinality((torn \ NamesOf(dir))') >= Cardinality(torn \ NamesOf(dir)) + 1
        BY <4>4, <4>5, <1>a
      <4>7. Cardinality(RepsOf(Unread)') <= Cardinality(RepsOf(Unread)) + 0
        BY <2>4, <1>a
      <4>8. faults + 1 + 0 <= faults' + 1 + 0
        BY <1>d
      <4>9. QED BY <1>0, <1>b, <3>2, <3>3, <4>6, <4>7, <4>8, Balance, Zenon
    <3>6. CASE f \notin readable /\ f.name \notin torn
      <4>1. f \in Unread
        BY <2>2, <3>6 DEF Unread, Opened
      <4>2. f.rep \in RepsOf(Unread) /\ f.rep \notin RepsOf(Unread)'
        BY <4>1, <2>2, <2>3, <1>0 DEF RepsOf, SingleCustody, OneFileEach
      <4>3. RepsOf(Unread)' \subseteq RepsOf(Unread) \ {f.rep}
        BY <4>2, <2>4
      <4>4. IsFiniteSet(RepsOf(Unread))
        BY <1>a, ReportSets
      <4>5. /\ IsFiniteSet(RepsOf(Unread) \ {f.rep})
            /\ Cardinality(RepsOf(Unread) \ {f.rep}) = Cardinality(RepsOf(Unread)) - 1
        BY <4>2, <4>4, FS_RemoveElement
      <4>6. Cardinality(RepsOf(Unread)') <= Cardinality(RepsOf(Unread) \ {f.rep})
        BY <4>3, <4>5, FS_Subset
      <4>7. Cardinality(RepsOf(Unread)') <= Cardinality(RepsOf(Unread)) + (-1)
        BY <4>5, <4>6, <1>a
      <4>8. Cardinality((torn \ NamesOf(dir))') >= Cardinality(torn \ NamesOf(dir)) + 0
        BY <2>5, <1>a
      <4>9. faults + 1 + (-1) <= faults' + 0 + 0
        BY <1>d
      <4>10. QED BY <1>0, <1>b, <3>2, <3>3, <4>7, <4>8, <4>9, Balance, Zenon
    <3>7. QED BY <3>4, <3>5, <3>6
  <2>8. QED BY <2>1, <2>6, <2>7
<1>7. CASE Exit \/ Crash \/ PowerLoss
  <2>1. /\ lost' = lost \cup (Volatile \ received) /\ restarts' = restarts + 1
        /\ fpc' = "flush" /\ dir' = dir /\ faults' = faults
    BY <1>7 DEF Exit, Crash, PowerLoss, Reboot, Drop
  <2>2. torn' = torn \/ \E f \in dir : torn' = torn \cup {f.name}
    BY <1>7 DEF Exit, Crash, PowerLoss
  <2>3. Unread' = {} /\ RepsOf(Unread)' \subseteq RepsOf(Unread)
    BY <2>1 DEF Unread, RepsOf
  <2>4. torn \ NamesOf(dir) \subseteq (torn \ NamesOf(dir))'
    BY <2>1, <2>2
  <2>5. Volatile \subseteq Reports /\ Cardinality(Volatile) <= Exposure /\ Exposure \in Nat
    BY ExposureBounds
  <2>6. Cardinality(lost') <= Cardinality(lost) + Exposure
    <3>1. Cardinality(lost \cup Volatile) <= Cardinality(lost) + Cardinality(Volatile)
      BY <1>a, <2>5, UnionSize
    <3>2. lost \cup Volatile \in SUBSET Reports /\ lost' \subseteq lost \cup Volatile
      BY <1>a, <2>1, <2>5
    <3>3. IsFiniteSet(lost \cup Volatile) /\ Cardinality(lost \cup Volatile) \in Nat
      BY <3>2, ReportSets
    <3>4. Cardinality(lost') <= Cardinality(lost \cup Volatile) /\ Cardinality(lost') \in Nat
      BY <3>2, <3>3, FS_Subset, FS_CardinalityType
    <3>5. Cardinality(Volatile) \in Nat
      BY <2>5, ReportSets
    <3>6. QED BY <3>1, <3>3, <3>4, <3>5, <2>5, <1>a
  <2>7. restarts' * Exposure = restarts * Exposure + Exposure
    BY <2>1, <2>5, <1>a
  <2>8. /\ Cardinality(RepsOf(Unread)') <= Cardinality(RepsOf(Unread)) + 0
        /\ Cardinality((torn \ NamesOf(dir))') >= Cardinality(torn \ NamesOf(dir)) + 0
    BY <2>3, <2>4, <1>a
  <2>9. faults + Exposure + 0 <= faults' + 0 + Exposure
    BY <2>1, <2>5, <1>a
  <2>10. Exposure \in Int
    BY <2>5
  <2>11. QED BY <1>0, <1>b, <2>6, <2>7, <2>8, <2>9, <2>10, Balance, Zenon
<1>8. QED BY <1>1, <1>3, <1>4, <1>5, <1>6, <1>7, LightSteps

(* What is lost is bounded by the events that may lose something: a failed file
   system call and a damaged file cost one report each, a restart at most what
   the limits of the configuration let be off disk.  No answer of the endpoint and
   no interleaving of Enqueue and Run costs anything. *)
THEOREM LossBoundedHolds == Spec => []LossBounded
<1> DEFINE Account == Blame /\ Named /\ Buffered /\ LossAccount
<1>1. Init => Account
  <2> SUFFICES ASSUME Init PROVE Account
    OBVIOUS
  <2>1. Blame /\ Named /\ Buffered
    BY FS_EmptySet, NewQueueAssumption DEF Init, Blame, Named, Buffered, Unread, RepsOf, NamesOf
  <2>2. lost = {} /\ RepsOf(Unread) = {} /\ torn \ NamesOf(dir) = {}
    BY DEF Init, Unread, RepsOf
  <2>3. Cardinality(lost) = 0 /\ Cardinality(RepsOf(Unread)) = 0 /\ Cardinality(torn \ NamesOf(dir)) = 0
    BY <2>2, FS_EmptySet
  <2>4. faults = 0 /\ restarts * Exposure = 0
    <3>1. Exposure \in Nat /\ restarts = 0 /\ faults = 0
      BY NewQueueAssumption DEF Exposure, Init
    <3>2. QED BY <3>1
  <2>5. QED BY <2>1, <2>3, <2>4 DEF LossAccount
<1>2. IInv /\ Account /\ [Next]_vars => Account'
  BY BlameStep, NamedStep, BufferedStep, LossStep
<1>3. IInv /\ Account => LossBounded
  <2> SUFFICES ASSUME IInv, Account PROVE LossBounded
    OBVIOUS
  <2>0. TypeOK /\ Phase
    BY DEF IInv
  <2>1. /\ Cardinality(lost) \in Nat /\ Cardinality(RepsOf(Unread)) \in Nat
        /\ Cardinality(torn \ NamesOf(dir)) \in Nat
        /\ faults \in Nat /\ restarts * Exposure \in Nat
    BY <2>0, Countable
  <2>2. Cardinality(torn) \in Nat /\ Cardinality(torn \ NamesOf(dir)) <= Cardinality(torn)
    <3>1. torn \ NamesOf(dir) \in SUBSET torn /\ IsFiniteSet(torn)
      BY DEF Named
    <3>2. QED BY <3>1, FS_Subset, FS_CardinalityType
  <2>3. QED BY <2>1, <2>2 DEF LossAccount, LossBounded
<1>4. QED
  <2> HIDE DEF Account
  <2>1. QED BY <1>1, <1>2, <1>3, Invariance, PTL DEF Spec

-----------------------------------------------------------------------------
(* The limits of the configuration *)

(* The sizes along a sequence of reports, and their sum. *)
Sizes(s) == [i \in 1..Len(s) |-> Size[s[i]]]
Along(s) == SumOf(Sizes(s), 1..Len(s))

(* BytesOf is a sum of sizes, which grows with the set. *)
LEMMA Bytes ==
    ASSUME NEW A \in SUBSET Reports
    PROVE  /\ BytesOf(A) = SumOf(Size, A) /\ BytesOf(A) \in Nat
           /\ \A B \in SUBSET A : BytesOf(B) <= BytesOf(A) /\ BytesOf(B) \in Nat
<1>1. IsFiniteSet(A)
  BY ReportSets
<1>2. \A r \in A : Size[r] \in Nat
  BY BoundsAssumption
<1>3. \A R : BytesOf(R) = SumOf(Size, R)
  BY DEF BytesOf, SumOf
<1>4. SumOf(Size, A) \in Nat
  BY <1>1, <1>2, SumNat
<1>5. ASSUME NEW B \in SUBSET A
      PROVE  SumOf(Size, B) <= SumOf(Size, A) /\ SumOf(Size, B) \in Nat
  BY <1>1, <1>2, SumMonotone
<1> QED BY <1>3, <1>4, <1>5, Zenon

(* One report more adds at most its size. *)
LEMMA BytesAdd ==
    ASSUME NEW A \in SUBSET Reports, NEW r \in Reports
    PROVE  BytesOf(A \cup {r}) <= BytesOf(A) + Size[r] /\ BytesOf(A \cup {r}) \in Nat
<1>1. /\ BytesOf(A) = SumOf(Size, A) /\ BytesOf(A) \in Nat
      /\ BytesOf(A \cup {r}) \in Nat /\ BytesOf(A \cup {r}) = SumOf(Size, A \cup {r})
  BY Bytes
<1>2. Size[r] \in Nat
  BY BoundsAssumption
<1>3. CASE r \in A
  <2>1. A \cup {r} = A
    BY <1>3
  <2>2. BytesOf(A \cup {r}) = BytesOf(A)
    BY <2>1
  <2> QED BY <1>1, <1>2, <2>2
<1>4. CASE r \notin A
  <2>1. IsFiniteSet(A) /\ \A q \in A : Size[q] \in Int
    BY ReportSets, BoundsAssumption
  <2>2. SumOf(Size, A \cup {r}) = Size[r] + SumOf(Size, A)
    BY <1>2, <1>4, <2>1, SumInsert
  <2> QED BY <1>1, <1>2, <2>2
<1> QED BY <1>3, <1>4

(* The sizes of a sequence's reports are at most the sizes along it. *)
LEMMA BytesAlong ==
    ASSUME NEW s \in Seq(Reports)
    PROVE  BytesOf(Range(s)) <= Along(s) /\ Along(s) \in Nat
<1>1. Len(s) \in Nat /\ DOMAIN s = 1..Len(s) /\ \A i \in 1..Len(s) : s[i] \in Reports
  OBVIOUS
<1>2. Range(s) = {s[i] : i \in 1..Len(s)} /\ Range(s) \subseteq Reports
  BY <1>1 DEF Range
<1>3. \A i \in 1..Len(s) : Size[s[i]] \in Nat /\ Sizes(s)[i] = Size[s[i]]
  BY <1>1, BoundsAssumption DEF Sizes
<1>4. SumOf(Size, {s[i] : i \in 1..Len(s)}) <= SumOf(Sizes(s), 1..Len(s))
  <2> DEFINE g == Sizes(s)
  <2>1. \A i \in 1..Len(s) : g[i] = Size[s[i]]
    BY <1>3
  <2> HIDE DEF g
  <2>2. SumOf(Size, {s[i] : i \in 1..Len(s)}) <= SumOf(g, 1..Len(s))
    BY <1>1, <1>3, <2>1, SumOfItems
  <2> QED BY <2>2 DEF g
<1>5. BytesOf(Range(s)) = SumOf(Size, Range(s))
  BY <1>2, Bytes
<1>6. Along(s) \in Nat
  <2> DEFINE g == Sizes(s)
             P == 1..Len(s)
  <2>1. IsFiniteSet(P)
    BY <1>1, FS_Interval
  <2>2. \A i \in P : g[i] \in Nat
    BY <1>3
  <2> HIDE DEF g, P
  <2>3. SumOf(g, P) \in Nat
    BY <2>1, <2>2, SumNat
  <2> QED BY <2>3 DEF Along, g, P
<1> QED BY <1>2, <1>4, <1>5, <1>6 DEF Along

(* PrefixBytes adds up the sizes of the oldest reports in memory. *)
LEMMA PrefixIsSum ==
    ASSUME TypeOK, NEW n \in Nat, n <= Len(mem)
    PROVE  PrefixBytes(n) = SumOf(Sizes(mem), 1..n)
<1> DEFINE S == 1..n
           E(g) == g = [s \in SUBSET S |-> IF s = {} THEN 0 ELSE Size[mem[Pick(s)]] + g[s \ {Pick(s)}]]
           h == Sums(Sizes(mem), S)
<1>1. PrefixBytes(n) = (CHOOSE g : E(g))[S]
  BY DEF PrefixBytes, MapThenSumSet, MapThenFoldSet, Pick
<1>2. \A i \in S : Sizes(mem)[i] = Size[mem[i]]
  BY DEF Sizes, TypeOK
<1>3. IsFiniteSet(S)
  BY FS_Interval
<1>4. \A g : E(g) <=> SumEquation(Sizes(mem), S, g)
  <2>1. \A s \in SUBSET S : s # {} => Pick(s) \in S
    BY Picked
  <2>2. \A s \in SUBSET S : s # {} => Sizes(mem)[Pick(s)] = Size[mem[Pick(s)]]
    BY <2>1, <1>2
  <2> HIDE DEF S
  <2> QED BY <2>2 DEF SumEquation
<1>5. SumEquation(Sizes(mem), S, h)
  BY <1>3, SumExists
<1>6. E(CHOOSE g : E(g))
  <2> HIDE DEF E
  <2> QED BY <1>4, <1>5
<1> DEFINE k == CHOOSE g : E(g)
<1>7. SumEquation(Sizes(mem), S, k)
  <2> HIDE DEF E
  <2> QED BY <1>4, <1>6
<1>8. k[S] = h[S]
  <2> HIDE DEF k, h, S
  <2> QED BY <1>3, <1>5, <1>7, SumUnique
<1>9. SumOf(Sizes(mem), S) = h[S]
  BY SumIsFunction
<1> QED BY <1>1, <1>8, <1>9

(* The bytes of two parts of a sequence. *)
LEMMA AlongCut ==
    ASSUME NEW s \in Seq(Reports), NEW n \in Nat, n <= Len(s), NEW t \in Seq(Reports),
           Len(t) = Len(s) - n, \A i \in 1..Len(t) : t[i] = s[n + i]
    PROVE  Along(s) = SumOf(Sizes(s), 1..n) + Along(t)
<1>1. Len(s) \in Nat /\ Len(t) \in Nat /\ Len(s) = n + Len(t)
  OBVIOUS
<1>2. \A i \in 1..Len(s) : Sizes(s)[i] \in Int /\ Sizes(s)[i] = Size[s[i]]
  <2>1. \A i \in 1..Len(s) : s[i] \in Reports
    OBVIOUS
  <2> QED BY <2>1, BoundsAssumption DEF Sizes
<1>3. \A i \in 1..Len(t) : n + i \in 1..Len(s)
  BY <1>1
<1>4. \A i \in 1..Len(t) : Sizes(t)[i] = Sizes(s)[n + i]
  BY <1>2, <1>3 DEF Sizes
<1>5. \A i \in 1..Len(s) : Sizes(s)[i] \in Int
  BY <1>2
<1>6. SumOf(Sizes(s), 1..Len(s)) = SumOf(Sizes(s), 1..n) + SumOf(Sizes(t), 1..Len(t))
  BY <1>1, <1>4, <1>5, SumCut
<1> QED BY <1>6 DEF Along

(* The bytes of a sequence that is longer, or shorter at either end. *)
LEMMA AlongAppend ==
    ASSUME NEW s \in Seq(Reports), NEW r \in Reports
    PROVE  Along(Append(s, r)) = Along(s) + Size[r]
<1> DEFINE t == Append(s, r)
           n == Len(s)
           f == Sizes(t)
           g == Sizes(s)
<1>1. /\ n \in Nat /\ t \in Seq(Reports) /\ Len(t) = n + 1 /\ t[n + 1] = r
      /\ \A i \in 1..n : t[i] = s[i] /\ s[i] \in Reports
      /\ \A i \in 1..(n + 1) : t[i] \in Reports
  OBVIOUS
<1>2. /\ \A i \in 1..(n + 1) : f[i] = Size[t[i]] /\ f[i] \in Int
      /\ \A i \in 1..n : g[i] = Size[s[i]]
  BY <1>1, BoundsAssumption DEF Sizes
<1>3. (\A i \in 1..n : f[i] = g[i]) /\ f[n + 1] = Size[r] /\ IsFiniteSet(1..n)
  <2>1. \A i \in 1..n : f[i] = g[i]
    <3>1. \A i \in 1..n : i \in 1..(n + 1)
      BY <1>1
    <3> QED BY <1>1, <1>2, <3>1
  <2>2. n + 1 \in 1..(n + 1)
    BY <1>1
  <2>3. IsFiniteSet(1..n)
    BY <1>1, FS_Interval
  <2> QED BY <1>1, <1>2, <2>1, <2>2, <2>3
<1>4. Along(t) = SumOf(f, 1..(n + 1)) /\ Along(s) = SumOf(g, 1..n)
  BY <1>1 DEF Along
<1> HIDE DEF n, f, g
<1>5. SumOf(f, 1..(n + 1)) = SumOf(f, 1..n) + f[n + 1]
  BY <1>1, <1>2, SumUpTo
<1>6. SumOf(f, 1..n) = SumOf(g, 1..n)
  BY <1>3, SumSame
<1> QED BY <1>3, <1>4, <1>5, <1>6

(* The size of a batch is that of its head and of the rest. *)
LEMMA AlongTail ==
    ASSUME NEW s \in Seq(Reports), s # <<>>
    PROVE  Along(s) = Size[Head(s)] + Along(Tail(s))
<1>1. /\ Tail(s) \in Seq(Reports) /\ Len(Tail(s)) = Len(s) - 1 /\ Len(s) >= 1
      /\ Head(s) = s[1] /\ Head(s) \in Reports
      /\ \A i \in 1..Len(Tail(s)) : Tail(s)[i] = s[i + 1]
  BY RangeTail
<1>2. \A i \in 1..Len(Tail(s)) : Tail(s)[i] = s[1 + i]
  <2>1. \A i \in 1..Len(Tail(s)) : i + 1 = 1 + i
    OBVIOUS
  <2> QED BY <1>1, <2>1
<1>3. Along(s) = SumOf(Sizes(s), 1..1) + Along(Tail(s))
  <2>1. 1 \in Nat /\ 1 <= Len(s)
    BY <1>1
  <2> QED BY <1>1, <1>2, <2>1, AlongCut
<1>4. SumOf(Sizes(s), 1..1) = Size[Head(s)]
  <2> DEFINE f == Sizes(s)
  <2>1. f[1] = Size[Head(s)] /\ f[1] \in Int
    BY <1>1, BoundsAssumption DEF Sizes
  <2>2. 1..1 = {} \cup {1} /\ 1 \notin {} /\ (\A i \in {} : f[i] \in Int) /\ IsFiniteSet({})
    BY FS_EmptySet
  <2> HIDE DEF f
  <2>3. SumOf(f, {} \cup {1}) = f[1] + SumOf(f, {})
    BY <2>1, <2>2, SumInsert
  <2>4. SumOf(f, {}) = 0
    BY SumEmpty
  <2>5. SumOf(f, 1..1) = f[1] + 0
    BY <2>2, <2>3, <2>4, Zenon
  <2>6. SumOf(f, 1..1) = f[1]
    BY <2>5, <2>1
  <2> QED BY <2>1, <2>6 DEF f
<1> QED BY <1>3, <1>4

-----------------------------------------------------------------------------
(* Memory *)

(* Enqueue, the spill loop and flushMemory keep memBytes the sum of what is in
   memory, and release the mutex only within the limits. *)
MemoryLimits ==
    /\ memBytes = Along(mem)
    /\ ~Locked => Len(mem) <= MemoryBuffer /\ memBytes <= MaxBatchBytes

(* No step takes the memory queue over its limits. *)
LEMMA MemoryLimitsStep == IInv /\ MemoryLimits /\ [Next]_vars => MemoryLimits'
<1> SUFFICES ASSUME IInv, MemoryLimits, [Next]_vars PROVE MemoryLimits'
  OBVIOUS
<1>0. TypeOK /\ Phase
  BY DEF IInv
<1>a. /\ mem \in Seq(Reports) /\ Len(mem) \in Nat /\ produced \in Nat
      /\ MemoryBuffer \in Nat /\ MaxBatchBytes \in Nat
  BY <1>0, NewQueueAssumption DEF TypeOK
<1>b. Along(mem) \in Nat
  BY <1>a, BytesAlong
<1> USE DEF producerVars, sharedVars, flusherVars, diskVars, envVars, historyVars
<1>1. CASE AcceptDirect
  BY <1>1 DEF AcceptDirect, MemoryLimits, Locked
<1>2. CASE AcceptToMemory
  <2>1. produced + 1 \in Reports
    BY <1>2, <1>a, BoundsAssumption DEF AcceptToMemory, Reports
  <2>2. Along(mem') = Along(mem) + Size[produced + 1]
    BY <1>2, <1>a, <2>1, AlongAppend DEF AcceptToMemory
  <2>3. memBytes' = Along(mem')
    BY <1>2, <2>2 DEF AcceptToMemory, MemoryLimits
  <2> QED BY <1>2, <2>3 DEF AcceptToMemory, MemoryLimits, Locked
<1>3. CASE SpillHead
  <2>1. Along(mem) = Size[Head(mem)] + Along(mem') /\ mem' \in Seq(Reports)
    BY <1>3, <1>a, AlongTail, RangeTail DEF SpillHead
  <2>2. Along(mem') \in Nat /\ Size[Head(mem)] \in Nat
    <3>1. Head(mem) \in Reports
      BY <1>3, <1>a, RangeTail DEF SpillHead
    <3> QED BY <2>1, <3>1, BytesAlong, BoundsAssumption
  <2>3. memBytes' = Along(mem) - Size[Head(mem)]
    BY <1>3 DEF SpillHead, MemoryLimits
  <2>4. memBytes' = Along(mem')
    BY <2>1, <2>2, <2>3
  <2>5. mem # <<>> /\ epc' = "write"
    BY <1>3 DEF SpillHead
  <2>6. MemoryBuffer > 0
    BY <1>0, <2>5 DEF Phase
  <2> QED BY <1>3, <2>4, <2>5, <2>6 DEF MemoryLimits, Locked
<1>4. CASE CommitWrite \/ FailWrite
  <2>1. /\ epc = "write" /\ epc' = (IF MemoryBuffer = 0 THEN "idle" ELSE "spill")
        /\ UNCHANGED <<mem, memBytes>>
    BY <1>4 DEF CommitWrite, FailWrite, WriteReturns
  <2>2. CASE MemoryBuffer = 0
    BY <2>1, <2>2 DEF MemoryLimits, Locked
  <2>3. CASE MemoryBuffer # 0
    BY <2>1, <2>3, <1>a DEF MemoryLimits, Locked
  <2> QED BY <2>2, <2>3
<1>5. CASE UnlockMu
  <2>1. Len(mem) <= MemoryBuffer /\ memBytes <= MaxBatchBytes
    BY <1>5, <1>a, <1>b DEF UnlockMu, OverLimit, MemoryLimits
  <2> QED BY <1>5, <2>1 DEF UnlockMu, MemoryLimits
<1>6. CASE SignalFlush
  BY <1>6 DEF SignalFlush, MemoryLimits, Locked
<1>7. CASE TakeMemory
  <2>1. PICK n \in 1..Len(mem) :
            /\ mem' = SubSeq(mem, n + 1, Len(mem))
            /\ memBytes' = memBytes - PrefixBytes(n)
    BY <1>7 DEF TakeMemory
  <2>2. /\ mem' \in Seq(Reports) /\ Len(mem') = Len(mem) - n
        /\ \A i \in 1..Len(mem') : mem'[i] = mem[n + i]
    <3>1. LET b == SubSeq(mem, n + 1, Len(mem))
          IN /\ b \in Seq(Reports) /\ Len(b) = Len(mem) - n
             /\ \A i \in 1..(Len(mem) - n) : b[i] = mem[n + i]
      BY <1>a, RangeCut
    <3> QED BY <2>1, <3>1
  <2>3. n \in Nat /\ n <= Len(mem)
    BY <1>a
  <2>4. Along(mem) = SumOf(Sizes(mem), 1..n) + Along(mem')
    <3> DEFINE t == mem'
    <3>1. t \in Seq(Reports) /\ Len(t) = Len(mem) - n /\ \A i \in 1..Len(t) : t[i] = mem[n + i]
      BY <2>2
    <3> HIDE DEF t
    <3>2. Along(mem) = SumOf(Sizes(mem), 1..n) + Along(t)
      BY <1>a, <2>3, <3>1, AlongCut
    <3> QED BY <3>2 DEF t
  <2>5. PrefixBytes(n) = SumOf(Sizes(mem), 1..n)
    BY <1>0, <2>3, PrefixIsSum
  <2>6. Along(mem') \in Nat
    BY <2>2, BytesAlong
  <2>7. SumOf(Sizes(mem), 1..n) \in Nat
    <3> DEFINE f == Sizes(mem)
    <3>1. IsFiniteSet(1..n) /\ \A i \in 1..n : f[i] \in Nat
      <4>1. \A i \in 1..n : i \in 1..Len(mem) /\ mem[i] \in Reports
        BY <2>3, <1>a
      <4>2. \A i \in 1..n : f[i] \in Nat
        BY <4>1, BoundsAssumption DEF Sizes
      <4>3. 1 \in Int /\ n \in Int
        BY <2>3
      <4>4. IsFiniteSet(1..n)
        BY <4>3, FS_Interval
      <4> QED BY <4>2, <4>4
    <3> HIDE DEF f
    <3>2. SumOf(f, 1..n) \in Nat
      BY <3>1, SumNat
    <3> QED BY <3>2 DEF f
  <2>8. memBytes' = Along(mem') /\ memBytes' <= memBytes /\ Len(mem') <= Len(mem)
    <3>1. memBytes' = Along(mem) - SumOf(Sizes(mem), 1..n) /\ memBytes = Along(mem)
      BY <2>1, <2>5 DEF MemoryLimits
    <3>2. Len(mem') <= Len(mem)
      BY <2>2, <2>3, <1>a
    <3> QED BY <2>4, <2>6, <2>7, <3>1, <3>2
  <2>9. Locked' = Locked
    BY <1>7 DEF TakeMemory, Locked
  <2>10. ~Locked' => Len(mem') <= MemoryBuffer /\ memBytes' <= MaxBatchBytes
    <3>1. Len(mem') \in Nat /\ memBytes' \in Nat /\ memBytes \in Nat
      BY <2>2, <2>6, <2>8, <1>b DEF MemoryLimits
    <3> QED BY <3>1, <2>8, <2>9, <1>a DEF MemoryLimits
  <2> QED BY <2>8, <2>10 DEF MemoryLimits
<1>8. CASE Exit \/ Crash \/ PowerLoss
  <2>1. mem' = <<>> /\ memBytes' = 0
    BY <1>8 DEF Exit, Crash, PowerLoss, Reboot
  <2>2. Along(<<>>) = 0
    <3>1. 1..Len(<<>>) = {}
      OBVIOUS
    <3> QED BY <3>1, SumEmpty DEF Along
  <2>3. Len(mem') = 0
    BY <2>1
  <2> QED BY <2>1, <2>2, <2>3, <1>a DEF MemoryLimits
<1>9. CASE UNCHANGED <<mem, memBytes, epc>>
  BY <1>9 DEF MemoryLimits, Locked
<1>10. QED
  <2>1. \/ AcceptDirect \/ AcceptToMemory \/ SpillHead \/ CommitWrite \/ FailWrite \/ UnlockMu
        \/ SignalFlush \/ TakeMemory \/ Exit \/ Crash \/ PowerLoss
        \/ UNCHANGED <<mem, memBytes, epc>>
    <3>1. Run => TakeMemory \/ UNCHANGED <<mem, memBytes, epc>>
      BY DEF Run, Tick, WakeUp, Stop, AbortFlush, MemoryEmpty, ListSpool, ParkExhausted, SkipFile,
             TakeFile, EndScan, ReadFile, ReadDone, Post, MemoryAcked, MemoryNotAcked, WriteBack,
             WriteBackDone, DiskAcked, DiskNotAcked, RemoveFile, BumpFile, BatchDone
    <3>2. Shutdown \/ (\E r \in Reports : Ripen(r)) => UNCHANGED <<mem, memBytes, epc>>
      BY DEF Shutdown, Ripen
    <3> QED BY <3>1, <3>2 DEF Next, Enqueue, vars
  <2> QED BY <2>1, <1>1, <1>2, <1>3, <1>4, <1>5, <1>6, <1>7, <1>8, <1>9

-----------------------------------------------------------------------------
(* Batches *)

Within(n, bytes) == n <= MaxBatch /\ (bytes <= MaxBatchBytes \/ n <= 1)

(* The flusher takes from memory what fits one POST, and so are the files
   collected from the spool, of which a POST carries some. *)
BatchLimits ==
    /\ fpc = "sendMem" => flight # <<>> /\ Within(Cardinality(Range(flight)), BytesOf(Range(flight)))
    /\ IsFiniteSet(batch) /\ Within(Cardinality(batch), BytesOf(RepsOf(batch)))
    /\ fpc = "sendDisk" => readable # {}

(* A part of what fits does. *)
LEMMA PartFits ==
    ASSUME NEW A, IsFiniteSet(A), A \subseteq File, Within(Cardinality(A), BytesOf(RepsOf(A))),
           NEW B, B \subseteq A
    PROVE  IsFiniteSet(B) /\ Within(Cardinality(B), BytesOf(RepsOf(B)))
<1>1. IsFiniteSet(B) /\ Cardinality(B) <= Cardinality(A)
      /\ Cardinality(B) \in Nat /\ Cardinality(A) \in Nat
  BY FS_Subset, FS_CardinalityType
<1>2. RepsOf(A) \in SUBSET Reports /\ RepsOf(B) \in SUBSET RepsOf(A)
  BY DEF RepsOf, File
<1>3. BytesOf(RepsOf(B)) <= BytesOf(RepsOf(A)) /\ BytesOf(RepsOf(B)) \in Nat /\ BytesOf(RepsOf(A)) \in Nat
  BY <1>2, Bytes
<1> QED BY <1>1, <1>3, NewQueueAssumption DEF Within

(* flushMemory cuts a batch that fits. *)
LEMMA CutFits ==
    ASSUME IInv, TakeMemory
    PROVE  /\ fpc' = "sendMem" /\ flight' # <<>>
           /\ Within(Cardinality(Range(flight')), BytesOf(Range(flight')))
<1>0. TypeOK
  BY DEF IInv
<1>a. mem \in Seq(Reports) /\ Len(mem) \in Nat /\ MaxBatch \in Nat /\ MaxBatchBytes \in Nat
  BY <1>0, NewQueueAssumption DEF TypeOK
<1>1. PICK n \in 1..Len(mem) : CutsAt(n) /\ flight' = SubSeq(mem, 1, n)
  BY DEF TakeMemory
<1>2. n <= MaxBatch /\ (n = 1 \/ PrefixBytes(n) <= MaxBatchBytes) /\ n \in Nat /\ n >= 1 /\ n <= Len(mem)
  BY <1>1, <1>a DEF CutsAt, Fits
<1>3. flight' \in Seq(Reports) /\ Len(flight') = n /\ \A i \in 1..n : flight'[i] = mem[i]
  <2>1. LET a == SubSeq(mem, 1, n)
        IN a \in Seq(Reports) /\ Len(a) = n /\ \A i \in 1..n : a[i] = mem[i]
    BY <1>a, RangeCut
  <2> QED BY <1>1, <2>1
<1>4. Along(flight') = PrefixBytes(n)
  <2>1. \A i \in 1..n : i \in 1..Len(mem)
    BY <1>2, <1>a
  <2>2. \A i \in 1..n : Sizes(flight')[i] = Sizes(mem)[i]
    BY <1>3, <2>1 DEF Sizes
  <2>3. IsFiniteSet(1..n)
    BY <1>2, FS_Interval
  <2>4. SumOf(Sizes(flight'), 1..n) = SumOf(Sizes(mem), 1..n)
    BY <2>2, <2>3, SumSame
  <2>5. PrefixBytes(n) = SumOf(Sizes(mem), 1..n)
    BY <1>0, <1>2, PrefixIsSum
  <2> QED BY <1>3, <2>4, <2>5 DEF Along
<1>5. Cardinality(Range(flight')) <= n /\ Cardinality(Range(flight')) \in Nat
  <2> DEFINE s == flight'
  <2>1. s \in Seq(Reports) /\ Len(s) = n
    BY <1>3
  <2> HIDE DEF s
  <2>2. Range(s) \in SUBSET Reports /\ Cardinality(Range(s)) <= Len(s)
    BY <2>1, RangeSize
  <2>3. Cardinality(Range(s)) \in Nat
    BY <2>2, ReportSets
  <2> QED BY <2>1, <2>2, <2>3 DEF s
<1>6. BytesOf(Range(flight')) <= PrefixBytes(n) /\ PrefixBytes(n) \in Nat /\ BytesOf(Range(flight')) \in Nat
  <2>1. BytesOf(Range(flight')) <= Along(flight') /\ Along(flight') \in Nat
    BY <1>3, BytesAlong
  <2>2. Range(flight') \in SUBSET Reports
    BY <1>3, RangeSize
  <2>3. BytesOf(Range(flight')) \in Nat
    BY <2>2, Bytes
  <2> QED BY <1>4, <2>1, <2>3
<1>7. flight' # <<>>
  BY <1>2, <1>3
<1>8. fpc' = "sendMem"
  BY DEF TakeMemory
<1> QED BY <1>2, <1>5, <1>6, <1>7, <1>8, <1>a DEF Within

(* A file joins the batch only where it fits. *)
LEMMA JoinFits ==
    ASSUME IInv, BatchLimits, TakeFile
    PROVE  IsFiniteSet(batch') /\ Within(Cardinality(batch'), BytesOf(RepsOf(batch')))
<1>0. TypeOK
  BY DEF IInv
<1>1. PICK f \in todo : Cardinality(batch) < MaxBatch /\ FitsBatch(f) /\ batch' = batch \cup {f}
  BY DEF TakeFile, Scanning
<1>2. /\ IsFiniteSet(batch) /\ f \in File /\ f.rep \in Reports /\ batch \subseteq File
      /\ MaxBatch \in Nat /\ MaxBatchBytes \in Nat /\ Size[f.rep] \in Nat
  BY <1>0, NewQueueAssumption, BoundsAssumption DEF TypeOK, BatchLimits, File
<1>3. /\ IsFiniteSet(batch') /\ Cardinality(batch') <= Cardinality(batch) + 1
      /\ Cardinality(batch) \in Nat /\ Cardinality(batch') \in Nat
  <2>1. /\ IsFiniteSet(batch \cup {f})
        /\ Cardinality(batch \cup {f}) = IF f \in batch THEN Cardinality(batch) ELSE Cardinality(batch) + 1
        /\ Cardinality(batch) \in Nat
    BY <1>2, FS_AddElement, FS_CardinalityType
  <2>2. Cardinality(batch \cup {f}) <= Cardinality(batch) + 1 /\ Cardinality(batch \cup {f}) \in Nat
    BY <2>1
  <2> QED BY <1>1, <2>1, <2>2
<1>4. CASE batch = {}
  <2>1. Cardinality(batch) = 0
    BY <1>4, FS_EmptySet
  <2>2. Cardinality(batch') <= 1 /\ Cardinality(batch') <= MaxBatch
    BY <1>1, <1>2, <1>3, <2>1
  <2> QED BY <1>3, <2>2 DEF Within
<1>5. CASE batch # {}
  <2>1. BytesOf(RepsOf(batch)) + Size[f.rep] <= MaxBatchBytes
    BY <1>1, <1>5 DEF FitsBatch
  <2>2. RepsOf(batch) \in SUBSET Reports /\ RepsOf(batch') = RepsOf(batch) \cup {f.rep}
    BY <1>1, <1>2 DEF RepsOf, File
  <2>3. BytesOf(RepsOf(batch)) \in Nat
    BY <2>2, Bytes
  <2>4. /\ BytesOf(RepsOf(batch) \cup {f.rep}) <= BytesOf(RepsOf(batch)) + Size[f.rep]
        /\ BytesOf(RepsOf(batch) \cup {f.rep}) \in Nat
    BY <1>2, <2>2, BytesAdd
  <2>5. BytesOf(RepsOf(batch')) <= BytesOf(RepsOf(batch)) + Size[f.rep] /\ BytesOf(RepsOf(batch')) \in Nat
    BY <2>2, <2>4
  <2>6. BytesOf(RepsOf(batch')) <= MaxBatchBytes
    BY <2>1, <2>3, <2>5, <1>2
  <2>7. Cardinality(batch') <= MaxBatch
    BY <1>1, <1>2, <1>3
  <2> QED BY <1>3, <2>6, <2>7 DEF Within
<1> QED BY <1>4, <1>5

(* Every step keeps the batches within the limits. *)
LEMMA BatchLimitsStep == IInv /\ BatchLimits /\ [Next]_vars => BatchLimits'
<1> SUFFICES ASSUME IInv, BatchLimits, [Next]_vars PROVE BatchLimits'
  OBVIOUS
<1>0. TypeOK /\ Phase
  BY DEF IInv
<1> USE DEF producerVars, sharedVars, flusherVars, diskVars, envVars, historyVars
<1>1. CASE TakeMemory
  <2>1. fpc' = "sendMem" /\ UNCHANGED <<batch, readable>>
    BY <1>1 DEF TakeMemory
  <2> QED BY <1>1, <2>1, CutFits DEF BatchLimits
<1>2. CASE TakeFile
  <2>1. fpc' = fpc /\ UNCHANGED <<flight, readable>> /\ fpc = "scan"
    BY <1>2 DEF TakeFile, Scanning
  <2>2. IsFiniteSet(batch') /\ Within(Cardinality(batch'), BytesOf(RepsOf(batch')))
    BY <1>2, JoinFits
  <2> QED BY <2>1, <2>2 DEF BatchLimits
<1>3. ASSUME batch' \subseteq batch, fpc' # "sendMem" \/ (fpc = "sendMem" /\ flight' = flight),
             fpc' = "sendDisk" => readable' # {}
      PROVE  BatchLimits'
  <2>1. batch \subseteq File /\ IsFiniteSet(batch) /\ Within(Cardinality(batch), BytesOf(RepsOf(batch)))
    BY <1>0 DEF TypeOK, BatchLimits
  <2>2. IsFiniteSet(batch') /\ Within(Cardinality(batch'), BytesOf(RepsOf(batch')))
    BY <1>3, <2>1, PartFits
  <2> QED BY <1>3, <2>2 DEF BatchLimits
<1>4. CASE ReadDone
  BY <1>4, <1>3 DEF ReadDone, FlushReturns
<1>5. CASE RemoveFile \/ BumpFile \/ ReadFile
  <2>1. batch' \subseteq batch
    BY <1>5 DEF RemoveFile, BumpFile, ReadFile
  <2>2. fpc' \notin {"sendMem", "sendDisk"}
    BY <1>5 DEF RemoveFile, BumpFile, ReadFile
  <2> QED BY <1>3, <2>1, <2>2
<1>6. CASE Exit \/ Crash \/ PowerLoss
  <2>1. batch' = {} /\ fpc' = "flush"
    BY <1>6 DEF Exit, Crash, PowerLoss, Reboot
  <2> QED BY <1>3, <2>1
<1>7. CASE UNCHANGED <<fpc, batch, flight, readable>>
  BY <1>7 DEF BatchLimits
<1>8. CASE UNCHANGED batch /\ fpc' \notin {"sendMem", "sendDisk"}
  BY <1>8, <1>3
<1>9. QED
  <2>1. Run => \/ TakeMemory \/ TakeFile \/ ReadDone \/ RemoveFile \/ BumpFile \/ ReadFile
               \/ UNCHANGED <<fpc, batch, flight, readable>>
               \/ UNCHANGED batch /\ fpc' \notin {"sendMem", "sendDisk"}
    <3>1. Tick \/ WakeUp \/ Stop \/ AbortFlush \/ MemoryEmpty \/ ListSpool \/ EndScan \/ Post
            => UNCHANGED batch /\ fpc' \notin {"sendMem", "sendDisk"}
      BY DEF Tick, WakeUp, Stop, AbortFlush, MemoryEmpty, ListSpool, EndScan, Post, FlushReturns
    <3>2. MemoryAcked \/ MemoryNotAcked \/ WriteBack \/ WriteBackDone \/ DiskAcked \/ DiskNotAcked \/ BatchDone
            => UNCHANGED batch /\ fpc' \notin {"sendMem", "sendDisk"}
      BY DEF MemoryAcked, MemoryNotAcked, WriteBack, WriteBackDone, DiskAcked, DiskNotAcked, BatchDone, FlushReturns
    <3>3. ParkExhausted \/ SkipFile => UNCHANGED <<fpc, batch, flight, readable>>
      BY DEF ParkExhausted, SkipFile
    <3> QED BY <3>1, <3>2, <3>3 DEF Run
  <2>2. AcceptDirect \/ AcceptToMemory \/ Enqueue \/ Shutdown \/ (\E r \in Reports : Ripen(r)) \/ UNCHANGED vars
          => UNCHANGED <<fpc, batch, flight, readable>>
    BY DEF AcceptDirect, AcceptToMemory, Enqueue, SpillHead, CommitWrite, FailWrite, UnlockMu, SignalFlush,
           Shutdown, Ripen, vars
  <2> QED BY <2>1, <2>2, <1>1, <1>2, <1>4, <1>5, <1>6, <1>7, <1>8 DEF Next

(* The memory buffer and the batches respect the limits of the configuration: when the
   mutex is free the buffer holds at most memoryBuffer reports and maxBatchBytes bytes
   and memBytes is their sum, whatever Enqueue, its spill loop and flushMemory
   interleave to; and no POST carries more than maxBatch reports, or more than
   maxBatchBytes bytes unless a single report does. *)
THEOREM WithinLimitsHolds == Spec => []WithinLimits
<1>1. Init => MemoryLimits /\ BatchLimits
  <2> SUFFICES ASSUME Init PROVE MemoryLimits /\ BatchLimits
    OBVIOUS
  <2>1. Along(<<>>) = 0
    <3>1. 1..Len(<<>>) = {}
      OBVIOUS
    <3> QED BY <3>1, SumEmpty DEF Along
  <2>2. mem = <<>> /\ memBytes = 0 /\ Len(mem) = 0
    BY DEF Init
  <2>3. MemoryLimits
    BY <2>1, <2>2, NewQueueAssumption DEF MemoryLimits
  <2>4. batch = {} /\ fpc = "flush" /\ Cardinality(batch) = 0 /\ IsFiniteSet(batch)
    BY FS_EmptySet DEF Init
  <2>5. BatchLimits
    BY <2>4, NewQueueAssumption DEF BatchLimits, Within
  <2> QED BY <2>3, <2>5
<1>2. IInv /\ MemoryLimits /\ BatchLimits /\ [Next]_vars => MemoryLimits' /\ BatchLimits'
  BY MemoryLimitsStep, BatchLimitsStep
<1>3. IInv /\ MemoryLimits /\ BatchLimits => WithinLimits
  <2> SUFFICES ASSUME IInv, MemoryLimits, BatchLimits PROVE WithinLimits
    OBVIOUS
  <2>0. TypeOK /\ Phase
    BY DEF IInv
  <2>1. MemoryWithinLimits
    <3>1. Len(mem) \in Nat /\ Len(mem) <= Len(mem)
      BY <2>0 DEF TypeOK
    <3>2. PrefixBytes(Len(mem)) = Along(mem)
      BY <2>0, <3>1, PrefixIsSum DEF Along
    <3> QED BY <3>2 DEF MemoryLimits, MemoryWithinLimits
  <2>2. ASSUME fpc = "sendMem"
        PROVE  Payload # {} /\ Within(Cardinality(Payload), BytesOf(Payload)) /\ Payload \in SUBSET Reports
    <3>1. Payload = Range(flight) /\ flight # <<>> /\ flight \in Seq(Reports)
      BY <2>0, <2>2 DEF Payload, BatchLimits, TypeOK
    <3>2. Range(flight) # {} /\ Range(flight) \subseteq Reports
      BY <3>1 DEF Range
    <3> QED BY <2>2, <3>1, <3>2 DEF BatchLimits
  <2>3. ASSUME fpc = "sendDisk"
        PROVE  Payload # {} /\ Within(Cardinality(Payload), BytesOf(Payload)) /\ Payload \in SUBSET Reports
    <3>1. Payload = RepsOf(readable) /\ readable # {} /\ readable \subseteq batch /\ batch \subseteq File
      BY <2>0, <2>3 DEF Payload, BatchLimits, Phase, TypeOK
    <3>2. IsFiniteSet(readable) /\ Within(Cardinality(readable), BytesOf(RepsOf(readable)))
      BY <3>1, PartFits DEF BatchLimits
    <3>3. RepsOf(readable) # {} /\ RepsOf(readable) \in SUBSET Reports
      BY <3>1 DEF RepsOf, File
    <3>4. Cardinality(RepsOf(readable)) <= Cardinality(readable)
      <4> DEFINE h == [f \in readable |-> f.rep]
      <4>1. h \in Surjection(readable, RepsOf(readable))
        BY DEF Surjection, RepsOf
      <4> QED BY <3>2, <4>1, FS_Surjection
    <3>5. Cardinality(RepsOf(readable)) \in Nat /\ Cardinality(readable) \in Nat
      BY <3>2, <3>3, ReportSets, FS_CardinalityType
    <3>6. Within(Cardinality(RepsOf(readable)), BytesOf(RepsOf(readable)))
      BY <3>2, <3>4, <3>5, NewQueueAssumption DEF Within
    <3> QED BY <3>1, <3>3, <3>6
  <2>4. BatchFitsLimits
    <3> SUFFICES ASSUME Payload # {}, Within(Cardinality(Payload), BytesOf(Payload)), Payload \in SUBSET Reports
                 PROVE  /\ Cardinality(Payload) <= MaxBatch
                        /\ BytesOf(Payload) <= MaxBatchBytes \/ Cardinality(Payload) = 1
      BY <2>2, <2>3 DEF BatchFitsLimits
    <3>1. IsFiniteSet(Payload) /\ Cardinality(Payload) \in Nat
      BY ReportSets
    <3>2. Cardinality(Payload) # 0
      BY <3>1, FS_EmptySet
    <3> QED BY <3>1, <3>2 DEF Within
  <2> QED BY <2>1, <2>4 DEF WithinLimits
<1>4. QED
  <2>1. QED BY <1>1, <1>2, <1>3, Invariance, PTL DEF Spec
=============================================================================
