---------------------------- MODULE PodMetricsProofs ----------------------------
(***************************************************************************)
(* Theorems about PodMetrics for every set of pod instances, every TTL and *)
(* every bound: no CPU time is reported twice, a gain belongs to the       *)
(* interval it is divided by, and the cache is never older than its TTL.   *)
(***************************************************************************)
EXTENDS PodMetrics, TLAPS

(* What the next visit of g will find new. *)
Gain(g) == IF g \in Live THEN Diff(counter[g], last[g]) ELSE 0

(* A cgroup read in the latest collection gained what was counted since that
   collection began; while a collection runs, a cgroup read in the one before
   gained what was counted in its window. *)
GainsAreRecent ==
    /\ \A g \in seen : Gain(g) <= recent[g]
    /\ walking => \A g \in before : Gain(g) <= window[g]

(* What the cache says was true when it was filled, and its age tells when. *)
CacheIsRecent == \A g \in cache : Staleness(g) <= cacheAge

Inv == TypeOK /\ ReportedOnce /\ PairedWithInterval /\ GainsAreRecent /\ CacheIsRecent

(* Diff never exceeds the counter, is zero for an unchanged one, and grows by
   at most what the counter grows. *)
LEMMA DiffFacts ==
    ASSUME NEW a \in Nat, NEW b \in Nat
    PROVE  /\ Diff(a, b) \in Nat /\ Diff(a, b) <= a
           /\ Diff(a, a) = 0
           /\ Diff(a + 1, b) <= Diff(a, b) + 1
  BY DEF Diff

(* The gain of a live cgroup is a number and no larger than its counter. *)
LEMMA GainFacts ==
    ASSUME TypeOK, NEW g \in Cgroups
    PROVE  /\ Gain(g) \in Nat
           /\ g \in Live => counter[g] \in Nat /\ Gain(g) = Diff(counter[g], last[g])
           /\ g \notin Live => Gain(g) = 0
<1>1. g \in Live => counter[g] \in Nat
  BY DEF TypeOK, Live
<1>2. last[g] \in Nat
  BY DEF TypeOK
<1>3. g \in Live => Diff(counter[g], last[g]) \in Nat
  BY <1>1, <1>2, DiffFacts
<1> QED BY <1>1, <1>3 DEF Gain

(* ReportedOnce in terms of Gain. *)
LEMMA ReportedOnceGain ==
    ReportedOnce <=> \A g \in Cgroups : charged[g] + result[g] + Gain(g) <= used[g]
  BY DEF ReportedOnce, Gain

(* The invariant holds initially. *)
LEMMA InitInv == Init => Inv
<1> SUFFICES ASSUME Init PROVE Inv
  OBVIOUS
<1> USE PodMetricsAssumption
<1>1. Live = {}
  BY DEF Init, Live
<1>2. TypeOK
  <2>1. /\ counter \in [Cgroups -> Nat \cup {None}] /\ last \in [Cgroups -> Nat]
        /\ result \in [Cgroups -> Nat] /\ used \in [Cgroups -> Nat] /\ charged \in [Cgroups -> Nat]
        /\ recent \in [Cgroups -> Nat] /\ window \in [Cgroups -> Nat]
    BY DEF Init
  <2>2. stale \in [Cgroups -> 0..TTL] /\ cacheAge \in 0..TTL
    BY DEF Init
  <2>3. ~walking => lookup = {} /\ \A g \in Cgroups : result[g] = 0
    BY DEF Init
  <2> QED BY <2>1, <2>2, <2>3 DEF Init, TypeOK
<1>3. ReportedOnce /\ PairedWithInterval /\ CacheIsRecent
  BY <1>1 DEF Init, ReportedOnce, PairedWithInterval, CacheIsRecent
<1>4. GainsAreRecent
  BY DEF Init, GainsAreRecent
<1> QED BY <1>2, <1>3, <1>4 DEF Inv

-----------------------------------------------------------------------------
(* Steps that change neither counters nor baselines nor reports *)

(* A step that leaves what the collector and the kernel know alone keeps every
   conjunct about them. *)
LEMMA AccountsUnchanged ==
    ASSUME Inv, UNCHANGED <<kernelVars, walkVars, windowVars, charged>>
    PROVE  ReportedOnce' /\ PairedWithInterval' /\ GainsAreRecent'
<1> USE DEF kernelVars, walkVars, windowVars
<1>1. \A g \in Cgroups : Gain(g)' = Gain(g)
  BY DEF Gain, Live
<1>2. ReportedOnce'
  BY DEF Inv, ReportedOnce, Live
<1>3. PairedWithInterval'
  BY DEF Inv, PairedWithInterval
<1>4. GainsAreRecent'
  BY <1>1 DEF Inv, GainsAreRecent, TypeOK
<1> QED BY <1>2, <1>3, <1>4

(* The cache stays recent when no instance becomes staler than before. *)
LEMMA CacheUnchanged ==
    ASSUME Inv, UNCHANGED cacheVars, \A g \in Cgroups : Staleness(g)' <= Staleness(g),
           TypeOK'
    PROVE  CacheIsRecent'
<1>1. \A g \in Cgroups : Staleness(g) \in Nat /\ Staleness(g)' \in Nat
  BY PodMetricsAssumption DEF Inv, TypeOK, Staleness
<1>2. cache \subseteq Cgroups /\ cacheAge \in Nat
  BY PodMetricsAssumption DEF Inv, TypeOK
<1> QED BY <1>1, <1>2 DEF Inv, CacheIsRecent, cacheVars

(* Pods that come, go and are listed. *)
LEMMA PodSteps ==
    ASSUME Inv, NEW g \in Cgroups, List(g) \/ Unlist(g) \/ Mkdir(g) \/ Rmdir(g)
    PROVE  Inv'
<1> USE PodMetricsAssumption
<1>0. \A h \in Cgroups : stale[h] \in 0..TTL /\ stale[h] \in Nat
  BY DEF Inv, TypeOK
<1>t. TypeOK'
  <2>1. CASE List(g)
    BY <2>1, <1>0 DEF Inv, TypeOK, List, Staleness, kernelVars, cacheVars, walkVars, windowVars
  <2>2. CASE Unlist(g)
    BY <2>2, <1>0 DEF Inv, TypeOK, Unlist, Staleness, kernelVars, cacheVars, walkVars, windowVars
  <2>3. CASE Mkdir(g)
    BY <2>3 DEF Inv, TypeOK, Mkdir, kernelVars, cacheVars, walkVars, windowVars
  <2>4. CASE Rmdir(g)
    BY <2>4, <1>0 DEF Inv, TypeOK, Rmdir, Staleness, kernelVars, cacheVars, walkVars, windowVars
  <2> QED BY <2>1, <2>2, <2>3, <2>4
<1>1. UNCHANGED <<kernelVars, walkVars, windowVars, charged>> /\ UNCHANGED cacheVars
  BY DEF List, Unlist, Mkdir, Rmdir
<1>2. \A h \in Cgroups : Staleness(h)' <= Staleness(h)
  <2> SUFFICES ASSUME NEW h \in Cgroups PROVE Staleness(h)' <= Staleness(h)
    OBVIOUS
  <2>0. stale[h] \in Nat /\ stale \in [Cgroups -> 0..TTL]
    BY DEF Inv, TypeOK
  <2>1. CASE List(g)
    BY <2>1, <2>0 DEF List, Staleness, Present
  <2>2. CASE Unlist(g)
    BY <2>2, <2>0 DEF Unlist, Staleness, Present
  <2>3. CASE Mkdir(g)
    BY <2>3, <2>0 DEF Mkdir, Staleness, Present
  <2>4. CASE Rmdir(g)
    BY <2>4, <2>0 DEF Rmdir, Staleness, Present
  <2> QED BY <2>1, <2>2, <2>3, <2>4
<1> QED BY <1>t, <1>1, <1>2, AccountsUnchanged, CacheUnchanged DEF Inv

(* Time passes for the window and for the cached mapping. *)
LEMMA TickStep ==
    ASSUME Inv, Tick
    PROVE  Inv'
<1> USE PodMetricsAssumption
<1>1. TypeOK'
  BY DEF Inv, TypeOK, Tick, Older, podVars, kernelVars, walkVars, windowVars
<1>2. ReportedOnce' /\ PairedWithInterval' /\ GainsAreRecent'
  BY AccountsUnchanged DEF Tick
<1>3. CacheIsRecent'
  <2> SUFFICES ASSUME NEW h \in cache PROVE Staleness(h)' <= cacheAge'
    BY DEF CacheIsRecent, Tick
  <2>1. h \in Cgroups /\ stale[h] \in 0..TTL /\ cacheAge \in 0..TTL
    BY DEF Inv, TypeOK
  <2>2. Present(h)' = Present(h)
    BY DEF Present, Tick, podVars
  <2>3. stale'[h] = IF Present(h) THEN 0 ELSE Older(stale[h])
    BY <2>1 DEF Tick
  <2>4. cacheAge' = Older(cacheAge) /\ Staleness(h) <= cacheAge
    BY DEF Tick, Inv, CacheIsRecent
  <2> QED BY <2>1, <2>2, <2>3, <2>4 DEF Staleness, Older
<1> QED BY <1>1, <1>2, <1>3 DEF Inv

(* A walk of the cgroup tree that fails ends the collection. *)
LEMMA WalkFailsStep ==
    ASSUME Inv, WalkFails
    PROVE  Inv'
<1> USE PodMetricsAssumption
<1>1. TypeOK'
  BY DEF Inv, TypeOK, WalkFails, podVars, kernelVars, cacheVars, walkVars, windowVars
<1>2. ReportedOnce' /\ PairedWithInterval' /\ GainsAreRecent'
  BY AccountsUnchanged DEF WalkFails
<1>3. \A h \in Cgroups : Staleness(h) \in Nat /\ Staleness(h)' = Staleness(h)
  BY DEF Inv, TypeOK, Staleness, Present, WalkFails, podVars
<1>4. CacheIsRecent'
  BY <1>1, <1>3, CacheUnchanged DEF WalkFails
<1> QED BY <1>1, <1>2, <1>4 DEF Inv

-----------------------------------------------------------------------------
(* The kernel *)

(* The kernel counts. *)
LEMMA CpuCountedStep ==
    ASSUME Inv, NEW g \in Cgroups, CpuCounted(g)
    PROVE  Inv'
<1> USE PodMetricsAssumption
<1>1. TypeOK'
  <2>1. counter[g] \in Nat /\ counter \in [Cgroups -> Nat \cup {None}]
    BY DEF Inv, TypeOK, CpuCounted, Live
  <2>2. counter' \in [Cgroups -> Nat \cup {None}]
    BY <2>1 DEF CpuCounted
  <2> QED BY <2>2 DEF Inv, TypeOK, CpuCounted, podVars, cacheVars, walkVars
<1>2. /\ TypeOK
      /\ counter \in [Cgroups -> Nat \cup {None}] /\ last \in [Cgroups -> Nat]
      /\ used \in [Cgroups -> Nat] /\ recent \in [Cgroups -> Nat] /\ window \in [Cgroups -> Nat]
      /\ charged \in [Cgroups -> Nat] /\ result \in [Cgroups -> Nat]
      /\ seen \subseteq Cgroups /\ before \subseteq Cgroups
  BY DEF Inv, TypeOK
<1>3. /\ last' = last /\ charged' = charged /\ result' = result /\ seen' = seen
      /\ before' = before /\ walking' = walking
  BY DEF CpuCounted, walkVars
<1>4. \A h \in Cgroups : h # g => Gain(h)' = Gain(h)
  BY <1>2, <1>3 DEF CpuCounted, Gain, Live
<1>5. Gain(g)' <= Gain(g) + 1 /\ Gain(g) \in Nat /\ Gain(g)' \in Nat
  <2>1. Gain(g) \in Nat /\ last[g] \in Nat
    BY <1>2, GainFacts
  <2>2. counter[g] \in Nat /\ counter'[g] = counter[g] + 1
    BY <1>2 DEF CpuCounted, Live
  <2>3. Gain(g) = Diff(counter[g], last[g]) /\ Gain(g)' = Diff(counter[g] + 1, last[g])
    BY <2>2, <1>3 DEF CpuCounted, Gain, Live
  <2>4. Diff(counter[g] + 1, last[g]) \in Nat
        /\ Diff(counter[g] + 1, last[g]) <= Diff(counter[g], last[g]) + 1
    BY <2>1, <2>2 DEF Diff
  <2> QED BY <2>1, <2>3, <2>4
<1>6. \A h \in Cgroups : Gain(h) \in Nat
  BY <1>2, GainFacts
<1>7. ReportedOnce'
  <2> SUFFICES ASSUME NEW h \in Cgroups
               PROVE  charged'[h] + result'[h] + Gain(h)' <= used'[h]
    BY ReportedOnceGain DEF ReportedOnce, Gain
  <2>1. charged[h] + result[h] + Gain(h) <= used[h]
    BY ReportedOnceGain DEF Inv
  <2>2. used'[h] = IF h = g THEN used[h] + 1 ELSE used[h]
    BY <1>2 DEF CpuCounted
  <2>3. charged[h] \in Nat /\ result[h] \in Nat /\ used[h] \in Nat
    BY <1>2
  <2> QED BY <1>3, <1>4, <1>5, <1>6, <2>1, <2>2, <2>3
<1>8. GainsAreRecent'
  <2>1. \A h \in Cgroups : recent'[h] = IF h = g THEN recent[h] + 1 ELSE recent[h]
    BY <1>2 DEF CpuCounted
  <2>2. walking => \A h \in Cgroups : window'[h] = IF h = g THEN window[h] + 1 ELSE window[h]
    BY <1>2 DEF CpuCounted
  <2>3. \A h \in Cgroups : recent[h] \in Nat /\ window[h] \in Nat
    BY <1>2
  <2>4. ASSUME NEW h \in seen PROVE Gain(h)' <= recent'[h]
    <3>1. h \in Cgroups /\ Gain(h) <= recent[h]
      BY <1>2 DEF Inv, GainsAreRecent
    <3> QED BY <3>1, <2>1, <2>3, <1>4, <1>5, <1>6
  <2>5. ASSUME walking, NEW h \in before PROVE Gain(h)' <= window'[h]
    <3>1. h \in Cgroups /\ Gain(h) <= window[h]
      BY <2>5, <1>2 DEF Inv, GainsAreRecent
    <3> QED BY <3>1, <2>5, <2>2, <2>3, <1>4, <1>5, <1>6
  <2> QED BY <1>3, <2>4, <2>5 DEF GainsAreRecent
<1>9. PairedWithInterval'
  <2>1. walking => \A h \in Cgroups : window'[h] >= window[h] /\ window[h] \in Nat /\ window'[h] \in Nat
    BY <1>2 DEF CpuCounted
  <2>2. \A h \in Cgroups : result[h] \in Nat
    BY <1>2
  <2> QED BY <1>2, <1>3, <2>1, <2>2 DEF Inv, PairedWithInterval
<1>10. CacheIsRecent'
  BY DEF Inv, CacheIsRecent, Staleness, Present, CpuCounted, cacheVars, podVars
<1> QED BY <1>1, <1>7, <1>8, <1>9, <1>10 DEF Inv

(* An entry that goes, and an entry that comes, has nothing new. *)
LEMMA EntryStep ==
    ASSUME Inv, NEW g \in Cgroups, Evict(g) \/ Create(g)
    PROVE  Inv'
<1> USE PodMetricsAssumption
<1>1. TypeOK'
  BY DEF Inv, TypeOK, Evict, Create, podVars, cacheVars, walkVars, windowVars
<1>2. /\ TypeOK /\ counter \in [Cgroups -> Nat \cup {None}]
      /\ used \in [Cgroups -> Nat] /\ recent \in [Cgroups -> Nat] /\ window \in [Cgroups -> Nat]
      /\ charged \in [Cgroups -> Nat] /\ result \in [Cgroups -> Nat]
      /\ seen \subseteq Cgroups /\ before \subseteq Cgroups
  BY DEF Inv, TypeOK
<1>3. \A h \in Cgroups : Gain(h) \in Nat
  BY <1>2, GainFacts
<1>4. /\ last' = last /\ charged' = charged /\ result' = result /\ seen' = seen
      /\ before' = before /\ walking' = walking /\ recent' = recent /\ window' = window
      /\ used' = used
  BY DEF Evict, Create, walkVars, windowVars
<1>5. \A h \in Cgroups : Gain(h)' = (IF h = g THEN 0 ELSE Gain(h))
  <2>1. CASE Evict(g)
    BY <2>1, <1>2, <1>4 DEF Evict, Gain, Live
  <2>2. CASE Create(g)
    <3>1. counter' = [counter EXCEPT ![g] = 0] /\ last[g] \in Nat
      BY <2>2 DEF Create, Inv, TypeOK
    <3>2. Gain(g)' = Diff(0, last[g])
      BY <3>1, <1>2, <1>4 DEF Gain, Live
    <3>3. Diff(0, last[g]) = 0
      BY <3>1 DEF Diff
    <3> QED BY <3>1, <3>2, <3>3, <1>2, <1>4 DEF Gain, Live
  <2> QED BY <2>1, <2>2
<1>6. ReportedOnce'
  <2> SUFFICES ASSUME NEW h \in Cgroups
               PROVE  charged'[h] + result'[h] + Gain(h)' <= used'[h]
    BY DEF ReportedOnce, Gain
  <2>1. charged[h] + result[h] + Gain(h) <= used[h]
    BY ReportedOnceGain DEF Inv
  <2>2. charged[h] \in Nat /\ result[h] \in Nat /\ used[h] \in Nat /\ Gain(h) \in Nat
    BY <1>2, <1>3
  <2> QED BY <1>4, <1>5, <2>1, <2>2
<1>7. GainsAreRecent'
  <2>1. \A h \in Cgroups : Gain(h)' <= Gain(h) /\ Gain(h)' \in Nat
                           /\ recent[h] \in Nat /\ window[h] \in Nat
    BY <1>2, <1>3, <1>5
  <2> QED BY <1>2, <1>3, <1>4, <2>1 DEF Inv, GainsAreRecent
<1>8. PairedWithInterval'
  BY <1>4 DEF Inv, PairedWithInterval
<1>9. CacheIsRecent'
  BY DEF Inv, CacheIsRecent, Staleness, Present, Evict, Create, cacheVars, podVars
<1> QED BY <1>1, <1>6, <1>7, <1>8, <1>9 DEF Inv

-----------------------------------------------------------------------------
(* CollectPodMetrics *)

(* Begin keeps everything but the cache, whichever way the pods were found. *)
LEMMA BeginStep ==
    ASSUME Inv, NEW found \in SUBSET Cgroups, Begin(found),
           cache' \subseteq Cgroups, cacheAge' \in 0..TTL
    PROVE  TypeOK' /\ ReportedOnce' /\ PairedWithInterval' /\ GainsAreRecent'
<1> USE PodMetricsAssumption
<1>1. TypeOK'
  BY DEF Inv, TypeOK, Begin, podVars, kernelVars
<1>2. /\ TypeOK /\ charged \in [Cgroups -> Nat] /\ result \in [Cgroups -> Nat]
      /\ used \in [Cgroups -> Nat] /\ seen \subseteq Cgroups /\ recent \in [Cgroups -> Nat]
  BY DEF Inv, TypeOK
<1>3. \A h \in Cgroups : Gain(h) \in Nat /\ Gain(h)' = Gain(h) /\ result'[h] = 0
  BY <1>2, GainFacts DEF Begin, kernelVars, Gain, Live
<1>4. ReportedOnce'
  <2> SUFFICES ASSUME NEW h \in Cgroups
               PROVE  charged'[h] + result'[h] + Gain(h)' <= used'[h]
    BY DEF ReportedOnce, Gain
  <2>1. charged[h] + result[h] + Gain(h) <= used[h]
    BY ReportedOnceGain DEF Inv
  <2>2. charged[h] \in Nat /\ result[h] \in Nat /\ used[h] \in Nat
    BY <1>2
  <2>3. charged' = charged /\ used' = used
    BY DEF Begin, kernelVars
  <2> QED BY <1>3, <2>1, <2>2, <2>3
<1>5. PairedWithInterval'
  <2>1. before' \subseteq Cgroups /\ window' = recent /\ \A h \in Cgroups : result'[h] = 0
    BY <1>2, <1>3 DEF Begin
  <2>2. \A h \in Cgroups : recent[h] >= 0
    BY <1>2
  <2> QED BY <2>1, <2>2 DEF PairedWithInterval
<1>6. GainsAreRecent'
  <2>1. seen' = {} /\ before' = seen /\ window' = recent
    BY DEF Begin
  <2>2. \A h \in seen : Gain(h)' <= recent[h]
    BY <1>2, <1>3 DEF Inv, GainsAreRecent
  <2> QED BY <2>1, <2>2 DEF GainsAreRecent
<1> QED BY <1>1, <1>4, <1>5, <1>6

(* A collection begins, with a walk or the cached mapping. *)
LEMMA CollectStep ==
    ASSUME Inv, Collect
    PROVE  Inv'
<1> USE PodMetricsAssumption
<1>1. CASE WalkFails
  BY <1>1, WalkFailsStep
<1>2. CASE WalkCgroups
  <2>1. Begin(listed \cap dirs) /\ cache' = listed \cap dirs /\ cacheAge' = 0
    BY <1>2 DEF WalkCgroups
  <2>2. listed \cap dirs \in SUBSET Cgroups
    BY DEF Inv, TypeOK
  <2>3. TypeOK' /\ ReportedOnce' /\ PairedWithInterval' /\ GainsAreRecent'
    BY <2>1, <2>2, BeginStep
  <2>4. CacheIsRecent'
    BY <2>1 DEF Begin, CacheIsRecent, Staleness, Present, podVars
  <2> QED BY <2>3, <2>4 DEF Inv
<1>3. CASE UseCache
  <2> DEFINE found == {g \in cache : KeyOf[g] \in Keys(listed)}
  <2>1. Begin(found) /\ cache' = cache /\ cacheAge' = cacheAge
    BY <1>3 DEF UseCache, cacheVars
  <2>2. found \in SUBSET Cgroups /\ cache \subseteq Cgroups /\ cacheAge \in 0..TTL
    BY DEF Inv, TypeOK
  <2>3. TypeOK' /\ ReportedOnce' /\ PairedWithInterval' /\ GainsAreRecent'
    <3> HIDE DEF found
    <3> QED BY <2>1, <2>2, BeginStep
  <2>4. CacheIsRecent'
    BY <2>1 DEF Inv, Begin, CacheIsRecent, Staleness, Present, podVars
  <2> QED BY <2>3, <2>4 DEF Inv
<1> QED BY <1>1, <1>2, <1>3 DEF Collect

(* A cgroup of the walk is read once. *)
LEMMA VisitStep ==
    ASSUME Inv, NEW g \in Cgroups, Visit(g)
    PROVE  Inv'
<1> USE PodMetricsAssumption
<1>2. /\ TypeOK /\ charged \in [Cgroups -> Nat] /\ result \in [Cgroups -> Nat]
      /\ used \in [Cgroups -> Nat] /\ seen \subseteq Cgroups /\ before \subseteq Cgroups
      /\ recent \in [Cgroups -> Nat] /\ window \in [Cgroups -> Nat] /\ last \in [Cgroups -> Nat]
  BY DEF Inv, TypeOK
<1>3. walking /\ g \in Live /\ counter[g] \in Nat /\ Gain(g) = Diff(counter[g], last[g])
  BY <1>2, GainFacts DEF Visit
<1>4. \A h \in Cgroups : Gain(h) \in Nat
  BY <1>2, GainFacts
<1>5. /\ charged' = charged /\ used' = used /\ counter' = counter /\ recent' = recent
      /\ window' = window /\ before' = before /\ walking' = walking
      /\ seen' = seen \cup {g}
      /\ last' = [last EXCEPT ![g] = counter[g]]
      /\ result' = [result EXCEPT ![g] = IF firstSample THEN 0 ELSE Gain(g)]
  BY <1>3 DEF Visit, kernelVars, windowVars
<1>6. \A h \in Cgroups : Gain(h)' = (IF h = g THEN 0 ELSE Gain(h))
  <2>1. Gain(g)' = Diff(counter[g], counter[g])
    BY <1>2, <1>3, <1>5 DEF Gain, Live
  <2>2. \A h \in Cgroups : h # g => Gain(h)' = Gain(h)
    BY <1>2, <1>5 DEF Gain, Live
  <2> QED BY <2>1, <2>2, <1>3, DiffFacts
<1>7. \A h \in Cgroups : result'[h] = IF h # g THEN result[h] ELSE IF firstSample THEN 0 ELSE Gain(h)
  BY <1>2, <1>5
<1>8. TypeOK'
  <2>1. last' \in [Cgroups -> Nat] /\ result' \in [Cgroups -> Nat] /\ seen' \subseteq Cgroups
    BY <1>2, <1>3, <1>4, <1>5
  <2> QED BY <2>1, <1>2, <1>3, <1>5 DEF TypeOK, Visit, podVars, kernelVars, cacheVars, windowVars
<1>9. ReportedOnce'
  <2> SUFFICES ASSUME NEW h \in Cgroups
               PROVE  charged'[h] + result'[h] + Gain(h)' <= used'[h]
    BY DEF ReportedOnce, Gain
  <2>1. charged[h] + result[h] + Gain(h) <= used[h]
    BY ReportedOnceGain DEF Inv
  <2>2. charged[h] \in Nat /\ result[h] \in Nat /\ used[h] \in Nat /\ Gain(h) \in Nat
    BY <1>2, <1>4
  <2> QED BY <1>5, <1>6, <1>7, <2>1, <2>2
<1>10. GainsAreRecent'
  <2>1. \A h \in Cgroups : Gain(h)' \in Nat /\ Gain(h)' <= Gain(h)
    BY <1>4, <1>6
  <2>2. \A h \in Cgroups : recent[h] \in Nat /\ window[h] \in Nat
    BY <1>2
  <2>3. ASSUME NEW h \in seen' PROVE Gain(h)' <= recent'[h]
    <3>1. CASE h = g
      BY <3>1, <1>5, <1>6, <2>2
    <3>2. CASE h # g
      <4>1. h \in seen /\ h \in Cgroups /\ Gain(h) <= recent[h]
        BY <3>2, <1>2, <1>5 DEF Inv, GainsAreRecent
      <4> QED BY <3>2, <4>1, <1>5, <1>6
    <3> QED BY <3>1, <3>2
  <2>4. ASSUME NEW h \in before' PROVE Gain(h)' <= window'[h]
    <3>1. h \in before /\ h \in Cgroups /\ Gain(h) <= window[h]
      BY <1>2, <1>3, <1>5 DEF Inv, GainsAreRecent
    <3> QED BY <3>1, <1>4, <1>5, <2>1, <2>2
  <2> QED BY <2>3, <2>4 DEF GainsAreRecent
<1>11. PairedWithInterval'
  <2> SUFFICES ASSUME NEW h \in before PROVE result'[h] <= window[h]
    BY <1>5 DEF PairedWithInterval
  <2>1. h \in Cgroups /\ Gain(h) <= window[h] /\ result[h] <= window[h] /\ window[h] \in Nat
    BY <1>2, <1>3 DEF Inv, GainsAreRecent, PairedWithInterval
  <2> QED BY <1>7, <2>1
<1>12. CacheIsRecent'
  BY DEF Inv, CacheIsRecent, Staleness, Present, Visit, cacheVars, podVars
<1> QED BY <1>8, <1>9, <1>10, <1>11, <1>12 DEF Inv

(* A collection ends and keeps what it read for the next. *)
LEMMA EndWalkStep ==
    ASSUME Inv, EndWalk
    PROVE  Inv'
<1> USE PodMetricsAssumption
<1>2. /\ TypeOK /\ charged \in [Cgroups -> Nat] /\ result \in [Cgroups -> Nat]
      /\ used \in [Cgroups -> Nat]
  BY DEF Inv, TypeOK
<1>3. TypeOK'
  <2>1. charged' \in [Cgroups -> Nat] /\ result' \in [Cgroups -> Nat] /\ window' \in [Cgroups -> Nat]
    BY <1>2 DEF EndWalk
  <2> QED BY <2>1, <1>2 DEF TypeOK, EndWalk, podVars, kernelVars, cacheVars
<1>4. \A h \in Cgroups : Gain(h) \in Nat /\ Gain(h)' = Gain(h)
  BY <1>2, GainFacts DEF EndWalk, kernelVars, Gain, Live
<1>5. ReportedOnce'
  <2> SUFFICES ASSUME NEW h \in Cgroups
               PROVE  charged'[h] + result'[h] + Gain(h)' <= used'[h]
    BY DEF ReportedOnce, Gain
  <2>1. charged[h] + result[h] + Gain(h) <= used[h]
    BY ReportedOnceGain DEF Inv
  <2>2. charged[h] \in Nat /\ result[h] \in Nat /\ used[h] \in Nat
    BY <1>2
  <2>3. charged'[h] = charged[h] + result[h] /\ result'[h] = 0 /\ used' = used
    BY DEF EndWalk, kernelVars
  <2> QED BY <1>4, <2>1, <2>2, <2>3
<1>6. GainsAreRecent' /\ PairedWithInterval'
  <2>1. walking' = FALSE /\ seen' = seen /\ recent' = recent
    BY DEF EndWalk
  <2>2. seen \subseteq Cgroups
    BY <1>2 DEF TypeOK
  <2> QED BY <1>4, <2>1, <2>2 DEF Inv, GainsAreRecent, PairedWithInterval
<1>7. CacheIsRecent'
  BY DEF Inv, CacheIsRecent, Staleness, Present, EndWalk, cacheVars, podVars
<1> QED BY <1>3, <1>5, <1>6, <1>7 DEF Inv

-----------------------------------------------------------------------------
(* The theorems *)

(* Every step keeps the invariant. *)
LEMMA NextInv == Inv /\ [Next]_vars => Inv'
<1> SUFFICES ASSUME Inv, [Next]_vars PROVE Inv'
  OBVIOUS
<1>1. ASSUME NEW g \in Cgroups, List(g) \/ Unlist(g) \/ Mkdir(g) \/ Rmdir(g) PROVE Inv'
  BY <1>1, PodSteps
<1>2. ASSUME NEW g \in Cgroups, CpuCounted(g) PROVE Inv'
  BY <1>2, CpuCountedStep
<1>3. ASSUME NEW g \in Cgroups, Evict(g) \/ Create(g) PROVE Inv'
  BY <1>3, EntryStep
<1>4. ASSUME NEW g \in Cgroups, Visit(g) PROVE Inv'
  BY <1>4, VisitStep
<1>5. CASE Tick
  BY <1>5, TickStep
<1>6. CASE Collect
  BY <1>6, CollectStep
<1>7. CASE EndWalk
  BY <1>7, EndWalkStep
<1>8. CASE UNCHANGED vars
  <2>1. TypeOK' /\ CacheIsRecent'
    BY <1>8 DEF Inv, TypeOK, CacheIsRecent, Staleness, Present, vars, podVars, kernelVars,
                cacheVars, walkVars, windowVars
  <2>2. ReportedOnce' /\ PairedWithInterval' /\ GainsAreRecent'
    BY <1>8, AccountsUnchanged DEF vars
  <2> QED BY <2>1, <2>2 DEF Inv
<1> QED BY <1>1, <1>2, <1>3, <1>4, <1>5, <1>6, <1>7, <1>8 DEF Next

(* The conjunction the theorems rest on is an invariant. *)
THEOREM Invariance == Spec => []Inv
  BY InitInv, NextInv, PTL DEF Spec

(* Every variable keeps its type and results exist inside a collection only. *)
THEOREM TypeCorrect == Spec => []TypeOK
<1>1. Inv => TypeOK
  BY DEF Inv
<1> QED BY <1>1, Invariance, PTL

(* No CPU time is reported twice, for every number of pods, evictions, repeated
   visits and failed walks. *)
THEOREM NothingReportedTwice == Spec => []ReportedOnce
<1>1. Inv => ReportedOnce
  BY DEF Inv
<1> QED BY <1>1, Invariance, PTL

(* The gain of a cgroup the previous collection read was counted after lastTime
   was last set. *)
THEOREM GainsArePaired == Spec => []PairedWithInterval
<1>1. Inv => PairedWithInterval
  BY DEF Inv
<1> QED BY <1>1, Invariance, PTL

(* A collection uses only instances that were listed and running less than the
   TTL before it began. *)
THEOREM MappingsAreRecent == Spec => MappingIsRecent
<1>1. Inv /\ [Next]_vars => [~walking /\ walking' => \A g \in lookup' : Staleness(g) < TTL]_vars
  <2> SUFFICES ASSUME Inv, Next, ~walking, walking', NEW g \in lookup'
               PROVE  Staleness(g) < TTL
    OBVIOUS
  <2> USE PodMetricsAssumption
  <2>1. WalkCgroups \/ UseCache
    BY DEF Next, List, Unlist, Mkdir, Rmdir, CpuCounted, Create, Evict, Visit, Tick, Collect, WalkFails,
           EndWalk, walkVars
  <2>2. CASE WalkCgroups
    BY <2>2 DEF WalkCgroups, Begin, Staleness, Present
  <2>3. CASE UseCache
    <3>1. g \in cache /\ cacheAge < TTL
      BY <2>3 DEF UseCache, Begin
    <3>2. g \in Cgroups /\ Staleness(g) <= cacheAge /\ cacheAge \in Nat /\ Staleness(g) \in Nat
      BY <3>1 DEF Inv, TypeOK, CacheIsRecent, Staleness
    <3> QED BY <3>1, <3>2
  <2> QED BY <2>1, <2>2, <2>3
<1> QED BY <1>1, Invariance, PTL DEF Spec, MappingIsRecent
=============================================================================
