------------------------------- MODULE PodMetrics -------------------------------
(***************************************************************************)
(* How CPU counters become pod usage: ebpfMetricsCollector.                *)
(* CollectPodMetrics looks the listed pods up among the cgroup directories *)
(* (or in a cache of an earlier look), walks the counters, and reports for *)
(* each pod what its counter gained since the collector last read it.      *)
(*                                                                         *)
(* A cgroup belongs to one pod instance (one UID) and a pod's              *)
(* namespace/name, its key, may be used by several instances in turn: the  *)
(* reports and the cache are by key, the counters by cgroup.               *)
(*                                                                         *)
(* Data.  The counters are those of MetricsCounters, here one number of    *)
(* ticks per cgroup that grows and may be evicted: the time of the tasks   *)
(* directly in the directory found for the pod, since the kernel counts    *)
(* tasks of directories below it elsewhere.  Memory is copied from         *)
(* the counter without any state and left out.  A usage in milli-CPU is a  *)
(* gain divided by the time between two collections; the model keeps the   *)
(* gain, and the history variable window what the counter really gained    *)
(* in that time.                                                           *)
(***************************************************************************)
EXTENDS Integers, FiniteSets, FiniteSetsExt

CONSTANTS
    Cgroups,     \* pod instances
    KeyOf,       \* KeyOf[g]: namespace/name of the instance
    TTL,         \* cacheTTL in ticks
    None,        \* no entry
    MaxCpu,      \* bound: CPU ticks used by all cgroups
    MaxFaults    \* bound: cgroup walks that fail and entries evicted

ASSUME PodMetricsAssumption ==
    /\ TTL \in Nat \ {0} /\ None \notin Nat
    /\ MaxCpu \in Nat /\ MaxFaults \in Nat
    /\ DOMAIN KeyOf = Cgroups

VARIABLES
    listed,     \* instances whose pod is in the lister
    retired,    \* instances whose pod has left the lister
    dirs,       \* cgroup directories
    counter,    \* clustercost_metrics: cpu_time_ns, or None
    cache,      \* c.cache, by its cgroups
    cacheAge,   \* time since c.cacheAt, up to TTL; TTL at first
    sampled,    \* c.lastTime is set
    walking, lookup, firstSample, seen,
    churned,    \* an entry was evicted during this iteration
    last,       \* c.last; 0 stands for "no entry", the zero value Go reads
    result,     \* gains in the map the collector is filling
    faults,
    \* History.
    used,       \* CPU time counted for each cgroup
    charged,    \* gains returned to the caller
    recent,     \* counted since c.lastTime was set
    window,     \* in a collection: counted since c.lastTime was set the time before
    before,     \* in a collection: read by the previous one
    stale       \* time since the instance was both listed and running, up to TTL

podVars     == <<listed, retired, dirs>>
kernelVars  == <<counter, used>>
cacheVars   == <<cache, cacheAge>>
walkVars    == <<walking, lookup, firstSample, seen, last, result>>
windowVars  == <<sampled, recent, window, before>>
vars == <<podVars, kernelVars, cacheVars, walkVars, windowVars, churned, faults, charged, stale>>

-----------------------------------------------------------------------------
Keys(G) == {KeyOf[g] : g \in G}

Live == {g \in Cgroups : counter[g] # None}

(* A mistake TypeOK is tested against: Diff without the case of a reset. *)
Diff_NoReset(current, previous) == current - previous

(* diffUint64Metrics: a counter below its last value has been reset. *)
Diff(current, previous) == IF current >= previous THEN current - previous ELSE current

(* Ages saturate at the TTL. *)
Older(age) == IF age < TTL THEN age + 1 ELSE TTL

(* The instance's pod is listed and its directory exists. *)
Present(g) == g \in listed \cap dirs

Staleness(g) == IF Present(g) THEN 0 ELSE stale[g]

Init ==
    /\ listed = {} /\ retired = {} /\ dirs = {}
    /\ counter = [g \in Cgroups |-> None]
    /\ cache = {} /\ cacheAge = TTL /\ sampled = FALSE
    /\ walking = FALSE /\ lookup = {} /\ firstSample = FALSE /\ seen = {} /\ churned = FALSE
    /\ last = [g \in Cgroups |-> 0] /\ result = [g \in Cgroups |-> 0]
    /\ faults = 0
    /\ used = [g \in Cgroups |-> 0] /\ charged = [g \in Cgroups |-> 0]
    /\ recent = [g \in Cgroups |-> 0] /\ window = [g \in Cgroups |-> 0]
    /\ before = {} /\ stale = [g \in Cgroups |-> TTL]

-----------------------------------------------------------------------------
(* Mistakes the properties are tested against: each of the following is a
   wrong version of the definition named before the underscore. *)

(* A cached answer counts as a fresh one. *)
UseCache_Slides ==
    /\ ~walking /\ cacheAge < TTL
    /\ walking' = TRUE /\ lookup' = {g \in cache : KeyOf[g] \in Keys(listed)}
    /\ firstSample' = ~sampled /\ sampled' = TRUE
    /\ window' = recent /\ recent' = [g \in Cgroups |-> 0] /\ before' = seen
    /\ seen' = {} /\ churned' = FALSE
    /\ result' = [g \in Cgroups |-> 0]
    /\ cacheAge' = 0
    /\ UNCHANGED <<podVars, kernelVars, cache, last, faults, charged, stale>>

(* A cgroup seen for the first time gets no baseline. *)
Visit_NoBaseline(g) ==
    /\ walking /\ g \in lookup \cap Live /\ (g \notin seen \/ churned)
    /\ seen' = seen \cup {g}
    /\ last' = IF firstSample \/ last[g] = 0 THEN last ELSE [last EXCEPT ![g] = counter[g]]
    /\ result' = [result EXCEPT ![g] = IF firstSample THEN 0 ELSE Diff(counter[g], last[g])]
    /\ UNCHANGED <<podVars, kernelVars, cacheVars, windowVars, walking, lookup, firstSample,
                   churned, faults, charged, stale>>

(* lastTime is set before the pods are looked up. *)
WalkFails_SetsTime ==
    /\ ~walking /\ cacheAge = TTL /\ faults < MaxFaults
    /\ faults' = faults + 1
    /\ sampled' = TRUE /\ recent' = [g \in Cgroups |-> 0]
    /\ UNCHANGED <<podVars, kernelVars, cacheVars, walkVars, window, before, churned, charged, stale>>

-----------------------------------------------------------------------------
(* Pods *)

(* A pod appears in the lister; an older instance of the same name gives way. *)
List(g) ==
    /\ g \notin listed \cup retired
    /\ LET replaced == {h \in listed : KeyOf[h] = KeyOf[g]} IN
       /\ listed' = (listed \ replaced) \cup {g}
       /\ retired' = retired \cup replaced
       /\ stale' = [h \in Cgroups |-> IF h \in replaced THEN Staleness(h) ELSE stale[h]]
    /\ UNCHANGED <<dirs, kernelVars, cacheVars, walkVars, windowVars, churned, faults, charged>>

Unlist(g) ==
    /\ g \in listed
    /\ listed' = listed \ {g} /\ retired' = retired \cup {g}
    /\ stale' = [stale EXCEPT ![g] = Staleness(g)]
    /\ UNCHANGED <<dirs, kernelVars, cacheVars, walkVars, windowVars, churned, faults, charged>>

(* A directory is made once: an instance that has run does not come back. *)
Mkdir(g) ==
    /\ g \notin dirs /\ used[g] = 0 /\ g \notin retired
    /\ dirs' = dirs \cup {g}
    /\ UNCHANGED <<listed, retired, kernelVars, cacheVars, walkVars, windowVars, churned, faults, charged, stale>>

Rmdir(g) ==
    /\ g \in dirs /\ used[g] > 0
    /\ dirs' = dirs \ {g}
    /\ stale' = [stale EXCEPT ![g] = Staleness(g)]
    /\ UNCHANGED <<listed, retired, kernelVars, cacheVars, walkVars, windowVars, churned, faults, charged>>

-----------------------------------------------------------------------------
(* The kernel and the clock *)

TotalUsed == MapThenSumSet(LAMBDA h : used[h], Cgroups)

(* The first slice of an instance finds no entry and makes one. *)
Create(g) ==
    /\ g \in dirs \ Live /\ TotalUsed < MaxCpu
    /\ counter' = [counter EXCEPT ![g] = 0]
    /\ UNCHANGED <<podVars, used, cacheVars, walkVars, windowVars, churned, faults, charged, stale>>

(* A slice of the instance's tasks is added to its entry. *)
CpuCounted(g) ==
    /\ g \in dirs \cap Live /\ TotalUsed < MaxCpu
    /\ counter' = [counter EXCEPT ![g] = @ + 1]
    /\ used' = [used EXCEPT ![g] = @ + 1]
    /\ recent' = [recent EXCEPT ![g] = @ + 1]
    /\ window' = IF walking THEN [window EXCEPT ![g] = @ + 1] ELSE window
    /\ UNCHANGED <<podVars, cacheVars, walkVars, sampled, before, churned, faults, charged, stale>>

Evict(g) ==
    /\ g \in Live /\ faults < MaxFaults
    /\ counter' = [counter EXCEPT ![g] = None]
    /\ faults' = faults + 1 /\ churned' = walking
    /\ UNCHANGED <<podVars, used, cacheVars, walkVars, windowVars, charged, stale>>

Tick ==
    /\ cacheAge' = Older(cacheAge)
    /\ stale' = [g \in Cgroups |-> IF Present(g) THEN 0 ELSE Older(stale[g])]
    /\ UNCHANGED <<podVars, kernelVars, cache, walkVars, windowVars, churned, faults, charged>>

-----------------------------------------------------------------------------
(* CollectPodMetrics *)

(* The pods are looked up: lastTime is set and the iteration begins. *)
Begin(found) ==
    /\ ~walking /\ walking' = TRUE
    /\ lookup' = found
    /\ firstSample' = ~sampled /\ sampled' = TRUE
    /\ window' = recent /\ recent' = [g \in Cgroups |-> 0] /\ before' = seen
    /\ seen' = {} /\ churned' = FALSE
    /\ result' = [g \in Cgroups |-> 0]
    /\ UNCHANGED <<podVars, kernelVars, last, faults, charged, stale>>

(* The cache is too old: the directories are walked for the UIDs of the pods. *)
WalkCgroups ==
    /\ cacheAge = TTL
    /\ Begin(listed \cap dirs)
    /\ cache' = listed \cap dirs /\ cacheAge' = 0

(* The walk fails and the collection with it: cache and lastTime stay. *)
WalkFails ==
    /\ ~walking /\ cacheAge = TTL /\ faults < MaxFaults
    /\ faults' = faults + 1
    /\ UNCHANGED <<podVars, kernelVars, cacheVars, walkVars, windowVars, churned, charged, stale>>

(* Pods are looked up in the cache by key. *)
UseCache ==
    /\ cacheAge < TTL
    /\ Begin({g \in cache : KeyOf[g] \in Keys(listed)})
    /\ UNCHANGED cacheVars

(* The iteration returns the entry of g: its baseline moves, and its gain since
   the old one is the result of its key, whatever was there before. *)
Visit(g) ==
    /\ walking /\ g \in lookup \cap Live /\ (g \notin seen \/ churned)
    /\ seen' = seen \cup {g}
    /\ last' = [last EXCEPT ![g] = counter[g]]
    /\ result' = [result EXCEPT ![g] = IF firstSample THEN 0 ELSE Diff(counter[g], last[g])]
    /\ UNCHANGED <<podVars, kernelVars, cacheVars, windowVars, walking, lookup, firstSample,
                   churned, faults, charged, stale>>

(* The caller gets the results, also when the iteration was aborted. *)
EndWalk ==
    /\ walking /\ (lookup \cap Live \subseteq seen \/ churned)
    /\ walking' = FALSE
    /\ charged' = [g \in Cgroups |-> charged[g] + result[g]]
    /\ result' = [g \in Cgroups |-> 0] /\ lookup' = {} /\ firstSample' = FALSE
    /\ churned' = FALSE /\ window' = [g \in Cgroups |-> 0] /\ before' = {}
    /\ UNCHANGED <<podVars, kernelVars, cacheVars, seen, last, sampled, recent, faults, stale>>

-----------------------------------------------------------------------------
Collect == WalkCgroups \/ WalkFails \/ UseCache

Next ==
    \/ \E g \in Cgroups :
         \/ List(g) \/ Unlist(g) \/ Mkdir(g) \/ Rmdir(g)
         \/ Create(g) \/ CpuCounted(g) \/ Evict(g) \/ Visit(g)
    \/ Tick \/ Collect \/ EndWalk

Spec == Init /\ [][Next]_vars

(* The snapshot loop collects again and again, an iteration makes progress and
   time passes.  Pods and their CPU use are free. *)
Fairness ==
    /\ WF_vars(Collect) /\ WF_vars(EndWalk) /\ WF_vars(Tick)
    /\ \A g \in Cgroups : WF_vars(Visit(g))

FairSpec == Spec /\ Fairness

-----------------------------------------------------------------------------
(* Properties *)

(* Every variable has its type; results exist inside a collection only. *)
TypeOK ==
    /\ listed \subseteq Cgroups /\ retired \subseteq Cgroups /\ dirs \subseteq Cgroups
    /\ counter \in [Cgroups -> Nat \cup {None}]
    /\ cache \subseteq Cgroups /\ cacheAge \in 0..TTL /\ sampled \in BOOLEAN
    /\ walking \in BOOLEAN /\ lookup \subseteq Cgroups /\ seen \subseteq Cgroups
    /\ firstSample \in BOOLEAN /\ churned \in BOOLEAN
    /\ last \in [Cgroups -> Nat] /\ result \in [Cgroups -> Nat]
    /\ ~walking => lookup = {} /\ \A g \in Cgroups : result[g] = 0
    /\ faults \in Nat /\ used \in [Cgroups -> Nat] /\ charged \in [Cgroups -> Nat]
    /\ recent \in [Cgroups -> Nat] /\ window \in [Cgroups -> Nat]
    /\ before \subseteq Cgroups /\ stale \in [Cgroups -> 0..TTL]

(* No CPU time is reported twice: what was reported of a cgroup, what is being
   reported and what the next visit will find never exceed what was counted for
   it, with evictions, repeated visits, failed walks and stale caches. *)
ReportedOnce ==
    \A g \in Cgroups :
        charged[g] + result[g] + (IF g \in Live THEN Diff(counter[g], last[g]) ELSE 0) <= used[g]

(* A collection reads a cgroup for a pod only if that instance was listed and
   running less than cacheTTL before the collection began. *)
MappingIsRecent ==
    [][~walking /\ walking' => \A g \in lookup' : Staleness(g) < TTL]_vars

(* The gain of a cgroup that the previous collection read belongs to the time
   it is divided by: it was counted after lastTime was last set. *)
PairedWithInterval ==
    walking => \A g \in before : result[g] <= window[g]

(* The counter of a pod that stays listed and running is read to the end,
   although a new pod, or a new instance under an old name, waits for the cache
   to expire. *)
CountersAreRead ==
    \A g \in Cgroups :
        <>[](Present(g)) => []<>(g \in Live => last[g] = counter[g])

-----------------------------------------------------------------------------
(* What a comment says, and a run refutes *)

(* kube/types.go:52: "PodUsage details actual usage metrics".  The CPU usage
   reported for an interval was used in it. *)
UsageIsActual == walking => \A g \in Cgroups : result[g] <= window[g]
=============================================================================
