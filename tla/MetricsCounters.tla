---------------------------- MODULE MetricsCounters ----------------------------
(***************************************************************************)
(* How CPU time and pages become counters: the tracepoint programs of      *)
(* bpf/metrics.bpf.c, which run on every CPU at once.  sched_switch adds   *)
(* the time since the outgoing task was switched in to the entry of its    *)
(* cgroup, and notes when the incoming task starts; mm_page_alloc and      *)
(* mm_page_free add to and subtract from the entry of the running cgroup.  *)
(*                                                                         *)
(* A program runs with preemption disabled, so a CPU is inside one handler *)
(* at a time; a map lookup, a map update and an atomic add are one step.   *)
(* clustercost_metrics is an LRU map and modelled as the map of            *)
(* FlowCounters is: an entry is a slot, a creation takes any slot, and an  *)
(* add may reach a slot that has changed hands.  pid_start is a plain hash *)
(* map: an update of a key it has succeeds, an update of a new key fails   *)
(* when it is full, and the programs never delete a key.                   *)
(*                                                                         *)
(* Data.  Time is counted in ticks, memory in pages.  Memory counters are  *)
(* unsigned and wrap at Modulus, which stands for 2^64 bytes; CPU counters *)
(* do not come near 2^64 ns.                                               *)
(***************************************************************************)
EXTENDS Integers, FiniteSets, FiniteSetsExt

CONSTANTS
    Cpus,
    Pids,        \* process ids other than 0
    Idle,        \* process id 0: the idle task of every CPU
    Groups,      \* cgroups
    Slots,       \* max_entries of clustercost_metrics
    PidEntries,  \* max_entries of pid_start
    Modulus,     \* where memory_bytes wraps
    TotalPages,  \* physical memory
    None,        \* NULL, or no such entry
    MaxTime,     \* bound: ticks
    MaxPageOps   \* bound: pages allocated or freed

ASSUME MetricsAssumption ==
    /\ Idle \notin Pids /\ None \notin Pids \cup {Idle}
    /\ None \notin Slots /\ None \notin Groups /\ None \notin Nat
    /\ IsFiniteSet(Cpus) /\ IsFiniteSet(Groups)
    /\ PidEntries \in Nat /\ Modulus \in Nat \ {0} /\ TotalPages \in Nat
    /\ MaxTime \in Nat /\ MaxPageOps \in Nat

Tasks == Pids \cup {Idle}

VARIABLES
    clock,      \* bpf_ktime_get_ns
    current,    \* the task on each CPU
    group,      \* the cgroup of each task
    inUse,      \* pages of the node in use
    start,      \* pid_start
    table,      \* clustercost_metrics: the slot of each cgroup, or None
    stats,      \* the value in each slot
    pc,         \* where each CPU is inside a handler
    next,       \* next_pid in sched_switch, None in the other handlers
    now,        \* now in sched_switch
    op,         \* what add_cpu_time or add_memory was called with
    ptr,        \* the pointer returned by the last lookup
    pageOps,
    \* History.
    used,       \* time each cgroup really was on a CPU
    pages,      \* pages each cgroup allocated less pages it freed
    disturbed   \* cgroups that lost an entry, share a slot with a late add,
                \* ran without an entry in pid_start, or were entered or left by
                \* a running task

nodeVars    == <<clock, current, group, inUse, used>>
mapVars     == <<start, table, stats>>
handlerVars == <<pc, next, now, op, ptr, pageOps>>
vars == <<nodeVars, mapVars, handlerVars, pages, disturbed>>

-----------------------------------------------------------------------------
Live == {g \in Groups : table[g] # None}

Zero == [cpu |-> 0, mem |-> 0]

NoOp == [cg |-> None, cpu |-> 0, mem |-> 0]

(* The task a CPU belongs to: the incoming one from the moment now is read. *)
Occupant(c) == IF next[c] # None THEN next[c] ELSE current[c]

OnCpu == {current[c] : c \in Cpus} \cup {next[c] : c \in Cpus}

Recorded == {t \in Tasks : start[t] # None}

Init ==
    /\ clock = 0
    /\ group \in [Tasks -> Groups]
    /\ current \in {f \in [Cpus -> Tasks] :
                      \A c, d \in Cpus : f[c] = f[d] => c = d \/ f[c] = Idle}
    /\ inUse \in 0..TotalPages
    /\ start = [t \in Tasks |-> None]
    /\ table = [g \in Groups |-> None] /\ stats = [s \in Slots |-> Zero]
    /\ pc = [c \in Cpus |-> "out"] /\ next = [c \in Cpus |-> None]
    /\ now = [c \in Cpus |-> 0] /\ op = [c \in Cpus |-> NoOp]
    /\ ptr = [c \in Cpus |-> None] /\ pageOps = 0
    /\ used = [g \in Groups |-> 0] /\ pages = [g \in Groups |-> 0]
    /\ disturbed = {group[current[c]] : c \in {d \in Cpus : current[d] # Idle}}

-----------------------------------------------------------------------------
(* The node *)

Tick ==
    /\ clock < MaxTime /\ clock' = clock + 1
    /\ used' = [g \in Groups |-> used[g] +
          Cardinality({c \in Cpus : Occupant(c) # Idle /\ group[Occupant(c)] = g})]
    /\ UNCHANGED <<current, group, inUse, mapVars, handlerVars, pages, disturbed>>

(* A task moves to another cgroup, or ends and its pid is given to a new one. *)
Move(p) ==
    /\ \E g \in Groups \ {group[p]} :
        /\ group' = [group EXCEPT ![p] = g]
        /\ disturbed' = IF \E c \in Cpus : Occupant(c) = p
                        THEN disturbed \cup {group[p], g} ELSE disturbed
    /\ UNCHANGED <<clock, current, inUse, used, mapVars, handlerVars, pages>>

-----------------------------------------------------------------------------
(* Mistakes the properties are tested against: each of the following is a
   wrong version of the definition named before the underscore. *)

(* The entry of a pid is written once and never refreshed. *)
SwitchIn_KeepsStart(c) ==
    /\ pc[c] = "in"
    /\ LET t == next[c] IN
       IF t \notin Recorded /\ Cardinality(Recorded) < PidEntries
       THEN start' = [start EXCEPT ![t] = now[c]] /\ disturbed' = disturbed
       ELSE start' = start /\ disturbed' = disturbed \cup (IF t \in Recorded THEN {} ELSE {group[t]})
    /\ current' = [current EXCEPT ![c] = next[c]]
    /\ next' = [next EXCEPT ![c] = None] /\ pc' = [pc EXCEPT ![c] = "out"]
    /\ now' = [now EXCEPT ![c] = 0]
    /\ UNCHANGED <<clock, group, inUse, used, table, stats, op, ptr, pageOps, pages>>

(* The branch on the sign of delta is missing. *)
Added_AlwaysUp(v, o) ==
    [cpu |-> v.cpu + o.cpu, mem |-> (v.mem + (IF o.mem < 0 THEN -o.mem ELSE o.mem)) % Modulus]

(* The second NULL check is missing. *)
LookupAgain_NoCheck(c) ==
    /\ pc[c] = "again"
    /\ ptr' = [ptr EXCEPT ![c] = table[op[c].cg]]
    /\ pc' = [pc EXCEPT ![c] = "add"]
    /\ UNCHANGED <<nodeVars, mapVars, next, now, op, pageOps, pages, disturbed>>

-----------------------------------------------------------------------------
(* The handlers up to add_cpu_time or add_memory *)

(* The delta of sched_switch: nothing for the idle task, for a task without an
   entry, and when the clock has not moved. *)
Slice(c) ==
    IF current[c] # Idle /\ start[current[c]] # None THEN clock - start[current[c]] ELSE 0

(* sched_switch reads the clock and the entry of prev_pid. *)
SwitchOut(c) ==
    /\ pc[c] = "out"
    /\ \E t \in Tasks :
        /\ t # current[c] /\ (t \in OnCpu => t = Idle)
        /\ next' = [next EXCEPT ![c] = t]
    /\ now' = [now EXCEPT ![c] = clock]
    /\ IF Slice(c) > 0
       THEN /\ op' = [op EXCEPT ![c] = [cg |-> group[current[c]], cpu |-> Slice(c), mem |-> 0]]
            /\ pc' = [pc EXCEPT ![c] = "lookup"]
       ELSE op' = op /\ pc' = [pc EXCEPT ![c] = "in"]
    /\ UNCHANGED <<nodeVars, mapVars, ptr, pageOps, pages, disturbed>>

(* mm_page_alloc and mm_page_free count for the cgroup that runs, which need not
   be the one the page belongs to. *)
PageOp(c, n) ==
    /\ pc[c] = "out" /\ pageOps < MaxPageOps
    /\ inUse' = inUse + n /\ pageOps' = pageOps + 1
    /\ op' = [op EXCEPT ![c] = [cg |-> group[current[c]], cpu |-> 0, mem |-> n]]
    /\ pc' = [pc EXCEPT ![c] = "lookup"]
    /\ UNCHANGED <<clock, current, group, used, mapVars, next, now, ptr, pages, disturbed>>

PageAlloc(c) == inUse < TotalPages /\ PageOp(c, 1)
PageFree(c)  == inUse > 0 /\ PageOp(c, -1)

-----------------------------------------------------------------------------
(* add_cpu_time and add_memory *)

(* The call returns: sched_switch goes on to pid_start, the others end. *)
Returns(c) ==
    /\ pc' = [pc EXCEPT ![c] = IF next[c] # None THEN "in" ELSE "out"]
    /\ op' = [op EXCEPT ![c] = NoOp] /\ ptr' = [ptr EXCEPT ![c] = None]
    /\ pages' = [pages EXCEPT ![op[c].cg] = @ + op[c].mem]

Lookup(c) ==
    /\ pc[c] = "lookup"
    /\ ptr' = [ptr EXCEPT ![c] = table[op[c].cg]]
    /\ pc' = [pc EXCEPT ![c] = IF table[op[c].cg] = None THEN "create" ELSE "add"]
    /\ UNCHANGED <<nodeVars, mapVars, next, now, op, pageOps, pages, disturbed>>

(* CPUs that will still add to slot s. *)
Writers(s) == {c \in Cpus : pc[c] = "add" /\ ptr[c] = s}

Displaced(g, s) == {h \in Live : h = g \/ table[h] = s}

Create(c) ==
    /\ pc[c] = "create"
    /\ LET g == op[c].cg IN
       \E s \in Slots :
        /\ table' = [h \in Groups |-> IF h = g THEN s ELSE IF table[h] = s THEN None ELSE table[h]]
        /\ stats' = [stats EXCEPT ![s] = Zero]
        /\ disturbed' = disturbed \cup Displaced(g, s) \cup (IF Writers(s) # {} THEN {g} ELSE {})
    /\ pc' = [pc EXCEPT ![c] = "again"]
    /\ UNCHANGED <<nodeVars, start, next, now, op, ptr, pageOps, pages>>

LookupAgain(c) ==
    /\ pc[c] = "again"
    /\ IF table[op[c].cg] = None
       THEN Returns(c)
       ELSE /\ ptr' = [ptr EXCEPT ![c] = table[op[c].cg]]
            /\ pc' = [pc EXCEPT ![c] = "add"]
            /\ UNCHANGED <<op, pages>>
    /\ UNCHANGED <<nodeVars, mapVars, next, now, pageOps, disturbed>>

(* The atomic add or sub on an unsigned counter. *)
Added(v, o) == [cpu |-> v.cpu + o.cpu, mem |-> (v.mem + o.mem) % Modulus]

Add(c) ==
    /\ pc[c] = "add"
    /\ stats' = [stats EXCEPT ![ptr[c]] = Added(@, op[c])]
    /\ Returns(c)
    /\ UNCHANGED <<nodeVars, start, table, next, now, pageOps, disturbed>>

-----------------------------------------------------------------------------
(* The end of sched_switch: the entry of next_pid gets the time read at the
   beginning; a full map refuses a new key and the result is ignored. *)
SwitchIn(c) ==
    /\ pc[c] = "in"
    /\ LET t == next[c] IN
       IF t \in Recorded \/ Cardinality(Recorded) < PidEntries
       THEN start' = [start EXCEPT ![t] = now[c]] /\ disturbed' = disturbed
       ELSE start' = start /\ disturbed' = disturbed \cup {group[t]}
    /\ current' = [current EXCEPT ![c] = next[c]]
    /\ next' = [next EXCEPT ![c] = None] /\ pc' = [pc EXCEPT ![c] = "out"]
    /\ now' = [now EXCEPT ![c] = 0]
    /\ UNCHANGED <<clock, group, inUse, used, table, stats, op, ptr, pageOps, pages>>

Handle(c) ==
    \/ SwitchOut(c) \/ PageAlloc(c) \/ PageFree(c)
    \/ Lookup(c) \/ Create(c) \/ LookupAgain(c) \/ Add(c)
    \/ SwitchIn(c)

Next == Tick \/ (\E p \in Pids : Move(p)) \/ (\E c \in Cpus : Handle(c))

Spec == Init /\ [][Next]_vars

-----------------------------------------------------------------------------
(* Properties *)

(* Every variable has its type, the counters of memory stay below the modulus,
   and a CPU about to add holds a pointer that is not NULL. *)
TypeOK ==
    /\ clock \in Nat /\ inUse \in 0..TotalPages
    /\ current \in [Cpus -> Tasks] /\ group \in [Tasks -> Groups]
    /\ start \in [Tasks -> Nat \cup {None}]
    /\ table \in [Groups -> Slots \cup {None}]
    /\ stats \in [Slots -> [cpu : Nat, mem : 0..Modulus - 1]]
    /\ pc \in [Cpus -> {"out", "lookup", "create", "again", "add", "in"}]
    /\ next \in [Cpus -> Tasks \cup {None}] /\ now \in [Cpus -> Nat]
    /\ op \in [Cpus -> [cg : Groups \cup {None}, cpu : Nat, mem : {-1, 0, 1}]]
    /\ ptr \in [Cpus -> Slots \cup {None}]
    /\ \A c \in Cpus : pc[c] = "add" => ptr[c] \in Slots
    /\ pageOps \in Nat
    /\ used \in [Groups -> Nat] /\ pages \in [Groups -> Int]
    /\ disturbed \subseteq Groups

(* What sched_switch will find when CPU c switches its task out. *)
Unfinished(c) ==
    LET t == Occupant(c) IN
    IF t = Idle THEN 0
    ELSE IF next[c] # None THEN clock - now[c]
    ELSE IF start[t] # None THEN clock - start[t] ELSE 0

Counted(g) == IF g \in Live THEN stats[table[g]].cpu ELSE 0

(* The CPU time of an undisturbed cgroup is counted to the tick: what is in its
   entry, what a handler is about to add, and what its running tasks have not
   finished add up to the time it really had, on all CPUs together. *)
CpuExact ==
    \A g \in Groups \ disturbed :
        used[g] = Counted(g)
                  + MapThenSumSet(LAMBDA c : op[c].cpu, {c \in Cpus : op[c].cg = g})
                  + MapThenSumSet(Unfinished, {c \in Cpus : group[Occupant(c)] = g})

(* No CPU time is counted twice: with evictions, entries created twice, adds
   through old pointers, full maps, moved tasks and reused pids the entries
   never show more than the CPUs were busy. *)
NeverOvercounted ==
    MapThenSumSet(Counted, Groups)
        + MapThenSumSet(LAMBDA c : op[c].cpu, Cpus)
        + MapThenSumSet(Unfinished, Cpus)
            <= MapThenSumSet(LAMBDA g : used[g], Groups)

(* CPU time is counted once: to the tick for the cgroups nothing happened to, and
   never twice for all of them together. *)
CpuCountedOnce == CpuExact /\ NeverOvercounted

(* The memory counter of an undisturbed cgroup is the pages it allocated less
   the pages it freed, as an unsigned number. *)
MemoryExact ==
    \A g \in Groups \ disturbed :
        (IF g \in Live THEN stats[table[g]].mem ELSE 0) = pages[g] % Modulus

-----------------------------------------------------------------------------
(* What a comment says, and a run refutes *)

(* safeInt64FromUint64 of the collector. *)
Reported(v) == LET MaxInt64 == Modulus \div 2 - 1 IN IF v > MaxInt64 THEN MaxInt64 ELSE v

(* kube/types.go:52: "PodUsage details actual usage metrics".  Memory in use does
   not exceed the memory there is. *)
MemoryIsActual == \A g \in Live : Reported(stats[table[g]].mem) <= TotalPages
=============================================================================
