------------------------ MODULE MetricsCountersProofs ------------------------
(***************************************************************************)
(* Proofs about MetricsCounters for every number of CPUs, tasks, cgroups   *)
(* and map entries, every amount of memory and every width of a counter.   *)
(*                                                                         *)
(* The argument is that of FlowCountersProofs, with handlers that call     *)
(* add_cpu_time or add_memory from two places: a CPU about to add holds    *)
(* the slot of the cgroup it adds for, or that cgroup and whoever owns the *)
(* slot now are disturbed (Pointers).  So an add to an undisturbed cgroup  *)
(* reaches its own entry and no other undisturbed one; and because         *)
(* addition commutes with % Modulus, an unsigned counter that goes below   *)
(* zero and comes back is right again.                                     *)
(*                                                                         *)
(* CPU time is a statement about sums.  A task is on one CPU, a time read  *)
(* never lies in the future and a running task without a start time has    *)
(* disturbed its cgroup (Running); with that, every step moves time from   *)
(* what a CPU's task has not finished to what its handler holds, and from  *)
(* there to an entry, or loses it where a cgroup is disturbed (Over and    *)
(* Exact); a tick adds to the time used what it adds to the busy CPUs.     *)
(***************************************************************************)
EXTENDS MetricsCounters, SumTheorems, FiniteSetTheorems, TLAPS

(* A handler inside add_cpu_time or add_memory has a cgroup to add for, and
   sched_switch knows the incoming task until it ends. *)
Called ==
    \A c \in Cpus :
        /\ pc[c] \in {"lookup", "create", "again", "add"} => op[c].cg \in Groups
        /\ pc[c] = "in" => next[c] \in Tasks

OneSlotEach == \A g, h \in Live : table[g] = table[h] => g = h

(* Where the pointers held by handlers lead. *)
Pointers ==
    \A c \in Cpus :
        /\ pc[c] = "again" => op[c].cg \in Live \cup disturbed
        /\ pc[c] = "add" =>
             \/ table[op[c].cg] = ptr[c]
             \/ /\ op[c].cg \in disturbed
                /\ \A g \in Live : table[g] = ptr[c] => g \in disturbed

IInv == TypeOK /\ Called /\ OneSlotEach /\ Pointers /\ MemoryExact

(* The remainder is the one number below m that is a multiple of m away. *)
LEMMA ModUnique ==
    ASSUME NEW m \in Nat \ {0}, NEW x \in Int, NEW k \in Int, NEW r \in 0 .. m - 1,
           x = m * k + r
    PROVE  x % m = r
<1> DEFINE q == x \div m
           d == k - q
<1>1. q \in Int /\ x % m \in 0 .. m - 1 /\ x = m * q + (x % m)
  OBVIOUS
<1>2. d \in Int /\ m * k = m * q + m * d
  BY <1>1
<1>3. m * d \in Int /\ m * d < m /\ -m < m * d
  BY <1>1, <1>2
<1>4. ~ d >= 1
  <2>1. SUFFICES ASSUME d - 1 \in Nat PROVE FALSE
    BY <1>2
  <2>2. m * (d - 1) \in Nat /\ m * d = m + m * (d - 1)
    BY <2>1, <1>2
  <2>3. QED BY <2>2, <1>3
<1>5. ~ d <= -1
  <2>1. SUFFICES ASSUME -1 - d \in Nat PROVE FALSE
    BY <1>2
  <2>2. m * (-1 - d) \in Nat /\ m * d = -m - m * (-1 - d)
    BY <2>1, <1>2
  <2>3. QED BY <2>2, <1>3
<1>6. k = q
  BY <1>1, <1>2, <1>4, <1>5
<1>7. QED BY <1>1, <1>6

(* The remainder of a sum is that of the sum of the remainders. *)
LEMMA ModAdd ==
    ASSUME NEW m \in Nat \ {0}, NEW a \in Int, NEW b \in Int
    PROVE  ((a % m) + b) % m = (a + b) % m
<1> DEFINE q == a \div m
           c == (a % m) + b
           p == c \div m
           r == c % m
<1>1. q \in Int /\ a % m \in Int /\ a = m * q + (a % m)
  OBVIOUS
<1>2. c \in Int
  BY <1>1
<1>3. p \in Int /\ r \in 0 .. m - 1 /\ c = m * p + r
  BY <1>2
<1>4. a + b = m * q + c
  BY <1>1
<1>5. a + b = m * (q + p) + r /\ q + p \in Int
  BY <1>1, <1>3, <1>4
<1> HIDE DEF q, c, p, r
<1>6. (a + b) % m = r
  BY <1>3, <1>5, ModUnique
<1>7. QED BY <1>6 DEF c, r

(* The tracepoint programs have not run, and nobody has an entry. *)
LEMMA InitEstablishes == Init => IInv
<1> SUFFICES ASSUME Init PROVE IInv
  OBVIOUS
<1> USE MetricsAssumption DEF Init
<1>1. TypeOK
  BY DEF TypeOK, Tasks, Zero, NoOp
<1>2. Live = {}
  BY DEF Live
<1>3. Called /\ OneSlotEach /\ Pointers
  BY <1>2 DEF Called, OneSlotEach, Pointers
<1>4. MemoryExact
  <2>1. 0 % Modulus = 0
    BY ModUnique
  <2>2. QED BY <2>1, <1>2 DEF MemoryExact
<1>5. QED BY <1>1, <1>3, <1>4 DEF IInv

(* What Returns does to the variables it sets. *)
LEMMA Returned ==
    ASSUME TypeOK, NEW c \in Cpus, Returns(c), op[c].cg \in Groups
    PROVE  /\ pc' = [pc EXCEPT ![c] = IF next[c] # None THEN "in" ELSE "out"]
           /\ pc'[c] \in {"in", "out"}
           /\ pc'[c] = "in" => next[c] \in Tasks
           /\ pc' \in [Cpus -> {"out", "lookup", "create", "again", "add", "in"}]
           /\ op' \in [Cpus -> [cg : Groups \cup {None}, cpu : Nat, mem : {-1, 0, 1}]]
           /\ ptr' \in [Cpus -> Slots \cup {None}]
           /\ pages' \in [Groups -> Int]
           /\ \A d \in Cpus \ {c} : pc'[d] = pc[d] /\ op'[d] = op[d] /\ ptr'[d] = ptr[d]
           /\ \A d \in Cpus : pc'[d] = "add" => ptr'[d] \in Slots
           /\ \A g \in Groups :
                pages'[g] = IF g = op[c].cg THEN pages[g] + op[c].mem ELSE pages[g]
<1> USE DEF TypeOK, Returns
<1>1. op[c].mem \in {-1, 0, 1} /\ op[c].mem \in Int
  OBVIOUS
<1>2. pages' \in [Groups -> Int]
  BY <1>1
<1>3. NoOp \in [cg : Groups \cup {None}, cpu : Nat, mem : {-1, 0, 1}]
  BY DEF NoOp
<1>4. op' \in [Cpus -> [cg : Groups \cup {None}, cpu : Nat, mem : {-1, 0, 1}]]
  BY <1>3
<1>5. QED BY <1>1, <1>2, <1>4

(* Time passes for every task that is on a CPU. *)
LEMMA TickTyped == TypeOK /\ Tick => TypeOK'
<1> SUFFICES ASSUME TypeOK, Tick PROVE TypeOK'
  OBVIOUS
<1> USE DEF nodeVars, mapVars, handlerVars, TypeOK, Tick
<1>1. ASSUME NEW g \in Groups
      PROVE  Cardinality({c \in Cpus : Occupant(c) # Idle /\ group[Occupant(c)] = g}) \in Nat
  BY MetricsAssumption, FS_Subset, FS_CardinalityType
<1>2. used' \in [Groups -> Nat]
  BY <1>1
<1>3. QED BY <1>2

(* Every step keeps the types. *)
LEMMA TypeStep == TypeOK /\ Called /\ [Next]_vars => TypeOK'
<1> SUFFICES ASSUME TypeOK, Called, [Next]_vars PROVE TypeOK'
  OBVIOUS
<1> USE MetricsAssumption DEF nodeVars, mapVars, handlerVars
<1>1. CASE UNCHANGED vars
  BY <1>1 DEF vars, TypeOK
<1>2. CASE Tick
  BY <1>2, TickTyped
<1>3. ASSUME NEW p \in Pids, Move(p) PROVE TypeOK'
  <2>1. PICK g \in Groups :
          /\ group' = [group EXCEPT ![p] = g]
          /\ disturbed' \in {disturbed, disturbed \cup {group[p], g}}
    BY <1>3 DEF Move
  <2>2. p \in Tasks /\ group[p] \in Groups
    BY DEF Tasks, TypeOK
  <2>3. QED BY <2>1, <2>2, <1>3 DEF Move, TypeOK
<1>4. ASSUME NEW c \in Cpus, SwitchOut(c) PROVE TypeOK'
  <2>1. current[c] \in Tasks /\ group[current[c]] \in Groups
    BY DEF TypeOK
  <2>2. next' \in [Cpus -> Tasks \cup {None}] /\ now' \in [Cpus -> Nat]
    BY <1>4 DEF SwitchOut, TypeOK
  <2>3. Slice(c) \in Int
    BY <2>1 DEF Slice, TypeOK
  <2>4. /\ op' \in [Cpus -> [cg : Groups \cup {None}, cpu : Nat, mem : {-1, 0, 1}]]
        /\ pc' \in [Cpus -> {"out", "lookup", "create", "again", "add", "in"}]
        /\ \A d \in Cpus : pc'[d] = "add" => pc[d] = "add"
    <3>1. CASE Slice(c) > 0
      <4>1. Slice(c) \in Nat
        BY <2>3, <3>1
      <4>2. [cg |-> group[current[c]], cpu |-> Slice(c), mem |-> 0]
              \in [cg : Groups \cup {None}, cpu : Nat, mem : {-1, 0, 1}]
        BY <4>1, <2>1
      <4>3. /\ op' = [op EXCEPT ![c] = [cg |-> group[current[c]], cpu |-> Slice(c), mem |-> 0]]
            /\ pc' = [pc EXCEPT ![c] = "lookup"]
        BY <3>1, <1>4 DEF SwitchOut
      <4>4. QED BY <4>2, <4>3 DEF TypeOK
    <3>2. CASE ~ Slice(c) > 0
      BY <3>2, <1>4 DEF SwitchOut, TypeOK
    <3>3. QED BY <3>1, <3>2
  <2>5. QED BY <2>2, <2>4, <1>4 DEF SwitchOut, TypeOK
<1>5. ASSUME NEW c \in Cpus, PageAlloc(c) \/ PageFree(c) PROVE TypeOK'
  <2>1. PICK n \in {-1, 1} : PageOp(c, n) /\ inUse + n \in 0 .. TotalPages
    BY <1>5 DEF PageAlloc, PageFree, TypeOK
  <2>2. [cg |-> group[current[c]], cpu |-> 0, mem |-> n]
          \in [cg : Groups \cup {None}, cpu : Nat, mem : {-1, 0, 1}]
    BY <2>1 DEF TypeOK
  <2>3. QED BY <2>1, <2>2 DEF PageOp, TypeOK
<1>6. ASSUME NEW c \in Cpus, Lookup(c) PROVE TypeOK'
  BY <1>6 DEF Lookup, TypeOK, Called
<1>7. ASSUME NEW c \in Cpus, Create(c) PROVE TypeOK'
  <2>1. op[c].cg \in Groups
    BY <1>7 DEF Create, Called
  <2>2. Zero \in [cpu : Nat, mem : 0 .. Modulus - 1]
    BY DEF Zero
  <2>3. QED BY <2>1, <2>2, <1>7 DEF Create, TypeOK, Displaced, Live
<1>8. ASSUME NEW c \in Cpus, LookupAgain(c) PROVE TypeOK'
  <2>1. op[c].cg \in Groups
    BY <1>8 DEF LookupAgain, Called
  <2>2. CASE table[op[c].cg] = None
    <3>1. Returns(c)
      BY <2>2, <1>8 DEF LookupAgain
    <3>2. /\ op' \in [Cpus -> [cg : Groups \cup {None}, cpu : Nat, mem : {-1, 0, 1}]]
          /\ pc' \in [Cpus -> {"out", "lookup", "create", "again", "add", "in"}]
          /\ ptr' \in [Cpus -> Slots \cup {None}] /\ pages' \in [Groups -> Int]
          /\ \A d \in Cpus : pc'[d] = "add" => ptr'[d] \in Slots
      BY <2>1, <3>1, Returned
    <3>3. QED BY <3>2, <1>8 DEF LookupAgain, TypeOK
  <2>3. CASE table[op[c].cg] # None
    BY <2>1, <2>3, <1>8 DEF LookupAgain, TypeOK
  <2>4. QED BY <2>2, <2>3
<1>9. ASSUME NEW c \in Cpus, Add(c) PROVE TypeOK'
  <2>1. op[c].cg \in Groups /\ Returns(c) /\ ptr[c] \in Slots
    BY <1>9 DEF Add, Called, TypeOK
  <2>2. Added(stats[ptr[c]], op[c]) \in [cpu : Nat, mem : 0 .. Modulus - 1]
    <3>1. /\ stats[ptr[c]].cpu + op[c].cpu \in Nat
          /\ stats[ptr[c]].mem + op[c].mem \in Int
      BY <2>1 DEF TypeOK
    <3>2. (stats[ptr[c]].mem + op[c].mem) % Modulus \in 0 .. Modulus - 1
      BY <3>1
    <3>3. QED BY <3>1, <3>2 DEF Added
  <2>3. stats' \in [Slots -> [cpu : Nat, mem : 0 .. Modulus - 1]]
    BY <2>1, <2>2, <1>9 DEF Add, TypeOK
  <2>4. /\ op' \in [Cpus -> [cg : Groups \cup {None}, cpu : Nat, mem : {-1, 0, 1}]]
        /\ pc' \in [Cpus -> {"out", "lookup", "create", "again", "add", "in"}]
        /\ ptr' \in [Cpus -> Slots \cup {None}] /\ pages' \in [Groups -> Int]
        /\ \A d \in Cpus : pc'[d] = "add" => ptr'[d] \in Slots
    BY <2>1, Returned
  <2>5. QED BY <2>3, <2>4, <1>9 DEF Add, TypeOK
<1>10. ASSUME NEW c \in Cpus, SwitchIn(c) PROVE TypeOK'
  <2>1. next[c] \in Tasks
    BY <1>10 DEF SwitchIn, Called
  <2>2. QED BY <2>1, <1>10 DEF SwitchIn, TypeOK
<1>11. QED BY <1>1, <1>2, <1>3, <1>4, <1>5, <1>6, <1>7, <1>8, <1>9, <1>10 DEF Next, Handle

(* A step of one CPU that writes no entry, loses no page of an undisturbed cgroup,
   and comes to an add only with the slot of its cgroup. *)
LEMMA LocalStep ==
    ASSUME IInv, TypeOK', NEW c \in Cpus,
           UNCHANGED <<table, stats>>, disturbed \subseteq disturbed',
           \A g \in Groups \ disturbed : pages'[g] = pages[g],
           \A d \in Cpus \ {c} : /\ pc'[d] = pc[d] /\ next'[d] = next[d]
                                 /\ op'[d] = op[d] /\ ptr'[d] = ptr[d],
           pc'[c] \in {"lookup", "create", "add"} => op'[c].cg \in Groups,
           pc'[c] = "in" => next'[c] \in Tasks,
           pc'[c] # "again",
           pc'[c] = "add" => table[op'[c].cg] = ptr'[c]
    PROVE  IInv'
<1>1. Called'
  BY DEF IInv, Called
<1>2. Pointers'
  <2>1. SUFFICES ASSUME NEW d \in Cpus
                 PROVE  /\ pc'[d] = "again" => op'[d].cg \in Live \cup disturbed'
                        /\ pc'[d] = "add" =>
                             \/ table[op'[d].cg] = ptr'[d]
                             \/ /\ op'[d].cg \in disturbed'
                                /\ \A g \in Live : table[g] = ptr'[d] => g \in disturbed'
    BY DEF Pointers, Live
  <2>2. CASE d = c
    BY <2>2
  <2>3. CASE d # c
    BY <2>3 DEF IInv, Pointers
  <2>4. QED BY <2>2, <2>3
<1>3. OneSlotEach' /\ MemoryExact'
  BY DEF IInv, OneSlotEach, MemoryExact, Live
<1>4. QED BY <1>1, <1>2, <1>3 DEF IInv

(* Steps of the node change what the invariant speaks of only by disturbing more. *)
LEMMA NodeStep ==
    ASSUME IInv, TypeOK', disturbed \subseteq disturbed',
           UNCHANGED <<table, stats, pc, next, op, ptr, pages>>
    PROVE  IInv'
BY DEF IInv, Called, OneSlotEach, Pointers, MemoryExact, Live

(* A task is switched out, or a page comes or goes: the call begins. *)
LEMMA BeginStep ==
    ASSUME IInv, TypeOK', NEW c \in Cpus, SwitchOut(c) \/ PageAlloc(c) \/ PageFree(c)
    PROVE  IInv'
<1> USE DEF nodeVars, mapVars
<1>1. group[current[c]] \in Groups
  BY DEF IInv, TypeOK
<1>2. CASE SwitchOut(c)
  <2>1. PICK t \in Tasks : next' = [next EXCEPT ![c] = t]
    BY <1>2 DEF SwitchOut
  <2>2. /\ \A d \in Cpus \ {c} : pc'[d] = pc[d] /\ op'[d] = op[d] /\ next'[d] = next[d]
        /\ next'[c] \in Tasks
        /\ \/ pc'[c] = "in"
           \/ pc'[c] = "lookup" /\ op'[c].cg = group[current[c]]
    BY <1>2, <2>1 DEF SwitchOut, IInv, TypeOK
  <2>3. UNCHANGED <<table, stats, ptr, pages, disturbed>>
    BY <1>2 DEF SwitchOut
  <2>4. QED BY <1>1, <2>2, <2>3, LocalStep
<1>3. CASE PageAlloc(c) \/ PageFree(c)
  <2>1. PICK n \in {-1, 1} : PageOp(c, n)
    BY <1>3 DEF PageAlloc, PageFree
  <2>2. /\ \A d \in Cpus \ {c} : pc'[d] = pc[d] /\ op'[d] = op[d]
        /\ pc'[c] = "lookup" /\ op'[c].cg = group[current[c]]
        /\ UNCHANGED <<table, stats, next, ptr, pages, disturbed>>
    BY <2>1 DEF PageOp, IInv, TypeOK
  <2>3. QED BY <1>1, <2>2, LocalStep
<1>4. QED BY <1>2, <1>3

(* The first lookup finds the cgroup's own entry or none. *)
LEMMA LookupStep ==
    ASSUME IInv, TypeOK', NEW c \in Cpus, Lookup(c)
    PROVE  IInv'
<1>1. op[c].cg \in Groups
  BY DEF Lookup, IInv, Called
<1>2. /\ UNCHANGED <<table, stats, next, op, pages, disturbed>>
      /\ \A d \in Cpus \ {c} : pc'[d] = pc[d] /\ ptr'[d] = ptr[d]
      /\ pc'[c] \in {"create", "add"} /\ ptr'[c] = table[op[c].cg]
  BY DEF Lookup, nodeVars, mapVars, IInv, TypeOK
<1>3. QED BY <1>1, <1>2, LocalStep

(* The end of sched_switch. *)
LEMMA SwitchInStep ==
    ASSUME IInv, TypeOK', NEW c \in Cpus, SwitchIn(c)
    PROVE  IInv'
<1>1. /\ UNCHANGED <<table, stats, op, ptr, pages>> /\ disturbed \subseteq disturbed'
      /\ \A d \in Cpus \ {c} : pc'[d] = pc[d] /\ next'[d] = next[d]
      /\ pc'[c] = "out"
  BY DEF SwitchIn, IInv, TypeOK
<1>2. QED BY <1>1, LocalStep

(* The second lookup finds the cgroup's own entry, or the cgroup has been disturbed. *)
LEMMA LookupAgainStep ==
    ASSUME IInv, TypeOK', NEW c \in Cpus, LookupAgain(c)
    PROVE  IInv'
<1> DEFINE g == op[c].cg
<1>1. /\ g \in Groups /\ g \in Live \cup disturbed
      /\ UNCHANGED <<table, stats, next, disturbed>>
  BY DEF LookupAgain, nodeVars, mapVars, IInv, Called, Pointers
<1>2. CASE table[g] = None
  <2>1. g \in disturbed /\ Returns(c)
    BY <1>1, <1>2 DEF Live, LookupAgain
  <2>2. /\ \A d \in Cpus \ {c} : pc'[d] = pc[d] /\ op'[d] = op[d] /\ ptr'[d] = ptr[d]
        /\ pc'[c] \in {"in", "out"}
        /\ pc'[c] = "in" => next[c] \in Tasks
        /\ \A h \in Groups \ disturbed : pages'[h] = pages[h]
    BY <1>1, <2>1, Returned DEF IInv
  <2>3. QED BY <1>1, <2>2, LocalStep
<1>3. CASE table[g] # None
  <2>1. /\ UNCHANGED <<op, pages>>
        /\ \A d \in Cpus \ {c} : pc'[d] = pc[d] /\ ptr'[d] = ptr[d]
        /\ pc'[c] = "add" /\ ptr'[c] = table[g]
    BY <1>3 DEF LookupAgain, IInv, TypeOK
  <2>2. QED BY <1>1, <2>1, LocalStep
<1>4. QED BY <1>2, <1>3

(* Creating an entry disturbs every cgroup whose entry goes, and the cgroup itself
   when its new slot still has a writer. *)
LEMMA CreateStep ==
    ASSUME IInv, TypeOK', NEW c \in Cpus, Create(c)
    PROVE  IInv'
<1> DEFINE f == op[c].cg
<1>1. PICK s \in Slots :
        /\ table' = [h \in Groups |-> IF h = f THEN s ELSE IF table[h] = s THEN None ELSE table[h]]
        /\ stats' = [stats EXCEPT ![s] = Zero]
        /\ disturbed' = disturbed \cup Displaced(f, s) \cup (IF Writers(s) # {} THEN {f} ELSE {})
  BY DEF Create
<1>2. UNCHANGED <<next, op, ptr, pages>> /\ pc' = [pc EXCEPT ![c] = "again"]
  BY DEF Create
<1>3. f \in Groups /\ s # None /\ pc[c] = "create"
  BY MetricsAssumption DEF Create, IInv, Called
<1>4. /\ table'[f] = s
      /\ \A g \in Groups \ {f} : table'[g] = IF table[g] = s THEN None ELSE table[g]
  BY <1>1, <1>3
<1>5. \A g \in Groups \ disturbed' : /\ g \notin disturbed
                                     /\ g = f => table[g] = None
                                     /\ table[g] # s
  BY <1>1, <1>3 DEF Displaced, Live
<1>6. \A g \in Groups : table'[g] = s => g = f
  BY <1>3, <1>4
<1>7. Called'
  BY <1>2, <1>3 DEF IInv, TypeOK, Called
<1>8. OneSlotEach'
  <2>1. ASSUME NEW g \in Groups, NEW h \in Groups, table'[g] # None, table'[h] # None, table'[g] = table'[h]
        PROVE  g = h
    <3>1. CASE table'[g] = s
      BY <3>1, <2>1, <1>6
    <3>2. CASE table'[g] # s
      <4>1. table'[g] = table[g] /\ table'[h] = table[h]
        BY <3>2, <2>1, <1>4
      <4>2. QED BY <4>1, <2>1 DEF IInv, OneSlotEach, Live
    <3>3. QED BY <3>1, <3>2
  <2>2. QED BY <2>1 DEF OneSlotEach, Live
<1>9. Pointers'
  <2>1. ASSUME NEW d \in Cpus, pc'[d] = "again"
        PROVE  op[d].cg \in Live' \cup disturbed'
    <3>1. CASE d = c
      BY <3>1, <1>3, <1>4 DEF Live
    <3>2. CASE d # c
      <4>1. pc[d] = "again" /\ op[d].cg \in Groups
        BY <2>1, <3>2, <1>2 DEF IInv, TypeOK, Called
      <4>2. op[d].cg \in Live \cup disturbed
        BY <4>1 DEF IInv, Pointers
      <4>3. QED BY <4>1, <4>2, <1>1, <1>4, <1>3 DEF Live, Displaced
    <3>3. QED BY <3>1, <3>2
  <2>2. ASSUME NEW d \in Cpus, pc'[d] = "add"
        PROVE  \/ table'[op[d].cg] = ptr[d]
               \/ /\ op[d].cg \in disturbed'
                  /\ \A g \in Live' : table'[g] = ptr[d] => g \in disturbed'
    <3>1. pc[d] = "add" /\ op[d].cg \in Groups /\ ptr[d] \in Slots
      <4>1. d # c
        BY <2>2, <1>2 DEF IInv, TypeOK
      <4>2. QED BY <4>1, <2>2, <1>2 DEF IInv, TypeOK, Called
    <3>2. ptr[d] = s => f \in disturbed'
      BY <3>1, <1>1 DEF Writers
    <3>3. ptr[d] # None
      BY <3>1, MetricsAssumption
    <3>4. CASE table[op[d].cg] = ptr[d]
      <4>1. CASE op[d].cg # f /\ ptr[d] # s
        BY <4>1, <3>1, <3>4, <1>4
      <4>2. CASE op[d].cg = f \/ ptr[d] = s
        <5>1. op[d].cg \in disturbed'
          BY <4>2, <3>1, <3>3, <3>4, <1>1 DEF Displaced, Live
        <5>2. ASSUME NEW g \in Groups, table'[g] = ptr[d]
              PROVE  g \in disturbed'
          <6>1. CASE ptr[d] = s
            BY <6>1, <5>2, <3>2, <1>6
          <6>2. CASE ptr[d] # s
            <7>1. g # f /\ table[g] = ptr[d]
              BY <6>2, <5>2, <1>4, <3>3
            <7>2. g = op[d].cg
              BY <7>1, <3>1, <3>3, <3>4 DEF IInv, OneSlotEach, Live
            <7>3. QED BY <7>2, <5>1
          <6>3. QED BY <6>1, <6>2
        <5>3. QED BY <5>1, <5>2 DEF Live
      <4>3. QED BY <4>1, <4>2
    <3>5. CASE /\ op[d].cg \in disturbed
               /\ \A g \in Live : table[g] = ptr[d] => g \in disturbed
      <4>1. ASSUME NEW g \in Groups, table'[g] = ptr[d]
            PROVE  g \in disturbed'
        <5>1. CASE ptr[d] = s
          BY <5>1, <4>1, <3>2, <1>6
        <5>2. CASE ptr[d] # s
          BY <5>2, <4>1, <3>3, <3>5, <1>1, <1>4 DEF Live
        <5>3. QED BY <5>1, <5>2
      <4>2. op[d].cg \in disturbed'
        BY <3>5, <1>1
      <4>3. QED BY <4>1, <4>2 DEF Live
    <3>6. QED BY <3>1, <3>4, <3>5 DEF IInv, Pointers
  <2>3. QED BY <2>1, <2>2, <1>2 DEF Pointers
<1>10. MemoryExact'
  <2>1. ASSUME NEW g \in Groups \ disturbed'
        PROVE  (IF table'[g] # None THEN stats'[table'[g]].mem ELSE 0) = pages[g] % Modulus
    <3>1. (IF table[g] # None THEN stats[table[g]].mem ELSE 0) = pages[g] % Modulus
      BY <2>1, <1>5 DEF IInv, MemoryExact, Live
    <3>2. CASE g = f
      <4>1. table'[g] = s /\ stats'[s].mem = 0 /\ table[g] = None
        BY <3>2, <2>1, <1>1, <1>4, <1>5 DEF IInv, TypeOK, Zero
      <4>2. QED BY <4>1, <3>1, <1>3
    <3>3. CASE g # f
      <4>1. table'[g] = table[g] /\ table[g] # s /\ table[g] \in Slots \cup {None}
        BY <3>3, <2>1, <1>4, <1>5 DEF IInv, TypeOK
      <4>2. table[g] # None => stats'[table[g]] = stats[table[g]]
        BY <4>1, <1>1 DEF IInv, TypeOK
      <4>3. QED BY <3>1, <4>1, <4>2
    <3>4. QED BY <3>2, <3>3
  <2>2. QED BY <2>1, <1>2 DEF MemoryExact, Live
<1>11. QED BY <1>7, <1>8, <1>9, <1>10 DEF IInv

(* An add reaches the cgroup's own counter, or only disturbed cgroups are concerned. *)
LEMMA AddStep ==
    ASSUME IInv, TypeOK', NEW c \in Cpus, Add(c)
    PROVE  IInv'
<1> DEFINE f == op[c].cg
<1>1. /\ f \in Groups /\ ptr[c] \in Slots /\ ptr[c] # None /\ pc[c] = "add"
      /\ UNCHANGED <<table, next, disturbed>> /\ Returns(c)
  BY MetricsAssumption DEF Add, nodeVars, IInv, Called, TypeOK
<1>2. \A s \in Slots : stats'[s] = IF s = ptr[c] THEN Added(stats[s], op[c]) ELSE stats[s]
  BY <1>1 DEF Add, IInv, TypeOK
<1>3. /\ pc'[c] \in {"in", "out"}
      /\ pc'[c] = "in" => next[c] \in Tasks
      /\ \A d \in Cpus \ {c} : pc'[d] = pc[d] /\ op'[d] = op[d] /\ ptr'[d] = ptr[d]
      /\ \A g \in Groups : pages'[g] = IF g = f THEN pages[g] + op[c].mem ELSE pages[g]
  BY <1>1, Returned DEF IInv
<1>4. Called' /\ OneSlotEach'
  BY <1>1, <1>3 DEF IInv, Called, OneSlotEach, Live
<1>5. Pointers'
  BY <1>1, <1>3 DEF IInv, Pointers, Live
<1>6. MemoryExact'
  <2>1. SUFFICES ASSUME NEW g \in Groups \ disturbed
                 PROVE  (IF table[g] # None THEN stats'[table[g]].mem ELSE 0) = pages'[g] % Modulus
    BY <1>1 DEF MemoryExact, Live
  <2>2. (IF table[g] # None THEN stats[table[g]].mem ELSE 0) = pages[g] % Modulus
    BY DEF IInv, MemoryExact, Live
  <2>3. table[g] \in Slots \cup {None}
    BY DEF IInv, TypeOK
  <2>4. CASE g = f
    <3>1. table[g] = ptr[c]
      BY <2>4, <1>1 DEF IInv, Pointers
    <3>2. stats'[table[g]].mem = ((pages[g] % Modulus) + op[c].mem) % Modulus
      <4>1. stats'[ptr[c]] = Added(stats[ptr[c]], op[c])
        BY <1>1, <1>2
      <4>2. stats'[ptr[c]].mem = (stats[ptr[c]].mem + op[c].mem) % Modulus
        BY <4>1 DEF Added
      <4>3. stats[ptr[c]].mem = pages[g] % Modulus
        BY <3>1, <2>2, <1>1
      <4>4. QED BY <4>2, <4>3, <3>1
    <3>3. pages[g] \in Int /\ op[c].mem \in Int /\ Modulus \in Nat \ {0}
      <4>1. op[c].mem \in {-1, 0, 1} /\ pages[g] \in Int
        BY DEF IInv, TypeOK
      <4>2. QED BY <4>1, MetricsAssumption
    <3>4. ((pages[g] % Modulus) + op[c].mem) % Modulus = (pages[g] + op[c].mem) % Modulus
      BY <3>3, ModAdd
    <3>5. QED BY <3>1, <3>2, <3>4, <2>4, <1>1, <1>3
  <2>5. CASE g # f
    <3>1. table[g] # ptr[c]
      <4>1. CASE table[f] = ptr[c]
        BY <4>1, <2>5, <1>1 DEF IInv, OneSlotEach, Live
      <4>2. CASE table[f] # ptr[c]
        BY <4>2, <2>1, <1>1 DEF IInv, Pointers, Live
      <4>3. QED BY <4>1, <4>2
    <3>2. QED BY <3>1, <2>2, <2>3, <2>5, <1>2, <1>3
  <2>6. QED BY <2>4, <2>5
<1>7. QED BY <1>4, <1>5, <1>6 DEF IInv

(* The invariant holds in every state. *)
THEOREM Invariance == Spec => []IInv
<1>1. IInv /\ [Next]_vars => IInv'
  <2> SUFFICES ASSUME IInv, [Next]_vars PROVE IInv'
    OBVIOUS
  <2>0. TypeOK'
    BY TypeStep DEF IInv
  <2>1. CASE UNCHANGED vars
    BY <2>0, <2>1, NodeStep DEF vars, mapVars, handlerVars
  <2>2. CASE Tick \/ \E p \in Pids : Move(p)
    BY <2>0, <2>2, NodeStep DEF Tick, Move, mapVars, handlerVars
  <2>3. ASSUME NEW c \in Cpus, Handle(c) PROVE IInv'
    BY <2>0, <2>3, BeginStep, LookupStep, CreateStep, LookupAgainStep, AddStep, SwitchInStep DEF Handle
  <2>4. QED BY <2>1, <2>2, <2>3 DEF Next
<1>2. QED BY <1>1, InitEstablishes, PTL DEF Spec

(* Types: a handler never adds through NULL, and the memory counters stay in the
   range of an unsigned number. *)
THEOREM TypeCorrect == Spec => []TypeOK
<1>1. IInv => TypeOK
  BY DEF IInv
<1>2. QED BY <1>1, Invariance, PTL

(* Whatever the interleaving, the memory counter of an undisturbed cgroup is its
   pages allocated less its pages freed, as an unsigned number. *)
THEOREM MemoryCountedExactly == Spec => []MemoryExact
<1>1. IInv => MemoryExact
  BY DEF IInv
<1>2. QED BY <1>1, Invariance, PTL

-----------------------------------------------------------------------------
(* Tasks and clocks *)

(* A CPU outside a handler has no incoming task and nothing to add; no time lies
   in the future; a task is on one CPU; and a running task without an entry in
   pid_start has disturbed its cgroup. *)
Running ==
    /\ \A c \in Cpus : pc[c] = "out" => next[c] = None
    /\ \A c \in Cpus : pc[c] \in {"out", "in"} => op[c].cpu = 0
    /\ \A c \in Cpus : now[c] <= clock
    /\ \A t \in Tasks : start[t] # None => start[t] <= clock
    /\ \A c, d \in Cpus : c # d =>
         /\ current[c] = current[d] => current[c] = Idle
         /\ next[c] = next[d] => next[c] \in {Idle, None}
         /\ current[c] = next[d] => current[c] = Idle
    /\ \A c \in Cpus :
         next[c] = None /\ current[c] # Idle /\ start[current[c]] = None
            => group[current[c]] \in disturbed

(* No step moves a task to a second CPU or turns a clock back. *)
LEMMA RunningStep == IInv /\ TypeOK' /\ Running /\ [Next]_vars => Running'
<1> SUFFICES ASSUME IInv, TypeOK', Running, [Next]_vars PROVE Running'
  OBVIOUS
<1>0. TypeOK /\ Called
  BY DEF IInv
<1>a. None \notin Tasks /\ Idle \in Tasks /\ None \notin Nat
  BY MetricsAssumption DEF Tasks
<1>1. CASE UNCHANGED <<clock, current, group, start, pc, next, now, op, disturbed>>
  BY <1>1 DEF Running
<1>2. CASE Tick
  <2>1. clock \in Nat /\ clock' = clock + 1
    BY <1>0, <1>2 DEF Tick, TypeOK
  <2>2. \A c \in Cpus : now[c] \in Nat /\ now[c] <= clock'
    BY <1>0, <2>1 DEF TypeOK, Running
  <2>3. \A t \in Tasks : start[t] # None => start[t] <= clock'
    BY <1>0, <2>1 DEF TypeOK, Running
  <2> QED BY <1>2, <2>2, <2>3 DEF Tick, Running, mapVars, handlerVars
<1>3. ASSUME NEW p \in Pids, Move(p) PROVE Running'
  <2>1. PICK g \in Groups \ {group[p]} :
          /\ group' = [group EXCEPT ![p] = g]
          /\ disturbed' = IF \E c \in Cpus : Occupant(c) = p
                          THEN disturbed \cup {group[p], g} ELSE disturbed
    BY <1>3 DEF Move
  <2>2. UNCHANGED <<clock, current, start, pc, next, now, op>>
    BY <1>3 DEF Move, mapVars, handlerVars
  <2>3. ASSUME NEW c \in Cpus, next[c] = None, current[c] # Idle, start[current[c]] = None
        PROVE  group'[current[c]] \in disturbed'
    <3>1. group[current[c]] \in disturbed /\ current[c] \in Tasks
      BY <1>0, <2>3 DEF Running, TypeOK
    <3>2. CASE current[c] = p
      <4>1. Occupant(c) = p
        BY <2>3, <3>2 DEF Occupant
      <4> QED BY <2>1, <3>1, <3>2, <4>1, <1>0 DEF TypeOK
    <3>3. CASE current[c] # p
      BY <2>1, <3>1, <3>3, <1>0 DEF TypeOK
    <3> QED BY <3>2, <3>3
  <2> QED BY <2>2, <2>3 DEF Running
<1>4. ASSUME NEW c \in Cpus, Handle(c) PROVE Running'
  <2>1. CASE SwitchOut(c)
    <3>1. PICK t \in Tasks : /\ t # current[c] /\ (t \in OnCpu => t = Idle)
                             /\ next' = [next EXCEPT ![c] = t]
      BY <2>1 DEF SwitchOut
    <3>2. /\ UNCHANGED <<clock, current, group, start, disturbed>>
          /\ now' = [now EXCEPT ![c] = clock] /\ next[c] = None
          /\ pc'[c] \in {"lookup", "in"}
          /\ pc'[c] = "in" => op' = op /\ op[c].cpu = 0
          /\ \A d \in Cpus \ {c} : pc'[d] = pc[d] /\ op'[d] = op[d]
      BY <1>0, <2>1 DEF SwitchOut, nodeVars, mapVars, TypeOK, Running
    <3>3. /\ next'[c] = t /\ now'[c] = clock /\ clock \in Nat
          /\ \A d \in Cpus \ {c} : next'[d] = next[d] /\ now'[d] = now[d]
      BY <1>0, <3>1, <3>2 DEF TypeOK
    <3>4. \A d \in Cpus : (t = current[d] => t = Idle) /\ (t = next[d] => t = Idle)
      BY <3>1 DEF OnCpu
    <3>5. \A d \in Cpus : pc'[d] = "out" => next'[d] = None
      BY <3>2, <3>3 DEF Running
    <3>6. \A d \in Cpus : pc'[d] \in {"out", "in"} => op'[d].cpu = 0
      BY <3>2 DEF Running
    <3>7. \A d \in Cpus : now'[d] <= clock
      BY <3>3 DEF Running
    <3>8. \A d, e \in Cpus : d # e =>
             /\ next'[d] = next'[e] => next'[d] \in {Idle, None}
             /\ current[d] = next'[e] => current[d] = Idle
      BY <3>3, <3>4 DEF Running
    <3> QED BY <3>1, <3>2, <3>3, <3>5, <3>6, <3>7, <3>8, <1>a DEF Running
  <2>2. CASE PageAlloc(c) \/ PageFree(c) \/ Lookup(c)
    <3>1. /\ UNCHANGED <<clock, current, group, start, next, now, disturbed>>
          /\ pc'[c] \notin {"out", "in"}
          /\ \A d \in Cpus \ {c} : pc'[d] = pc[d] /\ op'[d] = op[d]
      BY <1>0, <2>2 DEF PageAlloc, PageFree, PageOp, Lookup, nodeVars, mapVars, TypeOK
    <3> QED BY <3>1 DEF Running
  <2>3. CASE Create(c)
    <3>1. /\ UNCHANGED <<clock, current, group, start, next, now, op>> /\ disturbed \subseteq disturbed'
          /\ pc'[c] \notin {"out", "in"}
          /\ \A d \in Cpus \ {c} : pc'[d] = pc[d]
      BY <1>0, <2>3 DEF Create, nodeVars, TypeOK
    <3> QED BY <3>1 DEF Running
  <2>4. CASE LookupAgain(c) \/ Add(c)
    <3>1. /\ UNCHANGED <<clock, current, group, start, next, now, disturbed>>
          /\ \A d \in Cpus \ {c} : pc'[d] = pc[d] /\ op'[d] = op[d]
          /\ pc'[c] = "out" => next[c] = None
          /\ pc'[c] \in {"out", "in"} => op'[c].cpu = 0
      BY <1>0, <2>4 DEF LookupAgain, Add, Returns, NoOp, nodeVars, mapVars, TypeOK
    <3> QED BY <3>1 DEF Running
  <2>5. CASE SwitchIn(c)
    <3>1. /\ UNCHANGED <<clock, group, op>> /\ disturbed \subseteq disturbed'
          /\ next[c] \in Tasks /\ now[c] \in Nat /\ now[c] <= clock /\ clock \in Nat
          /\ op[c].cpu = 0
      BY <1>0, <2>5 DEF SwitchIn, Called, TypeOK, Running
    <3>2. /\ current'[c] = next[c] /\ next'[c] = None /\ now'[c] = 0
          /\ \A d \in Cpus \ {c} : /\ current'[d] = current[d] /\ next'[d] = next[d]
                                   /\ now'[d] = now[d] /\ pc'[d] = pc[d]
      BY <1>0, <2>5 DEF SwitchIn, TypeOK
    <3>3. /\ \A t \in Tasks : start'[t] = start[t] \/ start'[t] = now[c]
          /\ start'[next[c]] = now[c] \/ group[next[c]] \in disturbed'
      BY <1>0, <2>5, <3>1 DEF SwitchIn, TypeOK
    <3>4. \A t \in Tasks : start'[t] = None => start[t] = None
      BY <3>1, <3>3, <1>a
    <3>5. /\ \A d \in Cpus : pc'[d] = "out" => next'[d] = None
          /\ \A d \in Cpus : pc'[d] \in {"out", "in"} => op'[d].cpu = 0
      BY <3>1, <3>2 DEF Running
    <3>6. /\ \A d \in Cpus : now'[d] <= clock
          /\ \A t \in Tasks : start'[t] # None => start'[t] <= clock
      BY <3>1, <3>2, <3>3 DEF Running
    <3>7. \A d, e \in Cpus : d # e =>
             /\ current'[d] = current'[e] => current'[d] = Idle
             /\ next'[d] = next'[e] => next'[d] \in {Idle, None}
             /\ current'[d] = next'[e] => current'[d] = Idle
      <4> SUFFICES ASSUME NEW d \in Cpus, NEW e \in Cpus, d # e
                   PROVE  /\ current'[d] = current'[e] => current'[d] = Idle
                          /\ next'[d] = next'[e] => next'[d] \in {Idle, None}
                          /\ current'[d] = next'[e] => current'[d] = Idle
        OBVIOUS
      <4>1. CASE d = c
        <5>1. current'[e] = current[e] /\ next'[e] = next[e]
          BY <4>1, <3>2
        <5>2. /\ next[c] = current[e] => current[e] = Idle
              /\ next[c] = next[e] => next[c] = Idle
          BY <4>1, <3>1, <1>a DEF Running
        <5> QED BY <4>1, <3>2, <5>1, <5>2
      <4>2. CASE e = c
        <5>1. current'[d] = current[d] /\ next'[d] = next[d]
          BY <4>2, <3>2
        <5>2. /\ current[d] = next[c] => current[d] = Idle
          BY <4>2, <3>1, <1>a DEF Running
        <5>3. current[d] # None
          BY <1>0, <1>a DEF TypeOK
        <5> QED BY <4>2, <3>2, <5>1, <5>2, <5>3
      <4>3. CASE d # c /\ e # c
        <5>1. /\ current'[d] = current[d] /\ next'[d] = next[d]
              /\ current'[e] = current[e] /\ next'[e] = next[e]
          BY <4>3, <3>2
        <5> QED BY <5>1 DEF Running
      <4> QED BY <4>1, <4>2, <4>3
    <3>8. \A d \in Cpus : next'[d] = None /\ current'[d] # Idle /\ start'[current'[d]] = None
                            => group[current'[d]] \in disturbed'
      <4> SUFFICES ASSUME NEW d \in Cpus, next'[d] = None, current'[d] # Idle, start'[current'[d]] = None
                   PROVE  group[current'[d]] \in disturbed'
        OBVIOUS
      <4>1. CASE d = c
        BY <4>1, <3>1, <3>2, <3>3, <1>a
      <4>2. CASE d # c
        <5>1. current[d] \in Tasks
          BY <1>0 DEF TypeOK
        <5> QED BY <4>2, <5>1, <3>1, <3>2, <3>4 DEF Running
      <4> QED BY <4>1, <4>2
    <3> QED BY <3>1, <3>5, <3>6, <3>7, <3>8 DEF Running
  <2> QED BY <1>4, <2>1, <2>2, <2>3, <2>4, <2>5 DEF Handle
<1> QED BY <1>1, <1>2, <1>3, <1>4 DEF Next, vars, nodeVars, mapVars, handlerVars

-----------------------------------------------------------------------------
(* CPU time, as sums over CPUs and cgroups *)

(* What each CPU is about to add, what its task has not finished, and both. *)
Adding == [c \in Cpus |-> op[c].cpu]

Lasting == [c \in Cpus |-> Unfinished(c)]

Owing == [c \in Cpus |-> op[c].cpu + Unfinished(c)]

(* The part of each that is for cgroup g. *)
AddingFor(g) == [c \in Cpus |-> IF op[c].cg = g THEN op[c].cpu ELSE 0]

LastingFor(g) == [c \in Cpus |-> IF group[Occupant(c)] = g THEN Unfinished(c) ELSE 0]

Owed(g) == [c \in Cpus |-> AddingFor(g)[c] + LastingFor(g)[c]]

InTable == [g \in Groups |-> Counted(g)]

Over == SumOf(InTable, Groups) + SumOf(Owing, Cpus) <= SumOf(used, Groups)

Exact == \A g \in Groups \ disturbed : used[g] = Counted(g) + SumOf(Owed(g), Cpus)

(* The amounts in these sums are natural numbers. *)
Amounts ==
    /\ \A c \in Cpus : op[c].cpu \in Nat /\ Unfinished(c) \in Nat /\ Owing[c] \in Nat
    /\ \A g \in Groups : Counted(g) \in Nat /\ InTable[g] = Counted(g) /\ used[g] \in Nat
    /\ \A g : \A c \in Cpus :
          AddingFor(g)[c] \in Nat /\ LastingFor(g)[c] \in Nat /\ Owed(g)[c] \in Nat
    /\ \A g : SumOf(Owed(g), Cpus) \in Nat
    /\ SumOf(InTable, Groups) \in Nat /\ SumOf(Owing, Cpus) \in Nat /\ SumOf(used, Groups) \in Nat

(* They are: no time lies in the future. *)
LEMMA AmountsAre == TypeOK /\ Running => Amounts
<1> SUFFICES ASSUME TypeOK, Running PROVE Amounts
  OBVIOUS
<1>0. IsFiniteSet(Cpus) /\ IsFiniteSet(Groups)
  BY MetricsAssumption
<1>1. ASSUME NEW c \in Cpus PROVE op[c].cpu \in Nat /\ Unfinished(c) \in Nat
  <2>1. /\ op[c].cpu \in Nat /\ clock \in Nat /\ now[c] \in Nat /\ now[c] <= clock
        /\ current[c] \in Tasks /\ next[c] \in Tasks \cup {None}
    BY DEF TypeOK, Running
  <2>2. Occupant(c) \in Tasks
    BY <2>1 DEF Occupant
  <2>3. start[Occupant(c)] # None =>
            start[Occupant(c)] \in Nat /\ start[Occupant(c)] <= clock
    BY <2>2 DEF TypeOK, Running
  <2> QED BY <2>1, <2>3 DEF Unfinished
<1>2. \A c \in Cpus : Owing[c] \in Nat
  BY <1>1 DEF Owing
<1>3. ASSUME NEW g \in Groups PROVE Counted(g) \in Nat /\ InTable[g] = Counted(g) /\ used[g] \in Nat
  BY MetricsAssumption DEF Counted, InTable, Live, TypeOK
<1>4. ASSUME NEW g, NEW c \in Cpus
      PROVE  AddingFor(g)[c] \in Nat /\ LastingFor(g)[c] \in Nat /\ Owed(g)[c] \in Nat
  BY <1>1 DEF AddingFor, LastingFor, Owed
<1>5. \A g : SumOf(Owed(g), Cpus) \in Nat
  BY <1>0, <1>4, SumNat
<1>6. SumOf(InTable, Groups) \in Nat /\ SumOf(Owing, Cpus) \in Nat /\ SumOf(used, Groups) \in Nat
  <2>1. \A g \in Groups : InTable[g] \in Nat /\ used[g] \in Nat
    BY <1>3
  <2> QED BY <1>0, <1>2, <2>1, SumNat
<1> QED BY <1>1, <1>2, <1>3, <1>4, <1>5, <1>6 DEF Amounts

(* And in the next state. *)
LEMMA AmountsTwice == IInv /\ TypeOK' /\ Running /\ Running' => TypeOK /\ Amounts /\ Amounts'
<1>1. (TypeOK /\ Running => Amounts)'
  BY AmountsAre, PTL
<1> QED BY <1>1, AmountsAre DEF IInv

(* The sums of the properties, as sums of functions. *)
LEMMA SumOfAdding ==
    ASSUME NEW S \in SUBSET Cpus
    PROVE  MapThenSumSet(LAMBDA c : op[c].cpu, S) = SumOf(Adding, S)
<1>0. IsFiniteSet(S)
  BY MetricsAssumption, FS_Subset
<1> DEFINE E(g) == g = [s \in SUBSET S |-> IF s = {} THEN 0 ELSE op[Pick(s)].cpu + g[s \ {Pick(s)}]]
           k == CHOOSE g : E(g)
<1>1. MapThenSumSet(LAMBDA c : op[c].cpu, S) = k[S]
  BY DEF MapThenSumSet, MapThenFoldSet, Pick
<1>2. \A g : E(g) <=> SumEquation(Adding, S, g)
  <2>1. \A s \in SUBSET S : s # {} => Pick(s) \in S
    BY Picked
  <2>2. \A s \in SUBSET S : s # {} => Adding[Pick(s)] = op[Pick(s)].cpu
    BY <2>1 DEF Adding
  <2> QED BY <2>2 DEF SumEquation
<1>3. SumEquation(Adding, S, Sums(Adding, S))
  BY <1>0, SumExists
<1> HIDE DEF E
<1>4. E(k)
  BY <1>2, <1>3
<1>5. SumEquation(Adding, S, k)
  BY <1>2, <1>4
<1> HIDE DEF k
<1> QED BY <1>0, <1>1, <1>5, SumChosen

(* The same of what the tasks have not finished. *)
LEMMA SumOfLasting ==
    ASSUME NEW S \in SUBSET Cpus
    PROVE  MapThenSumSet(Unfinished, S) = SumOf(Lasting, S)
<1>0. IsFiniteSet(S)
  BY MetricsAssumption, FS_Subset
<1> DEFINE E(g) == g = [s \in SUBSET S |-> IF s = {} THEN 0 ELSE Unfinished(Pick(s)) + g[s \ {Pick(s)}]]
           k == CHOOSE g : E(g)
<1>1. MapThenSumSet(Unfinished, S) = k[S]
  BY DEF MapThenSumSet, MapThenFoldSet, Pick
<1>2. \A g : E(g) <=> SumEquation(Lasting, S, g)
  <2>1. \A s \in SUBSET S : s # {} => Pick(s) \in S
    BY Picked
  <2>2. \A s \in SUBSET S : s # {} => Lasting[Pick(s)] = Unfinished(Pick(s))
    BY <2>1 DEF Lasting
  <2> QED BY <2>2 DEF SumEquation
<1>3. SumEquation(Lasting, S, Sums(Lasting, S))
  BY <1>0, SumExists
<1> HIDE DEF E
<1>4. E(k)
  BY <1>2, <1>3
<1>5. SumEquation(Lasting, S, k)
  BY <1>2, <1>4
<1> HIDE DEF k
<1> QED BY <1>0, <1>1, <1>5, SumChosen

(* The same of what is in the entries. *)
LEMMA SumOfCounted == MapThenSumSet(Counted, Groups) = SumOf(InTable, Groups)
<1>0. IsFiniteSet(Groups)
  BY MetricsAssumption
<1> DEFINE E(g) == g = [s \in SUBSET Groups |-> IF s = {} THEN 0 ELSE Counted(Pick(s)) + g[s \ {Pick(s)}]]
           k == CHOOSE g : E(g)
<1>1. MapThenSumSet(Counted, Groups) = k[Groups]
  BY DEF MapThenSumSet, MapThenFoldSet, Pick
<1>2. \A g : E(g) <=> SumEquation(InTable, Groups, g)
  <2>1. \A s \in SUBSET Groups : s # {} => InTable[Pick(s)] = Counted(Pick(s))
    BY Picked DEF InTable
  <2> QED BY <2>1 DEF SumEquation
<1>3. SumEquation(InTable, Groups, Sums(InTable, Groups))
  BY <1>0, SumExists
<1> HIDE DEF E
<1>4. E(k)
  BY <1>2, <1>3
<1>5. SumEquation(InTable, Groups, k)
  BY <1>2, <1>4
<1> HIDE DEF k
<1> QED BY <1>0, <1>1, <1>5, SumChosen

(* Over and Exact are the two parts of CpuCountedOnce. *)
LEMMA SumsSayIt == TypeOK /\ Running /\ Over /\ Exact => CpuCountedOnce
<1> SUFFICES ASSUME TypeOK, Running, Over, Exact PROVE CpuCountedOnce
  OBVIOUS
<1>0. IsFiniteSet(Cpus) /\ Amounts
  BY AmountsAre, MetricsAssumption
<1>1. NeverOvercounted
  <2>1. MapThenSumSet(LAMBDA g : used[g], Groups) = SumOf(used, Groups)
    BY DEF SumOf
  <2>2. /\ MapThenSumSet(LAMBDA c : op[c].cpu, Cpus) = SumOf(Adding, Cpus)
        /\ MapThenSumSet(Unfinished, Cpus) = SumOf(Lasting, Cpus)
    BY SumOfAdding, SumOfLasting
  <2>3. \A c \in Cpus : /\ Adding[c] \in Int /\ Lasting[c] \in Int
                        /\ Owing[c] = Adding[c] + Lasting[c]
    BY <1>0 DEF Amounts, Adding, Lasting, Owing
  <2>4. SumOf(Owing, Cpus) = SumOf(Adding, Cpus) + SumOf(Lasting, Cpus)
    BY <1>0, <2>3, SumPlus
  <2>5. SumOf(Adding, Cpus) \in Int /\ SumOf(Lasting, Cpus) \in Int
    BY <1>0, <2>3, SumInt
  <2>6. SumOf(InTable, Groups) \in Int /\ SumOf(used, Groups) \in Int
    BY <1>0 DEF Amounts
  <2>7. SumOf(InTable, Groups) + SumOf(Adding, Cpus) + SumOf(Lasting, Cpus) <= SumOf(used, Groups)
    BY <2>4, <2>5, <2>6 DEF Over
  <2> QED BY <2>1, <2>2, <2>7, SumOfCounted DEF NeverOvercounted
<1>2. CpuExact
  <2> SUFFICES ASSUME NEW g \in Groups \ disturbed
               PROVE  used[g] = Counted(g)
                        + MapThenSumSet(LAMBDA c : op[c].cpu, {c \in Cpus : op[c].cg = g})
                        + MapThenSumSet(Unfinished, {c \in Cpus : group[Occupant(c)] = g})
    BY DEF CpuExact
  <2> DEFINE A == {c \in Cpus : op[c].cg = g}
             B == {c \in Cpus : group[Occupant(c)] = g}
  <2>1. SumOf(AddingFor(g), Cpus) = SumOf(Adding, A)
    <3>1. \A c \in A : AddingFor(g)[c] = Adding[c]
      BY DEF AddingFor, Adding
    <3>2. \A c \in Cpus \ A : AddingFor(g)[c] = 0
      BY DEF AddingFor
    <3>3. \A c \in Cpus : AddingFor(g)[c] \in Int
      BY <1>0 DEF Amounts
    <3>4. A \subseteq Cpus
      OBVIOUS
    <3> HIDE DEF A
    <3>5. SumOf(AddingFor(g), Cpus) = SumOf(AddingFor(g), A)
      BY <1>0, <3>2, <3>3, <3>4, SumSupport
    <3>6. IsFiniteSet(A)
      BY <1>0, <3>4, FS_Subset
    <3> QED BY <3>1, <3>5, <3>6, SumSame
  <2>2. SumOf(LastingFor(g), Cpus) = SumOf(Lasting, B)
    <3>1. \A c \in B : LastingFor(g)[c] = Lasting[c]
      BY DEF LastingFor, Lasting
    <3>2. \A c \in Cpus \ B : LastingFor(g)[c] = 0
      BY DEF LastingFor
    <3>3. \A c \in Cpus : LastingFor(g)[c] \in Int
      BY <1>0 DEF Amounts
    <3>4. B \subseteq Cpus
      OBVIOUS
    <3> HIDE DEF B
    <3>5. SumOf(LastingFor(g), Cpus) = SumOf(LastingFor(g), B)
      BY <1>0, <3>2, <3>3, <3>4, SumSupport
    <3>6. IsFiniteSet(B)
      BY <1>0, <3>4, FS_Subset
    <3> QED BY <3>1, <3>5, <3>6, SumSame
  <2>3. \A c \in Cpus : /\ AddingFor(g)[c] \in Int /\ LastingFor(g)[c] \in Int
                        /\ Owed(g)[c] = AddingFor(g)[c] + LastingFor(g)[c]
    BY <1>0 DEF Amounts, Owed
  <2>4. SumOf(Owed(g), Cpus) = SumOf(AddingFor(g), Cpus) + SumOf(LastingFor(g), Cpus)
    BY <1>0, <2>3, SumPlus
  <2>5. SumOf(AddingFor(g), Cpus) \in Int /\ SumOf(LastingFor(g), Cpus) \in Int
    BY <1>0, <2>3, SumInt
  <2>6. /\ MapThenSumSet(LAMBDA c : op[c].cpu, A) = SumOf(Adding, A)
        /\ MapThenSumSet(Unfinished, B) = SumOf(Lasting, B)
    BY SumOfAdding, SumOfLasting
  <2>7. used[g] = Counted(g) + SumOf(Owed(g), Cpus) /\ Counted(g) \in Int
    BY <1>0 DEF Exact, Amounts
  <2>8. used[g] = Counted(g) + SumOf(AddingFor(g), Cpus) + SumOf(LastingFor(g), Cpus)
    BY <2>4, <2>5, <2>7
  <2> QED BY <2>1, <2>2, <2>6, <2>8
<1> QED BY <1>1, <1>2 DEF CpuCountedOnce

(* What a step does not touch is owed as before. *)
LEMMA TaskSame ==
    ASSUME NEW c \in Cpus, clock' = clock,
           current'[c] = current[c], next'[c] = next[c], now'[c] = now[c],
           next[c] # None \/ current[c] = Idle \/ start'[current[c]] = start[current[c]]
    PROVE  Unfinished(c)' = Unfinished(c) /\ Occupant(c)' = Occupant(c)
BY DEF Unfinished, Occupant

(* A CPU whose handler and task stay as they are owes what it did. *)
LEMMA OwesSame ==
    ASSUME NEW c \in Cpus, op'[c] = op[c], Unfinished(c)' = Unfinished(c),
           group'[Occupant(c)'] = group[Occupant(c)]
    PROVE  Owing'[c] = Owing[c] /\ \A g : Owed(g)'[c] = Owed(g)[c]
BY DEF Owing, Owed, AddingFor, LastingFor

(* A cgroup whose entry stays as it is has counted what it had. *)
LEMMA CountedSame ==
    ASSUME NEW g \in Groups, table'[g] = table[g],
           g \in Live => stats'[table[g]].cpu = stats[table[g]].cpu
    PROVE  Counted(g)' = Counted(g)
BY DEF Counted, Live

(* A step that adds nothing anywhere, and leaves what belongs to undisturbed
   cgroups as it is, keeps both parts. *)
LEMMA NothingAdded ==
    ASSUME Amounts, Amounts', Over, Exact, used' = used, disturbed \subseteq disturbed',
           \A g \in Groups : Counted(g)' <= Counted(g),
           \A c \in Cpus : Owing'[c] <= Owing[c],
           \A g \in Groups \ disturbed' :
              Counted(g)' = Counted(g) /\ \A c \in Cpus : Owed(g)'[c] = Owed(g)[c]
    PROVE  Over' /\ Exact'
<1>0. IsFiniteSet(Cpus) /\ IsFiniteSet(Groups)
  BY MetricsAssumption
<1>1. SumOf(InTable', Groups) <= SumOf(InTable, Groups)
  <2>1. \A g \in Groups : InTable'[g] \in Int /\ InTable[g] \in Int /\ InTable'[g] <= InTable[g]
    BY DEF Amounts
  <2> QED BY <1>0, <2>1, SumLeq
<1>2. SumOf(Owing', Cpus) <= SumOf(Owing, Cpus)
  <2>1. \A c \in Cpus : Owing'[c] \in Int /\ Owing[c] \in Int
    BY DEF Amounts
  <2> QED BY <1>0, <2>1, SumLeq
<1>3. Over'
  <2>1. /\ SumOf(InTable', Groups) \in Int /\ SumOf(InTable, Groups) \in Int
        /\ SumOf(Owing', Cpus) \in Int /\ SumOf(Owing, Cpus) \in Int
        /\ SumOf(used, Groups) \in Int
    BY DEF Amounts
  <2> QED BY <1>1, <1>2, <2>1 DEF Over
<1>4. ASSUME NEW g \in Groups \ disturbed'
      PROVE  used'[g] = Counted(g)' + SumOf(Owed(g)', Cpus)
  <2>1. SumOf(Owed(g)', Cpus) = SumOf(Owed(g), Cpus)
    BY <1>0, SumSame
  <2>2. used[g] = Counted(g) + SumOf(Owed(g), Cpus)
    BY DEF Exact
  <2> QED BY <2>1, <2>2
<1> QED BY <1>3, <1>4 DEF Exact

(* A running task that moves disturbs the cgroups it leaves and enters. *)
LEMMA MoveCounts ==
    ASSUME IInv, TypeOK', Running, Running', Over, Exact, NEW p \in Pids, Move(p)
    PROVE  Over' /\ Exact'
<1>0. TypeOK /\ Amounts /\ Amounts'
  BY AmountsTwice
<1>1. PICK g0 \in Groups \ {group[p]} :
        /\ group' = [group EXCEPT ![p] = g0]
        /\ disturbed' = IF \E c \in Cpus : Occupant(c) = p
                        THEN disturbed \cup {group[p], g0} ELSE disturbed
  BY DEF Move
<1>2. UNCHANGED <<clock, current, next, now, op, start, table, stats, used>>
  BY DEF Move, mapVars, handlerVars
<1>3. \A g \in Groups : Counted(g)' = Counted(g)
  BY <1>2, CountedSame
<1>4. \A c \in Cpus : Unfinished(c)' = Unfinished(c) /\ Occupant(c)' = Occupant(c)
  BY <1>2, TaskSame
<1>5. \A c \in Cpus : Owing'[c] = Owing[c]
  BY <1>2, <1>4 DEF Owing
<1>6. ASSUME NEW g \in Groups \ disturbed', NEW c \in Cpus PROVE Owed(g)'[c] = Owed(g)[c]
  <2>1. Occupant(c) \in Tasks
    BY <1>0 DEF Occupant, TypeOK
  <2>2. CASE Occupant(c) # p
    <3>1. group'[Occupant(c)'] = group[Occupant(c)]
      BY <1>0, <1>1, <1>4, <2>1, <2>2 DEF TypeOK
    <3> QED BY <1>2, <1>4, <3>1, OwesSame
  <2>3. CASE Occupant(c) = p
    <3>1. g # group[p] /\ g # g0 /\ group'[p] = g0
      BY <1>0, <1>1, <2>1, <2>3 DEF TypeOK
    <3>2. LastingFor(g)[c] = 0 /\ LastingFor(g)'[c] = 0
      BY <1>4, <2>3, <3>1 DEF LastingFor
    <3>3. AddingFor(g)'[c] = AddingFor(g)[c]
      BY <1>2 DEF AddingFor
    <3> QED BY <3>2, <3>3 DEF Owed
  <2> QED BY <2>2, <2>3
<1> QED
  <2>1. disturbed \subseteq disturbed' /\ used' = used
    BY <1>1, <1>2
  <2>2. /\ \A g \in Groups : Counted(g)' <= Counted(g)
        /\ \A c \in Cpus : Owing'[c] <= Owing[c]
    BY <1>0, <1>3, <1>5 DEF Amounts
  <2> QED BY <1>0, <1>3, <1>6, <2>1, <2>2, NothingAdded

(* sched_switch takes what the outgoing task has not finished into the handler. *)
LEMMA BeginCounts ==
    ASSUME IInv, TypeOK', Running, Running', Over, Exact, NEW c \in Cpus,
           SwitchOut(c) \/ PageAlloc(c) \/ PageFree(c) \/ Lookup(c)
    PROVE  Over' /\ Exact'
<1>0. TypeOK /\ Amounts /\ Amounts'
  BY AmountsTwice
<1>1. /\ UNCHANGED <<clock, current, group, used, start, table, stats, disturbed>>
      /\ \A d \in Cpus \ {c} : next'[d] = next[d] /\ now'[d] = now[d] /\ op'[d] = op[d]
  BY <1>0 DEF SwitchOut, PageAlloc, PageFree, PageOp, Lookup, nodeVars, mapVars, TypeOK
<1>2. \A g \in Groups : Counted(g)' = Counted(g)
  BY <1>1, CountedSame
<1>3. ASSUME NEW d \in Cpus \ {c} PROVE Owing'[d] = Owing[d] /\ \A g : Owed(g)'[d] = Owed(g)[d]
  <2>1. Unfinished(d)' = Unfinished(d) /\ Occupant(d)' = Occupant(d)
    BY <1>1, TaskSame
  <2> QED BY <1>1, <2>1, OwesSame
<1>4. Owing'[c] = Owing[c] /\ \A g \in Groups : Owed(g)'[c] = Owed(g)[c]
  <2>1. CASE SwitchOut(c)
    <3>1. /\ next[c] = None /\ op[c].cpu = 0 /\ next'[c] \in Tasks /\ now'[c] = clock
          /\ clock \in Nat /\ current[c] \in Tasks /\ None \notin Tasks
      BY <1>0, <2>1, MetricsAssumption DEF SwitchOut, Running, TypeOK, Tasks
    <3>2. Unfinished(c) = Slice(c) /\ Occupant(c) = current[c]
      BY <3>1 DEF Unfinished, Slice, Occupant
    <3>3. Unfinished(c)' = 0
      BY <1>1, <3>1 DEF Unfinished, Occupant
    <3>4. Slice(c) \in Nat
      BY <1>0, <3>2 DEF Amounts
    <3>5. CASE Slice(c) > 0
      <4>1. op'[c].cg = group[current[c]] /\ op'[c].cpu = Slice(c)
        BY <1>0, <2>1, <3>5 DEF SwitchOut, TypeOK
      <4>2. Owing'[c] = Slice(c) /\ Owing[c] = Slice(c)
        BY <3>1, <3>2, <3>3, <3>4, <4>1 DEF Owing
      <4>3. ASSUME NEW g PROVE Owed(g)'[c] = Owed(g)[c]
        <5>1. AddingFor(g)[c] = 0 /\ LastingFor(g)'[c] = 0
          BY <3>1, <3>3 DEF AddingFor, LastingFor
        <5>2. AddingFor(g)'[c] = LastingFor(g)[c] /\ LastingFor(g)[c] \in Nat
          BY <1>0, <3>2, <4>1 DEF AddingFor, LastingFor, Amounts
        <5> QED BY <5>1, <5>2 DEF Owed
      <4> QED BY <4>2, <4>3
    <3>6. CASE Slice(c) = 0
      <4>1. op' = op
        BY <2>1, <3>6 DEF SwitchOut
      <4>2. Owing'[c] = Owing[c]
        BY <3>2, <3>3, <3>6, <4>1 DEF Owing
      <4>3. ASSUME NEW g PROVE Owed(g)'[c] = Owed(g)[c]
        <5>1. AddingFor(g)'[c] = AddingFor(g)[c] /\ LastingFor(g)'[c] = 0 /\ LastingFor(g)[c] = 0
          BY <3>2, <3>3, <3>6, <4>1 DEF AddingFor, LastingFor
        <5> QED BY <5>1 DEF Owed
      <4> QED BY <4>2, <4>3
    <3> QED BY <3>4, <3>5, <3>6
  <2>2. CASE PageAlloc(c) \/ PageFree(c) \/ Lookup(c)
    <3>1. /\ next'[c] = next[c] /\ now'[c] = now[c]
          /\ op'[c] = op[c] \/ (op[c].cpu = 0 /\ op'[c].cpu = 0)
      BY <1>0, <2>2 DEF PageAlloc, PageFree, PageOp, Lookup, Running, TypeOK
    <3>2. Unfinished(c)' = Unfinished(c) /\ Occupant(c)' = Occupant(c)
      BY <1>1, <3>1, TaskSame
    <3>3. /\ op'[c].cpu = op[c].cpu
          /\ \A g : AddingFor(g)'[c] = AddingFor(g)[c] /\ LastingFor(g)'[c] = LastingFor(g)[c]
      BY <1>1, <3>1, <3>2 DEF AddingFor, LastingFor
    <3> QED BY <3>2, <3>3 DEF Owing, Owed
  <2> QED BY <2>1, <2>2
<1> QED
  <2>1. /\ \A g \in Groups : Counted(g)' <= Counted(g)
        /\ \A d \in Cpus : Owing'[d] <= Owing[d]
    BY <1>0, <1>2, <1>3, <1>4 DEF Amounts
  <2>2. disturbed \subseteq disturbed' /\ used' = used
    BY <1>1
  <2>3. \A g \in Groups : \A d \in Cpus : Owed(g)'[d] = Owed(g)[d]
    BY <1>3, <1>4
  <2> QED BY <1>0, <1>2, <2>1, <2>2, <2>3, NothingAdded

(* A creation empties the entry of a cgroup that had none or is disturbed. *)
LEMMA CreateCounts ==
    ASSUME IInv, TypeOK', Running, Running', Over, Exact, NEW c \in Cpus, Create(c)
    PROVE  Over' /\ Exact'
<1>0. TypeOK /\ Amounts /\ Amounts'
  BY AmountsTwice
<1> DEFINE o == op[c].cg
<1>1. PICK s \in Slots :
        /\ table' = [h \in Groups |-> IF h = o THEN s ELSE IF table[h] = s THEN None ELSE table[h]]
        /\ stats' = [stats EXCEPT ![s] = Zero]
        /\ disturbed' = disturbed \cup Displaced(o, s) \cup (IF Writers(s) # {} THEN {o} ELSE {})
  BY DEF Create
<1>2. UNCHANGED <<clock, current, group, used, start, next, now, op>>
  BY DEF Create, nodeVars
<1>3. \A d \in Cpus : Owing'[d] = Owing[d] /\ \A g : Owed(g)'[d] = Owed(g)[d]
  BY <1>2, TaskSame, OwesSame
<1>4. ASSUME NEW g \in Groups
      PROVE  Counted(g)' <= Counted(g) /\ (g \notin disturbed' => Counted(g)' = Counted(g))
  <2>0. Counted(g) \in Nat
    BY <1>0 DEF Amounts
  <2>a. s # None /\ o \in Groups
    BY <1>0, MetricsAssumption DEF Create, IInv, Called
  <2>1. CASE g = o
    <3>1. table'[g] = s /\ stats'[s].cpu = 0
      BY <1>0, <1>1, <2>1 DEF TypeOK, Zero
    <3>2. Counted(g)' = 0
      BY <2>a, <3>1 DEF Counted, Live
    <3>3. g \in Live => g \in disturbed'
      BY <1>1, <2>1 DEF Displaced
    <3>4. g \notin Live => Counted(g) = 0
      BY DEF Counted
    <3> QED BY <2>0, <3>2, <3>3, <3>4
  <2>2. CASE g # o /\ table[g] = s
    <3>1. table'[g] = None
      BY <1>1, <2>2
    <3>2. Counted(g)' = 0
      BY <3>1 DEF Counted, Live
    <3>3. g \in disturbed'
      BY <1>1, <2>2, <2>a DEF Displaced, Live
    <3> QED BY <2>0, <3>2, <3>3
  <2>3. CASE g # o /\ table[g] # s
    <3>1. table'[g] = table[g]
      BY <1>1, <2>3
    <3>2. g \in Live => stats'[table[g]] = stats[table[g]]
      BY <1>0, <1>1, <2>3 DEF TypeOK, Live
    <3>3. Counted(g)' = Counted(g)
      BY <3>1, <3>2, CountedSame
    <3> QED BY <2>0, <3>3
  <2> QED BY <2>1, <2>2, <2>3
<1> QED
  <2>1. disturbed \subseteq disturbed' /\ used' = used
    BY <1>1, <1>2
  <2>2. \A d \in Cpus : Owing'[d] <= Owing[d]
    BY <1>0, <1>3 DEF Amounts
  <2> QED BY <1>0, <1>3, <1>4, <2>1, <2>2, NothingAdded

(* An add given up after two lookups was for a disturbed cgroup. *)
LEMMA LookupAgainCounts ==
    ASSUME IInv, TypeOK', Running, Running', Over, Exact, NEW c \in Cpus, LookupAgain(c)
    PROVE  Over' /\ Exact'
<1>0. TypeOK /\ Amounts /\ Amounts'
  BY AmountsTwice
<1>1. /\ UNCHANGED <<clock, current, group, used, start, table, stats, next, now, disturbed>>
      /\ \A d \in Cpus \ {c} : op'[d] = op[d]
      /\ op'[c] = op[c] \/ (op[c].cg \in disturbed /\ op'[c] = NoOp)
  BY <1>0, MetricsAssumption DEF LookupAgain, Returns, nodeVars, mapVars, TypeOK, IInv, Pointers, Live
<1>2. \A g \in Groups : Counted(g)' = Counted(g)
  BY <1>1, CountedSame
<1>3. \A d \in Cpus : Unfinished(d)' = Unfinished(d) /\ Occupant(d)' = Occupant(d)
  BY <1>1, TaskSame
<1>4. ASSUME NEW d \in Cpus, op'[d] = op[d]
      PROVE  Owing'[d] = Owing[d] /\ \A g : Owed(g)'[d] = Owed(g)[d]
  BY <1>1, <1>3, <1>4, OwesSame
<1>5. ASSUME op[c].cg \in disturbed, op'[c] = NoOp
      PROVE  Owing'[c] <= Owing[c] /\ \A g \in Groups \ disturbed : Owed(g)'[c] = Owed(g)[c]
  <2>1. op'[c].cpu = 0 /\ op'[c].cg = None
    BY <1>5 DEF NoOp
  <2>2. Owing'[c] = 0 + Unfinished(c) /\ Owing[c] = op[c].cpu + Unfinished(c)
    BY <1>3, <2>1 DEF Owing
  <2>3. op[c].cpu \in Nat /\ Unfinished(c) \in Nat
    BY <1>0 DEF Amounts
  <2>4. ASSUME NEW g \in Groups \ disturbed PROVE Owed(g)'[c] = Owed(g)[c]
    <3>1. AddingFor(g)[c] = 0 /\ AddingFor(g)'[c] = 0
      BY <1>5, <2>1 DEF AddingFor
    <3>2. LastingFor(g)'[c] = LastingFor(g)[c]
      BY <1>1, <1>3 DEF LastingFor
    <3> QED BY <3>1, <3>2 DEF Owed
  <2> QED BY <2>2, <2>3, <2>4
<1> QED
  <2>1. /\ \A g \in Groups : Counted(g)' <= Counted(g)
        /\ \A d \in Cpus : Owing[d] \in Nat
    BY <1>0, <1>2 DEF Amounts
  <2>2. \A d \in Cpus : Owing'[d] <= Owing[d]
    BY <1>1, <1>4, <1>5, <2>1
  <2>3. \A g \in Groups \ disturbed : \A d \in Cpus : Owed(g)'[d] = Owed(g)[d]
    BY <1>1, <1>4, <1>5
  <2>4. disturbed' = disturbed /\ used' = used
    BY <1>1
  <2> QED BY <1>0, <1>2, <2>1, <2>2, <2>3, <2>4, NothingAdded

(* What passed since now was read is counted from pid_start, or lost if it is full. *)
LEMMA SwitchInCounts ==
    ASSUME IInv, TypeOK', Running, Running', Over, Exact, NEW c \in Cpus, SwitchIn(c)
    PROVE  Over' /\ Exact'
<1>0. TypeOK /\ Amounts /\ Amounts'
  BY AmountsTwice
<1>a. None \notin Tasks /\ None \notin Nat
  BY MetricsAssumption DEF Tasks
<1> DEFINE t == next[c]
<1>1. /\ UNCHANGED <<clock, group, used, table, stats, op>> /\ disturbed \subseteq disturbed'
      /\ t \in Tasks /\ now[c] \in Nat /\ clock \in Nat /\ op[c].cpu = 0
  BY <1>0 DEF SwitchIn, IInv, Called, Running, TypeOK
<1>2. /\ current'[c] = t /\ next'[c] = None
      /\ \A d \in Cpus \ {c} : /\ current'[d] = current[d] /\ next'[d] = next[d]
                               /\ now'[d] = now[d]
  BY <1>0 DEF SwitchIn, TypeOK
<1>3. /\ \A u \in Tasks \ {t} : start'[u] = start[u]
      /\ start'[t] = now[c] \/ (start'[t] = None /\ group[t] \in disturbed')
  BY <1>0, <1>1 DEF SwitchIn, Recorded, TypeOK
<1>4. \A g \in Groups : Counted(g)' = Counted(g)
  BY <1>1, CountedSame
<1>5. ASSUME NEW d \in Cpus \ {c} PROVE Owing'[d] = Owing[d] /\ \A g : Owed(g)'[d] = Owed(g)[d]
  <2>1. next[d] # None \/ current[d] = Idle \/ start'[current[d]] = start[current[d]]
    <3>1. current[d] = t => current[d] = Idle
      BY DEF Running
    <3>2. current[d] \in Tasks
      BY <1>0 DEF TypeOK
    <3> QED BY <1>3, <3>1, <3>2
  <2>2. Unfinished(d)' = Unfinished(d) /\ Occupant(d)' = Occupant(d)
    BY <1>1, <1>2, <2>1, TaskSame
  <2> QED BY <1>1, <2>2, OwesSame
<1>6. /\ Occupant(c)' = t /\ Occupant(c) = t
      /\ Unfinished(c) \in Nat /\ Unfinished(c)' \in Nat
      /\ Unfinished(c)' = Unfinished(c) \/ (Unfinished(c)' = 0 /\ group[t] \in disturbed')
  <2>1. Occupant(c)' = t /\ Occupant(c) = t
    BY <1>1, <1>2, <1>a DEF Occupant
  <2>2. Unfinished(c) = IF t = Idle THEN 0 ELSE clock - now[c]
    BY <1>1, <1>a, <2>1 DEF Unfinished
  <2>3. Unfinished(c)' = IF t = Idle THEN 0 ELSE IF start'[t] # None THEN clock - start'[t] ELSE 0
    BY <1>1, <1>2, <2>1 DEF Unfinished
  <2>4. Unfinished(c) \in Nat /\ Unfinished(c)' \in Nat
    BY <1>0 DEF Amounts
  <2> QED BY <1>1, <1>3, <1>a, <2>1, <2>2, <2>3, <2>4
<1>7. Owing'[c] <= Owing[c]
  BY <1>1, <1>6 DEF Owing
<1>8. ASSUME NEW g \in Groups \ disturbed' PROVE Owed(g)'[c] = Owed(g)[c]
  <2>1. AddingFor(g)'[c] = AddingFor(g)[c]
    BY <1>1 DEF AddingFor
  <2>2. LastingFor(g)'[c] = LastingFor(g)[c]
    BY <1>1, <1>6 DEF LastingFor
  <2> QED BY <2>1, <2>2 DEF Owed
<1> QED
  <2>1. /\ \A g \in Groups : Counted(g)' <= Counted(g)
        /\ \A d \in Cpus : Owing'[d] <= Owing[d]
    BY <1>0, <1>4, <1>5, <1>7 DEF Amounts
  <2>2. used' = used
    BY <1>1
  <2>3. \A g \in Groups \ disturbed' : \A d \in Cpus : Owed(g)'[d] = Owed(g)[d]
    BY <1>5, <1>8
  <2> QED BY <1>0, <1>1, <1>4, <2>1, <2>2, <2>3, NothingAdded

(* An add moves what a handler held into the entry it points at. *)
LEMMA AddCounts ==
    ASSUME IInv, TypeOK', Running, Running', Over, Exact, NEW c \in Cpus, Add(c)
    PROVE  Over' /\ Exact'
<1>0. TypeOK /\ Amounts /\ Amounts' /\ IsFiniteSet(Cpus) /\ IsFiniteSet(Groups)
  BY AmountsTwice, MetricsAssumption
<1> DEFINE o == op[c].cg
           s == ptr[c]
           n == op[c].cpu
<1>1. /\ UNCHANGED <<clock, current, group, used, start, table, next, now, disturbed>>
      /\ op'[c] = NoOp /\ \A d \in Cpus \ {c} : op'[d] = op[d]
      /\ s \in Slots /\ s # None /\ n \in Nat /\ o \in Groups
      /\ pc[c] = "add"
  BY <1>0, MetricsAssumption DEF Add, Returns, nodeVars, TypeOK, IInv, Called
<1>2. /\ stats'[s].cpu = stats[s].cpu + n
      /\ \A u \in Slots \ {s} : stats'[u] = stats[u]
  BY <1>0, <1>1 DEF Add, Added, TypeOK
<1>3. ASSUME NEW g \in Groups
      PROVE  Counted(g)' = IF table[g] = s THEN Counted(g) + n ELSE Counted(g)
  <2>1. CASE table[g] = s
    BY <1>1, <1>2, <2>1 DEF Counted, Live
  <2>2. CASE table[g] # s
    <3>1. g \in Live => stats'[table[g]].cpu = stats[table[g]].cpu
      BY <1>0, <1>2, <2>2 DEF Live, TypeOK
    <3> QED BY <1>1, <2>2, <3>1, CountedSame
  <2> QED BY <2>1, <2>2
<1>4. \A d \in Cpus : Unfinished(d)' = Unfinished(d) /\ Occupant(d)' = Occupant(d)
  BY <1>1, TaskSame
<1>5. ASSUME NEW d \in Cpus \ {c} PROVE Owing'[d] = Owing[d] /\ \A g : Owed(g)'[d] = Owed(g)[d]
  BY <1>1, <1>4, OwesSame
<1>6. Owing'[c] = Owing[c] - n
  <2>1. op'[c].cpu = 0
    BY <1>1 DEF NoOp
  <2>2. Owing'[c] = 0 + Unfinished(c) /\ Owing[c] = n + Unfinished(c)
    BY <1>4, <2>1 DEF Owing
  <2>3. Unfinished(c) \in Nat
    BY <1>0 DEF Amounts
  <2> HIDE DEF n
  <2> QED BY <1>1, <2>2, <2>3
<1>7. ASSUME NEW g \in Groups PROVE Owed(g)'[c] = IF o = g THEN Owed(g)[c] - n ELSE Owed(g)[c]
  <2>1. AddingFor(g)'[c] = 0 /\ AddingFor(g)[c] = IF o = g THEN n ELSE 0
    BY <1>1, MetricsAssumption DEF AddingFor, NoOp
  <2>2. LastingFor(g)'[c] = LastingFor(g)[c] /\ LastingFor(g)[c] \in Nat
    BY <1>0, <1>1, <1>4 DEF LastingFor, Amounts
  <2>3. Owed(g)'[c] = 0 + LastingFor(g)[c] /\ Owed(g)[c] = (IF o = g THEN n ELSE 0) + LastingFor(g)[c]
    BY <2>1, <2>2 DEF Owed
  <2> HIDE DEF n, o
  <2> QED BY <1>1, <2>2, <2>3
<1>8. SumOf(Owing', Cpus) = SumOf(Owing, Cpus) - n
  <2>1. \A d \in Cpus : Owing[d] \in Int /\ Owing'[d] \in Int
    BY <1>0 DEF Amounts
  <2>2. \A d \in Cpus \ {c} : Owing[d] = Owing'[d]
    BY <1>5
  <2>3. /\ SumOf(Owing', Cpus) - SumOf(Owing, Cpus) = Owing'[c] - Owing[c]
        /\ SumOf(Owing', Cpus) \in Int /\ SumOf(Owing, Cpus) \in Int
    BY <1>0, <2>1, <2>2, SumPoint
  <2> HIDE DEF n
  <2> QED BY <1>1, <1>6, <2>1, <2>3
<1>9. SumOf(InTable', Groups) <= SumOf(InTable, Groups) + n
  <2>0. \A g \in Groups : InTable[g] \in Int /\ InTable'[g] \in Int
    BY <1>0 DEF Amounts
  <2>1. \A g \in Groups : InTable'[g] = IF table[g] = s THEN InTable[g] + n ELSE InTable[g]
    BY <1>0, <1>3 DEF Amounts
  <2>2. CASE \E g \in Groups : table[g] = s
    <3>1. PICK g \in Groups : table[g] = s
      BY <2>2
    <3>2. \A h \in Groups \ {g} : table[h] # s
      BY <1>1, <3>1 DEF IInv, OneSlotEach, Live
    <3>3. \A h \in Groups \ {g} : InTable[h] = InTable'[h]
      BY <2>1, <3>2
    <3>4. /\ SumOf(InTable', Groups) - SumOf(InTable, Groups) = InTable'[g] - InTable[g]
          /\ SumOf(InTable', Groups) \in Int /\ SumOf(InTable, Groups) \in Int
      BY <1>0, <2>0, <3>3, SumPoint
    <3>5. InTable'[g] = InTable[g] + n /\ InTable[g] \in Int
      BY <2>0, <2>1, <3>1
    <3> HIDE DEF n
    <3> QED BY <1>1, <3>4, <3>5
  <2>3. CASE \A g \in Groups : table[g] # s
    <3>1. SumOf(InTable', Groups) = SumOf(InTable, Groups)
      BY <1>0, <2>1, <2>3, SumSame
    <3>2. SumOf(InTable, Groups) \in Nat
      BY <1>0 DEF Amounts
    <3> HIDE DEF n
    <3> QED BY <1>1, <3>1, <3>2
  <2> QED BY <2>2, <2>3
<1>10. Over'
  <2>1. /\ SumOf(InTable', Groups) \in Nat /\ SumOf(InTable, Groups) \in Nat
        /\ SumOf(Owing, Cpus) \in Nat /\ SumOf(used, Groups) \in Nat
    BY <1>0 DEF Amounts
  <2>2. SumOf(InTable, Groups) + SumOf(Owing, Cpus) <= SumOf(used, Groups)
    BY DEF Over
  <2>3. SumOf(InTable', Groups) + SumOf(Owing', Cpus) <= SumOf(used, Groups)
    <3> HIDE DEF n
    <3> QED BY <1>1, <1>8, <1>9, <2>1, <2>2
  <2>4. used' = used
    BY <1>1
  <2> QED BY <2>3, <2>4 DEF Over
<1>11. ASSUME NEW g \in Groups \ disturbed'
       PROVE  used'[g] = Counted(g)' + SumOf(Owed(g)', Cpus)
  <2>1. used'[g] = Counted(g) + SumOf(Owed(g), Cpus) /\ g \notin disturbed
    BY <1>1 DEF Exact
  <2>2. g = o <=> table[g] = s
    <3>1. \/ table[o] = s
          \/ o \in disturbed /\ \A h \in Live : table[h] = s => h \in disturbed
      BY <1>1 DEF IInv, Pointers
    <3> QED BY <1>1, <2>1, <3>1 DEF IInv, OneSlotEach, Live
  <2>3. \A d \in Cpus : Owed(g)[d] \in Int /\ Owed(g)'[d] \in Int
    BY <1>0 DEF Amounts
  <2>4. /\ SumOf(Owed(g)', Cpus) - SumOf(Owed(g), Cpus) = Owed(g)'[c] - Owed(g)[c]
        /\ SumOf(Owed(g)', Cpus) \in Int /\ SumOf(Owed(g), Cpus) \in Int
    <3>1. \A d \in Cpus \ {c} : Owed(g)[d] = Owed(g)'[d]
      BY <1>5
    <3> QED BY <1>0, <2>3, <3>1, SumPoint
  <2>5. Counted(g) \in Nat /\ Counted(g)' \in Nat /\ Owed(g)[c] \in Int
    BY <1>0, <2>3 DEF Amounts
  <2>6. CASE g = o
    <3>1. Counted(g)' = Counted(g) + n
      BY <1>3, <2>2, <2>6
    <3>2. Owed(g)'[c] = Owed(g)[c] - n
      BY <1>7, <2>6
    <3> HIDE DEF n
    <3> QED BY <1>1, <2>1, <2>4, <2>5, <3>1, <3>2
  <2>7. CASE g # o
    <3>1. Counted(g)' = Counted(g)
      BY <1>3, <2>2, <2>7
    <3>2. Owed(g)'[c] = Owed(g)[c]
      BY <1>7, <2>7
    <3> QED BY <2>1, <2>4, <2>5, <3>1, <3>2
  <2> QED BY <2>6, <2>7
<1> QED BY <1>10, <1>11 DEF Exact

(* A tick is used by the cgroups of the busy CPUs, and each of these CPUs will
   count it at most once. *)
LEMMA TickCounts ==
    ASSUME IInv, TypeOK', Running, Running', Over, Exact, Tick
    PROVE  Over' /\ Exact'
<1>0. TypeOK /\ Amounts /\ Amounts' /\ IsFiniteSet(Cpus) /\ IsFiniteSet(Groups)
  BY AmountsTwice, MetricsAssumption
<1> DEFINE Busy == {c \in Cpus : Occupant(c) # Idle}
           Cgroup == [c \in Cpus |-> group[Occupant(c)]]
           Of(g) == {c \in Cpus : Occupant(c) # Idle /\ group[Occupant(c)] = g}
           One == [c \in Cpus |-> IF Occupant(c) # Idle THEN 1 ELSE 0]
           OneFor(g) == [c \in Cpus |-> IF Occupant(c) # Idle /\ group[Occupant(c)] = g THEN 1 ELSE 0]
           Gained == [g \in Groups |-> Cardinality(Of(g))]
<1>1. /\ UNCHANGED <<current, group, start, table, stats, next, now, op, disturbed>>
      /\ clock' = clock + 1 /\ clock \in Nat
      /\ \A g \in Groups : used'[g] = used[g] + Cardinality(Of(g))
  BY <1>0 DEF Tick, mapVars, handlerVars, TypeOK
<1>2. \A g \in Groups : Counted(g)' = Counted(g)
  BY <1>1, CountedSame
<1>3. ASSUME NEW c \in Cpus
      PROVE  /\ Occupant(c)' = Occupant(c) /\ Occupant(c) \in Tasks
             /\ Unfinished(c) \in Nat
             /\ Occupant(c) = Idle => Unfinished(c)' = Unfinished(c)
             /\ \/ Unfinished(c)' = Unfinished(c) + 1
                \/ Unfinished(c)' = Unfinished(c) /\ (Occupant(c) = Idle \/ group[Occupant(c)] \in disturbed)
  <2>1. Occupant(c)' = Occupant(c) /\ Occupant(c) \in Tasks /\ Unfinished(c) \in Nat
    BY <1>0, <1>1 DEF Occupant, Amounts, TypeOK
  <2>2. CASE Occupant(c) = Idle
    BY <2>1, <2>2 DEF Unfinished
  <2>3. CASE Occupant(c) # Idle /\ next[c] # None
    <3>1. Unfinished(c)' = clock' - now[c] /\ Unfinished(c) = clock - now[c] /\ now[c] \in Nat
      BY <1>0, <1>1, <2>1, <2>3 DEF Unfinished, TypeOK
    <3> QED BY <1>1, <2>1, <2>3, <3>1
  <2>4. CASE Occupant(c) # Idle /\ next[c] = None /\ start[Occupant(c)] # None
    <3>1. /\ Unfinished(c)' = clock' - start[Occupant(c)]
          /\ Unfinished(c) = clock - start[Occupant(c)] /\ start[Occupant(c)] \in Nat
      BY <1>0, <1>1, <2>1, <2>4 DEF Unfinished, TypeOK
    <3> QED BY <1>1, <2>1, <2>4, <3>1
  <2>5. CASE Occupant(c) # Idle /\ next[c] = None /\ start[Occupant(c)] = None
    <3>1. Unfinished(c)' = 0 /\ Unfinished(c) = 0
      BY <1>1, <2>1, <2>5 DEF Unfinished
    <3>2. group[Occupant(c)] \in disturbed
      BY <2>5 DEF Running, Occupant
    <3> QED BY <2>1, <2>5, <3>1, <3>2
  <2> QED BY <2>2, <2>3, <2>4, <2>5
<1>4. \A g \in Groups : Of(g) \subseteq Busy /\ Of(g) \subseteq Cpus /\ IsFiniteSet(Of(g))
  <2>1. \A g \in Groups : Of(g) \subseteq Busy /\ Of(g) \subseteq Cpus
    OBVIOUS
  <2> HIDE DEF Of, Busy
  <2> QED BY <1>0, <2>1, FS_Subset
<1>5. \A c \in Cpus : One[c] \in Int
  OBVIOUS
<1>6. IsFiniteSet(Busy) /\ Busy \subseteq Cpus
  BY <1>0, FS_Subset
<1>7. SumOf(One, Busy) = SumOf(Gained, Groups)
  <2>1. \A c \in Busy : One[c] \in Int
    BY <1>5, <1>6
  <2>3. \A c \in Busy : Cgroup[c] \in Groups
    BY <1>0, <1>3 DEF TypeOK
  <2> DEFINE Part == [g \in Groups |-> Of(g)]
  <2>2. \A g \in Groups : Part[g] = {c \in Busy : Cgroup[c] = g}
    OBVIOUS
  <2>4. ASSUME NEW g \in Groups PROVE Gained[g] = SumOf(One, Part[g])
    <3>1. \A c \in Of(g) : One[c] = 1
      OBVIOUS
    <3>2. Gained[g] = Cardinality(Of(g)) /\ Part[g] = Of(g)
      OBVIOUS
    <3> HIDE DEF Of, One, Gained, Part
    <3>3. SumOf(One, Of(g)) = Cardinality(Of(g))
      BY <1>4, <3>1, SumOfOnes
    <3> QED BY <3>2, <3>3
  <2> HIDE DEF Busy, One, Gained, Cgroup, Part
  <2>5. SumOf(Gained, Groups) = SumOf(One, Busy)
    BY <1>0, <1>6, <2>1, <2>2, <2>3, <2>4, SumByPart
  <2> QED BY <2>5
<1>8. SumOf(One, Cpus) = SumOf(One, Busy)
  <2>1. \A c \in Cpus \ Busy : One[c] = 0
    OBVIOUS
  <2> HIDE DEF Busy, One
  <2> QED BY <1>0, <1>5, <1>6, <2>1, SumSupport
<1>9. SumOf(used', Groups) = SumOf(used, Groups) + SumOf(Gained, Groups)
  <2>1. \A g \in Groups : Cardinality(Of(g)) \in Nat
    <3> HIDE DEF Of
    <3> QED BY <1>4, FS_CardinalityType
  <2>2. \A g \in Groups : /\ used[g] \in Int /\ Gained[g] \in Int
                          /\ used'[g] = used[g] + Gained[g]
    <3>1. \A g \in Groups : Gained[g] = Cardinality(Of(g))
      OBVIOUS
    <3> HIDE DEF Gained, Of
    <3> QED BY <1>0, <1>1, <2>1, <3>1 DEF Amounts
  <2> HIDE DEF Gained
  <2> QED BY <1>0, <2>2, SumPlus
<1>10. SumOf(Owing', Cpus) <= SumOf(Owing, Cpus) + SumOf(One, Cpus)
  <2> DEFINE Most == [c \in Cpus |-> Owing[c] + One[c]]
  <2>1. \A c \in Cpus : Owing[c] \in Int /\ Owing'[c] \in Int
    BY <1>0 DEF Amounts
  <2>2. ASSUME NEW c \in Cpus PROVE Owing'[c] <= Owing[c] + One[c]
    <3>1. /\ Owing[c] = op[c].cpu + Unfinished(c) /\ Owing'[c] = op[c].cpu + Unfinished(c)'
          /\ op[c].cpu \in Nat
      BY <1>0, <1>1 DEF Owing, Amounts
    <3>2. One[c] \in {0, 1} /\ (Occupant(c) # Idle => One[c] = 1)
      OBVIOUS
    <3> HIDE DEF One
    <3> QED BY <1>3, <3>1, <3>2
  <2>3. \A c \in Cpus : Most[c] = Owing[c] + One[c]
    OBVIOUS
  <2> HIDE DEF Most, One
  <2>4. SumOf(Most, Cpus) = SumOf(Owing, Cpus) + SumOf(One, Cpus)
    BY <1>0, <1>5, <2>1, <2>3, SumPlus
  <2>5. \A c \in Cpus : Owing'[c] \in Int /\ Most[c] \in Int /\ Owing'[c] <= Most[c]
    BY <1>5, <2>1, <2>2, <2>3
  <2>6. SumOf(Owing', Cpus) <= SumOf(Most, Cpus)
    BY <1>0, <2>5, SumLeq
  <2> QED BY <2>4, <2>6
<1>11. Over'
  <2>1. SumOf(InTable', Groups) = SumOf(InTable, Groups)
    <3>1. \A g \in Groups : InTable'[g] = InTable[g]
      BY <1>0, <1>2 DEF Amounts
    <3> QED BY <1>0, <3>1, SumSame
  <2>2. /\ SumOf(InTable, Groups) \in Int /\ SumOf(Owing, Cpus) \in Int
        /\ SumOf(Owing', Cpus) \in Int /\ SumOf(used, Groups) \in Int
    BY <1>0 DEF Amounts
  <2>3. SumOf(One, Cpus) \in Int
    <3> HIDE DEF One
    <3> QED BY <1>0, <1>5, SumInt
  <2>4. SumOf(used', Groups) = SumOf(used, Groups) + SumOf(One, Cpus)
    BY <1>7, <1>8, <1>9
  <2>5. SumOf(InTable, Groups) + SumOf(Owing, Cpus) <= SumOf(used, Groups)
    BY DEF Over
  <2> HIDE DEF One
  <2>6. SumOf(InTable', Groups) + SumOf(Owing', Cpus) <= SumOf(used', Groups)
    BY <1>10, <2>1, <2>2, <2>3, <2>4, <2>5
  <2> QED BY <2>6 DEF Over
<1>12. ASSUME NEW g \in Groups \ disturbed'
       PROVE  used'[g] = Counted(g)' + SumOf(Owed(g)', Cpus)
  <2>1. \A c \in Cpus : Owed(g)[c] \in Int /\ Owed(g)'[c] \in Int /\ OneFor(g)[c] \in Int
    BY <1>0 DEF Amounts
  <2>2. ASSUME NEW c \in Cpus PROVE Owed(g)'[c] = Owed(g)[c] + OneFor(g)[c]
    <3>1. AddingFor(g)'[c] = AddingFor(g)[c] /\ AddingFor(g)[c] \in Int
      BY <1>0, <1>1 DEF AddingFor, Amounts
    <3>2. /\ LastingFor(g)[c] = IF group[Occupant(c)] = g THEN Unfinished(c) ELSE 0
          /\ LastingFor(g)'[c] = IF group[Occupant(c)] = g THEN Unfinished(c)' ELSE 0
      BY <1>1, <1>3 DEF LastingFor
    <3>3. OneFor(g)[c] = IF Occupant(c) # Idle /\ group[Occupant(c)] = g THEN 1 ELSE 0
      OBVIOUS
    <3> HIDE DEF OneFor
    <3>4. LastingFor(g)'[c] = LastingFor(g)[c] + OneFor(g)[c]
      <4>1. CASE Occupant(c) = Idle
        BY <1>3, <3>2, <3>3, <4>1
      <4>2. CASE Occupant(c) # Idle /\ group[Occupant(c)] = g
        BY <1>1, <1>3, <3>2, <3>3, <4>2
      <4>3. CASE group[Occupant(c)] # g
        BY <3>2, <3>3, <4>3
      <4> QED BY <4>1, <4>2, <4>3
    <3>5. LastingFor(g)[c] \in Int /\ OneFor(g)[c] \in Int
      BY <1>0, <2>1 DEF Amounts
    <3>6. Owed(g)'[c] = AddingFor(g)[c] + LastingFor(g)'[c] /\ Owed(g)[c] = AddingFor(g)[c] + LastingFor(g)[c]
      BY <3>1 DEF Owed
    <3> QED BY <3>1, <3>4, <3>5, <3>6
  <2>3. SumOf(OneFor(g), Cpus) = Cardinality(Of(g))
    <3>1. /\ \A c \in Cpus \ Of(g) : OneFor(g)[c] = 0
          /\ \A c \in Of(g) : OneFor(g)[c] = 1
      OBVIOUS
    <3> HIDE DEF OneFor, Of
    <3>2. SumOf(OneFor(g), Cpus) = SumOf(OneFor(g), Of(g))
      BY <1>0, <1>4, <2>1, <3>1, SumSupport
    <3>3. SumOf(OneFor(g), Of(g)) = Cardinality(Of(g))
      BY <1>4, <3>1, SumOfOnes
    <3> QED BY <3>2, <3>3
  <2> HIDE DEF OneFor, Of
  <2>4. SumOf(Owed(g)', Cpus) = SumOf(Owed(g), Cpus) + Cardinality(Of(g))
    <3>1. SumOf(Owed(g)', Cpus) = SumOf(Owed(g), Cpus) + SumOf(OneFor(g), Cpus)
      BY <1>0, <2>1, <2>2, SumPlus
    <3> QED BY <2>3, <3>1
  <2>5. used[g] = Counted(g) + SumOf(Owed(g), Cpus) /\ used'[g] = used[g] + Cardinality(Of(g))
    BY <1>1 DEF Exact
  <2>6. Counted(g) \in Nat /\ SumOf(Owed(g), Cpus) \in Nat /\ Cardinality(Of(g)) \in Nat
    BY <1>0, <1>4, FS_CardinalityType DEF Amounts
  <2> QED BY <1>2, <2>4, <2>5, <2>6
<1> QED BY <1>11, <1>12 DEF Exact

(* CPU time is counted to the tick for the cgroups nothing happened to, and never
   twice for all of them together, whatever the interleaving of the handlers. *)
THEOREM CpuCounted == Spec => []CpuCountedOnce
<1>1. Init => Running /\ Over /\ Exact
  <2> SUFFICES ASSUME Init PROVE Running /\ Over /\ Exact
    OBVIOUS
  <2>0. IInv /\ IsFiniteSet(Cpus) /\ IsFiniteSet(Groups)
    BY InitEstablishes, MetricsAssumption
  <2>a. None \notin Tasks
    BY MetricsAssumption DEF Tasks
  <2>1. Running
    <3>1. /\ \A c \in Cpus : next[c] = None /\ op[c].cpu = 0 /\ now[c] = 0 /\ clock = 0
          /\ \A t \in Tasks : start[t] = None
          /\ \A c, d \in Cpus : current[c] = current[d] => c = d \/ current[c] = Idle
          /\ \A c \in Cpus : current[c] \in Tasks /\ (current[c] # Idle => group[current[c]] \in disturbed)
      BY DEF Init, NoOp
    <3> QED BY <2>a, <3>1 DEF Running
  <2>2. /\ \A c \in Cpus : op[c].cpu = 0 /\ Unfinished(c) = 0
        /\ \A g \in Groups : Counted(g) = 0 /\ used[g] = 0
    <3>1. \A c \in Cpus : op[c].cpu = 0 /\ next[c] = None /\ current[c] \in Tasks
      BY DEF Init, NoOp
    <3>2. \A t \in Tasks : start[t] = None
      BY DEF Init
    <3>3. \A g \in Groups : table[g] = None /\ used[g] = 0
      BY DEF Init
    <3> QED BY <3>1, <3>2, <3>3 DEF Unfinished, Occupant, Counted, Live
  <2>3. /\ \A c \in Cpus : Owing[c] = 0 /\ \A g : Owed(g)[c] = 0
        /\ \A g \in Groups : InTable[g] = 0
    BY <2>2 DEF Owing, Owed, AddingFor, LastingFor, InTable
  <2>4. /\ SumOf(Owing, Cpus) = 0 /\ \A g : SumOf(Owed(g), Cpus) = 0
        /\ SumOf(InTable, Groups) = 0 /\ SumOf(used, Groups) = 0
    BY <2>0, <2>2, <2>3, SumOfZeros
  <2> QED BY <2>1, <2>2, <2>4 DEF Over, Exact
<1>2. IInv /\ TypeOK' /\ Running /\ Over /\ Exact /\ [Next]_vars => Running' /\ Over' /\ Exact'
  <2> SUFFICES ASSUME IInv, TypeOK', Running, Over, Exact, [Next]_vars
               PROVE  Running' /\ Over' /\ Exact'
    OBVIOUS
  <2>0. Running'
    BY RunningStep
  <2>1. CASE UNCHANGED vars
    <3>1. /\ UNCHANGED <<clock, current, group, used, start, table, stats, next, now, op, disturbed>>
      BY <2>1 DEF vars, nodeVars, mapVars, handlerVars
    <3>2. /\ \A g : Counted(g)' = Counted(g) /\ Owed(g)' = Owed(g)
          /\ InTable' = InTable /\ Owing' = Owing
      BY <3>1 DEF Counted, Live, Owed, AddingFor, LastingFor, InTable, Owing, Unfinished, Occupant
    <3> QED BY <2>0, <3>1, <3>2 DEF Over, Exact
  <2>2. CASE Tick
    BY <2>0, <2>2, TickCounts
  <2>3. ASSUME NEW p \in Pids, Move(p) PROVE Over' /\ Exact'
    BY <2>0, <2>3, MoveCounts
  <2>4. ASSUME NEW c \in Cpus, Handle(c) PROVE Over' /\ Exact'
    BY <2>0, <2>4, BeginCounts, CreateCounts, LookupAgainCounts, AddCounts, SwitchInCounts DEF Handle
  <2> QED BY <2>0, <2>1, <2>2, <2>3, <2>4 DEF Next
<1>3. IInv => TypeOK
  BY DEF IInv
<1>4. IInv /\ Running /\ Over /\ Exact => CpuCountedOnce
  BY SumsSayIt DEF IInv
<1> QED BY <1>1, <1>2, <1>3, <1>4, Invariance, PTL DEF Spec
=============================================================================
