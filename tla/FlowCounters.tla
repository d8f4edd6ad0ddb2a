----------------------------- MODULE FlowCounters -----------------------------
(***************************************************************************)
(* How bytes become network usage: the cgroup_skb programs of              *)
(* bpf/flows.bpf.c count every packet in the LRU map clustercost_flows,    *)
(* and ebpfNetworkCollector.CollectPodNetwork walks that map once per      *)
(* snapshot, keeps the counters it saw in c.last and charges the           *)
(* differences to pods.                                                    *)
(*                                                                         *)
(* The actors are the handler contexts of the kernel, which run handle_skb *)
(* concurrently and without a lock, and one collector (c.mu).  A map       *)
(* lookup, a map update and the atomic add are one step each.              *)
(*                                                                         *)
(* The kernel map is modelled from its use.  An entry is a slot; an update *)
(* puts the key into a fresh slot, which the map takes from an entry it    *)
(* evicts or from its unused slots, and frees the slot the key had.  A     *)
(* handler keeps the address of a slot, so its add may reach a slot that   *)
(* belongs to nobody or to another key by then.                            *)
(*                                                                         *)
(* Data.  A flow stands for a flow_key.  One of the two counters is        *)
(* modelled: tx and rx are updated and read the same way.  Counters are    *)
(* unbounded: 2^64 bytes do not pass in the life of a node.  One life of   *)
(* the agent is modelled: Manager.loadNetwork pins a new map and a new     *)
(* process starts with an empty c.last, which is Init.                     *)
(***************************************************************************)
EXTENDS Integers, FiniteSets, FiniteSetsExt

CONSTANTS
    Contexts,    \* handler contexts that run handle_skb at the same time
    Flows,       \* flow keys
    Slots,       \* max_entries of clustercost_flows
    None,        \* NULL
    Lengths,     \* values of skb->len
    MaxPackets   \* bound: packets handled

ASSUME FlowAssumption ==
    /\ None \notin Slots /\ None \notin Flows
    /\ IsFiniteSet(Flows)
    /\ Lengths \subseteq Nat \ {0}
    /\ MaxPackets \in Nat

VARIABLES
    table,      \* clustercost_flows: the slot of each flow, or None
    bytes,      \* the counter in each slot
    pc,         \* where each context is inside handle_skb
    flow,       \* the key of the packet at hand
    stats,      \* the pointer returned by the last lookup
    known,      \* flows whose source address belongs to a listed pod
    walking,    \* the collector is inside its map iteration
    seen,       \* flows the iteration has returned
    churned,    \* an entry disappeared from the map during this iteration
    last,       \* c.last; 0 stands for "no entry", which deltaStats treats alike
    packets,    \* packets handled
    \* History.
    sent,       \* bytes of packets whose handler finished
    charged,    \* bytes the collector reported
    disturbed   \* flows that lost a slot, or got a slot somebody still writes to

kernelVars    == <<table, bytes, pc, flow, stats, packets, sent, disturbed>>
collectorVars == <<seen, walking, last, charged>>
vars == <<kernelVars, collectorVars, known, churned>>

-----------------------------------------------------------------------------
Live == {f \in Flows : table[f] # None}

(* diffUint64Flow: a counter below its last value has been reset. *)
Diff(current, previous) == IF current >= previous THEN current - previous ELSE current

(* What the next collection will find new in the entry of f. *)
Uncollected(f) == Diff(bytes[table[f]], last[f])

Quiet == packets = MaxPackets /\ \A c \in Contexts : pc[c] = "idle"

Init ==
    /\ table = [f \in Flows |-> None] /\ bytes = [s \in Slots |-> 0]
    /\ pc = [c \in Contexts |-> "idle"]
    /\ flow = [c \in Contexts |-> None] /\ stats = [c \in Contexts |-> None]
    /\ known \in SUBSET Flows
    /\ walking = FALSE /\ seen = {} /\ churned = FALSE
    /\ last = [f \in Flows |-> 0]
    /\ packets = 0
    /\ sent = [f \in Flows |-> 0] /\ charged = [f \in Flows |-> 0]
    /\ disturbed = {}

-----------------------------------------------------------------------------
(* Mistakes the properties are tested against: each of the following is a
   wrong version of the definition named before the underscore. *)

(* deltaStats forgets to remember a counter it sees for the first time. *)
Visit_NoBaseline(f) ==
    /\ walking /\ f \in Live /\ (f \notin seen \/ churned)
    /\ seen' = seen \cup {f}
    /\ IF f \in known
       THEN /\ charged' = [charged EXCEPT ![f] = @ + Uncollected(f)]
            /\ last' = IF last[f] = 0 THEN last ELSE [last EXCEPT ![f] = bytes[table[f]]]
       ELSE UNCHANGED <<charged, last>>
    /\ UNCHANGED <<kernelVars, walking, known, churned>>

(* deltaStats runs before the source pod is looked up. *)
Visit_DeltaFirst(f) ==
    /\ walking /\ f \in Live /\ (f \notin seen \/ churned)
    /\ seen' = seen \cup {f}
    /\ last' = [last EXCEPT ![f] = bytes[table[f]]]
    /\ charged' = IF f \in known THEN [charged EXCEPT ![f] = @ + Uncollected(f)] ELSE charged
    /\ UNCHANGED <<kernelVars, walking, known, churned>>

(* The iteration returns after any number of entries. *)
EndWalk_Early ==
    /\ walking /\ walking' = FALSE
    /\ UNCHANGED <<kernelVars, seen, last, charged, known, churned>>

(* The second NULL check of handle_skb is missing. *)
LookupAgain_NoCheck(c) ==
    /\ pc[c] = "again"
    /\ stats' = [stats EXCEPT ![c] = table[flow[c]]]
    /\ pc' = [pc EXCEPT ![c] = "add"]
    /\ UNCHANGED <<table, bytes, flow, packets, sent, disturbed, collectorVars, known, churned>>

-----------------------------------------------------------------------------
(* handle_skb *)

(* A packet arrives and its key is looked up. *)
Lookup(c) ==
    /\ pc[c] = "idle" /\ packets < MaxPackets
    /\ packets' = packets + 1
    /\ \E f \in Flows :
        /\ flow' = [flow EXCEPT ![c] = f]
        /\ stats' = [stats EXCEPT ![c] = table[f]]
        /\ pc' = [pc EXCEPT ![c] = IF table[f] = None THEN "create" ELSE "add"]
    /\ UNCHANGED <<table, bytes, sent, disturbed, collectorVars, known, churned>>

(* Flows whose entry goes when f gets slot s: the one evicted from s, and f
   itself when another context has created it meanwhile. *)
Displaced(f, s) == {g \in Live : g = f \/ table[g] = s}

(* Contexts that will still add to slot s. *)
Writers(s) == {c \in Contexts : pc[c] = "add" /\ stats[c] = s}

(* bpf_map_update_elem with the zero value and BPF_ANY: a fresh slot for the
   flow, whatever the lookup before has found. *)
Create(c) ==
    /\ pc[c] = "create"
    /\ LET f == flow[c] IN
       \E s \in Slots :
        /\ table' = [g \in Flows |-> IF g = f THEN s ELSE IF table[g] = s THEN None ELSE table[g]]
        /\ bytes' = [bytes EXCEPT ![s] = 0]
        /\ disturbed' = disturbed \cup Displaced(f, s) \cup (IF Writers(s) # {} THEN {f} ELSE {})
        /\ churned' = (churned \/ Displaced(f, s) # {})
    /\ pc' = [pc EXCEPT ![c] = "again"]
    /\ UNCHANGED <<flow, stats, packets, sent, collectorVars, known>>

(* The second lookup finds the entry, or finds it evicted and gives up. *)
LookupAgain(c) ==
    /\ pc[c] = "again"
    /\ LET f == flow[c] IN
       /\ stats' = [stats EXCEPT ![c] = table[f]]
       /\ IF table[f] = None
          THEN /\ pc' = [pc EXCEPT ![c] = "idle"]
               /\ \E n \in Lengths : sent' = [sent EXCEPT ![f] = @ + n]
          ELSE pc' = [pc EXCEPT ![c] = "add"] /\ sent' = sent
    /\ UNCHANGED <<table, bytes, flow, packets, disturbed, collectorVars, known, churned>>

(* __sync_fetch_and_add *)
AddBytes(c) ==
    /\ pc[c] = "add"
    /\ \E n \in Lengths :
        /\ bytes' = [bytes EXCEPT ![stats[c]] = @ + n]
        /\ sent' = [sent EXCEPT ![flow[c]] = @ + n]
    /\ pc' = [pc EXCEPT ![c] = "idle"]
    /\ UNCHANGED <<table, flow, stats, packets, disturbed, collectorVars, known, churned>>

-----------------------------------------------------------------------------
(* CollectPodNetwork *)

BeginWalk ==
    /\ ~walking /\ walking' = TRUE
    /\ seen' = {} /\ churned' = FALSE
    /\ UNCHANGED <<kernelVars, last, charged, known>>

(* The iteration returns f.  It returns a key again only when it had to start
   over because the key it stood on was gone.  A flow without a listed source
   pod is passed over before deltaStats, so its baseline stays. *)
Visit(f) ==
    /\ walking /\ f \in Live /\ (f \notin seen \/ churned)
    /\ seen' = seen \cup {f}
    /\ IF f \in known
       THEN /\ charged' = [charged EXCEPT ![f] = @ + Uncollected(f)]
            /\ last' = [last EXCEPT ![f] = bytes[table[f]]]
       ELSE UNCHANGED <<charged, last>>
    /\ UNCHANGED <<kernelVars, walking, known, churned>>

(* Every entry was returned; or iter.Err, when entries went on disappearing.
   Either way the caller uses what has been charged so far. *)
EndWalk ==
    /\ walking /\ (Live \subseteq seen \/ churned)
    /\ walking' = FALSE
    /\ UNCHANGED <<kernelVars, seen, last, charged, known, churned>>

(* Pods come and go between two collections. *)
PodsChange(f) ==
    /\ ~walking
    /\ known' = IF f \in known THEN known \ {f} ELSE known \cup {f}
    /\ UNCHANGED <<kernelVars, collectorVars, churned>>

-----------------------------------------------------------------------------
Handle(c) == Create(c) \/ LookupAgain(c) \/ AddBytes(c)

Next ==
    \/ \E c \in Contexts : Lookup(c) \/ Handle(c)
    \/ BeginWalk \/ EndWalk
    \/ \E f \in Flows : Visit(f) \/ PodsChange(f)

Spec == Init /\ [][Next]_vars

(* The snapshot loop collects again and again and an iteration makes progress.
   Packets need not arrive and pods need not change. *)
Fairness ==
    /\ \A c \in Contexts : WF_vars(Handle(c))
    /\ WF_vars(BeginWalk) /\ WF_vars(EndWalk)
    /\ \A f \in Flows : WF_vars(Visit(f))

FairSpec == Spec /\ Fairness

-----------------------------------------------------------------------------
(* Properties *)

(* Every variable has its type, and a context about to add holds a pointer that
   is not NULL, whatever was evicted between its two lookups. *)
TypeOK ==
    /\ table \in [Flows -> Slots \cup {None}] /\ bytes \in [Slots -> Nat]
    /\ pc \in [Contexts -> {"idle", "create", "again", "add"}]
    /\ flow \in [Contexts -> Flows \cup {None}]
    /\ stats \in [Contexts -> Slots \cup {None}]
    /\ \A c \in Contexts : pc[c] # "idle" => flow[c] \in Flows
    /\ \A c \in Contexts : pc[c] = "add" => stats[c] \in Slots
    /\ known \subseteq Flows /\ seen \subseteq Flows
    /\ walking \in BOOLEAN /\ churned \in BOOLEAN
    /\ last \in [Flows -> Nat] /\ packets \in Nat
    /\ sent \in [Flows -> Nat] /\ charged \in [Flows -> Nat]
    /\ disturbed \subseteq Flows

(* Two flows never share an entry. *)
OneSlotEach == \A f, g \in Live : table[f] = table[g] => f = g

(* All flows together are never charged more than was sent, with lost creations,
   evictions, reused slots and repeated visits of an iteration: what has been
   charged and what is waiting in the map are covered by packets. *)
NothingChargedTwice ==
    MapThenSumSet(LAMBDA f : charged[f], Flows) + MapThenSumSet(Uncollected, Live)
        <= MapThenSumSet(LAMBDA f : sent[f], Flows)

(* A flow whose entry was created once and never evicted is counted to the byte,
   although handlers, the collector and pod churn interleave freely: its counter
   is what was sent and its baseline is what was charged. *)
ExactUnlessDisturbed ==
    \A f \in Flows \ disturbed :
        /\ charged[f] = last[f]
        /\ sent[f] = IF f \in Live THEN bytes[table[f]] ELSE 0

(* When traffic has stopped, every byte of a flow with a listed source pod is
   eventually charged, unless the flow was disturbed or its pod leaves. *)
AllCharged ==
    \A f \in Flows :
        Quiet ~> (charged[f] = sent[f] \/ f \in disturbed \/ f \notin known)
=============================================================================
