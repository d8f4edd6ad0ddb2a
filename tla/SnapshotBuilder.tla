---------------------------- MODULE SnapshotBuilder ----------------------------
(***************************************************************************)
(* Builder.Build of internal/snapshot/builder.go with the price lookups    *)
(* and the environment classifier: the snapshot as a function of what the  *)
(* loop read and collected.  Build has no state of its own and runs in one *)
(* goroutine; its loops add to maps, so they are sums here.                *)
(*                                                                         *)
(* On top of the fields of NetworkClassifier a view has the sets           *)
(* view.namespaces and view.services, the set view.slices of endpoint      *)
(* slices [slice, service, addresses], view.usage (milli-CPU by pod, 0     *)
(* without an entry), view.flows and view.network (PodUsage of the         *)
(* collector).                                                             *)
(*                                                                         *)
(* Data.  Of the two resources CPU is modelled; memory is summed in the    *)
(* same places and has no price.  Prices are whole numbers in a unit in    *)
(* which a node's price divides by its allocatable milli-CPU, so shares    *)
(* are exact; the sums of floats in the code are exact up to rounding.     *)
(* Instance types, classes and label values are compared after             *)
(* strings.ToLower: the constants hold the lower-case texts.  Labels,      *)
(* taints and node conditions are copied or derived for display and left   *)
(* out, as is the order of the lists, which are functions here.            *)
(***************************************************************************)
EXTENDS NetworkClassifier, FiniteSets

CONSTANTS
    Pods,             \* pods, by namespace and name
    NamespaceOf,      \* the namespace of each pod
    WorkloadOf,       \* the controller of each pod, or the pod itself
    CpuRequest,       \* sumPodRequests, with init and ephemeral containers
    LabelValues,      \* values of the configured label keys, by namespace
    NoLabel,          \* ... when it has no such label, or an empty one
    ProductionValues, NonProdValues, SystemValues,  \* what label values stand for
    LooksProduction,  \* namespaces whose name holds a production needle
    SystemNamespaces, \* namespaces listed as system
    Allocatable,      \* allocatable milli-CPU of each node
    TypeLabels,       \* values of the three instance type labels of each node
    InstancePrices,   \* pricing.instancePrices
    DefaultNodePrice, \* pricing.defaultNodeHourlyUSD
    EgressPrices,     \* pricing.network.egressGiBPricesUSD
    DefaultEgressPrice

(* NewNodePriceLookup and NewNetworkPriceLookup drop what has no key or a negative
   price; what is not in the table has the default price. *)
PriceOf(prices, default, key) ==
    IF key # "" /\ key \in DOMAIN prices /\ prices[key] >= 0 THEN prices[key] ELSE default

(* detectInstanceType: the first label that is set. *)
InstanceType(n) ==
    LET given == SelectSeq(TypeLabels[n], LAMBDA v : v # "")
    IN IF given = <<>> THEN "" ELSE Head(given)

NodePrice == [n \in DOMAIN TypeLabels |-> PriceOf(InstancePrices, DefaultNodePrice, InstanceType(n))]
EgressPrice == [c \in Classes |-> PriceOf(EgressPrices, DefaultEgressPrice, c)]

ASSUME BuilderAssumption ==
    /\ \A n \in DOMAIN TypeLabels :
          /\ NodePrice[n] \in Nat /\ Allocatable[n] \in Nat
          /\ Allocatable[n] > 0 => NodePrice[n] % Allocatable[n] = 0
    /\ \A c \in Classes : EgressPrice[c] \in Nat

(* NewEnvironmentClassifier: a value listed twice stands for what was entered last. *)
EnvironmentOf(value) ==
    CASE value \in SystemValues -> "system"
      [] value \in NonProdValues \ SystemValues -> "nonprod"
      [] value \in ProductionValues \ (NonProdValues \cup SystemValues) -> "production"
      [] OTHER -> "unknown"

NameEnvironment(n) ==
    CASE n \in LooksProduction -> "production"
      [] n \in SystemNamespaces \ LooksProduction -> "system"
      [] OTHER -> "nonprod"

(* EnvironmentClassifier.Classify: the first label that is set decides, known or
   not, and only without one the name does. *)
Classify(n, labelled) ==
    LET said == SelectSeq(LabelValues[n], LAMBDA v : v # NoLabel)
    IN IF labelled /\ said # <<>> THEN EnvironmentOf(Head(said)) ELSE NameEnvironment(n)

-----------------------------------------------------------------------------
(* Mistakes the properties are tested against. *)

(* Finished pods are not skipped. *)
SkipPod_NotFinished(r) == r.node = NoNode \/ r.phase = "terminating"

-----------------------------------------------------------------------------
SkipPod(r) == r.node = NoNode \/ r.phase \in {"terminating", "finished"}

(* Pods that count in the costs and totals. *)
Kept(view) == {r \in ToSet(view.pods) : ~SkipPod(r)}
KeptIn(view, n) == {r \in Kept(view) : NamespaceOf[r.pod] = n}
KeptOn(view, n) == {r \in Kept(view) : r.node = n}

(* A usage of zero stands for "not measured" and is replaced by the request. *)
CpuUsed(view, r) == IF view.usage[r.pod] = 0 THEN CpuRequest[r.pod] ELSE view.usage[r.pod]

(* The part of its node's price a pod is charged for its request. *)
Share(view, r) ==
    LET n == r.node
    IN IF n \in view.nodes /\ Allocatable[n] > 0
       THEN (Min({CpuRequest[r.pod], Allocatable[n]}) * NodePrice[n]) \div Allocatable[n]
       ELSE 0

EgressCost(byClass) == Total([c \in Classes |-> byClass[c] * EgressPrice[c]])
AllBytes(byClass)   == Total(byClass)

(* The sums over a set of pod records: requests, usage, shares of the node
   prices, sent bytes, egress cost, and the bytes by class. *)
Requested(records)     == Total([r \in records |-> CpuRequest[r.pod]])
Used(view, records)    == Total([r \in records |-> CpuUsed(view, r)])
Charged(view, records) == Total([r \in records |-> Share(view, r)])
Sent(view, records)    == Total([r \in records |-> AllBytes(view.network[r.pod])])
Egress(view, records)  == Total([r \in records |-> EgressCost(view.network[r.pod])])
Traffic(view, records) ==
    [c \in Classes |-> Total([r \in records |-> view.network[r.pod][c]])]

NamespaceSums(view, n, mine) ==
    [environment |-> Classify(n, n \in view.namespaces),
     podCount    |-> Cardinality(mine),
     request     |-> Requested(mine),
     usage       |-> Used(view, mine),
     hourlyCost  |-> Charged(view, mine),
     egressCost  |-> Egress(view, mine),
     byClass     |-> Traffic(view, mine)]

(* Mistake: the loop over the pods charges namespaces before skipPod. *)
NamespaceRecord_Unskipped(view, n) ==
    NamespaceSums(view, n, {r \in ToSet(view.pods) : NamespaceOf[r.pod] = n})

NamespaceRecord(view, n) == NamespaceSums(view, n, KeptIn(view, n))

(* clampPercent of the usage of a node, rounded down; 0 without allocatable CPU. *)
Percent(used, allocatable) ==
    IF allocatable > 0 THEN Min({100, (used * 100) \div allocatable}) ELSE 0

NodeRecord(view, n) ==
    LET used == Used(view, KeptOn(view, n))
    IN [hourlyCost |-> NodePrice[n],
        podCount   |-> Cardinality(KeptOn(view, n)),
        usage      |-> used,
        percent    |-> Percent(used, Allocatable[n])]

(* The network record of a pod, and that of a namespace: listed namespaces have
   one, and those of kept pods with traffic. *)
PodNetwork(view, r) ==
    [node |-> r.node, tx |-> AllBytes(view.network[r.pod]),
     cost |-> EgressCost(view.network[r.pod]), byClass |-> view.network[r.pod]]

NamespaceNetwork(view, n) ==
    [tx |-> Sent(view, KeptIn(view, n)), cost |-> Egress(view, KeptIn(view, n)),
     byClass |-> Traffic(view, KeptIn(view, n))]

(* aggregatePodUsageFromFlows: what the collector counted, or where it has no pod
   at all, what its flows tell.  Build works with a view completed like this. *)
NetworkUsage(view) ==
    IF \A p \in Pods : AllBytes(view.network[p]) = 0
    THEN [view EXCEPT !.network = PodUsage(view, view.flows, Pods)] ELSE view

-----------------------------------------------------------------------------
(* Connections: the flows grouped by source, destination and class.  What
   is not a pod of the view is the external endpoint of the class. *)
PodEnd       == [p \in Pods |-> <<"pod", NamespaceOf[p], p>>]
NamespaceEnd == [p \in Pods |-> <<"namespace", "", NamespaceOf[p]>>]
WorkloadEnd  == [p \in Pods |-> <<"workload", NamespaceOf[p], WorkloadOf[p]>>]
External(class) == <<"external", "", class>>

ConnectionOf(view, end, f) ==
    <<end[OwnerOf(view, f.src).pod],
      IF Owned(view, f.dst) THEN end[OwnerOf(view, f.dst).pod] ELSE External(ClassOf(view, f)),
      ClassOf(view, f)>>

Connections(view, end) ==
    LET flows == Attributable(view, view.flows)
    IN [k \in {ConnectionOf(view, end, f) : f \in flows} |->
          Bytes({f \in flows : ConnectionOf(view, end, f) = k})]

(* servicesForIP with its repetitions: one entry for every slice of a listed
   service that holds the address. *)
ServiceEnd(s) == <<"service", "", s>>
SlicesFor(view, a) == {x \in view.slices : a \in x.addresses /\ x.service \in view.services}
ServiceEnds(view, a) == {ServiceEnd(x.service) : x \in SlicesFor(view, a)}
Times(view, a, end) == Cardinality({x \in SlicesFor(view, a) : ServiceEnd(x.service) = end})

(* Mistake: the branch for a destination without services is not an else. *)
ToServices_AndExternal(view, f) ==
    {External(ClassOf(view, f))} \cup (IF Owned(view, f.dst) THEN ServiceEnds(view, f.dst) ELSE {})

(* Where the bytes of a flow go: the services of its destination, or without any
   the external endpoint of its class. *)
ToServices(view, f) ==
    IF Owned(view, f.dst) /\ ServiceEnds(view, f.dst) # {}
    THEN ServiceEnds(view, f.dst) ELSE {External(ClassOf(view, f))}

ServiceKeys(view, f) == ServiceEnds(view, f.src) \X ToServices(view, f) \X {ClassOf(view, f)}
Weight(view, f, k) ==
    Times(view, f.src, k[1]) * IF k[2][1] = "service" THEN Times(view, f.dst, k[2]) ELSE 1

ServiceConnections(view) ==
    LET flows == Attributable(view, view.flows)
    IN [k \in UNION {ServiceKeys(view, f) : f \in flows} |->
          Total([f \in {x \in flows : k \in ServiceKeys(view, x)} |-> f.tx * Weight(view, f, k)])]

-----------------------------------------------------------------------------
Build(view) ==
    LET kept  == Kept(view)
        named == view.namespaces \cup {NamespaceOf[r.pod] : r \in kept}
        sends == {NamespaceOf[r.pod] : r \in {k \in kept : AllBytes(view.network[k.pod]) > 0}}
    IN [namespaces |-> [n \in named |-> NamespaceRecord(view, n)],
        nodes      |-> [n \in view.nodes |-> NodeRecord(view, n)],
        pods       |-> [p \in {r.pod : r \in kept} |-> PodNetwork(view, CHOOSE r \in kept : r.pod = p)],
        networks   |-> [n \in view.namespaces \cup sends |-> NamespaceNetwork(view, n)],
        request    |-> Requested(kept),
        usage      |-> Used(view, kept),
        nodeCost   |-> Total([n \in view.nodes |-> NodePrice[n]]),
        egressCost |-> Egress(view, kept),
        byClass    |-> Traffic(view, kept),
        podConnections       |-> Connections(view, PodEnd),
        namespaceConnections |-> Connections(view, NamespaceEnd),
        workloadConnections  |-> Connections(view, WorkloadEnd),
        serviceConnections   |-> ServiceConnections(view)]
=============================================================================
