---------------------------- MODULE CostAggregator ----------------------------
(***************************************************************************)
(* The cost aggregator of internal/aggregator with the label enricher and  *)
(* the price list it works with: from one listing of the cluster and the   *)
(* usage of its pods to the cost of every pod, namespace, node, label,     *)
(* instance type and workload.                                             *)
(*                                                                         *)
(* Data.  Amounts and prices are whole numbers in units that make a cost   *)
(* exact; the code's float64 rounding and its changes of unit (cores, GiB) *)
(* are left out.  A label value is a number and 0 is the empty string, so  *)
(* that < is the order of strings.  The lists of costs are sets of records *)
(* told apart by their names; a pod keeps its place in the listing.        *)
(***************************************************************************)
EXTENDS Integers, Sequences, FiniteSets, FiniteSetsExt

CONSTANTS
    TrackedKeys,   \* trackedKeys
    FilterKeys,    \* the keys of costByLabel: team and env
    CPUPrice,      \* CPUCoreHourPrice
    MemoryPrice,   \* MemoryGiBHourPrice
    Region         \* the region of AWSPricing and of the aggregator

ASSUME AggregatorAssumption ==
    FilterKeys \subseteq TrackedKeys /\ CPUPrice \in Nat /\ MemoryPrice \in Nat

Resources == {"cpu", "memory"}

PodRequestTotals(containers) ==
    [r \in Resources |-> MapThenSumSet(LAMBDA i : containers[i][r], DOMAIN containers)]

CostFor(amount) == amount["cpu"] * CPUPrice + amount["memory"] * MemoryPrice

LabelOf(labels, key) == IF key \in DOMAIN labels THEN labels[key] ELSE 0

(* Merge: the pod's own label wins unless it is empty; other keys are dropped. *)
MergeLabels(namespaceLabels, podLabels) ==
    [k \in TrackedKeys |->
        IF LabelOf(podLabels, k) # 0 THEN LabelOf(podLabels, k) ELSE LabelOf(namespaceLabels, k)]

(* NewAWSPricing and NodeHourlyPrice: the prices of one region. *)
HasPrice(prices, type) == type # "" /\ <<Region, type>> \in DOMAIN prices

(* Mutant: one price per instance type, that of the region read last. *)
NodeHourlyPrice_AnyRegion(prices, type) ==
    LET other == {k \in DOMAIN prices : k[2] = type /\ k[1] # Region}
    IN  IF other # {} THEN prices[CHOOSE k \in other : TRUE]
        ELSE IF HasPrice(prices, type) THEN prices[<<Region, type>>] ELSE 0

NodeHourlyPrice(prices, type) == IF HasPrice(prices, type) THEN prices[<<Region, type>>] ELSE 0

(* What a pod uses: the metrics, or what it asked for where they say 0. *)
UsageOf(pod, usage) ==
    LET key == <<pod.namespace, pod.name>>
        request == PodRequestTotals(pod.containers)
    IN  [r \in Resources |->
            IF key \notin DOMAIN usage \/ usage[key][r] = 0 THEN request[r] ELSE usage[key][r]]

PodCost(pod, i, namespaces, usage) ==
    [place |-> i, namespace |-> pod.namespace, name |-> pod.name, node |-> pod.node,
     owner |-> pod.owner, cost |-> CostFor(UsageOf(pod, usage)),
     request |-> PodRequestTotals(pod.containers), usage |-> UsageOf(pod, usage),
     labels |-> MergeLabels(
        IF pod.namespace \in DOMAIN namespaces THEN namespaces[pod.namespace] ELSE << >>,
        pod.labels)]

PodCosts(pods, namespaces, usage) ==
    {PodCost(pods[i], i, namespaces, usage) : i \in DOMAIN pods}

(* Sums over a set of pod costs. *)
CostOf(pods) == MapThenSumSet(LAMBDA p : p.cost, pods)
Requested(pods) == [r \in Resources |-> MapThenSumSet(LAMBDA p : p.request[r], pods)]
Used(pods) == [r \in Resources |-> MapThenSumSet(LAMBDA p : p.usage[r], pods)]

(* ensureNamespace: a namespace has the labels of its first pod. *)
NamespaceCost(ns, pods) ==
    [name |-> ns, cost |-> CostOf(pods), podCount |-> Cardinality(pods),
     request |-> Requested(pods), usage |-> Used(pods),
     labels |-> (CHOOSE p \in pods : \A q \in pods : p.place <= q.place).labels]

NamespaceCosts(pods) ==
    {NamespaceCost(ns, {p \in pods : p.namespace = ns}) : ns \in {p.namespace : p \in pods}}

(* prepareNode for a listed node. *)
ListedNode(n, node, prices, pods) ==
    [name |-> n, type |-> node.type, raw |-> NodeHourlyPrice(prices, node.type),
     requested |-> node.requested, allocated |-> CostOf(pods), used |-> Used(pods)]

(* ensureNode makes up a node that is not listed, the one without a name for pods
   that are not scheduled included. *)
MissingNode(n, pods) ==
    [name |-> n, type |-> "", raw |-> 0, requested |-> [r \in Resources |-> 0],
     allocated |-> CostOf(pods), used |-> Used(pods)]

(* Mutant: only listed nodes are charged. *)
NodeCosts_ListedOnly(pods, listed, prices) ==
    {ListedNode(n, listed[n], prices, {p \in pods : p.node = n}) : n \in DOMAIN listed}

NodeCosts(pods, listed, prices) ==
    LET On(n) == {p \in pods : p.node = n}
    IN  {ListedNode(n, listed[n], prices, On(n)) : n \in DOMAIN listed} \cup
        {MissingNode(n, On(n)) : n \in {p.node : p \in pods} \ DOMAIN listed}

(* The cost by label key and value, pods without the label left out. *)
LabelCosts(pods) ==
    {[key |-> l[1], value |-> l[2], cost |-> CostOf({p \in pods : p.labels[l[1]] = l[2]})] :
        l \in {<<k, p.labels[k]>> : k \in TrackedKeys, p \in pods} \
                        (TrackedKeys \X {0})}

FilterCostByLabel(costs) == {c \in costs : c.key \in FilterKeys}

InstanceTypeCost(t, nodes) ==
    [type |-> t, nodeCount |-> Cardinality(nodes),
     raw |-> MapThenSumSet(LAMBDA n : n.raw, nodes),
     allocated |-> MapThenSumSet(LAMBDA n : n.allocated, nodes)]

InstanceTypeTotals(nodes) ==
    {InstanceTypeCost(t, {n \in nodes : n.type = t}) : t \in {n.type : n \in nodes} \ {""}}

(* One dataset.  A snapshot has the pods as a list, the labels of the namespaces
   and the listed nodes. *)
Aggregate(snapshot, usage, prices) ==
    LET pods == PodCosts(snapshot.pods, snapshot.namespaces, usage)
        nodes == NodeCosts(pods, snapshot.nodes, prices)
        labels == LabelCosts(pods)
    IN  [pods |-> pods, namespaces |-> NamespaceCosts(pods), nodes |-> nodes, labels |-> labels,
         cluster |-> [cost |-> CostOf(pods), request |-> Requested(pods),
                      podCount |-> Cardinality(pods),
                      nodeCount |-> Cardinality(DOMAIN snapshot.nodes),
                      byType |-> InstanceTypeTotals(nodes), byLabel |-> FilterCostByLabel(labels)]]

(* The value most pods have, the least of them when several do. *)
MostCommonValue(pods, key) ==
    LET values == {p.labels[key] : p \in pods} \ {0}
        Count(v) == Cardinality({p \in pods : p.labels[key] = v})
    IN  IF values = {} THEN 0
        ELSE Min({v \in values : \A u \in values : Count(u) <= Count(v)})

(* A workload is the pods of one controller in one namespace; owner "" is none. *)
WorkloadCost(id, pods) ==
    [id |-> id, cost |-> CostOf(pods), replicas |-> Cardinality(pods),
     request |-> Requested(pods), usage |-> Used(pods),
     nodes |-> {p.node : p \in pods} \ {""},
     common |-> [key \in FilterKeys |-> MostCommonValue(pods, key)]]

WorkloadsFromPods(pods) ==
    LET owned == {p \in pods : p.owner # ""}
        Id(p) == <<p.namespace, p.owner>>
    IN  {WorkloadCost(id, {p \in owned : Id(p) = id}) : id \in {Id(p) : p \in owned}}

-----------------------------------------------------------------------------
(* The views of one dataset tell one story: pods, namespaces and nodes, those
   made up for pods of unlisted nodes included, add up to the cluster; so do
   workloads and pods without a controller, instance types and nodes without a
   type, and the values of each label key and the pods that do not have it; and
   the raw cost of the instance types is that of all nodes. *)
ViewsAddUp(d) ==
    LET total == d.cluster.cost
        Allocated(rows) == MapThenSumSet(LAMBDA r : r.allocated, rows)
        Raw(rows) == MapThenSumSet(LAMBDA r : r.raw, rows)
    IN  /\ total = CostOf(d.namespaces)
        /\ total = Allocated(d.nodes)
        /\ total = CostOf(WorkloadsFromPods(d.pods)) + CostOf({p \in d.pods : p.owner = ""})
        /\ total = Allocated(d.cluster.byType) + Allocated({n \in d.nodes : n.type = ""})
        /\ Raw(d.cluster.byType) = Raw(d.nodes)
        /\ \A k \in TrackedKeys :
             total = CostOf({c \in d.labels : c.key = k})
                     + CostOf({p \in d.pods : p.labels[k] = 0})
=============================================================================
