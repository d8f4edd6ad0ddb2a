---------------------------- MODULE CostReporting ----------------------------
(***************************************************************************)
(* The reporting pipeline of README.md:13 from the price table to          *)
(* /metrics: generate-pricing ends and the program is built with the table *)
(* it left, then Collectors, Enricher, Aggregator and Exporters follow one *)
(* another in a loop.                                                      *)
(*                                                                         *)
(* The actors are the generator, the loop, the cluster, which changes      *)
(* between two calls of the API, and a scraper of /metrics, to which every *)
(* state of the gauges is visible.  A List call, Aggregate, the Reset of a *)
(* gauge vector and the setting of one series are one step each.  No       *)
(* caller of these packages is left in the repository: the loop is taken   *)
(* from README.md:19, and a round goes on with whatever usage the metrics  *)
(* collector returned.                                                     *)
(***************************************************************************)
EXTENDS PriceGenerator, CostAggregator

CONSTANTS
    Clusters,        \* what the API server may hold: pods, namespaces, nodes
    Usages,          \* answers of the metrics API: usage by pod
    ConfiguredPrices,\* pricing.aws.nodePrices of the configuration file
    NoData,          \* nothing aggregated or cached yet
    MaxChanges,      \* bound: changes of the cluster
    MaxFailures      \* bound: calls that fail

Measured(amounts) ==
    IsFiniteSet(DOMAIN amounts) /\ \A i \in DOMAIN amounts : \A r \in Resources : amounts[i][r] \in Int

(* A list names a pod once; quantities and prices are numbers; and splitAndTrim
   drops empty instance types. *)
ASSUME ReportingAssumption ==
    /\ \A c \in Clusters :
         /\ IsFiniteSet(DOMAIN c.pods) /\ IsFiniteSet(DOMAIN c.nodes)
         /\ \A i \in DOMAIN c.pods : Measured(c.pods[i].containers)
         /\ \A i, j \in DOMAIN c.pods :
              c.pods[i].namespace = c.pods[j].namespace /\ c.pods[i].name = c.pods[j].name => i = j
    /\ \A u \in Usages : Measured(u)
    /\ \A table \in {OldTable, ConfiguredPrices} : \A key \in DOMAIN table : table[key] \in Int
    /\ \A call \in Invocations :
         /\ DOMAIN JobsFor(call) = 1 .. Len(JobsFor(call))
         /\ \A n \in DOMAIN JobsFor(call) :
              JobsFor(call)[n][2] # "" /\ Offered[JobsFor(call)[n]] \subseteq Int

VARIABLES
    prices,    \* the prices of AWSPricing
    cluster,   \* the objects in the API server
    usage,     \* the usage the metrics API would answer
    at,        \* where the loop is; "unbuilt" while there is no program
    snapshot,  \* the ClusterSnapshot being collected
    used,      \* usage returned by CollectPodMetrics
    last,      \* MetricsCollector.last
    data,      \* CostAggregator.data
    gauge,     \* the series of every gauge vector, with their values
    pending,   \* vectors Update has still to reset, then series it has still to set
    changes, failures

loopVars == <<at, snapshot, used, last, data, gauge, pending>>
worldVars == <<cluster, usage, changes, failures>>
reportingVars == <<prices, loopVars, worldVars>>
vars == <<generatorVars, reportingVars>>

Vectors == {"cluster", "pod", "namespace", "allocated", "raw"}
NoSnapshot == [pods |-> << >>, namespaces |-> << >>, nodes |-> << >>]
Idling == [reset |-> << >>, set |-> {}]

(* The order in which Update resets the vectors, and the vectors whose series are
   all set before those of a vector. *)
ResetOrder == <<"pod", "namespace", "allocated", "raw", "cluster">>
Before == [cluster |-> {}, pod |-> {"cluster"}, namespace |-> {"cluster", "pod"},
           allocated |-> {"cluster", "pod", "namespace"}, raw |-> {"cluster", "pod", "namespace"}]

(* The series of a dataset: what identifies it, and its value.  The vectors of
   pods and namespaces have no label for cost_center. *)
Exported(labels) == [k \in TrackedKeys \ {"cost_center"} |-> labels[k]]

Series(d) ==
    [cluster |-> {<< << >>, d.cluster.cost>>},
     pod |-> {<< <<p.namespace, p.name, p.node, p.owner, Exported(p.labels)>>, p.cost>> :
              p \in d.pods},
     namespace |-> {<< <<ns.name, Exported(ns.labels)>>, ns.cost>> : ns \in d.namespaces},
     allocated |-> {<< <<n.name>>, n.allocated>> : n \in d.nodes},
     raw |-> {<< <<n.name, n.type>>, n.raw>> : n \in d.nodes}]

(* NewPrometheusExporter: the cluster series is there, and 0. *)
NewGauges == [v \in Vectors |-> IF v = "cluster" THEN {<< << >>, 0>>} ELSE {}]

Init ==
    /\ InitGenerator
    /\ prices = << >>
    /\ cluster = NoData /\ usage = NoData
    /\ at = "unbuilt" /\ snapshot = NoSnapshot /\ used = << >> /\ last = NoData
    /\ data = NoData /\ gauge = NewGauges /\ pending = Idling
    /\ changes = 0 /\ failures = 0

RunGenerator == at = "unbuilt" /\ Generate /\ UNCHANGED reportingVars

(* mergeConfigs: the prices of the configuration file win, one by one. *)
MergeNodePrices(base, override) ==
    [key \in DOMAIN override \cup DOMAIN base |->
        IF key \in DOMAIN override THEN override[key] ELSE base[key]]

(* The program is built with the table and started in some cluster.  A truncated
   table does not compile.  Of the generator only what the reader of its log knows
   is kept. *)
Build ==
    /\ at = "unbuilt" /\ (main # "running" \/ Stuck) /\ file # Garbled
    /\ at' = "idle"
    /\ prices' = MergeNodePrices(file, ConfiguredPrices)
    /\ cluster' \in Clusters /\ usage' \in Usages
    /\ warned' = IF main = "written" THEN warned ELSE {}
    /\ tasks' = << >> /\ sent' = 0 /\ worker' = << >> /\ jobWG' = 0 /\ closed' = FALSE
    /\ result' = << >>
    /\ UNCHANGED <<jobs, level, file, main, snapshot, used, last, data, gauge, pending,
                   changes, failures>>

(* What the collector keeps of a pod: its owner is the controller among its owner
   references, "" when there is none. *)
ControllerOf(references) ==
    LET controllers == {r \in references : r.controller}
    IN  IF controllers = {} THEN "" ELSE (CHOOSE r \in controllers : TRUE).name

PodOf(object) ==
    [namespace |-> object.namespace, name |-> object.name, node |-> object.node,
     owner |-> ControllerOf(object.references), labels |-> object.labels,
     containers |-> object.containers]

Pods == [i \in DOMAIN cluster.pods |-> PodOf(cluster.pods[i])]

(* ClusterCollector.Collect: pods, then namespaces, then nodes. *)
ListPods ==
    /\ at = "idle"
    /\ at' = "namespaces"
    /\ snapshot' = [NoSnapshot EXCEPT !.pods = Pods]
    /\ UNCHANGED <<used, last, data, gauge, pending, worldVars>>

ListNamespaces ==
    /\ at = "namespaces"
    /\ at' = "nodes"
    /\ snapshot' = [snapshot EXCEPT !.namespaces = cluster.namespaces]
    /\ UNCHANGED <<used, last, data, gauge, pending, worldVars>>

(* aggregateNodeRequests, over the pods that are scheduled. *)
NodeRequests(pods, n) ==
    [r \in Resources |-> MapThenSumSet(LAMBDA i : PodRequestTotals(pods[i].containers)[r],
                                       {i \in DOMAIN pods : pods[i].node = n})]

(* The label of the current name of the key wins, even when it is empty. *)
ResolveInstanceType(labels) ==
    IF "stable" \in DOMAIN labels THEN labels["stable"]
    ELSE IF "beta" \in DOMAIN labels THEN labels["beta"] ELSE ""

ListNodes ==
    /\ at = "nodes"
    /\ at' = "metrics"
    /\ snapshot' = [snapshot EXCEPT !.nodes =
            [n \in DOMAIN cluster.nodes |->
                [type |-> ResolveInstanceType(cluster.nodes[n]), requested |-> NodeRequests(snapshot.pods, n)]]]
    /\ UNCHANGED <<used, last, data, gauge, pending, worldVars>>

(* A List that fails ends the round with an error. *)
ListFails ==
    /\ at \in {"idle", "namespaces", "nodes"} /\ failures < MaxFailures
    /\ failures' = failures + 1
    /\ at' = "idle" /\ snapshot' = NoSnapshot
    /\ UNCHANGED <<used, last, data, gauge, pending, cluster, usage, changes>>

(* Mutant: the API is asked once. *)
CollectPodMetrics_CacheFirst ==
    /\ at = "metrics"
    /\ at' = "aggregate"
    /\ used' = (IF last = NoData THEN usage ELSE last) /\ last' = used'
    /\ UNCHANGED <<snapshot, data, gauge, pending, worldVars>>

(* CollectPodMetrics: when the call fails the answer before is returned.  A client
   without metrics is not made: NewClient fails instead. *)
CollectPodMetrics ==
    /\ at = "metrics"
    /\ at' = "aggregate"
    /\ \/ used' = usage /\ last' = usage /\ UNCHANGED failures
       \/ /\ failures < MaxFailures /\ failures' = failures + 1
          /\ used' = (IF last = NoData THEN << >> ELSE last)
          /\ UNCHANGED last
    /\ UNCHANGED <<snapshot, data, gauge, pending, cluster, usage, changes>>

AggregateCosts ==
    /\ at = "aggregate"
    /\ at' = "update"
    /\ data' = Aggregate(snapshot, used, prices)
    /\ pending' = [reset |-> ResetOrder,
                   set |-> UNION {{v} \X Series(data')[v] : v \in Vectors}]
    /\ snapshot' = NoSnapshot /\ used' = << >>
    /\ UNCHANGED <<last, gauge, worldVars>>

(* Mutant: the series of node prices are never dropped. *)
ResetVector_KeepsRaw ==
    /\ at = "update" /\ pending.reset # << >>
    /\ gauge' = [gauge EXCEPT ![Head(pending.reset)] = IF Head(pending.reset) = "raw" THEN @ ELSE {}]
    /\ pending' = [pending EXCEPT !.reset = Tail(@)]
    /\ UNCHANGED <<at, snapshot, used, last, data, worldVars>>

(* Update: five resets, one after the other. *)
ResetVector ==
    /\ at = "update" /\ pending.reset # << >>
    /\ gauge' = [gauge EXCEPT ![Head(pending.reset)] = {}]
    /\ pending' = [pending EXCEPT !.reset = Tail(@)]
    /\ UNCHANGED <<at, snapshot, used, last, data, worldVars>>

(* WithLabelValues(...).Set(...): the next series, in the order of the lists. *)
SetSeries ==
    LET next == CHOOSE s \in pending.set : \A t \in pending.set : t[1] \notin Before[s[1]]
    IN  /\ at = "update" /\ pending.reset = << >> /\ pending.set # {}
        /\ gauge' = [gauge EXCEPT ![next[1]] =
                        {old \in @ : old[1] # next[2][1]} \cup {next[2]}]
        /\ pending' = [pending EXCEPT !.set = @ \ {next}]
        /\ UNCHANGED <<at, snapshot, used, last, data, worldVars>>

EndUpdate ==
    /\ at = "update" /\ pending = Idling
    /\ at' = "idle"
    /\ UNCHANGED <<snapshot, used, last, data, gauge, pending, worldVars>>

Collect == ListPods \/ ListNamespaces \/ ListNodes \/ CollectPodMetrics
Export == AggregateCosts \/ ResetVector \/ SetSeries \/ EndUpdate
Round == (Collect \/ Export \/ ListFails) /\ UNCHANGED <<generatorVars, prices>>

(* Pods, nodes, labels and usage change at any time. *)
ClusterChanges ==
    /\ at # "unbuilt" /\ changes < MaxChanges
    /\ changes' = changes + 1
    /\ \/ cluster' \in Clusters \ {cluster} /\ UNCHANGED usage
       \/ usage' \in Usages \ {usage} /\ UNCHANGED cluster
    /\ UNCHANGED <<generatorVars, prices, loopVars, failures>>

Work == RunGenerator \/ Build \/ Round

Next == Work \/ ClusterChanges

Spec == Init /\ [][Next]_vars

(* The generator runs, the program is built and the loop goes round, one after the
   other; each is run to its end, and every call of it returns. *)
FairSpec == Spec /\ WF_vars(Work)

-----------------------------------------------------------------------------
(* The answers of the JSON API come from the dataset stored last. *)
Answer(endpoint) ==
    CASE endpoint = "health" -> data.cluster
      [] endpoint = "summary" -> [cluster |-> data.cluster, labels |-> data.labels]
      [] endpoint = "namespaces" -> data.namespaces
      [] endpoint = "pods" -> data.pods
      [] endpoint = "nodes" -> data.nodes
      [] endpoint = "workloads" -> WorkloadsFromPods(data.pods)

(* However the cluster changed between the three lists, the views of a dataset
   agree (cost_aggregator.go:140): a pod of a node, or of a namespace, that was
   listed in another state is in every total. *)
GroupingsAgree == [][data' # data => ViewsAddUp(data')]_data

(* A scraper sees no series of a pod, namespace or node that is gone, nor a value
   of an earlier round, in a vector that Update has reset; between two updates
   /metrics and the JSON API tell the same (prometheus_exporter.go:72). *)
SeriesAreCurrent ==
    data # NoData =>
        /\ \A v \in Vectors \ {pending.reset[i] : i \in DOMAIN pending.reset} : gauge[v] \subseteq Series(data)[v]
        /\ at # "update" =>
             gauge = Series([cluster |-> Answer("health"), pods |-> Answer("pods"),
                             namespaces |-> Answer("namespaces"), nodes |-> Answer("nodes")])

(* A node whose instance type the generator was asked for, and did not warn about,
   is reported at a price the API offered for its own region, unless the
   configuration file says otherwise. *)
RawPriceIsFetched ==
    data # NoData /\ main = "written" =>
        \A n \in data.nodes :
            LET key == <<Region, n.type>>
            IN  \/ key \in DOMAIN ConfiguredPrices \cup warned
                \/ \A j \in DOMAIN jobs : jobs[j] # key
                \/ \E p \in Offered[key] : n.raw = Rounded(p)

(* The dataset is of the cluster and the usage as they are now. *)
Current ==
    /\ data # NoData
    /\ data.pods = PodCosts(Pods, cluster.namespaces, usage)
    /\ {<<n.name, n.type>> : n \in {m \in data.nodes : m.name \in DOMAIN cluster.nodes}}
         = {<<n, ResolveInstanceType(cluster.nodes[n])>> : n \in DOMAIN cluster.nodes}

(* The generator ends, written, failed or stuck, and unless it leaves a truncated
   file the dataset is that of the cluster as it is in the end: an answer the
   metrics collector kept, or a half changed listing, does not stay. *)
ReportsInTheEnd ==
    <>[](\/ file = Garbled
         \/ at # "unbuilt" /\ (at = "idle" => Current))
=============================================================================
