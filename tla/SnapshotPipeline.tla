---------------------------- MODULE SnapshotPipeline ----------------------------
(***************************************************************************)
(* The snapshot loop of cmd/agent/main.go: runSnapshotLoop calls buildOnce *)
(* again and again, which reads five informer caches one after the other,  *)
(* keeps what belongs to this node, runs the two collectors, builds a      *)
(* snapshot, publishes it in the Store and hands a report to the queue.    *)
(*                                                                         *)
(* The cluster changes at any time, and every informer brings its cache up *)
(* to date on its own, so the five lists of one snapshot may belong to     *)
(* five moments.  An informer that brings several changes at once is seen  *)
(* by the loop like one that brings them one by one between two reads.     *)
(*                                                                         *)
(* The collectors are inputs here (their own modules are FlowCounters and  *)
(* PodMetrics): a usage of UsageBatches and the flows of FlowBatches, or   *)
(* nothing, as when a collector fails; an iteration that ends early        *)
(* returns another batch.  The Store is one variable: Update and Latest    *)
(* hold its lock, and a handler of the HTTP API reads it once.  What       *)
(* happens to a report after Enqueue is ForwarderQueue, as is the end of   *)
(* the process.                                                            *)
(***************************************************************************)
EXTENDS SnapshotBuilder

CONSTANTS
    Nodes, Namespaces, Services,
    Slices,        \* endpoint slices, by name
    ServiceOf,     \* the service each slice belongs to
    AddressPool,   \* the pod addresses of each node
    HomeNode,      \* where the scheduler puts each pod
    NodeName,      \* the node this agent runs on, or NoNode
    FlowBatches,   \* sets of flows a collection may return
    UsageBatches,  \* milli-CPU by pod a collection may return, 0 for no entry
    Beginnings,    \* what the agent may find: [cluster, caches], as the first
                   \* lists of the informers are as old as each of them likes
    MaxChanges,    \* bound: changes of the cluster
    Settled        \* bound: pods and nodes that do not change

(* Every node has prices and addresses, every pod a namespace, a request and a
   node it will run on.  A flow of the kernel has two addresses, and there are none in
   the cluster-wide view: main exits when a collector is enabled and no node
   name is known. *)
ASSUME PipelineAssumption ==
    /\ MaxChanges \in Nat
    /\ IsFiniteSet(Pods) /\ IsFiniteSet(Nodes) /\ IsFiniteSet(Namespaces)
    /\ NodeName \in Nodes \cup {NoNode} /\ NoNode \notin Nodes
    /\ Nodes \subseteq DOMAIN TypeLabels
    /\ \A n \in Nodes : NoAddress \notin AddressPool[n]
    /\ NamespaceOf \in [Pods -> Namespaces]
    /\ CpuRequest \in [Pods -> Nat]
    /\ HomeNode \in [Pods -> Nodes]
    /\ UsageBatches \subseteq [Pods -> Nat]
    /\ \A flows \in FlowBatches :
          IsFiniteSet(flows) /\ \A f \in flows : f.tx \in Nat /\ f.dst # NoAddress
    /\ NodeName = NoNode => FlowBatches = {}

VARIABLES
    cluster,   \* the objects the API server holds
    caches,    \* the store of each informer
    changes,   \* changes of the cluster so far
    pc,        \* where buildOnce is
    view,      \* its local variables
    store,     \* Store.snapshot, or NotReady
    basis,     \* history: what store was built from
    report     \* the snapshot in the last report handed to the queue

vars == <<cluster, caches, changes, pc, view, store, basis, report>>

(* Store without a snapshot. *)
NotReady == [ready |-> FALSE]

Phases == {"absent", "pending", "running", "terminating", "finished"}
Kinds  == {"nodes", "namespaces", "pods", "services", "slices"}

NewPod == [phase |-> "pending", node |-> NoNode, ip |-> NoAddress]
NoPod  == [NewPod EXCEPT !.phase = "absent"]
NoView == [nodes |-> {}, namespaces |-> {}, pods |-> <<>>, services |-> {}, slices |-> {},
           usage |-> [p \in Pods |-> 0], flows |-> {},
           network |-> [p \in Pods |-> [c \in Classes |-> 0]]]

Addresses == UNION {AddressPool[n] : n \in Nodes}
PodState == [phase : Phases, node : Nodes \cup {NoNode}, ip : Addresses \cup {NoAddress}]
Objects  == [nodes : SUBSET Nodes, namespaces : SUBSET Namespaces, pods : [Pods -> PodState],
             services : SUBSET Services, slices : [Slices -> SUBSET Addresses]]

ASSUME BeginningsAssumption == \A b \in Beginnings : b.cluster \in Objects /\ b.caches \in Objects

Init ==
    /\ \E b \in Beginnings : cluster = b.cluster /\ caches = b.caches
    /\ changes = 0
    /\ pc = "nodes" /\ view = NoView
    /\ store = NotReady /\ basis = NoView /\ report = NotReady

-----------------------------------------------------------------------------
(* What the loop keeps of a list of objects: filterNodes and filterPods. *)
InScope(n) == NodeName = NoNode \/ n = NodeName
NodesHere(objects) == {n \in objects.nodes : InScope(n)}
Listed(p, state) == [pod |-> p, phase |-> state.phase, node |-> state.node, ip |-> state.ip]
PodsHere(objects) ==
    {Listed(p, objects.pods[p]) :
        p \in {x \in Pods : objects.pods[x].phase # "absent" /\ InScope(objects.pods[x].node)}}

Read(here, next, newView) ==
    /\ pc = here /\ pc' = next /\ view' = newView
    /\ UNCHANGED <<cluster, caches, changes, store, basis, report>>

-----------------------------------------------------------------------------
(* Mistakes the properties are tested against. *)

(* The network collector is given the pods and nodes of the whole cluster. *)
CollectNetwork_AllPods ==
    \E flows \in FlowBatches \cup {{}} :
        LET everything == [view EXCEPT !.nodes = caches.nodes,
                !.pods = SetToSeq({Listed(p, caches.pods[p]) : p \in Pods})]
        IN Read("network", "publish",
                [view EXCEPT !.flows = Attributable(everything, flows),
                             !.network = PodUsage(everything, flows, Pods)])

(* A build that reads no pod is not published. *)
Publish_NotEmpty ==
    /\ pc = "publish" /\ pc' = "enqueue"
    /\ IF view.pods = <<>> THEN UNCHANGED <<store, basis>>
       ELSE store' = Build(view) /\ basis' = view
    /\ UNCHANGED <<cluster, caches, changes, view, report>>

(* The report is taken from the store before the new snapshot is in. *)
Publish_ReportFirst ==
    /\ pc = "publish" /\ pc' = "wait"
    /\ report' = store
    /\ store' = Build(view) /\ basis' = view /\ view' = NoView
    /\ UNCHANGED <<cluster, caches, changes>>

-----------------------------------------------------------------------------
(* The cluster. *)

Change(kind, value) ==
    /\ changes < MaxChanges /\ changes' = changes + 1
    /\ cluster' = [cluster EXCEPT ![kind] = value]
    /\ UNCHANGED <<caches, pc, view, store, basis, report>>

ChangePod(p, state) == Change("pods", [cluster.pods EXCEPT ![p] = state])

Active(p) == cluster.pods[p].phase \in {"running", "terminating"}

CreatePod(p) ==
    /\ cluster.pods[p].phase = "absent" /\ NamespaceOf[p] \in cluster.namespaces
    /\ ChangePod(p, NewPod)

(* The scheduler binds the pod and its node gives it an address that no pod
   with running containers has; a finished pod keeps its address in its
   status. *)
StartPod(p) ==
    /\ cluster.pods[p].phase = "pending" /\ HomeNode[p] \in cluster.nodes
    /\ \E a \in AddressPool[HomeNode[p]] \ {cluster.pods[o].ip : o \in {o \in Pods : Active(o)}} :
         ChangePod(p, [phase |-> "running", node |-> HomeNode[p], ip |-> a])

FinishPod(p) ==
    /\ cluster.pods[p].phase = "running"
    /\ ChangePod(p, [cluster.pods[p] EXCEPT !.phase = "finished"])

DeletePod(p) ==
    /\ cluster.pods[p].phase = "running"
    /\ ChangePod(p, [cluster.pods[p] EXCEPT !.phase = "terminating"])

RemovePod(p) ==
    /\ cluster.pods[p].phase \in {"terminating", "finished"}
    /\ ChangePod(p, NoPod)

CreateNamespace(n) ==
    /\ n \notin cluster.namespaces
    /\ Change("namespaces", cluster.namespaces \cup {n})

DeleteNamespace(n) ==
    /\ n \in cluster.namespaces
    /\ \A p \in Pods : NamespaceOf[p] = n => cluster.pods[p].phase = "absent"
    /\ Change("namespaces", cluster.namespaces \ {n})

(* A node leaves the list and may be registered again. *)
ToggleNode(n) ==
    Change("nodes", IF n \in cluster.nodes THEN cluster.nodes \ {n} ELSE cluster.nodes \cup {n})

CreateService(s) == s \notin cluster.services /\ Change("services", cluster.services \cup {s})

(* The endpoint controller rewrites a slice of a service. *)
UpdateSlice(s) ==
    /\ ServiceOf[s] \in cluster.services
    /\ \E p \in Pods :
         /\ Active(p) /\ cluster.pods[p].ip # NoAddress
         /\ cluster.slices[s] # {cluster.pods[p].ip}
         /\ Change("slices", [cluster.slices EXCEPT ![s] = {cluster.pods[p].ip}])

(* One informer catches up. *)
Deliver(kind) ==
    /\ caches[kind] # cluster[kind]
    /\ caches' = [caches EXCEPT ![kind] = cluster[kind]]
    /\ UNCHANGED <<cluster, changes, pc, view, store, basis, report>>

-----------------------------------------------------------------------------
(* buildOnce. *)

ListNodes ==
    Read("nodes", "namespaces",
         [view EXCEPT !.nodes = NodesHere(caches)])

ListNamespaces ==
    Read("namespaces", "pods", [view EXCEPT !.namespaces = caches.namespaces])

(* The pods of this node (filterPods), in any order. *)
ListPods ==
    \E order \in SetToSeqs(PodsHere(caches)) :
        Read("pods", "services", [view EXCEPT !.pods = order])

ListServices ==
    Read("services", "slices", [view EXCEPT !.services = caches.services])

ListSlices ==
    Read("slices", "metrics",
         [view EXCEPT !.slices = {[slice |-> s, service |-> ServiceOf[s],
                                   addresses |-> caches.slices[s]] : s \in Slices}])

(* A failing collector is logged, and the snapshot is built without it. *)
CollectMetrics ==
    \E measured \in UsageBatches \cup {[p \in Pods |-> 0]} :
        LET listed == {r.pod : r \in ToSet(view.pods)}
        IN Read("metrics", "network",
                [view EXCEPT !.usage = [p \in Pods |-> IF p \in listed THEN measured[p] ELSE 0]])

CollectNetwork ==
    \E flows \in FlowBatches \cup {{}} :
        Read("network", "publish",
             [view EXCEPT !.flows = Attributable(view, flows),
                          !.network = PodUsage(view, flows, Pods)])

Publish ==
    /\ pc = "publish" /\ pc' = "enqueue"
    /\ \E v \in {NetworkUsage(view)} : store' = Build(v) /\ basis' = v
    /\ UNCHANGED <<cluster, caches, changes, view, report>>

(* The report carries what the store holds now. *)
Enqueue ==
    /\ pc = "enqueue" /\ pc' = "wait"
    /\ report' = store /\ view' = NoView
    /\ UNCHANGED <<cluster, caches, changes, store, basis>>

Tick == Read("wait", "nodes", view)

Loop == \/ ListNodes \/ ListNamespaces \/ ListPods \/ ListServices \/ ListSlices
        \/ CollectMetrics \/ CollectNetwork \/ Publish \/ Enqueue \/ Tick

Informers == \E k \in Kinds : Deliver(k)

Next ==
    \/ Loop
    \/ Informers
    \/ \E p \in Pods \ Settled : CreatePod(p) \/ StartPod(p) \/ FinishPod(p) \/ DeletePod(p) \/ RemovePod(p)
    \/ \E n \in Namespaces : CreateNamespace(n) \/ DeleteNamespace(n)
    \/ \E n \in Nodes \ Settled : ToggleNode(n)
    \/ \E s \in Services : CreateService(s)
    \/ \E s \in Slices : UpdateSlice(s)

Spec == Init /\ [][Next]_vars

(* The loop has no exit while the process runs, and the watches of the
   informers stay alive; fairness to all of them together is enough, as the
   cluster changes MaxChanges times. *)
FairSpec == Spec /\ WF_vars(Loop) /\ WF_vars(Informers)

-----------------------------------------------------------------------------
(* The HTTP API.  What a handler answers is a function of what Latest returns;
   overview and health answer in any case. *)

Unavailable == [status |-> 503, body |-> "snapshot not ready"]

Body(endpoint) ==
    CASE endpoint \in {"overview", "health"} -> "ok"
      [] endpoint = "readyz"     -> "ready"
      [] endpoint = "namespaces" -> store.namespaces
      [] endpoint = "nodes"      -> store.nodes
      [] endpoint = "resources"  -> [request |-> store.request, usage |-> store.usage,
                                     nodeCost |-> store.nodeCost, egressCost |-> store.egressCost]
      [] endpoint = "network"    -> [pods |-> store.pods, namespaces |-> store.networks]

Answer(endpoint) ==
    IF store # NotReady THEN [status |-> 200, body |-> Body(endpoint)]
    ELSE IF endpoint \in {"overview", "health"} THEN [status |-> 200, body |-> "initializing"]
    ELSE Unavailable

-----------------------------------------------------------------------------
(* Every variable of the loop keeps its type, and a report carries a snapshot,
   never the empty one LatestSnapshot returns before the first Update. *)
TypeOK ==
    /\ cluster \in Objects /\ caches \in Objects
    /\ changes \in 0 .. MaxChanges
    /\ pc \in {"nodes", "namespaces", "pods", "services", "slices", "metrics", "network",
               "publish", "enqueue", "wait"}
    /\ view.nodes \subseteq Nodes /\ view.namespaces \subseteq Namespaces
    /\ view.services \subseteq Services
    /\ \A r \in ToSet(view.pods) : r.pod \in Pods /\ r.phase \in Phases \ {"absent"}
    /\ pc = "wait" => report # NotReady

(* Publish is the only step that writes the store: what follows is about the
   snapshot it has just put there. *)
Fresh == pc = "enqueue"

SumOver(connections, keys) == Total([k \in keys |-> connections[k]])
From(connections, ns, c) ==
    {k \in DOMAIN connections : k[3] = c /\ (IF k[1][1] = "namespace" THEN k[1][3] ELSE k[1][2]) = ns}

(* No address is in two slices of listed services, and the pods listed with an
   address of a service. *)
SlicesApart(v) ==
    \A x, y \in v.slices :
        (x # y /\ {x.service, y.service} \subseteq v.services) => x.addresses \cap y.addresses = {}
Backing(v, s) ==
    {r.pod : r \in {o \in ToSet(v.pods) : \E x \in v.slices : x.service = s /\ o.ip \in x.addresses}}

(* What a service sends, by class, is what the pods behind it send, and what it sends
   to a service is what they send to the pods behind that one: the pods come from
   one informer and the slices from another that may lag it, and Build looks each
   address up in both.  Slices that share an address count its bytes once each. *)
ServicesAgree ==
    (Fresh /\ SlicesApart(basis)) =>
        \A s \in basis.services, c \in Classes :
            LET sent == {k \in DOMAIN store.serviceConnections : k[1] = ServiceEnd(s) /\ k[3] = c}
                pods == {k \in DOMAIN store.podConnections :
                            k[3] = c /\ \E p \in Backing(basis, s) : k[1] = PodEnd[p]}
            IN /\ SumOver(store.serviceConnections, sent) = SumOver(store.podConnections, pods)
               /\ \A d \in basis.services :
                     SumOver(store.serviceConnections, {k \in sent : k[2] = ServiceEnd(d)})
                       = SumOver(store.podConnections,
                           {k \in pods : \E p \in Backing(basis, d) : k[2] = PodEnd[p]})

(* The network records of pods and namespaces, computed by the collector,
   and the connections, computed by the builder from the raw flows, tell the
   same bytes, class by class: pod by pod for the pods that count, and
   namespace by namespace for the three groupings (collector and builder
   each make their own address index and classify on their own).  Services tell
   the bytes of the pods behind them.  And the report of a round is what the API
   shows after it, so no snapshot is replaced before a report has carried its
   bytes. *)
ViewsAgree ==
    /\ pc = "wait" => report = store
    /\ ServicesAgree
    /\ Fresh =>
        /\ \A p \in DOMAIN store.pods, c \in Classes :
              store.pods[p].byClass[c] = SumOver(store.podConnections,
                  {k \in DOMAIN store.podConnections : k[1] = PodEnd[p] /\ k[3] = c})
        /\ \A n \in Namespaces, c \in Classes :
              LET bytes == SumOver(store.podConnections, From(store.podConnections, n, c))
              IN /\ bytes = SumOver(store.namespaceConnections, From(store.namespaceConnections, n, c))
                 /\ bytes = SumOver(store.workloadConnections, From(store.workloadConnections, n, c))

(* The totals are the sums of what they are totals of: namespaces, nodes (when
   every pod's node is listed), pods and classes; the egress cost, which Build
   adds up pod by pod, is the price of the total by class. *)
AddsUp ==
    Fresh =>
        LET ns == DOMAIN store.namespaces
        IN /\ store.request = Total([n \in ns |-> store.namespaces[n].request])
           /\ store.usage   = Total([n \in ns |-> store.namespaces[n].usage])
           /\ store.egressCost = Total([n \in ns |-> store.namespaces[n].egressCost])
           /\ store.egressCost = Total([n \in DOMAIN store.networks |-> store.networks[n].cost])
           /\ store.egressCost = EgressCost(store.byClass)
           /\ \A c \in Classes :
                /\ store.byClass[c] = Total([n \in ns |-> store.namespaces[n].byClass[c]])
                /\ store.byClass[c] = Total([p \in DOMAIN store.pods |-> store.pods[p].byClass[c]])
                /\ store.byClass[c] = Total([n \in DOMAIN store.networks |-> store.networks[n].byClass[c]])
           /\ {r.node : r \in Kept(basis)} \subseteq DOMAIN store.nodes =>
                /\ store.usage = Total([n \in DOMAIN store.nodes |-> store.nodes[n].usage])
                /\ Cardinality(DOMAIN store.pods)
                     = Total([n \in DOMAIN store.nodes |-> store.nodes[n].podCount])

(* A pod whose address no other listed pod carries gets all the new bytes of
   its flows, and what it sent to other pods of its node is not charged as
   leaving the node (podByIP, ClassifyEgress). *)
Attributed ==
    Fresh =>
        \A r \in Kept(basis) :
            (r.ip # NoAddress /\ \A o \in ToSet(basis.pods) : o.ip = r.ip => o = r) =>
                LET mine  == {f \in basis.flows : f.src = r.ip}
                    local == {f \in mine : \E o \in ToSet(basis.pods) : o.ip = f.dst /\ o.node = r.node}
                IN /\ store.pods[r.pod].tx = Bytes(mine)
                   /\ store.pods[r.pod].byClass["intra_node"] = Bytes(local)

(* The namespaces are not charged more than the nodes cost, as long as the
   requests of the pods that may run on each node fit in it (share,
   totalNodeCost). *)
CostsCovered ==
    (Fresh /\ \A n \in basis.nodes :
        Allocatable[n] >= Requested({r \in ToSet(basis.pods) :
                                         r.node = n /\ r.phase \in {"pending", "running"}}))
    => Total([n \in DOMAIN store.namespaces |-> store.namespaces[n].hourlyCost])
         <= store.nodeCost

(* The API is ready and shows the nodes, namespaces and pods of the cluster as
   they are, and every pod at its node. *)
ShowsCluster ==
    LET live == {r \in PodsHere(cluster) : ~SkipPod(r)}
        nodes == Answer("nodes").body
        namespaces == Answer("namespaces").body
        network == Answer("network").body
    IN /\ Answer("readyz").status = 200
       /\ DOMAIN nodes = NodesHere(cluster)
       /\ \A n \in DOMAIN nodes : nodes[n].podCount = Cardinality({r \in live : r.node = n})
       /\ DOMAIN namespaces = cluster.namespaces
       /\ DOMAIN network.pods = {r.pod : r \in live}
       /\ DOMAIN network.namespaces = cluster.namespaces
       /\ \A n \in cluster.namespaces :
            /\ namespaces[n].environment = Classify(n, TRUE)
            /\ namespaces[n].podCount = Cardinality({r \in live : NamespaceOf[r.pod] = n})

(* However the five reads of the snapshots fall between the changes, once the
   cluster stops changing the API comes to show it as it is, and keeps
   showing it (runSnapshotLoop, ClusterCache): a namespace that was classified
   by its name alone because its pod was listed first gets its label back, and
   what is gone leaves the totals. *)
Converges == <>[]ShowsCluster
=============================================================================
