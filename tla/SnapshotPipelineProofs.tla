------------------------ MODULE SnapshotPipelineProofs ------------------------
(***************************************************************************)
(* Proofs about SnapshotPipeline for every cluster, price list, node scope *)
(* and collection, and every order of steps.                               *)
(*                                                                         *)
(* The invariant says what a round knows when it builds: every listed pod  *)
(* once and in scope, flows that all have a listed source, and the bytes   *)
(* per pod that the collector has counted in exactly these flows           *)
(* (Collected); so Build works with the view as it is, and what is         *)
(* published is Build of such a view.  The rest is about Build.  A total   *)
(* is a column summed over the pods that count, and every view of it is    *)
(* the same column summed over groups of them (Grouped); the records of    *)
(* the collector and the connections of the builder are sums over the same *)
(* flows, grouped by the pod and class each flow has in the address index  *)
(* (AllOfPod, ConnectionsAddUp); and the pods of a node are charged at     *)
(* most their requests at the price of a milli-CPU (NodeCovers).           *)
(***************************************************************************)
EXTENDS SnapshotPipeline, SumTheorems

(* A view has these fields and no others. *)
Shape(v) ==
    v = [nodes |-> v.nodes, namespaces |-> v.namespaces, pods |-> v.pods,
         services |-> v.services, slices |-> v.slices,
         usage |-> v.usage, flows |-> v.flows, network |-> v.network]

(* What was listed: nodes, namespaces and services that exist, and every pod
   once, in the scope of the agent. *)
Listing(v) ==
    /\ v.nodes \subseteq Nodes /\ v.namespaces \subseteq Namespaces
    /\ v.services \subseteq Services
    /\ IsFiniteSet(DOMAIN v.pods) /\ DOMAIN v.pods \subseteq Nat
    /\ \A i \in DOMAIN v.pods :
          v.pods[i].pod \in Pods /\ v.pods[i].phase \in Phases \ {"absent"} /\ InScope(v.pods[i].node)
    /\ \A i, j \in DOMAIN v.pods : v.pods[i].pod = v.pods[j].pod => i = j

(* What was collected: flows of listed pods, and the bytes of the pods in them. *)
Collected(v) ==
    /\ Shape(v) /\ Listing(v) /\ v.usage \in [Pods -> Nat]
    /\ IsFiniteSet(v.flows)
    /\ \A f \in v.flows : f.tx \in Nat /\ f.dst # NoAddress /\ Owned(v, f.src)
    /\ NodeName = NoNode => v.flows = {}
    /\ v.network = PodUsage(v, v.flows, Pods)

(* Where a round is, and what it has so far. *)
IInv ==
    /\ TypeOK
    /\ Shape(view) /\ Listing(view) /\ view.usage \in [Pods -> Nat]
    /\ pc = "publish" => Collected(view)
    /\ pc = "enqueue" => Collected(basis) /\ store = Build(basis)
    /\ pc = "wait" => report = store

-----------------------------------------------------------------------------
(* The address index *)

(* A finite set of numbers has a greatest one. *)
LEMMA MaxIsIn ==
    ASSUME NEW S, IsFiniteSet(S), S # {}, S \subseteq Nat
    PROVE  Max(S) \in S /\ \A y \in S : y <= Max(S)
<1> DEFINE P == {T \in SUBSET S : T # {} => \E x \in T : \A y \in T : y <= x}
<1>1. {} \in P
  OBVIOUS
<1>2. ASSUME NEW T \in SUBSET S, T # {}, \A x \in T : T \ {x} \in P
      PROVE  T \in P
  <2>1. PICK x \in T : TRUE
    BY <1>2
  <2>2. CASE T \ {x} = {}
    <3>1. \A y \in T : y = x
      BY <2>2
    <3>2. QED BY <3>1, <2>1
  <2>3. CASE T \ {x} # {}
    <3>1. PICK z \in T \ {x} : \A y \in T \ {x} : y <= z
      BY <1>2, <2>1, <2>3
    <3>2. CASE x <= z
      <4>1. \A y \in T : y <= z
        BY <3>1, <3>2
      <4>2. QED BY <3>1, <4>1
    <3>3. CASE ~(x <= z)
      <4>1. \A y \in T : y <= x
        BY <3>1, <3>3, <2>1
      <4>2. QED BY <2>1, <4>1
    <3>4. QED BY <3>2, <3>3
  <2>4. QED BY <2>2, <2>3
<1>3. S \in P
  <2> HIDE DEF P
  <2>1. QED BY <1>1, <1>2, FiniteInduction
<1>4. \E x \in S : \A y \in S : x >= y
  BY <1>3
<1>5. QED BY <1>4 DEF Max

(* The owner of an address is a listed pod that has it. *)
LEMMA OwnerIsListed ==
    ASSUME NEW v, Listing(v), NEW a, Owned(v, a)
    PROVE  \E i \in DOMAIN v.pods : OwnerOf(v, a) = v.pods[i] /\ v.pods[i].ip = a
<1> DEFINE S == {i \in DOMAIN v.pods : v.pods[i].ip = a}
<1>1. S # {} /\ S \subseteq Nat
  BY DEF Listing, Owned
<1>2. IsFiniteSet(S)
  BY FS_Subset DEF Listing
<1>3. Max(S) \in S
  BY <1>1, <1>2, MaxIsIn
<1>4. OwnerOf(v, a) = v.pods[Max(S)]
  BY DEF OwnerOf
<1>5. QED BY <1>3, <1>4

(* The index is made of the listed pods, and the class of a flow of the listed
   nodes as well. *)
LEMMA SameIndex ==
    ASSUME NEW v, NEW w, v.pods = w.pods, v.nodes = w.nodes
    PROVE  /\ \A a : Owned(v, a) <=> Owned(w, a)
           /\ \A a : OwnerOf(v, a) = OwnerOf(w, a)
           /\ \A f : ClassOf(v, f) = ClassOf(w, f)
<1>1. \A a : Owned(v, a) <=> Owned(w, a)
  BY DEF Owned
<1>2. \A a : OwnerOf(v, a) = OwnerOf(w, a)
  BY DEF OwnerOf
<1>3. \A n : ZoneOf(v, n) = ZoneOf(w, n)
  BY DEF ZoneOf
<1>4. \A s, d : ClassifyEgress(v, s, d) = ClassifyEgress(w, s, d)
  BY <1>1, <1>2, <1>3 DEF ClassifyEgress
<1>5. QED BY <1>1, <1>2, <1>4 DEF ClassOf

(* The class of a flow is one of the six. *)
LEMMA ClassIsOne == ASSUME NEW v, NEW f PROVE ClassOf(v, f) \in Classes
BY DEF ClassOf, ClassifyEgress, Classes

(* The model's total is the sum the lemmas are about. *)
LEMMA TotalIsSum == ASSUME NEW f PROVE Total(f) = SumOf(f, DOMAIN f)
BY DEF Total, SumOf

(* ... over the domain of the function, when it is known by another name. *)
LEMMA TotalOn == ASSUME NEW f, NEW S, DOMAIN f = S PROVE Total(f) = SumOf(f, S)
BY DEF Total, SumOf

(* The collector's bytes do not depend on the flows it passes over. *)
LEMMA UsageOfKnown ==
    ASSUME NEW v, NEW w, v.pods = w.pods, v.nodes = w.nodes, NEW flows,
           w.flows = Attributable(v, flows)
    PROVE  PodUsage(w, w.flows, Pods) = PodUsage(v, flows, Pods)
<1>1. Attributable(w, w.flows) = Attributable(v, flows)
  BY SameIndex DEF Attributable
<1>2. \A f : ClassOf(v, f) = ClassOf(w, f) /\ OwnerOf(v, f.src) = OwnerOf(w, f.src)
  BY SameIndex
<1>3. \A p \in Pods, c \in Classes :
         {f \in {g \in Attributable(v, flows) : OwnerOf(v, g.src).pod = p} : ClassOf(v, f) = c}
         = {f \in {g \in Attributable(w, w.flows) : OwnerOf(w, g.src).pod = p} : ClassOf(w, f) = c}
  BY <1>1, <1>2
<1>4. QED BY <1>3 DEF PodUsage

-----------------------------------------------------------------------------
(* Types *)

(* A sum of natural numbers over a finite set is one. *)
LEMMA TotalNat ==
    ASSUME NEW S, IsFiniteSet(S), NEW f, DOMAIN f = S, \A x \in S : f[x] \in Nat
    PROVE  Total(f) \in Nat
BY TotalOn, SumNat

(* The bytes of finitely many flows are a natural number. *)
LEMMA BytesNat ==
    ASSUME NEW S, IsFiniteSet(S), \A f \in S : f.tx \in Nat
    PROVE  Bytes(S) \in Nat
<1> DEFINE t == [f \in S |-> f.tx]
<1>1. DOMAIN t = S /\ \A f \in S : t[f] \in Nat
  OBVIOUS
<1>2. Total(t) \in Nat
  <2> HIDE DEF t
  <2>1. QED BY <1>1, TotalNat
<1>3. QED BY <1>2 DEF Bytes

(* The collector counts bytes for every pod and class. *)
LEMMA UsageCounts ==
    ASSUME NEW v, NEW flows, IsFiniteSet(flows), \A f \in flows : f.tx \in Nat
    PROVE  PodUsage(v, flows, Pods) \in [Pods -> [Classes -> Nat]]
<1>1. ASSUME NEW p \in Pods, NEW c \in Classes
      PROVE  Bytes({f \in {g \in Attributable(v, flows) : OwnerOf(v, g.src).pod = p} : ClassOf(v, f) = c}) \in Nat
  <2> DEFINE S == {f \in {g \in Attributable(v, flows) : OwnerOf(v, g.src).pod = p} : ClassOf(v, f) = c}
  <2>1. S \subseteq flows
    BY DEF Attributable
  <2>2. IsFiniteSet(S) /\ \A f \in S : f.tx \in Nat
    BY <2>1, FS_Subset
  <2> HIDE DEF S
  <2>3. Bytes(S) \in Nat
    BY <2>2, BytesNat
  <2>4. QED BY <2>3 DEF S
<1>2. QED BY <1>1 DEF PodUsage

(* A snapshot is not what the store holds before the first one. *)
LEMMA BuildIsReady == ASSUME NEW v PROVE Build(v) # NotReady
<1>1. "nodes" \in DOMAIN Build(v)
  BY DEF Build
<1>2. "nodes" \notin DOMAIN NotReady
  BY DEF NotReady
<1>3. QED BY <1>1, <1>2

(* Build works with the view as it was collected: what it would compute itself is
   what the collector gave it. *)
LEMMA UsageIsCollected == ASSUME NEW v, Collected(v) PROVE NetworkUsage(v) = v
<1>1. [v EXCEPT !.network = PodUsage(v, v.flows, Pods)] = v
  BY DEF Collected, Shape
<1>2. QED BY <1>1 DEF NetworkUsage

-----------------------------------------------------------------------------
(* The steps of the cluster and the informers *)

(* A step that leaves the loop alone. *)
LEMMA Elsewhere ==
    ASSUME IInv, cluster' \in Objects, caches' \in Objects, changes' \in 0 .. MaxChanges,
           UNCHANGED <<pc, view, store, basis, report>>
    PROVE  IInv'
<1>1. TypeOK'
  BY DEF IInv, TypeOK
<1>2. QED BY <1>1 DEF IInv, Collected, Shape, Listing

(* A change of the cluster to objects of the right kind. *)
LEMMA ChangeKeeps ==
    ASSUME IInv, NEW kind, NEW value, Change(kind, value),
           [cluster EXCEPT ![kind] = value] \in Objects
    PROVE  IInv'
<1>1. changes' \in 0 .. MaxChanges
  BY PipelineAssumption DEF IInv, TypeOK, Change
<1>2. cluster' \in Objects /\ caches' \in Objects
  BY DEF IInv, TypeOK, Change
<1>3. QED BY <1>1, <1>2, Elsewhere DEF Change

(* A change of one pod. *)
LEMMA PodChangeKeeps ==
    ASSUME IInv, NEW p \in Pods, NEW state \in PodState, ChangePod(p, state)
    PROVE  IInv'
<1>1. cluster \in Objects
  BY DEF IInv, TypeOK
<1>2. [cluster.pods EXCEPT ![p] = state] \in [Pods -> PodState]
  BY <1>1 DEF Objects
<1>3. [cluster EXCEPT !["pods"] = [cluster.pods EXCEPT ![p] = state]] \in Objects
  BY <1>1, <1>2 DEF Objects
<1>4. QED BY <1>3, ChangeKeeps DEF ChangePod

(* The life of a pod: creation, start, end, deletion, removal. *)
LEMMA PodsKeep ==
    ASSUME IInv, NEW p \in Pods,
           CreatePod(p) \/ StartPod(p) \/ FinishPod(p) \/ DeletePod(p) \/ RemovePod(p)
    PROVE  IInv'
<1>1. cluster \in Objects
  BY DEF IInv, TypeOK
<1>2. cluster.pods[p] \in PodState
  BY <1>1 DEF Objects
<1>3. NewPod \in PodState /\ NoPod \in PodState
  BY DEF NewPod, NoPod, PodState, Phases
<1>4. CASE CreatePod(p)
  BY <1>3, <1>4, PodChangeKeeps DEF CreatePod
<1>5. CASE StartPod(p)
  <2>1. PICK a \in AddressPool[HomeNode[p]] :
           ChangePod(p, [phase |-> "running", node |-> HomeNode[p], ip |-> a])
    BY <1>5 DEF StartPod
  <2>2. HomeNode[p] \in Nodes
    BY PipelineAssumption
  <2>3. [phase |-> "running", node |-> HomeNode[p], ip |-> a] \in PodState
    BY <2>1, <2>2 DEF PodState, Phases, Addresses
  <2>4. QED BY <2>1, <2>3, PodChangeKeeps
<1>6. CASE FinishPod(p)
  <2>1. [cluster.pods[p] EXCEPT !.phase = "finished"] \in PodState
    BY <1>2 DEF PodState, Phases
  <2>2. QED BY <1>6, <2>1, PodChangeKeeps DEF FinishPod
<1>7. CASE DeletePod(p)
  <2>1. [cluster.pods[p] EXCEPT !.phase = "terminating"] \in PodState
    BY <1>2 DEF PodState, Phases
  <2>2. QED BY <1>7, <2>1, PodChangeKeeps DEF DeletePod
<1>8. CASE RemovePod(p)
  BY <1>3, <1>8, PodChangeKeeps DEF RemovePod
<1>9. QED BY <1>4, <1>5, <1>6, <1>7, <1>8

(* Namespaces, nodes, services and slices come and go. *)
LEMMA ObjectsKeep ==
    ASSUME IInv,
           \/ \E n \in Namespaces : CreateNamespace(n) \/ DeleteNamespace(n)
           \/ \E n \in Nodes \ Settled : ToggleNode(n)
           \/ \E s \in Services : CreateService(s)
           \/ \E s \in Slices : UpdateSlice(s)
    PROVE  IInv'
<1>1. cluster \in Objects
  BY DEF IInv, TypeOK
<1>2. ASSUME NEW n \in Namespaces, CreateNamespace(n) PROVE IInv'
  <2>1. [cluster EXCEPT !["namespaces"] = cluster.namespaces \cup {n}] \in Objects
    BY <1>1 DEF Objects
  <2>2. QED BY <1>2, <2>1, ChangeKeeps DEF CreateNamespace
<1>3. ASSUME NEW n \in Namespaces, DeleteNamespace(n) PROVE IInv'
  <2>1. [cluster EXCEPT !["namespaces"] = cluster.namespaces \ {n}] \in Objects
    BY <1>1 DEF Objects
  <2>2. QED BY <1>3, <2>1, ChangeKeeps DEF DeleteNamespace
<1>4. ASSUME NEW n \in Nodes, ToggleNode(n) PROVE IInv'
  <2> DEFINE nodes == IF n \in cluster.nodes THEN cluster.nodes \ {n} ELSE cluster.nodes \cup {n}
  <2>1. [cluster EXCEPT !["nodes"] = nodes] \in Objects
    BY <1>1 DEF Objects
  <2>2. QED BY <1>4, <2>1, ChangeKeeps DEF ToggleNode
<1>5. ASSUME NEW s \in Services, CreateService(s) PROVE IInv'
  <2>1. [cluster EXCEPT !["services"] = cluster.services \cup {s}] \in Objects
    BY <1>1 DEF Objects
  <2>2. QED BY <1>5, <2>1, ChangeKeeps DEF CreateService
<1>6. ASSUME NEW s \in Slices, UpdateSlice(s) PROVE IInv'
  <2>1. PICK p \in Pods : /\ cluster.pods[p].ip # NoAddress
                          /\ Change("slices", [cluster.slices EXCEPT ![s] = {cluster.pods[p].ip}])
    BY <1>6 DEF UpdateSlice
  <2>2. cluster.pods[p].ip \in Addresses
    <3>1. cluster.pods[p] \in PodState
      BY <1>1 DEF Objects
    <3>2. QED BY <2>1, <3>1 DEF PodState
  <2>3. [cluster.slices EXCEPT ![s] = {cluster.pods[p].ip}] \in
             [Slices -> SUBSET Addresses]
    BY <1>1, <2>2 DEF Objects
  <2>4. [cluster EXCEPT !["slices"] = [cluster.slices EXCEPT ![s] = {cluster.pods[p].ip}]] \in Objects
    BY <1>1, <2>3 DEF Objects
  <2>5. QED BY <2>1, <2>4, ChangeKeeps
<1>7. QED BY <1>2, <1>3, <1>4, <1>5, <1>6

(* An informer catches up. *)
LEMMA InformersKeep == ASSUME IInv, Informers PROVE IInv'
<1>1. PICK k \in Kinds : Deliver(k)
  BY DEF Informers
<1>2. cluster \in Objects /\ caches \in Objects
  BY DEF IInv, TypeOK
<1>3. [caches EXCEPT ![k] = cluster[k]] \in Objects
  <2>1. CASE k = "nodes"
    BY <1>2, <2>1 DEF Objects
  <2>2. CASE k = "namespaces"
    BY <1>2, <2>2 DEF Objects
  <2>3. CASE k = "pods"
    BY <1>2, <2>3 DEF Objects
  <2>4. CASE k = "services"
    BY <1>2, <2>4 DEF Objects
  <2>5. CASE k = "slices"
    BY <1>2, <2>5 DEF Objects
  <2>6. QED BY <1>1, <2>1, <2>2, <2>3, <2>4, <2>5 DEF Kinds
<1>4. QED BY <1>1, <1>2, <1>3, Elsewhere DEF Deliver, IInv, TypeOK

-----------------------------------------------------------------------------
(* The steps of the loop *)

(* Lists the loop may take are enumerations without repetition. *)
LEMMA Enumerated ==
    ASSUME NEW S, IsFiniteSet(S), NEW e \in SetToSeqs(S)
    PROVE  /\ IsFiniteSet(DOMAIN e) /\ DOMAIN e \subseteq Nat
           /\ \A i \in DOMAIN e : e[i] \in S
           /\ \A i, j \in DOMAIN e : e[i] = e[j] => i = j
<1>1. Cardinality(S) \in Nat
  BY FS_CardinalityType
<1>2. DOMAIN e = 1 .. Cardinality(S)
  BY DEF SetToSeqs
<1>3. /\ \A i \in DOMAIN e : e[i] \in S
      /\ \A i, j \in DOMAIN e : i # j => e[i] # e[j]
  BY DEF SetToSeqs
<1>4. IsFiniteSet(1 .. Cardinality(S))
  BY <1>1, FS_Interval
<1>5. QED BY <1>1, <1>2, <1>3, <1>4

(* Finitely many pods are in scope. *)
LEMMA PodsHereFinite ==
    ASSUME NEW objects PROVE IsFiniteSet(PodsHere(objects))
<1> DEFINE S == {x \in Pods : objects.pods[x].phase # "absent" /\ InScope(objects.pods[x].node)}
           g == [p \in S |-> Listed(p, objects.pods[p])]
<1>1. IsFiniteSet(S)
  BY PipelineAssumption, FS_Subset
<1>2. \A x \in S : g[x] \in PodsHere(objects)
  BY DEF PodsHere
<1>3. \A y \in PodsHere(objects) : \E x \in S : y = g[x]
  BY DEF PodsHere
<1> HIDE DEF S, g
<1>4. QED BY <1>1, <1>2, <1>3, FiniteImage

(* The invariant after a step of the loop that reads into the view. *)
LEMMA ReadKeeps ==
    ASSUME IInv, NEW here, NEW next, NEW w, Read(here, next, w),
           next \in {"nodes", "namespaces", "pods", "services", "slices", "metrics", "network", "publish"},
           Shape(w), Listing(w), w.usage \in [Pods -> Nat],
           next = "publish" => Collected(w)
    PROVE  IInv'
<1>1. /\ pc' = next /\ view' = w
      /\ UNCHANGED <<cluster, caches, changes, store, basis, report>>
  BY DEF Read
<1>2. Shape(view)' /\ Listing(view)' /\ (view.usage \in [Pods -> Nat])'
  BY <1>1 DEF Shape, Listing
<1>3. TypeOK'
  BY <1>1, <1>2 DEF IInv, TypeOK, Listing, ToSet
<1>4. (pc = "publish" => Collected(view))'
  BY <1>1 DEF Collected, Shape, Listing
<1>5. pc' # "enqueue" /\ pc' # "wait"
  BY <1>1
<1>6. QED BY <1>2, <1>3, <1>4, <1>5 DEF IInv

(* The five lists, each from the cache as it is then. *)
LEMMA ListsKeep ==
    ASSUME IInv,
           ListNodes \/ ListNamespaces \/ ListPods \/ ListServices \/ ListSlices
    PROVE  IInv'
<1>1. Shape(view) /\ Listing(view) /\ view.usage \in [Pods -> Nat] /\ caches \in Objects
  BY DEF IInv, TypeOK
<1>2. CASE ListNodes
  <2> DEFINE w == [view EXCEPT !.nodes = NodesHere(caches)]
  <2>1. NodesHere(caches) \subseteq Nodes
    BY <1>1 DEF NodesHere, Objects
  <2>2. Shape(w) /\ Listing(w) /\ w.usage \in [Pods -> Nat]
    BY <1>1, <2>1 DEF Shape, Listing
  <2>3. Read("nodes", "namespaces", w)
    BY <1>2 DEF ListNodes
  <2> HIDE DEF w
  <2>4. QED BY <2>2, <2>3, ReadKeeps
<1>3. CASE ListNamespaces
  <2> DEFINE w == [view EXCEPT !.namespaces = caches.namespaces]
  <2>1. Shape(w) /\ Listing(w) /\ w.usage \in [Pods -> Nat]
    BY <1>1 DEF Shape, Listing, Objects
  <2>2. Read("namespaces", "pods", w)
    BY <1>3 DEF ListNamespaces
  <2> HIDE DEF w
  <2>3. QED BY <2>1, <2>2, ReadKeeps
<1>4. CASE ListPods
  <2>1. PICK order \in SetToSeqs(PodsHere(caches)) :
           Read("pods", "services", [view EXCEPT !.pods = order])
    BY <1>4 DEF ListPods
  <2> DEFINE w == [view EXCEPT !.pods = order]
  <2>2. /\ IsFiniteSet(DOMAIN order) /\ DOMAIN order \subseteq Nat
        /\ \A i \in DOMAIN order : order[i] \in PodsHere(caches)
        /\ \A i, j \in DOMAIN order : order[i] = order[j] => i = j
    BY Enumerated, PodsHereFinite
  <2>3. \A r \in PodsHere(caches) :
           /\ r.pod \in Pods /\ r.phase \in Phases \ {"absent"} /\ InScope(r.node)
           /\ r = Listed(r.pod, caches.pods[r.pod])
    <3>1. \A p \in Pods : caches.pods[p].phase \in Phases
      BY <1>1 DEF Objects, PodState
    <3>2. QED BY <3>1 DEF PodsHere, Listed
  <2>4. \A i, j \in DOMAIN order : order[i].pod = order[j].pod => i = j
    BY <2>2, <2>3
  <2>5. Shape(w) /\ Listing(w) /\ w.usage \in [Pods -> Nat]
    BY <1>1, <2>2, <2>3, <2>4 DEF Shape, Listing
  <2> HIDE DEF w
  <2>6. QED BY <2>1, <2>5, ReadKeeps DEF w
<1>5. CASE ListServices
  <2> DEFINE w == [view EXCEPT !.services = caches.services]
  <2>1. Shape(w) /\ Listing(w) /\ w.usage \in [Pods -> Nat]
    BY <1>1 DEF Shape, Listing, Objects
  <2>2. Read("services", "slices", w)
    BY <1>5 DEF ListServices
  <2> HIDE DEF w
  <2>3. QED BY <2>1, <2>2, ReadKeeps
<1>6. CASE ListSlices
  <2> DEFINE slices == {[slice |-> s, service |-> ServiceOf[s],
                         addresses |-> caches.slices[s]] : s \in Slices}
             w == [view EXCEPT !.slices = slices]
  <2>1. Read("slices", "metrics", w)
    BY <1>6 DEF ListSlices
  <2> HIDE DEF slices
  <2>2. Shape(w) /\ Listing(w) /\ w.usage \in [Pods -> Nat]
    BY <1>1 DEF Shape, Listing
  <2> HIDE DEF w
  <2>3. QED BY <2>1, <2>2, ReadKeeps
<1>7. QED BY <1>2, <1>3, <1>4, <1>5, <1>6

(* The collectors: usage of listed pods, flows of listed pods, and their bytes. *)
LEMMA CollectorsKeep == ASSUME IInv, CollectMetrics \/ CollectNetwork PROVE IInv'
<1>1. Shape(view) /\ Listing(view) /\ view.usage \in [Pods -> Nat]
  BY DEF IInv
<1>2. CASE CollectMetrics
  <2> DEFINE listed == {r.pod : r \in ToSet(view.pods)}
             Measured(measured) == [p \in Pods |-> IF p \in listed THEN measured[p] ELSE 0]
  <2>1. PICK measured \in UsageBatches \cup {[p \in Pods |-> 0]} :
           Read("metrics", "network", [view EXCEPT !.usage = Measured(measured)])
    BY <1>2 DEF CollectMetrics
  <2>2. measured \in [Pods -> Nat]
    BY PipelineAssumption
  <2>3. Measured(measured) \in [Pods -> Nat]
    BY <2>2
  <2> DEFINE w == [view EXCEPT !.usage = Measured(measured)]
  <2> HIDE DEF Measured
  <2>4. Shape(w) /\ Listing(w) /\ w.usage \in [Pods -> Nat]
    BY <1>1, <2>3 DEF Shape, Listing
  <2> HIDE DEF w
  <2>5. QED BY <2>1, <2>4, ReadKeeps DEF w
<1>3. CASE CollectNetwork
  <2>1. PICK flows \in FlowBatches \cup {{}} :
           Read("network", "publish",
             [view EXCEPT !.flows = Attributable(view, flows),
                          !.network = PodUsage(view, flows, Pods)])
    BY <1>3 DEF CollectNetwork
  <2> DEFINE known == Attributable(view, flows)
             bytes == PodUsage(view, flows, Pods)
             w == [view EXCEPT !.flows = known, !.network = bytes]
  <2>2. /\ IsFiniteSet(flows) /\ \A f \in flows : f.tx \in Nat /\ f.dst # NoAddress
        /\ NodeName = NoNode => flows = {}
    BY PipelineAssumption, FS_EmptySet
  <2>3. /\ Shape(w) /\ Listing(w) /\ w.usage \in [Pods -> Nat]
        /\ w.pods = view.pods /\ w.nodes = view.nodes
        /\ w.flows = Attributable(view, flows)
        /\ w.network = PodUsage(view, flows, Pods)
    <3> HIDE DEF known, bytes
    <3>1. w = [nodes |-> view.nodes, namespaces |-> view.namespaces, pods |-> view.pods,
               services |-> view.services, slices |-> view.slices,
               usage |-> view.usage, flows |-> known, network |-> bytes]
      <4> DEFINE u == [view EXCEPT !.flows = known]
      <4>1. u = [nodes |-> view.nodes, namespaces |-> view.namespaces, pods |-> view.pods,
                 services |-> view.services, slices |-> view.slices,
                 usage |-> view.usage, flows |-> known, network |-> view.network]
        BY <1>1 DEF Shape
      <4>2. w = [u EXCEPT !.network = bytes]
        BY <1>1 DEF Shape
      <4> HIDE DEF u, w
      <4>3. QED BY <4>1, <4>2
    <3> HIDE DEF w
    <3>2. Shape(w) /\ w.usage = view.usage /\ w.flows = known /\ w.network = bytes
          /\ w.nodes = view.nodes /\ w.namespaces = view.namespaces
          /\ w.pods = view.pods /\ w.services = view.services
      BY <3>1 DEF Shape
    <3>3. QED BY <1>1, <3>2 DEF Listing, known, bytes
  <2> HIDE DEF w
  <2>4. w.flows \subseteq flows /\ IsFiniteSet(w.flows)
    BY <2>2, <2>3, FS_Subset DEF Attributable
  <2>5. \A f \in w.flows : f.tx \in Nat /\ f.dst # NoAddress /\ Owned(w, f.src)
    BY <2>2, <2>3, SameIndex DEF Attributable
  <2>6. w.network = PodUsage(w, w.flows, Pods)
    BY <2>3, UsageOfKnown
  <2>7. Collected(w)
    BY <2>2, <2>3, <2>4, <2>5, <2>6 DEF Collected
  <2>8. QED BY <2>1, <2>3, <2>7, ReadKeeps DEF w
<1>4. QED BY <1>2, <1>3

(* The snapshot that is published is built of the view the collectors completed. *)
LEMMA PublishKeeps == ASSUME IInv, Publish PROVE IInv'
<1>1. Collected(view) /\ NetworkUsage(view) = view
  BY UsageIsCollected DEF IInv, Publish
<1>2. /\ pc' = "enqueue" /\ store' = Build(view) /\ basis' = view
      /\ UNCHANGED <<cluster, caches, changes, view, report>>
  BY <1>1 DEF Publish
<1>3. Collected(basis)' /\ (store = Build(basis))'
  <2>1. (basis = view)' /\ view' = view
    BY <1>2
  <2>2. Collected(basis)'
    BY <1>1, <1>2 DEF Collected, Shape, Listing
  <2>3. QED BY <1>2, <2>2
<1>4. TypeOK'
  BY <1>2 DEF IInv, TypeOK
<1>5. QED BY <1>2, <1>3, <1>4 DEF IInv, Shape, Listing

(* Before the first read and after a round nothing has been collected. *)
LEMMA EmptyView == Shape(NoView) /\ Listing(NoView) /\ NoView.usage \in [Pods -> Nat]
<1>1. DOMAIN NoView.pods = {}
  BY DEF NoView
<1>2. IsFiniteSet({})
  BY FS_EmptySet
<1>3. Shape(NoView) /\ NoView.usage \in [Pods -> Nat]
  BY DEF NoView, Shape
<1>4. Listing(NoView)
  BY <1>1, <1>2 DEF NoView, Listing
<1>5. QED BY <1>3, <1>4

(* The end of a round: the report is what the store holds. *)
LEMMA ReportKeeps == ASSUME IInv, Enqueue \/ Tick PROVE IInv'
<1>1. CASE Enqueue
  <2>1. /\ pc' = "wait" /\ report' = store /\ view' = NoView
        /\ UNCHANGED <<cluster, caches, changes, store, basis>>
    BY <1>1 DEF Enqueue
  <2>2. report' # NotReady
    BY <1>1, <2>1, BuildIsReady DEF Enqueue, IInv
  <2>3. Shape(view)' /\ Listing(view)' /\ (view.usage \in [Pods -> Nat])'
    BY <2>1, EmptyView DEF Shape, Listing
  <2>4. TypeOK'
    BY <2>1, <2>2, <2>3 DEF IInv, TypeOK, Listing, ToSet
  <2>5. QED BY <2>1, <2>3, <2>4 DEF IInv
<1>2. CASE Tick
  <2>1. Read("wait", "nodes", view)
    BY <1>2 DEF Tick
  <2>2. QED BY <2>1, ReadKeeps DEF IInv
<1>3. QED BY <1>1, <1>2

(* The invariant at the start. *)
LEMMA InitHolds == ASSUME Init PROVE IInv
<1>1. cluster \in Objects /\ caches \in Objects
  BY BeginningsAssumption DEF Init
<1>2. Shape(view) /\ Listing(view) /\ view.usage \in [Pods -> Nat]
  BY EmptyView DEF Init
<1>3. TypeOK
  BY <1>1, <1>2, PipelineAssumption DEF Init, TypeOK, Listing, ToSet
<1>4. QED BY <1>2, <1>3 DEF Init, IInv

(* No step breaks the invariant. *)
LEMMA NextKeeps == ASSUME IInv, [Next]_vars PROVE IInv'
<1>1. CASE Loop
  BY <1>1, ListsKeep, CollectorsKeep, PublishKeeps, ReportKeeps DEF Loop
<1>2. CASE Informers
  BY <1>2, InformersKeep
<1>3. CASE \E p \in Pods \ Settled :
             CreatePod(p) \/ StartPod(p) \/ FinishPod(p) \/ DeletePod(p) \/ RemovePod(p)
  BY <1>3, PodsKeep
<1>4. CASE UNCHANGED vars
  <2>1. UNCHANGED <<cluster, caches, changes, pc, view, store, basis, report>>
    BY <1>4 DEF vars
  <2>2. QED BY <2>1, Elsewhere DEF IInv, TypeOK
<1>5. QED BY <1>1, <1>2, <1>3, <1>4, ObjectsKeep DEF Next

(* A round builds with pods listed once and in scope, and with the bytes of exactly
   the flows it passes on; the store holds the snapshot built of them, and the report
   what the store holds (buildOnce). *)
THEOREM InvariantHolds == Spec => []IInv
<1>1. Init => IInv
  BY InitHolds
<1>2. IInv /\ [Next]_vars => IInv'
  BY NextKeeps
<1>3. QED BY <1>1, <1>2, PTL DEF Spec

(* Every variable of the loop keeps its type, and no report is made of the empty
   store (buildOnce, LatestSnapshot). *)
THEOREM TypesHold == Spec => []TypeOK
<1>1. IInv => TypeOK
  BY DEF IInv
<1>2. QED BY <1>1, InvariantHolds, PTL

-----------------------------------------------------------------------------
(* The pods that count *)

(* The pods that count are finitely many, bound to a node, running or about to,
   and told apart by their names. *)
LEMMA KeptPods ==
    ASSUME NEW v, Listing(v)
    PROVE  /\ IsFiniteSet(ToSet(v.pods)) /\ IsFiniteSet(Kept(v)) /\ Kept(v) \subseteq ToSet(v.pods)
           /\ \A r \in ToSet(v.pods) : r.pod \in Pods /\ InScope(r.node)
           /\ \A r \in Kept(v) : r.phase \in {"pending", "running"} /\ r.node # NoNode
           /\ \A r, s \in ToSet(v.pods) : r.pod = s.pod => r = s
<1>1. \A r : r \in ToSet(v.pods) <=> \E i \in DOMAIN v.pods : r = v.pods[i]
  BY DEF ToSet
<1>2. IsFiniteSet(ToSet(v.pods))
  <2> DEFINE g == [i \in DOMAIN v.pods |-> v.pods[i]]
  <2>1. /\ \A i \in DOMAIN v.pods : g[i] \in ToSet(v.pods)
        /\ \A r \in ToSet(v.pods) : \E i \in DOMAIN v.pods : r = g[i]
    BY <1>1
  <2> HIDE DEF g
  <2>2. QED BY <2>1, FiniteImage DEF Listing
<1>3. Kept(v) \subseteq ToSet(v.pods) /\ IsFiniteSet(Kept(v))
  BY <1>2, FS_Subset DEF Kept
<1>4. \A r \in Kept(v) : r.phase \in {"pending", "running"} /\ r.node # NoNode
  <2>1. ASSUME NEW r \in Kept(v) PROVE r.phase \in {"pending", "running"}
    <3>1. r.phase \in Phases \ {"absent"}
      BY <1>1, <1>3 DEF Listing
    <3>2. r.phase \notin {"terminating", "finished"}
      BY DEF Kept, SkipPod
    <3>3. QED BY <3>1, <3>2 DEF Phases
  <2>2. \A r \in Kept(v) : r.node # NoNode
    BY DEF Kept, SkipPod
  <2>3. QED BY <2>1, <2>2
<1>5. QED BY <1>1, <1>2, <1>3, <1>4 DEF Listing

(* There are finitely many classes. *)
LEMMA ClassesFinite == IsFiniteSet(Classes)
<1>1. IsFiniteSet({})
  BY FS_EmptySet
<1>2. IsFiniteSet({"intra_node"})
  BY FS_Singleton
<1>3. IsFiniteSet({"intra_node", "intra_az"})
  <2>1. {"intra_node", "intra_az"} = {"intra_node"} \cup {"intra_az"}
    OBVIOUS
  <2>2. QED BY <1>2, <2>1, FS_AddElement
<1>4. IsFiniteSet({"intra_node", "intra_az", "inter_az"})
  <2>1. {"intra_node", "intra_az", "inter_az"} = {"intra_node", "intra_az"} \cup {"inter_az"}
    OBVIOUS
  <2>2. QED BY <1>3, <2>1, FS_AddElement
<1>5. IsFiniteSet({"vpc_private"})
  BY FS_Singleton
<1>6. IsFiniteSet({"vpc_private", "public_internet"})
  <2>1. {"vpc_private", "public_internet"} = {"vpc_private"} \cup {"public_internet"}
    OBVIOUS
  <2>2. QED BY <1>5, <2>1, FS_AddElement
<1>7. IsFiniteSet({"vpc_private", "public_internet", "unknown"})
  <2>1. {"vpc_private", "public_internet", "unknown"} = {"vpc_private", "public_internet"} \cup {"unknown"}
    OBVIOUS
  <2>2. QED BY <1>6, <2>1, FS_AddElement
<1>8. Classes = {"intra_node", "intra_az", "inter_az"} \cup {"vpc_private", "public_internet", "unknown"}
  BY DEF Classes
<1>9. QED BY <1>4, <1>7, <1>8, FS_Union

(* The collector's bytes are natural numbers. *)
LEMMA NetworkCounts ==
    ASSUME NEW v, Collected(v) PROVE v.network \in [Pods -> [Classes -> Nat]]
BY UsageCounts DEF Collected

(* Sums over the classes are numbers. *)
LEMMA ClassSums ==
    ASSUME NEW b \in [Classes -> Nat]
    PROVE  /\ AllBytes(b) \in Nat /\ EgressCost(b) \in Nat
           /\ AllBytes(b) = 0 => (EgressCost(b) = 0 /\ \A c \in Classes : b[c] = 0)
<1> DEFINE e == [c \in Classes |-> b[c] * EgressPrice[c]]
<1>1. \A c \in Classes : b[c] \in Nat /\ EgressPrice[c] \in Nat
  BY BuilderAssumption
<1>2. DOMAIN e = Classes /\ \A c \in Classes : e[c] \in Nat
  BY <1>1
<1>3. AllBytes(b) = SumOf(b, Classes) /\ EgressCost(b) = SumOf(e, Classes)
  BY TotalOn DEF AllBytes, EgressCost
<1>4. ASSUME AllBytes(b) = 0 PROVE \A c \in Classes : b[c] = 0
  <2>1. TAKE c \in Classes
  <2>2. {c} \subseteq Classes /\ IsFiniteSet({c})
    BY FS_Singleton
  <2>3. SumOf(b, {c}) <= SumOf(b, Classes)
    BY <1>1, <2>2, ClassesFinite, SumMonotone
  <2>4. SumOf(b, {c}) = b[c]
    BY <1>1, SumOfOne
  <2>5. QED BY <1>1, <1>3, <1>4, <2>3, <2>4
<1>5. ASSUME AllBytes(b) = 0 PROVE EgressCost(b) = 0
  <2>1. \A c \in Classes : e[c] = 0
    BY <1>1, <1>4, <1>5
  <2> HIDE DEF e
  <2>2. QED BY <1>3, <2>1, ClassesFinite, SumOfZeros
<1> HIDE DEF e
<1>6. AllBytes(b) \in Nat /\ EgressCost(b) \in Nat
  BY <1>1, <1>2, <1>3, ClassesFinite, SumNat
<1>7. QED BY <1>4, <1>5, <1>6

-----------------------------------------------------------------------------
(* The columns of the pods *)

(* ... each a function of the pods that count. *)
Requests(v)   == [r \in Kept(v) |-> CpuRequest[r.pod]]
Usages(v)     == [r \in Kept(v) |-> CpuUsed(v, r)]
Shares(v)     == [r \in Kept(v) |-> Share(v, r)]
Costs(v)      == [r \in Kept(v) |-> EgressCost(v.network[r.pod])]
ByClass(v, c) == [r \in Kept(v) |-> v.network[r.pod][c]]
Ones(v)       == [r \in Kept(v) |-> 1]

(* The sum of a function over part of a finite set. *)
LEMMA TotalOfPart ==
    ASSUME NEW K, IsFiniteSet(K), NEW S, S \subseteq K, NEW f, NEW g, DOMAIN g = S,
           \A x \in S : g[x] = f[x]
    PROVE  Total(g) = SumOf(f, S)
<1>1. IsFiniteSet(S)
  BY FS_Subset
<1>2. QED BY <1>1, SumSame, TotalOn

(* What Build adds up over a set of pods is the sum of a column over it. *)
LEMMA ColumnsAreSums ==
    ASSUME NEW v, Collected(v), NEW S, S \subseteq Kept(v)
    PROVE  /\ Requested(S) = SumOf(Requests(v), S)
           /\ Used(v, S) = SumOf(Usages(v), S)
           /\ Charged(v, S) = SumOf(Shares(v), S)
           /\ Egress(v, S) = SumOf(Costs(v), S)
           /\ \A c \in Classes : Traffic(v, S)[c] = SumOf(ByClass(v, c), S)
           /\ Cardinality(S) = SumOf(Ones(v), S)
<1>1. IsFiniteSet(Kept(v)) /\ IsFiniteSet(S)
  BY KeptPods, FS_Subset DEF Collected
<1>2. Requested(S) = SumOf(Requests(v), S)
  BY <1>1, TotalOfPart DEF Requested, Requests
<1>3. Used(v, S) = SumOf(Usages(v), S)
  BY <1>1, TotalOfPart DEF Used, Usages
<1>4. Charged(v, S) = SumOf(Shares(v), S)
  BY <1>1, TotalOfPart DEF Charged, Shares
<1>5. Egress(v, S) = SumOf(Costs(v), S)
  BY <1>1, TotalOfPart DEF Egress, Costs
<1>6. ASSUME NEW c \in Classes PROVE Traffic(v, S)[c] = SumOf(ByClass(v, c), S)
  BY <1>1, TotalOfPart DEF Traffic, ByClass
<1>7. Cardinality(S) = SumOf(Ones(v), S)
  BY <1>1, SumOfOnes DEF Ones
<1>8. QED BY <1>2, <1>3, <1>4, <1>5, <1>6, <1>7

(* The columns hold natural numbers. *)
LEMMA ColumnsCount ==
    ASSUME NEW v, Collected(v), NEW r \in Kept(v)
    PROVE  /\ Requests(v)[r] \in Nat /\ Usages(v)[r] \in Nat /\ Costs(v)[r] \in Nat
           /\ Ones(v)[r] \in Nat
           /\ \A c \in Classes : ByClass(v, c)[r] \in Nat
<1>1. r.pod \in Pods
  BY KeptPods DEF Collected
<1>2. CpuRequest[r.pod] \in Nat /\ v.usage[r.pod] \in Nat /\ v.network[r.pod] \in [Classes -> Nat]
  BY <1>1, PipelineAssumption, NetworkCounts DEF Collected
<1>3. EgressCost(v.network[r.pod]) \in Nat
  BY <1>2, ClassSums
<1>4. CpuUsed(v, r) \in Nat
  BY <1>2 DEF CpuUsed
<1>5. QED BY <1>2, <1>3, <1>4 DEF Requests, Usages, Costs, ByClass, Ones

-----------------------------------------------------------------------------
(* Totals *)

(* Namespaces with a record, and those whose pods sent something. *)
Named(v) == v.namespaces \cup {NamespaceOf[r.pod] : r \in Kept(v)}
Sending(v) == {NamespaceOf[r.pod] : r \in {k \in Kept(v) : AllBytes(v.network[k.pod]) > 0}}

(* The rows of h stand for the groups of pods that key tells apart. *)
Grouped(v, f, key, h) ==
    /\ \A r \in Kept(v) : f[r] \in Int /\ key[r] \in DOMAIN h
    /\ \A k \in DOMAIN h : h[k] = SumOf(f, {r \in Kept(v) : key[r] = k})

(* A column that says for each group the sum over its pods adds up to the sum over all. *)
LEMMA GroupsAddUp ==
    ASSUME NEW v, Listing(v), NEW f, NEW key, NEW h, IsFiniteSet(DOMAIN h), Grouped(v, f, key, h)
    PROVE  Total(h) = SumOf(f, Kept(v))
<1>1. SumOf(h, DOMAIN h) = SumOf(f, Kept(v))
  BY KeptPods, SumByKey DEF Grouped
<1>2. QED BY <1>1, TotalIsSum

(* There are finitely many nodes and namespaces in a view. *)
LEMMA NamesFinite ==
    ASSUME NEW v, Listing(v)
    PROVE  /\ IsFiniteSet(v.nodes) /\ IsFiniteSet(v.namespaces)
           /\ Named(v) \subseteq Namespaces /\ IsFiniteSet(Named(v))
           /\ Sending(v) \subseteq Named(v) /\ IsFiniteSet(v.namespaces \cup Sending(v))
<1>1. Named(v) \subseteq Namespaces
  BY KeptPods, PipelineAssumption DEF Named, Listing
<1>2. Sending(v) \subseteq Named(v)
  BY DEF Sending, Named
<1>3. v.namespaces \subseteq Namespaces /\ v.nodes \subseteq Nodes
  BY DEF Listing
<1>4. QED BY <1>1, <1>2, <1>3, PipelineAssumption, FS_Subset

(* Every pod that counts belongs to one namespace of the snapshot. *)
LEMMA NamespacesAddUp ==
    ASSUME NEW v, Listing(v), NEW f, \A r \in Kept(v) : f[r] \in Int,
           NEW h, DOMAIN h = Named(v), \A n \in Named(v) : h[n] = SumOf(f, KeptIn(v, n))
    PROVE  Total(h) = SumOf(f, Kept(v))
<1> DEFINE key == [r \in Kept(v) |-> NamespaceOf[r.pod]]
<1>1. \A n : KeptIn(v, n) = {r \in Kept(v) : key[r] = n}
  BY DEF KeptIn
<1>2. \A r \in Kept(v) : key[r] \in DOMAIN h
  BY DEF Named
<1> HIDE DEF key
<1>3. Grouped(v, f, key, h)
  BY <1>1, <1>2 DEF Grouped
<1>4. QED BY <1>3, NamesFinite, GroupsAddUp

(* Every pod that counts is on one node of the snapshot, if its node is listed. *)
LEMMA NodesAddUp ==
    ASSUME NEW v, Listing(v), {r.node : r \in Kept(v)} \subseteq v.nodes,
           NEW f, \A r \in Kept(v) : f[r] \in Int,
           NEW h, DOMAIN h = v.nodes, \A n \in v.nodes : h[n] = SumOf(f, KeptOn(v, n))
    PROVE  Total(h) = SumOf(f, Kept(v))
<1> DEFINE key == [r \in Kept(v) |-> r.node]
<1>1. \A n : KeptOn(v, n) = {r \in Kept(v) : key[r] = n}
  BY DEF KeptOn
<1>2. \A r \in Kept(v) : key[r] \in DOMAIN h
  OBVIOUS
<1> HIDE DEF key
<1>3. Grouped(v, f, key, h)
  BY <1>1, <1>2 DEF Grouped
<1>4. QED BY <1>3, NamesFinite, GroupsAddUp

(* A pod is the only one of its name. *)
LEMMA PodsAddUp ==
    ASSUME NEW v, Listing(v), NEW f, \A r \in Kept(v) : f[r] \in Int,
           NEW h, DOMAIN h = {r.pod : r \in Kept(v)}, \A r \in Kept(v) : h[r.pod] = f[r]
    PROVE  Total(h) = SumOf(f, Kept(v)) /\ IsFiniteSet(DOMAIN h)
<1> DEFINE key == [r \in Kept(v) |-> r.pod]
<1>1. \A r \in Kept(v) : key[r] \in DOMAIN h
  OBVIOUS
<1>2. ASSUME NEW p \in DOMAIN h PROVE h[p] = SumOf(f, {r \in Kept(v) : key[r] = p})
  <2>1. PICK r \in Kept(v) : p = r.pod
    OBVIOUS
  <2>2. {s \in Kept(v) : key[s] = p} = {r}
    BY <2>1, KeptPods
  <2>3. SumOf(f, {r}) = f[r]
    BY SumOfOne
  <2>4. QED BY <2>1, <2>2, <2>3
<1>3. IsFiniteSet(DOMAIN h)
  <2>1. DOMAIN h \subseteq Pods
    BY KeptPods
  <2>2. QED BY <2>1, PipelineAssumption, FS_Subset
<1> HIDE DEF key
<1>4. Grouped(v, f, key, h)
  BY <1>1, <1>2 DEF Grouped
<1>5. QED BY <1>3, <1>4, GroupsAddUp

(* A namespace without a network record is one whose pods sent nothing. *)
LEMMA NetworksAddUp ==
    ASSUME NEW v, Collected(v), NEW f, \A r \in Kept(v) : f[r] \in Int,
           \A r \in Kept(v) : AllBytes(v.network[r.pod]) = 0 => f[r] = 0,
           NEW h, DOMAIN h = v.namespaces \cup Sending(v),
           \A n \in DOMAIN h : h[n] = SumOf(f, KeptIn(v, n))
    PROVE  Total(h) = SumOf(f, Kept(v))
<1> DEFINE S == {r \in Kept(v) : NamespaceOf[r.pod] \in DOMAIN h}
           key == [r \in Kept(v) |-> NamespaceOf[r.pod]]
<1>1. Listing(v) /\ IsFiniteSet(Kept(v)) /\ IsFiniteSet(S) /\ S \subseteq Kept(v)
  BY KeptPods, FS_Subset DEF Collected
<1>2. \A r \in Kept(v) \ S : f[r] = 0
  <2>1. TAKE r \in Kept(v) \ S
  <2>2. r.pod \in Pods /\ v.network[r.pod] \in [Classes -> Nat]
    BY <1>1, KeptPods, NetworkCounts
  <2>3. AllBytes(v.network[r.pod]) \in Nat
    BY <2>2, ClassSums
  <2>4. ~(AllBytes(v.network[r.pod]) > 0)
    BY DEF Sending
  <2>5. QED BY <2>3, <2>4
<1>3. SumOf(f, Kept(v)) = SumOf(f, S)
  <2> HIDE DEF S
  <2>1. QED BY <1>1, <1>2, SumSupport
<1>4. \A r \in S : key[r] \in DOMAIN h
  OBVIOUS
<1>5. \A n \in DOMAIN h : h[n] = SumOf(f, {r \in S : key[r] = n})
  <2>1. TAKE n \in DOMAIN h
  <2>2. KeptIn(v, n) = {r \in S : key[r] = n}
    BY DEF KeptIn
  <2>3. QED BY <2>2
<1>6. IsFiniteSet(DOMAIN h)
  BY <1>1, NamesFinite
<1> HIDE DEF S, key
<1>7. SumOf(h, DOMAIN h) = SumOf(f, S)
  BY <1>1, <1>4, <1>5, <1>6, SumByKey
<1>8. QED BY <1>3, <1>7, TotalIsSum

(* The price of what a set of pods sent is the price of its bytes by class. *)
LEMMA EgressIsByClass ==
    ASSUME NEW v, Collected(v)
    PROVE  Egress(v, Kept(v)) = EgressCost(Traffic(v, Kept(v)))
<1> DEFINE K == Kept(v)
           Priced(S) == [c \in Classes |-> SumOf(ByClass(v, c), S) * EgressPrice[c]]
           One(r) == [c \in Classes |-> v.network[r.pod][c] * EgressPrice[c]]
           P == {S \in SUBSET K : SumOf(Costs(v), S) = SumOf(Priced(S), Classes)}
<1>1. IsFiniteSet(K)
  BY KeptPods DEF Collected
<1>2. {} \in P
  <2>1. \A c \in Classes : SumOf(ByClass(v, c), {}) = 0
    BY SumEmpty
  <2>2. \A c \in Classes : Priced({})[c] = 0
    BY <2>1, BuilderAssumption
  <2> DEFINE g == Priced({})
  <2>3. \A c \in Classes : g[c] = 0
    BY <2>2
  <2> HIDE DEF g
  <2>4. SumOf(g, Classes) = 0
    BY <2>3, ClassesFinite, SumOfZeros
  <2>5. SumOf(Costs(v), {}) = 0
    BY SumEmpty
  <2>6. QED BY <2>4, <2>5 DEF g
<1>3. ASSUME NEW S \in SUBSET K, S # {}, \A r \in S : S \ {r} \in P
      PROVE  S \in P
  <2>1. PICK r \in S : TRUE
    BY <1>3
  <2>2. IsFiniteSet(S) /\ IsFiniteSet(S \ {r})
    BY <1>1, FS_Subset
  <2>3. SumOf(Costs(v), S) = Costs(v)[r] + SumOf(Costs(v), S \ {r})
    BY <2>1, <2>2, ColumnsCount, SumRemove
  <2>4. SumOf(Costs(v), S \ {r}) = SumOf(Priced(S \ {r}), Classes)
    BY <1>3, <2>1
  <2>5. Costs(v)[r] = SumOf(One(r), Classes)
    BY <2>1, TotalOn DEF Costs, EgressCost
  <2>6. \A c \in Classes :
           /\ Priced(S \ {r})[c] \in Int /\ One(r)[c] \in Int
           /\ Priced(S)[c] = One(r)[c] + Priced(S \ {r})[c]
    <3>1. TAKE c \in Classes
    <3>2. SumOf(ByClass(v, c), S) = ByClass(v, c)[r] + SumOf(ByClass(v, c), S \ {r})
      BY <2>1, <2>2, ColumnsCount, SumRemove
    <3>3. SumOf(ByClass(v, c), S \ {r}) \in Int
      BY <2>2, ColumnsCount, SumInt
    <3>4. ByClass(v, c)[r] \in Nat /\ ByClass(v, c)[r] = v.network[r.pod][c]
      BY <2>1, ColumnsCount DEF ByClass
    <3>5. EgressPrice[c] \in Nat
      BY BuilderAssumption
    <3> DEFINE x == ByClass(v, c)[r]
               y == SumOf(ByClass(v, c), S \ {r})
               e == EgressPrice[c]
    <3>6. x \in Int /\ y \in Int /\ e \in Int
      BY <3>3, <3>4, <3>5
    <3>7. Priced(S)[c] = (x + y) * e /\ One(r)[c] = x * e /\ Priced(S \ {r})[c] = y * e
      BY <3>2, <3>4
    <3> HIDE DEF x, y, e, Priced, One
    <3>8. x * e \in Int /\ y * e \in Int /\ (x + y) * e = x * e + y * e
      BY <3>6
    <3>9. QED BY <3>7, <3>8
  <2> DEFINE a == One(r)
             b == Priced(S \ {r})
             h == Priced(S)
  <2>7. \A c \in Classes : a[c] \in Int /\ b[c] \in Int /\ h[c] = a[c] + b[c]
    BY <2>6
  <2> HIDE DEF a, b, h
  <2>8. SumOf(h, Classes) = SumOf(a, Classes) + SumOf(b, Classes)
    BY <2>7, ClassesFinite, SumPlus
  <2>9. SumOf(Costs(v), S) = SumOf(h, Classes)
    BY <2>3, <2>4, <2>5, <2>8 DEF a, b
  <2>10. QED BY <2>9 DEF h
<1>4. K \in P
  <2> HIDE DEF P
  <2>1. QED BY <1>1, <1>2, <1>3, FiniteInduction
<1>5. EgressCost(Traffic(v, K)) = SumOf(Priced(K), Classes)
  <2>1. \A c \in Classes : Traffic(v, K)[c] = SumOf(ByClass(v, c), K)
    BY ColumnsAreSums
  <2>2. EgressCost(Traffic(v, K)) = Total([c \in Classes |-> Traffic(v, K)[c] * EgressPrice[c]])
    BY DEF EgressCost
  <2>3. [c \in Classes |-> Traffic(v, K)[c] * EgressPrice[c]] = Priced(K)
    BY <2>1
  <2>4. DOMAIN Priced(K) = Classes
    OBVIOUS
  <2> HIDE DEF Priced
  <2>5. QED BY <2>2, <2>3, <2>4, TotalOn
<1>6. QED BY <1>4, <1>5, ColumnsAreSums

-----------------------------------------------------------------------------
(* The parts of a snapshot *)

(* The rows of a snapshot, and for which namespaces and nodes there is one. *)
LEMMA SnapshotRows ==
    ASSUME NEW v, NEW s, s = Build(v)
    PROVE  /\ DOMAIN s.namespaces = Named(v)
           /\ \A n \in Named(v) : s.namespaces[n] = NamespaceSums(v, n, KeptIn(v, n))
           /\ DOMAIN s.nodes = v.nodes
           /\ \A n \in v.nodes : s.nodes[n] = NodeRecord(v, n)
           /\ DOMAIN s.networks = v.namespaces \cup Sending(v)
           /\ \A n \in v.namespaces \cup Sending(v) : s.networks[n] = NamespaceNetwork(v, n)
<1>1. s.namespaces = [n \in Named(v) |-> NamespaceRecord(v, n)]
  BY DEF Build, Named
<1>2. s.nodes = [n \in v.nodes |-> NodeRecord(v, n)]
  BY DEF Build
<1>3. s.networks = [n \in v.namespaces \cup Sending(v) |-> NamespaceNetwork(v, n)]
  BY DEF Build, Sending
<1>4. QED BY <1>1, <1>2, <1>3 DEF NamespaceRecord

(* The totals of a snapshot. *)
LEMMA SnapshotTotals ==
    ASSUME NEW v, NEW s, s = Build(v)
    PROVE  /\ s.request = Requested(Kept(v)) /\ s.usage = Used(v, Kept(v))
           /\ s.egressCost = Egress(v, Kept(v)) /\ s.byClass = Traffic(v, Kept(v))
           /\ s.nodeCost = Total([n \in v.nodes |-> NodePrice[n]])
BY DEF Build

(* The network records of the pods. *)
LEMMA SnapshotPods ==
    ASSUME NEW v, Listing(v), NEW s, s = Build(v)
    PROVE  /\ DOMAIN s.pods = {r.pod : r \in Kept(v)}
           /\ \A r \in Kept(v) : s.pods[r.pod] = PodNetwork(v, r)
<1>1. s.pods = [p \in {r.pod : r \in Kept(v)} |-> PodNetwork(v, CHOOSE r \in Kept(v) : r.pod = p)]
  BY DEF Build
<1>2. \A r \in Kept(v) : (CHOOSE x \in Kept(v) : x.pod = r.pod) = r
  BY KeptPods
<1>3. DOMAIN s.pods = {r.pod : r \in Kept(v)}
  BY <1>1
<1>4. ASSUME NEW r \in Kept(v) PROVE s.pods[r.pod] = PodNetwork(v, r)
  <2>1. s.pods[r.pod] = PodNetwork(v, CHOOSE x \in Kept(v) : x.pod = r.pod)
    BY <1>1
  <2>2. QED BY <1>2, <2>1
<1>5. QED BY <1>3, <1>4

(* The record of a namespace as sums of columns. *)
LEMMA NamespaceRows ==
    ASSUME NEW v, Collected(v), NEW s, s = Build(v), NEW n \in Named(v)
    PROVE  /\ s.namespaces[n].request = SumOf(Requests(v), KeptIn(v, n))
           /\ s.namespaces[n].usage = SumOf(Usages(v), KeptIn(v, n))
           /\ s.namespaces[n].hourlyCost = SumOf(Shares(v), KeptIn(v, n))
           /\ s.namespaces[n].egressCost = SumOf(Costs(v), KeptIn(v, n))
           /\ \A c \in Classes : s.namespaces[n].byClass[c] = SumOf(ByClass(v, c), KeptIn(v, n))
<1> DEFINE S == KeptIn(v, n)
<1>1. S \subseteq Kept(v)
  BY DEF KeptIn
<1>2. s.namespaces[n] = NamespaceSums(v, n, S)
  BY SnapshotRows
<1> HIDE DEF S
<1>3. /\ s.namespaces[n].request = Requested(S) /\ s.namespaces[n].usage = Used(v, S)
      /\ s.namespaces[n].hourlyCost = Charged(v, S)
      /\ s.namespaces[n].egressCost = Egress(v, S) /\ s.namespaces[n].byClass = Traffic(v, S)
  BY <1>2 DEF NamespaceSums
<1>4. QED BY <1>1, <1>3, ColumnsAreSums DEF S

(* The network record of a namespace as sums of columns. *)
LEMMA NetworkRows ==
    ASSUME NEW v, Collected(v), NEW s, s = Build(v), NEW n \in v.namespaces \cup Sending(v)
    PROVE  /\ s.networks[n].cost = SumOf(Costs(v), KeptIn(v, n))
           /\ \A c \in Classes : s.networks[n].byClass[c] = SumOf(ByClass(v, c), KeptIn(v, n))
<1> DEFINE S == KeptIn(v, n)
<1>1. S \subseteq Kept(v)
  BY DEF KeptIn
<1>2. s.networks[n] = NamespaceNetwork(v, n)
  BY SnapshotRows
<1>3. s.networks[n].cost = Egress(v, S) /\ s.networks[n].byClass = Traffic(v, S)
  BY <1>2 DEF NamespaceNetwork
<1> HIDE DEF S
<1>4. QED BY <1>1, <1>3, ColumnsAreSums DEF S

(* The record of a node as sums of columns. *)
LEMMA NodeRows ==
    ASSUME NEW v, Collected(v), NEW s, s = Build(v), NEW n \in v.nodes
    PROVE  /\ s.nodes[n].usage = SumOf(Usages(v), KeptOn(v, n))
           /\ s.nodes[n].podCount = SumOf(Ones(v), KeptOn(v, n))
<1> DEFINE S == KeptOn(v, n)
<1>1. S \subseteq Kept(v)
  BY DEF KeptOn
<1>2. s.nodes[n] = NodeRecord(v, n)
  BY SnapshotRows
<1>3. s.nodes[n].usage = Used(v, S) /\ s.nodes[n].podCount = Cardinality(S)
  BY <1>2 DEF NodeRecord
<1> HIDE DEF S
<1>4. QED BY <1>1, <1>3, ColumnsAreSums DEF S

(* The totals as sums of columns. *)
LEMMA TotalColumns ==
    ASSUME NEW v, Collected(v), NEW s, s = Build(v)
    PROVE  /\ s.request = SumOf(Requests(v), Kept(v)) /\ s.usage = SumOf(Usages(v), Kept(v))
           /\ s.egressCost = SumOf(Costs(v), Kept(v))
           /\ \A c \in Classes : s.byClass[c] = SumOf(ByClass(v, c), Kept(v))
<1> DEFINE S == Kept(v)
<1>1. S \subseteq Kept(v)
  OBVIOUS
<1>2. /\ s.request = Requested(S) /\ s.usage = Used(v, S)
      /\ s.egressCost = Egress(v, S) /\ s.byClass = Traffic(v, S)
  BY SnapshotTotals
<1> HIDE DEF S
<1>3. QED BY <1>1, <1>2, ColumnsAreSums DEF S

(* Requests, usage, egress cost and bytes by class, added up over the namespaces. *)
LEMMA NamespacesTotal ==
    ASSUME NEW v, Collected(v), NEW s, s = Build(v)
    PROVE  LET ns == DOMAIN s.namespaces
           IN /\ s.request = Total([n \in ns |-> s.namespaces[n].request])
              /\ s.usage   = Total([n \in ns |-> s.namespaces[n].usage])
              /\ s.egressCost = Total([n \in ns |-> s.namespaces[n].egressCost])
              /\ \A c \in Classes : s.byClass[c] = Total([n \in ns |-> s.namespaces[n].byClass[c]])
<1>1. /\ Listing(v) /\ DOMAIN s.namespaces = Named(v)
      /\ \A n \in Named(v) : KeptIn(v, n) \subseteq Kept(v)
  BY SnapshotRows DEF Collected, KeptIn
<1>2. s.request = Total([n \in DOMAIN s.namespaces |-> s.namespaces[n].request])
  <2> DEFINE h == [n \in DOMAIN s.namespaces |-> s.namespaces[n].request]
  <2>1. \A n \in Named(v) : h[n] = SumOf(Requests(v), KeptIn(v, n))
    BY <1>1, NamespaceRows
  <2>2. DOMAIN h = Named(v)
    BY <1>1
  <2> HIDE DEF h
  <2>3. Total(h) = SumOf(Requests(v), Kept(v))
    BY <1>1, <2>1, <2>2, ColumnsCount, NamespacesAddUp
  <2>4. QED BY <2>3, TotalColumns DEF h
<1>3. s.usage = Total([n \in DOMAIN s.namespaces |-> s.namespaces[n].usage])
  <2> DEFINE h == [n \in DOMAIN s.namespaces |-> s.namespaces[n].usage]
  <2>1. \A n \in Named(v) : h[n] = SumOf(Usages(v), KeptIn(v, n))
    BY <1>1, NamespaceRows
  <2>2. DOMAIN h = Named(v)
    BY <1>1
  <2> HIDE DEF h
  <2>3. Total(h) = SumOf(Usages(v), Kept(v))
    BY <1>1, <2>1, <2>2, ColumnsCount, NamespacesAddUp
  <2>4. QED BY <2>3, TotalColumns DEF h
<1>4. s.egressCost = Total([n \in DOMAIN s.namespaces |-> s.namespaces[n].egressCost])
  <2> DEFINE h == [n \in DOMAIN s.namespaces |-> s.namespaces[n].egressCost]
  <2>1. \A n \in Named(v) : h[n] = SumOf(Costs(v), KeptIn(v, n))
    BY <1>1, NamespaceRows
  <2>2. DOMAIN h = Named(v)
    BY <1>1
  <2> HIDE DEF h
  <2>3. Total(h) = SumOf(Costs(v), Kept(v))
    BY <1>1, <2>1, <2>2, ColumnsCount, NamespacesAddUp
  <2>4. QED BY <2>3, TotalColumns DEF h
<1>5. ASSUME NEW c \in Classes
      PROVE  s.byClass[c] = Total([n \in DOMAIN s.namespaces |-> s.namespaces[n].byClass[c]])
  <2> DEFINE h == [n \in DOMAIN s.namespaces |-> s.namespaces[n].byClass[c]]
  <2>1. \A n \in Named(v) : h[n] = SumOf(ByClass(v, c), KeptIn(v, n))
    BY <1>1, NamespaceRows
  <2>2. DOMAIN h = Named(v)
    BY <1>1
  <2> HIDE DEF h
  <2>3. Total(h) = SumOf(ByClass(v, c), Kept(v))
    BY <1>1, <2>1, <2>2, ColumnsCount, NamespacesAddUp
  <2>4. QED BY <2>3, TotalColumns DEF h
<1>6. QED BY <1>2, <1>3, <1>4, <1>5

(* Egress cost and bytes by class, added up over the network records. *)
LEMMA NetworksTotal ==
    ASSUME NEW v, Collected(v), NEW s, s = Build(v)
    PROVE  /\ s.egressCost = Total([n \in DOMAIN s.networks |-> s.networks[n].cost])
           /\ \A c \in Classes :
                /\ s.byClass[c] = Total([n \in DOMAIN s.networks |-> s.networks[n].byClass[c]])
                /\ s.byClass[c] = Total([p \in DOMAIN s.pods |-> s.pods[p].byClass[c]])
<1> DEFINE N == v.namespaces \cup Sending(v)
<1>1. /\ Listing(v) /\ DOMAIN s.networks = N
      /\ \A n \in N : KeptIn(v, n) \subseteq Kept(v)
  BY SnapshotRows DEF Collected, KeptIn
<1>2. \A r \in Kept(v) : v.network[r.pod] \in [Classes -> Nat]
  BY <1>1, KeptPods, NetworkCounts
<1>3. s.egressCost = Total([n \in DOMAIN s.networks |-> s.networks[n].cost])
  <2> DEFINE h == [n \in DOMAIN s.networks |-> s.networks[n].cost]
  <2>1. \A n \in N : h[n] = SumOf(Costs(v), KeptIn(v, n))
    BY <1>1, NetworkRows
  <2>2. DOMAIN h = N
    BY <1>1
  <2>3. \A r \in Kept(v) : AllBytes(v.network[r.pod]) = 0 => Costs(v)[r] = 0
    BY <1>2, ClassSums DEF Costs
  <2>4. \A r \in Kept(v) : Costs(v)[r] \in Int
    BY ColumnsCount
  <2>5. \A n \in DOMAIN h : h[n] = SumOf(Costs(v), KeptIn(v, n))
    BY <2>1, <2>2
  <2> DEFINE f == Costs(v)
  <2> HIDE DEF h, f
  <2>6. Total(h) = SumOf(f, Kept(v))
    BY <2>2, <2>3, <2>4, <2>5, NetworksAddUp DEF f
  <2>7. QED BY <2>6, TotalColumns DEF h, f
<1>4. ASSUME NEW c \in Classes
      PROVE  s.byClass[c] = Total([n \in DOMAIN s.networks |-> s.networks[n].byClass[c]])
  <2> DEFINE h == [n \in DOMAIN s.networks |-> s.networks[n].byClass[c]]
  <2>1. \A n \in N : h[n] = SumOf(ByClass(v, c), KeptIn(v, n))
    BY <1>1, NetworkRows
  <2>2. DOMAIN h = N
    BY <1>1
  <2>3. \A r \in Kept(v) : AllBytes(v.network[r.pod]) = 0 => ByClass(v, c)[r] = 0
    BY <1>2, ClassSums DEF ByClass
  <2>4. \A r \in Kept(v) : ByClass(v, c)[r] \in Int
    BY ColumnsCount
  <2>5. \A n \in DOMAIN h : h[n] = SumOf(ByClass(v, c), KeptIn(v, n))
    BY <2>1, <2>2
  <2> DEFINE f == ByClass(v, c)
  <2> HIDE DEF h, f
  <2>6. Total(h) = SumOf(f, Kept(v))
    BY <2>2, <2>3, <2>4, <2>5, NetworksAddUp DEF f
  <2>7. QED BY <2>6, TotalColumns DEF h, f
<1>5. ASSUME NEW c \in Classes
      PROVE  s.byClass[c] = Total([p \in DOMAIN s.pods |-> s.pods[p].byClass[c]])
  <2> DEFINE h == [p \in DOMAIN s.pods |-> s.pods[p].byClass[c]]
  <2>1. DOMAIN h = {r.pod : r \in Kept(v)}
    BY <1>1, SnapshotPods
  <2>2. \A r \in Kept(v) : h[r.pod] = ByClass(v, c)[r]
    <3>1. TAKE r \in Kept(v)
    <3>2. s.pods[r.pod].byClass = v.network[r.pod]
      <4>1. s.pods[r.pod] = PodNetwork(v, r)
        BY <1>1, SnapshotPods
      <4>2. PodNetwork(v, r).byClass = v.network[r.pod]
        BY DEF PodNetwork
      <4>3. QED BY <4>1, <4>2
    <3>3. r.pod \in DOMAIN s.pods
      BY <1>1, SnapshotPods
    <3>4. h[r.pod] = s.pods[r.pod].byClass[c]
      BY <3>3
    <3>5. ByClass(v, c)[r] = v.network[r.pod][c]
      BY DEF ByClass
    <3> HIDE DEF h
    <3>6. QED BY <3>2, <3>4, <3>5
  <2> HIDE DEF h
  <2>3. Total(h) = SumOf(ByClass(v, c), Kept(v))
    BY <1>1, <2>1, <2>2, ColumnsCount, PodsAddUp
  <2>4. QED BY <2>3, TotalColumns DEF h
<1>6. QED BY <1>3, <1>4, <1>5

(* As many kept pods as there are names of them. *)
LEMMA PodsCounted ==
    ASSUME NEW v, Listing(v)
    PROVE  Cardinality({r.pod : r \in Kept(v)}) = SumOf(Ones(v), Kept(v))
<1> DEFINE h == [p \in {r.pod : r \in Kept(v)} |-> 1]
<1>1. DOMAIN h = {r.pod : r \in Kept(v)} /\ \A p \in DOMAIN h : h[p] = 1
  OBVIOUS
<1>2. \A r \in Kept(v) : Ones(v)[r] \in Int /\ h[r.pod] = Ones(v)[r]
  BY DEF Ones
<1> HIDE DEF h
<1>3. Total(h) = SumOf(Ones(v), Kept(v)) /\ IsFiniteSet(DOMAIN h)
  BY <1>1, <1>2, PodsAddUp
<1>4. SumOf(h, DOMAIN h) = Cardinality(DOMAIN h)
  BY <1>1, <1>3, SumOfOnes
<1>5. QED BY <1>1, <1>3, <1>4, TotalIsSum

(* Usage and pod count, added up over the nodes. *)
LEMMA NodesTotal ==
    ASSUME NEW v, Collected(v), NEW s, s = Build(v), {r.node : r \in Kept(v)} \subseteq DOMAIN s.nodes
    PROVE  /\ s.usage = Total([n \in DOMAIN s.nodes |-> s.nodes[n].usage])
           /\ Cardinality(DOMAIN s.pods) = Total([n \in DOMAIN s.nodes |-> s.nodes[n].podCount])
<1>1. /\ Listing(v) /\ DOMAIN s.nodes = v.nodes
      /\ \A n \in v.nodes : KeptOn(v, n) \subseteq Kept(v)
  BY SnapshotRows DEF Collected, KeptOn
<1>2. s.usage = Total([n \in DOMAIN s.nodes |-> s.nodes[n].usage])
  <2> DEFINE h == [n \in DOMAIN s.nodes |-> s.nodes[n].usage]
  <2>1. \A n \in v.nodes : h[n] = SumOf(Usages(v), KeptOn(v, n))
    BY <1>1, NodeRows
  <2>2. DOMAIN h = v.nodes
    BY <1>1
  <2> HIDE DEF h
  <2>3. Total(h) = SumOf(Usages(v), Kept(v))
    BY <1>1, <2>1, <2>2, ColumnsCount, NodesAddUp
  <2>4. QED BY <2>3, TotalColumns DEF h
<1>3. Cardinality(DOMAIN s.pods) = Total([n \in DOMAIN s.nodes |-> s.nodes[n].podCount])
  <2> DEFINE h == [n \in DOMAIN s.nodes |-> s.nodes[n].podCount]
  <2>1. \A n \in v.nodes : h[n] = SumOf(Ones(v), KeptOn(v, n))
    BY <1>1, NodeRows
  <2>2. DOMAIN h = v.nodes
    BY <1>1
  <2> HIDE DEF h
  <2>3. Total(h) = SumOf(Ones(v), Kept(v))
    BY <1>1, <2>1, <2>2, ColumnsCount, NodesAddUp
  <2>4. DOMAIN s.pods = {r.pod : r \in Kept(v)}
    BY <1>1, SnapshotPods
  <2>5. QED BY <1>1, <2>3, <2>4, PodsCounted DEF h
<1>4. QED BY <1>2, <1>3

(* The totals of every snapshot are the sums of its namespaces, nodes, pods, network
   records and classes (Build, accumulateNetworkTotals). *)
THEOREM TotalsAddUp == Spec => []AddsUp
<1>1. IInv => AddsUp
  <2> SUFFICES ASSUME IInv, Fresh PROVE AddsUp
    BY DEF AddsUp
  <2>1. Collected(basis) /\ store = Build(basis)
    BY DEF IInv, Fresh
  <2>2. store.egressCost = EgressCost(store.byClass)
    BY <2>1, EgressIsByClass, SnapshotTotals
  <2>3. QED BY <2>1, <2>2, NamespacesTotal, NetworksTotal, NodesTotal DEF AddsUp
<1>2. QED BY <1>1, InvariantHolds, PTL

-----------------------------------------------------------------------------
(* What the pods of a node are charged *)

(* The lesser of two numbers. *)
LEMMA MinOfTwo ==
    ASSUME NEW a \in Nat, NEW b \in Nat
    PROVE  Min({a, b}) \in Nat /\ Min({a, b}) <= a
<1>1. \E x \in {a, b} : \A y \in {a, b} : x <= y
  OBVIOUS
<1>2. Min({a, b}) \in {a, b} /\ \A y \in {a, b} : Min({a, b}) <= y
  BY <1>1 DEF Min
<1>3. QED BY <1>2

(* Division without a rest. *)
LEMMA ExactQuotient ==
    ASSUME NEW m \in Nat, NEW k \in Nat, NEW a \in Nat, a > 0
    PROVE  (m * (k * a)) \div a = m * k
<1> DEFINE x == m * (k * a)
           q == x \div a
           y == m * k
<1>1. x \in Nat /\ y \in Nat /\ x = y * a
  OBVIOUS
<1>2. q \in Nat /\ q * a <= x /\ x < (q + 1) * a
  <2> HIDE DEF x
  <2>1. QED BY <1>1
<1> HIDE DEF x, q, y
<1>3. ~(q < y)
  <2> SUFFICES ASSUME q < y PROVE FALSE
    OBVIOUS
  <2>1. (q + 1) * a <= y * a
    BY <1>1, <1>2
  <2>2. QED BY <1>1, <1>2, <2>1
<1>4. ~(y < q)
  <2> SUFFICES ASSUME y < q PROVE FALSE
    OBVIOUS
  <2>1. (y + 1) * a <= q * a
    BY <1>1, <1>2
  <2>2. QED BY <1>1, <1>2, <2>1
<1>5. q = y
  BY <1>1, <1>2, <1>3, <1>4
<1>6. QED BY <1>5 DEF x, q, y

(* A number and its quotient when there is no rest. *)
LEMMA WholeQuotient ==
    ASSUME NEW p \in Nat, NEW a \in Nat, a > 0, p % a = 0
    PROVE  p \div a \in Nat /\ p = (p \div a) * a
OBVIOUS

(* A share is a whole number, and at most the request at the price of a milli-CPU. *)
LEMMA ShareIsBounded ==
    ASSUME NEW v, Listing(v), NEW r \in Kept(v)
    PROVE  /\ Share(v, r) \in Nat
           /\ r.node \notin v.nodes => Share(v, r) = 0
           /\ r.node \in v.nodes =>
                IF Allocatable[r.node] > 0
                THEN Share(v, r) <= (NodePrice[r.node] \div Allocatable[r.node]) * CpuRequest[r.pod]
                ELSE Share(v, r) = 0
<1>1. r.pod \in Pods /\ CpuRequest[r.pod] \in Nat
  BY KeptPods, PipelineAssumption
<1>2. CASE ~(r.node \in v.nodes /\ Allocatable[r.node] > 0)
  BY <1>2 DEF Share
<1>3. CASE r.node \in v.nodes /\ Allocatable[r.node] > 0
  <2> DEFINE n == r.node
             a == Allocatable[n]
             k == NodePrice[n] \div a
             m == Min({CpuRequest[r.pod], a})
  <2>1. n \in DOMAIN TypeLabels
    BY <1>3, PipelineAssumption DEF Listing
  <2>2. NodePrice[n] \in Nat /\ a \in Nat /\ a > 0 /\ NodePrice[n] % a = 0
    BY <1>3, <2>1, BuilderAssumption
  <2>3. k \in Nat /\ NodePrice[n] = k * a
    <3> DEFINE p == NodePrice[n]
    <3>1. p \in Nat /\ a \in Nat /\ a > 0 /\ p % a = 0
      BY <2>2
    <3> HIDE DEF p, a
    <3>2. p \div a \in Nat /\ p = (p \div a) * a
      BY <3>1, WholeQuotient
    <3>3. QED BY <3>2 DEF p
  <2>4. m \in Nat /\ m <= CpuRequest[r.pod]
    BY <1>1, <2>2, MinOfTwo
  <2>5. Share(v, r) = (m * NodePrice[n]) \div a
    BY <1>3 DEF Share
  <2> DEFINE c == CpuRequest[r.pod]
  <2>6. c \in Nat
    BY <1>1
  <2>7. m <= c
    BY <2>4
  <2> HIDE DEF m, k, a, c
  <2>8. Share(v, r) = m * k
    BY <2>2, <2>3, <2>4, <2>5, ExactQuotient
  <2>9. m * k \in Nat /\ m * k <= k * c
    BY <2>3, <2>4, <2>6, <2>7
  <2>10. QED BY <1>3, <2>8, <2>9 DEF k, a, c
<1>4. QED BY <1>2, <1>3

(* The pods that may run on a node, and the charge for those that count when they fit. *)
OnNode(v, n) == {r \in ToSet(v.pods) : r.node = n /\ r.phase \in {"pending", "running"}}

(* The pods of a node that count are charged at most its price. *)
LEMMA NodeCovers ==
    ASSUME NEW v, Collected(v), NEW n \in v.nodes, Allocatable[n] >= Requested(OnNode(v, n))
    PROVE  SumOf(Shares(v), KeptOn(v, n)) <= NodePrice[n]
<1> DEFINE S == KeptOn(v, n)
           T == OnNode(v, n)
           k == NodePrice[n] \div Allocatable[n]
           q == [r \in T |-> CpuRequest[r.pod]]
           g == [r \in S |-> k * CpuRequest[r.pod]]
<1>1. Listing(v) /\ S \subseteq Kept(v) /\ S \subseteq T /\ \A r \in S : r.node = n
  BY KeptPods DEF Collected, KeptOn, OnNode
<1>2. IsFiniteSet(T) /\ IsFiniteSet(S)
  BY <1>1, KeptPods, FS_Subset DEF OnNode
<1>3. NodePrice[n] \in Nat /\ Allocatable[n] \in Nat
  BY <1>1, PipelineAssumption, BuilderAssumption DEF Listing
<1>4. \A r \in S : Shares(v)[r] = Share(v, r)
  BY <1>1 DEF Shares
<1>5. CASE ~(Allocatable[n] > 0)
  <2>1. \A r \in S : Shares(v)[r] = 0
    BY <1>1, <1>4, <1>5, ShareIsBounded
  <2> HIDE DEF S
  <2>2. SumOf(Shares(v), S) = 0
    BY <1>2, <2>1, SumOfZeros
  <2>3. QED BY <1>3, <2>2 DEF S
<1>6. CASE Allocatable[n] > 0
  <2>1. k \in Nat /\ k * Allocatable[n] = NodePrice[n]
    <3>1. NodePrice[n] % Allocatable[n] = 0
      BY <1>1, <1>6, PipelineAssumption, BuilderAssumption DEF Listing
    <3> DEFINE p == NodePrice[n]
               a == Allocatable[n]
    <3>2. p \in Nat /\ a \in Nat /\ a > 0 /\ p % a = 0
      BY <1>3, <1>6, <3>1
    <3> HIDE DEF p, a
    <3>3. p \div a \in Nat /\ p = (p \div a) * a
      BY <3>2, WholeQuotient
    <3>4. QED BY <3>3 DEF p, a
  <2>2. \A r \in T : q[r] \in Nat
    BY <1>1, KeptPods, PipelineAssumption DEF OnNode
  <2>3. \A r \in S : g[r] = k * q[r] /\ g[r] \in Int
    BY <1>1, <2>1, <2>2
  <2>4. \A r \in S : Shares(v)[r] \in Int /\ Shares(v)[r] <= g[r]
    <3>1. TAKE r \in S
    <3>2. Share(v, r) \in Nat /\ Share(v, r) <= k * CpuRequest[r.pod]
      BY <1>1, <1>6, ShareIsBounded
    <3>3. QED BY <1>4, <3>2
  <2>5. Requested(T) = SumOf(q, T)
    BY TotalOn DEF Requested
  <2> HIDE DEF g, q, S, T, k
  <2>6. SumOf(Shares(v), S) <= SumOf(g, S)
    BY <1>2, <2>3, <2>4, SumLeq
  <2>7. SumOf(g, S) = k * SumOf(q, S)
    <3>1. \A r \in S : q[r] \in Int /\ g[r] = k * q[r]
      BY <1>1, <2>2, <2>3
    <3>2. QED BY <1>2, <2>1, <3>1, SumScale
  <2>8. SumOf(q, S) <= SumOf(q, T) /\ SumOf(q, S) \in Nat /\ SumOf(q, T) \in Nat
    BY <1>1, <1>2, <2>2, SumMonotone
  <2> DEFINE x == SumOf(q, S)
             a == Allocatable[n]
  <2>9. x \in Nat /\ a \in Nat /\ x <= a
    BY <1>3, <2>5, <2>8 DEF T
  <2> HIDE DEF x, a
  <2>10. k * x <= k * a
    BY <2>1, <2>9
  <2>11. SumOf(Shares(v), S) \in Int /\ SumOf(g, S) \in Int
    BY <1>2, <2>3, <2>4, SumInt
  <2>12. QED BY <1>3, <2>1, <2>6, <2>7, <2>10, <2>11 DEF x, a, S
<1>7. QED BY <1>5, <1>6

(* The namespaces together are charged at most the price of all nodes. *)
LEMMA NamespacesCovered ==
    ASSUME NEW v, Collected(v), NEW s, s = Build(v),
           \A n \in v.nodes : Allocatable[n] >= Requested(OnNode(v, n))
    PROVE  Total([n \in DOMAIN s.namespaces |-> s.namespaces[n].hourlyCost]) <= s.nodeCost
<1> DEFINE h == [n \in DOMAIN s.namespaces |-> s.namespaces[n].hourlyCost]
           S == {r \in Kept(v) : r.node \in v.nodes}
           g == [n \in v.nodes |-> SumOf(Shares(v), KeptOn(v, n))]
           p == [n \in v.nodes |-> NodePrice[n]]
           key == [r \in S |-> r.node]
<1>1. Listing(v) /\ IsFiniteSet(Kept(v)) /\ IsFiniteSet(S) /\ S \subseteq Kept(v) /\ IsFiniteSet(v.nodes)
  BY KeptPods, NamesFinite, FS_Subset DEF Collected
<1>2. \A r \in Kept(v) : Shares(v)[r] \in Int /\ (r \notin S => Shares(v)[r] = 0)
  BY <1>1, ShareIsBounded DEF Shares
<1>3. Total(h) = SumOf(Shares(v), Kept(v))
  <2>1. DOMAIN h = Named(v)
    <3>1. DOMAIN s.namespaces = Named(v)
      BY SnapshotRows
    <3>2. QED BY <3>1
  <2>2. \A n \in Named(v) : h[n] = SumOf(Shares(v), KeptIn(v, n))
    BY <2>1, NamespaceRows
  <2> HIDE DEF h
  <2>3. QED BY <1>1, <1>2, <2>1, <2>2, NamespacesAddUp
<1>4. SumOf(Shares(v), Kept(v)) = SumOf(Shares(v), S)
  <2> HIDE DEF S
  <2>1. QED BY <1>1, <1>2, SumSupport
<1>5. SumOf(g, v.nodes) = SumOf(Shares(v), S)
  <2>1. \A r \in S : key[r] \in v.nodes
    OBVIOUS
  <2>2. \A n \in v.nodes : g[n] = SumOf(Shares(v), {r \in S : key[r] = n})
    <3> TAKE n \in v.nodes
    <3>1. KeptOn(v, n) = {r \in S : key[r] = n}
      BY DEF KeptOn
    <3>2. QED BY <3>1
  <2> DEFINE f == Shares(v)
  <2>3. \A r \in S : f[r] \in Int
    BY <1>2
  <2> HIDE DEF S, g, key, f
  <2>4. \A n \in v.nodes : g[n] = SumOf(f, {r \in S : key[r] = n})
    BY <2>2 DEF f
  <2>5. SumOf(g, v.nodes) = SumOf(f, S)
    <3> DEFINE N == v.nodes
    <3>1. IsFiniteSet(S) /\ IsFiniteSet(N)
      BY <1>1
    <3>2. \A r \in S : key[r] \in N
      BY <2>1
    <3>3. \A n \in N : g[n] = SumOf(f, {r \in S : key[r] = n})
      BY <2>4
    <3> HIDE DEF N
    <3>4. SumOf(g, N) = SumOf(f, S)
      BY ONLY <3>1, <3>2, <3>3, <2>3, SumByKey
    <3>5. QED BY <3>4 DEF N
  <2>6. QED BY <2>5 DEF f
<1>6. \A n \in v.nodes : g[n] \in Int /\ p[n] \in Int /\ g[n] <= p[n]
  <2>1. TAKE n \in v.nodes
  <2>2. KeptOn(v, n) \subseteq Kept(v) /\ IsFiniteSet(KeptOn(v, n))
    BY <1>1, FS_Subset DEF KeptOn
  <2>3. SumOf(Shares(v), KeptOn(v, n)) \in Int
    BY <1>2, <2>2, SumInt
  <2>4. NodePrice[n] \in Nat
    BY <1>1, PipelineAssumption, BuilderAssumption DEF Listing
  <2>5. QED BY <2>3, <2>4, NodeCovers
<1>7. s.nodeCost = SumOf(p, v.nodes)
  BY SnapshotTotals, TotalOn
<1> HIDE DEF g, p
<1>8. SumOf(g, v.nodes) <= SumOf(p, v.nodes)
  BY <1>1, <1>6, SumLeq
<1>9. QED BY <1>3, <1>4, <1>5, <1>7, <1>8

(* Namespaces are never charged more than the nodes cost when the requests fit
   (share, totalNodeCost). *)
THEOREM CostsAreCovered == Spec => []CostsCovered
<1>1. IInv => CostsCovered
  <2> SUFFICES ASSUME IInv, Fresh,
                      \A n \in basis.nodes : Allocatable[n] >= Requested(OnNode(basis, n))
               PROVE  Total([n \in DOMAIN store.namespaces |-> store.namespaces[n].hourlyCost])
                        <= store.nodeCost
    BY DEF CostsCovered, OnNode
  <2>1. Collected(basis) /\ store = Build(basis)
    BY DEF IInv, Fresh
  <2>2. QED BY <2>1, NamespacesCovered
<1>2. QED BY <1>1, InvariantHolds, PTL

-----------------------------------------------------------------------------
(* The bytes of flows *)

(* The bytes of each flow, and the flows of a pod. *)
Sizes(v) == [f \in v.flows |-> f.tx]
FlowsOf(v, p) == {f \in v.flows : OwnerOf(v, f.src).pod = p}

(* The flows of a view all have a listed source, and the bytes of a set of them
   are a sum. *)
LEMMA FlowBytes ==
    ASSUME NEW v, Collected(v)
    PROVE  /\ Attributable(v, v.flows) = v.flows
           /\ \A f \in v.flows : Sizes(v)[f] \in Int
           /\ \A S \in SUBSET v.flows : IsFiniteSet(S) /\ Bytes(S) = SumOf(Sizes(v), S)
<1>1. Attributable(v, v.flows) = v.flows
  BY DEF Attributable, Collected
<1>2. \A f \in v.flows : Sizes(v)[f] \in Int
  BY DEF Sizes, Collected
<1>3. IsFiniteSet(v.flows)
  BY DEF Collected
<1>4. ASSUME NEW S \in SUBSET v.flows PROVE IsFiniteSet(S) /\ Bytes(S) = SumOf(Sizes(v), S)
  <2>1. IsFiniteSet(S)
    BY <1>3, FS_Subset
  <2> DEFINE g == [f \in S |-> f.tx]
  <2>2. DOMAIN g = S /\ \A f \in S : g[f] = Sizes(v)[f]
    BY DEF Sizes
  <2>3. Bytes(S) = Total(g)
    BY DEF Bytes
  <2> HIDE DEF g
  <2>4. QED BY <1>3, <2>1, <2>2, <2>3, TotalOfPart
<1>5. QED BY <1>1, <1>2, <1>4

(* The source of every flow is one of the listed pods, and has its address. *)
LEMMA SourceIsListed ==
    ASSUME NEW v, Collected(v), NEW f \in v.flows
    PROVE  /\ OwnerOf(v, f.src) \in ToSet(v.pods) /\ OwnerOf(v, f.src).pod \in Pods
           /\ OwnerOf(v, f.src).ip = f.src
<1>1. Listing(v) /\ Owned(v, f.src)
  BY DEF Collected
<1>2. PICK i \in DOMAIN v.pods : OwnerOf(v, f.src) = v.pods[i] /\ v.pods[i].ip = f.src
  BY <1>1, OwnerIsListed
<1>3. QED BY <1>1, <1>2 DEF Listing, ToSet

(* What the collector says of a pod and a class. *)
LEMMA NetworkOfPod ==
    ASSUME NEW v, Collected(v), NEW p \in Pods, NEW c \in Classes
    PROVE  v.network[p][c] = SumOf(Sizes(v), {f \in FlowsOf(v, p) : ClassOf(v, f) = c})
<1> DEFINE S == {f \in FlowsOf(v, p) : ClassOf(v, f) = c}
<1>1. S \in SUBSET v.flows
  BY DEF FlowsOf
<1>2. v.network[p][c] = Bytes({f \in {g \in v.flows : OwnerOf(v, g.src).pod = p} : ClassOf(v, f) = c})
  BY FlowBytes DEF Collected, PodUsage
<1>3. {f \in {g \in v.flows : OwnerOf(v, g.src).pod = p} : ClassOf(v, f) = c} = S
  BY DEF FlowsOf
<1> HIDE DEF S
<1>4. v.network[p][c] = Bytes(S)
  BY <1>2, <1>3
<1>5. QED BY <1>1, <1>4, FlowBytes DEF S

(* All bytes of a pod are the bytes of its flows: every flow has one class. *)
LEMMA AllOfPod ==
    ASSUME NEW v, Collected(v), NEW p \in Pods
    PROVE  AllBytes(v.network[p]) = SumOf(Sizes(v), FlowsOf(v, p))
<1> DEFINE S == FlowsOf(v, p)
           t == Sizes(v)
           h == v.network[p]
           key == [f \in S |-> ClassOf(v, f)]
<1>1. IsFiniteSet(S) /\ \A f \in S : t[f] \in Int
  <2>1. S \in SUBSET v.flows
    BY DEF FlowsOf
  <2>2. QED BY <2>1, FlowBytes
<1>2. DOMAIN h = Classes
  BY NetworkCounts
<1>3. \A f \in S : key[f] \in Classes
  BY ClassIsOne
<1>4. \A c \in Classes : h[c] = SumOf(t, {f \in S : key[f] = c})
  <2>1. TAKE c \in Classes
  <2>2. {f \in S : ClassOf(v, f) = c} = {f \in S : key[f] = c}
    OBVIOUS
  <2>3. v.network[p][c] = SumOf(Sizes(v), {f \in FlowsOf(v, p) : ClassOf(v, f) = c})
    BY NetworkOfPod
  <2>4. QED BY <2>2, <2>3
<1> HIDE DEF S, t, h, key
<1>5. SumOf(h, Classes) = SumOf(t, S)
  BY ONLY <1>1, <1>3, <1>4, ClassesFinite, SumByKey
<1>6. QED BY <1>2, <1>5, TotalOn DEF AllBytes, S, t, h

-----------------------------------------------------------------------------
(* Attribution *)

(* The flows of a pod that shares its address with no other are those sent from it. *)
LEMMA FlowsOfOnly ==
    ASSUME NEW v, Collected(v), NEW r \in Kept(v),
           \A o \in ToSet(v.pods) : o.ip = r.ip => o = r
    PROVE  /\ FlowsOf(v, r.pod) = {f \in v.flows : f.src = r.ip}
           /\ \A f \in FlowsOf(v, r.pod) : OwnerOf(v, f.src) = r
<1>1. Listing(v) /\ r \in ToSet(v.pods)
  BY KeptPods DEF Collected
<1>2. ASSUME NEW f \in v.flows PROVE OwnerOf(v, f.src).pod = r.pod <=> f.src = r.ip
  BY <1>1, SourceIsListed, KeptPods
<1>3. ASSUME NEW f \in v.flows, OwnerOf(v, f.src).pod = r.pod PROVE OwnerOf(v, f.src) = r
  BY <1>1, <1>3, SourceIsListed, KeptPods
<1>4. QED BY <1>2, <1>3 DEF FlowsOf

(* What a pod sent to pods of its node has the class of such transfers. *)
LEMMA LocalClass ==
    ASSUME NEW v, Collected(v), NEW r \in Kept(v), NEW f \in v.flows, OwnerOf(v, f.src) = r
    PROVE  ClassOf(v, f) = "intra_node"
             <=> \E o \in ToSet(v.pods) : o.ip = f.dst /\ o.node = r.node
<1>1. Listing(v) /\ r \in ToSet(v.pods) /\ r.node # NoNode /\ InScope(r.node)
  BY KeptPods DEF Collected
<1>2. f.dst # NoAddress /\ NodeName # NoNode
  BY DEF Collected
<1>3. Owned(v, f.dst) <=> \E o \in ToSet(v.pods) : o.ip = f.dst
  BY <1>2 DEF Owned, ToSet
<1>4. \A o \in ToSet(v.pods) : o.node = NodeName
  BY <1>1, <1>2, KeptPods DEF InScope
<1>5. ASSUME Owned(v, f.dst) PROVE OwnerOf(v, f.dst).node = r.node
  <2>1. PICK i \in DOMAIN v.pods : OwnerOf(v, f.dst) = v.pods[i]
    BY <1>1, <1>5, OwnerIsListed
  <2>2. v.pods[i] \in ToSet(v.pods)
    BY DEF ToSet
  <2>3. QED BY <1>1, <1>4, <2>1, <2>2
<1>6. CASE Owned(v, f.dst)
  <2>1. ClassOf(v, f) = "intra_node"
    BY <1>1, <1>5, <1>6 DEF ClassOf, ClassifyEgress
  <2>2. QED BY <1>1, <1>3, <1>4, <1>6, <2>1
<1>7. CASE ~Owned(v, f.dst)
  <2>1. ClassOf(v, f) # "intra_node"
    BY <1>7 DEF ClassOf, ClassifyEgress
  <2>2. QED BY <1>3, <1>7, <2>1
<1>8. QED BY <1>6, <1>7

(* No other listed pod has the address of r; what was sent from that address; what of
   it stayed on the node. *)
Alone(v, r) == \A o \in ToSet(v.pods) : o.ip = r.ip => o = r
Mine(v, r)  == {f \in v.flows : f.src = r.ip}
Local(v, r) == {f \in Mine(v, r) : \E o \in ToSet(v.pods) : o.ip = f.dst /\ o.node = r.node}

(* The record of a pod that is alone at its address. *)
LEMMA PodAttributed ==
    ASSUME NEW v, Collected(v), NEW s, s = Build(v), NEW r \in Kept(v), Alone(v, r)
    PROVE  /\ s.pods[r.pod].tx = Bytes(Mine(v, r))
           /\ s.pods[r.pod].byClass["intra_node"] = Bytes(Local(v, r))
<1> DEFINE mine == {f \in v.flows : f.src = r.ip}
           local == {f \in mine : \E o \in ToSet(v.pods) : o.ip = f.dst /\ o.node = r.node}
<1> USE DEF Alone
<1>1. Listing(v) /\ r.pod \in Pods
  BY KeptPods DEF Collected
<1>2. mine = FlowsOf(v, r.pod) /\ mine \in SUBSET v.flows /\ local \in SUBSET v.flows
  BY FlowsOfOnly
<1>3. local = {f \in FlowsOf(v, r.pod) : ClassOf(v, f) = "intra_node"}
  BY <1>2, FlowsOfOnly, LocalClass
<1>4. s.pods[r.pod] = PodNetwork(v, r)
  BY <1>1, SnapshotPods
<1>5. /\ s.pods[r.pod].tx = AllBytes(v.network[r.pod])
      /\ s.pods[r.pod].byClass = v.network[r.pod]
  BY <1>4 DEF PodNetwork
<1>6. AllBytes(v.network[r.pod]) = SumOf(Sizes(v), FlowsOf(v, r.pod))
  BY <1>1, AllOfPod
<1>7. "intra_node" \in Classes
  BY DEF Classes
<1> HIDE DEF mine, local
<1>8. s.pods[r.pod].tx = Bytes(mine)
  BY <1>2, <1>5, <1>6, FlowBytes
<1>9. s.pods[r.pod].byClass["intra_node"] = Bytes(local)
  <2>1. v.network[r.pod]["intra_node"] = SumOf(Sizes(v), local)
    BY <1>1, <1>3, <1>7, NetworkOfPod
  <2>2. QED BY <1>2, <1>5, <2>1, FlowBytes
<1>10. QED BY <1>8, <1>9 DEF mine, local, Mine, Local

(* A pod that shares its address with no other gets all bytes of its flows, and what
   stayed on the node is not charged as leaving it (podByIP, ClassifyEgress). *)
THEOREM BytesAreAttributed == Spec => []Attributed
<1>1. IInv => Attributed
  <2> SUFFICES ASSUME IInv, Fresh PROVE Attributed
    BY DEF Attributed
  <2>1. Collected(basis) /\ store = Build(basis)
    BY DEF IInv, Fresh
  <2>2. ASSUME NEW r \in Kept(basis), Alone(basis, r)
        PROVE  /\ store.pods[r.pod].tx = Bytes(Mine(basis, r))
               /\ store.pods[r.pod].byClass["intra_node"] = Bytes(Local(basis, r))
    BY <2>1, <2>2, PodAttributed
  <2>3. QED BY <2>2 DEF Attributed, Alone, Mine, Local
<1>2. QED BY <1>1, InvariantHolds, PTL

-----------------------------------------------------------------------------
(* Connections *)

(* The bytes of a set of connections are those of the flows they group. *)
LEMMA ConnectionsAddUp ==
    ASSUME NEW v, Collected(v), NEW end, NEW K, K \subseteq DOMAIN Connections(v, end)
    PROVE  SumOver(Connections(v, end), K)
             = SumOf(Sizes(v), {f \in v.flows : ConnectionOf(v, end, f) \in K})
<1> DEFINE t == Sizes(v)
           key == [f \in v.flows |-> ConnectionOf(v, end, f)]
           all == Connections(v, end)
           S == {f \in v.flows : key[f] \in K}
           h == [k \in K |-> all[k]]
<1>1. /\ DOMAIN all = {key[f] : f \in v.flows}
      /\ \A k \in DOMAIN all : all[k] = Bytes({f \in v.flows : key[f] = k})
  <2>1. all = [k \in {ConnectionOf(v, end, f) : f \in v.flows} |->
                 Bytes({f \in v.flows : ConnectionOf(v, end, f) = k})]
    BY FlowBytes DEF Connections
  <2>2. \A k : {f \in v.flows : ConnectionOf(v, end, f) = k} = {f \in v.flows : key[f] = k}
    OBVIOUS
  <2>3. {ConnectionOf(v, end, f) : f \in v.flows} = {key[f] : f \in v.flows}
    OBVIOUS
  <2> HIDE DEF all, key
  <2>4. QED BY <2>1, <2>2, <2>3
<1>2. IsFiniteSet(K)
  <2>1. IsFiniteSet(v.flows)
    BY DEF Collected
  <2> DEFINE D == DOMAIN all
  <2>2. (\A f \in v.flows : key[f] \in D) /\ (\A k \in D : \E f \in v.flows : k = key[f])
    BY <1>1
  <2> HIDE DEF key, D
  <2>3. IsFiniteSet(D)
    BY <2>1, <2>2, FiniteImage
  <2>4. QED BY <2>3, FS_Subset DEF D
<1>3. IsFiniteSet(S) /\ \A f \in S : t[f] \in Int /\ key[f] \in K
  <2>1. S \in SUBSET v.flows
    OBVIOUS
  <2>2. QED BY <2>1, FlowBytes
<1>4. \A k \in K : h[k] = SumOf(t, {f \in S : key[f] = k})
  <2>1. TAKE k \in K
  <2>2. {f \in v.flows : key[f] = k} = {f \in S : key[f] = k}
    OBVIOUS
  <2>3. {f \in S : key[f] = k} \in SUBSET v.flows
    OBVIOUS
  <2>4. h[k] = Bytes({f \in S : key[f] = k})
    BY <1>1, <2>2
  <2>5. QED BY <2>3, <2>4, FlowBytes
<1>5. S = {f \in v.flows : ConnectionOf(v, end, f) \in K}
  OBVIOUS
<1>6. SumOver(all, K) = SumOf(h, K)
  <2>1. SumOver(all, K) = Total(h) /\ DOMAIN h = K
    BY DEF SumOver
  <2> HIDE DEF h
  <2>2. QED BY <2>1, TotalOn
<1> HIDE DEF t, key, S, h
<1>7. SumOf(h, K) = SumOf(t, S)
  <2>1. IsFiniteSet(S) /\ (\A f \in S : t[f] \in Int) /\ (\A f \in S : key[f] \in K)
    BY <1>3
  <2>2. QED BY ONLY <1>2, <1>4, <2>1, SumByKey
<1>8. QED BY <1>5, <1>6, <1>7 DEF t

(* Where the flows of a namespace and class are found in a grouping. *)
LEMMA ConnectionsFrom ==
    ASSUME NEW v, Collected(v), NEW n, NEW c, NEW end \in {PodEnd, NamespaceEnd, WorkloadEnd}
    PROVE  SumOver(Connections(v, end), From(Connections(v, end), n, c))
             = SumOf(Sizes(v), {f \in v.flows : ClassOf(v, f) = c
                                                /\ NamespaceOf[OwnerOf(v, f.src).pod] = n})
<1> DEFINE all == Connections(v, end)
           K == From(all, n, c)
<1>1. K \subseteq DOMAIN all
  BY DEF From
<1>2. DOMAIN all = {ConnectionOf(v, end, f) : f \in v.flows}
  BY FlowBytes DEF Connections
<1>3. ASSUME NEW p \in Pods
      PROVE  (IF end[p][1] = "namespace" THEN end[p][3] ELSE end[p][2]) = NamespaceOf[p]
  <2>1. CASE end = PodEnd
    BY <2>1 DEF PodEnd
  <2>2. CASE end = NamespaceEnd
    BY <2>2 DEF NamespaceEnd
  <2>3. CASE end = WorkloadEnd
    BY <2>3 DEF WorkloadEnd
  <2>4. QED BY <2>1, <2>2, <2>3
<1>4. ASSUME NEW f \in v.flows
      PROVE  ConnectionOf(v, end, f) \in K
               <=> ClassOf(v, f) = c /\ NamespaceOf[OwnerOf(v, f.src).pod] = n
  <2> DEFINE k == ConnectionOf(v, end, f)
  <2>1. k \in DOMAIN all
    BY <1>2
  <2>2. k[1] = end[OwnerOf(v, f.src).pod] /\ k[3] = ClassOf(v, f)
    BY DEF ConnectionOf
  <2>3. (IF k[1][1] = "namespace" THEN k[1][3] ELSE k[1][2]) = NamespaceOf[OwnerOf(v, f.src).pod]
    BY <1>3, <2>2, SourceIsListed
  <2> HIDE DEF k, all
  <2>4. QED BY <2>1, <2>2, <2>3 DEF From, k
<1>5. {f \in v.flows : ConnectionOf(v, end, f) \in K}
        = {f \in v.flows : ClassOf(v, f) = c /\ NamespaceOf[OwnerOf(v, f.src).pod] = n}
  BY <1>4
<1> HIDE DEF K
<1>6. SumOver(all, K) = SumOf(Sizes(v), {f \in v.flows : ConnectionOf(v, end, f) \in K})
  BY <1>1, ConnectionsAddUp
<1>7. QED BY <1>5, <1>6 DEF K

(* The network record of a pod tells what its connections do. *)
LEMMA ConnectionsOfPod ==
    ASSUME NEW v, Collected(v), NEW p \in Pods, NEW c \in Classes
    PROVE  v.network[p][c] = SumOver(Connections(v, PodEnd),
                               {k \in DOMAIN Connections(v, PodEnd) : k[1] = PodEnd[p] /\ k[3] = c})
<1> DEFINE all == Connections(v, PodEnd)
           K == {k \in DOMAIN all : k[1] = PodEnd[p] /\ k[3] = c}
<1>1. K \subseteq DOMAIN all
  OBVIOUS
<1>2. DOMAIN all = {ConnectionOf(v, PodEnd, f) : f \in v.flows}
  BY FlowBytes DEF Connections
<1>3. \A o \in Pods : PodEnd[o] = PodEnd[p] <=> o = p
  BY DEF PodEnd
<1>4. ASSUME NEW f \in v.flows
      PROVE  ConnectionOf(v, PodEnd, f) \in K <=> OwnerOf(v, f.src).pod = p /\ ClassOf(v, f) = c
  <2> DEFINE k == ConnectionOf(v, PodEnd, f)
  <2>1. k \in DOMAIN all
    BY <1>2
  <2>2. k[1] = PodEnd[OwnerOf(v, f.src).pod] /\ k[3] = ClassOf(v, f)
    BY DEF ConnectionOf
  <2>3. k[1] = PodEnd[p] <=> OwnerOf(v, f.src).pod = p
    BY <1>3, <2>2, SourceIsListed
  <2> HIDE DEF k, all
  <2>4. QED BY <2>1, <2>2, <2>3 DEF k
<1>5. {f \in v.flows : ConnectionOf(v, PodEnd, f) \in K} = {f \in FlowsOf(v, p) : ClassOf(v, f) = c}
  BY <1>4 DEF FlowsOf
<1> HIDE DEF K
<1>6. SumOver(all, K) = SumOf(Sizes(v), {f \in v.flows : ConnectionOf(v, PodEnd, f) \in K})
  BY <1>1, ConnectionsAddUp
<1>7. QED BY <1>5, <1>6, NetworkOfPod DEF K

-----------------------------------------------------------------------------
(* Services *)

(* Where no two slices share an address, one of them is all there is for it. *)
LEMMA OneSlice ==
    ASSUME NEW v, SlicesApart(v), NEW a, NEW x \in SlicesFor(v, a)
    PROVE  /\ ServiceEnds(v, a) = {ServiceEnd(x.service)}
           /\ Times(v, a, ServiceEnd(x.service)) = 1
<1>1. SlicesFor(v, a) = {x}
  <2>1. ASSUME NEW y \in SlicesFor(v, a), y # x PROVE FALSE
    BY <2>1 DEF SlicesFor, SlicesApart
  <2>2. QED BY <2>1
<1>2. ServiceEnds(v, a) = {ServiceEnd(x.service)}
  BY <1>1 DEF ServiceEnds
<1>3. {y \in SlicesFor(v, a) : ServiceEnd(y.service) = ServiceEnd(x.service)} = {x}
  BY <1>1
<1>4. Times(v, a, ServiceEnd(x.service)) = 1
  BY <1>3, FS_Singleton DEF Times
<1>5. QED BY <1>2, <1>4

(* So a flow has one key at most, and is counted once under it. *)
LEMMA OneKey ==
    ASSUME NEW v, SlicesApart(v), NEW f, NEW k \in ServiceKeys(v, f)
    PROVE  ServiceKeys(v, f) = {k} /\ Weight(v, f, k) = 1
<1> DEFINE E == ServiceEnds(v, f.src)
           D == ToServices(v, f)
           c == ClassOf(v, f)
<1>1. PICK e \in E, d \in D : k = <<e, d, c>>
  BY DEF ServiceKeys
<1>2. PICK x \in SlicesFor(v, f.src) : e = ServiceEnd(x.service)
  BY DEF ServiceEnds
<1>3. E = {e} /\ Times(v, f.src, e) = 1
  BY <1>2, OneSlice
<1>4. D = {d} /\ (d[1] = "service" => Times(v, f.dst, d) = 1)
  <2>1. CASE Owned(v, f.dst) /\ ServiceEnds(v, f.dst) # {}
    <3>1. D = ServiceEnds(v, f.dst)
      BY <2>1 DEF ToServices
    <3>2. PICK y \in SlicesFor(v, f.dst) : d = ServiceEnd(y.service)
      BY <3>1 DEF ServiceEnds
    <3>3. QED BY <3>1, <3>2, OneSlice
  <2>2. CASE ~(Owned(v, f.dst) /\ ServiceEnds(v, f.dst) # {})
    <3>1. D = {External(c)} /\ d = External(c)
      BY <2>2 DEF ToServices
    <3>2. External(c)[1] = "external"
      BY DEF External
    <3> HIDE DEF D, c
    <3>3. d[1] # "service"
      BY <3>1, <3>2
    <3>4. QED BY <3>1, <3>3
  <2>3. QED BY <2>1, <2>2
<1>5. k[1] = e /\ k[2] = d
  BY <1>1
<1>6. Weight(v, f, k) = 1
  <2>1. Times(v, f.src, k[1]) = 1
    BY <1>3, <1>5
  <2>2. (IF k[2][1] = "service" THEN Times(v, f.dst, k[2]) ELSE 1) = 1
    BY <1>4, <1>5
  <2>3. QED BY <2>1, <2>2 DEF Weight
<1>7. ServiceKeys(v, f) = {k}
  <2>1. ServiceKeys(v, f) = E \X D \X {c}
    BY DEF ServiceKeys
  <2> HIDE DEF E, D, c
  <2>2. QED BY <1>1, <1>3, <1>4, <2>1
<1>8. QED BY <1>6, <1>7

(* The keys of ServiceConnections are those of flows, and its values sum their bytes. *)
LEMMA ServiceBytes ==
    ASSUME NEW v, Collected(v), SlicesApart(v)
    PROVE  /\ \A k : k \in DOMAIN ServiceConnections(v) <=> \E f \in v.flows : k \in ServiceKeys(v, f)
           /\ \A k \in DOMAIN ServiceConnections(v) :
                 ServiceConnections(v)[k] = Bytes({f \in v.flows : k \in ServiceKeys(v, f)})
<1> DEFINE D == UNION {ServiceKeys(v, f) : f \in v.flows}
           S(k) == {f \in v.flows : k \in ServiceKeys(v, f)}
           g(k) == [f \in S(k) |-> f.tx * Weight(v, f, k)]
<1>1. ServiceConnections(v) = [k \in D |-> Total(g(k))]
  BY FlowBytes DEF ServiceConnections
<1>2. ASSUME NEW k PROVE Total(g(k)) = Bytes(S(k))
  <2>1. \A f \in S(k) : f.tx * Weight(v, f, k) = f.tx
    <3>1. TAKE f \in S(k)
    <3>2. Weight(v, f, k) = 1
      BY OneKey
    <3>3. f.tx \in Nat
      BY DEF Collected
    <3>4. QED BY <3>2, <3>3
  <2>2. g(k) = [f \in S(k) |-> f.tx]
    <3> HIDE DEF S
    <3>1. QED BY <2>1
  <2>3. QED BY <2>2 DEF Bytes
<1>3. \A k : k \in D <=> \E f \in v.flows : k \in ServiceKeys(v, f)
  OBVIOUS
<1>4. DOMAIN ServiceConnections(v) = D /\ \A k \in D : ServiceConnections(v)[k] = Total(g(k))
  <2> HIDE DEF D, g
  <2>1. QED BY <1>1
<1>5. \A k \in D : ServiceConnections(v)[k] = Bytes(S(k))
  <2> HIDE DEF D, g, S
  <2>1. QED BY <1>2, <1>4
<1>6. QED BY <1>3, <1>4, <1>5

(* The bytes of a set of connections of services are those of the flows under them. *)
LEMMA ServicesAddUp ==
    ASSUME NEW v, Collected(v), SlicesApart(v), NEW K, K \subseteq DOMAIN ServiceConnections(v)
    PROVE  SumOver(ServiceConnections(v), K)
             = SumOf(Sizes(v), {f \in v.flows : \E k \in ServiceKeys(v, f) : k \in K})
<1> DEFINE t == Sizes(v)
           all == ServiceConnections(v)
           S == {f \in v.flows : \E k \in ServiceKeys(v, f) : k \in K}
           key == [f \in S |-> CHOOSE k \in ServiceKeys(v, f) : TRUE]
           h == [k \in K |-> all[k]]
<1>1. \A f \in S : key[f] \in K /\ \A k \in K : k \in ServiceKeys(v, f) <=> key[f] = k
  <2>1. TAKE f \in S
  <2>2. PICK k \in ServiceKeys(v, f) : k \in K
    OBVIOUS
  <2>3. ServiceKeys(v, f) = {k}
    BY OneKey
  <2>4. key[f] = k
    BY <2>3
  <2>5. QED BY <2>2, <2>3, <2>4
<1>2. S \in SUBSET v.flows
  OBVIOUS
<1>3. IsFiniteSet(S) /\ \A f \in S : t[f] \in Int
  BY <1>2, FlowBytes
<1>4. \A k \in K : \E f \in S : k = key[f]
  <2>1. TAKE k \in K
  <2>2. PICK f \in v.flows : k \in ServiceKeys(v, f)
    BY ServiceBytes
  <2>3. f \in S
    BY <2>2
  <2> HIDE DEF S, key
  <2>4. QED BY <1>1, <2>2, <2>3
<1>5. \A k \in K : {f \in v.flows : k \in ServiceKeys(v, f)} = {f \in S : key[f] = k}
  <2>1. TAKE k \in K
  <2>2. \A f \in v.flows : k \in ServiceKeys(v, f) => f \in S
    OBVIOUS
  <2> HIDE DEF S, key
  <2>3. QED BY <1>1, <1>2, <2>2
<1>6. \A k \in K : h[k] = SumOf(t, {f \in S : key[f] = k})
  <2>1. TAKE k \in K
  <2> DEFINE T == {f \in v.flows : k \in ServiceKeys(v, f)}
  <2>2. h[k] = Bytes(T)
    BY ServiceBytes
  <2>3. T \in SUBSET v.flows
    OBVIOUS
  <2>4. Bytes(T) = SumOf(t, T)
    BY <2>3, FlowBytes
  <2>5. T = {f \in S : key[f] = k}
    BY <1>5
  <2> HIDE DEF T, S, key, h, t
  <2>6. QED BY <2>2, <2>4, <2>5
<1>7. SumOver(all, K) = SumOf(h, K)
  <2>1. SumOver(all, K) = Total(h) /\ DOMAIN h = K
    BY DEF SumOver
  <2> HIDE DEF h
  <2>2. QED BY <2>1, TotalOn
<1> HIDE DEF t, key, S, h, all
<1>8. IsFiniteSet(K)
  <2>1. \A f \in S : key[f] \in K
    BY <1>1
  <2>2. QED BY ONLY <1>3, <1>4, <2>1, FiniteImage
<1>9. SumOf(h, K) = SumOf(t, S)
  <2>1. IsFiniteSet(S) /\ (\A f \in S : t[f] \in Int) /\ (\A f \in S : key[f] \in K)
    BY <1>1, <1>3
  <2>2. QED BY ONLY <1>6, <1>8, <2>1, SumByKey
<1>10. QED BY <1>7, <1>9 DEF t, S, all

(* The address of a listed pod belongs to a service exactly if the pod is behind it. *)
LEMMA BehindService ==
    ASSUME NEW v, Listing(v), NEW a, Owned(v, a), NEW s \in v.services
    PROVE  /\ OwnerOf(v, a).pod \in Pods
           /\ ServiceEnd(s) \in ServiceEnds(v, a) <=> OwnerOf(v, a).pod \in Backing(v, s)
<1>1. PICK i \in DOMAIN v.pods : OwnerOf(v, a) = v.pods[i] /\ v.pods[i].ip = a
  BY OwnerIsListed
<1>2. v.pods[i].pod \in Pods /\ \A o \in ToSet(v.pods) : o.pod = v.pods[i].pod => o = v.pods[i]
  BY DEF Listing, ToSet
<1>3. v.pods[i] \in ToSet(v.pods)
  BY DEF ToSet
<1>4. ServiceEnd(s) \in ServiceEnds(v, a) <=> \E x \in v.slices : a \in x.addresses /\ x.service = s
  <2>1. \A x : ServiceEnd(x) = ServiceEnd(s) <=> x = s
    BY DEF ServiceEnd
  <2>2. ServiceEnd(s) \in ServiceEnds(v, a) <=> \E x \in SlicesFor(v, a) : x.service = s
    BY <2>1 DEF ServiceEnds
  <2>3. QED BY <2>2 DEF SlicesFor
<1>5. v.pods[i].pod \in Backing(v, s) <=> \E x \in v.slices : x.service = s /\ v.pods[i].ip \in x.addresses
  BY <1>2, <1>3 DEF Backing
<1>6. QED BY <1>1, <1>2, <1>4, <1>5

(* The flows of a class that leave a service, and those between two services. *)
Leaving(v, s, c) == {f \in v.flows : ClassOf(v, f) = c /\ ServiceEnd(s) \in ServiceEnds(v, f.src)}
Between(v, s, d, c) ==
    {f \in Leaving(v, s, c) : Owned(v, f.dst) /\ ServiceEnd(d) \in ServiceEnds(v, f.dst)}

(* Where ServiceConnections has them. *)
LEMMA ServiceSends ==
    ASSUME NEW v, Collected(v), SlicesApart(v), NEW s \in v.services, NEW c \in Classes
    PROVE  LET all == ServiceConnections(v)
               sent == {k \in DOMAIN all : k[1] = ServiceEnd(s) /\ k[3] = c}
           IN /\ SumOver(all, sent) = SumOf(Sizes(v), Leaving(v, s, c))
              /\ \A d \in v.services : SumOver(all, {k \in sent : k[2] = ServiceEnd(d)})
                                         = SumOf(Sizes(v), Between(v, s, d, c))
<1> DEFINE all == ServiceConnections(v)
           sent == {k \in DOMAIN all : k[1] = ServiceEnd(s) /\ k[3] = c}
           at(d) == {k \in sent : k[2] = ServiceEnd(d)}
<1>1. ASSUME NEW f \in v.flows
      PROVE  \A k : k \in ServiceKeys(v, f) <=>
               \E e \in ServiceEnds(v, f.src), d \in ToServices(v, f) : k = <<e, d, ClassOf(v, f)>>
  BY DEF ServiceKeys
<1>2. ASSUME NEW f \in v.flows PROVE \A k \in ServiceKeys(v, f) : k \in DOMAIN all
  BY ServiceBytes
<1>3. ASSUME NEW f \in v.flows PROVE ToServices(v, f) # {}
  BY DEF ToServices
<1>4. ASSUME NEW f \in v.flows, NEW d
      PROVE  ServiceEnd(d) \in ToServices(v, f)
               <=> Owned(v, f.dst) /\ ServiceEnd(d) \in ServiceEnds(v, f.dst)
  <2>1. ServiceEnd(d) # External(ClassOf(v, f))
    <3>1. ServiceEnd(d)[1] = "service" /\ External(ClassOf(v, f))[1] = "external"
      BY DEF ServiceEnd, External
    <3>2. QED BY <3>1
  <2>2. QED BY <2>1 DEF ToServices
<1>5. ASSUME NEW f \in v.flows
      PROVE  (\E k \in ServiceKeys(v, f) : k \in sent) <=> f \in Leaving(v, s, c)
  <2>1. ASSUME NEW k \in ServiceKeys(v, f), k \in sent PROVE f \in Leaving(v, s, c)
    <3>1. PICK e \in ServiceEnds(v, f.src), d \in ToServices(v, f) : k = <<e, d, ClassOf(v, f)>>
      BY <1>1
    <3>2. k[1] = e /\ k[3] = ClassOf(v, f)
      BY <3>1
    <3>3. QED BY <2>1, <3>2 DEF Leaving
  <2>2. ASSUME f \in Leaving(v, s, c) PROVE \E k \in ServiceKeys(v, f) : k \in sent
    <3>1. PICK d \in ToServices(v, f) : TRUE
      BY <1>3
    <3> DEFINE k == <<ServiceEnd(s), d, ClassOf(v, f)>>
    <3>2. k \in ServiceKeys(v, f)
      BY <1>1, <2>2 DEF Leaving
    <3>3. k[1] = ServiceEnd(s) /\ k[3] = c
      BY <2>2 DEF Leaving
    <3>4. k \in DOMAIN all
      BY <1>2, <3>2
    <3> HIDE DEF k
    <3>5. QED BY <3>2, <3>3, <3>4
  <2>3. QED BY <2>1, <2>2
<1>6. ASSUME NEW f \in v.flows, NEW d \in v.services
      PROVE  (\E k \in ServiceKeys(v, f) : k \in at(d)) <=> f \in Between(v, s, d, c)
  <2>1. ASSUME NEW k \in ServiceKeys(v, f), k \in at(d) PROVE f \in Between(v, s, d, c)
    <3>1. f \in Leaving(v, s, c)
      BY <1>5, <2>1
    <3>2. PICK e \in ServiceEnds(v, f.src), x \in ToServices(v, f) : k = <<e, x, ClassOf(v, f)>>
      BY <1>1
    <3>3. x = ServiceEnd(d)
      BY <2>1, <3>2
    <3>4. QED BY <1>4, <3>1, <3>3 DEF Between
  <2>2. ASSUME f \in Between(v, s, d, c) PROVE \E k \in ServiceKeys(v, f) : k \in at(d)
    <3> DEFINE k == <<ServiceEnd(s), ServiceEnd(d), ClassOf(v, f)>>
    <3>1. f \in Leaving(v, s, c) /\ ServiceEnd(d) \in ToServices(v, f)
      BY <1>4, <2>2 DEF Between
    <3>2. k \in ServiceKeys(v, f)
      BY <1>1, <3>1 DEF Leaving
    <3>3. k[1] = ServiceEnd(s) /\ k[2] = ServiceEnd(d) /\ k[3] = c
      BY <3>1 DEF Leaving
    <3>4. k \in DOMAIN all
      BY <1>2, <3>2
    <3> HIDE DEF k
    <3>5. QED BY <3>2, <3>3, <3>4
  <2>3. QED BY <2>1, <2>2
<1>7. SumOver(all, sent) = SumOf(Sizes(v), Leaving(v, s, c))
  <2>1. {f \in v.flows : \E k \in ServiceKeys(v, f) : k \in sent} = Leaving(v, s, c)
    <3> HIDE DEF sent
    <3>1. QED BY <1>5 DEF Leaving
  <2>2. sent \subseteq DOMAIN all
    OBVIOUS
  <2> HIDE DEF sent
  <2>3. QED BY <2>1, <2>2, ServicesAddUp
<1>8. ASSUME NEW d \in v.services
      PROVE  SumOver(all, at(d)) = SumOf(Sizes(v), Between(v, s, d, c))
  <2> DEFINE K == at(d)
  <2>1. {f \in v.flows : \E k \in ServiceKeys(v, f) : k \in K} = Between(v, s, d, c)
    <3>1. \A f \in v.flows : (\E k \in ServiceKeys(v, f) : k \in K) <=> f \in Between(v, s, d, c)
      BY <1>6
    <3> HIDE DEF K
    <3>2. QED BY <3>1 DEF Between, Leaving
  <2>2. K \subseteq DOMAIN all
    OBVIOUS
  <2> HIDE DEF K
  <2>3. SumOver(all, K) = SumOf(Sizes(v), Between(v, s, d, c))
    BY <2>1, <2>2, ServicesAddUp
  <2>4. QED BY <2>3 DEF K
<1>9. QED BY <1>7, <1>8

(* Where the connections of the pods behind them have them. *)
LEMMA PodsBehindSend ==
    ASSUME NEW v, Collected(v), NEW s \in v.services, NEW c \in Classes
    PROVE  LET all == Connections(v, PodEnd)
               pods == {k \in DOMAIN all : k[3] = c /\ \E p \in Backing(v, s) : k[1] = PodEnd[p]}
           IN /\ SumOver(all, pods) = SumOf(Sizes(v), Leaving(v, s, c))
              /\ \A d \in v.services :
                    SumOver(all, {k \in pods : \E p \in Backing(v, d) : k[2] = PodEnd[p]})
                      = SumOf(Sizes(v), Between(v, s, d, c))
<1> DEFINE all == Connections(v, PodEnd)
           pods == {k \in DOMAIN all : k[3] = c /\ \E p \in Backing(v, s) : k[1] = PodEnd[p]}
           at(d) == {k \in pods : \E p \in Backing(v, d) : k[2] = PodEnd[p]}
           conn(f) == ConnectionOf(v, PodEnd, f)
<1>1. DOMAIN all = {ConnectionOf(v, PodEnd, f) : f \in v.flows}
  BY FlowBytes DEF Connections
<1>2. Listing(v) /\ \A f \in v.flows : Owned(v, f.src)
  BY DEF Collected
<1>3. \A p, q \in Pods : PodEnd[p] = PodEnd[q] <=> p = q
  BY DEF PodEnd
<1>4. \A d : Backing(v, d) \subseteq Pods
  BY <1>2, KeptPods DEF Backing
<1>5. ASSUME NEW f \in v.flows
      PROVE  /\ conn(f)[1] = PodEnd[OwnerOf(v, f.src).pod]
             /\ conn(f)[2] = (IF Owned(v, f.dst) THEN PodEnd[OwnerOf(v, f.dst).pod]
                              ELSE External(ClassOf(v, f)))
             /\ conn(f)[3] = ClassOf(v, f)
             /\ conn(f) \in DOMAIN all
  BY <1>1 DEF ConnectionOf
<1> HIDE DEF conn, all
<1>6. ASSUME NEW f \in v.flows PROVE conn(f) \in pods <=> f \in Leaving(v, s, c)
  <2>1. /\ OwnerOf(v, f.src).pod \in Pods
        /\ ServiceEnd(s) \in ServiceEnds(v, f.src) <=> OwnerOf(v, f.src).pod \in Backing(v, s)
    BY <1>2, BehindService
  <2>2. (\E p \in Backing(v, s) : conn(f)[1] = PodEnd[p]) <=> OwnerOf(v, f.src).pod \in Backing(v, s)
    BY <1>3, <1>4, <1>5, <2>1
  <2>3. QED BY <1>5, <2>1, <2>2 DEF Leaving
<1>7. ASSUME NEW f \in v.flows, NEW d \in v.services
      PROVE  conn(f) \in at(d) <=> f \in Between(v, s, d, c)
  <2>1. (\E p \in Backing(v, d) : conn(f)[2] = PodEnd[p])
          <=> Owned(v, f.dst) /\ ServiceEnd(d) \in ServiceEnds(v, f.dst)
    <3>1. CASE Owned(v, f.dst)
      <4>1. /\ OwnerOf(v, f.dst).pod \in Pods
            /\ ServiceEnd(d) \in ServiceEnds(v, f.dst) <=> OwnerOf(v, f.dst).pod \in Backing(v, d)
        BY <1>2, <3>1, BehindService
      <4>2. conn(f)[2] = PodEnd[OwnerOf(v, f.dst).pod]
        BY <1>5, <3>1
      <4>3. QED BY <1>3, <1>4, <3>1, <4>1, <4>2
    <3>2. CASE ~Owned(v, f.dst)
      <4>1. conn(f)[2] = External(ClassOf(v, f))
        BY <1>5, <3>2
      <4>2. \A p \in Pods : PodEnd[p] # External(ClassOf(v, f))
        <5>1. TAKE p \in Pods
        <5>2. PodEnd[p][1] = "pod" /\ External(ClassOf(v, f))[1] = "external"
          BY DEF PodEnd, External
        <5>3. QED BY <5>2
      <4>3. QED BY <1>4, <3>2, <4>1, <4>2
    <3>3. QED BY <3>1, <3>2
  <2> HIDE DEF pods
  <2>2. QED BY <1>6, <2>1 DEF Between
<1>8. SumOver(all, pods) = SumOf(Sizes(v), Leaving(v, s, c))
  <2>1. {f \in v.flows : ConnectionOf(v, PodEnd, f) \in pods} = Leaving(v, s, c)
    <3> HIDE DEF pods
    <3>1. QED BY <1>6 DEF Leaving, conn
  <2>2. pods \subseteq DOMAIN all
    OBVIOUS
  <2> HIDE DEF pods
  <2>3. QED BY <2>1, <2>2, ConnectionsAddUp DEF all
<1>9. ASSUME NEW d \in v.services
      PROVE  SumOver(all, at(d)) = SumOf(Sizes(v), Between(v, s, d, c))
  <2> DEFINE K == at(d)
  <2>1. {f \in v.flows : ConnectionOf(v, PodEnd, f) \in K} = Between(v, s, d, c)
    <3>1. \A f \in v.flows : conn(f) \in K <=> f \in Between(v, s, d, c)
      BY <1>7
    <3> HIDE DEF K
    <3>2. QED BY <3>1 DEF Between, Leaving, conn
  <2>2. K \subseteq DOMAIN all
    OBVIOUS
  <2> HIDE DEF K
  <2>3. SumOver(all, K) = SumOf(Sizes(v), Between(v, s, d, c))
    BY <2>1, <2>2, ConnectionsAddUp DEF all
  <2>4. QED BY <2>3 DEF K
<1>10. QED BY <1>8, <1>9 DEF all

(* Services and the pods behind them tell the same bytes (servicesForIP and podByIP),
   as long as no address is in two slices. *)
LEMMA ServicesTellTheSame == IInv => ServicesAgree
<1> SUFFICES ASSUME IInv, Fresh, SlicesApart(basis) PROVE ServicesAgree
  BY DEF ServicesAgree
<1>1. Collected(basis) /\ store = Build(basis)
  BY DEF IInv, Fresh
<1>2. /\ store.podConnections = Connections(basis, PodEnd)
      /\ store.serviceConnections = ServiceConnections(basis)
  BY <1>1 DEF Build
<1> DEFINE all == store.serviceConnections
           one == store.podConnections
           sent(s, c) == {k \in DOMAIN all : k[1] = ServiceEnd(s) /\ k[3] = c}
           pods(s, c) == {k \in DOMAIN one : k[3] = c /\ \E p \in Backing(basis, s) : k[1] = PodEnd[p]}
<1>3. ASSUME NEW s \in basis.services, NEW c \in Classes
      PROVE  /\ SumOver(all, sent(s, c)) = SumOver(one, pods(s, c))
             /\ \A d \in basis.services :
                   SumOver(all, {k \in sent(s, c) : k[2] = ServiceEnd(d)})
                     = SumOver(one, {k \in pods(s, c) : \E p \in Backing(basis, d) : k[2] = PodEnd[p]})
  <2>1. /\ SumOver(all, sent(s, c)) = SumOf(Sizes(basis), Leaving(basis, s, c))
        /\ \A d \in basis.services : SumOver(all, {k \in sent(s, c) : k[2] = ServiceEnd(d)})
                                       = SumOf(Sizes(basis), Between(basis, s, d, c))
    BY <1>1, <1>2, <1>3, ServiceSends
  <2>2. /\ SumOver(one, pods(s, c)) = SumOf(Sizes(basis), Leaving(basis, s, c))
        /\ \A d \in basis.services :
              SumOver(one, {k \in pods(s, c) : \E p \in Backing(basis, d) : k[2] = PodEnd[p]})
                = SumOf(Sizes(basis), Between(basis, s, d, c))
    BY <1>1, <1>2, <1>3, PodsBehindSend
  <2> HIDE DEF sent, pods, all, one
  <2>3. QED BY <2>1, <2>2
<1>4. QED BY <1>3 DEF ServicesAgree

-----------------------------------------------------------------------------
(* Every view of the bytes *)

(* The collector's records and the three groupings of the builder tell the same bytes,
   services and the pods behind them do as long as no address is in two slices, and
   the API shows what the report said (NetworkCollection, accumulateConnection). *)
THEOREM ViewsAlwaysAgree == Spec => []ViewsAgree
<1>1. IInv => ViewsAgree
  <2> SUFFICES ASSUME IInv PROVE ViewsAgree
    OBVIOUS
  <2>1. pc = "wait" => report = store
    BY DEF IInv
  <2>2. ASSUME Fresh
        PROVE  /\ Collected(basis) /\ store = Build(basis)
               /\ store.podConnections = Connections(basis, PodEnd)
               /\ store.namespaceConnections = Connections(basis, NamespaceEnd)
               /\ store.workloadConnections = Connections(basis, WorkloadEnd)
    <3>1. Collected(basis) /\ store = Build(basis)
      BY <2>2 DEF IInv, Fresh
    <3>2. QED BY <3>1 DEF Build
  <2>3. ASSUME Fresh, NEW p \in DOMAIN store.pods, NEW c \in Classes
        PROVE  store.pods[p].byClass[c] = SumOver(store.podConnections,
                 {k \in DOMAIN store.podConnections : k[1] = PodEnd[p] /\ k[3] = c})
    <3>1. Listing(basis) /\ Collected(basis) /\ store = Build(basis)
      BY <2>2, <2>3 DEF Collected
    <3>2. PICK r \in Kept(basis) : p = r.pod /\ store.pods[p] = PodNetwork(basis, r)
      BY <3>1, SnapshotPods
    <3>3. p \in Pods
      BY <3>1, <3>2, KeptPods
    <3>4. store.pods[p].byClass = basis.network[p]
      BY <3>2 DEF PodNetwork
    <3>5. QED BY <2>2, <2>3, <3>1, <3>3, <3>4, ConnectionsOfPod
  <2>4. ASSUME Fresh, NEW n \in Namespaces, NEW c \in Classes
        PROVE  LET bytes == SumOver(store.podConnections, From(store.podConnections, n, c))
               IN /\ bytes = SumOver(store.namespaceConnections, From(store.namespaceConnections, n, c))
                  /\ bytes = SumOver(store.workloadConnections, From(store.workloadConnections, n, c))
    <3> DEFINE bytes == SumOf(Sizes(basis), {f \in basis.flows :
                            ClassOf(basis, f) = c /\ NamespaceOf[OwnerOf(basis, f.src).pod] = n})
               At(end) == SumOver(Connections(basis, end), From(Connections(basis, end), n, c))
    <3>1. ASSUME NEW end \in {PodEnd, NamespaceEnd, WorkloadEnd} PROVE At(end) = bytes
      BY <2>2, <2>4, ConnectionsFrom
    <3> HIDE DEF bytes
    <3>2. At(PodEnd) = bytes /\ At(NamespaceEnd) = bytes /\ At(WorkloadEnd) = bytes
      <4> HIDE DEF At
      <4>1. QED BY <3>1
    <3>3. QED BY <2>2, <2>4, <3>2
  <2>5. QED BY <2>1, <2>3, <2>4, ServicesTellTheSame DEF ViewsAgree
<1>2. QED BY <1>1, InvariantHolds, PTL
=============================================================================
