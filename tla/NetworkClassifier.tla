--------------------------- MODULE NetworkClassifier ---------------------------
(***************************************************************************)
(* Who owns an address and what a transfer costs: the address index that   *)
(* CollectPodNetwork and Build both make of the pods they are given,       *)
(* network.ClassifyEgress, and the collector's sums per pod and class.     *)
(*                                                                         *)
(* A view is what the snapshot loop passes on: view.nodes is a set, and    *)
(* view.pods a sequence of records [pod, node, ip, phase], in the order in *)
(* which the lister returned them (Go's map order, hence any).  A flow is  *)
(* a record [src, dst, proto, tx] with the bytes that are new since the    *)
(* last collection.  The received bytes are summed along the same path and *)
(* cost nothing; they are left out.                                        *)
(***************************************************************************)
EXTENDS Integers, Sequences, SequencesExt

CONSTANTS
    NoNode,       \* pod.Spec.NodeName == ""
    NoAddress,    \* pod.Status.PodIP == ""
    NoZone,       \* a node without the label topology.kubernetes.io/zone
    Zone,         \* the zone label of each node
    Private,      \* addresses in a private range (isPrivateIP)
    Internet      \* other global unicast addresses

Classes == {"intra_node", "intra_az", "inter_az", "vpc_private", "public_internet", "unknown"}

-----------------------------------------------------------------------------
(* Mistakes the properties are tested against. *)

(* The collector treats the addresses of pods as foreign. *)
ClassifyEgress_NoPods(view, src, dst) ==
    IF dst \in Private THEN "vpc_private" ELSE "public_internet"

-----------------------------------------------------------------------------
Owned(view, a) == a # NoAddress /\ \E i \in DOMAIN view.pods : view.pods[i].ip = a

(* A later pod overwrites the index entry of an earlier one. *)
OwnerOf(view, a) ==
    view.pods[Max({i \in DOMAIN view.pods : view.pods[i].ip = a})]

ZoneOf(view, n) == IF n \in view.nodes THEN Zone[n] ELSE NoZone

(* The class of a transfer from the pod src to the address dst. *)
ClassifyEgress(view, src, dst) ==
    IF Owned(view, dst)
    THEN LET peer == OwnerOf(view, dst)
             here == ZoneOf(view, src.node)
             away == ZoneOf(view, peer.node)
         IN CASE peer.node = src.node /\ src.node # NoNode -> "intra_node"
              [] OTHER -> CASE away # NoZone /\ away = here -> "intra_az"
                            [] away # NoZone /\ here # NoZone /\ away # here -> "inter_az"
                            [] OTHER -> "unknown"
    ELSE CASE dst \in Private  -> "vpc_private"
           [] dst \in Internet -> "public_internet"
           [] OTHER            -> "unknown"

ClassOf(view, f) == ClassifyEgress(view, OwnerOf(view, f.src), f.dst)

(* A flow whose source is no listed pod is passed over. *)
Attributable(view, flows) == {f \in flows : Owned(view, f.src)}

(* The sum of the values of a function. *)
Total(f) == MapThenSumSet(LAMBDA x : f[x], DOMAIN f)

Bytes(flows) == Total([f \in flows |-> f.tx])

(* NetworkCollection.PodUsage; a pod or class without an entry has no bytes. *)
PodUsage(view, flows, pods) ==
    LET known == Attributable(view, flows)
    IN [p \in pods |->
          LET mine == {f \in known : OwnerOf(view, f.src).pod = p}
          IN [c \in Classes |-> Bytes({f \in mine : ClassOf(view, f) = c})]]
=============================================================================
