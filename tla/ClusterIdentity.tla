---------------------------- MODULE ClusterIdentity ----------------------------
(***************************************************************************)
(* DetectClusterName and DetectClusterRegion of internal/kube: what the    *)
(* agent calls the cluster, from two config maps and the node list.        *)
(*                                                                         *)
(* Data.  Texts are trimmed.  An answer of the API server is NotFound,     *)
(* Failed or an object.  A config map "cluster-info" is a record           *)
(* [named, context, clusters]: the values of its three keys, and of its    *)
(* kubeconfig the cluster of the current context and the cluster names; a  *)
(* kubeconfig that does not parse has none.  "kubeadm-config" is a record  *)
(* [named, configured].  A node is a record [names, regions, zones,        *)
(* provider]: the values of the candidate labels and then of the           *)
(* annotation, of the two region labels and of the two zone labels, and    *)
(* the zone its provider id holds.  A zone is its text without a last      *)
(* letter, and without the dash before a letter that stands alone, in      *)
(* area, and whether there is one.                                         *)
(***************************************************************************)
EXTENDS Integers, Sequences

CONSTANTS NotFound, Failed

(* The first text that is not empty, or "". *)
FirstText(texts) ==
    LET set == {i \in DOMAIN texts : texts[i] # ""}
    IN IF set = {} THEN "" ELSE texts[CHOOSE i \in set : \A j \in set : i <= j]

(* Without a current context any cluster of the kubeconfig, a Go map, will do. *)
KubeconfigNames(cm) ==
    CASE cm.context # "" -> {cm.context}
      [] cm.context = "" /\ cm.clusters \ {""} # {} -> cm.clusters \ {""}
      [] OTHER -> {""}

ConfigMapNames(cm) ==
    IF FirstText(cm.named) # "" THEN {FirstText(cm.named)} ELSE KubeconfigNames(cm)

(* kube-system first, and kube-public where there is no object or no name in it;
   another error ends the search. *)
ClusterInfoNames(system, public) ==
    LET There(a) == CASE a = Failed -> {} [] a = NotFound -> {""} [] OTHER -> ConfigMapNames(a)
    IN IF system = Failed THEN {""}
       ELSE IF There(system) # {""} THEN There(system)
       ELSE There(public) \cup (IF public = Failed THEN {""} ELSE {})

KubeadmName(cm) ==
    IF cm \in {NotFound, Failed} THEN "" ELSE FirstText(<<cm.named, cm.configured>>)

NodesName(nodes) ==
    IF nodes = Failed THEN "" ELSE FirstText([i \in DOMAIN nodes |-> FirstText(nodes[i].names)])

(* What DetectClusterName may return; an error of a source is passed over. *)
DetectedNames(a) ==
    {FirstText(<<n, KubeadmName(a.kubeadm), NodesName(a.nodes)>>) :
        n \in ClusterInfoNames(a.kubeSystem, a.kubePublic)}

RegionFromZone(zone) == IF zone.letter THEN zone.area ELSE ""

RegionFromNode(node) ==
    FirstText(node.regions \o [i \in DOMAIN node.zones |-> RegionFromZone(node.zones[i])]
              \o <<RegionFromZone(node.provider)>>)

DetectClusterRegion(nodes) ==
    IF nodes = Failed THEN "" ELSE FirstText([i \in DOMAIN nodes |-> RegionFromNode(nodes[i])])
=============================================================================
