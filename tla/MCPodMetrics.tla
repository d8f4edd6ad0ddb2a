------------------------------ MODULE MCPodMetrics ------------------------------
(* Pod instances for the model-checking runs of PodMetrics: two instances that
   use one name in turn, as the pods of a StatefulSet do. *)
EXTENDS PodMetrics

CONSTANTS a1, a2

TwoInstances == {a1, a2}
PodOf == [g \in Cgroups |-> "a"]
=============================================================================
