----------------------------- MODULE MCFlowCounters -----------------------------
(* Model values for the model-checking run of FlowCounters. *)
EXTENDS FlowCounters

CONSTANTS c1, c2, f1, f2, s1, s2

TwoContexts == {c1, c2}
TwoFlows == {f1, f2}
TwoSlots == {s1, s2}
=============================================================================
