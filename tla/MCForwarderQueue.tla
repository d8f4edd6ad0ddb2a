--------------------------- MODULE MCForwarderQueue ---------------------------
(* Values of the constants for the model-checking runs of ForwarderQueue. *)
EXTENDS ForwarderQueue

(* The last report alone exceeds a byte limit of 2; two others fit together. *)
MixedSizes == [r \in 1..N |-> IF r = N THEN 3 ELSE 1]

UnitSizes == [r \in 1..N |-> 1]
=============================================================================
