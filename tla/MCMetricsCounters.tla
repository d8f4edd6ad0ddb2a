--------------------------- MODULE MCMetricsCounters ---------------------------
(* Model values and symmetry for the model-checking runs of MetricsCounters. *)
EXTENDS MetricsCounters, TLC

CONSTANTS u1, u2, p1, p2, g1, g2, s1, s2

TwoCpus == {u1, u2}
TwoPids == {p1, p2}
TwoGroups == {g1, g2}
TwoSlots == {s1, s2}

(* CPUs, pids, cgroups and slots are interchangeable. *)
Symmetric == Permutations({u1, u2}) \cup Permutations({p1, p2})
             \cup Permutations({g1, g2}) \cup Permutations({s1, s2})
=============================================================================
