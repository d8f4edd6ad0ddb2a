--------------------------- MODULE MCCostReporting ---------------------------
(* An instance of CostReporting for TLC. *)
EXTENDS CostReporting, TLC

Old == <<"east", "a">> :> 3 @@ <<"east", "b">> :> 3 @@ <<"west", "a">> :> 4

(* Some types are not offered: only errors come back for them. *)
OfferedPrices == [k \in {"east", "west"} \X {"a", "b", "d"} |->
                    IF k = <<"east", "a">> THEN {15} ELSE IF k = <<"east", "b">> THEN {74}
                    ELSE IF k = <<"west", "a">> THEN {90} ELSE {}]

Call(regions, types, concurrency) ==
    [regions |-> regions, types |-> types, concurrency |-> concurrency]

(* A run that fits, the smallest that may get stuck, a region that is not known,
   more workers than jobs, and nothing to do. *)
Calls == {Call(<<"east">>, <<"b", "a", "d">>, 0),
          Call(<<"west", "east">>, <<"a", "b">>, 1),
          Call(<<"mars", "west", "east">>, <<"a">>, 8),
          Call(<<"mars">>, <<"a">>, 2),
          Call(<< >>, <<"a">>, 1)}

Override == <<"east", "c">> :> 6

Amount(cpu, memory) == [cpu |-> cpu, memory |-> memory]

PodA(node) == [namespace |-> "shop", name |-> "cart", node |-> node,
               references |-> {[name |-> "Cart", controller |-> TRUE], [name |-> "Shop", controller |-> FALSE]},
               labels |-> [team |-> 2], containers |-> <<Amount(1, 1), Amount(1, 0)>>]
PodB == [namespace |-> "shop", name |-> "pay", node |-> "n2",
         references |-> {[name |-> "Cart", controller |-> TRUE]},
         labels |-> [team |-> 1, cost_center |-> 5], containers |-> <<Amount(3, 2)>>]
PodC == [namespace |-> "ops", name |-> "probe", node |-> "n1",
         references |-> {[name |-> "Ops", controller |-> FALSE]},
         labels |-> [team |-> 0, other |-> 7], containers |-> << >>]

Shop == "shop" :> [team |-> 3, cost_center |-> 4]

(* A pod that is not scheduled, then scheduled on a node added with it, next to
   another one; a pod of a namespace that is not there any more. *)
AllClusters ==
    {[pods |-> <<PodA(""), PodB>>, namespaces |-> Shop, nodes |-> [n2 |-> [beta |-> "b"]]],
     [pods |-> <<PodC, PodA("n1"), PodB>>, namespaces |-> Shop @@ "ops" :> << >>,
      nodes |-> [n1 |-> [stable |-> "a", beta |-> "b"], n2 |-> [stable |-> "a"]]],
     [pods |-> <<PodC>>, namespaces |-> << >>, nodes |-> [n1 |-> [stable |-> "c"], n2 |-> << >>]]}

AllUsages ==
    {<< >>, <<"shop", "cart">> :> Amount(5, 0) @@ <<"ops", "probe">> :> Amount(1, 4)}
=============================================================================
