--------------------------- MODULE MCSnapshotPipeline ---------------------------
(* A node with two pods, p and q, that share a small address pool, and a node
   with a pod r the agent only meets as a peer.  Either both run, or
   p has finished and holds its address in its status while q, of a namespace
   the informer has not seen yet, may be given it. *)
EXTENDS SnapshotPipeline, TLC

CONSTANTS p, q, r, web, db, near, far, a1, a2, b1, vpc, net, api, sl1, sl2

ThePods == {p, q, r}
TheNamespaceOf == (p :> web) @@ (q :> db) @@ (r :> db)
TheWorkloadOf == [x \in ThePods |-> "Deployment/app"]
TheRequests == (p :> 2) @@ (q :> 3) @@ (r :> 1)
TheLabels == (web :> <<NoLabel, "prod">>) @@ (db :> <<"staging", "prod">>)
TheZones == (near :> "az1") @@ (far :> "az2")
TheAllocatable == (near :> 4) @@ (far :> 4)
TheTypes == (near :> <<"", "m5", "t3">>) @@ (far :> <<"x1", "", "">>)
ThePrices == ("m5" :> 8) @@ ("t3" :> 12) @@ ("x1" :> -1)
TheEgress == ("public_internet" :> 5) @@ ("inter_az" :> 2) @@ ("intra_node" :> 0)
ThePool == (near :> {a1, a2}) @@ (far :> {b1})
TheHomes == (p :> near) @@ (q :> near) @@ (r :> far)
TheServiceOf == (sl1 :> api) @@ (sl2 :> api)

Flow(src, dst, proto, tx) == [src |-> src, dst |-> dst, proto |-> proto, tx |-> tx]
TheUsages == {(p :> 1) @@ (q :> 5) @@ (r :> 1)}
TheBatches == {{Flow(a1, a2, "tcp", 1), Flow(a1, b1, "tcp", 2), Flow(a2, net, "udp", 4),
                Flow(a2, net, "tcp", 8), Flow(a1, vpc, "tcp", 16), Flow(a2, a1, "tcp", 32)}}

Running(node, ip) == [phase |-> "running", node |-> node, ip |-> ip]
Base == [nodes |-> {near, far}, namespaces |-> {web, db},
         pods |-> (p :> Running(near, a1)) @@ (q :> Running(near, a2)) @@ (r :> Running(far, b1)),
         services |-> {api}, slices |-> (sl1 :> {a1}) @@ (sl2 :> {})]
Reused == [Base EXCEPT !.pods[p].phase = "finished", !.pods[q] = NewPod]
Young == [Base EXCEPT !.namespaces = {db}, !.pods[p] = NoPod, !.pods[q] = NoPod,
                      !.services = {}, !.slices[sl1] = {}]
TheBeginnings ==
    {[cluster |-> Base, caches |-> [Base EXCEPT !.pods[p] = NewPod]],
     [cluster |-> Reused, caches |-> [Reused EXCEPT !.namespaces = {web}, !.pods[q] = NoPod]],
     [cluster |-> [Base EXCEPT !.pods[p] = NoPod, !.pods[q].ip = a1],
      caches  |-> [Reused EXCEPT !.nodes = {far}]],
     [cluster |-> Young, caches |-> [Young EXCEPT !.services = {api}]]}
=============================================================================
