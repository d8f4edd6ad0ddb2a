----------------------------- MODULE MCAgentStartup -----------------------------
(* Instances of AgentStartup for TLC. *)
EXTENDS AgentStartup, TLC

(* Functions over at most one field. *)
Mentions(f, values) == {<< >>} \cup {f :> v : v \in values}

Parsed(v) == [ok |-> TRUE, value |-> v]
Garbage(v) == [ok |-> FALSE, value |-> v]

(* Every field by itself: each source is silent, has the zero value or another
   one, and a variable of the environment may not parse. *)
Values(f) ==
    CASE f \in {"clusterId", "clusterName", "nodeName"} -> {"", "a", PlaceholderName}
      [] f \in Texts    -> {"", "elsewhere"}
      [] f \in Switches -> BOOLEAN
      [] f = "cpuPrice"  -> {-1, 0, 9}
      [] OTHER           -> {0, 9}

InFile(f) == IF f = "egressPrices" THEN {"public" :> 1, "public" :> -1} ELSE Values(f)
InFlags(f) == IF f = "egressPrices" THEN {} ELSE Values(f)
InEnv(f) ==
    IF f = "egressPrices" THEN {Parsed("public" :> 2), Parsed("intraAz" :> 1)}
    ELSE {Parsed(v) : v \in Values(f)} \cup
         (IF f \in Texts THEN {} ELSE {Garbage(v) : v \in Values(f)})

(* Only the host name says which node it is; the file can be read. *)
Input(flags, file, env) ==
    [flags |-> flags, file |-> file, fileOk |-> TRUE, env |-> env, override |-> "",
     nodeEnv |-> "", host |-> "host"]

Fieldwise ==
    UNION {{Input(fl, fi, en) : fl \in Mentions(f, InFlags(f)), fi \in Mentions(f, InFile(f)),
                                en \in Mentions(f, InEnv(f))} : f \in Fields}

(* Names and ids together, with CLUSTER_NAME. *)
Named ==
    {[Input(("clusterName" :> name) @@ ("clusterId" :> id), << >>, << >>) EXCEPT !.override = o] :
        name \in {"", "a", PlaceholderName}, id \in {"", "b", PlaceholderName}, o \in {"", "c"}}

(* Both collectors, one path or the other changed, a node without a name. *)
Both == "networkEnabled" :> TRUE
Deployed ==
    {Input(Both @@ paths, << >>, << >>) :
        paths \in {<< >>, "metricsPath" :> "elsewhere", "flowsPath" :> "", "flowsPath" :> "metrics"}}
    \cup {[Input(on, << >>, << >>) EXCEPT !.host = ""] :
             on \in {Both, Both @@ ("metricsEnabled" :> FALSE), "metricsEnabled" :> FALSE}}
    \cup {[Input(Both, << >>, << >>) EXCEPT !.host = "", !.nodeEnv = "env"],
          [Input(<< >>, << >>, << >>) EXCEPT !.fileOk = FALSE]}

AllInputs == Fieldwise \cup Named \cup Deployed

(* What may come back of each source: nothing, no object, an error or a name,
   the placeholder among them; and nodes with and without a region. *)
InfoMap(named, context, clusters) == [named |-> named, context |-> context, clusters |-> clusters]
Nothing == InfoMap(<<"", "", "">>, "", {})
NoZone == [area |-> "", letter |-> FALSE]
NodeOf(names, regions, zones, provider) ==
    [names |-> names, regions |-> regions, zones |-> zones, provider |-> provider]
Bare == NodeOf(<<"", "">>, <<"", "">>, <<NoZone, NoZone>>, NoZone)

AllAnswers ==
    {[kubeSystem |-> s, kubePublic |-> p, kubeadm |-> a, nodes |-> n] :
        s \in {NotFound, Failed, Nothing, InfoMap(<<"", "eks", "">>, "left", {})},
        p \in {NotFound, InfoMap(<<"", "", "">>, "", {"", "left", "right"}), InfoMap(<<"", "", "">>, "right", {"left"})},
        a \in {Failed, [named |-> "", configured |-> "left"], [named |-> PlaceholderName, configured |-> "right"]},
        n \in {Failed, <<Bare>>, <<Bare, [Bare EXCEPT !.names = <<"", "eks">>]>>}}

AllNodeLists ==
    {Failed, <<Bare, [Bare EXCEPT !.zones[1] = [area |-> "eastus-1", letter |-> FALSE],
                                  !.provider = [area |-> "us-west-2", letter |-> TRUE]]>>}

AllFileSystems == [bpf : BOOLEAN, writable : BOOLEAN]
=============================================================================
