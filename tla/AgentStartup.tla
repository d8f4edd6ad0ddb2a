------------------------------ MODULE AgentStartup ------------------------------
(***************************************************************************)
(* The way from config.Load to an agent whose collectors read counters:    *)
(* main.go up to go runSnapshotLoop, the eBPF preflight with the mount of  *)
(* /sys/fs/bpf, Manager.Start and Close, and ensureMap of the collectors,  *)
(* over several lives of the process on one node.                          *)
(*                                                                         *)
(* What outlives the process is the BPF file system with the pinned maps;  *)
(* links and unpinned maps go with the process: a kernel with links to     *)
(* cgroups is assumed.  A map is named by its kind and the life that made  *)
(* it.  Pin paths lie below /sys/fs/bpf, and the optional page programs    *)
(* are taken to be in the object file.                                     *)
(***************************************************************************)
EXTENDS ConfigMerge, ClusterIdentity, SequencesExt

CONSTANTS
    Inputs,      \* records [flags, file, fileOk, env, override, nodeEnv, host]
    Answers,     \* answers of the API server about the cluster's name
    NodeLists,   \* and about its nodes a moment later
    FileSystems, \* states of /sys/fs/bpf an agent may find: [bpf, writable]
    None,        \* no map, no input
    MaxLives     \* bound: starts of the agent

ASSUME StartupAssumption ==
    /\ MaxLives \in Nat \ {0}
    /\ \A i \in Inputs :
         /\ "egressPrices" \notin DOMAIN i.flags
         /\ \A f \in DOMAIN i.flags : HasType(f, i.flags[f])
         /\ \A f \in DOMAIN i.file : HasType(f, i.file[f])
         /\ \A f \in DOMAIN i.env : i.env[f].ok => HasType(f, i.env[f].value)
    /\ FileSystems \subseteq [bpf : BOOLEAN, writable : BOOLEAN]

VARIABLES
    pc,
    given,      \* flags, file, environment and host name, while they are read
    lives,      \* starts so far
    cfg,        \* cfg of main
    cluster,    \* clusterName, clusterID, clusterRegion and nodeName of main
    issue,      \* the preflight found something
    todo,       \* steps of Manager.Start left, <<what, kind, program>>
    fs, pins,   \* /sys/fs/bpf and the map pinned at each path
    filled,     \* the map of the collection loaded for each kind
    links,      \* attached programs
    opened      \* the map each collector has opened

kernel == <<filled, links>>
vars == <<pc, given, lives, cfg, cluster, issue, todo, fs, pins, kernel, opened>>

Kinds    == {"metrics", "network"}
NoMaps   == [k \in Kinds |-> None]
Nameless == [name |-> "", id |-> "", region |-> "", node |-> ""]
UnknownClusterName == "unknown"

Switch(k) == IF k = "metrics" THEN "metricsEnabled" ELSE "networkEnabled"
PathOf(k) == IF k = "metrics" THEN "metricsPath" ELSE "flowsPath"

(* The paths a configuration may name, and the defaults. *)
Paths == {c[PathOf(k)] : k \in Kinds,
          c \in {DefaultConfig} \cup {Load(i.flags, i.file, i.env) : i \in Inputs}}
NoPins == [p \in Paths |-> None]

Enabled(k) == cfg[Switch(k)]
AnyEnabled == \E k \in Kinds : Enabled(k)

(* Where a collector looks for its map: an empty path means the default. *)
OpenPath(k) == IF cfg[PathOf(k)] = "" THEN DefaultConfig[PathOf(k)] ELSE cfg[PathOf(k)]

Programs(k) == IF k = "metrics" THEN <<"sched_switch", "mm_page_alloc", "mm_page_free">>
               ELSE <<"cgroup_ingress", "cgroup_egress">>

Init ==
    /\ pc = "load" /\ given = None /\ lives = 1
    /\ cfg = DefaultConfig /\ cluster = Nameless
    /\ issue = FALSE /\ todo = << >>
    /\ fs \in FileSystems /\ pins = NoPins
    /\ filled = NoMaps /\ links = {} /\ opened = NoMaps

-----------------------------------------------------------------------------
(* The end of a process.  Links and maps go, with Close of the manager or with
   the process; pins stay. *)
Close == links' = {} /\ filled' = NoMaps

Ends(how) ==
    /\ pc' = how /\ Close
    /\ given' = None /\ cfg' = DefaultConfig /\ cluster' = Nameless
    /\ todo' = << >> /\ opened' = NoMaps
    /\ UNCHANGED <<lives, issue, fs, pins>>

-----------------------------------------------------------------------------
(* Configuration and names. *)

(* Load, or the panic of main when the file or a price is bad. *)
LoadConfig ==
    /\ pc = "load"
    /\ \E i \in Inputs :
         IF i.fileOk /\ Accepted(i.flags, i.file, i.env)
         THEN /\ pc' = "identify" /\ given' = i
              /\ cfg' = Load(i.flags, i.file, i.env)
         ELSE pc' = "failed" /\ UNCHANGED <<given, cfg>>
    /\ UNCHANGED <<lives, cluster, issue, todo, fs, pins, kernel, opened>>

Unknown(name) == name \in {"", PlaceholderName}

(* Mistake: a placeholder is taken for an id. *)
Completed_KeepsId(name, id) ==
    LET known == IF Unknown(name) THEN UnknownClusterName ELSE name
    IN [name |-> known, id |-> IF id = "" THEN known ELSE id]

(* The name and the id after detection, where a name was needed. *)
Completed(name, id) ==
    LET known == IF Unknown(name) THEN UnknownClusterName ELSE name
    IN [name |-> known, id |-> IF Unknown(id) THEN known ELSE id]

(* What main makes of the configured names and of CLUSTER_NAME. *)
Names(c, override, detected) ==
    LET name == IF override = "" THEN c.clusterName ELSE override
    IN CASE ~Unknown(name) -> [name |-> name, id |-> c.clusterId]
         [] Unknown(name) /\ detected = "" -> Completed(name, c.clusterId)
         [] OTHER -> Completed(detected, IF Unknown(c.clusterId) THEN detected ELSE c.clusterId)

(* Whatever the API server answers, the start goes on. *)
Identify ==
    /\ pc = "identify" /\ pc' = "region"
    /\ \E a \in Answers : \E detected \in DetectedNames(a) :
         LET known == Names(cfg, given.override, detected)
         IN  cluster' = [Nameless EXCEPT !.name = known.name, !.id = known.id]
    /\ UNCHANGED <<given, lives, cfg, issue, todo, fs, pins, kernel, opened>>

(* The region the nodes tell, or the configured one. *)
IdentifyRegion ==
    /\ pc = "region" /\ pc' = "node"
    /\ \E nodes \in NodeLists :
         cluster' = [cluster EXCEPT !.region = FirstText(<<DetectClusterRegion(nodes), cfg.region>>)]
    /\ UNCHANGED <<given, lives, cfg, issue, todo, fs, pins, kernel, opened>>

(* The configured node name, then NODE_NAME, then the host name. *)
NodeName ==
    LET candidates == SelectSeq(<<cfg.nodeName, given.nodeEnv, given.host>>, LAMBDA x : x # "")
    IN IF candidates = << >> THEN "" ELSE Head(candidates)

(* Mistake: only the metrics collector is known to need one. *)
NodeSuffices_MetricsOnly(node) == node # "" \/ ~cfg.metricsEnabled

(* The eBPF collectors need a node name. *)
NodeSuffices(node) == node # "" \/ ~AnyEnabled

ResolveNode ==
    /\ pc = "node" /\ NodeSuffices(NodeName)
    /\ pc' = "sync" /\ given' = None
    /\ cluster' = [cluster EXCEPT !.node = NodeName]
    /\ UNCHANGED <<lives, cfg, issue, todo, fs, pins, kernel, opened>>

(* cache.Start has the first lists; GiveUp is its other outcome. *)
SyncCaches ==
    /\ pc = "sync" /\ pc' = "preflight"
    /\ UNCHANGED <<given, lives, cfg, cluster, issue, todo, fs, pins, kernel, opened>>

-----------------------------------------------------------------------------
(* The preflight. *)

(* mountBPFFS.  What is writable is left alone, a BPF file system or not.  Where
   remounting fails the old file system is detached, with its pins, and another
   is mounted, perhaps twice; any of these calls may fail, and the last mount may
   be read-only as the first. *)
MountOutcomes ==
    LET Outcome(ok, b, w, p) == [ok |-> ok, fs |-> [bpf |-> b, writable |-> w], pins |-> p]
        mounted  == {Outcome(w, TRUE, w, NoPins) : w \in BOOLEAN}
        detached == {Outcome(FALSE, FALSE, w, NoPins) : w \in BOOLEAN}
        kept     == {Outcome(ok, TRUE, ok, pins) : ok \in BOOLEAN}
    IN IF fs.writable THEN {[ok |-> TRUE, fs |-> fs, pins |-> pins]}
       ELSE mounted \cup detached \cup (IF fs.bpf THEN kept ELSE {})

(* Mistake: the network collector stays on. *)
Disabled_MetricsOnly(c) == [c EXCEPT !.metricsEnabled = FALSE]

(* What main makes of a preflight with issues. *)
Disabled(c) == [c EXCEPT !.metricsEnabled = FALSE, !.networkEnabled = FALSE]

(* "Other" are the memory lock limit, the kernel's type information and the
   cgroup paths; directories for pins can be made where mountBPFFS succeeded. *)
Preflight ==
    /\ pc = "preflight" /\ pc' = "manager"
    /\ IF AnyEnabled
       THEN \E m \in MountOutcomes, other \in BOOLEAN :
              /\ fs' = m.fs /\ pins' = m.pins
              /\ issue' = (~m.ok \/ other)
              /\ cfg' = IF issue' THEN Disabled(cfg) ELSE cfg
       ELSE UNCHANGED <<fs, pins, issue, cfg>>
    /\ UNCHANGED <<given, lives, cluster, todo, kernel, opened>>

-----------------------------------------------------------------------------
(* Manager.Start and Close. *)

(* Mistake: the old pin is removed after the new one was made. *)
Pinning_PinFirst == <<"load", "pin", "unpin">>

Pinning == <<"load", "unpin", "pin">>

(* What is done for one kind, in order.  An empty path means no pin. *)
Plan(k) ==
    LET steps == IF cfg[PathOf(k)] = "" THEN <<"load">> ELSE Pinning
    IN [n \in DOMAIN steps |-> <<steps[n], k, "">>] \o
       [n \in DOMAIN Programs(k) |-> <<"attach", k, Programs(k)[n]>>]

PlanOf(k) == IF Enabled(k) THEN Plan(k) ELSE << >>

StartManager ==
    /\ pc = "manager" /\ pc' = IF AnyEnabled THEN "start" ELSE "running"
    /\ todo' = PlanOf("metrics") \o PlanOf("network")
    /\ UNCHANGED <<given, lives, cfg, cluster, issue, fs, pins, kernel, opened>>

Doing(what) == pc = "start" /\ todo # << >> /\ Head(todo)[1] = what
Kind == Head(todo)[2]

StepDone ==
    /\ todo' = Tail(todo)
    /\ pc' = IF Tail(todo) = << >> THEN "running" ELSE "start"
    /\ UNCHANGED <<given, lives, cfg, cluster, issue, fs, opened>>

LoadCollection ==
    /\ Doing("load") /\ StepDone
    /\ filled' = [filled EXCEPT ![Kind] = <<Kind, lives>>]
    /\ UNCHANGED <<pins, links>>

(* os.Remove, whose error is ignored. *)
RemoveOldPin ==
    LET path == cfg[PathOf(Kind)]
    IN /\ Doing("unpin") /\ StepDone
       /\ pins' \in {pins, [pins EXCEPT ![path] = None]}
       /\ UNCHANGED kernel

(* Mistake: a pin that is there will do. *)
PinMap_KeepsOld ==
    LET path == cfg[PathOf(Kind)]
    IN /\ Doing("pin") /\ StepDone
       /\ fs.bpf
       /\ pins' = [pins EXCEPT ![path] = IF @ = None THEN filled[Kind] ELSE @]
       /\ UNCHANGED kernel

(* A map is pinned on a BPF file system and where nothing is pinned yet. *)
PinMap ==
    LET path == cfg[PathOf(Kind)]
    IN /\ Doing("pin") /\ StepDone
       /\ fs.bpf /\ pins[path] = None
       /\ pins' = [pins EXCEPT ![path] = filled[Kind]]
       /\ UNCHANGED kernel

AttachProgram ==
    /\ Doing("attach") /\ StepDone
    /\ links' = links \cup {Head(todo)[3]}
    /\ UNCHANGED <<pins, filled>>

-----------------------------------------------------------------------------
(* Running, and between the lives. *)

(* ensureMap, in the first collection that finds the pin: main makes a collector
   for each kind that is still enabled. *)
OpenMap(k) ==
    /\ pc = "running" /\ Enabled(k)
    /\ opened[k] = None /\ pins[OpenPath(k)] # None
    /\ opened' = [opened EXCEPT ![k] = pins[OpenPath(k)]]
    /\ UNCHANGED <<pc, given, lives, cfg, cluster, issue, todo, fs, pins, kernel>>

Starts ==
    /\ pc \in {"failed", "down"} /\ lives < MaxLives
    /\ pc' = "load" /\ lives' = lives + 1 /\ issue' = FALSE
    /\ UNCHANGED <<given, cfg, cluster, todo, kernel, opened>>

(* The next container on this node; what it sees of the BPF file system may be
   read-only. *)
Restart ==
    /\ Starts /\ \E w \in BOOLEAN : fs' = [fs EXCEPT !.writable = @ /\ w]
    /\ UNCHANGED pins

Reboot == Starts /\ fs' \in FileSystems /\ pins' = NoPins

(* The exits of main: no kube client, no node name for the collectors, a context
   cancelled before the caches have synced, a step of Manager.Start that failed. *)
GiveUp ==
    /\ \/ pc \in {"identify", "sync"}
       \/ pc = "node" /\ ~NodeSuffices(NodeName)
       \/ pc \in {"manager", "start"} /\ AnyEnabled
    /\ Ends("failed")

(* A signal or a crash, anywhere. *)
Down == pc \notin {"failed", "down"} /\ Ends("down")

(* Run of the HTTP server returns, and main with it: the listener fails, or the
   context is cancelled and the server is shut down. *)
ServerRuns == pc = "running" /\ Ends("down")

Start == StartManager \/ LoadCollection \/ RemoveOldPin \/ PinMap \/ AttachProgram

Next ==
    \/ LoadConfig \/ Identify \/ IdentifyRegion \/ ResolveNode \/ SyncCaches \/ Preflight \/ Start
    \/ \E k \in Kinds : OpenMap(k)
    \/ GiveUp \/ Down \/ ServerRuns \/ Restart \/ Reboot

Spec == Init /\ [][Next]_vars
FairSpec == Spec /\ \A k \in Kinds : WF_vars(OpenMap(k))

-----------------------------------------------------------------------------
(* Properties. *)

Maps == Kinds \X (1 .. MaxLives)

(* Types: nothing is left to do except while the manager starts, nothing is open
   except while the agent runs, and no eBPF collector runs without a node name. *)
TypeOK ==
    /\ pc \in {"load", "identify", "region", "node", "sync", "preflight", "manager", "start", "running", "failed", "down"}
    /\ given \in Inputs \cup {None} /\ lives \in 1 .. MaxLives /\ issue \in BOOLEAN
    /\ DOMAIN cfg = Fields /\ DOMAIN cluster = DOMAIN Nameless
    /\ fs \in [bpf : BOOLEAN, writable : BOOLEAN]
    /\ pins \in [Paths -> Maps \cup {None}] /\ (~fs.bpf => pins = NoPins)
    /\ pc = "start" \/ todo = << >>
    /\ pc \in {"start", "running"} \/ filled = NoMaps
    /\ filled \in [Kinds -> Maps \cup {None}] /\ opened \in [Kinds -> Maps \cup {None}]
    /\ pc = "running" \/ opened = NoMaps
    /\ pc \in {"start", "running"} /\ AnyEnabled => cluster.node # ""

(* The order the code merges in: a variable that parses, then a value in the file
   that is not zero, then a flag, then the default (config.Load, 400 lines).  It is
   not the one the comments announce: Load parses the flags first and merges file
   and environment over them, while config.go:245 says "we accept flags as ultimate
   override" and config.go:181 lists flags last.  The two names fill in for each
   other, short intervals become 5, and a file adds to the prices where a variable
   replaces them. *)
MergeOrder ==
    pc = "identify" =>
        LET Said(f) == (IF Counts(given.env, f) THEN <<given.env[f].value>> ELSE << >>)
                    \o (IF f \in DOMAIN given.file /\ given.file[f] # ZeroConfig[f] THEN <<given.file[f]>> ELSE << >>)
                    \o (IF f \in DOMAIN given.flags THEN <<given.flags[f]>> ELSE << >>)
            Highest(f) == Head(Said(f) \o <<DefaultConfig[f]>>)
            names == {"clusterId", "clusterName"}
        IN /\ \A f \in Fields \ (names \cup {"scrapeInterval", "egressPrices"}) : cfg[f] = Highest(f)
           /\ \A f \in names : \A g \in names \ {f} :
                 cfg[f] = IF Highest(f) = "" THEN Highest(g) ELSE Highest(f)
           /\ cfg.scrapeInterval >= 5 /\ cfg.scrapeInterval \in {5, Highest("scrapeInterval")}
           /\ cfg.egressPrices = IF Counts(given.env, "egressPrices") THEN Highest("egressPrices")
                                 ELSE Overlay(Highest("egressPrices"), DefaultConfig.egressPrices)

(* Unless CLUSTER_NAME overrides the name, an agent that goes on has a name that
   is not the placeholder, whatever the API server said, and an id that is the
   placeholder only where somebody configured just that; an id nobody configured
   is the name; and it has a region whenever one is configured. *)
Identified ==
    pc = "node" /\ given.override = "" =>
        LET sources == {given.flags, given.file, [f \in DOMAIN given.env |-> given.env[f].value]}
            configured == {s.clusterId : s \in {t \in sources : "clusterId" \in DOMAIN t}} \ {""}
        IN /\ cluster.name \notin {"", PlaceholderName}
           /\ cluster.id # "" /\ (cluster.id = PlaceholderName => PlaceholderName \in configured)
           /\ configured = {} => cluster.id = cluster.name
           /\ cluster.region = "" => cfg.region = ""

(* Two kinds have a pin of their own; an empty path pins nothing. *)
Pinned(k) == cfg[PathOf(k)] # "" /\ OpenPath("metrics") # OpenPath("network")

(* A collector never reads the map of an earlier life, which no program fills,
   nor a map that was closed: whatever is found pinned, what it opens is what the
   programs of this life write to (manager.go: remove and pin). *)
CollectorsReadLiveMap == \A k \in Kinds : opened[k] # None /\ Pinned(k) => opened[k] = filled[k]

(* All or nothing: an agent that runs has attached every program of every kind
   that is enabled and no other; one that failed has nothing attached; and one
   that found an issue does not fail but runs without eBPF (main.go). *)
AllOrNothing ==
    /\ pc = "running" => links = UNION {ToSet(Programs(k)) : k \in {j \in Kinds : Enabled(j)}}
    /\ pc = "failed" => links = {} /\ ~issue
    /\ issue => links = {}

(* A collector that is enabled and has a pin of its own opens its map in the end:
   Start leaves a pin where ensureMap looks, also after lives that ended between
   removing a pin and making the next. *)
ReadsInTheEnd ==
    \A k \in Kinds : pc = "running" /\ Enabled(k) /\ Pinned(k) ~> opened[k] # None \/ pc # "running"
=============================================================================
