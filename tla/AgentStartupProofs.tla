-------------------------- MODULE AgentStartupProofs --------------------------
(***************************************************************************)
(* Proofs about AgentStartup for every set of configurations, every number *)
(* of lives and whatever an agent finds in /sys/fs/bpf.                    *)
(*                                                                         *)
(* The argument follows the list of steps Manager.Start has left.  What is *)
(* attached and what is left to attach are always the programs of all      *)
(* enabled kinds (Attaching).  The pin of a kind is the last step on its   *)
(* path, and a step on the path of another kind does not touch it, so once *)
(* the pin of a kind is made it is the map of this life (PinsLive), and    *)
(* that is the map a collector opens.                                      *)
(*                                                                         *)
(* Before that, what main works with is what Load returned (Loaded) and    *)
(* what Names made of it (Named).  That every field has the value of the   *)
(* highest source that speaks of it is a fact about Load alone (LoadIs),   *)
(* for sources that say anything the types of the fields allow.            *)
(***************************************************************************)
EXTENDS AgentStartup, SequenceTheorems, TLAPS

ProgramNames == {"", "sched_switch", "mm_page_alloc", "mm_page_free", "cgroup_ingress", "cgroup_egress"}

Step == {"load", "unpin", "pin", "attach"} \X Kinds \X ProgramNames

MapOrNone == Maps \cup {None}

(* What an agent works with is a configuration whose paths are known. *)
Configured == cfg = [f \in Fields |-> cfg[f]] /\ \A k \in Kinds : cfg[PathOf(k)] \in Paths

Typed ==
    /\ pc \in {"load", "identify", "region", "node", "sync", "preflight", "manager", "start", "running", "failed", "down"}
    /\ lives \in 1 .. MaxLives
    /\ Configured
    /\ todo \in Seq(Step)
    /\ pins \in [Paths -> MapOrNone]
    /\ filled \in [Kinds -> MapOrNone] /\ opened \in [Kinds -> MapOrNone]

(* What exists in which phase of a life, and what an issue leads to. *)
Phased ==
    /\ pc = "start" <=> todo # << >>
    /\ pc \notin {"start", "running"} => links = {}
    /\ pc # "running" => opened = NoMaps
    /\ issue => pc \in {"manager", "running", "down"}
    /\ issue /\ pc # "down" => ~AnyEnabled

AttachedBy(steps) == {steps[i][3] : i \in {j \in DOMAIN steps : steps[j][1] = "attach"}}

AllPrograms == UNION {ToSet(Programs(k)) : k \in {j \in Kinds : Enabled(j)}}

Attaching == pc \in {"start", "running"} => links \cup AttachedBy(todo) = AllPrograms

(* There is a path for the map of this kind. *)
HasPath(k) == cfg[PathOf(k)] # ""

(* Only enabled kinds have steps, and only those with a path are pinned. *)
Planned ==
    \A i \in DOMAIN todo :
        /\ Enabled(todo[i][2])
        /\ todo[i][1] \in {"unpin", "pin"} => HasPath(todo[i][2])

Ordered(steps) ==
    \A i, j \in DOMAIN steps :
        steps[i][1] = "pin" /\ steps[j][1] \in {"load", "unpin"} /\ steps[i][2] = steps[j][2] => j < i

(* The pin of k is not to be made any more. *)
Done(k, steps) == \A i \in DOMAIN steps : steps[i][2] = k => steps[i][1] # "pin"

OnlyAttaching(k, steps) == \A i \in DOMAIN steps : steps[i][2] = k => steps[i][1] = "attach"

PinsLive ==
    pc \in {"start", "running"} =>
        \A k \in Kinds : Enabled(k) /\ Pinned(k) /\ Done(k, todo) =>
            /\ OnlyAttaching(k, todo)
            /\ pins[cfg[PathOf(k)]] = filled[k]

IInv ==
    /\ Typed /\ Phased /\ Attaching /\ Planned /\ Ordered(todo) /\ PinsLive
    /\ CollectorsReadLiveMap

-----------------------------------------------------------------------------
(* Configurations *)

(* The fields the start of the agent looks at are fields of a configuration. *)
LEMMA FieldNames ==
    /\ "metricsPath" \in Fields /\ "flowsPath" \in Fields
    /\ "metricsEnabled" \in Fields /\ "networkEnabled" \in Fields
    /\ "scrapeInterval" \in Fields /\ "clusterId" \in Fields /\ "clusterName" \in Fields
BY DEF Fields, Texts, Switches, Numbers

(* The defaults are a configuration. *)
LEMMA DefaultConfigured ==
    /\ DefaultConfig = [f \in Fields |-> DefaultConfig[f]]
    /\ \A k \in Kinds : DefaultConfig[PathOf(k)] \in Paths
<1>1. DOMAIN DefaultConfig = Fields
  BY DEF DefaultConfig, Fields, Texts, Switches, Numbers
<1>2. DefaultConfig = [f \in DOMAIN DefaultConfig |-> DefaultConfig[f]]
  BY DEF DefaultConfig
<1>3. QED BY <1>1, <1>2 DEF Paths

(* What Load returns is one. *)
LEMMA LoadConfigured ==
    ASSUME NEW i \in Inputs
    PROVE  LET c == Load(i.flags, i.file, i.env)
           IN  c = [f \in Fields |-> c[f]] /\ \A k \in Kinds : c[PathOf(k)] \in Paths
<1> DEFINE merged == Merged(i.flags, i.file, i.env)
           c == Load(i.flags, i.file, i.env)
<1>1. merged = [f \in Fields |-> merged[f]]
  BY DEF Merged, ApplyEnv
<1>2. SyncNames(merged) = [f \in Fields |-> SyncNames(merged)[f]]
  BY <1>1 DEF SyncNames
<1>3. c = [f \in Fields |-> c[f]]
  BY <1>2 DEF Load, ClampInterval
<1>4. \A k \in Kinds : c[PathOf(k)] \in Paths
  BY DEF Paths
<1>5. QED BY <1>3, <1>4

-----------------------------------------------------------------------------
(* Sequences of steps *)

(* Two sequences of steps, one after the other. *)
LEMMA JoinSteps ==
    ASSUME NEW s \in Seq(Step), NEW t \in Seq(Step)
    PROVE  /\ s \o t \in Seq(Step)
           /\ Len(s \o t) = Len(s) + Len(t)
           /\ DOMAIN (s \o t) = 1 .. Len(s) + Len(t)
           /\ \A n \in 1 .. Len(s) : (s \o t)[n] = s[n]
           /\ \A n \in 1 .. Len(t) : (s \o t)[Len(s) + n] = t[n]
           /\ \A n \in 1 .. Len(s) + Len(t) :
                \/ n \in 1 .. Len(s) /\ (s \o t)[n] = s[n]
                \/ n - Len(s) \in 1 .. Len(t) /\ (s \o t)[n] = t[n - Len(s)]
OBVIOUS

(* Each of its steps is a step of one of them, in their order. *)
LEMMA StepsOfJoin ==
    ASSUME NEW s \in Seq(Step), NEW t \in Seq(Step)
    PROVE  /\ \A n \in DOMAIN (s \o t) : \/ n \in DOMAIN s /\ (s \o t)[n] = s[n]
                                         \/ \E m \in DOMAIN t : (s \o t)[n] = t[m]
           /\ \A n \in DOMAIN s : n \in DOMAIN (s \o t) /\ (s \o t)[n] = s[n]
           /\ \A n \in DOMAIN s, m \in DOMAIN (s \o t) : m \notin DOMAIN s => n < m
<1> DEFINE u == s \o t
<1>1. /\ DOMAIN s = 1 .. Len(s) /\ DOMAIN t = 1 .. Len(t) /\ Len(s) \in Nat /\ Len(t) \in Nat
      /\ DOMAIN u = 1 .. Len(s) + Len(t)
      /\ \A n \in 1 .. Len(s) : u[n] = s[n]
      /\ \A n \in 1 .. Len(s) + Len(t) :
           \/ n \in 1 .. Len(s) /\ u[n] = s[n]
           \/ n - Len(s) \in 1 .. Len(t) /\ u[n] = t[n - Len(s)]
  BY JoinSteps
<1> HIDE DEF u
<1>2. \A n \in DOMAIN u : (n \in DOMAIN s /\ u[n] = s[n]) \/ \E m \in DOMAIN t : u[n] = t[m]
  BY <1>1
<1>3. \A n \in DOMAIN s : n \in DOMAIN u /\ u[n] = s[n]
  BY <1>1
<1>4. \A n \in DOMAIN s, m \in DOMAIN u : m \notin DOMAIN s => n < m
  BY <1>1
<1>5. QED BY <1>2, <1>3, <1>4 DEF u

(* Together they attach what each of them attaches. *)
LEMMA AttachedByJoin ==
    ASSUME NEW s \in Seq(Step), NEW t \in Seq(Step)
    PROVE  AttachedBy(s \o t) = AttachedBy(s) \cup AttachedBy(t)
<1> DEFINE u == s \o t
<1>1. AttachedBy(u) \subseteq AttachedBy(s) \cup AttachedBy(t)
  BY JoinSteps DEF AttachedBy
<1>2. AttachedBy(s) \subseteq AttachedBy(u)
  <2>1. SUFFICES ASSUME NEW n \in 1 .. Len(s), s[n][1] = "attach" PROVE s[n][3] \in AttachedBy(u)
    BY DEF AttachedBy
  <2>2. n \in DOMAIN u /\ u[n] = s[n]
    BY JoinSteps
  <2>3. QED BY <2>1, <2>2 DEF AttachedBy
<1>3. AttachedBy(t) \subseteq AttachedBy(u)
  <2>1. SUFFICES ASSUME NEW n \in 1 .. Len(t), t[n][1] = "attach" PROVE t[n][3] \in AttachedBy(u)
    BY DEF AttachedBy
  <2>2. Len(s) + n \in DOMAIN u /\ u[Len(s) + n] = t[n]
    BY JoinSteps
  <2>3. QED BY <2>1, <2>2 DEF AttachedBy
<1>4. QED BY <1>1, <1>2, <1>3

(* The rest of a list of steps. *)
LEMMA TailOfSteps ==
    ASSUME NEW s \in Seq(Step), s # << >>
    PROVE  /\ Tail(s) \in Seq(Step) /\ Head(s) = s[1] /\ 1 \in DOMAIN s
           /\ Head(s) \in Step
           /\ \A n \in DOMAIN Tail(s) : n + 1 \in DOMAIN s /\ Tail(s)[n] = s[n + 1]
           /\ \A n \in DOMAIN s : n = 1 \/ (n - 1 \in DOMAIN Tail(s) /\ s[n] = Tail(s)[n - 1])
OBVIOUS

(* The first step attaches what the rest does not. *)
LEMMA AttachedByTail ==
    ASSUME NEW s \in Seq(Step), s # << >>
    PROVE  AttachedBy(s) = AttachedBy(Tail(s)) \cup (IF s[1][1] = "attach" THEN {s[1][3]} ELSE {})
<1> DEFINE t == Tail(s)
<1>1. ASSUME NEW n \in DOMAIN s, s[n][1] = "attach"
      PROVE  s[n][3] \in AttachedBy(t) \cup (IF s[1][1] = "attach" THEN {s[1][3]} ELSE {})
  <2>1. CASE n = 1
    BY <2>1, <1>1
  <2>2. CASE n - 1 \in DOMAIN t /\ s[n] = t[n - 1]
    BY <2>2, <1>1 DEF AttachedBy
  <2>3. QED BY <2>1, <2>2, TailOfSteps
<1>2. ASSUME NEW n \in DOMAIN t, t[n][1] = "attach"
      PROVE  t[n][3] \in AttachedBy(s)
  BY <1>2, TailOfSteps DEF AttachedBy
<1>3. 1 \in DOMAIN s
  BY TailOfSteps
<1>4. QED BY <1>1, <1>2, <1>3 DEF AttachedBy

(* What is in order stays in order when the first step is done. *)
LEMMA OrderedTail ==
    ASSUME NEW s \in Seq(Step), s # << >>, Ordered(s)
    PROVE  Ordered(Tail(s))
<1> SUFFICES ASSUME NEW i \in DOMAIN Tail(s), NEW j \in DOMAIN Tail(s),
                    Tail(s)[i][1] = "pin", Tail(s)[j][1] \in {"load", "unpin"},
                    Tail(s)[i][2] = Tail(s)[j][2]
             PROVE  j < i
  BY DEF Ordered
<1>1. j + 1 < i + 1
  BY TailOfSteps DEF Ordered
<1>2. i \in Int /\ j \in Int
  BY TailOfSteps
<1>3. QED BY <1>1, <1>2

(* The steps for one kind: they attach its programs, end the work on its path with
   a pin, and pin only where there is a path. *)
PlanGood(k, steps) ==
    /\ steps \in Seq(Step)
    /\ AttachedBy(steps) = ToSet(Programs(k))
    /\ Ordered(steps)
    /\ \A i \in DOMAIN steps :
          /\ steps[i][2] = k
          /\ steps[i][1] \in {"unpin", "pin"} => HasPath(k)
    /\ HasPath(k) => ~Done(k, steps)
    /\ steps # << >>

(* A function on the first numbers is a sequence. *)
LEMMA FunctionIsSteps ==
    ASSUME NEW m \in Nat, NEW f \in [1 .. m -> Step]
    PROVE  f \in Seq(Step) /\ Len(f) = m
OBVIOUS

(* Each kind has a list of known programs. *)
LEMMA ProgramsOf ==
    ASSUME NEW k \in Kinds
    PROVE  \E m \in Nat : /\ DOMAIN Programs(k) = 1 .. m
                          /\ \A n \in 1 .. m : Programs(k)[n] \in ProgramNames
<1>1. CASE k = "metrics"
  <2>1. Programs(k) = <<"sched_switch", "mm_page_alloc", "mm_page_free">>
    BY <1>1 DEF Programs
  <2>2. /\ DOMAIN Programs(k) = 1 .. 3 /\ Programs(k)[1] = "sched_switch"
        /\ Programs(k)[2] = "mm_page_alloc" /\ Programs(k)[3] = "mm_page_free"
    BY <2>1
  <2>3. \A n \in 1 .. 3 : Programs(k)[n] \in ProgramNames
    <3>1. \A n \in 1 .. 3 : n = 1 \/ n = 2 \/ n = 3
      OBVIOUS
    <3>2. QED BY <2>2, <3>1 DEF ProgramNames
  <2>4. QED BY <2>2, <2>3
<1>2. CASE k = "network"
  <2>1. Programs(k) = <<"cgroup_ingress", "cgroup_egress">>
    BY <1>2 DEF Programs
  <2>2. /\ DOMAIN Programs(k) = 1 .. 2 /\ Programs(k)[1] = "cgroup_ingress"
        /\ Programs(k)[2] = "cgroup_egress"
    BY <2>1
  <2>3. \A n \in 1 .. 2 : Programs(k)[n] \in ProgramNames
    <3>1. \A n \in 1 .. 2 : n = 1 \/ n = 2
      OBVIOUS
    <3>2. QED BY <2>2, <3>1 DEF ProgramNames
  <2>4. QED BY <2>2, <2>3
<1>3. QED BY <1>1, <1>2 DEF Kinds

(* The plan for one kind attaches its programs, and pins after it has removed. *)
LEMMA PlanIsGood ==
    ASSUME NEW k \in Kinds
    PROVE  PlanGood(k, Plan(k))
<1> DEFINE what == IF cfg[PathOf(k)] = "" THEN <<"load">> ELSE Pinning
           begin == [n \in DOMAIN what |-> <<what[n], k, "">>]
           end == [n \in DOMAIN Programs(k) |-> <<"attach", k, Programs(k)[n]>>]
<1>1. Plan(k) = begin \o end
  BY DEF Plan
<1>2. /\ ~HasPath(k) => what = <<"load">>
      /\ HasPath(k) => what = <<"load", "unpin", "pin">>
  BY DEF HasPath, Pinning
<1> HIDE DEF what
<1>3. PICK m \in Nat :
        /\ DOMAIN what = 1 .. m /\ what[1] = "load"
        /\ m = 1 \/ (m = 3 /\ what[2] = "unpin" /\ what[3] = "pin")
        /\ m = 3 <=> HasPath(k)
  <2>1. CASE ~HasPath(k)
    <3>1. DOMAIN what = 1 .. 1 /\ what[1] = "load"
      BY <1>2, <2>1
    <3>2. QED BY <2>1, <3>1
  <2>2. CASE HasPath(k)
    <3>1. DOMAIN what = 1 .. 3 /\ what[1] = "load" /\ what[2] = "unpin" /\ what[3] = "pin"
      BY <1>2, <2>2
    <3>2. QED BY <2>2, <3>1
  <2>3. QED BY <2>1, <2>2
<1>4. \A n \in DOMAIN what : /\ what[n] \in {"load", "unpin", "pin"}
                             /\ what[n] \in {"unpin", "pin"} => HasPath(k)
                             /\ what[n] = "pin" <=> n = 3
  <2>1. \A n \in DOMAIN what : n = 1 \/ ((n = 2 \/ n = 3) /\ m = 3)
    BY <1>3
  <2>2. QED BY <1>3, <2>1
<1>5. PICK p \in Nat : /\ DOMAIN Programs(k) = 1 .. p
                       /\ \A n \in 1 .. p : Programs(k)[n] \in ProgramNames
  BY ProgramsOf
<1>6. /\ begin \in Seq(Step) /\ DOMAIN begin = DOMAIN what
      /\ \A n \in DOMAIN begin : begin[n][1] = what[n] /\ begin[n][2] = k
  <2>1. ASSUME NEW n \in DOMAIN what PROVE <<what[n], k, "">> \in Step
    <3>1. what[n] \in {"load", "unpin", "pin", "attach"} /\ "" \in ProgramNames
      BY <1>4 DEF ProgramNames
    <3>2. QED BY <3>1 DEF Step
  <2>2. begin \in [1 .. m -> Step]
    BY <1>3, <2>1
  <2>3. QED BY <1>3, <2>2, FunctionIsSteps
<1>7. /\ end \in Seq(Step) /\ DOMAIN end = DOMAIN Programs(k)
      /\ \A n \in DOMAIN end : end[n][1] = "attach" /\ end[n][2] = k /\ end[n][3] = Programs(k)[n]
  <2>1. end \in [1 .. p -> Step]
    BY <1>5 DEF Step
  <2>2. QED BY <1>5, <2>1, FunctionIsSteps
<1> HIDE DEF begin, end
<1> DEFINE steps == begin \o end
<1>8. AttachedBy(begin) = {}
  <2>1. \A n \in DOMAIN begin : begin[n][1] # "attach"
    BY <1>4, <1>6
  <2>2. QED BY <2>1 DEF AttachedBy
<1>9. AttachedBy(end) = ToSet(Programs(k))
  BY <1>7 DEF AttachedBy, ToSet
<1>10. steps \in Seq(Step) /\ AttachedBy(steps) = AttachedBy(begin) \cup AttachedBy(end)
  BY <1>6, <1>7, JoinSteps, AttachedByJoin
<1>11. /\ \A i \in DOMAIN steps : \/ i \in DOMAIN begin /\ steps[i] = begin[i]
                                 \/ \E n \in DOMAIN end : steps[i] = end[n]
      /\ \A i \in DOMAIN begin : i \in DOMAIN steps /\ steps[i] = begin[i]
  BY <1>6, <1>7, StepsOfJoin
<1> HIDE DEF steps
<1>12. \A i \in DOMAIN steps :
         /\ steps[i][2] = k
         /\ steps[i][1] # "attach" => i \in DOMAIN what /\ steps[i][1] = what[i]
  BY <1>6, <1>7, <1>11
<1>13. Ordered(steps)
  <2>1. SUFFICES ASSUME NEW i \in DOMAIN steps, NEW j \in DOMAIN steps,
                        steps[i][1] = "pin", steps[j][1] \in {"load", "unpin"}
                 PROVE  j < i
    BY DEF Ordered
  <2>2. i \in DOMAIN what /\ what[i] = "pin"
    BY <1>12, <2>1
  <2>3. j \in DOMAIN what /\ what[j] # "pin"
    BY <1>12, <2>1
  <2>4. i = 3 /\ j # 3
    BY <1>4, <2>2, <2>3
  <2>5. QED BY <1>3, <2>2, <2>3, <2>4
<1>14. \A i \in DOMAIN steps : steps[i][1] \in {"unpin", "pin"} => HasPath(k)
  BY <1>4, <1>12
<1>15. HasPath(k) => ~Done(k, steps)
  <2>1. SUFFICES ASSUME HasPath(k) PROVE \E i \in DOMAIN steps : steps[i][2] = k /\ steps[i][1] = "pin"
    BY DEF Done
  <2>2. 3 \in DOMAIN what /\ what[3] = "pin"
    BY <1>3, <2>1
  <2>3. 3 \in DOMAIN steps /\ steps[3][1] = "pin" /\ steps[3][2] = k
    BY <1>6, <1>11, <2>2
  <2>4. QED BY <2>3
<1>16. steps # << >>
  <2>1. 1 \in DOMAIN what
    BY <1>3
  <2>2. 1 \in DOMAIN steps
    BY <1>6, <1>11, <2>1
  <2>3. QED BY <2>2
<1>17. QED BY <1>1, <1>8, <1>9, <1>10, <1>12, <1>13, <1>14, <1>15, <1>16 DEF PlanGood, steps

-----------------------------------------------------------------------------
(* Outside Manager.Start and the run *)

Idle ==
    /\ Typed /\ pc \notin {"start", "running"}
    /\ todo = << >> /\ links = {} /\ opened = NoMaps
    /\ issue => pc \in {"manager", "down"}
    /\ issue /\ pc # "down" => ~AnyEnabled

(* With nothing begun, the invariant says nothing more. *)
LEMMA IdleIsGood == Idle => IInv
<1> SUFFICES ASSUME Idle PROVE IInv
  OBVIOUS
<1>1. Typed /\ pc \notin {"start", "running"} /\ DOMAIN todo = {}
  BY DEF Idle
<1>2. Phased
  BY DEF Idle, Phased
<1>3. Attaching /\ PinsLive
  BY <1>1 DEF Attaching, PinsLive
<1>4. Planned /\ Ordered(todo)
  BY <1>1 DEF Planned, Ordered
<1>5. CollectorsReadLiveMap
  BY DEF Idle, CollectorsReadLiveMap, NoMaps
<1>6. QED BY <1>1, <1>2, <1>3, <1>4, <1>5 DEF IInv

(* The same of the next state. *)
LEMMA IdleAgain == Idle' => IInv'
BY IdleIsGood, PTL

(* Outside Manager.Start and the run nothing is begun. *)
LEMMA GoodIsIdle ==
    ASSUME IInv, pc \notin {"start", "running"}
    PROVE  Idle
BY DEF IInv, Phased, Idle

(* The agent begins with nothing begun. *)
LEMMA InitEstablishes == Init => IInv
<1> SUFFICES ASSUME Init PROVE Idle
  BY IdleIsGood
<1>1. lives \in 1 .. MaxLives
  BY StartupAssumption DEF Init
<1>2. Configured
  BY DefaultConfigured DEF Init, Configured
<1>3. pins \in [Paths -> MapOrNone] /\ filled \in [Kinds -> MapOrNone] /\ opened \in [Kinds -> MapOrNone]
  BY DEF Init, NoPins, NoMaps, MapOrNone
<1>4. todo \in Seq(Step)
  BY DEF Init
<1>5. QED BY <1>1, <1>2, <1>3, <1>4 DEF Init, Idle, Typed

(* Reading the configuration, or failing to. *)
LEMMA LoadConfigKeeps ==
    ASSUME IInv, LoadConfig
    PROVE  IInv'
<1>1. Idle
  BY GoodIsIdle DEF LoadConfig
<1>2. /\ pc' \in {"identify", "failed"}
      /\ cfg' = cfg \/ \E i \in Inputs : cfg' = Load(i.flags, i.file, i.env)
  BY DEF LoadConfig
<1>3. Configured'
  <2>1. CASE cfg' = cfg
    BY <1>1, <2>1 DEF Idle, Typed, Configured, PathOf
  <2>2. CASE \E i \in Inputs : cfg' = Load(i.flags, i.file, i.env)
    <3>1. PICK i \in Inputs : cfg' = Load(i.flags, i.file, i.env)
      BY <2>2
    <3>2. QED BY <3>1, LoadConfigured DEF Configured
  <2>3. QED BY <1>2, <2>1, <2>2
<1>4. Typed'
  BY <1>1, <1>2, <1>3 DEF Idle, Typed, LoadConfig, kernel
<1>5. ~issue /\ issue' = issue
  BY <1>1 DEF Idle, LoadConfig
<1>6. Idle'
  BY <1>1, <1>2, <1>4, <1>5 DEF Idle, LoadConfig, kernel
<1>7. QED BY <1>6, IdleAgain

(* The steps from the configuration to the preflight. *)
LEMMA NamesKeep ==
    ASSUME IInv, Identify \/ IdentifyRegion \/ ResolveNode \/ SyncCaches
    PROVE  IInv'
<1>1. /\ pc \in {"identify", "region", "node", "sync"} /\ pc' \in {"region", "node", "sync", "preflight"}
      /\ UNCHANGED <<lives, cfg, issue, todo, pins, filled, links, opened>>
  BY DEF Identify, IdentifyRegion, ResolveNode, SyncCaches, kernel
<1>2. Idle
  BY <1>1, GoodIsIdle
<1>3. Typed'
  BY <1>1, <1>2 DEF Idle, Typed, Configured
<1>4. Idle'
  BY <1>1, <1>2, <1>3 DEF Idle
<1>5. QED BY <1>4, IdleAgain

(* The preflight may lose pins and switch both collectors off. *)
LEMMA PreflightKeeps ==
    ASSUME IInv, Preflight
    PROVE  IInv'
<1>1. Idle /\ pc = "preflight" /\ pc' = "manager"
  BY GoodIsIdle DEF Preflight
<1>2. /\ UNCHANGED <<lives, todo, filled, links, opened>>
      /\ cfg' \in {cfg, Disabled(cfg)} /\ (issue' => cfg' = Disabled(cfg))
  BY <1>1 DEF Preflight, kernel, Idle
<1>3. pins' \in [Paths -> MapOrNone]
  <2>1. pins \in [Paths -> MapOrNone] /\ NoPins \in [Paths -> MapOrNone]
    BY <1>1 DEF Idle, Typed, NoPins, MapOrNone
  <2>2. pins' \in {pins, NoPins}
    BY DEF Preflight, MountOutcomes
  <2>3. QED BY <2>1, <2>2
<1>4. Configured'
  <2>1. cfg = [f \in Fields |-> cfg[f]] /\ \A k \in Kinds : cfg[PathOf(k)] \in Paths
    BY <1>1 DEF Idle, Typed, Configured
  <2>2. /\ Disabled(cfg) = [f \in Fields |-> Disabled(cfg)[f]]
        /\ \A k \in Kinds : Disabled(cfg)[PathOf(k)] \in Paths
    BY <2>1, FieldNames DEF Disabled, PathOf
  <2>3. QED BY <1>2, <2>1, <2>2 DEF Configured, PathOf
<1>5. issue' => ~AnyEnabled'
  <2>1. cfg = [f \in Fields |-> cfg[f]]
    BY <1>1 DEF Idle, Typed, Configured
  <2>2. \A k \in Kinds : Disabled(cfg)[Switch(k)] = FALSE
    BY <2>1, FieldNames DEF Disabled, Switch, Kinds
  <2>3. QED BY <1>2, <2>2 DEF AnyEnabled, Enabled
<1>6. Typed'
  BY <1>1, <1>2, <1>3, <1>4 DEF Idle, Typed
<1>7. Idle'
  BY <1>1, <1>2, <1>5, <1>6 DEF Idle
<1>8. QED BY <1>7, IdleAgain

(* However a life ends, nothing of it is left but the pins. *)
LEMMA EndsKeeps ==
    ASSUME IInv, NEW how \in {"failed", "down"}, Ends(how), how = "failed" => ~issue
    PROVE  IInv'
<1>1. /\ pc' = how /\ cfg' = DefaultConfig /\ todo' = << >> /\ links' = {}
      /\ filled' = NoMaps /\ opened' = NoMaps /\ UNCHANGED <<lives, issue, pins>>
  BY DEF Ends, Close
<1>2. Configured'
  BY <1>1, DefaultConfigured DEF Configured, PathOf
<1>3. filled' \in [Kinds -> MapOrNone] /\ opened' \in [Kinds -> MapOrNone]
  BY <1>1 DEF NoMaps, MapOrNone
<1>4. Typed'
  BY <1>1, <1>2, <1>3 DEF IInv, Typed
<1>5. Idle'
  BY <1>1, <1>4 DEF Idle
<1>6. QED BY <1>5, IdleAgain

(* Every end of a process. *)
LEMMA EndingKeeps ==
    ASSUME IInv, GiveUp \/ Down \/ ServerRuns
    PROVE  IInv'
<1>1. CASE GiveUp
  <2>1. ~issue
    BY <1>1 DEF GiveUp, IInv, Phased
  <2>2. QED BY <1>1, <2>1, EndsKeeps DEF GiveUp
<1>2. CASE Down
  BY <1>2, EndsKeeps DEF Down
<1>3. CASE ServerRuns
  BY <1>3, EndsKeeps DEF ServerRuns
<1>4. QED BY <1>1, <1>2, <1>3

(* The next start of the agent. *)
LEMMA StartsKeeps ==
    ASSUME IInv, Restart \/ Reboot
    PROVE  IInv'
<1>1. /\ pc \in {"failed", "down"} /\ pc' = "load" /\ lives < MaxLives /\ lives' = lives + 1
      /\ issue' = FALSE /\ UNCHANGED <<cfg, todo, filled, links, opened>>
      /\ pins' \in {pins, NoPins}
  BY DEF Restart, Reboot, Starts, kernel
<1>2. Idle
  BY <1>1, GoodIsIdle
<1>3. lives' \in 1 .. MaxLives
  BY <1>1, <1>2, StartupAssumption DEF Idle, Typed
<1>4. pins' \in [Paths -> MapOrNone]
  BY <1>1, <1>2 DEF Idle, Typed, NoPins, MapOrNone
<1>5. Typed'
  BY <1>1, <1>2, <1>3, <1>4 DEF Idle, Typed, Configured
<1>6. Idle'
  BY <1>1, <1>2, <1>5 DEF Idle
<1>7. QED BY <1>6, IdleAgain

-----------------------------------------------------------------------------
(* Manager.Start *)

(* The steps of one kind, enabled or not. *)
PlanOfGood(k, steps) ==
    /\ steps \in Seq(Step)
    /\ AttachedBy(steps) = IF Enabled(k) THEN ToSet(Programs(k)) ELSE {}
    /\ Ordered(steps)
    /\ \A i \in DOMAIN steps :
          /\ steps[i][2] = k /\ Enabled(k)
          /\ steps[i][1] \in {"unpin", "pin"} => HasPath(k)
    /\ Enabled(k) /\ HasPath(k) => ~Done(k, steps)
    /\ Enabled(k) <=> steps # << >>

(* A kind that is off has an empty plan. *)
LEMMA PlanOfIsGood ==
    ASSUME NEW k \in Kinds
    PROVE  PlanOfGood(k, PlanOf(k))
<1>1. CASE Enabled(k)
  <2>1. PlanOf(k) = Plan(k)
    BY <1>1 DEF PlanOf
  <2>2. QED BY <1>1, <2>1, PlanIsGood DEF PlanGood, PlanOfGood
<1>2. CASE ~Enabled(k)
  <2>1. PlanOf(k) = << >>
    BY <1>2 DEF PlanOf
  <2>2. DOMAIN << >> = {} /\ << >> \in Seq(Step)
    OBVIOUS
  <2>3. AttachedBy(<< >>) = {} /\ Ordered(<< >>)
    BY <2>2 DEF AttachedBy, Ordered
  <2>4. QED BY <1>2, <2>1, <2>2, <2>3 DEF PlanOfGood
<1>3. QED BY <1>1, <1>2

(* Two plans in order, for different kinds, are in order together. *)
LEMMA JoinedOrder ==
    ASSUME NEW s \in Seq(Step), NEW t \in Seq(Step), NEW j, NEW k, j # k,
           Ordered(s), Ordered(t),
           \A n \in DOMAIN s : s[n][2] = j,
           \A n \in DOMAIN t : t[n][2] = k
    PROVE  Ordered(s \o t)
<1> DEFINE u == s \o t
<1>1. /\ DOMAIN s = 1 .. Len(s) /\ DOMAIN t = 1 .. Len(t) /\ Len(s) \in Nat /\ Len(t) \in Nat
      /\ DOMAIN u = 1 .. Len(s) + Len(t)
      /\ \A n \in 1 .. Len(s) + Len(t) :
           \/ n \in 1 .. Len(s) /\ u[n] = s[n]
           \/ n - Len(s) \in 1 .. Len(t) /\ u[n] = t[n - Len(s)]
  BY JoinSteps
<1> HIDE DEF u
<1>2. SUFFICES ASSUME NEW a \in DOMAIN u, NEW b \in DOMAIN u, u[a][1] = "pin",
                      u[b][1] \in {"load", "unpin"}, u[a][2] = u[b][2]
               PROVE  b < a
  BY DEF Ordered, u
<1>3. CASE a \in DOMAIN s /\ u[a] = s[a] /\ b \in DOMAIN s /\ u[b] = s[b]
  BY <1>2, <1>3 DEF Ordered
<1>4. CASE /\ a - Len(s) \in DOMAIN t /\ u[a] = t[a - Len(s)]
           /\ b - Len(s) \in DOMAIN t /\ u[b] = t[b - Len(s)]
  <2>1. b - Len(s) < a - Len(s)
    BY <1>2, <1>4 DEF Ordered
  <2>2. a \in Int /\ b \in Int
    BY <1>1
  <2>3. QED BY <1>1, <2>1, <2>2
<1>5. CASE a \in DOMAIN s /\ u[a] = s[a] /\ b - Len(s) \in DOMAIN t /\ u[b] = t[b - Len(s)]
  BY <1>2, <1>5
<1>6. CASE b \in DOMAIN s /\ u[b] = s[b] /\ a - Len(s) \in DOMAIN t /\ u[a] = t[a - Len(s)]
  BY <1>2, <1>6
<1>7. QED BY <1>1, <1>3, <1>4, <1>5, <1>6

(* Manager.Start begins with the plans of both kinds. *)
LEMMA StartManagerKeeps ==
    ASSUME IInv, StartManager
    PROVE  IInv'
<1> DEFINE s == PlanOf("metrics")
           t == PlanOf("network")
           u == s \o t
<1>1. /\ Idle /\ pc = "manager" /\ pc' = (IF AnyEnabled THEN "start" ELSE "running")
      /\ todo' = u /\ UNCHANGED <<lives, cfg, issue, pins, filled, links, opened>>
  BY GoodIsIdle DEF StartManager, kernel
<1>2. PlanOfGood("metrics", s) /\ PlanOfGood("network", t)
  BY PlanOfIsGood DEF Kinds
<1> HIDE DEF s, t
<1>3. s \in Seq(Step) /\ t \in Seq(Step)
  BY <1>2 DEF PlanOfGood
<1>4. /\ u \in Seq(Step) /\ AttachedBy(u) = AttachedBy(s) \cup AttachedBy(t)
      /\ \A n \in DOMAIN u : (n \in DOMAIN s /\ u[n] = s[n]) \/ \E m \in DOMAIN t : u[n] = t[m]
  BY <1>3, JoinSteps, AttachedByJoin, StepsOfJoin
<1>5. /\ \A n \in DOMAIN s : \E i \in DOMAIN u : u[i] = s[n]
      /\ \A n \in DOMAIN t : \E i \in DOMAIN u : u[i] = t[n]
  <2>1. ASSUME NEW n \in DOMAIN t PROVE Len(s) + n \in DOMAIN u /\ u[Len(s) + n] = t[n]
    BY <1>3, JoinSteps
  <2>2. \A n \in DOMAIN s : n \in DOMAIN u /\ u[n] = s[n]
    BY <1>3, StepsOfJoin
  <2>3. QED BY <2>1, <2>2
<1>6. Ordered(u)
  <2>1. Ordered(s) /\ Ordered(t)
    BY <1>2 DEF PlanOfGood
  <2>2. (\A n \in DOMAIN s : s[n][2] = "metrics") /\ \A n \in DOMAIN t : t[n][2] = "network"
    BY <1>2 DEF PlanOfGood
  <2>3. "metrics" # "network"
    OBVIOUS
  <2> HIDE DEF u
  <2>4. Ordered(s \o t)
    BY ONLY <1>3, <2>1, <2>2, <2>3, JoinedOrder
  <2>5. QED BY <2>4 DEF u
<1> HIDE DEF u
<1>7. u # << >> <=> AnyEnabled
  <2>1. DOMAIN s # {} \/ DOMAIN t # {} <=> DOMAIN u # {}
    BY <1>4, <1>5
  <2>2. ASSUME NEW v \in Seq(Step) PROVE v # << >> <=> DOMAIN v # {}
    <3>1. v = << >> <=> Len(v) = 0
      OBVIOUS
    <3>2. DOMAIN v = 1 .. Len(v) /\ Len(v) \in Nat
      OBVIOUS
    <3>3. \A n \in Nat : n = 0 <=> 1 .. n = {}
      OBVIOUS
    <3>4. Len(v) = 0 <=> DOMAIN v = {}
      BY <3>2, <3>3
    <3>5. QED BY <3>1, <3>4
  <2>3. AnyEnabled <=> Enabled("metrics") \/ Enabled("network")
    BY DEF AnyEnabled, Kinds
  <2>4. QED BY <1>2, <1>3, <1>4, <2>1, <2>2, <2>3 DEF PlanOfGood
<1>8. \A k \in Kinds : Enabled(k) /\ HasPath(k) => ~Done(k, u)
  BY <1>2, <1>5 DEF Kinds, PlanOfGood, Done
<1>9. AttachedBy(u) = AllPrograms
  BY <1>2, <1>4 DEF PlanOfGood, AllPrograms, Kinds
<1>10. Typed'
  BY <1>1, <1>4 DEF Idle, Typed, Configured
<1>11. Phased'
  BY <1>1, <1>7 DEF Idle, Phased, AnyEnabled, Enabled
<1>12. Attaching'
  BY <1>1, <1>9 DEF Idle, Attaching, AllPrograms, Enabled
<1>13. Planned'
  <2>1. \A i \in DOMAIN u : /\ Enabled(u[i][2])
                            /\ u[i][1] \in {"unpin", "pin"} => HasPath(u[i][2])
    BY <1>2, <1>4 DEF PlanOfGood
  <2>2. QED BY <1>1, <2>1 DEF Planned, Enabled, HasPath, PathOf, Switch
<1>14. PinsLive'
  BY <1>1, <1>8 DEF PinsLive, Pinned, HasPath, Enabled
<1>15. CollectorsReadLiveMap'
  BY <1>1 DEF Idle, CollectorsReadLiveMap, NoMaps
<1>16. QED BY <1>1, <1>6, <1>10, <1>11, <1>12, <1>13, <1>14, <1>15 DEF IInv

(* What every step of the list keeps, whatever it does to pins, maps and links. *)
LEMMA StepDoneKeeps ==
    ASSUME IInv, NEW what, Doing(what), StepDone
    PROVE  /\ pc' \in {"start", "running"} /\ UNCHANGED <<lives, cfg, issue, opened>>
           /\ todo' = Tail(todo) /\ todo' \in Seq(Step) /\ Configured'
           /\ Phased' /\ Planned' /\ Ordered(todo)' /\ CollectorsReadLiveMap'
           /\ todo[1] = Head(todo) /\ 1 \in DOMAIN todo /\ todo[1][1] = what
           /\ Kind = todo[1][2] /\ Kind \in Kinds /\ Enabled(Kind)
           /\ \A n \in DOMAIN todo' : n + 1 \in DOMAIN todo /\ todo'[n] = todo[n + 1]
           /\ \A n \in DOMAIN todo : n = 1 \/ (n - 1 \in DOMAIN todo' /\ todo[n] = todo'[n - 1])
<1>1. /\ pc = "start" /\ todo # << >> /\ Head(todo)[1] = what
      /\ todo' = Tail(todo) /\ pc' = (IF todo' = << >> THEN "running" ELSE "start")
      /\ UNCHANGED <<lives, cfg, issue, opened>>
  BY DEF Doing, StepDone
<1>2. todo \in Seq(Step)
  BY DEF IInv, Typed
<1>3. /\ Tail(todo) \in Seq(Step) /\ Head(todo) = todo[1] /\ 1 \in DOMAIN todo /\ Head(todo) \in Step
      /\ \A n \in DOMAIN Tail(todo) : n + 1 \in DOMAIN todo /\ Tail(todo)[n] = todo[n + 1]
      /\ \A n \in DOMAIN todo : n = 1 \/ (n - 1 \in DOMAIN Tail(todo) /\ todo[n] = Tail(todo)[n - 1])
  BY <1>1, <1>2, TailOfSteps
<1>4. Configured'
  BY <1>1 DEF IInv, Typed, Configured, PathOf
<1>5. Phased'
  BY <1>1 DEF IInv, Phased, AnyEnabled
<1>6. Planned'
  <2>1. \A i \in DOMAIN todo : /\ Enabled(todo[i][2])
                               /\ todo[i][1] \in {"unpin", "pin"} => HasPath(todo[i][2])
    BY DEF IInv, Planned
  <2>2. \A i \in DOMAIN Tail(todo) : /\ Enabled(Tail(todo)[i][2])
                                     /\ Tail(todo)[i][1] \in {"unpin", "pin"} => HasPath(Tail(todo)[i][2])
    BY <1>3, <2>1
  <2>3. QED BY <1>1, <2>2 DEF Planned, Enabled, HasPath
<1>7. Ordered(todo)'
  BY <1>1, <1>2, OrderedTail DEF IInv, Ordered
<1>8. CollectorsReadLiveMap'
  BY <1>1 DEF IInv, Phased, CollectorsReadLiveMap, NoMaps
<1>9. Kind = todo[1][2] /\ Kind \in Kinds /\ Enabled(Kind)
  BY <1>3 DEF Kind, Step, IInv, Planned
<1>10. QED BY <1>1, <1>3, <1>4, <1>5, <1>6, <1>7, <1>8, <1>9

(* A step on the path of one kind leaves the pin of another alone. *)
LEMMA PathsDiffer ==
    ASSUME NEW j \in Kinds, NEW k \in Kinds, j # k, HasPath(j), Pinned(k)
    PROVE  cfg[PathOf(j)] # cfg[PathOf(k)]
<1>1. HasPath(k) /\ OpenPath("metrics") # OpenPath("network")
  BY DEF Pinned, HasPath
<1>2. OpenPath(j) = cfg[PathOf(j)] /\ OpenPath(k) = cfg[PathOf(k)]
  BY <1>1 DEF HasPath, OpenPath
<1>3. CASE j = "metrics"
  <2>1. k = "network"
    BY <1>3 DEF Kinds
  <2>2. QED BY <1>1, <1>2, <1>3, <2>1
<1>4. CASE j = "network"
  <2>1. k = "metrics"
    BY <1>4 DEF Kinds
  <2>2. QED BY <1>1, <1>2, <1>4, <2>1
<1>5. QED BY <1>3, <1>4 DEF Kinds

(* A pin that is made after a step was made before it, if the step did not make it. *)
LEMMA DoneBefore ==
    ASSUME NEW s \in Seq(Step), s # << >>, NEW k, Done(k, Tail(s)), s[1][1] # "pin" \/ s[1][2] # k
    PROVE  Done(k, s)
<1> SUFFICES ASSUME NEW i \in DOMAIN s, s[i][2] = k PROVE s[i][1] # "pin"
  BY DEF Done
<1>1. CASE i = 1
  BY <1>1
<1>2. CASE i - 1 \in DOMAIN Tail(s) /\ s[i] = Tail(s)[i - 1]
  BY <1>2 DEF Done
<1>3. QED BY <1>1, <1>2, TailOfSteps

(* What only attaches goes on only attaching. *)
LEMMA OnlyAttachingAfter ==
    ASSUME NEW s \in Seq(Step), s # << >>, NEW k, OnlyAttaching(k, s)
    PROVE  OnlyAttaching(k, Tail(s))
BY TailOfSteps DEF OnlyAttaching

(* Where the pin of k was not just made, it was the map of this life before. *)
LEMMA LiveBefore ==
    ASSUME IInv, NEW what, Doing(what), StepDone, NEW k \in Kinds,
           Enabled(k), Pinned(k), Done(k, Tail(todo)), what # "pin" \/ k # Kind
    PROVE  /\ OnlyAttaching(k, Tail(todo)) /\ pins[cfg[PathOf(k)]] = filled[k]
           /\ what # "attach" => k # Kind
<1>1. /\ todo \in Seq(Step) /\ todo # << >> /\ pc = "start"
      /\ 1 \in DOMAIN todo /\ todo[1][1] = what /\ todo[1][2] = Kind
  BY StepDoneKeeps DEF Doing, IInv, Typed
<1>2. Done(k, todo)
  BY <1>1, DoneBefore
<1>3. OnlyAttaching(k, todo) /\ pins[cfg[PathOf(k)]] = filled[k]
  BY <1>1, <1>2 DEF IInv, PinsLive
<1>4. OnlyAttaching(k, Tail(todo))
  BY <1>1, <1>3, OnlyAttachingAfter
<1>5. what # "attach" => k # Kind
  BY <1>1, <1>3 DEF OnlyAttaching
<1>6. QED BY <1>3, <1>4, <1>5

(* Where the pins are live after a step, everything is in order again. *)
LEMMA StepKeeps ==
    ASSUME IInv, NEW what, Doing(what), StepDone,
           pins' \in [Paths -> MapOrNone], filled' \in [Kinds -> MapOrNone],
           links' = links \cup (IF what = "attach" THEN {todo[1][3]} ELSE {}),
           \A k \in Kinds : Enabled(k) /\ Pinned(k) /\ Done(k, Tail(todo)) =>
               OnlyAttaching(k, Tail(todo)) /\ pins'[cfg[PathOf(k)]] = filled'[k]
    PROVE  IInv'
<1>1. /\ pc' \in {"start", "running"} /\ UNCHANGED <<lives, cfg, issue, opened>>
      /\ todo' = Tail(todo) /\ todo' \in Seq(Step) /\ Configured'
      /\ Phased' /\ Planned' /\ Ordered(todo)' /\ CollectorsReadLiveMap'
      /\ todo[1][1] = what
  BY StepDoneKeeps
<1>2. pc = "start" /\ todo \in Seq(Step) /\ todo # << >>
  BY DEF Doing, IInv, Typed
<1>3. Typed'
  BY <1>1 DEF IInv, Typed
<1>4. Attaching'
  <2>1. AttachedBy(todo) = AttachedBy(Tail(todo)) \cup (IF what = "attach" THEN {todo[1][3]} ELSE {})
    BY <1>1, <1>2, AttachedByTail
  <2>2. links \cup AttachedBy(todo) = AllPrograms
    BY <1>2 DEF IInv, Attaching
  <2>3. links' \cup AttachedBy(Tail(todo)) = AllPrograms
    BY <2>1, <2>2
  <2>4. AllPrograms' = AllPrograms
    BY <1>1 DEF AllPrograms, Enabled, Switch, Programs
  <2>5. AttachedBy(todo)' = AttachedBy(Tail(todo))
    BY <1>1 DEF AttachedBy
  <2>6. QED BY <2>3, <2>4, <2>5 DEF Attaching
<1>5. PinsLive'
  BY <1>1 DEF PinsLive, Enabled, Pinned, OpenPath, Done, OnlyAttaching
<1>6. QED BY <1>1, <1>3, <1>4, <1>5 DEF IInv

(* Loading a collection comes before the pin of its kind. *)
LEMMA LoadCollectionKeeps ==
    ASSUME IInv, LoadCollection
    PROVE  IInv'
<1>1. /\ Doing("load") /\ StepDone /\ UNCHANGED <<pins, links>>
      /\ filled' = [filled EXCEPT ![Kind] = <<Kind, lives>>]
  BY DEF LoadCollection
<1>2. Kind \in Kinds
  BY <1>1, StepDoneKeeps
<1>3. pins' \in [Paths -> MapOrNone] /\ filled' \in [Kinds -> MapOrNone]
  BY <1>1, <1>2 DEF IInv, Typed, MapOrNone, Maps
<1>4. ASSUME NEW k \in Kinds, Enabled(k), Pinned(k), Done(k, Tail(todo))
      PROVE  OnlyAttaching(k, Tail(todo)) /\ pins'[cfg[PathOf(k)]] = filled'[k]
  <2>1. OnlyAttaching(k, Tail(todo)) /\ pins[cfg[PathOf(k)]] = filled[k] /\ k # Kind
    BY <1>1, <1>4, LiveBefore
  <2>2. filled'[k] = filled[k]
    BY <1>1, <1>2, <2>1 DEF IInv, Typed
  <2>3. QED BY <1>1, <2>1, <2>2
<1>5. QED BY <1>1, <1>3, <1>4, StepKeeps

(* Removing an old pin comes before the pin of its kind. *)
LEMMA RemoveOldPinKeeps ==
    ASSUME IInv, RemoveOldPin
    PROVE  IInv'
<1>1. /\ Doing("unpin") /\ StepDone /\ UNCHANGED <<filled, links>>
      /\ pins' \in {pins, [pins EXCEPT ![cfg[PathOf(Kind)]] = None]}
  BY DEF RemoveOldPin, kernel
<1>2. Kind \in Kinds /\ 1 \in DOMAIN todo /\ todo[1][1] = "unpin" /\ todo[1][2] = Kind
  BY <1>1, StepDoneKeeps
<1>3. HasPath(Kind)
  BY <1>2 DEF IInv, Planned
<1>4. cfg[PathOf(Kind)] \in Paths /\ \A k \in Kinds : cfg[PathOf(k)] \in Paths
  BY <1>2 DEF IInv, Typed, Configured
<1>5. pins \in [Paths -> MapOrNone] /\ pins' \in [Paths -> MapOrNone] /\ filled' \in [Kinds -> MapOrNone]
  BY <1>1, <1>4 DEF IInv, Typed, MapOrNone
<1>6. ASSUME NEW k \in Kinds, Enabled(k), Pinned(k), Done(k, Tail(todo))
      PROVE  OnlyAttaching(k, Tail(todo)) /\ pins'[cfg[PathOf(k)]] = filled'[k]
  <2>1. OnlyAttaching(k, Tail(todo)) /\ pins[cfg[PathOf(k)]] = filled[k] /\ k # Kind
    BY <1>1, <1>6, LiveBefore
  <2>2. cfg[PathOf(k)] # cfg[PathOf(Kind)]
    BY <1>2, <1>3, <1>6, <2>1, PathsDiffer
  <2>3. pins'[cfg[PathOf(k)]] = pins[cfg[PathOf(k)]]
    BY <1>1, <1>4, <1>5, <2>2
  <2>4. QED BY <1>1, <2>1, <2>3
<1>7. QED BY <1>1, <1>5, <1>6, StepKeeps

(* The pin of a kind is the map of this life. *)
LEMMA PinMapKeeps ==
    ASSUME IInv, PinMap
    PROVE  IInv'
<1>1. /\ Doing("pin") /\ StepDone /\ UNCHANGED <<filled, links>>
      /\ pins' = [pins EXCEPT ![cfg[PathOf(Kind)]] = filled[Kind]]
  BY DEF PinMap, kernel
<1>2. Kind \in Kinds /\ 1 \in DOMAIN todo /\ todo[1][1] = "pin" /\ todo[1][2] = Kind
  BY <1>1, StepDoneKeeps
<1>3. HasPath(Kind)
  BY <1>2 DEF IInv, Planned
<1>4. \A k \in Kinds : cfg[PathOf(k)] \in Paths
  BY DEF IInv, Typed, Configured
<1>5. pins \in [Paths -> MapOrNone] /\ pins' \in [Paths -> MapOrNone] /\ filled' \in [Kinds -> MapOrNone]
  BY <1>1, <1>2, <1>4 DEF IInv, Typed
<1>6. ASSUME NEW k \in Kinds, Enabled(k), Pinned(k), Done(k, Tail(todo))
      PROVE  OnlyAttaching(k, Tail(todo)) /\ pins'[cfg[PathOf(k)]] = filled'[k]
  <2>1. CASE k # Kind
    <3>1. OnlyAttaching(k, Tail(todo)) /\ pins[cfg[PathOf(k)]] = filled[k]
      BY <1>1, <1>6, <2>1, LiveBefore
    <3>2. cfg[PathOf(k)] # cfg[PathOf(Kind)]
      BY <1>2, <1>3, <1>6, <2>1, PathsDiffer
    <3>3. pins'[cfg[PathOf(k)]] = pins[cfg[PathOf(k)]]
      BY <1>1, <1>4, <1>5, <3>2
    <3>4. QED BY <1>1, <3>1, <3>3
  <2>2. CASE k = Kind
    <3>1. pins'[cfg[PathOf(k)]] = filled'[k]
      BY <1>1, <1>4, <1>5, <2>2
    <3>2. ASSUME NEW i \in DOMAIN Tail(todo), Tail(todo)[i][2] = k
          PROVE  Tail(todo)[i][1] = "attach"
      <4>1. todo \in Seq(Step) /\ todo # << >>
        BY <1>1 DEF Doing, IInv, Typed
      <4>2. /\ i \in Nat /\ i + 1 \in DOMAIN todo /\ todo[i + 1] = Tail(todo)[i]
            /\ Tail(todo)[i] \in Step
        BY <4>1, TailOfSteps
      <4>3. Tail(todo)[i][1] \in {"load", "unpin"} => i + 1 < 1
        BY <1>2, <2>2, <3>2, <4>2 DEF IInv, Ordered
      <4>4. ~(i + 1 < 1)
        BY <4>2
      <4>5. Tail(todo)[i][1] # "pin"
        BY <1>6, <3>2 DEF Done
      <4>6. Tail(todo)[i][1] \in {"load", "unpin", "pin", "attach"}
        BY <4>2 DEF Step
      <4>7. QED BY <4>3, <4>4, <4>5, <4>6
    <3>3. QED BY <3>1, <3>2 DEF OnlyAttaching
  <2>3. QED BY <2>1, <2>2
<1>7. QED BY <1>1, <1>5, <1>6, StepKeeps

(* Attaching leaves the pins as they are. *)
LEMMA AttachProgramKeeps ==
    ASSUME IInv, AttachProgram
    PROVE  IInv'
<1>1. /\ Doing("attach") /\ StepDone /\ UNCHANGED <<pins, filled>>
      /\ links' = links \cup {Head(todo)[3]}
  BY DEF AttachProgram
<1>2. Head(todo) = todo[1]
  BY <1>1, StepDoneKeeps
<1>3. pins' \in [Paths -> MapOrNone] /\ filled' \in [Kinds -> MapOrNone]
  BY <1>1 DEF IInv, Typed
<1>4. ASSUME NEW k \in Kinds, Enabled(k), Pinned(k), Done(k, Tail(todo))
      PROVE  OnlyAttaching(k, Tail(todo)) /\ pins'[cfg[PathOf(k)]] = filled'[k]
  BY <1>1, <1>4, LiveBefore
<1>5. QED BY <1>1, <1>2, <1>3, <1>4, StepKeeps

-----------------------------------------------------------------------------
(* The run *)

(* While neither the list of steps nor what they work on changes, nothing the
   invariant says of them does. *)
LEMMA Unmoved ==
    ASSUME IInv, UNCHANGED <<pc, lives, cfg, issue, todo, pins, filled, links>>
    PROVE  Configured' /\ Attaching' /\ Planned' /\ Ordered(todo)' /\ PinsLive'
<1>1. Configured' /\ Planned' /\ Ordered(todo)'
  BY DEF IInv, Typed, Configured, Planned, Enabled, HasPath, Ordered
<1>2. Attaching'
  <2>1. AllPrograms' = AllPrograms
    BY DEF AllPrograms, Enabled, Switch, Programs
  <2>2. AttachedBy(todo)' = AttachedBy(todo)
    BY DEF AttachedBy
  <2>3. QED BY <2>1, <2>2 DEF IInv, Attaching
<1>3. PinsLive'
  <2>1. ASSUME NEW k \in Kinds, pc \in {"start", "running"}, Enabled(k), Pinned(k), Done(k, todo)
        PROVE  OnlyAttaching(k, todo) /\ pins[cfg[PathOf(k)]] = filled[k]
    BY <2>1 DEF IInv, PinsLive
  <2>2. QED BY <2>1 DEF PinsLive, Enabled, Pinned, OpenPath, Done, OnlyAttaching
<1>4. QED BY <1>1, <1>2, <1>3

(* A collector opens what is pinned at the path of its kind. *)
LEMMA OpenMapKeeps ==
    ASSUME IInv, NEW k \in Kinds, OpenMap(k)
    PROVE  IInv'
<1>1. /\ pc = "running" /\ Enabled(k) /\ pins[OpenPath(k)] # None
      /\ opened' = [opened EXCEPT ![k] = pins[OpenPath(k)]]
      /\ UNCHANGED <<pc, lives, cfg, issue, todo, pins, filled, links>>
  BY DEF OpenMap, kernel
<1>2. todo = << >> /\ pins \in [Paths -> MapOrNone] /\ opened \in [Kinds -> MapOrNone]
  BY <1>1 DEF IInv, Typed, Phased
<1>3. OpenPath(k) \in Paths
  BY DefaultConfigured DEF IInv, Typed, Configured, OpenPath
<1>4. Typed'
  <2>1. opened' \in [Kinds -> MapOrNone]
    BY <1>1, <1>2, <1>3
  <2>2. QED BY <1>1, <2>1 DEF IInv, Typed, Configured
<1>5. CollectorsReadLiveMap'
  <2>1. SUFFICES ASSUME NEW j \in Kinds, opened'[j] # None, Pinned(j)
                 PROVE  opened'[j] = filled[j]
    BY <1>1 DEF CollectorsReadLiveMap, Pinned, OpenPath
  <2>2. CASE j # k
    BY <1>1, <1>2, <2>1, <2>2 DEF IInv, CollectorsReadLiveMap
  <2>3. CASE j = k
    <3>1. Done(k, todo)
      BY <1>2 DEF Done
    <3>2. pins[cfg[PathOf(k)]] = filled[k]
      BY <1>1, <2>1, <2>3, <3>1 DEF IInv, PinsLive
    <3>3. OpenPath(k) = cfg[PathOf(k)]
      BY <2>1, <2>3 DEF Pinned, OpenPath
    <3>4. QED BY <1>1, <1>2, <2>3, <3>2, <3>3
  <2>4. QED BY <2>2, <2>3
<1>6. Phased'
  BY <1>1 DEF IInv, Phased, AnyEnabled, Enabled
<1>7. QED BY <1>1, <1>4, <1>5, <1>6, Unmoved DEF IInv

-----------------------------------------------------------------------------
(* Every step together *)

(* A step that changes nothing. *)
LEMMA StutterKeeps ==
    ASSUME IInv, UNCHANGED vars
    PROVE  IInv'
<1>1. UNCHANGED <<pc, lives, cfg, issue, todo, pins, filled, links, opened>>
  BY DEF vars, kernel
<1>2. Configured' /\ Attaching' /\ Planned' /\ Ordered(todo)' /\ PinsLive'
  BY <1>1, Unmoved
<1>3. Typed'
  BY <1>1, <1>2 DEF IInv, Typed
<1>4. Phased'
  BY <1>1 DEF IInv, Phased, AnyEnabled, Enabled
<1>5. CollectorsReadLiveMap'
  BY <1>1 DEF IInv, CollectorsReadLiveMap, Pinned, OpenPath
<1>6. QED BY <1>2, <1>3, <1>4, <1>5 DEF IInv

(* The inductive invariant, of every life of an agent. *)
THEOREM Invariance == Spec => []IInv
<1>1. Init => IInv
  BY InitEstablishes
<1>2. IInv /\ [Next]_vars => IInv'
  <2>1. SUFFICES ASSUME IInv, [Next]_vars PROVE IInv'
    OBVIOUS
  <2>2. CASE LoadConfig
    BY <2>1, <2>2, LoadConfigKeeps
  <2>3. CASE Identify \/ IdentifyRegion \/ ResolveNode \/ SyncCaches
    BY <2>1, <2>3, NamesKeep
  <2>4. CASE Preflight
    BY <2>1, <2>4, PreflightKeeps
  <2>5. CASE StartManager
    BY <2>1, <2>5, StartManagerKeeps
  <2>6. CASE LoadCollection
    BY <2>1, <2>6, LoadCollectionKeeps
  <2>7. CASE RemoveOldPin
    BY <2>1, <2>7, RemoveOldPinKeeps
  <2>8. CASE PinMap
    BY <2>1, <2>8, PinMapKeeps
  <2>9. CASE AttachProgram
    BY <2>1, <2>9, AttachProgramKeeps
  <2>10. CASE \E k \in Kinds : OpenMap(k)
    BY <2>1, <2>10, OpenMapKeeps
  <2>11. CASE GiveUp \/ Down \/ ServerRuns
    BY <2>1, <2>11, EndingKeeps
  <2>12. CASE Restart \/ Reboot
    BY <2>1, <2>12, StartsKeeps
  <2>13. CASE UNCHANGED vars
    BY <2>1, <2>13, StutterKeeps
  <2>14. QED
    BY <2>1, <2>2, <2>3, <2>4, <2>5, <2>6, <2>7, <2>8, <2>9, <2>10, <2>11, <2>12, <2>13 DEF Next, Start
<1>3. QED BY <1>1, <1>2, PTL DEF Spec

(* A collector never reads a map of an earlier life or a closed one, whatever
   configurations there are, whatever the node holds and however often the agent
   fails on the way (manager.go: remove, pin, attach). *)
THEOREM ReadsLiveMap == Spec => []CollectorsReadLiveMap
<1>1. IInv => CollectorsReadLiveMap
  BY DEF IInv
<1>2. QED BY <1>1, Invariance, PTL

(* An agent that runs has attached all programs of the enabled kinds and no other,
   one that failed none, and one with an issue runs without any (main.go). *)
THEOREM AttachesAllOrNothing == Spec => []AllOrNothing
<1>1. IInv => AllOrNothing
  <2>1. SUFFICES ASSUME IInv PROVE AllOrNothing
    OBVIOUS
  <2>2. pc = "running" => links = AllPrograms
    <3>1. pc = "running" => todo = << >>
      BY <2>1 DEF IInv, Phased
    <3>2. todo = << >> => AttachedBy(todo) = {}
      BY DEF AttachedBy
    <3>3. QED BY <2>1, <3>1, <3>2 DEF IInv, Attaching
  <2>3. pc = "failed" => links = {} /\ ~issue
    BY <2>1 DEF IInv, Phased
  <2>4. issue => links = {}
    <3>1. issue /\ pc # "running" => links = {}
      BY <2>1 DEF IInv, Phased
    <3>2. ~AnyEnabled => AllPrograms = {}
      BY DEF AnyEnabled, AllPrograms
    <3>3. issue /\ pc = "running" => ~AnyEnabled
      BY <2>1 DEF IInv, Phased
    <3>4. QED BY <2>2, <3>1, <3>2, <3>3
  <2>5. QED BY <2>2, <2>3, <2>4 DEF AllOrNothing, AllPrograms
<1>2. QED BY <1>1, Invariance, PTL

-----------------------------------------------------------------------------
(* Types *)

HasNode == {"sync", "preflight", "manager", "start", "running"}

Shaped ==
    /\ given \in Inputs \cup {None} /\ issue \in BOOLEAN
    /\ DOMAIN cluster = DOMAIN Nameless
    /\ fs \in [bpf : BOOLEAN, writable : BOOLEAN] /\ (~fs.bpf => pins = NoPins)
    /\ pc \in {"start", "running"} \/ filled = NoMaps
    /\ pc \in HasNode /\ AnyEnabled => cluster.node # ""

(* The paths do not change. *)
LEMMA NoPinsFixed == NoPins' = NoPins
BY DEF NoPins, Paths

(* The steps that leave the file system and its pins alone. *)
LEMMA ShapeKept ==
    ASSUME Shaped, UNCHANGED <<fs, pins>>, given' \in Inputs \cup {None}, issue' \in BOOLEAN,
           DOMAIN cluster' = DOMAIN Nameless,
           pc' \in {"start", "running"} \/ filled' = NoMaps,
           pc' \in HasNode /\ AnyEnabled' => cluster'.node # ""
    PROVE  Shaped'
BY NoPinsFixed DEF Shaped

(* The steps from the configuration to the caches. *)
LEMMA IdentifyShaped ==
    ASSUME IInv, Shaped, LoadConfig \/ Identify \/ IdentifyRegion \/ ResolveNode \/ SyncCaches
    PROVE  Shaped'
<1>1. UNCHANGED <<fs, pins, filled, issue>> /\ filled = NoMaps
  BY DEF LoadConfig, Identify, IdentifyRegion, ResolveNode, SyncCaches, kernel, Shaped
<1>2. CASE LoadConfig
  <2>1. pc' \notin HasNode /\ given' \in Inputs \cup {None} /\ cluster' = cluster
    BY <1>2 DEF LoadConfig, HasNode, Shaped
  <2>2. QED BY <1>1, <2>1, ShapeKept DEF Shaped
<1>3. CASE Identify
  <2>1. pc' \notin HasNode /\ given' = given /\ DOMAIN cluster' = DOMAIN Nameless
    BY <1>3 DEF Identify, HasNode, Nameless
  <2>2. QED BY <1>1, <2>1, ShapeKept DEF Shaped
<1>4. CASE IdentifyRegion
  <2>1. pc' \notin HasNode /\ given' = given /\ DOMAIN cluster' = DOMAIN Nameless
    BY <1>4 DEF IdentifyRegion, HasNode, Shaped
  <2>2. QED BY <1>1, <2>1, ShapeKept DEF Shaped
<1>5. CASE ResolveNode
  <2>1. given' = None /\ DOMAIN cluster' = DOMAIN Nameless /\ cfg' = cfg
    BY <1>5 DEF ResolveNode, Shaped
  <2>2. AnyEnabled' => cluster'.node # ""
    <3>1. "node" \in DOMAIN cluster
      BY DEF Shaped, Nameless
    <3>2. cluster'.node = NodeName
      BY <1>5, <3>1 DEF ResolveNode
    <3>3. QED BY <1>5, <2>1, <3>2 DEF ResolveNode, NodeSuffices, AnyEnabled, Enabled
  <2>3. QED BY <1>1, <2>1, <2>2, ShapeKept DEF Shaped
<1>6. CASE SyncCaches
  <2>1. UNCHANGED <<given, cluster, cfg>> /\ pc \in HasNode
    BY <1>6 DEF SyncCaches, HasNode
  <2>2. QED BY <1>1, <2>1, ShapeKept DEF Shaped, AnyEnabled, Enabled
<1>7. QED BY <1>2, <1>3, <1>4, <1>5, <1>6

(* The preflight mounts /sys/fs/bpf and loses pins with the old one. *)
LEMMA PreflightShaped ==
    ASSUME IInv, Shaped, Preflight
    PROVE  Shaped'
<1>1. /\ pc = "preflight" /\ pc' = "manager" /\ UNCHANGED <<given, cluster, filled>>
      /\ filled = NoMaps /\ (AnyEnabled => cluster.node # "")
  BY DEF Preflight, kernel, Shaped, HasNode
<1>2. fs' \in [bpf : BOOLEAN, writable : BOOLEAN] /\ (~fs'.bpf => pins' = NoPins) /\ issue' \in BOOLEAN
  <2>1. CASE AnyEnabled
    <3>1. PICK m \in MountOutcomes, other \in BOOLEAN :
             fs' = m.fs /\ pins' = m.pins /\ issue' = (~m.ok \/ other)
      BY <2>1 DEF Preflight
    <3>2. CASE fs.writable
      <4>1. m = [ok |-> TRUE, fs |-> fs, pins |-> pins]
        BY <3>2 DEF MountOutcomes
      <4>2. QED BY <3>1, <4>1 DEF Shaped, NoPins
    <3>3. CASE ~fs.writable
      <4>1. \/ \E w \in BOOLEAN : m = [ok |-> w, fs |-> [bpf |-> TRUE, writable |-> w], pins |-> NoPins]
            \/ \E w \in BOOLEAN : m = [ok |-> FALSE, fs |-> [bpf |-> FALSE, writable |-> w], pins |-> NoPins]
            \/ \E w \in BOOLEAN : m = [ok |-> w, fs |-> [bpf |-> TRUE, writable |-> w], pins |-> pins]
        BY <3>3 DEF MountOutcomes
      <4>2. m.fs \in [bpf : BOOLEAN, writable : BOOLEAN] /\ (~m.fs.bpf => m.pins = NoPins)
        <5>1. CASE \E w \in BOOLEAN : m = [ok |-> w, fs |-> [bpf |-> TRUE, writable |-> w], pins |-> NoPins]
          BY <5>1
        <5>2. CASE \E w \in BOOLEAN : m = [ok |-> FALSE, fs |-> [bpf |-> FALSE, writable |-> w], pins |-> NoPins]
          BY <5>2
        <5>3. CASE \E w \in BOOLEAN : m = [ok |-> w, fs |-> [bpf |-> TRUE, writable |-> w], pins |-> pins]
          BY <5>3
        <5>4. QED BY <4>1, <5>1, <5>2, <5>3
      <4>3. NoPins' = NoPins
        BY DEF NoPins, Paths
      <4>4. (~m.ok \/ other) \in BOOLEAN
        OBVIOUS
      <4>5. QED BY <3>1, <4>2, <4>3, <4>4
    <3>4. QED BY <3>2, <3>3
  <2>2. CASE ~AnyEnabled
    BY <2>2 DEF Preflight, Shaped, NoPins
  <2>3. QED BY <2>1, <2>2
<1>3. AnyEnabled' => AnyEnabled
  <2>1. cfg = [f \in Fields |-> cfg[f]]
    BY DEF IInv, Typed, Configured
  <2>2. \A k \in Kinds : Disabled(cfg)[Switch(k)] = FALSE
    BY <2>1, FieldNames DEF Disabled, Switch, Kinds
  <2>3. cfg' \in {cfg, Disabled(cfg)}
    BY DEF Preflight
  <2>4. QED BY <2>2, <2>3 DEF AnyEnabled, Enabled
<1>4. QED BY <1>1, <1>2, <1>3 DEF Shaped

(* The steps of Manager.Start pin on a BPF file system only. *)
LEMMA StartShaped ==
    ASSUME IInv, Shaped, Start
    PROVE  Shaped'
<1>1. /\ pc \in {"manager", "start"} /\ pc' \in {"start", "running"}
      /\ UNCHANGED <<given, cluster, cfg, issue, fs>>
  BY DEF Start, StartManager, LoadCollection, RemoveOldPin, PinMap, AttachProgram, Doing, StepDone, kernel
<1>2. ~fs.bpf => pins' = NoPins
  <2>1. CASE UNCHANGED pins
    BY <2>1 DEF Shaped
  <2>2. CASE RemoveOldPin
    BY <2>2 DEF Shaped, RemoveOldPin, NoPins
  <2>3. CASE PinMap
    BY <2>3 DEF PinMap
  <2>4. QED BY <2>1, <2>2, <2>3 DEF Start, StartManager, LoadCollection, AttachProgram
<1>3. AnyEnabled' = AnyEnabled /\ NoPins' = NoPins
  BY <1>1 DEF AnyEnabled, Enabled, NoPins, Paths
<1>4. QED BY <1>1, <1>2, <1>3 DEF Shaped, HasNode

(* The end of a process closes its maps. *)
LEMMA EndsShaped ==
    ASSUME Shaped, NEW how \in {"failed", "down"}, Ends(how)
    PROVE  Shaped'
<1>1. /\ pc' = how /\ given' = None /\ cluster' = Nameless /\ filled' = NoMaps
      /\ UNCHANGED <<issue, fs, pins>>
  BY DEF Ends, Close
<1>2. pc' \notin HasNode
  BY <1>1 DEF HasNode
<1>3. QED BY <1>1, <1>2, ShapeKept DEF Shaped

(* The next start finds no map of its own. *)
LEMMA StartsShaped ==
    ASSUME Shaped, Restart \/ Reboot
    PROVE  Shaped'
<1>1. /\ pc' = "load" /\ issue' = FALSE /\ UNCHANGED <<given, cluster, filled>> /\ filled = NoMaps
  BY DEF Restart, Reboot, Starts, kernel, Shaped
<1>2. fs' \in [bpf : BOOLEAN, writable : BOOLEAN] /\ (~fs'.bpf => pins' = NoPins)
  <2>1. CASE Restart
    BY <2>1 DEF Restart, Shaped
  <2>2. CASE Reboot
    BY <2>2, StartupAssumption DEF Reboot
  <2>3. QED BY <2>1, <2>2
<1>3. pc' \notin HasNode /\ NoPins' = NoPins
  BY <1>1 DEF HasNode, NoPins, Paths
<1>4. QED BY <1>1, <1>2, <1>3 DEF Shaped

(* Opening a map changes none of this. *)
LEMMA SettledShaped ==
    ASSUME Shaped, (\E k \in Kinds : OpenMap(k)) \/ UNCHANGED vars
    PROVE  Shaped'
<1>1. UNCHANGED <<pc, given, cluster, cfg, issue, fs, pins, filled>>
  BY DEF OpenMap, vars, kernel
<1>2. AnyEnabled' = AnyEnabled
  BY <1>1 DEF AnyEnabled, Enabled
<1>3. QED BY <1>1, <1>2, ShapeKept DEF Shaped

(* Every variable keeps its type in every life, the file system has pins only where
   it is a BPF file system, and no eBPF collector runs without a node name. *)
THEOREM TypeCorrect == Spec => []TypeOK
<1>1. Init => Shaped
  BY StartupAssumption DEF Init, Shaped, HasNode
<1>2. IInv /\ Shaped /\ [Next]_vars => Shaped'
  <2>1. SUFFICES ASSUME IInv, Shaped, [Next]_vars PROVE Shaped'
    OBVIOUS
  <2>2. CASE LoadConfig \/ Identify \/ IdentifyRegion \/ ResolveNode \/ SyncCaches
    BY <2>1, <2>2, IdentifyShaped
  <2>3. CASE Preflight
    BY <2>1, <2>3, PreflightShaped
  <2>4. CASE Start
    BY <2>1, <2>4, StartShaped
  <2>5. CASE (\E k \in Kinds : OpenMap(k)) \/ UNCHANGED vars
    BY <2>1, <2>5, SettledShaped
  <2>6. CASE GiveUp \/ Down \/ ServerRuns
    <3>1. Ends("failed") \/ Ends("down")
      BY <2>6 DEF GiveUp, Down, ServerRuns
    <3>2. QED BY <2>1, <3>1, EndsShaped
  <2>7. CASE Restart \/ Reboot
    BY <2>1, <2>7, StartsShaped
  <2>8. QED BY <2>1, <2>2, <2>3, <2>4, <2>5, <2>6, <2>7 DEF Next
<1>3. IInv /\ Shaped => TypeOK
  <2>1. SUFFICES ASSUME IInv, Shaped PROVE TypeOK
    OBVIOUS
  <2>2. Typed /\ Phased
    BY <2>1 DEF IInv
  <2>3. DOMAIN cfg = Fields
    BY <2>2 DEF Typed, Configured
  <2>4. pc \in {"start", "running"} /\ AnyEnabled => cluster.node # ""
    BY <2>1 DEF Shaped, HasNode
  <2>5. QED BY <2>1, <2>2, <2>3, <2>4 DEF TypeOK, Typed, Phased, Shaped, MapOrNone
<1>4. QED BY <1>1, <1>2, <1>3, Invariance, PTL DEF Spec

-----------------------------------------------------------------------------
(* What config.Load returns *)

(* The fields of the defaults and of an empty file have their types. *)
LEMMA DefaultsTyped ==
    /\ DOMAIN DefaultConfig = Fields
    /\ \A f \in Fields : HasType(f, DefaultConfig[f]) /\ HasType(f, ZeroConfig[f])
    /\ \A f \in Texts : ZeroConfig[f] = ""
    /\ \A f \in Switches : ZeroConfig[f] = FALSE
    /\ \A f \in Numbers : ZeroConfig[f] = 0
    /\ ZeroConfig["egressPrices"] = << >> /\ DefaultConfig["egressPrices"] = << >>
<1>1. DOMAIN DefaultConfig = Fields
  BY DEF DefaultConfig, Fields, Texts, Switches, Numbers
<1>2. /\ \A f \in Switches : f \notin Texts /\ f \notin Numbers /\ f # "egressPrices"
      /\ \A f \in Numbers : f \notin Texts /\ f # "egressPrices"
      /\ "egressPrices" \notin Texts
  BY DEF Switches, Texts, Numbers
<1>3. \A f \in Fields : \/ f \in Texts /\ ZeroConfig[f] = ""
                        \/ f \in Switches /\ ZeroConfig[f] = FALSE
                        \/ f \in Numbers /\ ZeroConfig[f] = 0
                        \/ f = "egressPrices" /\ ZeroConfig[f] = << >>
  BY <1>2 DEF ZeroConfig, Fields
<1>4. /\ \A f \in Switches : DefaultConfig[f] \in BOOLEAN
      /\ \A f \in Numbers : DefaultConfig[f] \in Int
  BY DEF DefaultConfig, Switches, Numbers
<1>5. DefaultConfig["egressPrices"] = << >>
  BY DEF DefaultConfig
<1>6. /\ Texts \subseteq Fields /\ Switches \subseteq Fields /\ Numbers \subseteq Fields
      /\ "egressPrices" \in Fields
  BY DEF Fields
<1>7. \A f \in Fields : HasType(f, DefaultConfig[f])
  BY <1>4 DEF HasType
<1>8. /\ \A f \in Texts : ZeroConfig[f] = ""
      /\ \A f \in Switches : ZeroConfig[f] = FALSE
      /\ \A f \in Numbers : ZeroConfig[f] = 0
      /\ ZeroConfig["egressPrices"] = << >>
  BY <1>2, <1>3, <1>6
<1>9. \A f \in Fields : HasType(f, ZeroConfig[f])
  <2>1. FALSE \in BOOLEAN /\ 0 \in Int
    OBVIOUS
  <2>2. /\ \A f \in Switches : ZeroConfig[f] \in BOOLEAN
        /\ \A f \in Numbers : ZeroConfig[f] \in Int
    BY <1>8, <2>1
  <2> QED BY <2>2 DEF HasType
<1> QED BY <1>1, <1>5, <1>7, <1>8, <1>9

(* The value of the highest source that has one. *)
Best(i, f) ==
    IF Counts(i.env, f) THEN i.env[f].value
    ELSE IF f \in DOMAIN i.file /\ i.file[f] # ZeroConfig[f] THEN i.file[f]
    ELSE IF f \in DOMAIN i.flags THEN i.flags[f] ELSE DefaultConfig[f]

(* It has the type of the field. *)
LEMMA BestTyped ==
    ASSUME NEW i \in Inputs, NEW f \in Fields
    PROVE  HasType(f, Best(i, f))
BY DefaultsTyped, StartupAssumption DEF Best, Counts

(* The flags over the defaults. *)
LEMMA Parsed ==
    ASSUME NEW flags, NEW f \in Fields
    PROVE  ParseFlags(flags)[f] = IF f \in DOMAIN flags THEN flags[f] ELSE DefaultConfig[f]
BY DefaultsTyped DEF ParseFlags, Overlay

(* The file over that, field by field. *)
LEMMA Filed ==
    ASSUME NEW i \in Inputs, NEW f \in Fields \ {"egressPrices"}
    PROVE  MergeFile(ParseFlags(i.flags), i.file)[f] =
             IF f \in DOMAIN i.file /\ i.file[f] # ZeroConfig[f] THEN i.file[f]
             ELSE ParseFlags(i.flags)[f]
<1> DEFINE base == ParseFlags(i.flags)
           override == Overlay(i.file, ZeroConfig)
<1>1. override[f] = IF f \in DOMAIN i.file THEN i.file[f] ELSE ZeroConfig[f]
  <2>1. DOMAIN ZeroConfig = Fields
    BY DEF ZeroConfig
  <2> QED BY <2>1 DEF Overlay
<1>2. HasType(f, base[f]) /\ HasType(f, override[f])
  BY <1>1, Parsed, DefaultsTyped, StartupAssumption
<1> HIDE DEF base, override
<1>3. MergeFile(base, i.file)[f] =
          CASE f \in Texts    -> MergeText(base[f], override[f])
            [] f \in Switches -> MergeSwitch(base[f], override[f])
            [] f \in Numbers  -> MergeNumber(base[f], override[f])
            [] OTHER          -> MergePrices(base[f], override[f])
  BY DEF MergeFile, override
<1>4. CASE f \in Texts
  <2>1. MergeFile(base, i.file)[f] = MergeText(base[f], override[f])
    BY <1>3, <1>4 DEF Texts, Switches, Numbers
  <2> QED BY <1>1, <1>4, <2>1, DefaultsTyped DEF MergeText, base
<1>5. CASE f \in Switches
  <2>1. MergeFile(base, i.file)[f] = MergeSwitch(base[f], override[f])
    BY <1>3, <1>5 DEF Texts, Switches, Numbers
  <2>2. base[f] \in BOOLEAN /\ override[f] \in BOOLEAN
    BY <1>2, <1>5 DEF HasType
  <2>3. MergeSwitch(base[f], override[f]) = IF override[f] # FALSE THEN override[f] ELSE base[f]
    BY <2>2 DEF MergeSwitch
  <2> QED BY <1>1, <1>5, <2>1, <2>3, DefaultsTyped DEF base
<1>6. CASE f \in Numbers
  <2>1. MergeFile(base, i.file)[f] = MergeNumber(base[f], override[f])
    BY <1>3, <1>6 DEF Texts, Switches, Numbers
  <2> QED BY <1>1, <1>6, <2>1, DefaultsTyped DEF MergeNumber, base
<1> QED BY <1>4, <1>5, <1>6 DEF Fields

(* So what is merged is the best each field can get. *)
LEMMA MergedIsBest ==
    ASSUME NEW i \in Inputs, NEW f \in Fields \ {"egressPrices"}
    PROVE  Merged(i.flags, i.file, i.env)[f] = Best(i, f)
BY Filed, Parsed DEF Merged, ApplyEnv, Best

(* The prices: a variable replaces the table, a file adds to it. *)
LEMMA MergedPrices ==
    ASSUME NEW i \in Inputs
    PROVE  Merged(i.flags, i.file, i.env)["egressPrices"] =
             IF Counts(i.env, "egressPrices") THEN Best(i, "egressPrices")
             ELSE Overlay(Best(i, "egressPrices"), DefaultConfig["egressPrices"])
<1> DEFINE f == "egressPrices"
           base == ParseFlags(i.flags)
           override == Overlay(i.file, ZeroConfig)
<1>1. f \in Fields /\ f \notin Texts /\ f \notin Switches /\ f \notin Numbers
  BY DEF Fields, Texts, Switches, Numbers
<1>2. base[f] = DefaultConfig[f]
  BY <1>1, Parsed, StartupAssumption
<1>3. override[f] = IF f \in DOMAIN i.file THEN i.file[f] ELSE ZeroConfig[f]
  <2>1. DOMAIN ZeroConfig = Fields
    BY DEF ZeroConfig
  <2> QED BY <1>1, <2>1 DEF Overlay
<1>4. ~Counts(i.env, f) => Best(i, f) = override[f]
  BY <1>3, StartupAssumption, DefaultsTyped DEF Best
<1>5. MergeFile(base, i.file)[f] = Overlay(override[f], base[f])
  <2> HIDE DEF base
  <2>1. MergeFile(base, i.file)[f] =
          CASE f \in Texts    -> MergeText(base[f], override[f])
            [] f \in Switches -> MergeSwitch(base[f], override[f])
            [] f \in Numbers  -> MergeNumber(base[f], override[f])
            [] OTHER          -> MergePrices(base[f], override[f])
    BY <1>1 DEF MergeFile
  <2> HIDE DEF override
  <2> QED BY <1>1, <2>1 DEF MergePrices
<1>6. Merged(i.flags, i.file, i.env)[f] = IF Counts(i.env, f) THEN i.env[f].value ELSE MergeFile(base, i.file)[f]
  BY <1>1 DEF Merged, ApplyEnv
<1>7. Counts(i.env, f) => Best(i, f) = i.env[f].value
  BY DEF Best
<1> HIDE DEF base, override
<1> QED BY <1>2, <1>4, <1>5, <1>6, <1>7

(* What Load makes of it: the names fill in for each other and short intervals
   become 5. *)
LEMMA LoadIs ==
    ASSUME NEW i \in Inputs
    PROVE  LET c == Load(i.flags, i.file, i.env)
               id == Best(i, "clusterId")
               name == Best(i, "clusterName")
               every == Best(i, "scrapeInterval")
           IN  /\ \A f \in Fields \ {"clusterId", "clusterName", "scrapeInterval", "egressPrices"} : c[f] = Best(i, f)
               /\ c["clusterId"] = IF id = "" THEN name ELSE id
               /\ c["clusterName"] = IF name = "" THEN id ELSE name
               /\ c["scrapeInterval"] = IF every < 5 THEN 5 ELSE every
               /\ c["egressPrices"] = IF Counts(i.env, "egressPrices") THEN Best(i, "egressPrices")
                                      ELSE Overlay(Best(i, "egressPrices"), DefaultConfig["egressPrices"])
<1> DEFINE m == Merged(i.flags, i.file, i.env)
           s == SyncNames(m)
           c == ClampInterval(s)
<1>1. m = [f \in Fields |-> m[f]] /\ c = Load(i.flags, i.file, i.env)
  BY DEF Merged, ApplyEnv, Load
<1>2. /\ {"clusterId", "clusterName", "scrapeInterval", "egressPrices"} \subseteq Fields
      /\ \A f \in Fields \ {"egressPrices"} : m[f] = Best(i, f)
      /\ m["egressPrices"] = IF Counts(i.env, "egressPrices") THEN Best(i, "egressPrices")
                             ELSE Overlay(Best(i, "egressPrices"), DefaultConfig["egressPrices"])
  BY MergedIsBest, MergedPrices DEF Fields, Texts, Numbers
<1> HIDE DEF m
<1>3. /\ s = [f \in Fields |-> s[f]]
      /\ \A f \in Fields \ {"clusterId", "clusterName"} : s[f] = m[f]
      /\ s["clusterId"] = IF m["clusterId"] = "" THEN m["clusterName"] ELSE m["clusterId"]
      /\ s["clusterName"] = IF m["clusterName"] = "" THEN s["clusterId"] ELSE m["clusterName"]
  BY <1>1, <1>2 DEF SyncNames
<1> HIDE DEF s
<1>4. /\ \A f \in Fields \ {"scrapeInterval"} : c[f] = s[f]
      /\ c["scrapeInterval"] = IF s["scrapeInterval"] < 5 THEN 5 ELSE s["scrapeInterval"]
  BY <1>2, <1>3 DEF ClampInterval
<1> HIDE DEF c
<1>5. /\ c["clusterId"] = s["clusterId"] /\ c["clusterName"] = s["clusterName"]
      /\ c["egressPrices"] = m["egressPrices"] /\ s["scrapeInterval"] = Best(i, "scrapeInterval")
      /\ m["clusterId"] = Best(i, "clusterId") /\ m["clusterName"] = Best(i, "clusterName")
  BY <1>2, <1>3, <1>4
<1>6. \A f \in Fields \ {"clusterId", "clusterName", "scrapeInterval", "egressPrices"} : c[f] = Best(i, f)
  BY <1>2, <1>3, <1>4
<1> QED BY <1>1, <1>2, <1>3, <1>4, <1>5, <1>6

-----------------------------------------------------------------------------
(* From the configuration to the names *)

(* Until the node has a name, main works with what it has loaded, and the cluster
   is what Names and the node list made of it. *)
Loaded ==
    pc \in {"identify", "region", "node"} =>
        given \in Inputs /\ cfg = Load(given.flags, given.file, given.env)

Called(detected) == Names(cfg, given.override, detected)

Named ==
    /\ DOMAIN cluster = DOMAIN Nameless
    /\ pc \in {"region", "node"} =>
          \E detected : cluster.name = Called(detected).name /\ cluster.id = Called(detected).id
    /\ pc = "node" /\ cluster.region = "" => cfg.region = ""

(* Two texts as a sequence. *)
LEMMA TwoTexts ==
    ASSUME NEW a, NEW b
    PROVE  DOMAIN <<a, b>> = 1 .. 2 /\ <<a, b>>[1] = a /\ <<a, b>>[2] = b
OBVIOUS

(* A set of positions that has the second has a first. *)
LEMMA FirstPosition ==
    ASSUME NEW S, 2 \in S, \A j \in S : j \in 1 .. 2
    PROVE  \E i \in S : \A j \in S : i <= j
<1>1. CASE 1 \in S
  BY <1>1
<1>2. CASE 1 \notin S
  <2>1. \A j \in S : j = 2
    BY <1>2
  <2> QED BY <2>1
<1> QED BY <1>1, <1>2

(* A text is the first of two only where it is not empty. *)
LEMMA FirstOfTwo == ASSUME NEW a, NEW b, FirstText(<<a, b>>) = "" PROVE b = ""
<1> DEFINE texts == <<a, b>>
           Full(t) == t # ""
           set == {i \in DOMAIN texts : Full(texts[i])}
           first == CHOOSE i \in set : \A j \in set : i <= j
<1>1. DOMAIN texts = 1 .. 2 /\ texts[1] = a /\ texts[2] = b
  BY TwoTexts
<1>a. FirstText(texts) = IF set = {} THEN "" ELSE texts[first]
  BY DEF FirstText
<1> HIDE DEF texts, Full
<1>b. SUFFICES ASSUME Full(b) PROVE Full(FirstText(texts))
  BY DEF texts, Full
<1>2. 2 \in set /\ \A j \in set : j \in 1 .. 2
  <2>1. \A i : i \in set <=> i \in 1 .. 2 /\ Full(texts[i])
    BY ONLY <1>1
  <2>2. Full(texts[2])
    BY ONLY <1>1, <1>b
  <2>3. 2 \in 1 .. 2
    BY ONLY <1>1
  <2> HIDE DEF set
  <2> QED BY ONLY <2>1, <2>2, <2>3
<1>3. \E i \in set : \A j \in set : i <= j
  <2> HIDE DEF set
  <2> QED BY <1>2, FirstPosition
<1> HIDE DEF set
<1>4. first \in set
  BY <1>3
<1>5. FirstText(texts) = texts[first]
  BY <1>2, <1>a
<1> QED BY <1>4, <1>5 DEF set

(* No step between the configuration and the names changes what was loaded. *)
LEMMA LoadedStep == Loaded /\ Named /\ [Next]_vars => Loaded' /\ Named'
<1> SUFFICES ASSUME Loaded, Named, [Next]_vars PROVE Loaded' /\ Named'
  OBVIOUS
<1>0. DOMAIN Nameless = {"name", "id", "region", "node"}
  BY DEF Nameless
<1>1. CASE LoadConfig
  <2>1. cluster' = cluster /\ pc' \notin {"region", "node"}
    BY <1>1 DEF LoadConfig
  <2>2. pc' = "identify" => given' \in Inputs /\ cfg' = Load(given'.flags, given'.file, given'.env)
    BY <1>1 DEF LoadConfig
  <2> QED BY <2>1, <2>2 DEF Loaded, Named
<1>2. CASE Identify
  <2>1. PICK detected :
          cluster' = [Nameless EXCEPT !.name = Called(detected).name, !.id = Called(detected).id]
    BY <1>2 DEF Identify, Called
  <2>2. pc = "identify" /\ pc' = "region" /\ UNCHANGED <<given, cfg>>
    BY <1>2 DEF Identify
  <2>3. cluster'.name = Called(detected).name /\ cluster'.id = Called(detected).id
        /\ DOMAIN cluster' = DOMAIN Nameless
    BY <2>1 DEF Nameless
  <2>4. Called(detected)' = Called(detected)
    BY <2>2 DEF Called, Names
  <2> QED BY <2>2, <2>3, <2>4 DEF Loaded, Named
<1>3. CASE IdentifyRegion
  <2>1. PICK nodes \in NodeLists :
          cluster' = [cluster EXCEPT !.region = FirstText(<<DetectClusterRegion(nodes), cfg.region>>)]
    BY <1>3 DEF IdentifyRegion
  <2>2. pc = "region" /\ pc' = "node" /\ UNCHANGED <<given, cfg>>
    BY <1>3 DEF IdentifyRegion
  <2>3. /\ cluster'.name = cluster.name /\ cluster'.id = cluster.id
        /\ DOMAIN cluster' = DOMAIN Nameless
        /\ cluster'.region = FirstText(<<DetectClusterRegion(nodes), cfg.region>>)
    BY <1>0, <2>1 DEF Named
  <2>4. PICK detected : cluster.name = Called(detected).name /\ cluster.id = Called(detected).id
    BY <2>2 DEF Named
  <2>5. Called(detected)' = Called(detected)
    BY <2>2 DEF Called, Names
  <2>6. cluster'.region = "" => cfg.region = ""
    BY <2>3, FirstOfTwo
  <2> QED BY <2>2, <2>3, <2>4, <2>5, <2>6 DEF Loaded, Named
<1>4. CASE \/ ResolveNode \/ SyncCaches \/ Preflight \/ Start \/ (\E k \in Kinds : OpenMap(k))
           \/ Restart \/ Reboot
  <2>1. /\ pc' \notin {"identify", "region", "node"}
        /\ DOMAIN cluster' = DOMAIN Nameless
    <3>1. CASE ResolveNode
      <4>1. cluster' = [cluster EXCEPT !.node = NodeName] /\ pc' = "sync"
        BY <3>1 DEF ResolveNode
      <4> QED BY <4>1 DEF Named
    <3>2. CASE SyncCaches \/ Preflight \/ (\E k \in Kinds : OpenMap(k)) \/ Restart \/ Reboot
      BY <3>2 DEF SyncCaches, Preflight, OpenMap, Restart, Reboot, Starts, Named
    <3>3. CASE Start
      BY <3>3 DEF Start, StartManager, LoadCollection, RemoveOldPin, PinMap, AttachProgram, StepDone, Named
    <3> QED BY <1>4, <3>1, <3>2, <3>3
  <2> QED BY <2>1 DEF Loaded, Named
<1>5. CASE GiveUp \/ Down \/ ServerRuns
  <2>1. pc' \in {"failed", "down"} /\ cluster' = Nameless
    BY <1>5 DEF GiveUp, Down, ServerRuns, Ends
  <2> QED BY <2>1 DEF Loaded, Named, Nameless
<1>6. CASE UNCHANGED vars
  <2>1. UNCHANGED <<pc, given, cfg, cluster>>
    BY <1>6 DEF vars
  <2>2. \A detected : Called(detected)' = Called(detected)
    BY <2>1 DEF Called, Names
  <2> QED BY <2>1, <2>2 DEF Loaded, Named
<1> QED BY <1>1, <1>2, <1>3, <1>4, <1>5, <1>6 DEF Next

(* What main works with is what it loaded, in every state. *)
LEMMA LoadedAlways == Spec => [](Loaded /\ Named)
<1>1. Init => Loaded /\ Named
  BY DEF Init, Loaded, Named
<1> QED BY <1>1, LoadedStep, PTL DEF Spec

(* The value of a field is that of the highest source that has one, whatever the
   sources say. *)
THEOREM MergeOrderHolds == Spec => []MergeOrder
<1>1. Loaded => MergeOrder
  <2> SUFFICES ASSUME Loaded, pc = "identify" PROVE MergeOrder
    BY DEF MergeOrder
  <2> DEFINE Said(f) == (IF Counts(given.env, f) THEN <<given.env[f].value>> ELSE << >>)
                    \o (IF f \in DOMAIN given.file /\ given.file[f] # ZeroConfig[f] THEN <<given.file[f]>> ELSE << >>)
                    \o (IF f \in DOMAIN given.flags THEN <<given.flags[f]>> ELSE << >>)
             Highest(f) == Head(Said(f) \o <<DefaultConfig[f]>>)
             names == {"clusterId", "clusterName"}
  <2>1. given \in Inputs /\ cfg = Load(given.flags, given.file, given.env)
    BY DEF Loaded
  <2>2. ASSUME NEW f PROVE Highest(f) = Best(given, f)
    <3> DEFINE p == Counts(given.env, f)
               q == f \in DOMAIN given.file /\ given.file[f] # ZeroConfig[f]
               r == f \in DOMAIN given.flags
               e == given.env[f].value
               y == given.file[f]
               g == given.flags[f]
               d == DefaultConfig[f]
    <3>1. Highest(f) = Head((IF p THEN <<e>> ELSE << >>) \o (IF q THEN <<y>> ELSE << >>)
                              \o (IF r THEN <<g>> ELSE << >>) \o <<d>>)
      OBVIOUS
    <3>2. Best(given, f) = IF p THEN e ELSE IF q THEN y ELSE IF r THEN g ELSE d
      BY DEF Best
    <3> HIDE DEF p, q, r, e, y, g, d, Highest
    <3>3. CASE p /\ q /\ r
      BY <3>1, <3>2, <3>3
    <3>4. CASE p /\ q /\ ~r
      BY <3>1, <3>2, <3>4
    <3>5. CASE p /\ ~q /\ r
      BY <3>1, <3>2, <3>5
    <3>6. CASE p /\ ~q /\ ~r
      BY <3>1, <3>2, <3>6
    <3>7. CASE ~p /\ q /\ r
      BY <3>1, <3>2, <3>7
    <3>8. CASE ~p /\ q /\ ~r
      BY <3>1, <3>2, <3>8
    <3>9. CASE ~p /\ ~q /\ r
      BY <3>1, <3>2, <3>9
    <3>10. CASE ~p /\ ~q /\ ~r
      BY <3>1, <3>2, <3>10
    <3> QED BY <3>3, <3>4, <3>5, <3>6, <3>7, <3>8, <3>9, <3>10
  <2> HIDE DEF Highest
  <2>3. /\ \A f \in Fields \ {"clusterId", "clusterName", "scrapeInterval", "egressPrices"} : cfg[f] = Best(given, f)
        /\ cfg["clusterId"] = IF Best(given, "clusterId") = "" THEN Best(given, "clusterName") ELSE Best(given, "clusterId")
        /\ cfg["clusterName"] = IF Best(given, "clusterName") = "" THEN Best(given, "clusterId") ELSE Best(given, "clusterName")
        /\ cfg["scrapeInterval"] = IF Best(given, "scrapeInterval") < 5 THEN 5 ELSE Best(given, "scrapeInterval")
        /\ cfg["egressPrices"] = IF Counts(given.env, "egressPrices") THEN Best(given, "egressPrices")
                                 ELSE Overlay(Best(given, "egressPrices"), DefaultConfig["egressPrices"])
    BY <2>1, LoadIs
  <2>4. \A f \in Fields \ (names \cup {"scrapeInterval", "egressPrices"}) : cfg[f] = Highest(f)
    BY <2>2, <2>3
  <2>5. \A f \in names : \A g \in names \ {f} :
           cfg[f] = IF Highest(f) = "" THEN Highest(g) ELSE Highest(f)
    BY <2>2, <2>3
  <2>6. cfg.scrapeInterval >= 5 /\ cfg.scrapeInterval \in {5, Highest("scrapeInterval")}
    <3>1. Best(given, "scrapeInterval") \in Int
      BY <2>1, BestTyped DEF HasType, Fields, Numbers
    <3> DEFINE every == Best(given, "scrapeInterval")
    <3>2. cfg.scrapeInterval = IF every < 5 THEN 5 ELSE every
      BY <2>3
    <3>3. Highest("scrapeInterval") = every
      BY <2>2
    <3>4. every \in Int
      BY <3>1
    <3> HIDE DEF every
    <3> QED BY ONLY <3>2, <3>3, <3>4
  <2>7. cfg.egressPrices = IF Counts(given.env, "egressPrices") THEN Highest("egressPrices")
                           ELSE Overlay(Highest("egressPrices"), DefaultConfig.egressPrices)
    BY <2>2, <2>3
  <2> QED BY <2>4, <2>5, <2>6, <2>7 DEF MergeOrder, Highest
<1> QED BY <1>1, LoadedAlways, PTL

(* What completion makes of a name and an id. *)
LEMMA CompletedIs ==
    ASSUME NEW name, NEW id
    PROVE  LET c == Completed(name, id) IN
           /\ ~Unknown(c.name) /\ ~Unknown(c.id)
           /\ Unknown(id) => c.id = c.name
           /\ ~Unknown(id) => c.id = id
           /\ ~Unknown(name) => c.name = name
<1>1. ~Unknown(UnknownClusterName)
  BY DEF Unknown, UnknownClusterName, PlaceholderName
<1> DEFINE known == IF Unknown(name) THEN UnknownClusterName ELSE name
           c == Completed(name, id)
<1>2. c.name = known /\ c.id = IF Unknown(id) THEN known ELSE id
  BY DEF Completed
<1> HIDE DEF c
<1> QED BY <1>1, <1>2 DEF c

(* A name that is known is kept with the id as it is; otherwise both are known in
   the end, and an id that was not known is the name. *)
LEMMA NamesAre ==
    ASSUME NEW c, NEW detected, NEW name, name = c.clusterName, NEW n, n = Names(c, "", detected)
    PROVE  /\ ~Unknown(name) => n.name = name /\ n.id = c.clusterId
           /\ Unknown(name) => /\ ~Unknown(n.name) /\ ~Unknown(n.id)
                               /\ Unknown(c.clusterId) => n.id = n.name
<1>1. ASSUME ~Unknown(name) PROVE n.name = name /\ n.id = c.clusterId
  <2>1. n = [name |-> name, id |-> c.clusterId]
    BY <1>1 DEF Names
  <2> QED BY ONLY <2>1
<1>2. ASSUME Unknown(name)
      PROVE  ~Unknown(n.name) /\ ~Unknown(n.id) /\ (Unknown(c.clusterId) => n.id = n.name)
  <2>1. CASE detected = ""
    <3>1. n = Completed(name, c.clusterId)
      BY <1>2, <2>1 DEF Names
    <3> QED BY ONLY <3>1, CompletedIs
  <2>2. CASE detected # ""
    <3> DEFINE i == IF Unknown(c.clusterId) THEN detected ELSE c.clusterId
    <3>1. n = Completed(detected, i)
      BY <1>2, <2>2 DEF Names
    <3>2. /\ ~Unknown(n.name) /\ ~Unknown(n.id)
          /\ Unknown(i) => n.id = n.name
          /\ ~Unknown(i) => n.id = i
          /\ ~Unknown(detected) => n.name = detected
      BY ONLY <3>1, CompletedIs
    <3> QED BY ONLY <3>2
  <2> QED BY <2>1, <2>2
<1> QED BY ONLY <1>1, <1>2

(* An id that is not empty was given by a source. *)
LEMMA IdIsConfigured ==
    ASSUME NEW i \in Inputs, Best(i, "clusterId") # ""
    PROVE  LET sources == {i.flags, i.file, [f \in DOMAIN i.env |-> i.env[f].value]}
           IN  Best(i, "clusterId") \in {s.clusterId : s \in {t \in sources : "clusterId" \in DOMAIN t}}
<1> DEFINE env == [f \in DOMAIN i.env |-> i.env[f].value]
           sources == {i.flags, i.file, env}
           id == "clusterId"
           b == Best(i, id)
<1>0. DefaultConfig[id] = ""
  BY DEF DefaultConfig
<1>1. \/ id \in DOMAIN i.env /\ b = i.env[id].value
      \/ id \in DOMAIN i.file /\ b = i.file[id]
      \/ id \in DOMAIN i.flags /\ b = i.flags[id]
  BY <1>0 DEF Best, Counts
<1> HIDE DEF b
<1>2. \E s \in sources : id \in DOMAIN s /\ s[id] = b
  BY <1>1
<1> HIDE DEF sources
<1> QED BY <1>2 DEF sources, b

(* Whatever the API server answers, an agent that goes on has a name and an id, and
   they are placeholders only where they were configured to be. *)
THEOREM IdentifiedAlways == Spec => []Identified
<1>1. Loaded /\ Named => Identified
  <2> SUFFICES ASSUME Loaded, Named, pc = "node", given.override = "" PROVE Identified
    BY DEF Identified
  <2> DEFINE sources == {given.flags, given.file, [f \in DOMAIN given.env |-> given.env[f].value]}
             configured == {s.clusterId : s \in {t \in sources : "clusterId" \in DOMAIN t}} \ {""}
             id == Best(given, "clusterId")
             name == Best(given, "clusterName")
  <2>1. given \in Inputs /\ cfg = Load(given.flags, given.file, given.env)
    BY DEF Loaded
  <2>2. /\ cfg.clusterId = IF id = "" THEN name ELSE id
        /\ cfg.clusterName = IF name = "" THEN id ELSE name
    BY <2>1, LoadIs
  <2>3. id # "" => id \in configured
    BY <2>1, IdIsConfigured
  <2>4. PICK detected : cluster.name = Called(detected).name /\ cluster.id = Called(detected).id
    BY DEF Named
  <2> DEFINE n == Names(cfg, "", detected)
             k == cfg.clusterName
  <2>a. n = Called(detected) /\ n = Names(cfg, "", detected)
    BY DEF Called
  <2>c. k = cfg.clusterName
    OBVIOUS
  <2> HIDE DEF n, k
  <2>b. /\ ~Unknown(k) => n.name = k /\ n.id = cfg.clusterId
        /\ Unknown(k) => /\ ~Unknown(n.name) /\ ~Unknown(n.id)
                         /\ Unknown(cfg.clusterId) => n.id = n.name
    BY ONLY <2>a, <2>c, NamesAre
  <2>5. /\ ~Unknown(k) => cluster.name = k /\ cluster.id = cfg.clusterId
        /\ Unknown(k) => /\ ~Unknown(cluster.name) /\ ~Unknown(cluster.id)
                         /\ Unknown(cfg.clusterId) => cluster.id = cluster.name
    BY ONLY <2>4, <2>a, <2>b
  <2> HIDE DEF id, name, configured
  <2>6. Unknown("") /\ Unknown(PlaceholderName) /\ \A x : Unknown(x) => x = "" \/ x = PlaceholderName
    BY DEF Unknown
  <2>7. ~Unknown(cluster.name)
    BY <2>5
  <2>8. cluster.id # ""
    BY <2>2, <2>5, <2>6, <2>c
  <2>9. cluster.id = PlaceholderName => PlaceholderName \in configured
    BY <2>2, <2>3, <2>5, <2>6, <2>c
  <2>10. configured = {} => cluster.id = cluster.name
    BY <2>2, <2>3, <2>5, <2>6, <2>c
  <2>11. cluster.region = "" => cfg.region = ""
    BY DEF Named
  <2> QED BY <2>7, <2>8, <2>9, <2>10, <2>11 DEF Identified, Unknown, configured
<1> QED BY <1>1, LoadedAlways, PTL
=============================================================================
