# TLA+ models of clustercost-agent-k8s

This directory holds TLA+ specifications of the agent, TLC configurations that
check them on small instances, and TLAPS proofs of the theorems that hold for
every instance. Paths such as `internal/forwarder/queue.go` are relative to the
repository's source.

    tlc -workers 2 -config MCForwarderQueue_Memory.cfg MCForwarderQueue
    tlapm ForwarderQueueProofs.tla

## The system

The agent runs once per node. Programs in the kernel count CPU time, pages and
packets; a loop in the agent combines those counters with what the Kubernetes
informers know into a *snapshot* with costs; the snapshot is served over HTTP
and, when a remote endpoint is configured, put as a *report* into a
store-and-forward queue.

    bpf/flows.bpf.c ---> clustercost_flows ---> network collector --+
    bpf/metrics.bpf.c -> clustercost_metrics -> metrics collector --+
    API server -> informers -> listers -----------------------------+-> builder
                                                                         |
                             HTTP handlers <--- store <------------------+
                             endpoint <-- sender <-- queue <-- report <--+

| component | state | operations | what is hard |
| --- | --- | --- | --- |
| forwarder queue (`internal/forwarder/queue.go`) | `mem`, `memBytes`, `flushCh`, spool directory, `failed/` | `Enqueue`; `Run`, `flushOnce`, `flushMemory`, `writeToDisk`, `bumpRetries`, `moveToFailed` | two goroutines over one buffer and one directory; lost answers; crash between any two file system calls; retry and backoff |
| sender (`sender.go`) | none | `SendBatch` | an answer may be lost although the batch was taken |
| flow counters (`bpf/flows.bpf.c`) | LRU map `clustercost_flows` | `handle_skb` in every CPU at once | lookup, create and add are separate steps without a lock; eviction between them |
| network collector (`internal/collector/network_collector_linux.go`) | `last`: baseline per flow | `CollectPodNetwork` | reads counters while they grow; resets; pods come and go |
| metrics counters (`bpf/metrics.bpf.c`) | `pid_start`, `clustercost_metrics` | `handle_sched_switch`, `handle_mm_page_alloc`, `handle_mm_page_free` on every CPU at once | lookup, create and add without a lock; a task that is switched out on another CPU than before; unsigned counters that go down; a full map |
| metrics collector (`ebpf_metrics_collector_linux.go`) | `last`, `lastTime`, `cache`, `cacheAt` | `CollectPodMetrics` | a cgroup cache with a time to live; counters that restart from zero; a walk that fails half way |
| snapshot builder (`internal/snapshot/builder.go`, `pricing.go`, `classifier.go`) | none kept | `Build` | sums over several groupings that must agree |
| network classifier (`internal/network`) | none | `ClassifyEgress` | decision order |
| snapshot loop (`cmd/agent/main.go`) | ticker | `runSnapshotLoop`, `buildOnce` | five listers read one after the other; collectors may fail |
| store and API (`internal/snapshot/store.go`, `internal/api`, `internal/exporter/server.go`) | latest snapshot, HTTP server | `Update`, `Latest`, handlers, `Run` | readers concurrent with the loop; shutdown |
| eBPF manager (`internal/ebpf`) | links, collections; pins that outlive the process | `Preflight`, `Start`, `Close` | partial failure of a sequence of loads; pins of earlier lives; a BPF file system that is missing or read-only |
| kube cache and client (`internal/kube`) | informers | `Start`, listers, name and region detection | order of fallbacks; informers that lag on their own |
| configuration (`internal/config`) | none kept | `Load` | four sources, field by field |
| cost pipeline of `README.md:13` (`internal/collector/cluster_collector.go`, `metrics_collector.go`, `internal/enricher`, `internal/aggregator`, `internal/pricing`, `internal/exporter`) | `last` usage, the dataset, the gauges of `/metrics` | `Collect`, `CollectPodMetrics`, `Aggregate`, `Update`, handlers | three lists of different moments; a scrape in the middle of `Update`; an answer kept when the API fails |
| price generator (`hack/cmd/generate-pricing`) and its table | channel `tasks`, `jobWG`, results | `main`, workers, feeder, closer, `writeGoFile` | workers that put throttled jobs back into the bounded channel they read from |

What each has to guarantee:

* **queue** - a report has one copy and is never silently lost; losses and
  repetitions are bounded by the faults that happen; the buffer and every POST
  respect their limits; the queue drains.
* **flow accounting** - an undisturbed flow is counted to the byte; nothing is
  charged twice; every byte is charged in the end.
* **metrics** - the CPU time of an undisturbed cgroup is counted to the tick, and
  none is ever counted or reported twice; what is reported for an interval was
  used in it; the cgroup read for a pod is the pod's.
* **builder** - totals are the sums of their parts, in every grouping.
* **snapshot loop** - every round that publishes reports what it published; the
  store converges to the cluster once it stops changing.
* **store/API** - a handler sees one snapshot, never an older one than before.
* **manager** - a start attaches everything or nothing, and a collector reads the
  map its own life's programs fill.
* **cost pipeline** - a dataset agrees with itself in every grouping; a gauge vector
  that was reset shows only series of the round that reset it (those not reset yet
  still show the round before); the reports catch up with the cluster.
* **price generator** - no job is lost, and nothing is sent on a closed channel; it
  gets stuck only with a backlog, but the jobs of the repository's own example are
  one; a price in the table is one the API offered for that region.
* **configuration, identity** - the sources are merged in one order for every field,
  which is not the one the code announces; unless `CLUSTER_NAME` says so, nobody
  reports under a placeholder name that was not configured.

## Modules

| module | models |
| --- | --- |
| `ForwarderQueue` | queue, sender, the producer side of `main`, file system, process lifetime |
| `SumTheorems` | lemmas on sums over finite sets, for the proofs |
| `ReportOutbox` | abstract specification: what a forwarding queue promises about each report |
| `MCForwarderQueue`, four `.cfg` | instances of it |
| `ForwarderQueueProofs` | its inductive invariant and theorems |
| `FlowCounters` | `handle_skb` in several contexts, the LRU map, the collector's walk |
| `MCFlowCounters`, one `.cfg` | an instance of it |
| `FlowCountersProofs` | its inductive invariant and theorems |
| `MetricsCounters` | the three tracepoint programs on several CPUs, `pid_start`, the LRU map |
| `MCMetricsCounters`, two `.cfg` | instances of it |
| `MetricsCountersProofs` | its inductive invariant and theorems |
| `PodMetrics` | `CollectPodMetrics`: walk, cache, baselines; pods and cgroups that come and go |
| `MCPodMetrics`, two `.cfg` | instances of it |
| `PodMetricsProofs` | its inductive invariant and theorems |
| `NetworkClassifier` | address index, `ClassifyEgress`, sums per pod and class (operators) |
| `SnapshotBuilder` | `Build`, price lookups, `Classify` (operators, on top of `NetworkClassifier`) |
| `SnapshotPipeline` | `runSnapshotLoop`, `buildOnce`, informers and cluster, the store, the HTTP API; composes the two above |
| `MCSnapshotPipeline`, one `.cfg` | an instance of it |
| `SnapshotPipelineProofs` | its inductive invariant and theorems, lemmas on `Build` |
| `ConfigMerge` | `config.Load` (operators) |
| `ClusterIdentity` | `DetectClusterName`, `DetectClusterRegion` (operators) |
| `AgentStartup` | `main` up to the loop, preflight and mount, `Manager.Start` and `Close`, `ensureMap`, the end of the server; uses the two above |
| `AgentStartupProofs` | its inductive invariant and theorems |
| `MCAgentStartup`, one `.cfg` | an instance of it |
| `PriceGenerator` | workers, feeder, closer and `main` of `generate-pricing`, and the file |
| `CostAggregator` | `Aggregate`, label enricher, price lookups, workloads (operators) |
| `CostReporting` | the loop of collectors, aggregator and exporters, with a scraper; composes the two above |
| `CostReportingProofs` | the inductive invariants and theorems of `PriceGenerator` and `CostReporting`, lemmas on the views of `CostAggregator` |
| `MCCostReporting`, one `.cfg` | an instance of it |

### ForwarderQueue

Two program counters: `epc` for the caller of `Enqueue`, `fpc` for `Run`.

| code | action |
| --- | --- |
| `Enqueue` with `memoryBuffer == 0` | `AcceptDirect`, then `CommitWrite` or `FailWrite` |
| `Enqueue`: append, spill loop under `mu` | `AcceptToMemory`, (`SpillHead`, `CommitWrite` or `FailWrite`)*, `UnlockMu`, `SignalFlush` |
| `Run`: select | `Tick`, `WakeUp`, `Stop` |
| `flushOnce`, `flushMemory` | `AbortFlush`; `TakeMemory` or `MemoryEmpty`; `Post`; `MemoryAcked`, or `MemoryNotAcked`, `WriteBack`*, `WriteBackDone` |
| `flushOnce` on the spool | `ListSpool`; (`ParkExhausted`, `SkipFile`, `TakeFile`)*, `EndScan`; `ReadFile`*, `ReadDone`; `Post`; `DiskAcked`, `RemoveFile`* or `DiskNotAcked`, `BumpFile`*; `BatchDone` |
| shutdown and failure | `Shutdown`, `Exit`, `Crash`, `PowerLoss`, and the `Fault` branch of every file system call |
| time | `Ripen`: a file's age exceeds every backoff that may be drawn |

Interleaving points are where the code can be preempted with an effect: mutex
regions that do no I/O are one step; the spill loop of `Enqueue`, which holds
`mu` across disk writes, is not. A file appears in the spool at the rename of
`writeToDisk`; the `.tmp` file before it is read by nobody. The ghost variables
`posts`, `acked`, `received` and `lost` record what happened to each report
and never guard a step.

### ReportOutbox

A report is accepted, then held, and leaves the held set only by being received
by the endpoint, by being parked, or - only once something failed - by being
lost. `ForwarderQueue` implements it: held is the union of the buffer, the
producer's hand, the batch in flight and the spool.

### FlowCounters

Each handler context does `Lookup`, if nothing was found `Create` and
`LookupAgain`, and then `AddBytes` through the pointer it got, which by then may
point to an evicted or reused slot. The collector does `BeginWalk`, `Visit` per
entry, `EndWalk`; an iteration that lost its place because an entry vanished may
return entries again or end early. `known` is the set of flows whose source
address belongs to a pod of this node and changes between collections.

### MetricsCounters

A CPU is in one handler at a time, because a program runs with preemption
disabled. `sched_switch` is `SwitchOut` (clock, `pid_start` of the outgoing
task), then `add_cpu_time` if there is something to add, then `SwitchIn`
(`pid_start` of the incoming task). The page programs are `PageAlloc` and
`PageFree` followed by `add_memory`. `add_cpu_time` and `add_memory` have the
same shape and share the actions `Lookup`, `Create`, `LookupAgain` and `Add`;
they differ in what `Added` does to the counter. `Tick` and `Move` are the
node's: time passes, a task changes its cgroup or its pid is reused.

`used` and `pages` are the truth the counters are compared with. `disturbed`
are the cgroups about which the code promises nothing: their entry was evicted
or replaced, a late add may reach it, a task of theirs was refused by a full
`pid_start`, was already running when the programs were attached, or changed
its cgroup while it ran. An update of a key that `pid_start` has is taken to
succeed, and tracepoints that fire inside a program are left out.

### PodMetrics

Its counter is one number per cgroup: `Create` and `CpuCounted` are
`add_cpu_time` as `MetricsCounters` shows it to behave towards one cgroup,
`Evict` the LRU map.
`CollectPodMetrics` holds a mutex from beginning to end; its steps are the pod
lookup (`WalkCgroups`, `UseCache`, or `WalkFails` for each early return that
leaves the collector as it was), `Visit` per entry of the map, and `EndWalk`. An
iteration in which entries were evicted may return entries again or end early.

Pods and directories are independent: a pod may be listed before its directory
exists and after it is gone. `a1` and `a2` are two instances of a pod of one
name, as a StatefulSet makes them; a name has one listed instance at a time, an
instance does not come back, and one that has used CPU does not get a second
directory.

`stale`, `recent`, `window` and `before` are history: for how long an instance
has not been both listed and running, what was counted since the last two
collections began, and which cgroups the previous collection read.

A collection computes milli-CPU as gain divided by elapsed time. The model keeps
the gain and compares it with what was counted since `lastTime` was last set.
The counters are those of the directory found for the pod: time of tasks in
directories below it is counted by the kernel elsewhere and looked up by nobody.

### SnapshotPipeline, SnapshotBuilder, NetworkClassifier

One action per read of `buildOnce`: `ListNodes`, `ListNamespaces`, `ListPods`,
`ListServices`, `ListSlices`, then `CollectMetrics`, `CollectNetwork`, `Publish`
(`Build` and `store.Update`), `Enqueue` (report and queue), `Tick`. The cluster
changes in between, pod by pod, node by node, and `Deliver` brings one of the
five caches up to date. `view` holds the local variables of `buildOnce`; what
`Build` makes of it is the operator of that name, and `basis` remembers the view
the published snapshot was built from.

The collectors are inputs here: a set of flows or of usages, or nothing when a
collector fails. Which pod owns an address is decided by the lister's order, as
in the code, where a later pod overwrites an earlier one. Prices come from the
labels of a node and the configured tables, as `NewNodePriceLookup` and
`detectInstanceType` read them, and the environment of a namespace from its
labels or its name. `NetworkUsage` is `aggregatePodUsageFromFlows`, which `Build`
falls back to when the collector has no pod at all. A handler of the HTTP API
reads the store once, so `Answer` is a function of the store: 503 before the
first snapshot, except for `overview` and `health`. A service
connection stands under every slice that has the address, so slices that share one
count its bytes once each. Memory is summed along the same
paths as CPU and left out, as are received bytes, labels and taints. Prices are
whole numbers that divide without a remainder, and percentages are rounded down.

In node scope `main` keeps only the pods of its node, so a peer on another node
is no pod to `ClassifyEgress`: traffic to it is `vpc_private` and the classes
`intra_az` and `inter_az` do not occur. The cluster-wide view, which an agent has
without a node name, would give them, but then no eBPF collector runs.

### ConfigMerge, ClusterIdentity, AgentStartup

`Load` is a composition of functions on a record of fields, one for every kind
the merge treats differently: texts, switches, numbers and the table of egress
prices. Its sources are the flags, the file and the environment.

`DetectedNames` is the set of names `DetectClusterName` may return for the
answers of the API server: two config maps called `cluster-info`, kubeadm's, and
the labels of the nodes. It is a set because a kubeconfig without a current
context yields any of its clusters, which are a Go map. How a zone is written is
part of the constants; which of its sources wins is not.

| code | action |
| --- | --- |
| `config.Load` and the panic | `LoadConfig` |
| `main`: client, `CLUSTER_NAME`, `DetectClusterName`, the two placeholders | `Identify` |
| `DetectClusterRegion` | `IdentifyRegion` |
| `main`: node name | `ResolveNode` |
| `ClusterCache.Start` | `SyncCaches` |
| `Preflight`, `mountBPFFS`, switching off | `Preflight` |
| `Manager.Start` | `StartManager`; per kind `LoadCollection`, `RemoveOldPin`, `PinMap`, `AttachProgram`* |
| `ensureMap` of the collectors | `OpenMap` |
| `Run` of the HTTP server returns, and `main` with it | `ServerRuns` |
| `os.Exit`, `panic` after an error | `GiveUp` |
| a signal, a crash; the kubelet; the node | `Down`, `Restart`, `Reboot` |

A process may end between any two steps. Pins stay, links and collections go. A
map is its kind and the life that created it, which is what lets
`CollectorsReadLiveMap` tell a pin of this life from one left over.

Things met while modelling that no run covers, all visible in the model:

* A file cannot switch off what is on by default (`enable-ebpf-metrics`, gzip)
  nor set a number to 0, since a zero value means "not mentioned".
* With `CLUSTER_NAME` set and no cluster id configured, the id that reports carry
  stays the placeholder `kubernetes`: `Identified` holds only without it.
* `mountBPFFS` takes a plain writable directory for a mounted BPF file system;
  the preflight passes, pinning fails, and the agent exits instead of going on
  without eBPF.
* With an empty map path (only a flag can make it so) nothing is pinned, but the
  collector opens the default path and may find a map of an earlier life there.
* `pricing.aws.nodePrices` is merged and checked and then not used by `main`.

### PriceGenerator

The goroutines are the workers, the feeder, the closer and `main`. A job is
`Feed`, `Receive`, then `Priced`, `GivenUp`, or `Throttled` and `Resend`;
`Close` is the closer, `Exit` the end of a worker's range, `WriteGoFile` the
rest of `main`. `JobsFor` and `Level` are what `main` makes of its command line.
The back-off sleep has no action of its own: it is the time between `Throttled`
and `Resend`.

The channel holds `2 * level + 1` jobs. When all workers are in `Resend` and the
channel is full, nobody receives and the program waits for ever without writing
the table. `Stuck` describes that state and `StuckNeedsBacklog` says when it may
occur: only with more than `3 * level` jobs. That is no corner: the command of
the repository's `README.md:76-85`, 9 regions and 6 types, is 54 jobs for 8
workers, where 24 are safe. Nothing in the repository says that the generator
always ends, so this is a hazard and not a finding.

### CostAggregator, CostReporting

The pipeline `README.md:13` of the repository describes. `main` does not call
these packages any more; they are built and tested, and the loop that joins
them is the one that README describes, so `CostReporting` has one action per
call: `ListPods`, `ListNamespaces`, `ListNodes` or `ListFails`,
`CollectPodMetrics`, `AggregateCosts`, then `Update` of the exporter as
`ResetVector` five times, `SetSeries` per series, and `EndUpdate`. `/metrics` may
be scraped in any state. The generator runs first, and `Build` starts the agent with
the table it left in the source, which the configuration overrides price by price.
The cluster and the usage change between any two calls.

`Aggregate` is one operator: usage or request of each pod, labels of pod and
namespace merged, costs of pods, namespaces, nodes, instance types, labels and
the cluster. Owners are the controllers among the owner references, as the
collector reduces them.

## Runs

| run | question | bounds |
| --- | --- | --- |
| `Memory` | custody, accounting, attempts, the listing and the limits with faults and restarts; refinement of `ReportOutbox`; memory and spool empty for good | 2 reports, one larger than a POST may be; buffer 1, batch 2, 1 retry, one fault, one restart |
| `Disk` | repeated deliveries and losses when there is no buffer | 2 reports, one fault, one restart, one damaged file |
| `Unposted`, `Blocked` | a sentence of the documentation that the code does not keep | 2 reports |
| `Flow` | exact counting, nothing charged twice, everything charged in the end | 2 contexts, 2 flows, 2 slots, 3 packets of one or two bytes |
| `Metrics` | CPU time and pages exact for undisturbed cgroups, CPU time never counted twice | 2 CPUs, 2 pids and the idle task, 2 cgroups, 2 slots, 2 pid entries, 1 tick, 2 page operations |
| `PodReports` | no CPU time reported twice, gains paired with their interval, age of what is looked up, counters of pods that stay read to the end | 2 instances of one pod, 2 ticks of CPU, one eviction or one failing walk, cache lifetime 2 |
| `Snapshots` | sums and connections agree in every grouping, services with their pods; addresses and costs are attributed; every snapshot is reported; the API comes to be ready and to show the cluster | 3 pods, 2 nodes, 2 namespaces, 1 service with 2 slices; 6 flows; one change of the cluster, on caches that may lag already |
| `Startup` | the order sources are merged in; names; maps and links of this life; collectors read in the end | every field with every combination of sources; 2 lives; 4 states of `/sys/fs/bpf` |
| `Costs` | the generator loses no job and gets stuck only with a backlog; datasets agree with themselves; a vector that was reset shows one round; prices are of the region; reports catch up | 5 command lines with up to 4 jobs and up to 2 workers, 1 retry per job; 3 clusters with up to 3 pods and 2 nodes, 2 usages, one change, one failing call |
| `MemoryActual`, `UsageActual` | a sentence about usage that the code does not keep | 1 page operation; 2 ticks of CPU |

The exact constants are in the `.cfg` files. Two reports are enough for a batch
of two, a batch that the byte limit cuts, a spill during a send, and a file
parked while another is in a batch; with a buffer of one the batches of two come from
the spool, and one cut from memory is left to the proofs of `WithinLimits` and
`LossBounded`. Two contexts give the creation race, the stale pointer and the
reused slot, since a creation may take any slot; packets of two bytes let a flow be evicted, come back and be counted past its old value.
`Metrics` has the same races; two entries of `pid_start` for three tasks make it
overflow, one tick may fall anywhere between two switches and within them, and
with one page of memory two page operations are an allocation and a free in
either order. In `PodReports` an entry may be read before the first slice is
added, so an eviction leaves a counter below its baseline, and a cache lifetime
of two ticks lets a pod end, be recreated and be looked up while the cache is
valid. `Snapshots` begins in four situations - a pod that runs but is pending in
the cache, a finished pod whose address the next one may get, the next one
having it and a node missing in the cache, a young cluster whose cache holds a
service that is gone - so that one more change anywhere gives five reads of
different moments; the flows cover the three classes a node scope has for valid
addresses, two pods of the node in both directions, and an address with two
owners; one service has two slices. In `Startup` each field is taken through all combinations of silent,
zero and other values of its sources, because fields do not influence each other
but for the two names, which are combined; in the second life every pin the
first can leave behind, at any step, is found. The faults, restarts, evictions
and damaged files of a run are its budget: each occurs at every moment.

In `Costs` four jobs for one worker are
the fewest that may get stuck and three the most that may not; two workers share
two jobs; and what holds for more of either is proved. The clusters differ so that
a pod is listed on a node that is not there yet, and a namespace is gone.

Fairness. `Memory` assumes that both goroutines run on, that time passes for
every file and that a cancelled process exits; it does not assume that the
endpoint ever answers, that the producer continues, or that `select` picks a
particular case. Go's scheduler, the ticker and the clock justify this. The
flusher's steps share one fairness condition because it is one goroutine.
`Flow` assumes that handlers finish, that collections repeat (the
ticker of `runSnapshotLoop`) and that an iteration visits what it can
reach; neither packets nor pod changes are assumed. `PodReports` assumes the same
of the metrics collector and that time passes, so that the cache expires;
CPU use and pod changes are free. `Snapshots` assumes that the loop runs on,
which has no exit while the process lives, and that the informers deliver, one
condition for all of them; collectors may fail for ever. `Startup` assumes only
that a running agent collects; it may go down at any time. `Costs` has one
condition for generator, build and loop, which follow one another in one process
after another: each is run and every call returns, with an error if need be.

## What the runs found

* **`Unposted`** (`queue.go:212`). A file that could not be read for a moment
  stays in `batchFiles`; when the rest of the batch is accepted it is removed
  and its report was never sent.
* **`Blocked`** (`queue.go:202`). If no file of a batch decodes, nothing about
  them changes, and they head the next listing again; intact files behind them
  are never sent.
* **`MemoryActual`** (`metrics.bpf.c:88`). `PodUsage` "details actual usage
  metrics" (`kube/types.go:52`), but a page is subtracted from the cgroup that
  happens to run when it is freed; the unsigned counter wraps and the agent
  reports 2^63 - 1 bytes.
* **`UsageActual`** (`ebpf_metrics_collector_linux.go:103`). For a pod that ran
  before the collector found it - because it was waiting for the cache to
  expire - the first usage reported is the CPU time of its whole life over one
  interval: `firstSample` is kept per collector and not per cgroup.

Two more sentences disagree with the code. For these a property of a passing run
states what the code does instead, the opposite of the sentence.

* "We accept flags as ultimate override" (`config.go:245`), and the comment of
  `Load` lists flags last (`config.go:181`). But flags are parsed first, and file
  and environment are merged over them, so a variable that the deployment sets for
  every agent cannot be overridden on the command line. `MergeOrder` checks that it
  is so: environment over file over flags over defaults, with the exceptions for
  zero values.
* `--remote-max-retries` is described as "Max retries per batch" (`config.go:218`).
  But a report that starts in memory is POSTed `MaxRetries + 2` times, once from
  memory and `MaxRetries + 1` times from the spool, where the count starts again
  (`queue.go:297`). `BoundedAttempts` allows for it, and `Memory` reaches it.

## Proofs

TLAPS checks every theorem for all values of the constants that satisfy the
named assumptions. TLC evaluates these on the instances:

* `BoundsAssumption`, `NewQueueAssumption`: the limits are what `NewQueue`
  establishes whatever it is given, and a report has a size;
* `FlowAssumption`, `MetricsAssumption`, `PodMetricsAssumption`: bounds are
  numbers, and flows, CPUs and cgroups are finitely many, so that they can be summed;
* `StartupAssumption`: what flags, file and environment give has the Go type of its
  field, and no flag gives egress prices;
* `GeneratorAssumption`, `AggregatorAssumption`, `ReportingAssumption`: amounts and
  prices are numbers, lists are finite, a list names a pod once, and no job has an
  empty instance type, which `splitAndTrim` sees to;
* `BuilderAssumption`, `PipelineAssumption`: amounts and prices are numbers, a price
  divides by the milli-CPU of its node (prices are scaled until they do), objects are
  finitely many, every node has labels, and no address is the empty one. A flow has a
  destination, as the kernel fills in both addresses from the IP header. Without a
  node name there are no flows, because `main` exits when a collector is enabled
  and `NODE_NAME` is empty (`main.go:108`);
* `BeginningsAssumption`: what the agent finds, and the first lists of its informers,
  are objects of the cluster.

**ForwarderQueueProofs.** The checked properties are not inductive. What has to
be known in addition:

* *types of the flusher's locals*, and that they are empty where they are
  unused (`flight` outside a memory batch, `batch` and `readable` outside a disk
  batch): without it a `BatchDone` could drop files;
* *the listing*: `todo`, `batch` and `readable` are subsets of `dir` between
  `ListSpool` and `BatchDone`, since only the flusher removes or renames files
  and the producer only adds;
* *custody*: the places a report can be are pairwise disjoint, each holds it
  once, and names of files are below `stamps`, so `CommitWrite` adds a new one;
* *attempts*: for a report in a spool file, `posts` is at most its retry count
  plus the first attempts plus the faults and restarts, with the cases of a POST
  outstanding, a removal pending and a bump pending told apart; that is
  `BoundedAttempts` and `AckedOnce` made inductive.

One lemma per group of actions shows that the conjunction is preserved; each
theorem then follows from `Invariance` by temporal logic.

`WithinLimits` adds that `memBytes` is the sum of the sizes in the buffer
(a sum over its positions, so that a prefix taken by `flushMemory` and the rest of
it are two sums), and where the producer stands in the spill loop that keeps it
within the limits. `LossBounded` is an account: `lost` is a set, and every step
that adds to it pays with a fault, a damaged file or a restart; a restart pays for
all that was in the buffer, in the producer's hand and in a batch that was cut from
the buffer, which `WithinLimits` bounds. `OutboxImplemented` shows the refinement
step by step: the initial state is one of the outbox, and every action of the queue
is one of `ReportOutbox` over the mapped state or leaves that state alone; custody
tells which, because a report that has one place leaves it by one step.

**SumTheorems.** `MapThenSumSet` is defined through a function on all subsets that
is chosen by a recursive equation. `SumExists` and `SumUnique` show that there is
exactly one, by induction in the only form the provers can take: a *set* of subsets
that has the empty set and with every subset those larger by one contains
everything (`FiniteInduction`, from the library's theorem on natural numbers as a set).
From there on sums are used by their laws: insertion, removal, union,
monotony, a common factor (`SumScale`), parts (`SumByPart`), positions of a sequence
(`SumUpTo`, `SumCut`), and tables whose rows stand for groups (`RowsAddUp`).

**FlowCountersProofs.** `ExactUnlessDisturbed` needs that two flows never share
a slot (`OneSlotEach`), that a context in front of its add which belongs to an
undisturbed flow holds that flow's slot (`Pointers`), and that baselines are not
ahead of counters of undisturbed flows (`Behind`), so that `Diff` is a
subtraction. `NothingChargedTwice` is about all flows, disturbed or not, and
follows from `Covered`: what is charged and what the next visit will find never
exceed what was sent, each summed over all flows, because an add through a stale
pointer gives to one flow what was sent by another.

**MetricsCountersProofs.** `MemoryExact` needs the same two facts about slots and
pointers, for handlers that reach `add_cpu_time` and `add_memory` from several
places (`Called`: inside a call the cgroup is known, and `sched_switch` knows its
next task). That an unsigned counter which goes below zero comes back right is
`ModAdd`, a remainder of a sum, proved from the uniqueness of remainders.
`CpuCountedOnce` has two halves. For an undisturbed cgroup, the counter, what
handlers are about to add and the unfinished slices, summed over the CPUs, are what
was used (`Exact`). For all cgroups together the same account is an inequality
(`Over`), since whatever is evicted, created twice or refused is only ever lost. Both
need that a task runs on one CPU and that no clock reading lies in the future
(`Running`).

**SnapshotPipelineProofs.** The loop part is short: a round lists every pod once and
in scope (`Listing`), keeps the flows that have a listed source, and counts exactly
these by pod and class (`Collected`); the caches may be as old as they like, because
nothing of a round is read twice. So what is published is `Build` of a view with
these properties, and the rest is about `Build`:

* `AddsUp`: a total is a column over the pods that count, and every view of it is the
  same column summed over groups of them (`Grouped`, `GroupsAddUp`): namespaces,
  nodes, classes. The egress cost exchanges the order of two sums, pods and classes
  (`EgressIsByClass`), with `SumScale` for the price;
* `ViewsAgree`: the records of the collector and the connections of the builder are
  sums over the same flows, grouped by the owner and class that the address index
  gives (`AllOfPod`, `ConnectionsAddUp`). The index is built twice, by the collector and
  by the builder, and depends on nothing but the listed pods and nodes, which a round
  does not list again in between (`SameIndex`). For the services (`ServicesAgree`):
  where slices do not share addresses a flow has one key at most in
  `ServiceConnections` and counts once under it (`OneKey`), and an address that is a
  listed pod's is a service's exactly if that pod is behind it (`BehindService`), so both
  sides sum the flows that leave a service (`ServiceSends`, `PodsBehindSend`);
* `Attributed`: a pod whose address is its own owns it in the index
  (`OwnerIsListed`), so its flows are those of its address (`FlowsOfOnly`), and a
  peer on its node makes them `intra_node` (`LocalClass`);
* `CostsCovered`: a pod is charged its request at the price of a milli-CPU of its node
  (`ShareIsBounded`), so all pods of a node that may run are charged at most what
  the node costs when their requests fit in it (`NodeCovers`).

**CostReportingProofs, the generator.** A count: jobs not done are those not sent, those in
the channel and those in a worker's hand (`Conserved`). `Stuck` has `2 * level +
1` in the channel and `level` in hands, so there are more than `3 * level` jobs;
when the channel is closed there are none, so nobody can send. `NoJobLost` needs
that a job that was sent is in the channel, held, priced or warned about
(`Accounted`).

**CostReportingProofs, the reports.** Three arguments under one invariant (`RInv`).
`DatasetsAgree` needs little of the state: every view is a table whose rows stand
for disjoint groups of the same pods or nodes (`Groups`), so that its column adds up
to theirs, pods without an owner, a label or a listed node being groups of their own; of
the loop only that what it listed can be added up (`Collecting`). For
`ScrapesAreCurrent` a vector that waits for its reset has all its series to be set,
and any other shows exactly those series of the dataset that are not to be set any
more (`Exporting`); that setting a series replaces no other of its dataset is
`SeriesDiffer`, because a list names a pod once. `RawPricesAreFetched` follows a
price from the answer (`Offering`) through the file into the program (`Fetched`),
with `NoneIsLost` of the generator for the jobs that have none.

**AgentStartupProofs.** The argument follows the list of steps `Manager.Start`
has left (`todo`). What is attached and what is left to attach are always the
programs of the enabled kinds (`Attaching`), which is `AllOrNothing` once nothing
is left. In what is left of a plan the pin of a kind comes after its load and its
removal of the old pin (`Ordered`), and two kinds with pins of their own do not
touch each other's path (`PathsDiffer`). So when no pin of a kind is left to make,
the one that is there is the map of this life (`PinsLive`), and a running agent,
which has nothing left, opens that one. Everywhere else in a life there are no
links, no open maps and no steps, whatever the pins are (`Idle`), which is why
it does not matter where an earlier life ended. `TypeOK` needs in addition that
the node name is known from `sync` on (`Shaped`). `MergeOrder` compares the
configuration with the sources it was loaded from: until the start goes on it is
what `Load` makes of them (`Loaded`), and `LoadIs` says field by field what that is,
the table of egress prices included (`Overlay`). `Identified` needs that name and id
are those `Names` makes of some answer, and when the region is empty (`Named`).

**PodMetricsProofs.** `ReportedOnce` is inductive once it counts the gain the
next visit will find, which is `Diff` of counter and baseline: an eviction makes
that gain 0 and a reset makes it the counter alone, which is below what was
dropped. `PairedWithInterval` needs `GainsAreRecent`: for every cgroup read by
the last collection the pending gain is at most `recent`, and inside a
collection at most `window`. `MappingsAreRecent` needs `CacheIsRecent`: every
instance in the cache was present at most `cacheAge` ago.

Every invariant that a passing run checks is a theorem. Only model-checked are the
liveness properties (`QueueDrains`, `AllCharged`, `CountersAreRead`, `ReadsInTheEnd`,
`Converges`, `ReportsInTheEnd`), which TLAPS cannot prove, and that the four
runs with an expected violation find one, for which a behaviour of a small
instance is enough.

## Not modelled

`PROJECT.json` lists every component. Left out: logging, formatting, marshalling
and compression. Of the generated price table (`aws_prices_gen.go`, 4771 lines)
there is nothing to model but what it is: data, written by `WriteGoFile` and read
by `Build`. Within the modelled components: bytes on the wire, HTTP details, the
second of two symmetric flow counters, memory and received bytes in snapshots,
labels, taints and conditions that are copied for display, the order of lists,
durations and lists in the configuration, the causes of preflight issues other
than the file system, and the rounding of floats. The stubs for other systems
return nothing, which a failing collector does too.

Two hazards have no property. After a memory batch `flushOnce` returns without a
look at the spool (`queue.go:135`), so spooled reports wait as long as memory is
never empty at a tick: nothing promises otherwise, and `QueueDrains` speaks of a
producer that stops. And the counters of a flow key outlive the pod
(`network_collector_linux.go:109`): when an address is reused, what was counted
since the last collection belongs to both pods, and nothing in the counters could
tell them apart.

## Plan

Done, in this order: the queue with its abstract specification, both pairs of
kernel program and collector, builder and snapshot loop, start and configuration,
the API, names and region, the cost pipeline with the price generator; then the
proofs of every invariant and of the refinement of the outbox. Left:

1. Action properties that follow from the proved invariants: that a round of
   `SnapshotPipeline` leaves its lists alone once it has read them, and that only the
   flusher shrinks the spool.
2. The safety part of the liveness properties: that with no more reports and no more
   faults every step of the queue's flusher lowers a measure, so that only fairness
   itself is left to TLC.
3. `CostAggregator` shares its idea of a total with `SnapshotBuilder`; one library of
   lemmas on groups would serve both proofs.
