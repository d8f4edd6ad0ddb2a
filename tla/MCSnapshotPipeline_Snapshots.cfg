SPECIFICATION FairSpec
CONSTANTS
    p = p
    q = q
    r = r
    web = web
    db = db
    near = near
    far = far
    a1 = a1
    a2 = a2
    b1 = b1
    vpc = vpc
    net = net
    api = api
    sl1 = sl1
    sl2 = sl2
    NoNode = NoNode
    NoAddress = NoAddress
    NoZone = NoZone
    NoLabel = NoLabel
    Zone <- TheZones
    Private = {vpc, b1}
    Internet = {net}
    Pods <- ThePods
    NamespaceOf <- TheNamespaceOf
    WorkloadOf <- TheWorkloadOf
    CpuRequest <- TheRequests
    LabelValues <- TheLabels
    ProductionValues = {"prod"}
    NonProdValues = {"staging"}
    SystemValues = {}
    LooksProduction = {web}
    SystemNamespaces = {db}
    Allocatable <- TheAllocatable
    TypeLabels <- TheTypes
    InstancePrices <- ThePrices
    DefaultNodePrice = 4
    EgressPrices <- TheEgress
    DefaultEgressPrice = 1
    Nodes = {near, far}
    Namespaces = {web, db}
    Services = {api}
    Slices = {sl1, sl2}
    ServiceOf <- TheServiceOf
    AddressPool <- ThePool
    HomeNode <- TheHomes
    NodeName = near
    FlowBatches <- TheBatches
    UsageBatches <- TheUsages
    Settled = {r, far}
    Beginnings <- TheBeginnings
    MaxChanges = 1
INVARIANTS
    TypeOK
    ViewsAgree
    AddsUp
    Attributed
    CostsCovered
PROPERTIES
    Converges
