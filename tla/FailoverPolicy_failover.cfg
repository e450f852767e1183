\* Two workloads: a failover refused or interrupted half-way, edits while it runs.
SPECIFICATION BareSpec
CONSTANTS
    Policies = {p1}
    Workloads = {w1, w2}
    w1 = w1
    w2 = w2
    Nodes = {n1}
    Regions <- MCRegions
    east = east
    None = None
    PolicySpecs <- MCStrategies
    WorkloadSpecs <- MCWorkloadSpecs
    CanUpdateNodes = TRUE
    KeptEvents = 1
    MaxAge = 1
    MaxChanges = 1
    MaxMoves = 1
    MaxEdits = 1
    MaxFaults = 1
    MaxActs = 2
SYMMETRY AnyOrder
INVARIANTS
    TypeOK
    AlwaysScheduled
    FailoverTotal
PROPERTIES
    RewritesStored
