\* A disagreement between a comment and the code: GracefulFailsOver.
SPECIFICATION FairSpec
CONSTANTS
    Policies = {p1}
    Workloads = {w1}
    w1 = w1
    w2 = w2
    Nodes = {n1}
    Regions <- MCRegions
    east = east
    None = None
    PolicySpecs <- MCGraceful
    WorkloadSpecs <- MCWorkloadSpecs
    CanUpdateNodes = FALSE
    KeptEvents = 2
    MaxAge = 1
    MaxChanges = 1
    MaxMoves = 0
    MaxEdits = 0
    MaxFaults = 0
    MaxActs = 4
PROPERTIES
    GracefulFailsOver
