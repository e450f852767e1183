\* A disagreement between a comment and the code: UnhealthyWorkloadFailsOver.
SPECIFICATION FairSpec
CONSTANTS
    Policies = {p1}
    Workloads = {w1}
    w1 = w1
    w2 = w2
    Nodes = {n1}
    Regions <- MCRegions
    east = east
    None = None
    PolicySpecs <- MCByWorkload
    WorkloadSpecs <- MCWorkloadSpecs
    CanUpdateNodes = TRUE
    KeptEvents = 2
    MaxAge = 1
    MaxChanges = 0
    MaxMoves = 1
    MaxEdits = 0
    MaxFaults = 0
    MaxActs = 4
PROPERTIES
    UnhealthyWorkloadFailsOver
