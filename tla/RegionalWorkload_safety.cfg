\* Nodes, verdicts, target and spec change under stale copies and faults.
SPECIFICATION Spec
CONSTANTS
    Workloads = {w1}
    Targets = {t1}
    w1 = w1
    t1 = t1
    near = near
    far = far
    east = east
    west = west
    None = None
    NodeSet <- MCOneNode
    Specs <- MCSpecs
    TargetStates <- MCTargets
    Others <- MCForeign
    EndpointNames <- MCNames
    Sanitized <- MCSanitized
    Defaults <- MCDefaults
    MaxChanges = 1
    MaxTouches = 1
    MaxEdits = 1
    MaxFaults = 1
    MaxActs = 2
INVARIANTS
    TypeOK
    AlwaysScheduled
PROPERTIES
    OnlyPinsChange
    EndpointKept
\* A system whose workloads are all deleted or rejected really stops.
CHECK_DEADLOCK FALSE
