\* Whatever changed, pins and Services follow.
SPECIFICATION LiveSpec
CONSTANTS
    Workloads = {w1}
    Targets = {t1}
    w1 = w1
    t1 = t1
    near = near
    far = far
    east = east
    west = west
    None = None
    NodeSet <- MCNodes
    Specs <- MCFew
    TargetStates <- MCPortTargets
    Others <- MCRelabelled
    EndpointNames <- MCNames
    Sanitized <- MCSanitized
    Defaults <- MCDefaults
    MaxChanges = 1
    MaxTouches = 1
    MaxEdits = 1
    MaxFaults = 0
    MaxActs = 1
PROPERTIES
    EventuallyPlaced
    EventuallyServed
\* A system whose workloads are all deleted or rejected really stops.
CHECK_DEADLOCK FALSE
