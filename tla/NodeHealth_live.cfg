\* Two objects share the worker and the node: each is eventually reported.
SPECIFICATION FairSpec
CONSTANTS
    Objects = {o1, o2}
    Nodes = {n1}
    Facts <- MCFewFacts
    Regions <- MCRegions
    east = east
    west = west
    None = None
    Threshold = 85
    Intervals <- MCShortIntervals
    DefaultInterval = 1
    MaxFailures = 1
    MaxAge = 1
    MaxChanges = 1
    MaxEdits = 0
    MaxFaults = 0
PROPERTIES
    EventuallyReported
