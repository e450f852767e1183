\* Every answer of every checker, at the thresholds; stale copies, faults, edits.
SPECIFICATION Spec
CONSTANTS
    Objects = {o1}
    Nodes = {n1}
    Facts <- MCManyFacts
    Regions <- MCRegions
    east = east
    west = west
    None = None
    Threshold = 85
    Intervals <- MCIntervals
    DefaultInterval = 1
    MaxFailures = 2
    MaxAge = 1
    MaxChanges = 2
    MaxEdits = 1
    MaxFaults = 1
INVARIANTS
    TypeOK
    AlwaysScheduled
    CopiesCurrent
    StatusCoherent
    
PROPERTIES
    TransitionTimeKept
    ChecksRecorded
