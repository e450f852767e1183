\* Two processes, environments edited while they start over, channels that fail.
SPECIFICATION FairSpec
CONSTANTS
    Processes = {m1, m2}
    None = None
    Envs <- MCEnvs
    Rules <- MCRules
    MaxEdits = 1
    MaxStops = 1
    MaxOutages = 2
    MaxActs = 2
INVARIANTS
    TypeOK
    OneActive
    NoticesAsListed
    
PROPERTIES
    FailoverNotHeldUp
    EventuallyActive
