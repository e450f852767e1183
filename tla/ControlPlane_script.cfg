\* Failovers and failbacks, with hosts, links, ssh calls and downloads that fail.
SPECIFICATION FairSpec
CONSTANTS
    Primary = x509
    mac = mac
    pi = pi
    Standbys <- MCStandbys
    None = None
    MaxEvents = 3
    MaxFaults = 1
INVARIANTS
    TypeOK
    SplitOnlyWhenBlind
PROPERTIES
    LastServerKept
    EventuallyServed
    EventuallyRestored
