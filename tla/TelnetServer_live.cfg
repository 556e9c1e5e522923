SPECIFICATION FairSpec
CONSTANTS
    Conns = {c1, c2}
    IPs = {a}
    IpOf <- OneAddress
    MaxSessions = 1
    MaxCommands = 1
    BruteMin = 1
    BruteMax = 2
    FaultSites <- AllSites
    MaxFaults = 1
    MaxForgets = 0
INVARIANTS
    SessionInv
PROPERTIES
    SilentSessionsEnd
    StopEndsSessions
CHECK_DEADLOCK FALSE
