SPECIFICATION Spec
CONSTANTS
    Conns = {c1, c2}
    IPs = {a}
    IpOf <- OneAddress
    MaxSessions = 2
    MaxCommands = 1
    BruteMin = 1
    BruteMax = 2
    FaultSites <- AllSites
    MaxFaults = 1
    MaxForgets = 1
SYMMETRY Symmetry
INVARIANTS
    GaugeExact
PROPERTIES
    ShellEarned
    NotSentAway
CHECK_DEADLOCK FALSE
