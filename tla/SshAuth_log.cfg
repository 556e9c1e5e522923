SPECIFICATION Spec
CONSTANTS
    Conns = {c1, c2}
    IPs = {a, UNKNOWN}
    UNKNOWN = UNKNOWN
    Users = {u1, u2, u3}
    BruteMin = 2
    BruteMax = 3
    FewUsers = 2
    MaxAttempts = 2
    MaxFaults = 1
    MaxForgets = 1
INVARIANTS
    ShellsAreLogged
    SprayShows
    LeavesATrace
PROPERTIES
    ShellEarned
SYMMETRY Symmetry
CHECK_DEADLOCK FALSE
