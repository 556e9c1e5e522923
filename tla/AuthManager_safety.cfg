SPECIFICATION Spec
CONSTANTS
    IPs = {a}
    Users = {u}
    NoUser = NoUser
    BruteMin = 1
    BruteMax = 2
    Retention = 1
    CleanupPeriod = 2
    ScanWindow = 2
    KeepWindow = 3
    ScanLogGap = 2
    StartTime = 3
    MaxTime = 8
    MaxTries = 3
    MaxChecks = 3
    MaxScans = 2
INVARIANTS
    RecordsAgree
    PersistentIsGranted
    ScanWindowExact
PROPERTIES
    ScanGapKept
    IsGrantBook
CHECK_DEADLOCK FALSE
