SPECIFICATION Spec
CONSTANTS
    Events = {1, 2, 3}
    Classes = {"command", "scanning"}
    ClassOf <- MCClassOf
    MaxTime = 3
    MaxDay = 2
    LocalDay <- MCDayEast
    FaultSites = {"insert", "upsert", "commit", "load"}
    MaxFaults = 2
    MaxCrashes = 1
    Upsert = Upsert
    Saver = Saver
INVARIANTS
    CleanMeansStored
    NoOvercount
    TalliedHaveRows
    RowsConsistent
    DaysComplete
PROPERTIES
    SummaryNeverShrinks
