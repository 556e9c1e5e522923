SPECIFICATION FairSpec
CONSTANTS
    Events = {1, 2}
    Classes = {"command", "scanning"}
    ClassOf <- MCClassOf
    MaxTime = 3
    MaxDay = 1
    LocalDay <- MCDay
    FaultSites = {"upsert", "commit", "load"}
    MaxFaults = 2
    MaxCrashes = 0
    Upsert = Upsert
    Saver = Saver
PROPERTIES
    EventuallyStored
