SPECIFICATION FairSpec
CONSTANTS
    NumLines = 4
    Kinds <- AllKinds
    NL = NL
    MaxCommands = 2
    MaxFaults = 1
INVARIANTS
    LinesInv
    PatientWithinLimit
PROPERTIES
    WholeLinesHandled
    NothingAfterGoodbye
CHECK_DEADLOCK FALSE
