SPECIFICATION Spec
CONSTANTS
    NumLines = 4
    Kinds <- CommandsOnly
    NL = NL
    MaxCommands = 2
    MaxFaults = 0
INVARIANTS
    ExecutedWithinLimit
CHECK_DEADLOCK FALSE
