SPECIFICATION FairSpec
CONSTANTS
    Calls = {c1, c2, c3}
    Saver = Saver
    Main = Main
    MaxFaults = 2
INVARIANTS
    ReturnedHaveRows
    TallyOutlivesMain
    QuietShutdownComplete
PROPERTIES
    ShutdownEnds
CHECK_DEADLOCK FALSE
