SPECIFICATION FairAdmissionSpec
CONSTANTS
    Conns = {c1, c2, c3, c4}
    MaxSessions = 2
INVARIANTS
    PermitsInv
PROPERTIES
    PermitsComeBack
    CloseAllEnds
CHECK_DEADLOCK FALSE
