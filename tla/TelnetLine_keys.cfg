SPECIFICATION Spec
CONSTANTS
    Letters <- Keys
    Secrets = {"s"}
    Newlines <- AllNewlines
    MaxLength = 1
    HistoryLimit = 2
    BruteMax = 2
    MaxAhead = 1
INVARIANTS
    ScreenShowsLine
    LineAsTyped
    SecretsStayHidden
    HistoryInv
CHECK_DEADLOCK FALSE
