SPECIFICATION Spec
CONSTANTS
    Users <- TestUsers
    Words <- TestWords
    MaxWords = 2
    MaxMade = 2
INVARIANTS
    TreeClosed
    ResolvesLexically
    ViewsAgree
CHECK_DEADLOCK FALSE
