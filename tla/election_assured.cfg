CONSTANTS
    Server = {s1, s2, s3}
    Contender = {s1, s2}
    NoVote = NoVote
    MaxTerm = 2
    MaxRestart = 0
    MaxAppend = 2
    LateCalls = 0
    QuietLoop = TRUE
SPECIFICATION Spec
CHECK_DEADLOCK FALSE
INVARIANT ElectionSafety
PROPERTY ImplementsLedger
