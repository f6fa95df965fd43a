CONSTANTS
    Server = {s1, s2, s3}
    Contender = {s1, s2}
    NoVote = NoVote
    MaxTerm = 2
    MaxRestart = 0
    MaxAppend = 0
    LateCalls = 1
    QuietLoop = TRUE
SPECIFICATION Spec
SYMMETRY ServerSymmetry
CHECK_DEADLOCK FALSE
INVARIANT ElectionSafety
