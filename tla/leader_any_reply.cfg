CONSTANTS
    Peer = {p1, p2}
    Thread = {t1, t2}
    NoCall = NoCall
    NoCopy = NoCopy
    TimelyCopy = TRUE
    MaxIndex = 3
    MaxTerm = 3
    MaxBatch = 2
    MaxLate = 1
    TrimThreshold = 1
SPECIFICATION Spec
SYMMETRY Symmetry
CHECK_DEADLOCK FALSE
INVARIANT TypeOK
INVARIANT NextAboveMatch
INVARIANT UnmatchedSlotsKept
INVARIANT OneDataCall
INVARIANT IndicesOrdered
INVARIANT MatchConfirmed
PROPERTY NothingTakenBack
PROPERTY CommitConfirmed
