CONSTANTS
    Client = {c1}
    Batch <- TwoCommands
    Requests <- OneBatch
    RingSize = 3
    MaxLog = 5
    MaxReigns = 2
    MaxOther = 1
    PollsInTime = TRUE
SPECIFICATION Spec
CHECK_DEADLOCK FALSE
INVARIANT CountedCommitted
INVARIANT NothingTwice
INVARIANT AppliedOnce
INVARIANT ResultsOnce
PROPERTY ClientAnswered
PROPERTY StopEnds
