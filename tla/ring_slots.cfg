CONSTANTS
    RingSize = 7
    PageSlots = 2
    ExtentStart = {3, 5}
    Batches <- Commands
    MaxBatchSlots = 4
    MaxIndex = 7
    MaxElections = 2
    MaxCopied = 1
    Excluded = {"exactFill", "secondWrap", "uncheckedNoop", "extentSkip", "lapped", "copyOver"}
SPECIFICATION FairSpec
CHECK_DEADLOCK FALSE
 
INVARIANT EntryInOneExtent
INVARIANT AlwaysSomethingToSend
PROPERTY RoomReturns
