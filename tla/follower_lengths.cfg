CONSTANTS
    MaxTerm = 3
    LeaderLog <- AgreeingLogs
    LeaderSlot <- EntrySlots
    Thread = {h1, h2}
    NoCopy = NoCopy
    TimelyCopy = TRUE
SPECIFICATION Spec
SYMMETRY ThreadSymmetry
CHECK_DEADLOCK FALSE
INVARIANT MetadataFindsEntries
