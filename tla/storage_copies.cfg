CONSTANTS
    v1 = v1
    v2 = v2
    Call = {k1, k2}
    Volume = {v1, v2}
    RingSize = 7
    PageSlots = 2
    ExtentStart = {6}
    MaxChunk = 3
    MaxSize = 3
    Workers = 2
    Batches <- Sent
    Reused = {1}
    MaxVersion = 1
    MaxBuffers = 3
    Excluded = {"ringEnd", "lateCopy"}
SPECIFICATION Spec
CHECK_DEADLOCK FALSE
SYMMETRY ThreadSymmetry
INVARIANT BuffersSound
INVARIANT ChunksTile
INVARIANT PromiseKept
