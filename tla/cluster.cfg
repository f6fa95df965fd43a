CONSTANTS
    s1 = s1
    s2 = s2
    s3 = s3
    Server <- Servers
    Contender <- TwoElections
    Mortal <- FirstLeader
    MaxTerm = 2
    MaxLog = 2
    MaxBatch = 2
    MaxCalls = 2
    MaxFault = 1
    Excluded = {"lostTail", "amnesia", "lateCopy", "lateReply"}
SPECIFICATION Spec
CHECK_DEADLOCK FALSE
INVARIANT LogsAgree
INVARIANT LeaderComplete
INVARIANT MatchHeld
PROPERTY ImplementsCommandLog
PROPERTY CatchesUp
