CONSTANTS
    Server = {s1, s2, s3}
    Contender = {s1, s2}
    NoVote = NoVote
    MaxTerm = 2
    MaxRestart = 1
    MaxAppend = 0
    LateCalls = 0
    QuietLoop = FALSE
SPECIFICATION Spec
SYMMETRY ServerSymmetry
CHECK_DEADLOCK FALSE
INVARIANT VoteOnce
INVARIANT VoteDurable
INVARIANT NoForgedVotes
PROPERTY TermsAdvance
