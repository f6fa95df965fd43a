CONSTANTS
    Thread = {t1, t2}
    FirstThread = t1
    Connection = {c1, c2}
    None = None
    LateReplies = FALSE
SPECIFICATION Spec
INVARIANT MessagesArrive
PROPERTY Recovers
PROPERTY CallMuReleased
