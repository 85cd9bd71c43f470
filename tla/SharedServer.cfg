SPECIFICATION FairSpec
CONSTANTS
    Clients = {c1, c2}
    Strangers = {}
    Fds = {1, 2}
    Hashes = {h1, h2}
    MaxIndex = 2
    MaxPipe = 2
    OneBind = TRUE
    ChecksReplies = TRUE
INVARIANTS
    AckedMeansBound
    ClosedIsUnbound
    OneReply
    CleanServer
PROPERTY Answered
CHECK_DEADLOCK FALSE
