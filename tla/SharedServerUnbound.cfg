SPECIFICATION Spec
CONSTANTS
    Clients = {c1, c2}
    Strangers = {}
    Fds = {1, 2}
    Hashes = {h1, h2}
    MaxIndex = 2
    MaxPipe = 2
    OneBind = FALSE
    ChecksReplies = TRUE
INVARIANT ClosedIsUnbound
CHECK_DEADLOCK FALSE
