SPECIFICATION Spec
CONSTANTS
    Clients = {c1, c2}
    Strangers = {}
    Fds = {1, 2}
    Hashes = {h1, h2}
    MaxIndex = 2
    MaxPipe = 2
    OneBind = TRUE
    ChecksReplies = FALSE
INVARIANT OneReply
CHECK_DEADLOCK FALSE
