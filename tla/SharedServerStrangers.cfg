SPECIFICATION Spec
CONSTANTS
    Clients = {c1, s1}
    Strangers = {s1}
    Fds = {1, 2}
    Hashes = {h1}
    MaxIndex = 2
    MaxPipe = 2
    OneBind = TRUE
    ChecksReplies = TRUE
INVARIANTS
    FramingKept
    SelectCovers
PROPERTY StrangersShutOut
CHECK_DEADLOCK FALSE
