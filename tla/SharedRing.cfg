SPECIFICATION FairSpec
CONSTANTS
    Size = 12
    MaxLen = 3
    MaxMsgs = 6
    Backlog = 8
    LateAttach = {FALSE, TRUE}
    Consumers = {c1}
INVARIANTS
    SeenMeansComplete
    HandledIntact
PROPERTIES
    InOrder
    EventuallyHandled
