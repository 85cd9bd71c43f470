SPECIFICATION Spec
CONSTANTS
    Size = 10
    MaxLen = 4
    MaxMsgs = 8
    Backlog = 20
    LateAttach = {FALSE}
    Consumers = {c1}
INVARIANT SeenMeansComplete
