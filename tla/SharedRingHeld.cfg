SPECIFICATION Spec
CONSTANTS
    Size = 13
    MaxLen = 4
    MaxMsgs = 8
    Backlog = 12
    LateAttach = {FALSE}
    Consumers = {c1}
INVARIANT HandledIntact
