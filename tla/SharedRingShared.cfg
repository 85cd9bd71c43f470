SPECIFICATION Spec
CONSTANTS
    Size = 10
    MaxLen = 4
    MaxMsgs = 8
    Backlog = 9
    LateAttach = {FALSE}
    Consumers = {c1, c2}
INVARIANT HandledIntact
