SPECIFICATION Spec
CONSTANTS
    Size = 8
    MaxLen = 3
    Byte = {a, b}
    Messages <- MCMessages
INVARIANTS
    Chain
    Intact
    RefusalMeansBacklog
PROPERTY IsQueue
