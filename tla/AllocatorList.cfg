SPECIFICATION Spec
CONSTANT Overall = 4
INVARIANTS
    Chain
PROPERTY IsPool
