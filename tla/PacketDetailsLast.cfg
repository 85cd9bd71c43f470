SPECIFICATION Spec
CONSTANTS
    Builds <- Ss7Wide
    Follows <- Stack
    Gaps <- Near
    UnmixedTags = FALSE
INVARIANTS
    LastLayersExist
CHECK_DEADLOCK FALSE
