SPECIFICATION Spec
CONSTANTS
    Builds <- Chunks
    Follows <- Stack
    Gaps <- Near
    UnmixedTags = FALSE
INVARIANTS
    FlowIdentity
CHECK_DEADLOCK FALSE
