SPECIFICATION Spec
CONSTANTS
    Builds <- IsupOnly
    Follows <- Stack
    Gaps <- Near
    UnmixedTags = FALSE
INVARIANTS
    FlowIdentity
CHECK_DEADLOCK FALSE
