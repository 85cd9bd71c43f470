SPECIFICATION Spec
CONSTANTS
    Builds <- TagsOnly
    Follows <- Stack
    Gaps <- Near
    UnmixedTags = TRUE
INVARIANTS
    FlowIdentity
CHECK_DEADLOCK FALSE
