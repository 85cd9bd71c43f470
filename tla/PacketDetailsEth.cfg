SPECIFICATION Spec
CONSTANTS
    Builds <- EthOnly
    Follows <- Stack
    Gaps <- Near
    UnmixedTags = TRUE
INVARIANTS
    FlowIdentity
CHECK_DEADLOCK FALSE
