SPECIFICATION Spec
CONSTANTS
    Builds <- Both
    Follows <- Stack
    Gaps <- Near
    UnmixedTags = FALSE
INVARIANTS
    FlowIdentityOfAddresses
    SameFlowSameHash
    LastIpKept
    InnermostKept
CHECK_DEADLOCK FALSE
