SPECIFICATION Spec
CONSTANTS
    Builds <- IpOnly
    Follows <- Stack
    Gaps <- Near
    UnmixedTags = FALSE
INVARIANTS
    SideMeansLower
CHECK_DEADLOCK FALSE
