SPECIFICATION Spec
CONSTANTS
    Builds <- ChunksFar
    Follows <- Stack
    Gaps <- FarChunks
    UnmixedTags = FALSE
INVARIANTS
    OffsetsKept
CHECK_DEADLOCK FALSE
