CONSTANTS
    Buffers <- MCBuffers
    ChunkSizes = {1, 2, 3, 5}
    Piece = 2

SPECIFICATION Spec

INVARIANT PlanMatchesReference
INVARIANT ProgressMonotone

\* The loop ends when offset reaches the image's length.
CHECK_DEADLOCK FALSE
