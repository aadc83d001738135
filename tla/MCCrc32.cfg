CONSTANTS
    Bytes <- MCBytes
    Pieces <- MCPieces
    MaxLen = 4

SPECIFICATION Spec

INVARIANT IncrementalEqualsWhole
INVARIANT WholeMatchesReference

CHECK_DEADLOCK FALSE
