CONSTANTS
    Sessions = {s1}
    Files <- MCFiles
    Bytes = {0, 1}
    ChunkSize = 2
    Tries = 3
    NoFile = NoFile
    NoByte = NoByte
    OldImage = OldImage
    NoSession = NoSession

SPECIFICATION Spec

INVARIANT AbortMeansNotFlashed
