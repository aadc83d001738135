CONSTANTS
    Sessions = {s1, s2}
    Files <- MCFilesTwo
    Bytes = {0, 1}
    ChunkSize = 2
    Tries = 2
    NoFile = NoFile
    NoByte = NoByte
    OldImage = OldImage
    NoSession = NoSession

SPECIFICATION Spec

PROPERTY ProtocolErrorNotRetried
