SPECIFICATION RepliesSpec
CONSTANTS
    ChunkSizes = {0, 1, 2, 7, 47, 82}
    ChunkStreams = {3, 8, 64, 319, 320, 65599}
    StreamIds = {1, 10}
    NameLengths = {1, 26, 900}
    TagLengths = {0, 1, 22, 300}
    Timestamps = {0, 255, 16777217}
    WbInit = 1024
    StreamWbInit = 32
    RandomSize = 1528
    MaxSent = 8
INVARIANTS RepliesOK ReadBack BitsInBounds
