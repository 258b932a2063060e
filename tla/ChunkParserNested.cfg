SPECIFICATION Spec
CONSTANTS
    Streams = {4, 6}
    Control = 2
    Lengths = {3}
    InitChunk = 1
    NewChunks = {1, 2}
    MaxMsgs = 3
    MaxNest = 3
    ResizeIn = 2
INVARIANTS InStep
