SPECIFICATION Spec
CONSTANTS
    Streams = {4, 6}
    Control = 2
    Lengths = {1, 3}
    InitChunk = 2
    NewChunks = {1, 2}
    MaxMsgs = 4
    MaxNest = 3
    ResizeIn = 1
INVARIANTS TypeOK InOrderAndIntact AllAccounted InStep
