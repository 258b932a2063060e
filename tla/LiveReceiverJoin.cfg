SPECIFICATION Spec
CONSTANTS
    StreamCount = 2
    BufSize = 2
    MaxStreams = 1
    MaxTags = 1
    Faults = {"join"}
INVARIANTS StoppedBeforeFreed
