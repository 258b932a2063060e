SPECIFICATION Spec
CONSTANTS
    StreamCount = 2
    BufSize = 3
    MaxStreams = 3
    MaxTags = 6
    Faults = {"data", "write"}
INVARIANTS TypeOK NoLossOnCleanClose StoppedBeforeFreed AtMostOneLateTag
PROPERTIES ImplementsMediaPipe PushThreadEnds DisconnectCompletes
