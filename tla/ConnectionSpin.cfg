SPECIFICATION Spec
CONSTANTS
    HandshakeSize = 2
    MsgSize = 2
    RecvSize = 8
    Kinds = {"connect"}
    NestedKinds = {}
    MaxNested = 0
    MaxMsgs = 1
    Pipelining = {TRUE}
    SendFails = FALSE
PROPERTIES HandshakeEnds
