SPECIFICATION Spec
CONSTANTS
    HandshakeSize = 2
    MsgSize = 2
    RecvSize = 8
    Kinds = {"connect", "createStream", "publish", "cmd", "media", "setChunkSize", "wndAckSize",
             "short", "shortSize", "other", "bad", "fatal"}
    NestedKinds = {"media", "short", "shortSize"}
    MaxNested = 2
    MaxMsgs = 3
    Pipelining = {FALSE, TRUE}
    SendFails = TRUE
INVARIANTS TypeOK HandledOnceInOrder HoldsBackOneKind RecvOutsideSnap DisconnectToldOnce ChunkSizeAnnounced HandshakeReplies
PROPERTIES EveryMessageServed
