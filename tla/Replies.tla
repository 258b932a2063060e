------------------------------ MODULE Replies -------------------------------
(***************************************************************************)
(* What RtmpConnection sends, byte by byte (rtmpconnection.cpp:171-239,    *)
(* 409-738), and the FLV tags of StreamSetupInfo (livereceiveractor.cpp:   *)
(* 47-89), as sequences of calls of WriteBuffer.  The body of a command's  *)
(* reply is serialised into a buffer of its own, whose first size is the   *)
(* client's chunk size; header and body then go, cut into chunks, into     *)
(* wb_, which lives as long as the connection.  One call is one step.      *)
(* The text of a string is the letter a, as often as it is long.           *)
(*                                                                         *)
(* What was sent is read back by what RtmpParser does with a message       *)
(* (rtmpparser.cpp:77-150, 285-355), and by the layout of an FLV tag.      *)
(*                                                                         *)
(* The names differ from those of ReadBuffer, so that one module of proofs *)
(* can extend both.                                                        *)
(***************************************************************************)
EXTENDS WriteBuffer, SequencesExt

CONSTANTS ChunkSizes,      \* chunkSize_, as the client may set it; or -1
          ChunkStreams,    \* the chunk streams a client may publish on
          StreamIds,       \* the stream ids onPublish() accepts
          NameLengths,     \* of the stream's name
          TagLengths,      \* of the client's media
          Timestamps,      \* of the client's media
          WbInit,          \* WRITE_BUFFER_INIT_SIZE
          StreamWbInit,    \* the size of StreamSetupInfo's wb_
          RandomSize,      \* RANDOM_DATA_SIZE
          MaxSent          \* bound: messages and tags written, before the last handler

\* What the basic header of a chunk can name.
AllChunkStreams == 2..65599

\* An array of five bytes has room for a number of four, once it is doubled.
ASSUME RepliesAssumption ==
    /\ ChunkSizes \subseteq Nat /\ NameLengths \subseteq Nat /\ TagLengths \subseteq Nat
    /\ Timestamps \subseteq Nat
    /\ ChunkStreams \subseteq AllChunkStreams
    /\ StreamIds \subseteq 0..255
    /\ WbInit \in Nat /\ WbInit > 4 /\ StreamWbInit \in Nat /\ StreamWbInit > 4
    /\ RandomSize \in Nat
    /\ MaxSent \in Nat

VARIABLES
    chunkSize,     \* chunkSize_, of the client's chunks
    outChunkSize,  \* outChunkSize_
    isConnected,   \* isConnected_
    queue,         \* what the handler that runs has still to write
    pc,            \* "idle"; "body" or "send", of a message; "tag"; and
                   \* "terminated", or "over": a byte outside an array written
    msg,           \* what is being written, or was written last
    calls,         \* the calls of WriteBuffer still to be made
    last,          \* the last call made, and the size of the array then
    wp,            \* the buffer of the body
    wb,            \* the connection's wb_
    tagWb,         \* the stream's wb_
    count,         \* messages and tags begun
    sent           \* the last one, as it left the buffer

config == <<chunkSize, outChunkSize, isConnected>>
buffers == <<wp, wb, tagWb>>
repliesVars == <<config, queue, pc, msg, calls, last, buffers, count, sent>>

-----------------------------------------------------------------------------
(* Calls of WriteBuffer, and what they do.                                 *)

B(v, bits) == [op |-> "writeB", v |-> v, bits |-> bits]
L(v, bits) == [op |-> "writeL", v |-> v, bits |-> bits]
Octet(v) == [op |-> "writeByte", v |-> v]
Octets(bytes) == [op |-> "writeBytes", v |-> bytes]

After(b, call) ==
    CASE call.op = "writeB" -> writeB(b, call.v, call.bits)
      [] call.op = "writeL" -> writeL(b, call.v, call.bits)
      [] call.op = "writeByte" -> writeByte(b, call.v)
      [] call.op = "writeBytes" -> writeBytes(b, call.v)

(* AMF0Serializer: the calls of a sequence of values.  0, 2, 3, 5, 6 and 9 *)
(* are the types number, string, object, null, undefined, end of object.   *)

Text(n) == [i \in 1..n |-> 97]
String(n) == <<B(2, 8), B(n, 16), Octets(Text(n))>>
Key(n) == <<B(n, 16), Octets(Text(n))>>
Number == <<B(0, 8), Octets([i \in 1..8 |-> 63])>>
Mark(type) == <<B(type, 8)>>
ObjectEnd == <<B(0, 16), B(9, 8)>>

Body(kind, n) ==
    CASE kind = "onBWDone" -> String(8) \o Number \o Mark(5)
      [] kind = "_result" -> String(7) \o Number \o Mark(5) \o Mark(6)
      [] kind = "createStream" -> String(7) \o Number \o Mark(5) \o Number
      [] kind = "onStatus" ->
           String(8) \o Number \o Mark(5)
           \o Mark(3) \o Key(5) \o String(6) \o Key(4) \o String(23)
           \o Key(11) \o String(n + 17) \o Key(8) \o String(8) \o ObjectEnd
      [] kind = "connect" ->
           String(7) \o Number
           \o Mark(3) \o Key(6) \o String(18) \o Key(12) \o Number
           \o Key(4) \o Number \o ObjectEnd
           \o Mark(3) \o Key(5) \o String(6) \o Key(4) \o String(29)
           \o Key(11) \o String(20) \o Key(14) \o Number \o ObjectEnd

-----------------------------------------------------------------------------
(* Messages and how they are cut.                                          *)

Message(csid, type, streamId, body) ==
    [csid |-> csid, type |-> type, streamId |-> streamId, body |-> body]

writeHeader(m) ==
    <<B(0, 2)>>
    \o (CASE m.csid < 64 -> <<B(m.csid, 6)>>
          [] m.csid \in 64..319 -> <<B(0, 6), B(m.csid - 64, 8)>>
          [] m.csid > 319 -> <<B(1, 6), L(m.csid - 64, 16)>>)
    \o <<B(0, 24), B(Len(m.body), 24), B(m.type, 8), L(m.streamId, 32)>>

\* What goes into each chunk of a body.
Pieces(body, size) ==
    [i \in 1..(Len(body) + size - 1) \div size |->
        SubSeq(body, (i - 1) * size + 1, IF i * size < Len(body) THEN i * size ELSE Len(body))]

\* Between two chunks goes the header 0xc3.
chunkedSentMsg(m) ==
    LET pieces == Pieces(m.body, outChunkSize)
    IN  writeHeader(m)
        \o [i \in 1..2 * Len(pieces) - 1 |->
               IF i % 2 = 1 THEN Octets(pieces[(i + 1) \div 2]) ELSE Octet(195)]

-----------------------------------------------------------------------------
\* What a handler writes: a handshake packet, a control message with its
\* body's value and the bytes behind it, the reply of a command, or a tag.
Packet(n) == [kind |-> "handshake", size |-> n]
Control(type, v, rest) == [kind |-> "control", type |-> type, v |-> v, rest |-> rest]
Reply(kind, csid, streamId, n) ==
    [kind |-> "reply", of |-> kind, csid |-> csid, streamId |-> streamId, n |-> n]
Tag(type, ts, n) == [kind |-> "tag", type |-> type, ts |-> ts, body |-> Text(n)]

RepliesInit ==
    /\ chunkSize = 128 /\ outChunkSize = 128 /\ isConnected = FALSE
    /\ queue = <<Packet(1), Packet(8 + RandomSize), Packet(8 + RandomSize)>>
    /\ pc = "idle" /\ msg = Packet(0) /\ calls = <<>>
    /\ last = [op |-> "none", size |-> 0]
    /\ wp = New(0) /\ wb = New(WbInit) /\ tagWb = New(StreamWbInit)
    /\ count = 0 /\ sent = <<>>

\* A message of the client is handled.
Handler == pc = "idle" /\ queue = <<>> /\ count < MaxSent

Answers(replies) ==
    /\ queue' = replies
    /\ UNCHANGED <<pc, msg, calls, last, buffers, count, sent>>

onReadConnect ==
    /\ Handler /\ ~isConnected
    /\ isConnected' = TRUE
    /\ Answers(<<Control(5, 2500000, <<>>), Control(6, 2500000, <<2>>), Control(1, 1024, <<>>),
                 Reply("connect", 3, 0, 0)>>)
    /\ UNCHANGED <<chunkSize, outChunkSize>>

onReadCmd ==
    /\ Handler
    /\ \/ \E kind \in {"onBWDone", "_result", "createStream"} :
             Answers(<<Reply(kind, 3, 0, 0)>>)
       \/ \E csid \in ChunkStreams, id \in StreamIds, n \in NameLengths :
             isConnected /\ Answers(<<Reply("onStatus", csid, id, n)>>)
       \/ Answers(<<Control(3, 256, <<>>)>>)
    /\ UNCHANGED config

onSetChunkSize(size) ==
    /\ Handler
    /\ chunkSize' = size
    /\ Answers(<<>>)
    /\ UNCHANGED <<outChunkSize, isConnected>>

onReceiveStream ==
    /\ Handler /\ isConnected
    /\ \E type \in {8, 9, 18}, ts \in Timestamps, n \in TagLengths : Answers(<<Tag(type, ts, n)>>)
    /\ UNCHANGED config

next == Head(queue)

\* The first call is about to be made; sentChunkSize() is told the new size.
Begin(to, m, todo) ==
    /\ pc = "idle" /\ queue # <<>>
    /\ queue' = Tail(queue)
    /\ pc' = to /\ msg' = m /\ calls' = todo
    /\ outChunkSize' = IF next.kind = "control" /\ next.type = 1 THEN next.v ELSE outChunkSize
    /\ count' = count + 1 /\ sent' = <<>>
    /\ UNCHANGED <<chunkSize, isConnected, last>>

\* handleC0(), handleC1().
beginHandshake ==
    /\ queue # <<>> /\ next.kind = "handshake"
    /\ Begin("send", next, IF next.size = 1 THEN <<Octet(3)>>
                           ELSE <<B(0, 32), B(0, 32), Octets(Text(RandomSize))>>)
    /\ wb' = reInit(wb)
    /\ UNCHANGED <<wp, tagWb>>

\* sentWndAckSize(), sentSetPeerBandwidth(), sentChunkSize(),
\* sendAcknowledgement().
beginControl ==
    /\ queue # <<>> /\ next.kind = "control"
    /\ LET body == [i \in 1..4 |-> (next.v \div 256 ^ (4 - i)) % 256] \o next.rest
           m == Message(2, next.type, 0, body)
       IN  Begin("send", m @@ next,
                 writeHeader(m) \o <<B(next.v, 32)>>
                     \o [i \in DOMAIN next.rest |-> B(next.rest[i], 8)])
    /\ wb' = reInit(wb)
    /\ UNCHANGED <<wp, tagWb>>

\* WriteBuffer(chunkSize_) refuses a negative size; nobody catches that.
beginReply ==
    /\ queue # <<>> /\ next.kind = "reply"
    /\ \/ /\ chunkSize >= 0
          /\ Begin("body", next, Body(next.of, next.n))
          /\ wp' = New(chunkSize)
       \/ /\ chunkSize < 0
          /\ Begin("terminated", next, <<>>)
          /\ UNCHANGED wp
    /\ UNCHANGED <<wb, tagWb>>

\* writeData() and writeMetaData() of StreamSetupInfo.
beginTag ==
    /\ queue # <<>> /\ next.kind = "tag"
    /\ LET n == Len(next.body)
       IN  Begin("tag", next,
                 <<B(0, 3), B(next.type, 5), B(n, 24), B(next.ts % 2 ^ 24, 24),
                   B(next.ts \div 2 ^ 24, 8), B(0, 24), Octets(next.body), B(n + 11, 32)>>)
    /\ tagWb' = reInit(tagWb)
    /\ UNCHANGED <<wp, wb>>

-----------------------------------------------------------------------------
\* The next call, on the buffer b; a byte outside the array ends the story.
Call(b, after) ==
    /\ calls # <<>>
    /\ after = After(b, Head(calls))
    /\ last' = [op |-> Head(calls).op, size |-> after.size]
    /\ calls' = Tail(calls)
    /\ pc' = IF after.over THEN "over" ELSE pc
    /\ UNCHANGED <<config, queue, msg, count, sent>>

callOnBody == pc = "body" /\ Call(wp, wp') /\ UNCHANGED <<wb, tagWb>>

callOnWb == pc = "send" /\ Call(wb, wb') /\ UNCHANGED <<wp, tagWb>>

callOnTag == pc = "tag" /\ Call(tagWb, tagWb') /\ UNCHANGED <<wp, wb>>

\* The body is serialised: chunkedSentMsg().
sendBody ==
    /\ pc = "body" /\ calls = <<>>
    /\ LET m == Message(msg.csid, 20, msg.streamId, getBuffer(wp))
       IN  msg' = m @@ msg /\ calls' = chunkedSentMsg(m)
    /\ wb' = reInit(wb)
    /\ pc' = "send"
    /\ UNCHANGED <<config, queue, last, wp, tagWb, count, sent>>

\* send(), or appendData() to the stream's rb_.
written(at, b) ==
    /\ pc = at /\ calls = <<>>
    /\ sent' = getBuffer(b)
    /\ pc' = "idle"
    /\ UNCHANGED <<config, queue, msg, calls, last, buffers, count>>

over ==
    /\ pc \in {"over", "terminated"} \/ (pc = "idle" /\ queue = <<>> /\ count >= MaxSent)
    /\ UNCHANGED repliesVars

RepliesNext ==
    \/ onReadConnect \/ onReadCmd \/ onReceiveStream
    \/ \E size \in ChunkSizes \union {-1} : onSetChunkSize(size)
    \/ beginHandshake \/ beginControl \/ beginReply \/ beginTag
    \/ callOnBody \/ callOnWb \/ callOnTag \/ sendBody
    \/ written("send", wb) \/ written("tag", tagWb)
    \/ over

RepliesSpec == RepliesInit /\ [][RepliesNext]_repliesVars

-----------------------------------------------------------------------------
(* Reading it back.                                                        *)

\* read<T>(BIG, n) and read<T>(LITTLE, n) at the i-th byte.
ReadBig(s, i, n) == FoldLeft(LAMBDA acc, k : 256 * acc + s[i + k - 1], 0, [k \in 1..n |-> k])
ReadLittle(s, i, n) == FoldLeft(LAMBDA acc, k : 256 * acc + s[i + n - k], 0, [k \in 1..n |-> k])

\* parseMsgHeaderOnly() of a type 0 header, then the chunks.
Parsed(s, size) ==
    LET form == s[1] % 64
        ext == IF form = 0 THEN 1 ELSE IF form = 1 THEN 2 ELSE 0
        csid == IF ext = 0 THEN form ELSE ReadLittle(s, 2, ext) + 64
        at == 2 + ext
        n == ReadBig(s, at + 3, 3)
        body == at + 11
    IN  [csid |-> csid, type |-> s[at + 6], streamId |-> ReadLittle(s, at + 7, 4),
         body |-> [j \in 1..n |-> s[body + (j - 1) + (j - 1) \div size]],
         chunkType |-> s[1] \div 64,
         headers |-> {s[body + i * (size + 1) - 1] : i \in 1..(n - 1) \div size},
         size |-> body - 1 + n + (n - 1) \div size]

ReadTag(s) ==
    LET n == ReadBig(s, 2, 3)
    IN  [kind |-> "tag", type |-> s[1], ts |-> ReadBig(s, 5, 3) + s[8] * 2 ^ 24,
         body |-> SubSeq(s, 12, 11 + n)]

-----------------------------------------------------------------------------
Buffer(b) ==
    /\ b.size \in Nat /\ b.left \in 1..8 /\ b.part \in 0..255
    /\ \A i \in DOMAIN b.data : b.data[i] \in 0..255
    /\ b.over \/ Len(b.data) <= b.size

RepliesOK ==
    /\ chunkSize \in ChunkSizes \union {-1, 128} /\ outChunkSize \in {128, 1024}
    /\ isConnected \in BOOLEAN
    /\ pc \in {"idle", "body", "send", "tag", "terminated", "over"}
    /\ \A b \in {wp, wb, tagWb} : Buffer(b)
    /\ count \in 0..MaxSent + 3

\* The bytes that calls on a buffer are meant to add.
Bytes(call) ==
    CASE call.op = "writeB" ->
           [i \in 1..call.bits \div 8 |-> (call.v \div 256 ^ (call.bits \div 8 - i)) % 256]
      [] call.op = "writeBytes" -> call.v
BytesOf(todo) == FlattenSeq([i \in DOMAIN todo |-> Bytes(todo[i])])

(* A peer that reads chunks of the announced size, such as this server's   *)
(* own parser, gets back the values that were serialised, however small    *)
(* the buffer of the body was at first and however often it grew; and so   *)
(* for a tag (writebuffer.cpp:28-95, rtmpconnection.cpp:595-738,           *)
(* livereceiveractor.cpp:54-88).  Only a message that is cut and whose     *)
(* chunk stream is not 3 cannot be put together: the headers of its other  *)
(* chunks are always 0xc3.                                                 *)
ReadBack ==
    pc = "idle" /\ sent # <<>> =>
      CASE msg.kind = "handshake" -> Len(sent) = msg.size
        [] msg.kind = "tag" ->
             /\ ReadTag(sent) = msg
             /\ ReadBig(sent, Len(sent) - 3, 4) = Len(msg.body) + 11
             /\ Len(sent) = Len(msg.body) + 15
        [] OTHER ->
             /\ msg.kind = "reply" => msg.body = BytesOf(Body(msg.of, msg.n))
             /\ msg.csid = 3 \/ Len(msg.body) <= outChunkSize =>
                  LET p == Parsed(sent, outChunkSize)
                  IN  /\ \A f \in {"csid", "type", "streamId", "body"} : p[f] = msg[f]
                      /\ p.chunkType = 0 /\ p.headers \subseteq {3 * 64 + msg.csid}
                      /\ p.size = Len(sent)

(* "8 + 1, we at most write bits" (writebuffer.cpp:65): doubling the       *)
(* array once makes room for what writeB() writes, unless its size is 0;   *)
(* only a block, which may end one byte behind the array, and the byte     *)
(* written behind such a block get outside.                                *)
BitsInBounds == pc = "over" => last.op \in {"writeBytes", "writeByte"} \/ last.size = 0
=============================================================================
