# A verification of tvie_rtmp

`tvie_rtmp` is an RTMP ingest server in C++. It accepts a publishing client,
shakes hands, parses the client's RTMP chunks into messages, answers its
commands, and hands its audio and video as FLV to FFmpeg, which remuxes it to a
file or another server. This directory holds TLA+ models of the parts that
carry that logic, TLC runs that check them on small instances, and TLAPS proofs.

## 1. The system

One process, one thread per connection, one more thread per published stream.

| Component | State | Operations | Talks to |
|---|---|---|---|
| `RtmpServer` (rtmpserver.cpp) | listening socket, list of client threads | `start` (accept, reap, spawn), `clientCycle` | creates an `RtmpConnection` and an actor in a new thread |
| `RtmpConnection` (rtmpconnection.cpp) | socket, `rb_`, handshake and exchange states, chunk sizes, acknowledgement counters, `isConnected_`, `streamIndex_` | `handleClient` (recv loop), `handleRead` (turns), handshake C0/C1/C2, `normalExchange` (dispatch), the `onRead...` handlers, `writeData`, `disconnect` | calls the parser, the read and write buffers, the actor |
| `ReadBuffer` (readbuffer.h/.cpp) | array, `bi_`, `cout_`, `capacity_`, snapshot | append, read, peek, skip, snapshot start/stop/clear, reset | used by connection, parser, AMF0 and the FLV queue |
| `RtmpParser`, chunks (rtmpparser.cpp 33-355, rtmpmsg.h) | stream contexts, `msgsBuffer_`, saved copies of both | `parseMsgHeader` (recursive), `saveContext`, `restoreContext` | reads the connection's buffer |
| `RtmpParser`, commands (rtmpparser.cpp 357-966) and `AMF0Parser` | a body's buffer | decoders for connect, publish, metadata... | throws to the connection |
| `WriteBuffer` and `AMF0Serializer` | array, cursor in bytes and bits | write big/little endian, bits, blocks, AMF0 | replies and FLV tags |
| `LiveReceiverActor` and `StreamSetupInfo` (livereceiveractor.cpp) | streams, metadata, output context, push thread, FLV queue with its lock | `onConnect`, `onCreateStream`, `onPublish`, `onMetaData`, `onReceiveStream`, `onDisconnect`, destructor; `pushThread`, `feedData` | the connection's thread writes, the push thread and FFmpeg read |

What is hard here:

* **Two threads on one stream.** The connection's thread appends tags and sets
  the end of file; the push thread polls the queue under the lock, from inside
  FFmpeg. At the end the first waits for the second, for 500 ms, and then frees
  everything the second uses.
* **Speculative parsing.** TCP cuts the stream anywhere. A turn that runs out
  of bytes throws `RtmpNoEnoughData`; the buffer's snapshot and the parser's
  saved contexts take it back, and it is repeated when more has arrived.
* **Interleaved chunks.** Messages of several chunk streams interleave, chunk by
  chunk, and the parser follows them by recursion, with the chunk size passed
  down by value.
* **Exceptions as control flow.** Five classes are caught in `handleRead()`;
  any other ends the whole process.
* **Counters and limits.** The acknowledgement counters wrap, buffers double,
  the table of streams has ten entries.
* **Formats with options.** Chunk headers leave out what an earlier header said,
  extended timestamps are recognised by a look ahead, AMF0 objects nest and may
  lack their end.
* **Descriptors that are reused.** A socket that one thread has closed is handed
  to the next client while the first connection is still being destroyed.

`PROJECT.json` lists each of these places as a hazard with its line, and the
properties that look at it or the reason why none does.

What makes each component correct:

| Component | Correct when |
|---|---|
| ReadBuffer | it is a FIFO with speculative reads, never overruns its array, grows only when it must |
| RtmpConnection | every message is dispatched once, in order, or the client is disconnected; while it waits for the client it has read every byte, or lacks the end of the message that it has begun to read; the actor hears of the end once; replies are cut as announced; acknowledgements keep the client going |
| RtmpParser, chunks | every message comes out whole, once, in the order of its chunk stream, with its own fields and the timestamp the deltas add up to; the parser is never out of step with the chunks |
| RtmpParser, commands, and AMF0Parser | a body is decoded to what was meant or refused; only what nobody can skip ends the process |
| LiveReceiverActor | FFmpeg reads exactly what was written; the file of a stream that ended is complete; both threads end; nothing is freed that is in use |
| RtmpServer | every client is served, finished threads are reaped, each connection closes its own socket and nobody else's |
| WriteBuffer, AMF0Serializer | what is written is read back as it was meant, however often the array grew |

## 2. The modules

| Module | Models | Kind |
|---|---|---|
| `ByteQueue` | what readers of the buffer rely on | abstract specification |
| `ReadBuffer` | readbuffer.h/.cpp | detailed; implements `ByteQueue` |
| `MediaPipe` | what the two threads of a stream promise each other | abstract specification |
| `LiveReceiver` | livereceiveractor.h/.cpp | detailed; implements `MediaPipe` |
| `Connection` | rtmpconnection.cpp: recv loop, handshake, dispatch, order of replies, exceptions | detailed |
| `ChunkParser` | rtmpparser.cpp 33-355, rtmpmsg.h 42-69: interleaving | detailed |
| `Timestamps` | rtmpparser.cpp 33-355, rtmpparser.h 12-31: headers, contexts, timestamps | detailed |
| `AckWindow` | rtmpconnection.cpp 67-79, 269-276 | detailed, arithmetic modulo 2^32 |
| `Commands` | rtmpparser.cpp 357-966, amf0.cpp 1-175 | detailed, against a grammar |
| `MCCommands` | | the bodies for `Commands` and what they mean |
| `WriteBuffer` | writebuffer.h/.cpp | operators on a record |
| `Replies` | rtmpconnection.cpp 171-239, 392-738, amf0.cpp 177-233, livereceiveractor.cpp 47-89 | detailed; uses `WriteBuffer` |
| `Server` | rtmpserver.cpp, main.cpp, the life of a connection's socket | detailed |
| `ProofFacts` | | lemmas the proofs share: cutting and joining sequences, induction, functions defined by recursion |
| `LiveReceiverProofs`, `ConnectionProofs`, `ChunkParserProofs`, `TimestampsProofs`, `CommandsProofs`, `ServerProofs` | | theorems about the module of that name; those about `AckWindow` are in `ConnectionProofs` |
| `BufferProofs` | | theorems about `ReadBuffer`, and about `Replies` with `WriteBuffer` |

The configurations instantiate the modules directly: every parameter is a
CONSTANT with a named assumption, and the bounds are parameters too. Only the
bodies of `Commands`, a parameter as well, are put together in a module of their
own, `MCCommands`. The operators whose comment says *Mutant of*
are plausible bugs; replacing the definition they name by them must break a
property, which shows that the property depends on that code.

### ReadBuffer

`data` is `buffer_[0..cout_-1]` (so `cout_` is its length), `bi` and `capacity`
are the members of that name, `ret` is what the last call returned or threw.
`skip`, `readByte`, `readBytes`, `readChars` and `read<T>` are one action,
`readBytes(n)`: they differ in what they do with the bytes. `peek<T>(mode)` and
`getUnReadBuffer` are `peek`; `peek<T>(mode, bytesCount)` is `peekCount`,
because its `throw e` throws a copy of the base class. `snapStop()` is enabled
only in a snapshot, which is where its one caller is, and `reset()` only outside
one. The refinement maps the unread bytes to the queue and the bytes between
`snapBi_` and `bi_` to what was taken speculatively.

### LiveReceiver

`owner` is where the connection's thread is, `push` where the push thread is.
Each stretch under a lock is a step, and so is a stretch that touches nothing
the other thread sees: `onReceiveStream` is three steps (`isPushThreadDone`;
header, metadata and start of the thread; the tag), the destructor is four. A
*unit* is an FLV header, the metadata or a tag; `rb` holds units, a call of
`feedData()` returns up to `BufSize` of them, and FFmpeg is modelled by how the
push thread uses it: it needs a header before `avformat_open_input()` succeeds,
probing reads ahead, a frame is a tag in order, the end of the input follows
what is still in its buffer. Undefined behaviour (a null or uninitialised
pointer, a write past the table, a freed object) may end the process (`alive`),
at once or, for memory that was overwritten or freed, at any later step
(`useCorruptMemory`).
`Faults` says what may go wrong around the actor: a slow join, a client that
stays silent for ten seconds, a muxer that fails. `lost` remembers the first
frame that could not be written, which ends the push thread.

### Connection

The thread is sequential, so one turn of the loop in `handleRead()` is one
step; what interferes is TCP, which delivers any number of units. C1 and C2
take `HandshakeSize` units and a message `MsgSize`, so that every cut happens
(inside C1, inside a message, between two). Between the chunks of a message
there may be whole others (`Group`): `MsgSize` units hold them all, as they are
parsed by one call. That call returns the outer message and leaves the nested
ones in `msgsBuffer_` (`msgs`), from where the following turns take them before
they look at `rb_` (`queue`, `Taken`). The loop in `handleRead()` looks at unread
bytes only, so the connection may return to `recv()` with messages in `msgs`,
which then wait for the next byte, whatever it is. And when the end of an outer
message is missing, the nested ones are put back with it although they are
whole. `HoldsBackOneKind` says that the two do not happen at once, and
`EveryMessageServed` that both end when the client goes on to send. Messages are
nested one deep, each of them whole, and come out in the order in which they
begin; that deeper nesting keeps the order of each chunk stream only, and when,
is `ChunkParser`'s.

A turn ends by `Completed`
(`snapClear`), `NotEnough` (`snapStop` and back to `recv`), `Thrown` (a caught
exception: `disconnect()`, the snapshot left open), or the end of the process
(an exception nobody catches, SIGPIPE). The kinds of message are the branches
of `normalExchange()`, those of the AMF0 commands, and one for each exception
class that decoding may raise. A body of less than four bytes (`short`,
`shortSize`) raises the exception that means "wait for more": for a
`SetChunkSize` already while the message around it is parsed, which is then put
back with it, for ever (`ShortBody`). The actor's answers are free: it may refuse any
call, which is an `RtmpInternalError`.

### ChunkParser

`stack` is the stack of calls of `parseMsgHeader()`, one per unfinished
message, each with its copy of the chunk size. `ctx` is `streamContexts_`,
`msgs` is `msgsBuffer_`; `savedCtx` and `savedMsgs` are their saved copies and
`taken` is what a rollback puts back. A header is one unit and so is each piece
of a body. The client is a correct one, which may interleave its messages at
every chunk boundary, on chunk streams up to 10: a message of several chunks on
a higher one is refused (rtmpparser.cpp:341), and `Streams` are those that are not. A piece carries the number of its message, so that
`InOrderAndIntact` can say of each message that comes out that it is the one of
its number, and that those that came out before it on its chunk stream are
those sent before it.

### Timestamps

The same parser, one message at a time, with what `ChunkParser` leaves out: the
four kinds of headers. The client sends a message chunk by chunk; each unit (a
header, an extended timestamp, the part of a body in one chunk) carries the
numbers of its message and of its chunk, which the parser does not look at. `ctx` is `streamContexts_` with the fields of the message
each one remembers. A type 3 header is followed by a look at the next four bytes
when the last header of its stream had an extended timestamp; `fmle` is a client
that repeats it there. `HeaderThere` says what a look ahead needs, so that a
header whose extension has not come yet is undone, with the delta it has added.

The code remembers no header of a command. A client that refers to one with a
type 1 header gets the previous message's stream id and timestamp; with a type 2
or 3 header it gets the previous message's length and type as well, or the
length -1, with which nothing is read right afterwards. `relied` marks the
histories where a client does so, and the properties end there. An extended
timestamp is added to 0xffffff, where the protocol replaces it.

A timestamp is 64 bits wide, but `timestampDelta` is an `int32_t`
(rtmpparser.h:15): `Narrow` is the conversion at rtmpparser.cpp:241 and 245,
modulo 2^32 as gcc does it, with 2^31 as the constant `Half`. A delta of 2^31 or
more, 0xffffff included, so moves the timestamps of its stream back.
`TimestampsRight` counts those deltas (`wraps`) and says that nothing else is
wrong.

### AckWindow

The two counters modulo `Modulus`, with the wrap-around code as written. The model is
small enough to check every reachable pair of counters.

### Commands

A body is a sequence of bytes, and one call of `AMF0Parser` is a step. `todo` is
what the decoder has still to call: decoders without a loop are a list of calls
(`Program`), the three loops over an object's properties are one action,
`property`, that puts the calls for the next key or value in front. That is also
how an object inside another is skipped, without recursion. A name or key is one
byte, and one key stands for all those with a value of the same type. The module
takes any set of bodies. Those of `MCCommands` are the encodings of commands with
every kind of value in every place, as they are, cut after any byte, or with any
byte changed.

What is expected of them is defined from the command instead of the bytes
(`Meant`), and for every body by a grammar that says where something that begins
at a byte may end (`Form`). Objects are the recursive part of it: `Ends` is the
function from the places in an object to the ends it may have. The grammar takes over what the code understands by
the end of an object: the byte 9 in the place of a type or of the high byte of a
key's length is one, so a key of 2304 bytes and more is misunderstood.

### WriteBuffer and Replies

`WriteBuffer` holds the operations as functions of a record: the array's size,
the bytes written, the byte being put together. `writeBits` is
`writeByte(s, bits)` as it is, masks included: a byte is the set of what its bits
are worth, `BitOr` and `BitAnd` are union and intersection. `Replies` has the handlers of the
connection and of the stream as sequences of calls, one call a step. A reply is
serialised into a buffer whose first size is the client's chunk size and then
cut into the connection's `wb_`; control messages and tags are written at once.
What was sent is read back with the parser's own reading of a header (`Parsed`)
and with the layout of an FLV tag.

Two things end a history. A byte outside an array (`over`) is written by
`writeBytes()`, whose bound lets a block end one byte too far, and by the first
field in an array of size 0, that is after a client has set the chunk size 0. A
negative chunk size makes the constructor throw an exception nobody catches
(`terminated`). And a reply that is cut continues with the header 0xc3, of chunk
stream 3, whatever its own stream is: `onStatus` goes out on the stream of the
client's publish command, and with a long stream name it cannot be put together
by the client. `ReadBack` says that this is the only case.

### Server

One thread accepts and keeps the list of threads, the others each own a
connection, of which the module keeps the socket. `table` is the kernel's table
of descriptors, which hands out the lowest free one. A connection's thread is
serving, or has disconnected inside `handleRead()` and goes on to a `recv(-1)`, or
is in its destructor. The list is only touched by the accepting thread, so
going through it is one step. Exceptions that leave a thread (`fatal`, a
failed `accept()`, a thread that cannot be created) end the process.

## 3. The runs

| Run | Shows | Bounds, and why they are enough |
|---|---|---|
| `ReadBuffer` | `TypeOK` (no overrun), `GrowsOnlyWhenNeeded`, `ImplementsByteQueue` | two byte values, so that a lost, repeated or swapped byte is seen; capacities 1, 2, 4 and blocks up to 3, so that one append may grow twice, compact without growing, and fill the array exactly |
| `LiveReceiver` | `NoLossOnCleanClose`, `StoppedBeforeFreed`, `AtMostOneLateTag`, `ImplementsMediaPipe`, `PushThreadEnds`, `DisconnectCompletes`, with starvation and a failing muxer | a table of two streams and three ids, so that it is overrun; six tags and a buffer of three units, so that the queue is read partly, exactly and beyond its end |
| `Connection` | `HandledOnceInOrder`, `HoldsBackOneKind`, `RecvOutsideSnap`, `DisconnectToldOnce`, `ChunkSizeAnnounced`, `HandshakeReplies`, `EveryMessageServed` | three messages, two units each, of twelve of the sixteen kinds: `metaData`, `data`, `unknown` and `amf3` are left out, each takes a branch that another kind takes (`media`, `setChunkSize`, `bad`); up to two of them nested in the first, of three kinds: one that is served and the two whose body is too short, so that a message with a nested one may also follow another, and one may follow a nested one; received in pieces of one unit and up to eight, more than the whole handshake; clients that wait in the handshake and clients that send ahead; `send()` may fail at every reply |
| `ChunkParser` | `InOrderAndIntact`, `AllAccounted`, `InStep` | two media chunk streams and the control stream; messages of one and three units in chunks of one or two; four messages, three of them begun before all are done, one chunk size change with at most one message in progress |
| `Timestamps` | `FieldsRight`, `TimestampsRight` | three messages on two streams, in one or two chunks, so that each kind of header follows each; two times and two deltas on either side of the limit, so that extended and plain ones follow each other; numbers of four bits for the 32 (`Half = 8`), so that an extended delta of 5, with the limit 3, is the first that does not fit |
| `AckWindow` | `AtMostHalfUnacked` | counters modulo 40, reads of up to 4, windows of 8 (two reads), 11 (odd) and 16 |
| `MCCommands` | `TypeOK`, `Decoded`, `CutIsRefused`, `Survives`, `AcceptedHasForm` | numbers of eight bytes; objects of up to two properties, of every value type, with objects inside them up to depth two; every cut; every byte changed to each of nine values, which are types, lengths and ends |
| `Replies` | `RepliesOK`, `ReadBack`, `BitsInBounds` | the sizes of the code for its buffers; chunk sizes from -1 to 82, so that the array doubles many times, once and never; stream names that make `onStatus` longer and shorter than a chunk; chunk streams in all three forms; timestamps on either side of 2^24 |
| `Server` | `OwnSocket`, `NoSocketLeaks`, `ThreadListBounded`, `EveryClientServed` | five clients, three descriptors besides the listening one and a backlog of two, so that numbers are reused and all run out; all faults |

Deadlock is checked in every run. Where the system comes to rest a stuttering
action `over` says so.

Three runs show where the code does not do what one of its comments says. TLC
finds the trace:

* `LiveReceiverJoin`: "wait for 500 milliseconds at most, otherwise we kill the
  thread" (livereceiveractor.cpp:268). `interrupt()` kills nothing: FFmpeg has no
  interruption point, so the destructor frees what the thread uses.
* `ConnectionSpin`: "after that, try handleC1" (rtmpconnection.cpp:205). When C0
  and C1 and at least one more byte come in one `recv()`, `handleC0()` overwrites
  the state that `handleC1()` has set by one that `handshake()` does not handle;
  the loop of `handleRead()` never ends.
* `ChunkParserNested`: "set chunk size impact chunksize immediately"
  (rtmpparser.cpp:194). With two messages in progress it impacts one of the two
  calls, and the other reads a piece of a body as a chunk header.

Two more things `Connection` contains without a run of their own:

* "no enough data can be caused by buffer limit" (rtmpconnection.cpp:121) - and by a
  short body of a `WindowAckSize` or `SetChunkSize`: the message is parsed again and
  again and the client is never served. The kinds `short` and `shortSize` are in
  the runs, and `Stuck` is where the properties leave them.
* `typeId = MST_WndAckSize` (rtmpconnection.cpp:340), an assignment, makes every other
  type a WindowAckSize, answered by `onBWDone`; the two branches below it are
  dead. The kind `other` is handled so.

One more trace is worth knowing although nothing in the repository states the
property: with messages A1, B1, A2, B2 begun in that order on chunk streams A
and B, each before the one before is complete, `msgsBuffer_` ends up as B2, A2,
B1, and A1 is returned first: B2 overtakes B1. `InOrderAndIntact` fails with
`MaxNest = 4`, `Lengths = {3}`, `InitChunk = 1`. The passing run keeps the client
to three messages begun before all are complete.

### Fairness

* `LiveReceiver`: weak fairness of each of the two threads, which the operating
  system schedules; `feedData()` polls, it does not wait for a signal. The
  client is not fair: it may stay silent for ever. `timed_join()` has a time
  limit, but `DisconnectCompletes` is checked without using it.
* `Connection`: weak fairness of the turns, of `recv()` when units are on the
  wire, and of `recv()` failing once the socket is closed. Nothing is assumed
  of the client, nor that a connection fails: that is why `EveryMessageServed`
  promises nothing of messages nested in the last one, which only the client's
  next byte gets out of `msgsBuffer_`.
* `Server`: weak fairness of the accepting thread, which never waits except in
  `accept()`. Clients and their threads need not ever do anything:
  `EveryClientServed` holds although all the others stay.
* The other modules have safety properties only.

## 4. The proofs

Each proof is for every value of the constants that the module's named
assumption allows; where a theorem assumes more, it says so. All invariants the
runs check are proved but three of `Commands` and `ReadBack` of `Replies`.

`ProofFacts` has what the library lacks. `CutMove` and its companions say what
cutting a sequence elsewhere and joining its parts give. `Induction` derives
induction over the numbers, for a set instead of an operator, from the least
number of a set (`LeastNumber`), and `Iterated` what a function defined by
recursion over the numbers is at each of them.

`BufferProofs`, for every set of bytes, initial capacity and block size (`BufferAssumption`: capacities are the initial one doubled):

* `TypeCorrect`: `Spec => []TypeOK`. `TypeOK` is inductive as it stands: the
  conjunct `inSnap => snapBi <= bi` is what makes `snapStop()` keep `bi` inside
  the stored bytes, and `Fits` is what makes `appendData()` keep them inside the
  array. The proof has one step per operation.
* `GrowthIsNeeded`: `Spec => GrowsOnlyWhenNeeded`, from the same invariant: the
  capacity that was too small is half of the new one.
* `BufferIsQueue`: `Spec => ImplementsByteQueue`. Under `TypeOK` every call maps
  to the call of `ByteQueue` of the same meaning or to a refusal. The data step
  is the algebra of cuts: appending behind a cut (`CutAppend`, which covers both
  ways of `appendData()`), rejoining what was taken (`CutJoin`, for `snapStop()`
  and for reads in a snapshot), a cut of a cut (`CutCut`, for reads).

Its second part, for every chunk size a client may set, length of names and
media, time stamp and chunk stream (`RepliesAssumption`: the connection's and
the stream's first arrays have at least five bytes, as in the code):

* `RepliesInvHolds`: `RepliesSpec => []RepliesInv`. What the operators of
  `WriteBuffer` keep is stated once, for any buffer and any call: what is written
  are bytes, the array never shrinks, what lies in it stays inside unless it is
  known to be outside (`Inside`), and a number of n bytes stays inside when n + 1
  more fit into the array as `realloc_for_write()` leaves it (`NumberIsWritten`,
  `BlockIsWritten`, `CallKeeps`).
* `BitsStayInside`: `RepliesSpec => []BitsInBounds`. The comment at
  writebuffer.cpp:65 is about one number; that doubling once is enough for all of
  them depends on what was written before. An array of five bytes has room for
  any number (`WideFits`), which covers `wb_` and the stream's. The array of a
  body may begin with one byte: there the order of the calls is needed. A body
  begins with a type of eight bits and a length of sixteen, so that the array has
  two bytes after the first call and three after the second, and from then on room
  for every number of sixteen bits (`BodyRoom`, `NarrowFits`). Only a block and
  the byte behind one, or an array of no byte, are left.
* `RepliesTypeCorrect`: `RepliesSpec => []RepliesOK`, from the same invariant.

`LiveReceiverProofs`, for every number of streams, tags and units per read, and
every set of faults:

* `TypeCorrect`: `Spec => []TypeOK`, one step per action.
* `StoppedWhenJoined`: `"join" \notin Faults => (Spec => []StoppedBeforeFreed)`.
  The property is not inductive: `onDisconnect()` of an actor without a stream
  waits for nobody. `StopInv` adds that a push thread exists only once a stream
  does. The hypothesis is needed: `LiveReceiverJoin` is the trace without it.
* `OneLateTag`: `Spec => []AtMostOneLateTag`, from `LateInv`: after a late tag the
  flag is set for good and the connection's thread is past its check.
* `ReceiverIsPipe`: `Spec => ImplementsMediaPipe`, from `PipeInv`:
  `written = fed \o rb`, the number of a tag follows from how much was written,
  and `endOfFile_` is set only by a thread that writes no more. One lemma per
  action that moves media; all the others leave `PipeInv` and `MediaPipe` alone.
* `FileIsComplete`: `"join" \notin Faults => (Spec => []NoLossOnCleanClose)`. The
  property speaks of a closed file only, so the invariant follows a tag all the
  way. `Numbered`: what was put into `rb_` is numbered by its place. `Parsed`:
  FFmpeg's buffer is the end of what it was fed, and how much of it is parsed
  follows from where the push thread is. `FileInv`: the file holds a header and
  the tags parsed before the one in `pkt_` or the one lost. With `PipeInv` (all
  that was put was fed, once the end is told) and `StopInv` (the trailer comes
  after the push thread's last tag, which is where the hypothesis is used) that
  is the property.

The window of acknowledgements (the last part of `ConnectionProofs`, which also
extends `AckWindow`), for every modulus, set of windows and read size that
`AckAssumption` allows (a window is at least two reads):

* `CountersInOrder`: `CountersSpec => []AckInv`, the inductive invariant: `ackBytes_` is
  behind `bytesReceived_`, the backlog is bounded once a window is set, and the
  byte that moving the wrapped counters loses is lost at most once between two
  acknowledgements, because `ackBytes_` is 0 from then on.
* `HalfUnacked`: `CountersSpec => []AtMostHalfUnacked`.
* `CountersCorrect`: `CountersSpec => []CountersOK`.

`ServerProofs`, for every number of clients and descriptors and every set of
faults:

* `SocketIsOwn`: `Spec => []OwnSocket`, and `NoSocketIsLost`:
  `Spec => []NoSocketLeaks`, both from `SockInv`. `Held` says that only a
  connection that is serving has a socket, its own; `Accepted` that the socket
  `start()` has belongs to a client without a thread. That needs `Fresh`: the backlog
  holds each client once, in the order they came.
* `ListIsBounded`: `Spec => []ThreadListBounded`. Cleaning keeps of the list what
  has not ended (`Unfinished`, a function defined by recursion on how much of the
  list was looked at). By induction what it keeps has no repetitions, if the list
  has none, and its members are threads that run; a sequence without repetitions
  is as long as the set of its members (`OnceIsCounted`). So right after a
  cleaning the list is no longer than the threads that run then, and `spawn` adds
  one. `ListInv` adds `most` to this, the most that ran at once.
* `TypeCorrect`: `Spec => []TypeOK`, from `SockInv` and `ListInv`.

`ConnectionProofs`, for every size of the handshake, of a message and of what
`recv()` returns, any number of messages of any kinds, clients that wait and
clients that do not, whether or not `send()` fails: every invariant of
`Connection`.

* `ReceivesOutsideSnap`, `EndToldOnce`: `Spec => []RecvOutsideSnap` and
  `Spec => []DisconnectToldOnce`, from `Life`: a turn only runs while the socket is
  open, and whatever leaves the snapshot open closes it. One lemma per way a
  turn may end, so that most handlers need one line.
* `MessagesInOrder`: `Spec => []HandledOnceInOrder`. `InSequence` says that what is
  in `rb_` and on the wire is what is left of the handshake, given `rcs_state_`,
  `hss_state_` and what the client has sent, followed by the messages after the
  last one parsed, which are those handled and those in `msgsBuffer_` (`Parsed`).
  A message and those nested in it have consecutive numbers, from `First` to
  before `Past`; `InFlight` says of a sequence of units that each shows such a
  group, that the units `MsgSize` apart show groups that follow each other, and
  where the first begins. Lemmas say what sending and consuming a part of it
  does. A turn that takes a group from `rb_` (`ReadSequence`) or a message from
  `msgsBuffer_` (`BufferedSequence`) goes on where the last one has left off. That `recv()` cuts the stream anywhere is the
  lemma `CutMove` of `ProofFacts`.
* `HeldBackRight`: `Spec => []HoldsBackOneKind`. A turn that runs out of units has
  looked into `msgsBuffer_` first and found it empty, and `restoreContext()` leaves
  it as it was; the loop ends otherwise only with nothing unread.
* `RepliesCutAsAnnounced`: `Spec => []ChunkSizeAnnounced`, from `Announced`:
  `outChunkSize_` is what the client was told last, as long as the socket is open;
  when `send()` fails between the four answers to a connect the two differ.
* `HandshakeRepliesFirst`: `Spec => []HandshakeReplies`, from `Greeted`: the number
  of replies follows from the state, and nothing is acknowledged before a
  message has set the window.
* `TypeCorrect`: `Spec => []TypeOK`; the range of `handled` and of `windowAckSize`
  needs `InSequence`.

`ChunkParserProofs`, for every set of streams, lengths and chunk sizes and any number
of messages:

* `TypeCorrect`: `Spec => []TypeOK`. It needs to know of the units what they are:
  the piece after a `SetChunkSize` header is a size the client may set
  (`Followed`), so that no call ever gets the chunk size 0.
* `NeverOutOfStep`: `ResizeIn <= 1 => (Spec => []InStep)`.
* `NoneIsLost`: `ResizeIn <= 1 => (Spec => []AllAccounted)`.
* `ComesOutInOrder`: `ResizeIn <= 1 /\ MaxNest <= 3 => (Spec => []InOrderAndIntact)`.

The three follow from one invariant, `Inv`. The parser lags behind the client,
by what is unread or on its way, and a turn that is undone takes it further
back, so the state of one cannot be related to the state of the other. The
invariant says that there is a *tape* (`IsTape`): the chunks the client has sent,
with what the client was before and after each. What this turn has read, what
is unread and what is on its way are together a piece of the tape, from a chunk
`f` on (`Reads`); the turn is at a chunk `c`; and calls, buffered messages, headers,
sizes and what was delivered belong to what the client was at `c` (`Match`). What
the turn has saved belongs to `f` (`Undone`), which is why undoing it is right.
`Match` has five parts. `CallsMatch`: the calls that are not finished are the
messages the client has begun and not finished, one per chunk stream, each with
what was sent of it. `Remembers`: the headers of the client's last messages.
`SizesMatch`: every call that is not finished has the client's chunk size, or the
`SetChunkSize` that will tell it is being returned to it. `AllMatch`: each message is
delivered, waits or is a call. `OrderMatch`: on each chunk stream what is
delivered comes first, then the outermost call, then what waits, then the other
calls. The client adds a chunk to the tape (`ClientHolds`), a chunk that is parsed
moves `c` (`BeginHolds`, `ContinueHolds`), a turn that starts moves `f`, and one that is
undone moves `c` back to `f` (`NotEnoughHolds`).

The hypotheses are about the client. With `ResizeIn = 2` the parser does get out
of step (`ChunkParserNested`), and with `MaxNest = 4` messages come out in another
order (section 3); `SizesMatch` and `OrderMatch` are where each is used.

`TimestampsProofs`, for every number of streams and messages, every length,
timestamp, limit and width of numbers that holds the limit in half of them, and
both kinds of clients:

* `TypeCorrect`: `Spec => []TypeOK`, also once a client has relied on a command's
  header.
* `TimestampsAreRight`: `Spec => []TimestampsRight`, and `FieldsAreRight`:
  `Spec => []FieldsRight`.

The invariant is `IInv`. `Chained`: each unit of this turn, unread or on its way
follows from the one before it by its message's and chunk's numbers, so the next
unit is known from the last. `SentInv`: each message's timestamp is its own or
that of the message before it on its chunk stream plus its delta. `InStep`: the
next unit is the one the parser expects, which is the hard part for a look
ahead, where a header, a piece or an extension may come; what it remembers of a
chunk stream is what the last media message read there says (`CtxOk`), with the
delta counted once in it, less 2^32 when it does not fit (`NarrowIs`); and what the turn has saved is the same for the
messages delivered before it (`Saved`). The last two end where `relied` begins.

`CommandsProofs`, for every set of bodies, of any bytes and any length, and every
size of numbers:

* `AcceptedForm`: `Spec => []AcceptedHasForm`.
* `TypeCorrect`: `Spec => []TypeOK`.

`AcceptedHasForm` speaks of the end only, when the calls that made it so are gone.
The invariant `Inv` reads the calls that are left as a grammar: `CallEnd` is where
one of them may end, `Path` where a sequence of them may, and every place where
`todo` may end, begun at the first unread byte, is an end of the command's form
(`Derives`). A step replaces the first call by calls that may end only where it
might have (`DerivesLess`, `Goes`), so this is kept whatever the object and however
deep it is in others; when no call is left, the only such place is where the
reader is. What an object's call may be replaced by is the equation of `Ends`.
That there is a function with this equation has to be proved (`EndsAre`): an
object inside another begins later, so what is known of the last n places
determines the n + 1 last, and going through the whole body n + 1 times changes
nothing any more.

Only model-checked: the liveness properties, which the prover cannot state
proofs about; `Decoded`, `CutIsRefused` and `Survives` of `MCCommands`, because what a
command is encoded to and means are recursive operators over data; and `ReadBack`
of `Replies`, because a number that is read back is a fold over its bytes.

## 5. What is not modelled

* Codec parameters (`setOutputCtx`), packet timestamps, FFmpeg itself, the C
  library, logging, the debugging dumps of `Utility`.
* The contents of strings: `boost::iequals` on keys, the `?` in a stream name, URLs.
* `read_packet()` (livereceiveractor.cpp:601-606) calls `feedData()` and has no
  return statement; the model takes `feedData()`'s result for what it returns, as
  a build in which the value stays in its register does.
* `writeBytes()` in the middle of a byte (a loop that never ends) and
  `writeBool()`: nobody calls them so.
* The bytes of a body that happen to look like an extended timestamp, and the
  last message of a connection that is shorter than the four bytes looked at.
* Messages of several chunks on a chunk stream above 10, which are refused
  (rtmpparser.cpp:341): the chunk streams of `ChunkParser` and `Timestamps` are below.
* Messages nested deeper than one together with dispatch: depth is
  `ChunkParser`'s, which dispatches nothing but what it returns.
* What the file of a first publish holds after a second one has replaced its
  output: `NoLossOnCleanClose` speaks of the last one.
* Interleaved messages together with timestamps: one is `ChunkParser`, the other
  `Timestamps`. They share nothing but the saved contexts, which both have.
* Unit tests and build files have no logic of their own.

## 6. The plan

1. Proofs: `ReadBack` for numbers of a fixed width, which need no induction.
2. `Session`: `Connection`'s dispatch composed with `LiveReceiver`'s owner side, so that
   the actor's refusals, the stream ids and the events come from the same
   state; property: no message of a well-behaved publisher is refused.
