----------------------------- MODULE Timestamps -----------------------------
(***************************************************************************)
(* What RtmpParser makes of the four kinds of chunk headers                *)
(* (rtmpparser.cpp:77-150, 219-283): fields that a header leaves out come  *)
(* from the last header remembered for its chunk stream, timestamps are    *)
(* sums of deltas, and a timestamp from Limit on goes into a field of its  *)
(* own.  A turn whose bytes run out is undone, sums included.              *)
(*                                                                         *)
(* The client is a correct one.  Its messages are not interleaved: that is *)
(* ChunkParser's subject.  A unit is a header, an extended timestamp (4    *)
(* bytes) or the part of a body that one chunk holds; a body's bytes never *)
(* look like an extended timestamp.  A unit carries the numbers of its     *)
(* message, id, and of its chunk, k: in a piece of a body they stand for   *)
(* its bytes; in the other units they are history, which nobody reads.     *)
(***************************************************************************)
EXTENDS Integers, Sequences

CONSTANTS Streams,    \* chunk streams
          Lengths,    \* of messages, in chunks
          Times,      \* timestamps of type 0 headers
          Deltas,     \* timestamps of type 1 and 2 headers
          Limit,      \* 0x00ffffff
          Half,       \* 2^31: half of what 32 bits hold
          InType3,    \* whether clients extend type 3 headers, as FMLE does
          MaxMsgs     \* bound: messages the client sends

ASSUME TimestampsAssumption ==
    /\ Lengths \subseteq Nat \ {0}
    /\ Half \in Nat /\ Limit \in 1..Half
    /\ Times \subseteq 0..2 * Half - 1 /\ Deltas \subseteq 0..2 * Half - 1
    /\ InType3 \in (SUBSET BOOLEAN) \ {{}}
    /\ MaxMsgs \in Nat

VARIABLES
    \* the client and the network
    fmle,        \* this client repeats the extended timestamp in type 3 headers
    last,        \* the last message on each chunk stream, a number; 0: none
    left,        \* how many chunks of its last message it has yet to send
    wire,        \* units on their way
    \* handleRead() and the parser
    pc,          \* "recv", "turn", "header", "body", "more" or "lost"
    rb,          \* the unread units
    taken,       \* what this turn has read
    ctx,         \* streamContexts_
    savedCtx,    \* savedStreamContexts_
    mh,          \* the message being parsed
    \* history
    sent,        \* the messages sent
    delivered,   \* the messages returned
    relied       \* the client has relied on the header of a command

client == <<fmle, last, left, sent, relied>>
vars == <<client, wire, pc, rb, taken, ctx, savedCtx, mh, delivered>>

None == -1
Drop(s, n) == SubSeq(s, n + 1, Len(s))

\* A stream of which nothing was remembered; the fields of a new StreamContext.
NoContext == [set |-> FALSE, timestamp |-> -1, delta |-> -1, chunkType |-> 0, time |-> -1,
              ext |-> None, kind |-> "none", len |-> -1, streamId |-> -1]
NoMessage == [cs |-> 0, kind |-> "none", len |-> 0, timestamp |-> -1, streamId |-> -1,
              body |-> <<>>]

Init ==
    /\ fmle \in InType3
    /\ last = [cs \in Streams |-> 0] /\ left = 0
    /\ wire = <<>> /\ pc = "recv" /\ rb = <<>> /\ taken = <<>>
    /\ ctx = [cs \in Streams |-> NoContext] /\ savedCtx = ctx
    /\ mh = NoMessage
    /\ sent = <<>> /\ delivered = <<>> /\ relied = FALSE

-----------------------------------------------------------------------------
(* The client.                                                             *)

IsExtended(time) == time >= Limit
Extensions(time) == IF IsExtended(time) THEN 1 ELSE 0

\* A delta that does not fit into an int32_t once Limit was added to it.
Wraps(time) == IF IsExtended(time) /\ Limit + time >= Half THEN 1 ELSE 0

\* A message with a type 0 header, and one whose header relies on l, the last
\* one on the chunk stream.  exts counts the extended timestamps that ts is
\* made of and wraps the deltas that do not fit; clean means that it is made of
\* media messages only.
Absolute(cs, kind, len, time) ==
    [cs |-> cs, type |-> 0, kind |-> kind, len |-> len, ts |-> time, delta |-> time,
     exts |-> Extensions(time), wraps |-> 0, clean |-> kind = "media"]
Relative(l, type, kind, len, time) ==
    [cs |-> l.cs, type |-> type, kind |-> kind, len |-> len, ts |-> l.ts + time,
     delta |-> time, exts |-> l.exts + Extensions(time), wraps |-> l.wraps + Wraps(time),
     clean |-> l.clean /\ kind = "media"]

\* Chunk k of message m: a type 3 header when it is not the first.
Header(m, id, k) ==
    LET type == IF k = 1 THEN m.type ELSE 3
    IN  [u |-> "header", id |-> id, k |-> k, cs |-> m.cs, chunkType |-> type,
         time |-> IF type = 3 THEN 0 ELSE IF IsExtended(m.delta) THEN Limit ELSE m.delta,
         kind |-> IF type < 2 THEN m.kind ELSE "none",
         len |-> IF type < 2 THEN m.len ELSE 0,
         streamId |-> IF type = 0 THEN 1 ELSE -1]
Extended(m, id, k) == [u |-> "ext", id |-> id, k |-> k, v |-> m.delta]
Piece(id, k) == [u |-> "piece", id |-> id, k |-> k]

\* Whether its header has an extension.
Extends(m, k) == IsExtended(m.delta) /\ (fmle \/ (k = 1 /\ m.type # 3))

Chunk(m, id, k) ==
    IF Extends(m, k) THEN <<Header(m, id, k), Extended(m, id, k), Piece(id, k)>>
    ELSE <<Header(m, id, k), Piece(id, k)>>

\* A header or an extension of m is read with the context of a command.
Relies(m) ==
    m.kind = "cmd" /\ (m.type \in {2, 3} \/ (fmle /\ m.len > 1 /\ IsExtended(m.delta)))

\* Once it has relied on a command's header nothing is said of what follows.
MaySend == pc = "recv" /\ ~relied

Begin(m) ==
    /\ wire' = wire \o Chunk(m, Len(sent) + 1, 1)
    /\ left' = m.len - 1
    /\ last' = [last EXCEPT ![m.cs] = Len(sent) + 1]
    /\ sent' = Append(sent, m)
    /\ relied' = Relies(m)
    /\ UNCHANGED <<fmle, pc, rb, taken, ctx, savedCtx, mh, delivered>>

\* The stream id is 1; a type 2 or 3 header repeats kind and length, a type 3
\* header the delta.
ClientBegin(cs) ==
    /\ MaySend /\ left = 0 /\ Len(sent) < MaxMsgs
    /\ \/ \E kind \in {"media", "cmd"}, len \in Lengths, time \in Times :
             Begin(Absolute(cs, kind, len, time))
       \/ /\ last[cs] # 0
          /\ LET l == sent[last[cs]]
             IN  \/ \E kind \in {"media", "cmd"}, len \in Lengths, time \in Deltas :
                       Begin(Relative(l, 1, kind, len, time))
                 \/ \E time \in Deltas : Begin(Relative(l, 2, l.kind, l.len, time))
                 \/ Begin(Relative(l, 3, l.kind, l.len, l.delta))

ClientContinue ==
    /\ MaySend /\ left > 0
    /\ LET m == sent[Len(sent)]
       IN  wire' = wire \o Chunk(m, Len(sent), m.len - left + 1)
    /\ left' = left - 1
    /\ UNCHANGED <<fmle, last, sent, relied, pc, rb, taken, ctx, savedCtx, mh, delivered>>

-----------------------------------------------------------------------------
(* handleRead().                                                           *)

recv(n) ==
    /\ pc = "recv"
    /\ n <= Len(wire)
    /\ wire' = Drop(wire, n)
    /\ rb' = rb \o SubSeq(wire, 1, n)
    /\ pc' = "turn"
    /\ UNCHANGED <<client, taken, ctx, savedCtx, mh, delivered>>

startTurn ==
    /\ pc = "turn"
    /\ pc' = IF rb = <<>> THEN "recv" ELSE "header"
    /\ savedCtx' = IF rb = <<>> THEN savedCtx ELSE ctx
    /\ taken' = <<>> /\ mh' = NoMessage
    /\ UNCHANGED <<client, wire, rb, ctx, delivered>>

\* Mutant of restoreContext: the sums of the turn are kept.
keepContext == ctx' = ctx

restoreContext == ctx' = savedCtx

NotEnough ==
    /\ pc' = "recv"
    /\ rb' = taken \o rb /\ taken' = <<>>
    /\ mh' = NoMessage
    /\ restoreContext
    /\ UNCHANGED <<client, wire, savedCtx, delivered>>

\* A piece of a body where a header should be, or a length that is none.
Lost ==
    /\ pc' = "lost"
    /\ UNCHANGED <<client, wire, rb, taken, ctx, savedCtx, mh, delivered>>

-----------------------------------------------------------------------------
(* parseMsgHeaderOnly(): the header in front of rb.                        *)

hd == Head(rb)
IsHeader == hd.u = "header"

\* A type 3 header is looked behind when the last one had an extension.
Peeks(h) == h.chunkType = 3 /\ ctx[h.cs].ext # None

\* Mutant of SeenAgain: a type 3 header is never extended ("MUST NOT").
NeverAgain(h) == FALSE

\* "BUT FMLE sends this!!"
SeenAgain(h) == rb[2].u = "ext" /\ rb[2].v = ctx[h.cs].ext

HasExt(h) == IF Peeks(h) THEN SeenAgain(h) ELSE h.chunkType # 3 /\ h.time = Limit

HeaderThere(h) == Len(rb) >= 2 \/ (~Peeks(h) /\ ~HasExt(h))
HeaderSize(h) == IF HasExt(h) THEN 2 ELSE 1

\* Mutant of Ext: 0 for a header without one.
ExtZero(h) == IF HasExt(h) THEN rb[2].v ELSE 0

Ext(h) == IF HasExt(h) THEN rb[2].v ELSE None

\* The extension is added to the limit, where the protocol replaces it.
Time(h) == IF HasExt(h) THEN Limit + rb[2].v ELSE IF h.chunkType = 3 THEN -1 ELSE h.time

Read(n) == rb' = Drop(rb, n) /\ taken' = taken \o SubSeq(rb, 1, n)

-----------------------------------------------------------------------------
(* onMsgHeaderParsed().                                                    *)

Remembered(h) == h.kind = "media" \/ h.chunkType \in {2, 3}

\* A stream's first header is its own predecessor.
Prev(h) ==
    IF ctx[h.cs].set THEN ctx[h.cs]
    ELSE [set |-> FALSE, timestamp |-> -1, delta |-> -1, chunkType |-> h.chunkType,
          time |-> Time(h), ext |-> Ext(h), kind |-> h.kind,
          len |-> IF h.chunkType < 2 THEN h.len ELSE -1, streamId |-> -1]

\* Mutant of Narrow: the delta is as wide as the timestamps.
Wide(x) == x

\* An int64_t in an int32_t, as gcc converts it: timestampDelta is one, the
\* timestamps are not.
Narrow(x) == ((x + Half) % (2 * Half)) - Half

\* "3 after 0, then timedelta should be type 0's timestamp"
TimestampDelta(h, prev) ==
    IF prev.chunkType = 0 /\ h.chunkType = 3 THEN Narrow(prev.time)
    ELSE IF h.chunkType \in {1, 2} THEN Narrow(Time(h))
    ELSE prev.delta

OwnKind(h) == h.chunkType < 2

\* The context that h leaves behind.
Context(h) ==
    LET prev == Prev(h)
        delta == TimestampDelta(h, prev)
    IN  [set |-> TRUE,
         delta |-> delta,
         timestamp |-> IF h.chunkType = 0 THEN Time(h) ELSE prev.timestamp + delta,
         chunkType |-> h.chunkType,
         time |-> IF h.chunkType = 0 THEN Time(h) ELSE prev.timestamp + delta,
         ext |-> IF h.chunkType = 3 /\ ~HasExt(h) THEN prev.ext ELSE Ext(h),
         kind |-> IF OwnKind(h) THEN h.kind ELSE prev.kind,
         len |-> IF OwnKind(h) THEN h.len ELSE prev.len,
         streamId |-> IF h.chunkType = 0 THEN h.streamId ELSE prev.streamId]

\* A header that is not remembered, which is of type 0 or 1.
Own(h) == [timestamp |-> Time(h), kind |-> h.kind, len |-> h.len, streamId |-> h.streamId]

Begun(h, c) ==
    [cs |-> h.cs, kind |-> c.kind, len |-> c.len, timestamp |-> c.timestamp,
     streamId |-> c.streamId, body |-> <<>>]

readHeader ==
    /\ pc = "header" /\ rb # <<>> /\ IsHeader
    /\ IF ~HeaderThere(hd)
          THEN NotEnough
          ELSE /\ Read(HeaderSize(hd))
               /\ IF Remembered(hd)
                     THEN /\ ctx' = [ctx EXCEPT ![hd.cs] = Context(hd)]
                          /\ mh' = Begun(hd, Context(hd))
                     ELSE /\ mh' = Begun(hd, Own(hd))
                          /\ UNCHANGED ctx
               /\ pc' = IF mh'.len = -1 THEN "lost" ELSE "body"
               /\ UNCHANGED <<client, wire, savedCtx, delivered>>

\* A piece of the body; then the message is whole, or its next chunk follows.
TakePiece ==
    /\ Read(1)
    /\ mh' = [mh EXCEPT !.body = Append(@, hd)]
    /\ IF Len(mh'.body) = mh.len
          THEN pc' = "turn" /\ delivered' = Append(delivered, mh')
          ELSE pc' = "more" /\ UNCHANGED delivered
    /\ UNCHANGED <<client, wire, ctx, savedCtx>>

readBody == pc = "body" /\ rb # <<>> /\ TakePiece

\* parseMsgHeaderPartial(): of this header only the chunk stream is used.  For
\* a message inside another, see ChunkParser.
readMore ==
    /\ pc = "more" /\ rb # <<>> /\ IsHeader
    /\ IF ~HeaderThere(hd)
          THEN NotEnough
          ELSE IF hd.chunkType = 3 /\ hd.cs = mh.cs
          THEN /\ Read(HeaderSize(hd))
               /\ pc' = "body"
               /\ UNCHANGED <<client, wire, ctx, savedCtx, mh, delivered>>
          ELSE Lost

runsOut == pc \in {"header", "body", "more"} /\ rb = <<>> /\ NotEnough

noHeader == pc \in {"header", "more"} /\ rb # <<>> /\ ~IsHeader /\ Lost

over ==
    /\ pc = "lost" \/ (pc = "recv" /\ wire = <<>> /\ (relied \/ (Len(sent) = MaxMsgs /\ left = 0)))
    /\ UNCHANGED vars

Next ==
    \/ \E cs \in Streams : ClientBegin(cs)
    \/ ClientContinue
    \/ \E n \in 1..Len(wire) : recv(n)
    \/ startTurn \/ readHeader \/ readBody \/ readMore \/ runsOut \/ noHeader
    \/ over

Spec == Init /\ [][Next]_vars

-----------------------------------------------------------------------------
TypeOK ==
    /\ fmle \in BOOLEAN /\ relied \in BOOLEAN
    /\ pc \in {"recv", "turn", "header", "body", "more", "lost"}
    /\ \A cs \in Streams : LET c == ctx[cs] IN
          /\ c.set \in BOOLEAN /\ c.chunkType \in 0..3 /\ c.streamId \in {-1, 1}
          /\ c.timestamp \in Int /\ c.delta \in (-Half)..Half - 1 /\ c.ext \in Nat \union {None}
          /\ c.ext = None \/ c.ext >= Limit
    /\ pc = "recv" => taken = <<>> /\ mh = NoMessage

(* Whatever the kinds of headers a message's fields are spread over, and   *)
(* whether or not the client repeats extended timestamps, the parser stays *)
(* in step with the client and each message has its own kind and length    *)
(* and its own pieces; unless the client relied on the header of a         *)
(* command, which is not remembered (rtmpparser.cpp:105-130, 224,          *)
(* 263-275).                                                               *)
FieldsRight ==
    ~relied =>
        /\ pc # "lost"
        /\ \A i \in DOMAIN delivered :
              LET d == delivered[i]  s == sent[i]
              IN  /\ d.cs = s.cs /\ d.kind = s.kind /\ d.len = s.len
                  /\ d.body = [k \in 1..s.len |-> Piece(i, k)]

(* The timestamp of a media message is the sum of what its chunk stream    *)
(* carried since the last type 0 header, with Limit added for each of them *)
(* that was extended (rtmpparser.cpp:143-147, 239-267), and 2^32 less for  *)
(* each delta that is then 2^31 or more: the timestamp is 64 bits wide,    *)
(* the delta 32 (rtmpparser.h:14-15).  Never is anything counted twice     *)
(* because a turn was undone and repeated.                                 *)
TimestampsRight ==
    ~relied => \A i \in DOMAIN delivered :
        LET d == delivered[i]  s == sent[i]
        IN  s.clean => /\ d.timestamp = s.ts + Limit * s.exts - 2 * Half * s.wraps
                       /\ d.streamId = 1
=============================================================================
