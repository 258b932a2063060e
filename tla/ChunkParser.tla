---------------------------- MODULE ChunkParser -----------------------------
(***************************************************************************)
(* How RtmpParser puts messages together from interleaved chunks           *)
(* (rtmpparser.cpp:33-355, rtmpmsg.h:42-69).  A message that is longer     *)
(* than a chunk waits in parseMsgHeader() for its other chunks; a message  *)
(* that begins meanwhile is parsed by a recursive call, so the calls form  *)
(* a stack.  Each call has its own copy of the chunk size.  When the bytes *)
(* run out, the whole turn is undone and done again later.                 *)
(*                                                                         *)
(* A header is one unit, and so is each piece of a body.  Timestamps are   *)
(* left out.  The client is a correct one: it sends any messages, in       *)
(* chunks, interleaved at chunk boundaries as it likes.                    *)
(***************************************************************************)
EXTENDS Integers, Sequences, FiniteSets

CONSTANTS Streams,    \* the chunk streams of the client's media (at most 10)
          Control,    \* the chunk stream of its SetChunkSize messages
          Lengths,    \* the lengths of its messages
          InitChunk,  \* chunkSize_ at first (128 bytes)
          NewChunks,  \* the sizes it may set
          MaxMsgs,    \* bound: messages it sends
          MaxNest,    \* messages it begins between two moments when none is
                      \* in progress
          ResizeIn    \* messages in progress, at most, when it sets a size

ASSUME ChunkAssumption ==
    /\ IsFiniteSet(Streams) /\ Control \notin Streams
    /\ Lengths \subseteq Nat \ {0}
    /\ InitChunk \in Nat \ {0}
    /\ NewChunks \subseteq Nat \ {0}
    /\ MaxMsgs \in Nat /\ MaxNest \in Nat /\ ResizeIn \in Nat

VARIABLES
    \* the client and the network
    left,        \* what is left to send of each stream's message
    lastSent,    \* the message last begun on each stream
    outSize,     \* the client's chunk size
    begun,       \* messages begun since none was in progress
    wire,        \* units on their way
    \* handleRead() and the parser
    pc,          \* "recv", "turn", "parse", "return" or "desync"
    rb,          \* the unread units
    taken,       \* what this turn has read
    stack,       \* the calls of parseMsgHeader(), the outermost first
    ctx,         \* streamContexts_: the last header of each stream
    savedCtx,    \* savedStreamContexts_
    msgs,        \* msgsBuffer_
    savedMsgs,   \* savedMsgsBuffer_
    chunkSize,   \* the connection's chunkSize_
    \* history
    sent,        \* the messages begun
    delivered    \* the messages returned to normalExchange()

client == <<left, lastSent, outSize, begun, sent>>
saved == <<savedCtx, savedMsgs>>
vars == <<client, wire, pc, rb, taken, stack, ctx, msgs, saved, chunkSize, delivered>>

Full(cs, kind, len) == [u |-> "full", cs |-> cs, kind |-> kind, len |-> len]
Type3(cs) == [u |-> "type3", cs |-> cs]
Piece(id, k) == [u |-> "piece", id |-> id, k |-> k]
Pieces(id, from, n) == [i \in 1..n |-> Piece(id, from + i - 1)]
Message(cs, kind, body) == [cs |-> cs, kind |-> kind, body |-> body]

Least(a, b) == IF a < b THEN a ELSE b
Drop(s, n) == SubSeq(s, n + 1, Len(s))
Take(s, n) == SubSeq(s, 1, n)
NoHeader == [kind |-> "none", len |-> 0]
Nothing == [cs |-> Control, len |-> 0, id |-> 0]

Init ==
    /\ left = [cs \in Streams |-> 0]
    /\ lastSent = [cs \in Streams |-> Nothing]
    /\ outSize = InitChunk /\ begun = 0 /\ wire = <<>>
    /\ pc = "recv" /\ rb = <<>> /\ taken = <<>> /\ stack = <<>>
    /\ ctx = [cs \in Streams |-> NoHeader] /\ savedCtx = ctx
    /\ msgs = <<>> /\ savedMsgs = <<>>
    /\ chunkSize = InitChunk
    /\ sent = <<>> /\ delivered = <<>>

-----------------------------------------------------------------------------
(* The client.  It appends to the wire, which only recv() reads, so it may *)
(* as well wait until the connection's thread is back in recv().           *)

server == <<pc, rb, taken, stack, ctx, msgs, saved, chunkSize, delivered>>
Idle == \A cs \in Streams : left[cs] = 0
MayBegin == pc = "recv" /\ begun < MaxNest /\ Len(sent) < MaxMsgs

\* A type 3 header begins a message when the stream's last one was as long.
Begin(cs, len) ==
    /\ MayBegin
    /\ left[cs] = 0
    /\ LET id == Len(sent) + 1
           n == Least(outSize, len)
       IN  /\ \E h \in {Full(cs, "media", len)} \union
                       (IF lastSent[cs].len = len THEN {Type3(cs)} ELSE {}) :
                 wire' = wire \o <<h>> \o Pieces(id, 1, n)
           /\ left' = [left EXCEPT ![cs] = len - n]
           /\ lastSent' = [lastSent EXCEPT ![cs] = [cs |-> cs, len |-> len, id |-> id]]
           /\ sent' = Append(sent, Message(cs, "media", Pieces(id, 1, len)))
    /\ begun' = IF \E s \in Streams : left'[s] > 0 THEN begun + 1 ELSE 0
    /\ UNCHANGED <<outSize, server>>

Continue(cs) ==
    /\ pc = "recv"
    /\ left[cs] > 0
    /\ LET n == Least(outSize, left[cs])
           m == lastSent[cs]
       IN  /\ wire' = wire \o <<Type3(cs)>> \o Pieces(m.id, m.len - left[cs] + 1, n)
           /\ left' = [left EXCEPT ![cs] = @ - n]
    /\ begun' = IF \E s \in Streams : left'[s] > 0 THEN begun ELSE 0
    /\ UNCHANGED <<lastSent, outSize, sent, server>>

\* The body is the new size; the client uses it from the next chunk on.
SetChunkSize(size) ==
    /\ MayBegin
    /\ size # outSize
    /\ Cardinality({cs \in Streams : left[cs] > 0}) <= ResizeIn
    /\ LET body == <<Piece(Len(sent) + 1, size)>>
       IN  /\ wire' = wire \o <<Full(Control, "SetChunkSize", 1)>> \o body
           /\ sent' = Append(sent, Message(Control, "SetChunkSize", body))
    /\ outSize' = size
    /\ begun' = IF Idle THEN 0 ELSE begun + 1
    /\ UNCHANGED <<left, lastSent, server>>

-----------------------------------------------------------------------------
(* handleRead(): some of the bytes arrive, then the loop takes turns.      *)

recv(n) ==
    /\ pc = "recv"
    /\ n <= Len(wire)
    /\ wire' = Drop(wire, n)
    /\ rb' = rb \o Take(wire, n)
    /\ pc' = "turn"
    /\ UNCHANGED <<client, taken, stack, ctx, msgs, saved, chunkSize, delivered>>

loopEnds ==
    /\ pc = "turn" /\ rb = <<>>
    /\ pc' = "recv"
    /\ UNCHANGED <<client, wire, rb, taken, stack, ctx, msgs, saved, chunkSize, delivered>>

\* normalExchange(mh); the body of SetChunkSize is the size.
Deliver(m) ==
    /\ delivered' = Append(delivered, m)
    /\ chunkSize' = IF m.kind = "SetChunkSize" THEN m.body[1].k ELSE chunkSize

\* parseMsgHeader(chunkSize): a message parsed inside another comes first.
fromBuffer ==
    /\ pc = "turn" /\ rb # <<>> /\ msgs # <<>>
    /\ Deliver(Head(msgs))
    /\ msgs' = Tail(msgs)
    /\ savedCtx' = ctx /\ savedMsgs' = msgs
    /\ UNCHANGED <<client, wire, pc, rb, taken, stack, ctx>>

startTurn ==
    /\ pc = "turn" /\ rb # <<>> /\ msgs = <<>>
    /\ pc' = "parse"
    /\ taken' = <<>>
    /\ savedCtx' = ctx /\ savedMsgs' = msgs
    /\ UNCHANGED <<client, wire, rb, stack, ctx, msgs, chunkSize, delivered>>

\* Mutant of restoreContext: what this turn has put there is kept.
keepContext == ctx' = savedCtx /\ msgs' = msgs

\* snapStop() and restoreContext(), after RtmpNoEnoughData.
restoreContext == ctx' = savedCtx /\ msgs' = savedMsgs

NotEnough ==
    /\ pc' = "recv"
    /\ rb' = taken \o rb
    /\ taken' = <<>>
    /\ stack' = <<>>
    /\ restoreContext
    /\ UNCHANGED <<client, wire, saved, chunkSize, delivered>>

-----------------------------------------------------------------------------
(* One chunk: its header and its part of the body.                         *)

Read(n) == rb' = Drop(rb, n) /\ taken' = taken \o Take(rb, n)
Body(n) == SubSeq(rb, 2, 1 + n)

top == Len(stack)
Unparsed(f) == f.len - Len(f.body)
NextPc(st) == IF Unparsed(st[Len(st)]) = 0 THEN "return" ELSE "parse"

\* prevMh itself, or findPrev(): the innermost unfinished call of the stream.
Parsing(cs) == {i \in DOMAIN stack : stack[i].cs = cs /\ Unparsed(stack[i]) > 0}

\* Mutant of Continued: the call that reads, whatever its chunk stream.
ContinuedTop(cs) == top

Continued(cs) == CHOOSE i \in Parsing(cs) : \A j \in Parsing(cs) : j <= i

\* Mutant of Part: a last, shorter chunk is taken for a whole one.
WholeChunk(size, unparsed) == size

\* How much of a body the next chunk holds.
Part(size, unparsed) == Least(size, unparsed)

ChunkHeader == pc = "parse" /\ rb # <<>> /\ Head(rb).u \in {"full", "type3"}

Continues == ChunkHeader /\ Head(rb).u = "type3" /\ Parsing(Head(rb).cs) # {}

\* The chunk size is the one of the call that reads, not of the message.
continueMsg ==
    /\ Continues
    /\ LET i == Continued(Head(rb).cs)
           n == Part(stack[top].chunk, Unparsed(stack[i]))
       IN  IF Len(rb) <= n
              THEN NotEnough
              ELSE /\ Read(1 + n)
                   /\ stack' = [stack EXCEPT ![i].body = @ \o Body(n)]
                   /\ pc' = NextPc(stack')
                   /\ UNCHANGED <<client, wire, ctx, msgs, saved, chunkSize, delivered>>

\* onMsgHeaderParsed(): only these headers are remembered.
Remembered(h) == h.u = "type3" \/ h.kind = "media"

HeaderOf(h) ==
    IF h.u = "full" THEN [kind |-> h.kind, len |-> h.len] ELSE ctx[h.cs]

\* A call inside another is given the chunk size of that one.
ChunkSizeForCall == IF stack = <<>> THEN chunkSize ELSE stack[top].chunk

beginMsg ==
    /\ ChunkHeader /\ ~Continues
    /\ LET h == Head(rb)
           hd == HeaderOf(h)
           n == Part(ChunkSizeForCall, hd.len)
           call == [cs |-> h.cs, kind |-> hd.kind, len |-> hd.len,
                    body |-> Body(n), chunk |-> ChunkSizeForCall]
       IN  IF Len(rb) <= n
              THEN NotEnough
              ELSE /\ Read(1 + n)
                   /\ stack' = Append(stack, call)
                   /\ pc' = NextPc(stack')
                   /\ ctx' = IF Remembered(h) THEN [ctx EXCEPT ![h.cs] = hd] ELSE ctx
                   /\ UNCHANGED <<client, wire, msgs, saved, chunkSize, delivered>>

\* The bytes end before the header; or a piece of a body is read as one, and
\* from then on anything may be parsed.
noHeader ==
    /\ pc = "parse" /\ ~ChunkHeader
    /\ IF rb = <<>>
          THEN NotEnough
          ELSE /\ pc' = "desync"
               /\ UNCHANGED <<client, wire, rb, taken, stack, ctx, msgs, saved, chunkSize, delivered>>

Parsed(f) == Message(f.cs, f.kind, f.body)

returnOuter ==
    /\ pc = "return" /\ top = 1
    /\ Deliver(Parsed(stack[1]))
    /\ stack' = <<>>
    /\ pc' = "turn"
    /\ UNCHANGED <<client, wire, rb, taken, ctx, msgs, saved>>

\* Mutant of CallerChunk: the size is left to normalExchange().
CallerChunkLater(f, m) == f.chunk

\* "set chunk size impact chunksize immediately": in the calling call.
CallerChunk(f, m) == IF m.kind = "SetChunkSize" THEN m.body[1].k ELSE f.chunk

returnInner ==
    /\ pc = "return" /\ top > 1
    /\ LET m == Parsed(stack[top])
           caller == stack[top - 1]
       IN  /\ stack' = Append(Take(stack, top - 2),
                              [caller EXCEPT !.chunk = CallerChunk(caller, m)])
           /\ msgs' = Append(msgs, m)
    /\ pc' = NextPc(stack')
    /\ UNCHANGED <<client, wire, rb, taken, ctx, saved, chunkSize, delivered>>

\* The client has sent all it sends and the thread waits for more.
over ==
    /\ Idle /\ Len(sent) = MaxMsgs /\ wire = <<>> /\ pc \in {"recv", "desync"}
    /\ UNCHANGED vars

ClientNext ==
    \/ \E cs \in Streams : Continue(cs) \/ \E len \in Lengths : Begin(cs, len)
    \/ \E size \in NewChunks : SetChunkSize(size)

ParserNext ==
    \/ loopEnds \/ fromBuffer \/ startTurn \/ continueMsg \/ beginMsg
    \/ noHeader \/ returnOuter \/ returnInner

Next == ClientNext \/ (\E n \in 1..Len(wire) : recv(n)) \/ ParserNext \/ over

Spec == Init /\ [][Next]_vars

-----------------------------------------------------------------------------
TypeOK ==
    /\ left \in [Streams -> Nat] /\ outSize \in Nat \ {0} /\ begun \in 0..MaxNest
    /\ pc \in {"recv", "turn", "parse", "return", "desync"}
    /\ \A i \in DOMAIN stack :
          /\ stack[i].cs \in Streams \union {Control}
          /\ stack[i].len \in Nat /\ Unparsed(stack[i]) >= 0
          /\ stack[i].chunk \in {InitChunk} \union NewChunks
    /\ ctx \in [Streams -> [kind : {"none", "media"}, len : Nat]]
    /\ chunkSize \in {InitChunk} \union NewChunks
    /\ stack # <<>> => pc \in {"parse", "return", "desync"}

\* The number of a message, which its pieces carry.
Id(m) == m.body[1].id

(* Every message comes out whole and with its own pieces only, and before  *)
(* it on its chunk stream just those that were sent before it, once each,  *)
(* however TCP cuts the bytes and however often a turn is undone and       *)
(* repeated (rtmpparser.cpp:33-59, 152-203).  What waits in msgsBuffer_    *)
(* will be delivered next.                                                 *)
Output == IF stack = <<>> THEN delivered \o msgs ELSE delivered
InOrderAndIntact ==
    \A i \in DOMAIN Output :
        LET m == Output[i]
        IN  /\ Id(m) \in DOMAIN sent /\ m = sent[Id(m)]
            /\ {Id(Output[j]) : j \in {j \in 1..i - 1 : Output[j].cs = m.cs}}
               = {l \in 1..Id(m) - 1 : sent[l].cs = m.cs}

(* When every byte of finished messages has been parsed, each message was  *)
(* delivered or waits in msgsBuffer_ for the next byte, and the parser is  *)
(* not inside a call.                                                      *)
AllAccounted ==
    Idle /\ wire = <<>> /\ rb = <<>> /\ pc = "recv"
        => stack = <<>> /\ Len(delivered) + Len(msgs) = Len(sent)

(* "set chunk size impact chunksize immediately" (rtmpparser.cpp:194): the *)
(* parser never takes a piece of a body for a chunk header, even when the  *)
(* size changes inside a message.                                          *)
InStep == pc # "desync"
=============================================================================
