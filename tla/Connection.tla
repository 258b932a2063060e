----------------------------- MODULE Connection -----------------------------
(***************************************************************************)
(* One RtmpConnection (rtmpconnection.cpp): the thread that receives,      *)
(* shakes hands, parses, dispatches to the actor, replies, and disconnects.*)
(* The thread is sequential, so one turn of the loop of handleRead() is    *)
(* one step; what interferes with it is TCP, which delivers the client's   *)
(* bytes in pieces of any size.                                            *)
(*                                                                         *)
(* Bytes come in units.  C1 and C2 take HandshakeSize units, a message     *)
(* MsgSize units, with all the messages that come between its chunks and   *)
(* are parsed with it; a parse that runs out of units throws               *)
(* RtmpNoEnoughData.  rb_ is the queue of unread units that ByteQueue      *)
(* describes; how messages are put together from chunks, and messages that *)
(* are nested deeper, are left to ChunkParser.                             *)
(***************************************************************************)
EXTENDS Integers, Sequences, Functions

CONSTANTS HandshakeSize,  \* units in C1 and in C2 (1536 bytes)
          MsgSize,        \* units in a message and those nested in it
          RecvSize,       \* BUFFER_SIZE, the most units one recv() returns
          Kinds,          \* the kinds of message the client sends
          NestedKinds,    \* those of messages between another one's chunks
          MaxNested,      \* bound: messages nested in one
          MaxMsgs,        \* bound: messages the client sends
          Pipelining,     \* whether clients may send without waiting for S1 and S2
          SendFails       \* send() may fail

\* cmd: releaseStream and FCPublish.  data: an ignored AMF0 data message.
\* short, shortSize: a WindowAckSize or SetChunkSize with a body of less than
\* 4 bytes.
\* other: a type that has no branch, such as Acknowledgement (3).
\* unknown, bad, amf3: RtmpNotSupported, RtmpBadProtocalData, InternalError.
\* fatal: an exception that handleRead() does not catch.
AllKinds == {"connect", "createStream", "publish", "cmd", "metaData", "data", "media",
             "setChunkSize", "wndAckSize", "short", "shortSize", "other",
             "unknown", "bad", "amf3", "fatal"}

ASSUME ConnectionAssumption ==
    /\ HandshakeSize \in Nat \ {0}
    /\ MsgSize \in Nat \ {0}
    /\ RecvSize \in Nat \ {0}
    /\ Kinds \subseteq AllKinds /\ NestedKinds \subseteq Kinds
    /\ MaxNested \in Nat
    /\ MaxMsgs \in Nat
    /\ Pipelining \in (SUBSET BOOLEAN) \ {{}}
    /\ SendFails \in BOOLEAN

VARIABLES
    \* the client and the network
    eager,          \* this client sends C2 and commands without waiting
    hello,          \* how many of C0, C1, C2 the client has sent
    msgsSent,       \* messages the client has begun to send, numbered 1, 2, ...
    followed,       \* how many of them something was sent behind
    wire,           \* units on their way
    \* the connection
    pc,             \* "recv", "loop" (in handleRead()) or "returned"
    rb,             \* the unread units of rb_
    msgs,           \* msgsBuffer_: messages that were parsed inside another
    inSnap,         \* rb_.inSnap_
    sockOpen,       \* sockfd_ # -1
    isDisconnected, \* isDisconnected_
    rcs,            \* rcs_state_
    hss,            \* hss_state_
    isConnected,    \* isConnected_
    outChunkSize,   \* outChunkSize_
    windowAckSize,  \* the message that set windowAckSize_; 0 for -1
    streamIndex,    \* streamIndex_
    alive,          \* the process has not been terminated
    \* history
    sent,           \* what send() was given, in order
    events,         \* what the actor was told, in order
    handled         \* the messages dispatched, in order

client == <<eager, hello, msgsSent, followed>>
state == <<rcs, hss>>
config == <<isConnected, outChunkSize, windowAckSize, streamIndex>>
vars == <<client, wire, pc, rb, msgs, inSnap, sockOpen, isDisconnected, state, config,
          alive, sent, events, handled>>

Msg(kind, id) == [kind |-> kind, id |-> id]

\* A unit shows what it is a part of: a message and those nested in it, in the
\* order they begin.
Units(group, n) == [i \in 1..n |-> group]
Nested(inner, id) == [i \in DOMAIN inner |-> Msg(inner[i], id + i)]
Group(kind, inner, id) == <<Msg(kind, id)>> \o Nested(inner, id)
Drop(s, n) == SubSeq(s, n + 1, Len(s))
Reply(msg, chunk) == [msg |-> msg, chunk |-> chunk]
Events(what) == {i \in DOMAIN events : events[i] = what}

Init ==
    /\ eager \in Pipelining
    /\ hello = 0 /\ msgsSent = 0 /\ followed = 0 /\ wire = <<>>
    /\ pc = "recv" /\ rb = <<>> /\ msgs = <<>> /\ inSnap = FALSE
    /\ sockOpen = TRUE /\ isDisconnected = FALSE
    /\ rcs = "Uninitialized" /\ hss = "Uninitialized"
    /\ isConnected = FALSE /\ outChunkSize = 128
    /\ windowAckSize = 0 /\ streamIndex = 1
    /\ alive = TRUE
    /\ sent = <<>> /\ events = <<>> /\ handled = <<>>

-----------------------------------------------------------------------------
(* The client.  The protocol lets it send C1 at once, C2 when it has S1,   *)
(* and commands when it has S2.                                            *)

SentToClient(msg) == \E i \in DOMAIN sent : sent[i].msg = msg

ClientHello ==
    /\ \/ hello < 2
       \/ hello = 2 /\ (eager \/ SentToClient("S1"))
    /\ hello' = hello + 1
    /\ \E version \in IF hello = 0 THEN {3, 6} ELSE {0} :
          wire' = wire \o Units(<<Msg("hello", version)>>, IF hello = 0 THEN 1 ELSE HandshakeSize)
    /\ UNCHANGED <<eager, msgsSent, followed, pc, rb, msgs, inSnap, sockOpen, isDisconnected, state, config,
                   alive, sent, events, handled>>

\* A message, with those of the kinds inner between its chunks.
ClientMsg(kind, inner) ==
    /\ hello = 3
    /\ eager \/ SentToClient("S2")
    /\ msgsSent + 1 + Len(inner) <= MaxMsgs
    /\ msgsSent' = msgsSent + 1 + Len(inner)
    /\ followed' = msgsSent
    /\ wire' = wire \o Units(Group(kind, inner, msgsSent + 1), MsgSize)
    /\ UNCHANGED <<eager, hello, pc, rb, msgs, inSnap, sockOpen, isDisconnected, state, config,
                   alive, sent, events, handled>>

-----------------------------------------------------------------------------
(* handleClient() and the start of handleRead().                           *)

\* Mutants of disconnect: the flag is not looked at; the socket is not closed.
disconnectAgain(before) ==
    /\ isDisconnected' = TRUE
    /\ sockOpen' = FALSE
    /\ events' = before \o <<"Disconnect">>
disconnectNoClose(before) ==
    /\ isDisconnected' = TRUE
    /\ events' = before \o IF isDisconnected THEN <<>> ELSE <<"Disconnect">>
    /\ UNCHANGED sockOpen

\* disconnect(): the actor is told the first time only.
disconnect(before) ==
    /\ isDisconnected' = TRUE
    /\ sockOpen' = FALSE
    /\ events' = before \o IF isDisconnected THEN <<>> ELSE <<"Disconnect">>

\* When an acknowledgement is due is AckWindow's subject.  It is sent
\* outside the try block, so that a failure ends the process.
acknowledge ==
    \/ UNCHANGED <<sent, alive>>
    \/ /\ windowAckSize # 0
       /\ \/ sent' = Append(sent, Reply("ack", 0)) /\ UNCHANGED alive
          \/ SendFails /\ alive' = FALSE /\ UNCHANGED sent

\* appendData() refuses while the snapshot is open: nothing catches that.
recv(n) ==
    /\ alive /\ pc = "recv" /\ sockOpen
    /\ n <= Len(wire)
    /\ wire' = Drop(wire, n)
    /\ \/ ~inSnap /\ acknowledge
       \/ inSnap /\ alive' = FALSE /\ UNCHANGED sent
    /\ rb' = rb \o SubSeq(wire, 1, n)
    /\ pc' = "loop"
    /\ UNCHANGED <<client, msgs, inSnap, sockOpen, isDisconnected, state, config, events, handled>>

\* A closed socket, or an error, or the client's end of stream.
recvFails ==
    /\ alive /\ pc = "recv"
    /\ disconnect(events)
    /\ pc' = "returned"
    /\ UNCHANGED <<client, wire, rb, msgs, inSnap, state, config, alive, sent, handled>>

\* Nothing unread: back to recv(), also with messages in msgsBuffer_.
loopEnds ==
    /\ alive /\ pc = "loop" /\ rb = <<>>
    /\ pc' = "recv"
    /\ UNCHANGED <<client, wire, rb, msgs, inSnap, sockOpen, isDisconnected, state, config,
                   alive, sent, events, handled>>

-----------------------------------------------------------------------------
(* How a turn of the loop may end.                                         *)

Turn == alive /\ pc = "loop" /\ rb # <<>>

\* Normally: snapClear().
Completed(n, evs, replies) ==
    /\ rb' = Drop(rb, n)
    /\ inSnap' = FALSE
    /\ events' = events \o evs
    /\ sent' = sent \o replies
    /\ UNCHANGED <<client, wire, pc, sockOpen, isDisconnected, alive>>

\* Mutant of PutBack: what was read is lost.
LoseRead(n) == rb' = Drop(rb, n)

\* RtmpNoEnoughData: snapStop() puts back whatever this turn has read.
PutBack(n) == rb' = rb

\* Mutant of SnapStopped: the snapshot stays open.
SnapForgotten == inSnap' = TRUE

SnapStopped == inSnap' = FALSE

\* What the turn works on, in the order they are returned: what is in
\* msgsBuffer_, or else what is next in rb_.
queue == IF msgs # <<>> THEN msgs ELSE Head(rb)
msg == Head(queue)

\* Mutant of restoreContext: messages that a turn has put into msgsBuffer_, or
\* taken from it, stay there, or away, when the turn is undone.
keepBuffer == msgs' = Tail(queue)

restoreContext == msgs' = msgs

NotEnough(n) ==
    /\ PutBack(n)
    /\ SnapStopped
    /\ restoreContext
    /\ pc' = "recv"
    /\ UNCHANGED <<client, wire, sockOpen, isDisconnected, state, config,
                   alive, sent, events, handled>>

\* The exceptions that handleRead() catches: disconnect(), the snapshot open.
Thrown(n, evs, replies) ==
    /\ rb' = Drop(rb, n)
    /\ inSnap' = TRUE
    /\ pc' = "recv"
    /\ sent' = sent \o replies
    /\ disconnect(events \o evs)
    /\ UNCHANGED <<client, wire, alive>>

\* writeData() throws for the reply after the first k.
SendThrows(n, evs, replies) ==
    /\ SendFails
    /\ \E k \in 0..Len(replies) - 1 : Thrown(n, evs, SubSeq(replies, 1, k))

-----------------------------------------------------------------------------
(* The handshake.  handleC0() and handleC1() go on to the next step at     *)
(* once when more than a whole C1 or C2 is there.                          *)

Ahead(n) == Len(rb) - n > HandshakeSize

\* What is consumed and answered, and the two states afterwards.
Handshake(n, replies, rcs_state, hss_state) ==
    \/ /\ Completed(n, <<>>, replies)
       /\ rcs' = rcs_state /\ hss' = hss_state
       /\ UNCHANGED <<msgs, config, handled>>
    \/ /\ SendThrows(n, <<>>, replies)
       /\ rcs' = "HandShake"
       /\ hss' = IF \E i \in DOMAIN sent' : sent'[i].msg = "S1" THEN "VersionSent" ELSE hss
       /\ UNCHANGED <<msgs, config, handled>>

S0 == Reply("S0", 0)
S1 == Reply("S1", 0)
S2 == Reply("S2", 0)

\* handleC1() leaves HSS_AckSent; back in handleC0() that is overwritten.
AfterEagerC1 == "VersionSent_C1_Read"

\* Mutant of AfterC1: no new state.
AfterC1Again == "VersionSent"

AfterC1 == "AckSent"

handleC0 ==
    /\ Turn /\ rcs \in {"Uninitialized", "HandShake"} /\ hss = "Uninitialized"
    /\ \/ /\ msg.id # 3
          /\ Thrown(1, <<>>, <<>>)
          /\ rcs' = "HandShake"
          /\ UNCHANGED <<hss, msgs, config, handled>>
       \/ /\ msg.id = 3 /\ ~Ahead(1)
          /\ Handshake(1, <<S0, S1>>, "HandShake", "VersionSent")
       \/ /\ msg.id = 3 /\ Ahead(1) /\ ~Ahead(1 + HandshakeSize)
          /\ Handshake(1 + HandshakeSize, <<S0, S1, S2>>, "HandShake", AfterEagerC1)
       \/ /\ msg.id = 3 /\ Ahead(1 + HandshakeSize)
          /\ Handshake(1 + 2 * HandshakeSize, <<S0, S1, S2>>, "Normal_Exchange", AfterEagerC1)

handleC1 ==
    /\ Turn /\ rcs = "HandShake" /\ hss = "VersionSent"
    /\ \/ /\ Len(rb) < HandshakeSize
          /\ NotEnough(Len(rb))
       \/ /\ Len(rb) >= HandshakeSize /\ ~Ahead(HandshakeSize)
          /\ Handshake(HandshakeSize, <<S2>>, "HandShake", AfterC1)
       \/ /\ Ahead(HandshakeSize)
          /\ Handshake(2 * HandshakeSize, <<S2>>, "Normal_Exchange", "HandshakeDone")

handleC2 ==
    /\ Turn /\ rcs = "HandShake" /\ hss = "AckSent"
    /\ \/ /\ Len(rb) < HandshakeSize
          /\ NotEnough(Len(rb))
       \/ /\ Len(rb) >= HandshakeSize
          /\ Handshake(HandshakeSize, <<>>, "Normal_Exchange", "HandshakeDone")

\* handshake() has no case for this state: the turn does nothing.
noSuchCase ==
    /\ Turn /\ rcs = "HandShake" /\ hss = "VersionSent_C1_Read"
    /\ Completed(0, <<>>, <<>>)
    /\ UNCHANGED <<state, msgs, config, handled>>

-----------------------------------------------------------------------------
(* normalExchange(): one message.                                          *)

\* Mutant of Ready: a message is read from rb_ before msgsBuffer_ is looked at.
UnreadFirst == Len(rb) >= MsgSize

Ready == msgs # <<>> \/ Len(rb) >= MsgSize

\* The units that parseMsgHeader() reads to return it.
Taken == IF msgs # <<>> THEN 0 ELSE MsgSize

\* RtmpNoEnoughData although all is there: the body is too short, of the message
\* itself or of a SetChunkSize nested in it, which is read at once.
ShortBody ==
    \/ msg.kind \in {"short", "shortSize"}
    \/ msgs = <<>> /\ \E i \in DOMAIN Tail(queue) : Tail(queue)[i].kind = "shortSize"

\* A message of one of these kinds is returned, those nested in it are kept.
Message(kinds) ==
    /\ Turn /\ rcs = "Normal_Exchange"
    /\ Ready /\ ~ShortBody
    /\ msg.kind \in kinds
    /\ msgs' = Tail(queue)
    /\ handled' = Append(handled, msg.id)
    /\ UNCHANGED state

Dispatch(evs, replies) ==
    \/ Completed(Taken, evs, replies)
    \/ SendThrows(Taken, evs, replies)

\* The actor throws: nothing is answered.
Refused(evs) ==
    /\ Thrown(Taken, evs, <<>>)
    /\ UNCHANGED config

waitForMore ==
    /\ Turn /\ rcs = "Normal_Exchange"
    /\ ~Ready
    /\ NotEnough(Len(rb))

\* Mutant of ConnectReplies: the new chunk size is used before it is announced.
RepliesBeforeChunkSize ==
    <<Reply("WndAckSize", 0), Reply("SetPeerBandwidth", 0),
      Reply("_result", 1024), Reply("SetChunkSize", 0)>>

ConnectReplies ==
    <<Reply("WndAckSize", 0), Reply("SetPeerBandwidth", 0),
      Reply("SetChunkSize", 0), Reply("_result", 1024)>>

\* The actor is told before and after the answer.
onReadConnect ==
    /\ Message({"connect"})
    /\ \/ /\ isConnected
          /\ Refused(<<>>)
       \/ /\ ~isConnected
          /\ Refused(<<"Connect">>)
       \/ /\ ~isConnected
          /\ \/ Completed(Taken, <<"Connect", "Connect">>, ConnectReplies)
             \/ SendThrows(Taken, <<"Connect">>, ConnectReplies)
          /\ outChunkSize' = IF Len(sent') >= Len(sent) + 2 THEN 1024 ELSE outChunkSize
          /\ isConnected' = sockOpen'
          /\ UNCHANGED <<windowAckSize, streamIndex>>

onReadCreateStream ==
    /\ Message({"createStream"})
    /\ \/ Refused(<<"CreateStream">>)
       \/ /\ Dispatch(<<"CreateStream">>, <<Reply("_result", outChunkSize)>>)
          /\ streamIndex' = streamIndex + IF sockOpen' THEN 1 ELSE 0
          /\ UNCHANGED <<isConnected, outChunkSize, windowAckSize>>

onReadPublish ==
    /\ Message({"publish"})
    /\ \/ Refused(<<"Publish">>)
       \/ /\ Dispatch(<<"Publish">>, <<Reply("onStatus", outChunkSize)>>)
          /\ UNCHANGED config

\* onReadReleaseStream(), onReadFCPublish().
onReadOtherCmd ==
    /\ Message({"cmd"})
    /\ Dispatch(<<>>, <<Reply("_result", outChunkSize)>>)
    /\ UNCHANGED config

\* onAudio(), onVideo(), onReadAMF0DataSetDataFrame().
onMediaData ==
    /\ Message({"media", "metaData"})
    /\ LET ev == IF msg.kind = "media" THEN "ReceiveStream" ELSE "MetaData"
       IN  \/ Refused(<<ev>>)
           \/ Completed(Taken, <<ev>>, <<>>) /\ UNCHANGED config

\* chunkSize_ (of the client's chunks) is left to the parser's module.
onIgnored ==
    /\ Message({"data", "setChunkSize"})
    /\ Completed(Taken, <<>>, <<>>)
    /\ UNCHANGED config

\* mh->typeId = MST_WndAckSize: the branch of every remaining type.
onReadWndAckSize ==
    /\ Message({"wndAckSize", "other"})
    /\ windowAckSize' = msg.id
    /\ Dispatch(<<>>, <<Reply("onBWDone", outChunkSize)>>)
    /\ UNCHANGED <<isConnected, outChunkSize, streamIndex>>

\* The exception means "wait for more" to handleRead().
onShortBody ==
    /\ Turn /\ rcs = "Normal_Exchange"
    /\ Ready /\ ShortBody
    /\ NotEnough(Taken)

onBadMessage ==
    /\ Message({"unknown", "bad", "amf3"})
    /\ Refused(<<>>)

\* No handler: std::terminate().
onFatal ==
    /\ Message({"fatal"})
    /\ alive' = FALSE
    /\ rb' = Drop(rb, Taken)
    /\ UNCHANGED <<client, wire, pc, inSnap, sockOpen, isDisconnected, config, sent, events>>

\* The handlers that reply.
Answering ==
    \/ rcs # "Normal_Exchange" /\ hss = "Uninitialized" /\ msg.id = 3
    \/ rcs = "HandShake" /\ hss = "VersionSent" /\ Len(rb) >= HandshakeSize
    \/ /\ rcs = "Normal_Exchange" /\ Ready /\ ~ShortBody
       /\ msg.kind \in {"connect", "createStream", "publish", "cmd", "wndAckSize", "other"}

\* send() to a client that is gone may also raise SIGPIPE: nobody ignores it.
brokenPipe ==
    /\ SendFails
    /\ Turn /\ Answering
    /\ alive' = FALSE
    /\ UNCHANGED <<client, wire, pc, rb, msgs, inSnap, sockOpen, isDisconnected, state, config,
                   sent, events, handled>>

over ==
    /\ ~alive \/ pc = "returned"
    /\ UNCHANGED vars

Inner == UNION {[1..n -> NestedKinds] : n \in 0..MaxNested}

ClientNext == ClientHello \/ \E kind \in Kinds, inner \in Inner : ClientMsg(kind, inner)

Receive == \E n \in 1..RecvSize : recv(n)

TurnNext ==
    \/ loopEnds \/ handleC0 \/ handleC1 \/ handleC2 \/ noSuchCase
    \/ waitForMore \/ onReadConnect \/ onReadCreateStream \/ onReadPublish
    \/ onReadOtherCmd \/ onMediaData \/ onIgnored \/ onReadWndAckSize
    \/ onShortBody \/ onBadMessage \/ onFatal \/ brokenPipe

Next == ClientNext \/ Receive \/ recvFails \/ TurnNext \/ over

\* The thread runs, what was sent arrives, and recv() fails on a closed socket.
Spec ==
    /\ Init /\ [][Next]_vars
    /\ WF_vars(Receive) /\ WF_vars(TurnNext)
    /\ WF_vars(~sockOpen /\ recvFails)

-----------------------------------------------------------------------------
TypeOK ==
    /\ eager \in BOOLEAN /\ hello \in 0..3 /\ msgsSent \in 0..MaxMsgs /\ followed \in 0..msgsSent
    /\ \A u \in Range(wire) \union Range(rb) \union {msgs} :
          \A m \in Range(u) : m.kind \in Kinds \union {"hello"} /\ m.id \in Nat
    /\ pc \in {"recv", "loop", "returned"}
    /\ inSnap \in BOOLEAN /\ sockOpen \in BOOLEAN /\ isDisconnected = ~sockOpen
    /\ rcs \in {"Uninitialized", "HandShake", "Normal_Exchange"}
    /\ hss \in {"Uninitialized", "VersionSent", "VersionSent_C1_Read", "AckSent", "HandshakeDone"}
    /\ isConnected \in BOOLEAN /\ outChunkSize \in {128, 1024}
    /\ windowAckSize \in 0..MaxMsgs /\ streamIndex \in Nat
    /\ alive \in BOOLEAN
    /\ handled \in Seq(1..MaxMsgs)
    /\ Range(events) \subseteq {"Connect", "CreateStream", "Publish", "MetaData",
                               "ReceiveStream", "Disconnect"}

(* However TCP cuts the stream, however messages are nested and however    *)
(* often a turn is rolled back with what it has put into msgsBuffer_ or    *)
(* taken from it (rtmpconnection.cpp:83-124, rtmpparser.cpp:47-67), every  *)
(* message is dispatched once, in the order they begin.                    *)
HandledOnceInOrder == \A i \in DOMAIN handled : handled[i] = i

(* The two places where the thread makes no progress on what it has: a     *)
(* state handshake() has no case for (rtmpconnection.cpp:209), and a       *)
(* message whose body is too short, which is put back for ever (:118).     *)
Stuck ==
    \/ rcs = "HandShake" /\ hss = "VersionSent_C1_Read"
    \/ rcs = "Normal_Exchange" /\ rb # <<>> /\ Ready /\ ShortBody

(* The loop looks at the unread bytes only (rtmpconnection.cpp:84), and    *)
(* the parser at msgsBuffer_ first (rtmpparser.cpp:288).  While the thread *)
(* waits, messages are held back in msgsBuffer_ only with every byte read, *)
(* and bytes only if they are less than a message with those nested in it, *)
(* which are put back together; except where it is Stuck.                  *)
HoldsBackOneKind ==
    pc = "recv" /\ sockOpen /\ rcs = "Normal_Exchange" =>
        Stuck \/ rb = <<>> \/ (msgs = <<>> /\ Len(rb) < MsgSize)

(* appendData() throws when the snapshot is open (readbuffer.cpp:32-35)    *)
(* and nobody catches it: the thread returns to recv() with it closed.     *)
RecvOutsideSnap == pc = "recv" /\ sockOpen => ~inSnap

(* The actor is told of the end exactly once, and of nothing afterwards,   *)
(* on the paths through an exception and through recv() alike              *)
(* (rtmpconnection.cpp:52-57, 94-117, 784-803).                            *)
DisconnectToldOnce ==
    /\ \A i \in Events("Disconnect") : i = Len(events)
    /\ isDisconnected <=> Events("Disconnect") # {}

(* S0, S1 and S2 are sent once each and before anything else, on the eager *)
(* paths of the handshake as on the slow one (rtmpconnection.cpp:171-239). *)
HandshakeReplies ==
    \A i \in DOMAIN sent : IF i <= 3 THEN sent[i] = <<S0, S1, S2>>[i]
                                     ELSE sent[i] \notin {S0, S1, S2}

(* A reply longer than a chunk is cut as the client was told               *)
(* (rtmpconnection.cpp:258-262): 128 until SetChunkSize was sent.          *)
AnnouncedBefore(i) ==
    IF \E j \in 1..i - 1 : sent[j].msg = "SetChunkSize" THEN 1024 ELSE 128
ChunkSizeAnnounced == \A i \in DOMAIN sent : sent[i].chunk \in {0, AnnouncedBefore(i)}

(* Whatever the client sent is dispatched in the end, or the client was    *)
(* disconnected, in whatever pieces it arrives and whether or not the      *)
(* client waits for the answers, unless the thread is Stuck: every message *)
(* but those nested in the last one.  They may be left in msgsBuffer_ with *)
(* no byte unread, and wait there until the client sends something behind  *)
(* them (rtmpconnection.cpp:84, rtmpparser.cpp:288).                       *)
EveryMessageServed ==
    \A i \in 1..MaxMsgs :
        msgsSent >= i /\ i <= followed + 1
            ~> (Len(handled) >= i \/ isDisconnected \/ ~alive \/ Stuck)

(* "after that, try handleC1" (rtmpconnection.cpp:205): reading C1 early   *)
(* is only a short cut, so a client that has sent its part of the          *)
(* handshake is through with it, or disconnected.                          *)
HandshakeEnds == hello = 3 ~> (rcs = "Normal_Exchange" \/ isDisconnected \/ ~alive)
=============================================================================
