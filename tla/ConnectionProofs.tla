-------------------------- MODULE ConnectionProofs --------------------------
(***************************************************************************)
(* For every size of the handshake, of a message and of what recv()        *)
(* returns, and for any number of messages of any kind, every invariant of *)
(* Connection.  Four inductive invariants carry them: Life (the socket,    *)
(* the snapshot, the last event), InSequence (what is unread goes on where *)
(* the state has left off, behind what is in msgsBuffer_), Announced (the  *)
(* size of chunks the client was told) and Greeted (how much of the        *)
(* greeting was sent).                                                     *)
(***************************************************************************)
EXTENDS Connection, AckWindow, ProofFacts

-----------------------------------------------------------------------------
(* What the actor is told.                                                 *)

Call == {"Connect", "CreateStream", "Publish", "MetaData", "ReceiveStream"}

\* Calls, and after them the end if the connection has ended.
Told(evs, over_) ==
    /\ evs \in Seq(Call \union {"Disconnect"})
    /\ \A i \in DOMAIN evs : evs[i] = "Disconnect" => i = Len(evs)
    /\ over_ <=> \E i \in DOMAIN evs : evs[i] = "Disconnect"

LEMMA TellMore ==
    ASSUME NEW e, Told(e, FALSE), NEW evs \in Seq(Call)
    PROVE  Told(e \o evs, FALSE)
<1> DEFINE E == Call \union {"Disconnect"}
           f == e \o evs
<1>1. e \in Seq(E) /\ evs \in Seq(E) /\ f \in Seq(E)
  BY DEF Told
<1>2. /\ DOMAIN e = 1..Len(e) /\ DOMAIN evs = 1..Len(evs) /\ DOMAIN f = 1..Len(e) + Len(evs)
      /\ Len(e) \in Nat /\ Len(evs) \in Nat
      /\ \A i \in 1..Len(e) + Len(evs) : f[i] = IF i <= Len(e) THEN e[i] ELSE evs[i - Len(e)]
  BY <1>1
<1>3. \A i \in 1..Len(e) : e[i] # "Disconnect"
  BY <1>2 DEF Told
<1>4. \A i \in 1..Len(evs) : evs[i] # "Disconnect"
  BY <1>2 DEF Call
<1>5. \A i \in DOMAIN f : f[i] # "Disconnect"
  <2> TAKE i \in DOMAIN f
  <2>1. CASE i <= Len(e)
    BY <2>1, <1>2, <1>3
  <2>2. CASE i > Len(e)
    <3>1. i - Len(e) \in 1..Len(evs) /\ f[i] = evs[i - Len(e)]
      BY <2>2, <1>2
    <3> QED BY <3>1, <1>4
  <2> QED BY <2>1, <2>2, <1>2
<1> QED BY <1>1, <1>5 DEF Told

LEMMA TellEnd ==
    ASSUME NEW e, Told(e, FALSE)
    PROVE  Told(e \o <<"Disconnect">>, TRUE)
<1> DEFINE E == Call \union {"Disconnect"}
           f == e \o <<"Disconnect">>
<1>1. e \in Seq(E) /\ <<"Disconnect">> \in Seq(E) /\ f \in Seq(E)
  BY DEF Told
<1>2. /\ DOMAIN e = 1..Len(e) /\ Len(e) \in Nat
      /\ Len(f) = Len(e) + 1 /\ DOMAIN f = 1..Len(e) + 1
      /\ \A i \in 1..Len(e) : f[i] = e[i]
      /\ f[Len(e) + 1] = "Disconnect"
  BY <1>1
<1>3. \A i \in 1..Len(e) : e[i] # "Disconnect"
  BY <1>2 DEF Told
<1>4. \A i \in DOMAIN f : f[i] = "Disconnect" => i = Len(f)
  BY <1>2, <1>3
<1>5. Len(e) + 1 \in DOMAIN f
  BY <1>2
<1> QED BY <1>1, <1>2, <1>4, <1>5 DEF Told

-----------------------------------------------------------------------------
(* The life of a connection: its socket, its snapshot, its last event.     *)

Life ==
    /\ pc \in {"recv", "loop", "returned"}
    /\ inSnap \in BOOLEAN /\ sockOpen \in BOOLEAN
    /\ isDisconnected = ~sockOpen
    /\ pc = "loop" => sockOpen
    /\ sockOpen => ~inSnap
    /\ Told(events, isDisconnected)

LEMMA CompletedLife ==
    ASSUME Life, Turn, NEW n, NEW evs \in Seq(Call), NEW replies, Completed(n, evs, replies)
    PROVE  Life'
<1>1. Told(events \o evs, FALSE)
  BY TellMore DEF Life, Turn
<1> QED BY <1>1 DEF Life, Turn, Completed

LEMMA NotEnoughLife ==
    ASSUME Life, Turn, NEW n, NotEnough(n)
    PROVE  Life'
BY DEF Life, NotEnough, SnapStopped

LEMMA ThrownLife ==
    ASSUME Life, Turn, NEW n, NEW evs \in Seq(Call), NEW replies, Thrown(n, evs, replies)
    PROVE  Life'
<1>1. isDisconnected = FALSE
  BY DEF Life, Turn
<1>2. Told((events \o evs) \o <<"Disconnect">>, TRUE)
  BY <1>1, TellMore, TellEnd DEF Life
<1>3. events' = (events \o evs) \o <<"Disconnect">>
  BY <1>1 DEF Thrown, disconnect
<1> QED BY <1>2, <1>3 DEF Life, Thrown, disconnect

LEMMA SendThrowsLife ==
    ASSUME Life, Turn, NEW n, NEW evs \in Seq(Call), NEW replies, SendThrows(n, evs, replies)
    PROVE  Life'
BY ThrownLife DEF SendThrows

LEMMA DispatchLife ==
    ASSUME Life, Turn, NEW evs \in Seq(Call), NEW replies, Dispatch(evs, replies)
    PROVE  Life'
BY CompletedLife, SendThrowsLife DEF Dispatch

LEMMA HandshakeLife ==
    ASSUME Life, Turn, NEW n, NEW replies, NEW r, NEW h, Handshake(n, replies, r, h)
    PROVE  Life'
<1> <<>> \in Seq(Call)
  OBVIOUS
<1> QED BY CompletedLife, SendThrowsLife DEF Handshake

LEMMA LifeStep == Life /\ [Next]_vars => Life'
<1> SUFFICES ASSUME Life, [Next]_vars PROVE Life'
  OBVIOUS
<1>e. /\ <<>> \in Seq(Call)
      /\ \A c \in Call : <<c>> \in Seq(Call) /\ <<c, c>> \in Seq(Call)
  OBVIOUS
<1>c. /\ "Connect" \in Call /\ "CreateStream" \in Call /\ "Publish" \in Call
      /\ "MetaData" \in Call /\ "ReceiveStream" \in Call
  BY DEF Call
<1>1. CASE ClientNext
  BY <1>1 DEF ClientNext, ClientHello, ClientMsg, Life
<1>2. CASE Receive
  BY <1>2 DEF Receive, recv, Life
<1>3. CASE recvFails
  <2>1. Told(events', TRUE) /\ pc' = "returned" /\ sockOpen' = FALSE /\ isDisconnected' = TRUE
        /\ inSnap' = inSnap
    <3>1. CASE isDisconnected
      <4>1. events' = events \o <<>> /\ events \in Seq(Call \union {"Disconnect"})
        BY <1>3, <3>1 DEF recvFails, disconnect, Life, Told
      <4>2. events' = events
        BY <4>1
      <4> QED BY <1>3, <3>1, <4>2 DEF recvFails, disconnect, Life
    <3>2. CASE ~isDisconnected
      <4>1. events' = events \o <<"Disconnect">>
        BY <1>3, <3>2 DEF recvFails, disconnect
      <4>2. isDisconnected = FALSE
        BY <3>2 DEF Life
      <4>3. Told(events \o <<"Disconnect">>, TRUE)
        BY <4>2, TellEnd DEF Life
      <4> QED BY <1>3, <4>1, <4>3 DEF recvFails, disconnect
    <3> QED BY <3>1, <3>2
  <2> QED BY <2>1 DEF Life
<1>4. CASE loopEnds
  BY <1>4 DEF loopEnds, Life
<1>5. CASE handleC0
  <2>1. Turn
    BY <1>5 DEF handleC0
  <2>2. CASE Thrown(1, <<>>, <<>>)
    BY <2>1, <2>2, <1>e, ThrownLife
  <2> QED BY <1>5, <2>1, <2>2, HandshakeLife DEF handleC0
<1>6. CASE handleC1 \/ handleC2
  BY <1>6, NotEnoughLife, HandshakeLife DEF handleC1, handleC2
<1>7. CASE noSuchCase
  BY <1>7, <1>e, CompletedLife DEF noSuchCase
<1>8. CASE waitForMore \/ onShortBody
  BY <1>8, NotEnoughLife DEF waitForMore, onShortBody
<1>9. CASE onReadConnect
  <2>1. Turn
    BY <1>9 DEF onReadConnect, Message
  <2>2. CASE Refused(<<>>) \/ Refused(<<"Connect">>)
    BY <2>1, <2>2, <1>e, <1>c, ThrownLife DEF Refused
  <2>3. CASE Completed(Taken, <<"Connect", "Connect">>, ConnectReplies)
    BY <2>1, <2>3, <1>e, <1>c, CompletedLife
  <2>4. CASE SendThrows(Taken, <<"Connect">>, ConnectReplies)
    BY <2>1, <2>4, <1>e, <1>c, SendThrowsLife
  <2> QED BY <1>9, <2>2, <2>3, <2>4 DEF onReadConnect
<1>10. CASE onReadCreateStream
  <2>1. Turn
    BY <1>10 DEF onReadCreateStream, Message
  <2>2. CASE Refused(<<"CreateStream">>)
    BY <2>1, <2>2, <1>e, <1>c, ThrownLife DEF Refused
  <2>3. CASE Dispatch(<<"CreateStream">>, <<Reply("_result", outChunkSize)>>)
    BY <2>1, <2>3, <1>e, <1>c, DispatchLife
  <2> QED BY <1>10, <2>2, <2>3 DEF onReadCreateStream
<1>11. CASE onReadPublish
  <2>1. Turn
    BY <1>11 DEF onReadPublish, Message
  <2>2. CASE Refused(<<"Publish">>)
    BY <2>1, <2>2, <1>e, <1>c, ThrownLife DEF Refused
  <2>3. CASE Dispatch(<<"Publish">>, <<Reply("onStatus", outChunkSize)>>)
    BY <2>1, <2>3, <1>e, <1>c, DispatchLife
  <2> QED BY <1>11, <2>2, <2>3 DEF onReadPublish
<1>12. CASE onReadOtherCmd \/ onReadWndAckSize
  BY <1>12, <1>e, DispatchLife DEF onReadOtherCmd, onReadWndAckSize, Message
<1>13. CASE onMediaData
  <2>1. Turn
    BY <1>13 DEF onMediaData, Message
  <2>2. PICK ev \in Call : Refused(<<ev>>) \/ Completed(Taken, <<ev>>, <<>>)
    BY <1>13, <1>c DEF onMediaData
  <2>3. CASE Refused(<<ev>>)
    BY <2>1, <2>3, <1>e, ThrownLife DEF Refused
  <2>4. CASE Completed(Taken, <<ev>>, <<>>)
    BY <2>1, <2>4, <1>e, CompletedLife
  <2> QED BY <2>2, <2>3, <2>4
<1>14. CASE onIgnored
  BY <1>14, <1>e, CompletedLife DEF onIgnored, Message
<1>15. CASE onBadMessage
  BY <1>15, <1>e, ThrownLife DEF onBadMessage, Message, Refused
<1>16. CASE onFatal \/ brokenPipe
  BY <1>16 DEF onFatal, brokenPipe, Life
<1>17. CASE over \/ UNCHANGED vars
  BY <1>17 DEF over, vars, Life
<1> QED BY <1>1, <1>2, <1>3, <1>4, <1>5, <1>6, <1>7, <1>8, <1>9, <1>10, <1>11, <1>12, <1>13,
           <1>14, <1>15, <1>16, <1>17 DEF Next, TurnNext

LEMMA LifeInit == Init => Life
<1> SUFFICES ASSUME Init PROVE Life
  OBVIOUS
<1>1. events = <<>>
  BY DEF Init
<1>2. Told(<<>>, FALSE)
  BY DEF Told
<1> QED BY <1>1, <1>2 DEF Init, Life

LEMMA LifeAlways == Spec => []Life
  BY LifeInit, LifeStep, PTL DEF Spec

\* appendData(), which throws in an open snapshot, is only called with it
\* closed: the exceptions that leave it open close the socket
\* (rtmpconnection.cpp:73-124).
THEOREM ReceivesOutsideSnap == Spec => []RecvOutsideSnap
<1>1. Life => RecvOutsideSnap
  BY DEF Life, RecvOutsideSnap
<1> QED BY <1>1, LifeAlways, PTL

\* The actor is told of the end once, and then of nothing
\* (rtmpconnection.cpp:784-803).
THEOREM EndToldOnce == Spec => []DisconnectToldOnce
<1>1. Life => DisconnectToldOnce
  BY DEF Life, Told, DisconnectToldOnce, Events
<1> QED BY <1>1, LifeAlways, PTL

-----------------------------------------------------------------------------
(* The stream of a client, as far as it was not consumed yet: h units of   *)
(* the handshake, then messages, in groups of MsgSize units each, from     *)
(* number d + 1 up to number n.                                            *)

Numbered == [kind : Kinds \union {"hello"}, id : Nat]

Groups == {u \in Seq(Numbered) : Len(u) # 0}

\* The number of the first message of a group, and the one after its last.
First(u) == u[1].id
Past(u) == First(u) + Len(u)

\* The messages of a group have consecutive numbers.
Consecutive(u) == \A j \in 1..Len(u) : u[j].id = First(u) + (j - 1)

InFlight(q, h, d, n) ==
    /\ q \in Seq(Groups) /\ h \in Nat /\ d \in Nat /\ n \in Nat
    /\ h <= Len(q)
    /\ Len(q) = h <=> n = d
    /\ Len(q) = h \/ Len(q) >= h + MsgSize
    /\ \A i \in h + 1..Len(q) : Consecutive(q[i]) /\ First(q[i]) >= d + 1 /\ Past(q[i]) <= n + 1
    /\ \A i \in 1..MsgSize : h + i <= Len(q) => First(q[h + i]) = d + 1
    /\ \A i \in h + 1..Len(q) : i + MsgSize <= Len(q) => First(q[i + MsgSize]) = Past(q[i])
    /\ \A i \in h + 1..Len(q) : i + MsgSize > Len(q) => Past(q[i]) = n + 1
    /\ \A i, j \in h + 1..Len(q) : i <= j => q[i] = q[j] \/ Past(q[i]) <= First(q[j])

LEMMA GroupNumbers ==
    ASSUME NEW u \in Groups
    PROVE  First(u) \in Nat /\ Past(u) \in Nat /\ First(u) < Past(u)
<1>1. u \in Seq(Numbered) /\ Len(u) \in Nat \ {0}
  BY DEF Groups
<1>2. u[1] \in Numbered
  BY <1>1
<1>3. First(u) \in Nat
  BY <1>2 DEF First, Numbered
<1> HIDE DEF First
<1> QED BY <1>1, <1>3 DEF Past

LEMMA DropProperties ==
    ASSUME NEW S, NEW q \in Seq(S), NEW k \in Nat, k <= Len(q)
    PROVE  /\ Drop(q, k) \in Seq(S)
           /\ Len(Drop(q, k)) = Len(q) - k
           /\ \A i \in 1..Len(q) - k : Drop(q, k)[i] = q[k + i]
BY CutProperties DEF Drop

\* The client goes on with the handshake.
LEMMA MoreHello ==
    ASSUME NEW q, NEW h, NEW d, InFlight(q, h, d, d), NEW t \in Seq(Groups)
    PROVE  InFlight(q \o t, h + Len(t), d, d)
<1>1. q \in Seq(Groups) /\ Len(q) = h
  BY DEF InFlight
<1> DEFINE u == q \o t
           k == h + Len(t)
<1>2. u \in Seq(Groups) /\ Len(u) = k /\ Len(t) \in Nat /\ k \in Nat
  BY <1>1
<1>3. d \in Nat /\ MsgSize \in Nat \ {0}
  BY ConnectionAssumption DEF InFlight, ConnectionAssumption
<1> HIDE DEF u, k
<1>4. \A i \in k + 1..Len(u) : FALSE
  BY <1>2
<1>5. \A i \in 1..MsgSize : ~(k + i <= Len(u))
  BY <1>2, <1>3
<1>6. InFlight(u, k, d, d)
  BY <1>2, <1>3, <1>4, <1>5 DEF InFlight
<1> QED BY <1>6 DEF u, k

\* The client sends one more message, with those nested in it.
LEMMA MoreMessages ==
    ASSUME NEW q, NEW h, NEW d, NEW n, InFlight(q, h, d, n), d <= n,
           NEW g \in Groups, Consecutive(g), First(g) = n + 1,
           NEW t \in Seq(Groups), Len(t) = MsgSize, \A i \in 1..MsgSize : t[i] = g
    PROVE  InFlight(q \o t, h, d, n + Len(g))
<1> DEFINE u == q \o t
           m == n + Len(g)
<1>0. MsgSize \in Nat \ {0} /\ h \in Nat /\ d \in Nat /\ n \in Nat /\ m \in Nat /\ m > n
      /\ Past(g) = m + 1
  <2>1. Len(g) \in Nat \ {0}
    BY DEF Groups
  <2>2. n \in Nat /\ h \in Nat /\ d \in Nat
    BY DEF InFlight
  <2> QED BY <2>1, <2>2, ConnectionAssumption DEF ConnectionAssumption, Past
<1> HIDE DEF m
<1>1. q \in Seq(Groups) /\ Len(q) \in Nat /\ h <= Len(q)
  BY DEF InFlight
<1>2. /\ u \in Seq(Groups) /\ Len(u) = Len(q) + MsgSize
      /\ \A i \in 1..Len(q) : u[i] = q[i]
  BY <1>1
<1>3. \A i \in Len(q) + 1..Len(u) : u[i] = g
  <2> TAKE i \in Len(q) + 1..Len(u)
  <2>1. i - Len(q) \in 1..MsgSize
    BY <1>0, <1>1, <1>2
  <2>2. u[i] = t[i - Len(q)]
    BY <1>0, <1>1, <1>2, <2>1
  <2> QED BY <2>1, <2>2
<1> HIDE DEF u
<1>o. \A i \in h + 1..Len(q) : /\ u[i] = q[i] /\ q[i] \in Groups
                               /\ Consecutive(q[i]) /\ First(q[i]) >= d + 1 /\ Past(q[i]) <= n + 1
                               /\ First(q[i]) \in Nat /\ Past(q[i]) \in Nat
  <2> TAKE i \in h + 1..Len(q)
  <2>1. i \in 1..Len(q)
    BY <1>0, <1>1
  <2>2. u[i] = q[i] /\ q[i] \in Groups
    <3>1. u[i] = q[i]
      BY <1>2, <2>1
    <3>2. q[i] \in Groups
      BY <1>1, <2>1
    <3> QED BY <3>1, <3>2
  <2>3. First(q[i]) \in Nat /\ Past(q[i]) \in Nat
    BY <2>2, GroupNumbers
  <2>4. Consecutive(q[i]) /\ First(q[i]) >= d + 1 /\ Past(q[i]) <= n + 1
    BY DEF InFlight
  <2> QED BY <2>2, <2>3, <2>4
<1>s. \A i \in h + 1..Len(u) : i \in h + 1..Len(q) \/ i \in Len(q) + 1..Len(u)
  BY <1>0, <1>1, <1>2
<1>4. \A i \in h + 1..Len(u) : Consecutive(u[i]) /\ First(u[i]) >= d + 1 /\ Past(u[i]) <= m + 1
  <2> TAKE i \in h + 1..Len(u)
  <2>1. CASE i \in h + 1..Len(q)
    <3>1. u[i] = q[i] /\ Consecutive(q[i]) /\ First(q[i]) >= d + 1
      BY <2>1, <1>o
    <3>2. Past(q[i]) <= n + 1 /\ Past(q[i]) \in Nat
      BY <2>1, <1>o
    <3>3. Past(q[i]) <= m + 1
      BY <3>2, <1>0
    <3> QED BY <3>1, <3>3
  <2>2. CASE i \in Len(q) + 1..Len(u)
    <3>1. u[i] = g
      BY <2>2, <1>3
    <3>2. First(g) >= d + 1 /\ Past(g) <= m + 1
      BY <1>0
    <3> QED BY <3>1, <3>2
  <2> QED BY <2>1, <2>2, <1>s
<1>5. \A i \in 1..MsgSize : h + i <= Len(u) => First(u[h + i]) = d + 1
  <2> TAKE i \in 1..MsgSize
  <2>1. CASE Len(q) = h
    <3>1. n = d /\ h + i \in Len(q) + 1..Len(u)
      BY <2>1, <1>0, <1>2 DEF InFlight
    <3> QED BY <3>1, <1>3
  <2>2. CASE Len(q) >= h + MsgSize
    <3>1. h + i \in h + 1..Len(q) /\ First(q[h + i]) = d + 1
      BY <2>2, <1>0, <1>1 DEF InFlight
    <3> QED BY <3>1, <1>o
  <2> QED BY <2>1, <2>2 DEF InFlight
<1>6. \A i \in h + 1..Len(u) : i + MsgSize <= Len(u) => First(u[i + MsgSize]) = Past(u[i])
  <2> TAKE i \in h + 1..Len(u)
  <2> HAVE i + MsgSize <= Len(u)
  <2>0. i \in h + 1..Len(q) /\ i + MsgSize \in h + 1..Len(u)
    BY <1>0, <1>1, <1>2
  <2>1. CASE i + MsgSize <= Len(q)
    <3>1. First(q[i + MsgSize]) = Past(q[i])
      BY <2>0, <2>1 DEF InFlight
    <3>2. i + MsgSize \in h + 1..Len(q)
      BY <2>0, <2>1, <1>0, <1>1
    <3> QED BY <2>0, <3>1, <3>2, <1>o
  <2>2. CASE i + MsgSize > Len(q)
    <3>1. Past(q[i]) = n + 1
      BY <2>0, <2>2 DEF InFlight
    <3>2. i + MsgSize \in Len(q) + 1..Len(u)
      BY <2>0, <2>2, <1>0, <1>1, <1>2
    <3> QED BY <2>0, <3>1, <3>2, <1>o, <1>3
  <2> QED BY <2>0, <2>1, <2>2, <1>0, <1>1
<1>7. \A i \in h + 1..Len(u) : i + MsgSize > Len(u) => Past(u[i]) = m + 1
  <2> TAKE i \in h + 1..Len(u)
  <2> HAVE i + MsgSize > Len(u)
  <2>1. i \in Len(q) + 1..Len(u)
    BY <1>0, <1>1, <1>2
  <2> QED BY <2>1, <1>0, <1>3
<1>8. h <= Len(u) /\ Len(u) # h /\ m # d /\ Len(u) >= h + MsgSize
  BY <1>0, <1>1, <1>2
<1>9. \A i, j \in h + 1..Len(u) : i <= j => u[i] = u[j] \/ Past(u[i]) <= First(u[j])
  <2> TAKE i, j \in h + 1..Len(u)
  <2> HAVE i <= j
  <2>1. CASE j \in h + 1..Len(q)
    <3>1. i \in h + 1..Len(q)
      BY <2>1, <1>0, <1>1
    <3>2. q[i] = q[j] \/ Past(q[i]) <= First(q[j])
      BY <2>1, <3>1 DEF InFlight
    <3> QED BY <2>1, <3>1, <3>2, <1>o
  <2>2. CASE i \in h + 1..Len(q) /\ j \in Len(q) + 1..Len(u)
    <3>1. Past(q[i]) <= n + 1 /\ u[i] = q[i]
      BY <2>2, <1>o
    <3>2. u[j] = g
      BY <2>2, <1>3
    <3> QED BY <3>1, <3>2
  <2>3. CASE i \in Len(q) + 1..Len(u) /\ j \in Len(q) + 1..Len(u)
    BY <2>3, <1>3
  <2> QED BY <2>1, <2>2, <2>3, <1>s
<1>10. InFlight(u, h, d, m)
  BY <1>0, <1>2, <1>4, <1>5, <1>6, <1>7, <1>8, <1>9 DEF InFlight
<1> QED BY <1>10 DEF u, m

\* k units of the handshake are consumed.
LEMMA TakeHello ==
    ASSUME NEW q, NEW h, NEW d, NEW n, InFlight(q, h, d, n), NEW k \in Nat, k <= h
    PROVE  InFlight(Drop(q, k), h - k, d, n)
<1> DEFINE u == Drop(q, k)
<1> MsgSize \in Nat \ {0}
  BY ConnectionAssumption DEF ConnectionAssumption
<1> h \in Nat /\ d \in Nat /\ n \in Nat /\ h - k \in Nat
  BY DEF InFlight
<1>1. q \in Seq(Groups) /\ Len(q) \in Nat /\ k <= Len(q)
  BY DEF InFlight
<1>2. /\ u \in Seq(Groups) /\ Len(u) = Len(q) - k
      /\ \A i \in 1..Len(q) - k : u[i] = q[k + i]
  BY <1>1, DropProperties
<1> HIDE DEF u
<1>l. Len(u) = Len(q) - k
  BY <1>2
<1>3. \A i \in h - k + 1..Len(u) : k + i \in h + 1..Len(q) /\ u[i] = q[k + i]
  BY <1>1, <1>2
<1>4. \A i \in h - k + 1..Len(u) : Consecutive(u[i]) /\ First(u[i]) >= d + 1 /\ Past(u[i]) <= n + 1
  BY <1>3 DEF InFlight
<1>5. \A i \in 1..MsgSize : h - k + i <= Len(u) => First(u[h - k + i]) = d + 1
  <2> TAKE i \in 1..MsgSize
  <2> HAVE h - k + i <= Len(u)
  <2>1. h + i <= Len(q) /\ h - k + i \in 1..Len(q) - k /\ k + (h - k + i) = h + i
    BY <1>1, <1>l
  <2>2. First(q[h + i]) = d + 1
    BY <2>1 DEF InFlight
  <2>3. u[h - k + i] = q[k + (h - k + i)]
    BY <2>1, <1>2
  <2> QED BY <2>1, <2>2, <2>3
<1>6. \A i \in h - k + 1..Len(u) : i + MsgSize <= Len(u) => First(u[i + MsgSize]) = Past(u[i])
  <2> TAKE i \in h - k + 1..Len(u)
  <2> HAVE i + MsgSize <= Len(u)
  <2>0. (k + i) + MsgSize <= Len(q)
    <3>1. i + MsgSize <= Len(q) - k /\ i \in Int /\ MsgSize \in Int /\ k \in Int /\ Len(q) \in Int
      BY <1>1, <1>l
    <3> QED BY <3>1
  <2>1. k + i \in h + 1..Len(q) /\ (k + i) + MsgSize <= Len(q) /\ u[i] = q[k + i]
    BY <2>0, <1>3
  <2>2. First(q[(k + i) + MsgSize]) = Past(q[k + i])
    BY <2>1 DEF InFlight
  <2>3. i + MsgSize \in 1..Len(q) - k /\ k + (i + MsgSize) = (k + i) + MsgSize
    BY <1>1, <1>l
  <2> QED BY <2>1, <2>2, <2>3, <1>2
<1>7. \A i \in h - k + 1..Len(u) : i + MsgSize > Len(u) => Past(u[i]) = n + 1
  <2> TAKE i \in h - k + 1..Len(u)
  <2> HAVE i + MsgSize > Len(u)
  <2>0. (k + i) + MsgSize > Len(q)
    <3>1. i + MsgSize > Len(q) - k /\ i \in Int /\ MsgSize \in Int /\ k \in Int /\ Len(q) \in Int
      BY <1>1, <1>l
    <3> QED BY <3>1
  <2>1. k + i \in h + 1..Len(q) /\ (k + i) + MsgSize > Len(q) /\ u[i] = q[k + i]
    BY <2>0, <1>3
  <2> QED BY <2>1 DEF InFlight
<1>8. /\ h - k <= Len(u) /\ (Len(u) = h - k <=> n = d)
      /\ Len(u) = h - k \/ Len(u) >= h - k + MsgSize
  BY <1>1, <1>2 DEF InFlight
<1>9. \A i, j \in h - k + 1..Len(u) : i <= j => u[i] = u[j] \/ Past(u[i]) <= First(u[j])
  <2> TAKE i, j \in h - k + 1..Len(u)
  <2> HAVE i <= j
  <2>1. /\ k + i \in h + 1..Len(q) /\ u[i] = q[k + i]
        /\ k + j \in h + 1..Len(q) /\ u[j] = q[k + j]
        /\ k + i <= k + j
    BY <1>3
  <2>2. q[k + i] = q[k + j] \/ Past(q[k + i]) <= First(q[k + j])
    BY <2>1 DEF InFlight
  <2> QED BY <2>1, <2>2
<1>10. InFlight(u, h - k, d, n)
  BY <1>2, <1>4, <1>5, <1>6, <1>7, <1>8, <1>9 DEF InFlight
<1> QED BY <1>10 DEF u

\* A group of messages is consumed: it is the next one.
LEMMA TakeMessage ==
    ASSUME NEW q, NEW d, NEW n, InFlight(q, 0, d, n), MsgSize <= Len(q)
    PROVE  /\ q[1] \in Groups /\ Consecutive(q[1]) /\ First(q[1]) = d + 1
           /\ InFlight(Drop(q, MsgSize), 0, d + Len(q[1]), n)
<1> DEFINE M == MsgSize
           u == Drop(q, M)
           e == d + Len(q[1])
<1>0. M \in Nat \ {0} /\ d \in Nat /\ n \in Nat
  BY ConnectionAssumption DEF ConnectionAssumption, InFlight
<1>1. q \in Seq(Groups) /\ Len(q) \in Nat /\ M <= Len(q)
  BY DEF InFlight
<1>2. /\ u \in Seq(Groups) /\ Len(u) = Len(q) - M
      /\ \A i \in 1..Len(q) - M : u[i] = q[M + i]
  BY <1>0, <1>1, DropProperties
<1>3. /\ \A i \in 1..Len(q) : Consecutive(q[i]) /\ First(q[i]) >= d + 1 /\ Past(q[i]) <= n + 1
      /\ \A i \in 1..M : i <= Len(q) => First(q[i]) = d + 1
      /\ \A i \in 1..Len(q) : i + M <= Len(q) => First(q[i + M]) = Past(q[i])
      /\ \A i \in 1..Len(q) : i + M > Len(q) => Past(q[i]) = n + 1
      /\ \A i, j \in 1..Len(q) : i <= j => q[i] = q[j] \/ Past(q[i]) <= First(q[j])
  <2>1. \A i \in 1..M : 0 + i = i
    OBVIOUS
  <2>2. 0 + 1 = 1
    OBVIOUS
  <2> QED BY <2>1, <2>2 DEF InFlight
<1>4. \A i \in 1..Len(q) : /\ q[i] \in Groups /\ First(q[i]) \in Nat /\ Past(q[i]) \in Nat
                           /\ First(q[i]) < Past(q[i])
  BY <1>1, GroupNumbers
<1>5. 1 \in 1..Len(q) /\ 1 \in 1..M
  BY <1>0, <1>1
<1>6. q[1] \in Groups /\ Consecutive(q[1]) /\ First(q[1]) = d + 1 /\ Len(q[1]) \in Nat
  BY <1>1, <1>3, <1>4, <1>5 DEF Groups
<1>7. e \in Nat /\ Past(q[1]) = e + 1
  <2>1. Past(q[1]) = First(q[1]) + Len(q[1])
    BY DEF Past
  <2> DEFINE l == Len(q[1])
             f == First(q[1])
  <2>2. l \in Nat /\ f = d + 1 /\ Past(q[1]) = f + l
    BY <2>1, <1>6
  <2> HIDE DEF l, f
  <2>3. d + l \in Nat /\ Past(q[1]) = (d + l) + 1
    BY <2>2, <1>0
  <2> QED BY <2>3 DEF l
<1> HIDE DEF u, e, M
<1>8. \A i \in 1..Len(q) : Past(q[i]) >= e + 1
  <2> TAKE i \in 1..Len(q)
  <2>1. q[1] = q[i] \/ Past(q[1]) <= First(q[i])
    BY <1>3, <1>5
  <2> QED BY <2>1, <1>4, <1>7
<1>9. \A i \in 1..M : Past(q[i]) = e + 1
  <2> TAKE i \in 1..M
  <2>1. i \in 1..Len(q) /\ First(q[i]) = d + 1
    BY <1>0, <1>1, <1>3
  <2>2. q[1] = q[i] \/ Past(q[1]) <= First(q[i])
    BY <2>1, <1>3, <1>5
  <2>3. ~(Past(q[1]) <= First(q[i]))
    BY <2>1, <1>4, <1>5, <1>6
  <2> QED BY <2>2, <2>3, <1>7
<1>10. \A i \in 1..Len(u) : /\ i \in 1..Len(q) /\ i + M \in 1..Len(q)
                            /\ u[i] = q[i + M] /\ First(u[i]) = Past(q[i])
  <2> TAKE i \in 1..Len(u)
  <2>1. i \in 1..Len(q) /\ i + M \in 1..Len(q) /\ i + M = M + i /\ i \in 1..Len(q) - M
    BY <1>0, <1>1, <1>2
  <2>2. u[i] = q[i + M]
    BY <2>1, <1>2
  <2>3. First(q[i + M]) = Past(q[i])
    BY <2>1, <1>3
  <2> QED BY <2>1, <2>2, <2>3
<1>11. Len(u) = 0 <=> n = e
  <2>1. CASE Len(q) = M
    <3>1. Past(q[1]) = n + 1 /\ Len(u) = 0
      BY <2>1, <1>0, <1>2, <1>3, <1>5
    <3> QED BY <3>1, <1>0, <1>7
  <2>2. CASE Len(q) > M
    <3>1. Len(u) # 0 /\ 1 \in 1..Len(u)
      BY <2>2, <1>0, <1>1, <1>2
    <3>2. First(u[1]) = e + 1 /\ u[1] = q[1 + M] /\ 1 + M \in 1..Len(q)
      BY <3>1, <1>7, <1>10
    <3>3. Past(q[1 + M]) <= n + 1 /\ First(q[1 + M]) < Past(q[1 + M])
          /\ Past(q[1 + M]) \in Nat
      BY <3>2, <1>3, <1>4
    <3> QED BY <3>1, <3>2, <3>3, <1>0, <1>7
  <2> QED BY <2>1, <2>2, <1>0, <1>1
<1>12. Len(u) = 0 \/ Len(u) >= 0 + M
  <2> SUFFICES ASSUME Len(q) > M, Len(q) < M + M PROVE FALSE
    BY <1>0, <1>1, <1>2
  <2> DEFINE i == Len(q) - M + 1
  <2>1. i \in 1..M /\ i \in 1..Len(q) /\ i + M > Len(q)
    BY <1>0, <1>1
  <2> HIDE DEF i
  <2>2. Past(q[i]) = n + 1 /\ Past(q[i]) = e + 1
    BY <2>1, <1>3, <1>9
  <2>3. Len(u) # 0 /\ n = e
    BY <2>2, <1>0, <1>1, <1>2, <1>7
  <2> QED BY <2>3, <1>11
<1>13. \A i \in 1..Len(u) : Consecutive(u[i]) /\ First(u[i]) >= e + 1 /\ Past(u[i]) <= n + 1
  BY <1>3, <1>8, <1>10
<1>14. \A i \in 1..M : i <= Len(u) => First(u[i]) = e + 1
  <2> TAKE i \in 1..M
  <2> HAVE i <= Len(u)
  <2>1. i \in 1..Len(u)
    BY <1>0, <1>2
  <2> QED BY <2>1, <1>9, <1>10
<1>15. \A i \in 1..Len(u) : i + M <= Len(u) => First(u[i + M]) = Past(u[i])
  <2> TAKE i \in 1..Len(u)
  <2> HAVE i + M <= Len(u)
  <2>1. i + M \in 1..Len(u)
    BY <1>0, <1>1, <1>2
  <2> QED BY <2>1, <1>10
<1>16. \A i \in 1..Len(u) : i + M > Len(u) => Past(u[i]) = n + 1
  <2> TAKE i \in 1..Len(u)
  <2> HAVE i + M > Len(u)
  <2>1. i + M \in 1..Len(q) /\ u[i] = q[i + M] /\ (i + M) + M > Len(q)
    BY <1>0, <1>1, <1>2, <1>10
  <2> QED BY <2>1, <1>3
<1>17. \A i, j \in 1..Len(u) : i <= j => u[i] = u[j] \/ Past(u[i]) <= First(u[j])
  <2> TAKE i, j \in 1..Len(u)
  <2> HAVE i <= j
  <2>1. i + M \in 1..Len(q) /\ j + M \in 1..Len(q) /\ u[i] = q[i + M] /\ u[j] = q[j + M]
    BY <1>10
  <2>2. i + M <= j + M
    BY <1>0
  <2> QED BY <2>1, <2>2, <1>3
<1>18. 0 <= Len(u) /\ Len(u) \in Nat /\ 0 + 1 = 1
  BY <1>2
<1>19. InFlight(u, 0, e, n)
  <2>1. \A i \in 1..M : 0 + i = i
    BY <1>0
  <2> QED BY <2>1, <1>0, <1>2, <1>7, <1>11, <1>12, <1>13, <1>14, <1>15, <1>16, <1>17, <1>18
           DEF InFlight, M
<1> QED BY <1>6, <1>19 DEF u, e, M

-----------------------------------------------------------------------------
(* The invariant: what is in rb_ and on the wire goes on where the state   *)
(* of the connection has left off, behind what is in msgsBuffer_.          *)

HelloSent ==
    IF hello = 0 THEN 0
    ELSE IF hello = 1 THEN 1
    ELSE IF hello = 2 THEN 1 + HandshakeSize
    ELSE 1 + HandshakeSize + HandshakeSize

HelloRead ==
    IF rcs = "Normal_Exchange" THEN 1 + HandshakeSize + HandshakeSize
    ELSE IF hss = "Uninitialized" THEN 0
    ELSE IF hss = "VersionSent" THEN 1
    ELSE 1 + HandshakeSize

Serving == alive /\ sockOpen

\* The messages that were read, dispatched or in msgsBuffer_.
Parsed == Len(handled) + Len(msgs)

InSequence ==
    /\ hello \in 0..3 /\ msgsSent \in Nat
    /\ hello < 3 => msgsSent = 0
    /\ rb \in Seq(Groups) /\ wire \in Seq(Groups)
    /\ handled \in Seq(Nat) /\ HandledOnceInOrder
    /\ msgs \in Seq(Numbered) /\ \A j \in 1..Len(msgs) : msgs[j].id = Len(handled) + j
    /\ Parsed <= msgsSent
    /\ Serving =>
         /\ rcs # "Normal_Exchange" => handled = <<>> /\ msgs = <<>>
         /\ InFlight(rb \o wire, HelloSent - HelloRead, Parsed, msgsSent)

LEMMA ParsedType == InSequence => Parsed \in Nat /\ Len(handled) \in Nat /\ Len(msgs) \in Nat
BY DEF InSequence, Parsed

LEMMA UnitsAre ==
    ASSUME NEW g \in Groups, NEW n \in Nat
    PROVE  /\ Units(g, n) \in Seq(Groups)
           /\ Len(Units(g, n)) = n
           /\ \A i \in 1..n : Units(g, n)[i] = g
BY DEF Units

\* The messages that are sent together are numbered one after the other.
LEMMA GroupIs ==
    ASSUME NEW kind \in Kinds, NEW inner \in Inner, NEW id \in Nat
    PROVE  /\ Group(kind, inner, id) \in Groups
           /\ Consecutive(Group(kind, inner, id))
           /\ First(Group(kind, inner, id)) = id
           /\ Len(Group(kind, inner, id)) = 1 + Len(inner)
           /\ Len(inner) \in Nat
<1>1. PICK n \in 0..MaxNested : inner \in [1..n -> NestedKinds]
  BY DEF Inner
<1>2. n \in Nat /\ NestedKinds \subseteq Kinds
  BY ConnectionAssumption DEF ConnectionAssumption
<1>3. inner \in Seq(Kinds) /\ Len(inner) = n /\ DOMAIN inner = 1..n
      /\ \A i \in 1..n : inner[i] \in Kinds
  BY <1>1, <1>2
<1> DEFINE a == <<Msg(kind, id)>>
           b == Nested(inner, id)
           g == a \o b
<1>4. \A k \in Kinds, i \in Nat : Msg(k, i) \in Numbered /\ Msg(k, i).id = i
  BY DEF Msg, Numbered
<1>5. b = [i \in 1..n |-> Msg(inner[i], id + i)]
  BY <1>3 DEF Nested
<1>6. \A i \in 1..n : b[i] \in Numbered /\ b[i].id = id + i
  <2> TAKE i \in 1..n
  <2>1. b[i] = Msg(inner[i], id + i) /\ inner[i] \in Kinds /\ id + i \in Nat
    BY <1>2, <1>3, <1>5
  <2> QED BY <2>1, <1>4
<1>7. b \in Seq(Numbered) /\ Len(b) = n
  <2>1. b \in [1..n -> Numbered]
    BY <1>5, <1>6
  <2> QED BY <2>1, <1>2
<1>8. a \in Seq(Numbered) /\ Len(a) = 1 /\ a[1].id = id
  BY <1>4
<1> HIDE DEF a, b
<1>9. /\ g \in Seq(Numbered) /\ Len(g) = 1 + n
      /\ g[1] = a[1]
      /\ \A i \in 1..n : g[i + 1] = b[i]
  <2>1. /\ g \in Seq(Numbered) /\ Len(g) = 1 + n
        /\ \A i \in 1..1 + n : g[i] = IF i <= 1 THEN a[i] ELSE b[i - 1]
    <3>1. /\ g \in Seq(Numbered) /\ Len(g) = Len(a) + Len(b)
          /\ \A i \in 1..Len(a) + Len(b) : g[i] = IF i <= Len(a) THEN a[i] ELSE b[i - Len(a)]
      BY <1>7, <1>8, ConcatProperties, Zenon
    <3> HIDE DEF g
    <3> QED BY <3>1, <1>7, <1>8
  <2>2. 1 \in 1..1 + n /\ \A i \in 1..n : i + 1 \in 1..1 + n /\ i + 1 > 1 /\ (i + 1) - 1 = i
    BY <1>2
  <2> HIDE DEF g
  <2> QED BY <2>1, <2>2
<1> HIDE DEF g
<1>10. First(g) = id
  BY <1>8, <1>9 DEF First
<1>11. \A j \in 1..Len(g) : g[j].id = id + (j - 1)
  <2> TAKE j \in 1..Len(g)
  <2>1. CASE j = 1
    BY <2>1, <1>8, <1>9
  <2>2. CASE j # 1
    <3> DEFINE i == j - 1
    <3>1. i \in 1..n /\ j = i + 1
      BY <2>2, <1>2, <1>9
    <3> HIDE DEF i
    <3>2. g[j] = b[i] /\ b[i].id = id + i
      BY <3>1, <1>6, <1>9
    <3> QED BY <3>2 DEF i
  <2> QED BY <2>1, <2>2
<1>12. g \in Groups
  BY <1>2, <1>9 DEF Groups
<1>13. g = Group(kind, inner, id)
  BY DEF g, a, b, Group
<1> QED BY <1>2, <1>3, <1>9, <1>10, <1>11, <1>12, <1>13 DEF Consecutive

LEMMA SequenceInit == Init => InSequence
<1> SUFFICES ASSUME Init PROVE InSequence
  OBVIOUS
<1>1. rb = <<>> /\ wire = <<>> /\ handled = <<>> /\ msgs = <<>> /\ hello = 0 /\ msgsSent = 0
      /\ rcs = "Uninitialized" /\ hss = "Uninitialized"
  BY DEF Init
<1>2. <<>> \in Seq(Groups) /\ <<>> \in Seq(Numbered) /\ <<>> \in Seq(Nat) /\ Len(<<>>) = 0
      /\ <<>> \o <<>> = <<>>
  OBVIOUS
<1>3. HelloSent - HelloRead = 0 /\ Parsed = 0
  BY <1>1 DEF HelloSent, HelloRead, Parsed
<1>4. InFlight(<<>>, 0, 0, 0)
  BY <1>2, ConnectionAssumption DEF InFlight, ConnectionAssumption
<1> QED BY <1>1, <1>2, <1>3, <1>4 DEF InSequence, HandledOnceInOrder

\* What neither consumes nor sends keeps the sequence.
LEMMA IdleSequence ==
    ASSUME InSequence, UNCHANGED <<client, handled, msgs, state>>,
           rb' \in Seq(Groups), wire' \in Seq(Groups),
           Serving' => Serving /\ rb' \o wire' = rb \o wire
    PROVE  InSequence'
BY DEF InSequence, HandledOnceInOrder, Parsed, HelloSent, HelloRead, client, state

\* The end of the connection, or of the process, keeps what was dispatched.
LEMMA EndSequence ==
    ASSUME InSequence, UNCHANGED <<client, handled, msgs, wire>>, rb' \in Seq(Groups), ~Serving'
    PROVE  InSequence'
BY DEF InSequence, HandledOnceInOrder, Parsed, client

LEMMA DropRb ==
    ASSUME InSequence, NEW n \in Nat, n <= Len(rb)
    PROVE  /\ Drop(rb, n) \in Seq(Groups)
           /\ Drop(rb, n) \o wire = Drop(rb \o wire, n)
           /\ n <= Len(rb \o wire)
           /\ rb # <<>> => (rb \o wire)[1] = rb[1]
<1>1. rb \in Seq(Groups) /\ wire \in Seq(Groups)
  BY DEF InSequence
<1>2. Len(rb) \in Nat /\ Len(rb \o wire) = Len(rb) + Len(wire) /\ Len(wire) \in Nat
  BY <1>1
<1>3. Drop(rb, n) \o wire = Drop(rb \o wire, n)
  BY <1>1, CutAppend DEF Drop
<1>4. rb # <<>> => (rb \o wire)[1] = rb[1]
  BY <1>1
<1> QED BY <1>1, <1>2, <1>3, <1>4, DropProperties

\* A part of the handshake is consumed.
LEMMA HelloSequence ==
    ASSUME InSequence, Serving, rcs # "Normal_Exchange",
           NEW n \in Nat, n <= Len(rb), HelloRead + n <= 1 + HandshakeSize + HandshakeSize,
           rb' = Drop(rb, n), UNCHANGED <<client, wire, handled, msgs>>,
           Serving' => HelloRead' = HelloRead + n
    PROVE  InSequence'
<1>1. Drop(rb, n) \in Seq(Groups)
  BY DropRb
<1>2. CASE ~Serving'
  BY <1>1, <1>2, EndSequence
<1>3. CASE Serving'
  <2> DEFINE q == rb \o wire
             h == HelloSent - HelloRead
             d == Parsed
  <2>1. InFlight(q, h, d, msgsSent) /\ d <= msgsSent /\ handled = <<>> /\ msgs = <<>> /\ d = 0
    BY DEF InSequence, Parsed
  <2>2. HandshakeSize \in Nat /\ HelloRead \in Nat /\ h \in Nat
    BY <2>1, ConnectionAssumption DEF ConnectionAssumption, HelloRead, InFlight
  <2>3. n <= h
    <3>1. CASE hello = 3
      BY <3>1, <2>2 DEF HelloSent
    <3>2. CASE hello # 3
      <4>1. msgsSent = 0
        BY <3>2 DEF InSequence
      <4>2. Len(q) = h
        BY <4>1, <2>1 DEF InFlight
      <4> QED BY <4>2, DropRb
    <3> QED BY <3>1, <3>2
  <2>4. InFlight(Drop(q, n), h - n, d, msgsSent)
    BY <2>1, <2>3, TakeHello
  <2>5. HelloSent' - HelloRead' = h - n
    <3>1. HelloSent' = HelloSent /\ HelloSent \in Nat
      BY <2>2 DEF HelloSent, client
    <3> QED BY <3>1, <2>2, <1>3
  <2>6. rb' \o wire' = Drop(q, n) /\ Parsed' = d
    BY DropRb DEF Parsed
  <2> HIDE DEF h, q, d
  <2> QED BY <1>1, <2>1, <2>4, <2>5, <2>6 DEF InSequence, HandledOnceInOrder, client
<1> QED BY <1>2, <1>3

\* A message is returned from rb_: those nested in it go to msgsBuffer_, which
\* was empty.
LEMMA ReadSequence ==
    ASSUME InSequence, Serving, rcs = "Normal_Exchange", UNCHANGED <<client, wire, state>>,
           msgs = <<>>, MsgSize <= Len(rb), rb' = Drop(rb, MsgSize),
           handled' = Append(handled, Head(Head(rb)).id), msgs' = Tail(Head(rb))
    PROVE  InSequence'
<1> DEFINE q == rb \o wire
           d == Len(handled)
           g == q[1]
<1>0. MsgSize \in Nat \ {0} /\ HandshakeSize \in Nat /\ d \in Nat /\ Parsed = d
      /\ handled \in Seq(Nat) /\ rb \in Seq(Groups) /\ rb # <<>>
  BY ConnectionAssumption DEF ConnectionAssumption, InSequence, Parsed
<1>1. HelloSent - HelloRead = 0 /\ InFlight(q, 0, d, msgsSent)
  <2>1. InFlight(q, HelloSent - HelloRead, d, msgsSent)
    BY <1>0 DEF InSequence
  <2>2. HelloSent - HelloRead = 0
    BY <1>0, <2>1 DEF InFlight, HelloSent, HelloRead, InSequence
  <2> QED BY <2>1, <2>2
<1>2. /\ Drop(rb, MsgSize) \in Seq(Groups)
      /\ Drop(rb, MsgSize) \o wire = Drop(q, MsgSize)
      /\ MsgSize <= Len(q) /\ g = rb[1]
  BY <1>0, DropRb
<1>3. /\ g \in Groups /\ Consecutive(g) /\ First(g) = d + 1
      /\ InFlight(Drop(q, MsgSize), 0, d + Len(g), msgsSent)
  BY <1>1, <1>2, TakeMessage
<1>4. g = Head(rb) /\ g \in Seq(Numbered) /\ Len(g) \in Nat \ {0}
  BY <1>0, <1>2, <1>3 DEF Groups
<1> HIDE DEF g, q, d
<1>5. Head(g) = g[1] /\ \A j \in 1..Len(g) : g[j].id = (d + 1) + (j - 1)
  BY <1>3, <1>4 DEF Consecutive
<1>6. Head(g).id = d + 1
  BY <1>3, <1>5 DEF First
<1>7. /\ Tail(g) \in Seq(Numbered) /\ Len(Tail(g)) = Len(g) - 1
      /\ \A j \in 1..Len(g) - 1 : Tail(g)[j] = g[j + 1]
  BY <1>4
<1>8. \A j \in 1..Len(g) - 1 : Tail(g)[j].id = (d + 1) + j
  <2> TAKE j \in 1..Len(g) - 1
  <2>1. j + 1 \in 1..Len(g) /\ (j + 1) - 1 = j
    BY <1>4
  <2> QED BY <2>1, <1>5, <1>7
<1>9. handled' = Append(handled, d + 1) /\ msgs' = Tail(g)
  BY <1>4, <1>6
<1>10. handled' \in Seq(Nat) /\ Len(handled') = d + 1 /\ HandledOnceInOrder'
  <2>1. \A i \in DOMAIN handled' : handled'[i] = i
    BY <1>0, <1>9 DEF InSequence, HandledOnceInOrder, d
  <2> QED BY <1>0, <1>9, <2>1 DEF HandledOnceInOrder, d
<1>11. /\ msgs' \in Seq(Numbered)
       /\ \A j \in 1..Len(msgs') : msgs'[j].id = Len(handled') + j
  BY <1>7, <1>8, <1>9, <1>10
<1>12. Parsed' = d + Len(g)
  <2>1. Len(handled') = d + 1 /\ Len(msgs') = Len(g) - 1
    BY <1>7, <1>9, <1>10
  <2> DEFINE l == Len(g)
  <2>2. Parsed' = (d + 1) + (l - 1)
    BY <2>1 DEF Parsed
  <2>3. l \in Nat
    BY <1>4
  <2> HIDE DEF l
  <2>4. Parsed' = d + l
    BY <2>2, <2>3, <1>0
  <2> QED BY <2>4 DEF l
<1>13. d + Len(g) <= msgsSent
  <2>1. Past(g) <= msgsSent + 1
    <3>1. 1 \in 0 + 1..Len(q)
      BY <1>0, <1>1, <1>2 DEF InFlight
    <3> QED BY <3>1, <1>1 DEF InFlight, g
  <2>2. Past(g) = First(g) + Len(g)
    BY DEF Past
  <2> DEFINE l == Len(g)
             f == First(g)
  <2>3. l \in Nat /\ f = d + 1 /\ f + l <= msgsSent + 1 /\ msgsSent \in Nat
    BY <2>1, <2>2, <1>3, <1>4 DEF InSequence
  <2> HIDE DEF l, f
  <2>4. d + l <= msgsSent
    BY <2>3, <1>0
  <2> QED BY <2>4 DEF l
<1>14. HelloSent' - HelloRead' = 0 /\ rcs' = "Normal_Exchange"
  BY <1>1 DEF HelloSent, HelloRead, client, state
<1>15. rb' \in Seq(Groups) /\ rb' \o wire' = Drop(q, MsgSize)
  BY <1>2
<1> QED BY <1>3, <1>10, <1>11, <1>12, <1>13, <1>14, <1>15 DEF InSequence, client

\* A message is returned from msgsBuffer_.
LEMMA BufferedSequence ==
    ASSUME InSequence, Serving, rcs = "Normal_Exchange", UNCHANGED <<client, wire, state>>,
           msgs # <<>>, rb' = rb,
           handled' = Append(handled, Head(msgs).id), msgs' = Tail(msgs)
    PROVE  InSequence'
<1> DEFINE d == Len(handled)
<1>0. d \in Nat /\ handled \in Seq(Nat) /\ msgs \in Seq(Numbered) /\ Len(msgs) \in Nat \ {0}
      /\ \A j \in 1..Len(msgs) : msgs[j].id = d + j
  BY DEF InSequence
<1>1. Head(msgs) = msgs[1] /\ Head(msgs).id = d + 1
  BY <1>0
<1>2. /\ msgs' \in Seq(Numbered) /\ Len(msgs') = Len(msgs) - 1
      /\ \A j \in 1..Len(msgs) - 1 : j + 1 \in 1..Len(msgs) /\ msgs'[j] = msgs[j + 1]
  BY <1>0
<1> HIDE DEF d
<1>3. handled' = Append(handled, d + 1)
  BY <1>1
<1>4. handled' \in Seq(Nat) /\ Len(handled') = d + 1 /\ HandledOnceInOrder'
  <2>1. /\ DOMAIN handled = 1..d /\ DOMAIN handled' = 1..d + 1 /\ handled'[d + 1] = d + 1
        /\ \A i \in 1..d : handled'[i] = handled[i]
    BY <1>0, <1>3 DEF d
  <2>2. \A i \in 1..d : handled[i] = i
    BY <2>1 DEF InSequence, HandledOnceInOrder
  <2>3. \A i \in DOMAIN handled' : handled'[i] = i
    BY <2>1, <2>2, <1>0
  <2> QED BY <1>0, <1>3, <2>3 DEF HandledOnceInOrder, d
<1>5. \A j \in 1..Len(msgs') : msgs'[j].id = Len(handled') + j
  <2> TAKE j \in 1..Len(msgs')
  <2>1. j \in 1..Len(msgs) - 1
    BY <1>2
  <2>2. j + 1 \in 1..Len(msgs) /\ msgs'[j] = msgs[j + 1]
    BY <2>1, <1>2
  <2>3. msgs[j + 1].id = d + (j + 1)
    BY <2>2, <1>0
  <2>4. d + (j + 1) = (d + 1) + j
    BY <1>0
  <2> QED BY <2>2, <2>3, <2>4, <1>4
<1>6. Parsed' = Parsed
  <2> DEFINE l == Len(msgs)
  <2>1. Parsed = d + l /\ Parsed' = (d + 1) + (l - 1) /\ l \in Nat
    BY <1>0, <1>2, <1>4 DEF Parsed, d
  <2> HIDE DEF l
  <2> QED BY <2>1, <1>0
<1>7. HelloSent' = HelloSent /\ HelloRead' = HelloRead /\ rcs' = "Normal_Exchange"
  BY DEF HelloSent, HelloRead, client, state
<1>8. /\ rb' \in Seq(Groups) /\ rb' \o wire' = rb \o wire
      /\ InFlight(rb \o wire, HelloSent - HelloRead, Parsed, msgsSent)
  BY DEF InSequence
<1>9. HelloSent' - HelloRead' = HelloSent - HelloRead
  BY <1>7
<1> QED BY <1>2, <1>4, <1>5, <1>6, <1>7, <1>8, <1>9 DEF InSequence, client

\* A message is dispatched: it is the next one, also if that is the last thing
\* the connection does.
LEMMA MessageSequence ==
    ASSUME Life, InSequence, NEW kinds, Message(kinds), UNCHANGED <<client, wire>>,
           rb' = Drop(rb, Taken)
    PROVE  InSequence'
<1>1. Serving /\ rcs = "Normal_Exchange" /\ UNCHANGED state /\ Ready
      /\ handled' = Append(handled, Head(queue).id) /\ msgs' = Tail(queue)
  BY DEF Message, Turn, Serving, Life, msg
<1>2. CASE msgs = <<>>
  <2>1. queue = Head(rb) /\ Taken = MsgSize /\ MsgSize <= Len(rb)
    <3>1. Len(rb) >= MsgSize /\ MsgSize \in Nat /\ Len(rb) \in Nat
      BY <1>1, <1>2, ConnectionAssumption DEF Ready, ConnectionAssumption, InSequence
    <3> QED BY <3>1, <1>2 DEF queue, Taken
  <2> QED BY <1>1, <1>2, <2>1, ReadSequence
<1>3. CASE msgs # <<>>
  <2>1. queue = msgs /\ rb' = rb
    BY <1>3 DEF queue, Taken, Drop, InSequence
  <2> QED BY <1>1, <1>3, <2>1, BufferedSequence
<1> QED BY <1>2, <1>3

LEMMA HandshakeSequence ==
    ASSUME Life, InSequence, Turn, NEW n \in Nat, n <= Len(rb), NEW replies, NEW r, NEW h,
           rcs # "Normal_Exchange", HelloRead + n <= 1 + HandshakeSize + HandshakeSize,
           rcs' = r /\ hss' = h => HelloRead' = HelloRead + n,
           Handshake(n, replies, r, h)
    PROVE  InSequence'
<1>1. Serving
  BY DEF Turn, Serving, Life
<1>2. rb' = Drop(rb, n) /\ UNCHANGED <<client, wire, handled, msgs>>
  BY DEF Handshake, Completed, SendThrows, Thrown
<1>3. Serving' => HelloRead' = HelloRead + n
  BY DEF Handshake, Completed, SendThrows, Thrown, disconnect, Serving
<1> QED BY <1>1, <1>2, <1>3, HelloSequence

LEMMA ClientSequence == InSequence /\ ClientNext => InSequence'
<1> SUFFICES ASSUME InSequence, ClientNext PROVE InSequence'
  OBVIOUS
<1> DEFINE q == rb \o wire
           h == HelloSent - HelloRead
           d == Parsed
<1>0. /\ rb \in Seq(Groups) /\ wire \in Seq(Groups) /\ d \in Nat
      /\ HandshakeSize \in Nat \ {0} /\ MsgSize \in Nat \ {0}
  BY ConnectionAssumption, ParsedType DEF ConnectionAssumption, InSequence
<1>1. CASE ClientHello
  <2> DEFINE n == IF hello = 0 THEN 1 ELSE HandshakeSize
  <2>1. PICK version \in {0, 3, 6} : wire' = wire \o Units(<<Msg("hello", version)>>, n)
    BY <1>1 DEF ClientHello
  <2> DEFINE g == <<Msg("hello", version)>>
             t == Units(g, n)
  <2>2. n \in Nat /\ g \in Groups
    BY <1>0 DEF Groups, Msg, Numbered
  <2> HIDE DEF n, g
  <2>3. t \in Seq(Groups) /\ Len(t) = n
    BY <2>2, UnitsAre
  <2> HIDE DEF t
  <2>4. hello \in 0..2 /\ hello' = hello + 1 /\ UNCHANGED <<msgsSent, rb, handled, msgs, state>>
        /\ Serving' = Serving
    BY <1>1 DEF ClientHello, Serving, InSequence
  <2>5. msgsSent = 0
    BY <2>4 DEF InSequence
  <2>6. wire' = wire \o t
    BY <2>1 DEF t, g
  <2>7. wire' \in Seq(Groups) /\ rb' \o wire' = q \o t
    BY <2>3, <2>4, <2>6, <1>0
  <2>8. HelloRead' = HelloRead /\ HelloSent' = HelloSent + n /\ Parsed' = d
    BY <2>4 DEF HelloRead, HelloSent, state, Parsed, n
  <2>9. Serving => InFlight(q, h, d, msgsSent) /\ d = 0
    BY <2>5, <1>0 DEF InSequence
  <2>10. Serving => InFlight(q \o t, h + n, d, msgsSent)
    BY <2>3, <2>5, <2>9, MoreHello
  <2>11. HelloSent' - HelloRead' = h + n
    <3>1. HelloSent \in Nat /\ HelloRead \in Nat
      BY <1>0 DEF HelloSent, HelloRead
    <3> QED BY <3>1, <2>2, <2>8
  <2>12. d <= msgsSent
    BY DEF InSequence
  <2> HIDE DEF q, h, d
  <2> QED BY <2>4, <2>5, <2>7, <2>8, <2>9, <2>10, <2>11, <2>12
           DEF InSequence, HandledOnceInOrder, state
<1>2. CASE \E kind \in Kinds, inner \in Inner : ClientMsg(kind, inner)
  <2>1. PICK kind \in Kinds, inner \in Inner : ClientMsg(kind, inner)
    BY <1>2
  <2> DEFINE id == msgsSent + 1
             g == Group(kind, inner, id)
             t == Units(g, MsgSize)
  <2>2. msgsSent \in Nat /\ hello = 3 /\ id \in Nat
    BY <2>1 DEF ClientMsg, InSequence
  <2>3. /\ g \in Groups /\ Consecutive(g) /\ First(g) = id
        /\ Len(g) = 1 + Len(inner) /\ Len(inner) \in Nat
    <3> HIDE DEF id
    <3> QED BY <2>2, GroupIs
  <2> HIDE DEF g
  <2>4. t \in Seq(Groups) /\ Len(t) = MsgSize /\ \A i \in 1..MsgSize : t[i] = g
    BY <2>3, <1>0, UnitsAre
  <2>5. /\ msgsSent' = msgsSent + 1 + Len(inner) /\ wire' = wire \o t
        /\ UNCHANGED <<hello, rb, handled, msgs, state>> /\ Serving' = Serving
    BY <2>1 DEF ClientMsg, Serving, g
  <2> HIDE DEF t
  <2>6. msgsSent' = msgsSent + Len(g) /\ msgsSent' \in Nat /\ msgsSent' >= msgsSent
    <3> DEFINE l == Len(inner)
    <3>1. l \in Nat /\ msgsSent' = msgsSent + 1 + l /\ Len(g) = 1 + l
      BY <2>3, <2>5
    <3> HIDE DEF l
    <3> QED BY <3>1, <2>2
  <2>7. wire' \in Seq(Groups) /\ rb' \o wire' = q \o t
    BY <2>4, <2>5, <1>0, SMTT(30)
  <2>8. HelloSent' - HelloRead' = h /\ Parsed' = d
    BY <2>5 DEF HelloSent, HelloRead, state, Parsed
  <2>9. (Serving => InFlight(q, h, d, msgsSent)) /\ d <= msgsSent
    BY DEF InSequence
  <2> HIDE DEF q, h, d
  <2>10. Serving => InFlight(q \o t, h, d, msgsSent')
    BY <2>3, <2>4, <2>6, <2>9, MoreMessages
  <2>11. d <= msgsSent'
    BY <2>2, <2>6, <2>9, <1>0
  <2> QED BY <2>2, <2>5, <2>6, <2>7, <2>8, <2>10, <2>11
           DEF InSequence, HandledOnceInOrder, state
<1> QED BY <1>1, <1>2 DEF ClientNext

LEMMA RecvSequence == InSequence /\ Receive => InSequence'
<1> SUFFICES ASSUME InSequence, Receive PROVE InSequence'
  OBVIOUS
<1>1. PICK n \in 1..RecvSize : recv(n)
  BY DEF Receive
<1>2. n \in Nat /\ n <= Len(wire) /\ rb \in Seq(Groups) /\ wire \in Seq(Groups)
  BY <1>1, ConnectionAssumption DEF recv, InSequence, ConnectionAssumption
<1>3. rb' = rb \o SubSeq(wire, 1, n) /\ wire' = Drop(wire, n)
  BY <1>1 DEF recv
<1>4. rb' \o wire' = rb \o wire
  BY <1>2, <1>3, CutMove DEF Drop
<1>5. rb' \in Seq(Groups) /\ wire' \in Seq(Groups)
  <2>1. SubSeq(wire, 1, n) \in Seq(Groups)
    <3>1. SubSeq(wire, 0 + 1, n) \in Seq(Groups)
      BY <1>2, CutProperties
    <3> QED BY <3>1
  <2> QED BY <2>1, <1>2, <1>3, DropProperties
<1>6. UNCHANGED <<client, handled, msgs, state>> /\ (Serving' => Serving)
  BY <1>1 DEF recv, Serving
<1> QED BY <1>4, <1>5, <1>6, IdleSequence

LEMMA HelloStep ==
    ASSUME Life, InSequence, handleC0 \/ handleC1 \/ handleC2 \/ noSuchCase
    PROVE  InSequence'
<1> HandshakeSize \in Nat \ {0}
  BY ConnectionAssumption DEF ConnectionAssumption
<1>0. rb \in Seq(Groups) /\ Len(rb) \in Nat /\ wire \in Seq(Groups)
  BY DEF InSequence
<1>1. CASE handleC0
  <2>1. Turn /\ rcs # "Normal_Exchange" /\ HelloRead = 0 /\ Len(rb) >= 1
    BY <1>0, <1>1 DEF handleC0, Turn, HelloRead
  <2>2. CASE Thrown(1, <<>>, <<>>) /\ UNCHANGED <<handled, msgs>>
    <3>1. ~Serving' /\ rb' = Drop(rb, 1) /\ UNCHANGED <<client, wire, handled, msgs>>
      BY <2>2 DEF Thrown, disconnect, Serving
    <3> QED BY <2>1, <3>1, DropRb, EndSequence
  <2>3. CASE Handshake(1, <<S0, S1>>, "HandShake", "VersionSent")
    BY <2>1, <2>3, HandshakeSequence DEF HelloRead
  <2>4. CASE Ahead(1) /\ Handshake(1 + HandshakeSize, <<S0, S1, S2>>, "HandShake", AfterEagerC1)
    <3>1. 1 + HandshakeSize <= Len(rb)
      BY <1>0, <2>4 DEF Ahead
    <3> QED BY <2>1, <2>4, <3>1, HandshakeSequence DEF HelloRead, AfterEagerC1
  <2>5. CASE /\ Ahead(1 + HandshakeSize)
             /\ Handshake(1 + 2 * HandshakeSize, <<S0, S1, S2>>, "Normal_Exchange", AfterEagerC1)
    <3>1. 1 + 2 * HandshakeSize <= Len(rb) /\ 1 + 2 * HandshakeSize \in Nat
          /\ 1 + 2 * HandshakeSize = 1 + HandshakeSize + HandshakeSize
      BY <1>0, <2>5 DEF Ahead
    <3> QED BY <2>1, <2>5, <3>1, HandshakeSequence DEF HelloRead
  <2> QED BY <1>1, <2>2, <2>3, <2>4, <2>5 DEF handleC0
<1>2. CASE handleC1
  <2>1. Turn /\ rcs # "Normal_Exchange" /\ HelloRead = 1
    BY <1>2 DEF handleC1, HelloRead
  <2>2. CASE NotEnough(Len(rb))
    BY <1>0, <2>2, IdleSequence DEF NotEnough, PutBack, restoreContext, Serving, client, state
  <2>3. CASE Len(rb) >= HandshakeSize /\ Handshake(HandshakeSize, <<S2>>, "HandShake", AfterC1)
    BY <2>1, <2>3, HandshakeSequence DEF HelloRead, AfterC1
  <2>4. CASE /\ Ahead(HandshakeSize)
             /\ Handshake(2 * HandshakeSize, <<S2>>, "Normal_Exchange", "HandshakeDone")
    <3>1. 2 * HandshakeSize <= Len(rb) /\ 2 * HandshakeSize \in Nat
          /\ 1 + 2 * HandshakeSize = 1 + HandshakeSize + HandshakeSize
      BY <1>0, <2>4 DEF Ahead
    <3> QED BY <2>1, <2>4, <3>1, HandshakeSequence DEF HelloRead
  <2> QED BY <1>2, <2>2, <2>3, <2>4 DEF handleC1
<1>3. CASE handleC2
  <2>1. Turn /\ rcs # "Normal_Exchange" /\ HelloRead = 1 + HandshakeSize
    BY <1>3 DEF handleC2, HelloRead
  <2>2. CASE NotEnough(Len(rb))
    BY <1>0, <2>2, IdleSequence DEF NotEnough, PutBack, restoreContext, Serving, client, state
  <2>3. CASE /\ Len(rb) >= HandshakeSize
             /\ Handshake(HandshakeSize, <<>>, "Normal_Exchange", "HandshakeDone")
    BY <2>1, <2>3, HandshakeSequence DEF HelloRead
  <2> QED BY <1>3, <2>2, <2>3 DEF handleC2
<1>4. CASE noSuchCase
  <2>1. rb' = Drop(rb, 0) /\ UNCHANGED <<client, handled, msgs, state, wire>> /\ Serving' = Serving
    BY <1>4 DEF noSuchCase, Completed, Serving
  <2>2. Drop(rb, 0) = rb
    BY <1>0 DEF Drop
  <2> QED BY <1>0, <2>1, <2>2, IdleSequence
<1> QED BY <1>1, <1>2, <1>3, <1>4

\* How a turn that dispatches a message ends.
LEMMA DispatchEnds ==
    ASSUME NEW evs, NEW replies, Dispatch(evs, replies)
    PROVE  rb' = Drop(rb, Taken) /\ UNCHANGED <<client, wire>>
BY DEF Dispatch, Completed, SendThrows, Thrown

LEMMA SequenceStep == Life /\ InSequence /\ [Next]_vars => InSequence'
<1> SUFFICES ASSUME Life, InSequence, [Next]_vars PROVE InSequence'
  OBVIOUS
<1>0. rb \in Seq(Groups) /\ wire \in Seq(Groups)
  BY DEF InSequence
<1>1. CASE ClientNext
  BY <1>1, ClientSequence
<1>2. CASE Receive
  BY <1>2, RecvSequence
<1>3. CASE recvFails \/ loopEnds \/ brokenPipe
  BY <1>0, <1>3, IdleSequence DEF recvFails, loopEnds, brokenPipe, disconnect, Serving
<1>4. CASE handleC0 \/ handleC1 \/ handleC2 \/ noSuchCase
  BY <1>4, HelloStep
<1>5. CASE waitForMore \/ onShortBody
  BY <1>0, <1>5, IdleSequence
     DEF waitForMore, onShortBody, NotEnough, PutBack, restoreContext, Serving
<1>6. CASE onReadConnect
  <2>1. Message({"connect"})
    BY <1>6 DEF onReadConnect
  <2>2. rb' = Drop(rb, Taken) /\ UNCHANGED <<client, wire>>
    BY <1>6 DEF onReadConnect, Refused, Completed, SendThrows, Thrown
  <2> QED BY <2>1, <2>2, MessageSequence
<1>7. CASE onReadCreateStream
  <2>1. Message({"createStream"})
    BY <1>7 DEF onReadCreateStream
  <2>2. rb' = Drop(rb, Taken) /\ UNCHANGED <<client, wire>>
    BY <1>7, DispatchEnds DEF onReadCreateStream, Refused, Thrown
  <2> QED BY <2>1, <2>2, MessageSequence
<1>8. CASE onReadPublish
  <2>1. Message({"publish"})
    BY <1>8 DEF onReadPublish
  <2>2. rb' = Drop(rb, Taken) /\ UNCHANGED <<client, wire>>
    BY <1>8, DispatchEnds DEF onReadPublish, Refused, Thrown
  <2> QED BY <2>1, <2>2, MessageSequence
<1>9. CASE onReadOtherCmd
  <2>1. Message({"cmd"})
    BY <1>9 DEF onReadOtherCmd
  <2>2. rb' = Drop(rb, Taken) /\ UNCHANGED <<client, wire>>
    BY <1>9, DispatchEnds DEF onReadOtherCmd
  <2> QED BY <2>1, <2>2, MessageSequence
<1>10. CASE onMediaData
  <2>1. Message({"media", "metaData"})
    BY <1>10 DEF onMediaData
  <2>2. rb' = Drop(rb, Taken) /\ UNCHANGED <<client, wire>>
    BY <1>10 DEF onMediaData, Refused, Thrown, Completed
  <2> QED BY <2>1, <2>2, MessageSequence
<1>11. CASE onIgnored
  <2>1. Message({"data", "setChunkSize"})
    BY <1>11 DEF onIgnored
  <2>2. rb' = Drop(rb, Taken) /\ UNCHANGED <<client, wire>>
    BY <1>11 DEF onIgnored, Completed
  <2> QED BY <2>1, <2>2, MessageSequence
<1>12. CASE onReadWndAckSize
  <2>1. Message({"wndAckSize", "other"})
    BY <1>12 DEF onReadWndAckSize
  <2>2. rb' = Drop(rb, Taken) /\ UNCHANGED <<client, wire>>
    BY <1>12, DispatchEnds DEF onReadWndAckSize
  <2> QED BY <2>1, <2>2, MessageSequence
<1>13. CASE onBadMessage
  <2>1. Message({"unknown", "bad", "amf3"})
    BY <1>13 DEF onBadMessage
  <2>2. rb' = Drop(rb, Taken) /\ UNCHANGED <<client, wire>>
    BY <1>13 DEF onBadMessage, Refused, Thrown
  <2> QED BY <2>1, <2>2, MessageSequence
<1>14. CASE onFatal
  <2>1. Message({"fatal"})
    BY <1>14 DEF onFatal
  <2>2. rb' = Drop(rb, Taken) /\ UNCHANGED <<client, wire>>
    BY <1>14 DEF onFatal
  <2> QED BY <2>1, <2>2, MessageSequence
<1>15. CASE over \/ UNCHANGED vars
  BY <1>0, <1>15, IdleSequence DEF over, vars, Serving
<1> QED BY <1>1, <1>2, <1>3, <1>4, <1>5, <1>6, <1>7, <1>8, <1>9, <1>10, <1>11, <1>12, <1>13,
           <1>14, <1>15 DEF Next, TurnNext

\* However the stream is cut, however messages are nested, and however often
\* what was read is put back, each message is dispatched once, in the order in
\* which they begin (rtmpconnection.cpp:83-124, 171-239, 287-404,
\* rtmpparser.cpp:47-67, 192-200).
THEOREM MessagesInOrder == Spec => []HandledOnceInOrder
<1>1. InSequence => HandledOnceInOrder
  BY DEF InSequence
<1> QED BY <1>1, LifeAlways, SequenceInit, SequenceStep, PTL DEF Spec

-----------------------------------------------------------------------------
(* What the client is sent.                                                *)

ReplyType ==
    [msg : {"S0", "S1", "S2", "ack", "WndAckSize", "SetPeerBandwidth", "SetChunkSize",
            "_result", "onStatus", "onBWDone"},
     chunk : {0, 128, 1024}]

\* Replies that do not change the size of chunks, and are cut as that says.
Plain(t, size) ==
    /\ t \in Seq(ReplyType)
    /\ \A i \in DOMAIN t : t[i].msg # "SetChunkSize" /\ t[i].chunk \in {0, size}

SizeAt(s, i) == IF \E j \in 1..i - 1 : s[j].msg = "SetChunkSize" THEN 1024 ELSE 128

AsAnnounced(s) == \A i \in DOMAIN s : s[i].chunk \in {0, SizeAt(s, i)}

LEMMA PlainReplies ==
    ASSUME NEW s \in Seq(ReplyType), AsAnnounced(s),
           NEW t, Plain(t, SizeAt(s, Len(s) + 1))
    PROVE  /\ s \o t \in Seq(ReplyType)
           /\ AsAnnounced(s \o t)
           /\ SizeAt(s \o t, Len(s \o t) + 1) = SizeAt(s, Len(s) + 1)
<1> DEFINE u == s \o t
           size == SizeAt(s, Len(s) + 1)
<1>1. t \in Seq(ReplyType)
  BY DEF Plain
<1>2. /\ u \in Seq(ReplyType) /\ Len(s) \in Nat /\ Len(t) \in Nat
      /\ Len(u) = Len(s) + Len(t) /\ DOMAIN u = 1..Len(s) + Len(t)
      /\ DOMAIN s = 1..Len(s) /\ DOMAIN t = 1..Len(t)
      /\ \A i \in 1..Len(s) : u[i] = s[i]
  BY <1>1
<1>3. \A i \in Len(s) + 1..Len(u) : i - Len(s) \in 1..Len(t) /\ u[i] = t[i - Len(s)]
  BY <1>1, <1>2
<1>4. \A i \in Len(s) + 1..Len(u) : u[i].msg # "SetChunkSize" /\ u[i].chunk \in {0, size}
  BY <1>2, <1>3 DEF Plain
<1>5. \A i \in 1..Len(s) : SizeAt(u, i) = SizeAt(s, i)
  BY <1>2 DEF SizeAt
<1>6. \A i \in Len(s) + 1..Len(u) + 1 : SizeAt(u, i) = size
  <2> TAKE i \in Len(s) + 1..Len(u) + 1
  <2>1. (\E j \in 1..i - 1 : u[j].msg = "SetChunkSize")
           <=> (\E j \in 1..Len(s) : s[j].msg = "SetChunkSize")
    <3>1. ASSUME NEW j \in 1..i - 1, u[j].msg = "SetChunkSize"
          PROVE  \E jj \in 1..Len(s) : s[jj].msg = "SetChunkSize"
      <4>1. j \in 1..Len(s)
        BY <3>1, <1>2, <1>4
      <4> QED BY <3>1, <4>1, <1>2
    <3>2. ASSUME NEW j \in 1..Len(s), s[j].msg = "SetChunkSize"
          PROVE  \E jj \in 1..i - 1 : u[jj].msg = "SetChunkSize"
      <4>1. j \in 1..i - 1
        BY <1>2
      <4> QED BY <3>2, <4>1, <1>2
    <3> QED BY <3>1, <3>2
  <2>2. (Len(s) + 1) - 1 = Len(s)
    BY <1>2
  <2> QED BY <2>1, <2>2 DEF SizeAt
<1>7. \A i \in DOMAIN u : u[i].chunk \in {0, SizeAt(u, i)}
  <2> TAKE i \in DOMAIN u
  <2>1. CASE i <= Len(s)
    <3>1. i \in 1..Len(s)
      BY <2>1, <1>2
    <3> QED BY <3>1, <1>2, <1>5 DEF AsAnnounced
  <2>2. CASE i > Len(s)
    <3>1. i \in Len(s) + 1..Len(u) /\ i \in Len(s) + 1..Len(u) + 1
      BY <2>2, <1>2
    <3> QED BY <3>1, <1>4, <1>6
  <2> QED BY <2>1, <2>2, <1>2
<1>8. Len(u) + 1 \in Len(s) + 1..Len(u) + 1
  BY <1>2
<1> QED BY <1>2, <1>6, <1>7, <1>8 DEF AsAnnounced

LEMMA SetChunkSize ==
    ASSUME NEW s \in Seq(ReplyType), AsAnnounced(s)
    PROVE  LET u == s \o <<Reply("SetChunkSize", 0)>>
           IN  u \in Seq(ReplyType) /\ AsAnnounced(u) /\ SizeAt(u, Len(u) + 1) = 1024
<1> DEFINE u == s \o <<Reply("SetChunkSize", 0)>>
<1>1. /\ u \in Seq(ReplyType) /\ Len(s) \in Nat
      /\ Len(u) = Len(s) + 1 /\ DOMAIN u = 1..Len(s) + 1 /\ DOMAIN s = 1..Len(s)
      /\ \A i \in 1..Len(s) : u[i] = s[i]
      /\ u[Len(s) + 1] = Reply("SetChunkSize", 0)
  BY DEF ReplyType, Reply
<1>2. \A i \in 1..Len(s) : SizeAt(u, i) = SizeAt(s, i)
  BY <1>1 DEF SizeAt
<1>3. \A i \in DOMAIN u : u[i].chunk \in {0, SizeAt(u, i)}
  BY <1>1, <1>2 DEF AsAnnounced, Reply
<1>4. SizeAt(u, Len(u) + 1) = 1024
  <2>1. Len(s) + 1 \in 1..(Len(u) + 1) - 1 /\ u[Len(s) + 1].msg = "SetChunkSize"
    BY <1>1 DEF Reply
  <2> QED BY <2>1 DEF SizeAt
<1> QED BY <1>1, <1>3, <1>4 DEF AsAnnounced

\* Replies are cut as announced; the next one will be, if there is one.
Announced ==
    /\ sent \in Seq(ReplyType) /\ outChunkSize \in {128, 1024}
    /\ AsAnnounced(sent)
    /\ Serving => outChunkSize = SizeAt(sent, Len(sent) + 1)

LEMMA SilentAnnounced ==
    ASSUME Announced, UNCHANGED <<sent, outChunkSize>>, Serving' => Serving
    PROVE  Announced'
BY DEF Announced

LEMMA PlainAnnounced ==
    ASSUME Announced, Serving, NEW t, Plain(t, outChunkSize),
           sent' = sent \o t, UNCHANGED outChunkSize
    PROVE  Announced'
<1>1. Plain(t, SizeAt(sent, Len(sent) + 1)) /\ sent \in Seq(ReplyType) /\ AsAnnounced(sent)
  BY DEF Announced
<1>2. /\ sent' \in Seq(ReplyType) /\ AsAnnounced(sent')
      /\ SizeAt(sent', Len(sent') + 1) = SizeAt(sent, Len(sent) + 1)
  BY <1>1, PlainReplies
<1> QED BY <1>2 DEF Announced

LEMMA PlainPrefix ==
    ASSUME NEW t, NEW size, Plain(t, size), NEW k \in 0..Len(t) - 1
    PROVE  Plain(SubSeq(t, 1, k), size)
<1>1. t \in Seq(ReplyType) /\ k \in Nat /\ k <= Len(t) /\ Len(t) \in Nat
  BY DEF Plain
<1>2. /\ SubSeq(t, 0 + 1, k) \in Seq(ReplyType) /\ Len(SubSeq(t, 0 + 1, k)) = k - 0
      /\ \A i \in 1..k - 0 : SubSeq(t, 0 + 1, k)[i] = t[0 + i]
  BY <1>1, CutProperties
<1>3. /\ SubSeq(t, 1, k) \in Seq(ReplyType) /\ DOMAIN SubSeq(t, 1, k) = 1..k
      /\ \A i \in 1..k : i \in DOMAIN t /\ SubSeq(t, 1, k)[i] = t[i]
  BY <1>1, <1>2
<1> QED BY <1>3 DEF Plain

LEMMA PlainEnds ==
    ASSUME Announced, Serving, NEW n, NEW evs, NEW replies, Plain(replies, outChunkSize),
           \/ Completed(n, evs, replies)
           \/ SendThrows(n, evs, replies)
           \/ Thrown(n, evs, replies),
           UNCHANGED outChunkSize
    PROVE  Announced'
<1>1. CASE Completed(n, evs, replies) \/ Thrown(n, evs, replies)
  BY <1>1, PlainAnnounced DEF Completed, Thrown
<1>2. CASE SendThrows(n, evs, replies)
  <2>1. PICK k \in 0..Len(replies) - 1 : Thrown(n, evs, SubSeq(replies, 1, k))
    BY <1>2 DEF SendThrows
  <2>2. sent' = sent \o SubSeq(replies, 1, k)
    BY <2>1 DEF Thrown
  <2> QED BY <2>2, PlainPrefix, PlainAnnounced
<1> QED BY <1>1, <1>2

\* One reply, or none, and the handshake's.
LEMMA PlainKinds ==
    ASSUME Announced
    PROVE  /\ Plain(<<>>, outChunkSize)
           /\ \A m \in {"_result", "onStatus", "onBWDone"} :
                 Plain(<<Reply(m, outChunkSize)>>, outChunkSize)
           /\ Plain(<<Reply("ack", 0)>>, outChunkSize)
           /\ Plain(<<S0, S1>>, outChunkSize)
           /\ Plain(<<S0, S1, S2>>, outChunkSize)
           /\ Plain(<<S2>>, outChunkSize)
<1>1. outChunkSize \in {128, 1024}
  BY DEF Announced
<1>2. \A m \in {"_result", "onStatus", "onBWDone"} :
         LET r == Reply(m, outChunkSize)
         IN  r \in ReplyType /\ r.msg # "SetChunkSize" /\ r.chunk \in {0, outChunkSize}
  BY <1>1 DEF Reply, ReplyType
<1>3. \A m \in {"ack", "S0", "S1", "S2"} :
         LET r == Reply(m, 0)
         IN  r \in ReplyType /\ r.msg # "SetChunkSize" /\ r.chunk \in {0, outChunkSize}
  BY DEF Reply, ReplyType
<1>4. \A r \in ReplyType : r.msg # "SetChunkSize" /\ r.chunk \in {0, outChunkSize}
                             => Plain(<<r>>, outChunkSize)
  BY DEF Plain
<1>5. S0 = Reply("S0", 0) /\ S1 = Reply("S1", 0) /\ S2 = Reply("S2", 0)
  BY DEF S0, S1, S2
<1>6. Plain(<<S0, S1>>, outChunkSize) /\ Plain(<<S0, S1, S2>>, outChunkSize)
  BY <1>3, <1>5 DEF Plain
<1>7. Plain(<<>>, outChunkSize)
  BY DEF Plain
<1> QED BY <1>2, <1>3, <1>4, <1>5, <1>6, <1>7

LEMMA ConnectAnnounced ==
    ASSUME Life, Announced, onReadConnect
    PROVE  Announced'
<1>0. Serving /\ sent \in Seq(ReplyType) /\ AsAnnounced(sent)
  BY DEF onReadConnect, Message, Turn, Life, Serving, Announced
<1>1. CASE Refused(<<>>) \/ Refused(<<"Connect">>)
  BY <1>0, <1>1, PlainEnds, PlainKinds DEF Refused, config
<1> DEFINE c1 == <<Reply("WndAckSize", 0), Reply("SetPeerBandwidth", 0)>>
           c2 == <<Reply("SetChunkSize", 0)>>
           c3 == <<Reply("_result", 1024)>>
           s1 == sent \o c1
           s2 == s1 \o c2
           s3 == s2 \o c3
<1>2. Plain(c1, SizeAt(sent, Len(sent) + 1)) /\ Plain(c3, 1024)
  BY DEF Plain, Reply, ReplyType
<1>3. s1 \in Seq(ReplyType) /\ AsAnnounced(s1)
  <2> HIDE DEF c1
  <2>1. sent \in Seq(ReplyType) /\ AsAnnounced(sent) /\ Plain(c1, SizeAt(sent, Len(sent) + 1))
    BY <1>0, <1>2
  <2> QED BY <2>1, PlainReplies, Zenon
<1>4. s2 \in Seq(ReplyType) /\ AsAnnounced(s2) /\ SizeAt(s2, Len(s2) + 1) = 1024
  <2> HIDE DEF s1
  <2> QED BY <1>3, SetChunkSize
<1>5. s3 \in Seq(ReplyType) /\ AsAnnounced(s3) /\ SizeAt(s3, Len(s3) + 1) = 1024
  <2> HIDE DEF s2, c3
  <2>1. Plain(c3, SizeAt(s2, Len(s2) + 1))
    BY <1>2, <1>4
  <2> QED BY <2>1, <1>4, PlainReplies
<1>6. s3 = sent \o ConnectReplies /\ s2 = sent \o SubSeq(ConnectReplies, 1, 3)
      /\ s1 = sent \o SubSeq(ConnectReplies, 1, 2)
  BY <1>0, SMTT(30) DEF ConnectReplies, Reply, ReplyType
<1>7. CASE Completed(Taken, <<"Connect", "Connect">>, ConnectReplies)
  <2>1. sent' = s3
    BY <1>6, <1>7 DEF Completed
  <2>2. Len(sent') >= Len(sent) + 2
    BY <1>0, <1>6, <2>1 DEF ConnectReplies
  <2>3. outChunkSize' = 1024
    BY <1>7, <2>2 DEF onReadConnect, Refused, Completed, Thrown, disconnect
  <2> QED BY <1>5, <2>1, <2>3 DEF Announced
<1>8. CASE SendThrows(Taken, <<"Connect">>, ConnectReplies)
  <2>1. PICK k \in 0..3 : sent' = sent \o SubSeq(ConnectReplies, 1, k)
    <3>1. PICK k \in 0..Len(ConnectReplies) - 1 :
             Thrown(Taken, <<"Connect">>, SubSeq(ConnectReplies, 1, k))
      BY <1>8 DEF SendThrows
    <3>2. sent' = sent \o SubSeq(ConnectReplies, 1, k)
      BY <3>1 DEF Thrown
    <3>3. Len(ConnectReplies) = 4
      BY DEF ConnectReplies
    <3>4. k \in 0..3
      BY <3>3
    <3> QED BY <3>2, <3>4
  <2>2. sent' \in Seq(ReplyType) /\ AsAnnounced(sent')
    <3> DEFINE c0 == SubSeq(ConnectReplies, 1, k)
    <3>1. CASE k = 3 \/ k = 2
      BY <2>1, <3>1, <1>3, <1>4, <1>6, ZenonT(60)
    <3>2. CASE k = 0 \/ k = 1
      <4>1. ConnectReplies \in Seq(ReplyType) /\ Len(ConnectReplies) = 4
            /\ ConnectReplies[1] = Reply("WndAckSize", 0)
        BY DEF ConnectReplies, Reply, ReplyType
      <4>2. /\ SubSeq(ConnectReplies, 0 + 1, k) \in Seq(ReplyType)
            /\ Len(SubSeq(ConnectReplies, 0 + 1, k)) = k - 0
            /\ \A i \in 1..k - 0 : SubSeq(ConnectReplies, 0 + 1, k)[i] = ConnectReplies[0 + i]
        <5>1. 0 \in Nat /\ k \in Nat /\ 0 <= k /\ k <= Len(ConnectReplies)
          BY <4>1, <3>2
        <5>2. ConnectReplies \in Seq(ReplyType)
          BY <4>1
        <5> HIDE DEF s1, s2, s3, c1, c2, c3, c0
        <5> QED BY <5>1, <5>2, CutProperties, Zenon
      <4>3. Plain(c0, SizeAt(sent, Len(sent) + 1))
        <5>0. c0 \in Seq(ReplyType) /\ Len(c0) = k /\ \A i \in 1..k : c0[i] = ConnectReplies[i]
          BY <3>2, <4>2
        <5> HIDE DEF c0
        <5>1. c0 \in Seq(ReplyType) /\ DOMAIN c0 = 1..k
              /\ \A i \in 1..k : c0[i] = Reply("WndAckSize", 0)
          BY <3>2, <4>1, <5>0
        <5> HIDE DEF c0
        <5> QED BY <5>1 DEF Plain, Reply
      <4> HIDE DEF c0
      <4>4. sent \o c0 \in Seq(ReplyType) /\ AsAnnounced(sent \o c0)
        BY <4>3, <1>0, PlainReplies
      <4> QED BY <4>4, <2>1 DEF c0
    <3> QED BY <3>1, <3>2, <2>1
  <2>3. ~Serving'
    BY <1>8 DEF SendThrows, Thrown, disconnect, Serving
  <2>4. outChunkSize' \in {128, 1024}
    BY DEF onReadConnect, Refused, config, Announced
  <2> QED BY <2>2, <2>3, <2>4 DEF Announced
<1> QED BY <1>1, <1>7, <1>8 DEF onReadConnect

LEMMA HandshakeAnnounced ==
    ASSUME Life, Announced, Turn, NEW n, NEW replies, Plain(replies, outChunkSize),
           NEW r, NEW h, Handshake(n, replies, r, h)
    PROVE  Announced'
<1>1. Serving /\ UNCHANGED outChunkSize
  BY DEF Turn, Life, Serving, Handshake, config
<1> QED BY <1>1, PlainEnds DEF Handshake

LEMMA AnnouncedInit == Init => Announced
<1> SUFFICES ASSUME Init PROVE Announced
  OBVIOUS
<1>1. sent = <<>> /\ outChunkSize = 128
  BY DEF Init
<1>2. SizeAt(<<>>, 1) = 128
  BY DEF SizeAt
<1>3. <<>> \in Seq(ReplyType) /\ Len(<<>>) + 1 = 1 /\ AsAnnounced(<<>>)
  BY DEF AsAnnounced
<1> QED BY <1>1, <1>2, <1>3 DEF Announced

LEMMA AnnouncedStep == Life /\ Announced /\ [Next]_vars => Announced'
<1> SUFFICES ASSUME Life, Announced, [Next]_vars PROVE Announced'
  OBVIOUS
<1>t. Turn => Serving
  BY DEF Turn, Life, Serving
<1>1. CASE ClientNext
  BY <1>1, SilentAnnounced DEF ClientNext, ClientHello, ClientMsg, config, Serving
<1>2. CASE Receive
  <2>1. PICK n \in 1..RecvSize : recv(n)
    BY <1>2 DEF Receive
  <2>2. Serving /\ UNCHANGED outChunkSize
    BY <2>1 DEF recv, Serving, config
  <2>3. CASE UNCHANGED sent
    BY <2>2, <2>3, SilentAnnounced
  <2>4. CASE sent' = Append(sent, Reply("ack", 0))
    <3>1. sent' = sent \o <<Reply("ack", 0)>>
      BY <2>4 DEF Announced
    <3> QED BY <2>2, <3>1, PlainAnnounced, PlainKinds
  <2> QED BY <2>1, <2>3, <2>4 DEF recv, acknowledge
<1>3. CASE recvFails \/ loopEnds \/ brokenPipe
  BY <1>3, SilentAnnounced DEF recvFails, loopEnds, brokenPipe, disconnect, Serving, config
<1>4. CASE handleC0
  <2>1. CASE Thrown(1, <<>>, <<>>) /\ UNCHANGED config
    BY <1>4, <1>t, <2>1, PlainEnds, PlainKinds DEF config, handleC0
  <2> QED BY <1>4, <2>1, HandshakeAnnounced, PlainKinds DEF handleC0
<1>5. CASE handleC1 \/ handleC2
  <2>1. CASE NotEnough(Len(rb))
    BY <2>1, SilentAnnounced DEF NotEnough, config, Serving
  <2> QED BY <1>5, <2>1, HandshakeAnnounced, PlainKinds DEF handleC1, handleC2
<1>6. CASE noSuchCase
  BY <1>6, <1>t, PlainEnds, PlainKinds DEF noSuchCase, config
<1>7. CASE waitForMore \/ onShortBody
  BY <1>7, SilentAnnounced DEF waitForMore, onShortBody, NotEnough, config, Serving
<1>8. CASE onReadConnect
  BY <1>8, ConnectAnnounced
<1>9. CASE onReadCreateStream
  <2>1. Serving /\ UNCHANGED outChunkSize
    BY <1>9, <1>t DEF onReadCreateStream, Message, Refused, config
  <2> QED BY <1>9, <2>1, PlainEnds, PlainKinds DEF onReadCreateStream, Refused, Dispatch
<1>10. CASE onReadPublish
  <2>1. Serving /\ UNCHANGED outChunkSize
    BY <1>10, <1>t DEF onReadPublish, Message, Refused, config
  <2> QED BY <1>10, <2>1, PlainEnds, PlainKinds DEF onReadPublish, Refused, Dispatch
<1>11. CASE onReadOtherCmd
  <2>1. Serving /\ UNCHANGED outChunkSize
    BY <1>11, <1>t DEF onReadOtherCmd, Message, config
  <2> QED BY <1>11, <2>1, PlainEnds, PlainKinds DEF onReadOtherCmd, Dispatch
<1>12. CASE onMediaData
  <2>1. Serving /\ UNCHANGED outChunkSize
    BY <1>12, <1>t DEF onMediaData, Message, Refused, config
  <2> QED BY <1>12, <2>1, PlainEnds, PlainKinds DEF onMediaData, Refused
<1>13. CASE onIgnored
  <2>1. Serving /\ UNCHANGED outChunkSize
    BY <1>13, <1>t DEF onIgnored, Message, config
  <2> QED BY <1>13, <2>1, PlainEnds, PlainKinds DEF onIgnored
<1>14. CASE onReadWndAckSize
  <2>1. Serving /\ UNCHANGED outChunkSize
    BY <1>14, <1>t DEF onReadWndAckSize, Message
  <2> QED BY <1>14, <2>1, PlainEnds, PlainKinds DEF onReadWndAckSize, Dispatch
<1>15. CASE onBadMessage
  <2>1. Serving /\ UNCHANGED outChunkSize
    BY <1>15, <1>t DEF onBadMessage, Message, Refused, config
  <2> QED BY <1>15, <2>1, PlainEnds, PlainKinds DEF onBadMessage, Refused
<1>16. CASE onFatal \/ over \/ UNCHANGED vars
  BY <1>16, SilentAnnounced DEF onFatal, over, vars, config, Serving
<1> QED BY <1>1, <1>2, <1>3, <1>4, <1>5, <1>6, <1>7, <1>8, <1>9, <1>10, <1>11, <1>12, <1>13,
           <1>14, <1>15, <1>16 DEF Next, TurnNext

\* Every reply is cut into chunks of the size the client was told before, also
\* when sending fails between the four answers to a connect
\* (rtmpconnection.cpp:241-285).
THEOREM RepliesCutAsAnnounced == Spec => []ChunkSizeAnnounced
<1>1. Announced => ChunkSizeAnnounced
  BY DEF Announced, AsAnnounced, ChunkSizeAnnounced, SizeAt, AnnouncedBefore
<1> QED BY <1>1, LifeAlways, AnnouncedInit, AnnouncedStep, PTL DEF Spec

-----------------------------------------------------------------------------
(* The replies of the handshake.                                           *)

Greeting == <<S0, S1, S2>>

GreetingSent ==
    IF hss = "Uninitialized" THEN 0 ELSE IF hss = "VersionSent" THEN 2 ELSE 3

Greeted ==
    /\ sent \in Seq(ReplyType)
    /\ HandshakeReplies
    /\ Serving /\ rcs # "Normal_Exchange" => windowAckSize = 0 /\ Len(sent) = GreetingSent
    /\ Serving /\ rcs = "Normal_Exchange" => Len(sent) >= 3

NoGreeting(t) == t \in Seq(ReplyType) /\ \A i \in DOMAIN t : t[i] \notin {S0, S1, S2}

LEMMA SilentGreeted ==
    ASSUME Greeted, UNCHANGED <<sent, windowAckSize, state>>, Serving' => Serving
    PROVE  Greeted'
BY DEF Greeted, HandshakeReplies, GreetingSent, state

LEMMA ReplyGreeted ==
    ASSUME Greeted, Serving, rcs = "Normal_Exchange", UNCHANGED rcs,
           NEW t, NoGreeting(t), sent' = sent \o t
    PROVE  Greeted'
<1>1. t \in Seq(ReplyType) /\ sent \in Seq(ReplyType) /\ Len(sent) >= 3
  BY DEF Greeted, NoGreeting
<1>2. /\ sent' \in Seq(ReplyType) /\ Len(sent) \in Nat /\ Len(t) \in Nat
      /\ Len(sent') = Len(sent) + Len(t) /\ DOMAIN sent' = 1..Len(sent) + Len(t)
      /\ DOMAIN sent = 1..Len(sent) /\ DOMAIN t = 1..Len(t)
      /\ \A i \in 1..Len(sent) : sent'[i] = sent[i]
  BY <1>1
<1>3. \A i \in Len(sent) + 1..Len(sent') : i - Len(sent) \in 1..Len(t) /\ sent'[i] = t[i - Len(sent)]
  BY <1>1, <1>2
<1>4. \A i \in Len(sent) + 1..Len(sent') : sent'[i] \notin {S0, S1, S2}
  BY <1>2, <1>3 DEF NoGreeting
<1>5. \A i \in DOMAIN sent' : IF i <= 3 THEN sent'[i] = <<S0, S1, S2>>[i]
                                        ELSE sent'[i] \notin {S0, S1, S2}
  <2> TAKE i \in DOMAIN sent'
  <2>1. CASE i <= Len(sent)
    <3>1. i \in DOMAIN sent
      BY <2>1, <1>2
    <3> QED BY <3>1, <1>2 DEF Greeted, HandshakeReplies
  <2>2. CASE i > Len(sent)
    BY <2>2, <1>1, <1>2, <1>4
  <2> QED BY <2>1, <2>2, <1>2
<1> QED BY <1>1, <1>2, <1>5 DEF Greeted, HandshakeReplies

\* The greeting goes on with what is next of it.
LEMMA GreetingGoesOn ==
    ASSUME Greeted, NEW t \in Seq(ReplyType), Len(sent) + Len(t) <= 3,
           \A i \in 1..Len(t) : t[i] = Greeting[Len(sent) + i],
           sent' = sent \o t
    PROVE  /\ sent' \in Seq(ReplyType) /\ HandshakeReplies'
           /\ Len(sent') = Len(sent) + Len(t)
<1>1. /\ sent \in Seq(ReplyType) /\ sent' \in Seq(ReplyType)
      /\ Len(sent) \in Nat /\ Len(t) \in Nat
      /\ Len(sent') = Len(sent) + Len(t) /\ DOMAIN sent' = 1..Len(sent) + Len(t)
      /\ DOMAIN sent = 1..Len(sent)
      /\ \A i \in 1..Len(sent) : sent'[i] = sent[i]
  BY DEF Greeted
<1>2. \A i \in 1..Len(sent) : sent[i] = Greeting[i]
  BY <1>1 DEF Greeted, HandshakeReplies, Greeting
<1>3. \A i \in DOMAIN sent' : i <= 3 /\ sent'[i] = Greeting[i]
  <2> TAKE i \in DOMAIN sent'
  <2>1. CASE i <= Len(sent)
    BY <2>1, <1>1, <1>2
  <2>2. CASE i > Len(sent)
    <3>1. i - Len(sent) \in 1..Len(t) /\ Len(sent) + (i - Len(sent)) = i
      BY <2>2, <1>1
    <3>2. sent'[i] = t[i - Len(sent)]
      BY <2>2, <1>1, <3>1
    <3> QED BY <3>1, <3>2, <1>1
  <2> QED BY <2>1, <2>2, <1>1
<1> QED BY <1>1, <1>3 DEF HandshakeReplies, Greeting

LEMMA HandshakeGreeted ==
    ASSUME Life, Greeted, Turn, rcs # "Normal_Exchange",
           NEW n, NEW replies \in Seq(ReplyType), NEW r, NEW h, Handshake(n, replies, r, h),
           Len(sent) + Len(replies) <= 3,
           \A i \in 1..Len(replies) : replies[i] = Greeting[Len(sent) + i],
           r # "Normal_Exchange" /\ hss' = h => Len(sent) + Len(replies) = GreetingSent',
           r = "Normal_Exchange" => Len(sent) + Len(replies) = 3
    PROVE  Greeted'
<1>1. Serving /\ windowAckSize = 0 /\ sent \in Seq(ReplyType) /\ Len(sent) \in Nat
  BY DEF Turn, Life, Serving, Greeted
<1>2. CASE Completed(n, <<>>, replies) /\ rcs' = r /\ hss' = h /\ UNCHANGED config
  <2>1. sent' = sent \o replies /\ windowAckSize' = 0
    BY <1>1, <1>2 DEF Completed, config
  <2>2. sent' \in Seq(ReplyType) /\ HandshakeReplies' /\ Len(sent') = Len(sent) + Len(replies)
    BY <2>1, GreetingGoesOn
  <2> QED BY <1>1, <1>2, <2>1, <2>2 DEF Greeted
<1>3. CASE SendThrows(n, <<>>, replies)
  <2>1. PICK k \in 0..Len(replies) - 1 : Thrown(n, <<>>, SubSeq(replies, 1, k))
    BY <1>3 DEF SendThrows
  <2> DEFINE t == SubSeq(replies, 1, k)
  <2>2. k \in Nat /\ k <= Len(replies) /\ Len(replies) \in Nat
    OBVIOUS
  <2>3. /\ SubSeq(replies, 0 + 1, k) \in Seq(ReplyType)
        /\ Len(SubSeq(replies, 0 + 1, k)) = k - 0
        /\ \A i \in 1..k - 0 : SubSeq(replies, 0 + 1, k)[i] = replies[0 + i]
    BY <2>2, CutProperties
  <2>4. t \in Seq(ReplyType) /\ Len(t) = k /\ \A i \in 1..k : i \in 1..Len(replies) /\ t[i] = replies[i]
    BY <2>2, <2>3
  <2>5. sent' = sent \o t /\ ~Serving'
    BY <2>1 DEF Thrown, disconnect, Serving
  <2> HIDE DEF t
  <2>6. Len(sent) + Len(t) <= 3 /\ \A i \in 1..Len(t) : t[i] = Greeting[Len(sent) + i]
    BY <1>1, <2>2, <2>4
  <2>7. sent' \in Seq(ReplyType) /\ HandshakeReplies'
    BY <2>4, <2>5, <2>6, GreetingGoesOn
  <2> QED BY <2>5, <2>7 DEF Greeted
<1> QED BY <1>2, <1>3 DEF Handshake

LEMMA HelloGreeted ==
    ASSUME Life, Greeted, handleC0 \/ handleC1 \/ handleC2 \/ noSuchCase
    PROVE  Greeted'
<1>0. Turn /\ rcs # "Normal_Exchange"
  BY DEF handleC0, handleC1, handleC2, noSuchCase
<1>1. Serving /\ Len(sent) = GreetingSent /\ sent \in Seq(ReplyType)
  BY <1>0 DEF Turn, Life, Serving, Greeted
<1>2. /\ <<>> \in Seq(ReplyType) /\ <<S2>> \in Seq(ReplyType)
      /\ <<S0, S1>> \in Seq(ReplyType) /\ <<S0, S1, S2>> \in Seq(ReplyType)
  BY DEF S0, S1, S2, Reply, ReplyType
<1>3. CASE handleC0
  <2>1. Len(sent) = 0
    BY <1>1, <1>3 DEF handleC0, GreetingSent
  <2>2. CASE Thrown(1, <<>>, <<>>)
    <3>1. sent' = sent /\ ~Serving'
      BY <1>1, <2>2 DEF Thrown, disconnect, Serving
    <3> QED BY <3>1 DEF Greeted, HandshakeReplies
  <2>3. CASE Handshake(1, <<S0, S1>>, "HandShake", "VersionSent")
    <3> DEFINE t == <<S0, S1>>
               n == 1
    <3>1. t \in Seq(ReplyType) /\ Len(t) = 2 /\ Handshake(n, t, "HandShake", "VersionSent")
      BY <1>2, <2>3
    <3>2. \A i \in 1..2 : t[i] = Greeting[0 + i]
      BY DEF Greeting
    <3> HIDE DEF t, n
    <3>3. hss' = "VersionSent" => GreetingSent' = 2
      BY DEF GreetingSent
    <3>4. /\ Len(sent) + Len(t) <= 3
          /\ \A i \in 1..Len(t) : t[i] = Greeting[Len(sent) + i]
      BY <2>1, <3>1, <3>2
    <3>5. /\ "HandShake" # "Normal_Exchange" /\ hss' = "VersionSent" => Len(sent) + Len(t) = GreetingSent'
          /\ "HandShake" = "Normal_Exchange" => Len(sent) + Len(t) = 3
      BY <2>1, <3>1, <3>3
    <3> QED BY <1>0, <3>1, <3>4, <3>5, HandshakeGreeted, Zenon
  <2>4. CASE Handshake(1 + HandshakeSize, <<S0, S1, S2>>, "HandShake", AfterEagerC1)
    <3> DEFINE t == <<S0, S1, S2>>
               n == 1 + HandshakeSize
    <3>1. t \in Seq(ReplyType) /\ Len(t) = 3 /\ Handshake(n, t, "HandShake", AfterEagerC1)
      BY <1>2, <2>4
    <3>2. \A i \in 1..3 : t[i] = Greeting[0 + i]
      BY DEF Greeting
    <3> HIDE DEF t, n
    <3>3. hss' = AfterEagerC1 => GreetingSent' = 3
      BY DEF GreetingSent, AfterEagerC1
    <3>4. /\ Len(sent) + Len(t) <= 3
          /\ \A i \in 1..Len(t) : t[i] = Greeting[Len(sent) + i]
      BY <2>1, <3>1, <3>2
    <3>5. /\ "HandShake" # "Normal_Exchange" /\ hss' = AfterEagerC1 => Len(sent) + Len(t) = GreetingSent'
          /\ "HandShake" = "Normal_Exchange" => Len(sent) + Len(t) = 3
      BY <2>1, <3>1, <3>3
    <3> QED BY <1>0, <3>1, <3>4, <3>5, HandshakeGreeted, Zenon
  <2>5. CASE Handshake(1 + 2 * HandshakeSize, <<S0, S1, S2>>, "Normal_Exchange", AfterEagerC1)
    <3> DEFINE t == <<S0, S1, S2>>
               n == 1 + 2 * HandshakeSize
    <3>1. t \in Seq(ReplyType) /\ Len(t) = 3 /\ Handshake(n, t, "Normal_Exchange", AfterEagerC1)
      BY <1>2, <2>5
    <3>2. \A i \in 1..3 : t[i] = Greeting[0 + i]
      BY DEF Greeting
    <3> HIDE DEF t, n
    <3>4. /\ Len(sent) + Len(t) <= 3
          /\ \A i \in 1..Len(t) : t[i] = Greeting[Len(sent) + i]
      BY <2>1, <3>1, <3>2
    <3>5. /\ "Normal_Exchange" # "Normal_Exchange" /\ hss' = AfterEagerC1 => Len(sent) + Len(t) = GreetingSent'
          /\ "Normal_Exchange" = "Normal_Exchange" => Len(sent) + Len(t) = 3
      BY <2>1, <3>1
    <3> QED BY <1>0, <3>1, <3>4, <3>5, HandshakeGreeted, Zenon
  <2> QED BY <1>3, <2>2, <2>3, <2>4, <2>5 DEF handleC0
<1>4. CASE handleC1
  <2>1. Len(sent) = 2
    BY <1>1, <1>4 DEF handleC1, GreetingSent
  <2>2. CASE NotEnough(Len(rb))
    BY <2>2, SilentGreeted DEF NotEnough, config, Serving
  <2>3. CASE Handshake(HandshakeSize, <<S2>>, "HandShake", AfterC1)
    <3> DEFINE t == <<S2>>
               n == HandshakeSize
    <3>1. t \in Seq(ReplyType) /\ Len(t) = 1 /\ Handshake(n, t, "HandShake", AfterC1)
      BY <1>2, <2>3
    <3>2. \A i \in 1..1 : t[i] = Greeting[2 + i]
      BY DEF Greeting
    <3> HIDE DEF t, n
    <3>3. hss' = AfterC1 => GreetingSent' = 3
      BY DEF GreetingSent, AfterC1
    <3>4. /\ Len(sent) + Len(t) <= 3
          /\ \A i \in 1..Len(t) : t[i] = Greeting[Len(sent) + i]
      BY <2>1, <3>1, <3>2
    <3>5. /\ "HandShake" # "Normal_Exchange" /\ hss' = AfterC1 => Len(sent) + Len(t) = GreetingSent'
          /\ "HandShake" = "Normal_Exchange" => Len(sent) + Len(t) = 3
      BY <2>1, <3>1, <3>3
    <3> QED BY <1>0, <3>1, <3>4, <3>5, HandshakeGreeted, Zenon
  <2>4. CASE Handshake(2 * HandshakeSize, <<S2>>, "Normal_Exchange", "HandshakeDone")
    <3> DEFINE t == <<S2>>
               n == 2 * HandshakeSize
    <3>1. t \in Seq(ReplyType) /\ Len(t) = 1 /\ Handshake(n, t, "Normal_Exchange", "HandshakeDone")
      BY <1>2, <2>4
    <3>2. \A i \in 1..1 : t[i] = Greeting[2 + i]
      BY DEF Greeting
    <3> HIDE DEF t, n
    <3>4. /\ Len(sent) + Len(t) <= 3
          /\ \A i \in 1..Len(t) : t[i] = Greeting[Len(sent) + i]
      BY <2>1, <3>1, <3>2
    <3>5. /\ "Normal_Exchange" # "Normal_Exchange" /\ hss' = "HandshakeDone" => Len(sent) + Len(t) = GreetingSent'
          /\ "Normal_Exchange" = "Normal_Exchange" => Len(sent) + Len(t) = 3
      BY <2>1, <3>1
    <3> QED BY <1>0, <3>1, <3>4, <3>5, HandshakeGreeted, Zenon
  <2> QED BY <1>4, <2>2, <2>3, <2>4 DEF handleC1
<1>5. CASE handleC2
  <2>1. Len(sent) = 3
    BY <1>1, <1>5 DEF handleC2, GreetingSent
  <2>2. CASE NotEnough(Len(rb))
    BY <2>2, SilentGreeted DEF NotEnough, config, Serving
  <2>3. CASE Handshake(HandshakeSize, <<>>, "Normal_Exchange", "HandshakeDone")
    <3> DEFINE t == <<>>
               n == HandshakeSize
    <3>1. t \in Seq(ReplyType) /\ Len(t) = 0 /\ Handshake(n, t, "Normal_Exchange", "HandshakeDone")
      BY <1>2, <2>3
    <3>2. \A i \in 1..0 : t[i] = Greeting[3 + i]
      BY DEF Greeting
    <3> HIDE DEF t, n
    <3>4. /\ Len(sent) + Len(t) <= 3
          /\ \A i \in 1..Len(t) : t[i] = Greeting[Len(sent) + i]
      BY <2>1, <3>1, <3>2
    <3>5. /\ "Normal_Exchange" # "Normal_Exchange" /\ hss' = "HandshakeDone" => Len(sent) + Len(t) = GreetingSent'
          /\ "Normal_Exchange" = "Normal_Exchange" => Len(sent) + Len(t) = 3
      BY <2>1, <3>1
    <3> QED BY <1>0, <3>1, <3>4, <3>5, HandshakeGreeted, Zenon
  <2> QED BY <1>5, <2>2, <2>3 DEF handleC2
<1>6. CASE noSuchCase
  <2>1. sent' = sent /\ UNCHANGED <<windowAckSize, state>> /\ Serving' = Serving
    BY <1>1, <1>6 DEF noSuchCase, Completed, Serving, config
  <2> QED BY <2>1, SilentGreeted
<1> QED BY <1>3, <1>4, <1>5, <1>6

\* A message is answered with what is not part of the handshake.
LEMMA EndsGreeted ==
    ASSUME Greeted, Serving, rcs = "Normal_Exchange", UNCHANGED rcs,
           NEW n, NEW evs, NEW replies, NoGreeting(replies),
           \/ Completed(n, evs, replies)
           \/ SendThrows(n, evs, replies)
           \/ Thrown(n, evs, replies)
    PROVE  Greeted'
<1>1. CASE Completed(n, evs, replies) \/ Thrown(n, evs, replies)
  BY <1>1, ReplyGreeted DEF Completed, Thrown
<1>2. CASE SendThrows(n, evs, replies)
  <2>1. PICK k \in 0..Len(replies) - 1 : Thrown(n, evs, SubSeq(replies, 1, k))
    BY <1>2 DEF SendThrows
  <2>2. replies \in Seq(ReplyType) /\ k \in Nat /\ k <= Len(replies) /\ Len(replies) \in Nat
        /\ DOMAIN replies = 1..Len(replies)
    BY DEF NoGreeting
  <2>3. /\ SubSeq(replies, 0 + 1, k) \in Seq(ReplyType)
        /\ Len(SubSeq(replies, 0 + 1, k)) = k - 0
        /\ \A i \in 1..k - 0 : SubSeq(replies, 0 + 1, k)[i] = replies[0 + i]
    BY <2>2, CutProperties
  <2>4. NoGreeting(SubSeq(replies, 1, k))
    <3>1. /\ SubSeq(replies, 1, k) \in Seq(ReplyType) /\ DOMAIN SubSeq(replies, 1, k) = 1..k
          /\ \A i \in 1..k : i \in DOMAIN replies /\ SubSeq(replies, 1, k)[i] = replies[i]
      BY <2>2, <2>3
    <3> QED BY <3>1 DEF NoGreeting
  <2>5. sent' = sent \o SubSeq(replies, 1, k)
    BY <2>1 DEF Thrown
  <2> QED BY <2>4, <2>5, ReplyGreeted
<1> QED BY <1>1, <1>2

LEMMA NoGreetings ==
    ASSUME Announced
    PROVE  /\ NoGreeting(<<>>) /\ NoGreeting(<<Reply("ack", 0)>>) /\ NoGreeting(ConnectReplies)
           /\ NoGreeting(<<Reply("_result", outChunkSize)>>)
           /\ NoGreeting(<<Reply("onStatus", outChunkSize)>>)
           /\ NoGreeting(<<Reply("onBWDone", outChunkSize)>>)
<1>1. outChunkSize \in {128, 1024}
  BY DEF Announced
<1>2. \A m \in {"_result", "onStatus", "onBWDone"} :
         Reply(m, outChunkSize) \in ReplyType /\ Reply(m, outChunkSize) \notin {S0, S1, S2}
  BY <1>1 DEF Reply, ReplyType, S0, S1, S2
<1>3. Reply("ack", 0) \in ReplyType /\ Reply("ack", 0) \notin {S0, S1, S2}
  BY DEF Reply, ReplyType, S0, S1, S2
<1>4. NoGreeting(ConnectReplies)
  BY DEF NoGreeting, ConnectReplies, Reply, ReplyType, S0, S1, S2
<1>5. \A r \in ReplyType : r \notin {S0, S1, S2} => NoGreeting(<<r>>)
  BY DEF NoGreeting
<1>6. NoGreeting(<<>>)
  BY DEF NoGreeting
<1> QED BY <1>2, <1>3, <1>4, <1>5, <1>6

LEMMA GreetedInit == Init => Greeted
<1> SUFFICES ASSUME Init PROVE Greeted
  OBVIOUS
<1>1. sent = <<>> /\ hss = "Uninitialized" /\ rcs = "Uninitialized" /\ windowAckSize = 0
  BY DEF Init
<1>2. <<>> \in Seq(ReplyType) /\ Len(<<>>) = 0 /\ DOMAIN <<>> = {}
  OBVIOUS
<1> QED BY <1>1, <1>2 DEF Greeted, HandshakeReplies, GreetingSent

LEMMA GreetedStep == Life /\ Announced /\ Greeted /\ [Next]_vars => Greeted'
<1> SUFFICES ASSUME Life, Announced, Greeted, [Next]_vars PROVE Greeted'
  OBVIOUS
<1>t. Turn => Serving
  BY DEF Turn, Life, Serving
<1>m. \A kinds : Message(kinds) => Serving /\ rcs = "Normal_Exchange" /\ UNCHANGED rcs
  BY <1>t DEF Message, state
<1>1. CASE ClientNext
  BY <1>1, SilentGreeted DEF ClientNext, ClientHello, ClientMsg, config, Serving
<1>2. CASE Receive
  <2>1. PICK n \in 1..RecvSize : recv(n)
    BY <1>2 DEF Receive
  <2>2. Serving /\ UNCHANGED <<windowAckSize, state>>
    BY <2>1 DEF recv, Serving, config
  <2>3. CASE UNCHANGED sent
    BY <2>2, <2>3, SilentGreeted
  <2>4. CASE windowAckSize # 0 /\ sent' = Append(sent, Reply("ack", 0))
    <3>1. sent' = sent \o <<Reply("ack", 0)>>
      BY <2>4 DEF Greeted
    <3>2. rcs = "Normal_Exchange" /\ UNCHANGED rcs
      BY <2>2, <2>4 DEF Greeted, state
    <3> QED BY <2>2, <3>1, <3>2, ReplyGreeted, NoGreetings
  <2> QED BY <2>1, <2>3, <2>4 DEF recv, acknowledge
<1>3. CASE recvFails \/ loopEnds \/ brokenPipe
  BY <1>3, SilentGreeted DEF recvFails, loopEnds, brokenPipe, disconnect, Serving, config
<1>4. CASE handleC0 \/ handleC1 \/ handleC2 \/ noSuchCase
  BY <1>4, HelloGreeted
<1>5. CASE waitForMore \/ onShortBody
  BY <1>5, SilentGreeted DEF waitForMore, onShortBody, NotEnough, config, Serving
<1>6. CASE onReadConnect
  BY <1>6, <1>m, EndsGreeted, NoGreetings DEF onReadConnect, Refused
<1>7. CASE onReadCreateStream
  BY <1>7, <1>m, EndsGreeted, NoGreetings DEF onReadCreateStream, Refused, Dispatch
<1>8. CASE onReadPublish
  BY <1>8, <1>m, EndsGreeted, NoGreetings DEF onReadPublish, Refused, Dispatch
<1>9. CASE onReadOtherCmd
  BY <1>9, <1>m, EndsGreeted, NoGreetings DEF onReadOtherCmd, Dispatch
<1>10. CASE onMediaData
  BY <1>10, <1>m, EndsGreeted, NoGreetings DEF onMediaData, Refused
<1>11. CASE onIgnored
  BY <1>11, <1>m, EndsGreeted, NoGreetings DEF onIgnored
<1>12. CASE onReadWndAckSize
  BY <1>12, <1>m, EndsGreeted, NoGreetings DEF onReadWndAckSize, Dispatch
<1>13. CASE onBadMessage
  BY <1>13, <1>m, EndsGreeted, NoGreetings DEF onBadMessage, Refused
<1>14. CASE onFatal
  <2>1. UNCHANGED <<sent, windowAckSize, state>> /\ (Serving' => Serving)
    BY <1>14 DEF onFatal, Message, config, Serving
  <2> QED BY <2>1, SilentGreeted
<1>15. CASE over \/ UNCHANGED vars
  BY <1>15, SilentGreeted DEF over, vars, config, Serving
<1> QED BY <1>1, <1>2, <1>3, <1>4, <1>5, <1>6, <1>7, <1>8, <1>9, <1>10, <1>11, <1>12, <1>13,
           <1>14, <1>15 DEF Next, TurnNext

\* The replies of the handshake are sent once each, before anything else, on
\* every path through it (rtmpconnection.cpp:171-239).
THEOREM HandshakeRepliesFirst == Spec => []HandshakeReplies
<1>1. Greeted => HandshakeReplies
  BY DEF Greeted
<1> QED BY <1>1, LifeAlways, AnnouncedInit, AnnouncedStep, GreetedInit, GreetedStep, PTL DEF Spec

-----------------------------------------------------------------------------
-----------------------------------------------------------------------------
(* What the thread waits for.                                              *)

LEMMA UnreadKept ==
    ASSUME UNCHANGED <<rb, msgs, state>>
    PROVE  Stuck' = Stuck
BY DEF Stuck, Ready, ShortBody, msg, queue, state

LEMMA HoldsBackStep == InSequence /\ HoldsBackOneKind /\ [Next]_vars => HoldsBackOneKind'
<1> SUFFICES ASSUME InSequence, HoldsBackOneKind, [Next]_vars,
                    pc' = "recv", sockOpen', rcs' = "Normal_Exchange"
             PROVE  (Stuck \/ rb = <<>> \/ (msgs = <<>> /\ Len(rb) < MsgSize))'
  BY DEF HoldsBackOneKind
<1>0. MsgSize \in Nat \ {0} /\ Len(rb) \in Nat
  BY ConnectionAssumption DEF ConnectionAssumption, InSequence
<1>1. CASE ClientNext \/ over \/ UNCHANGED vars
  <2>1. UNCHANGED <<pc, sockOpen, rb, msgs, state>>
    BY <1>1 DEF ClientNext, ClientHello, ClientMsg, over, vars
  <2>2. Stuck \/ rb = <<>> \/ (msgs = <<>> /\ Len(rb) < MsgSize)
    BY <2>1 DEF HoldsBackOneKind, state
  <2> QED BY <2>1, <2>2, UnreadKept
<1>2. CASE Receive \/ recvFails
  BY <1>2 DEF Receive, recv, recvFails
<1>3. CASE loopEnds
  BY <1>3 DEF loopEnds
<1>4. ASSUME Turn, NEW n, NEW evs, NEW replies,
             Completed(n, evs, replies) \/ SendThrows(n, evs, replies) \/ Thrown(n, evs, replies)
      PROVE  FALSE
  BY <1>4 DEF Turn, Completed, SendThrows, Thrown, disconnect
<1>5. CASE handleC0 \/ handleC1 \/ handleC2 \/ noSuchCase
  BY <1>4, <1>5 DEF handleC0, handleC1, handleC2, noSuchCase, Handshake, NotEnough, state
<1>6. CASE waitForMore
  BY <1>0, <1>6 DEF waitForMore, Ready, NotEnough, PutBack, restoreContext
<1>7. CASE onShortBody
  <2>1. Stuck /\ UNCHANGED <<rb, msgs, state>>
    BY <1>7 DEF onShortBody, Turn, NotEnough, PutBack, restoreContext, Stuck
  <2> QED BY <2>1, UnreadKept
<1>8. CASE onReadConnect \/ onReadCreateStream \/ onReadPublish \/ onReadOtherCmd
           \/ onMediaData \/ onIgnored \/ onReadWndAckSize \/ onBadMessage
  BY <1>4, <1>8
     DEF onReadConnect, onReadCreateStream, onReadPublish, onReadOtherCmd, onMediaData, onIgnored,
         onReadWndAckSize, onBadMessage, Message, Dispatch, Refused
<1>9. CASE onFatal \/ brokenPipe
  BY <1>9 DEF onFatal, brokenPipe, Message, Turn
<1> QED BY <1>1, <1>2, <1>3, <1>5, <1>6, <1>7, <1>8, <1>9 DEF Next, TurnNext

\* While the thread waits, messages are held back only with every byte read,
\* and bytes only if they are less than a message with those nested in it,
\* except where a body is too short (rtmpconnection.cpp:84, 118-124,
\* rtmpparser.cpp:288).
THEOREM HeldBackRight == Spec => []HoldsBackOneKind
<1>1. Init => HoldsBackOneKind
  BY DEF Init, HoldsBackOneKind
<1> QED BY <1>1, LifeAlways, SequenceInit, SequenceStep, HoldsBackStep, PTL DEF Spec

-----------------------------------------------------------------------------
(* Types: those that the invariants above leave open.                      *)

Typed ==
    /\ eager \in BOOLEAN /\ msgsSent \in 0..MaxMsgs /\ followed \in 0..msgsSent
    /\ rcs \in {"Uninitialized", "HandShake", "Normal_Exchange"}
    /\ hss \in {"Uninitialized", "VersionSent", "VersionSent_C1_Read", "AckSent", "HandshakeDone"}
    /\ isConnected \in BOOLEAN /\ windowAckSize \in 0..MaxMsgs /\ streamIndex \in Nat
    /\ alive \in BOOLEAN

LEMMA TypedInit == Init => Typed
<1> SUFFICES ASSUME Init PROVE Typed
  OBVIOUS
<1>1. eager \in BOOLEAN
  <2>1. Pipelining \subseteq BOOLEAN /\ eager \in Pipelining
    BY ConnectionAssumption, Zenon DEF ConnectionAssumption, Init
  <2> QED BY <2>1, Zenon
<1>2. MaxMsgs \in Nat
  BY ConnectionAssumption DEF ConnectionAssumption
<1>3. isConnected \in BOOLEAN /\ alive \in BOOLEAN
  BY Zenon DEF Init
<1> QED BY <1>1, <1>2, <1>3 DEF Init, Typed

\* The number of the message that is dispatched.
LEMMA MessageNumber ==
    ASSUME InSequence, InSequence', NEW kinds, Message(kinds), UNCHANGED msgsSent,
           msgsSent \in 0..MaxMsgs
    PROVE  msg.id \in 0..MaxMsgs
<1>1. handled' = Append(handled, msg.id) /\ handled \in Seq(Nat)
  BY DEF Message, InSequence
<1>2. Len(handled') = Len(handled) + 1 /\ handled'[Len(handled) + 1] = msg.id
      /\ Len(handled) + 1 \in DOMAIN handled' /\ Len(handled) \in Nat
  BY <1>1
<1>3. msg.id = Len(handled) + 1
  BY <1>2 DEF InSequence, HandledOnceInOrder
<1>4. Len(handled) + 1 <= msgsSent
  <2>1. Len(handled') <= Parsed' /\ Parsed' <= msgsSent' /\ Parsed' \in Nat
    BY DEF InSequence, Parsed
  <2>2. msgsSent \in Nat
    BY DEF InSequence
  <2> QED BY <1>2, <2>1, <2>2
<1> QED BY <1>2, <1>3, <1>4, ConnectionAssumption DEF ConnectionAssumption

LEMMA TypedStep == Life /\ InSequence /\ InSequence' /\ Typed /\ [Next]_vars => Typed'
<1> SUFFICES ASSUME Life, InSequence, InSequence', Typed, [Next]_vars PROVE Typed'
  OBVIOUS
<1>a. MaxMsgs \in Nat
  BY ConnectionAssumption DEF ConnectionAssumption
<1>e. ASSUME NEW n, NEW evs, NEW replies,
             Completed(n, evs, replies) \/ SendThrows(n, evs, replies) \/ Thrown(n, evs, replies)
      PROVE  UNCHANGED <<client, alive>> /\ sockOpen' \in BOOLEAN
  BY <1>e DEF Completed, SendThrows, Thrown, disconnect, Life
<1>h. ASSUME NEW n, NEW replies, NEW r, NEW h, Handshake(n, replies, r, h),
             r \in {"HandShake", "Normal_Exchange"},
             h \in {"VersionSent", "VersionSent_C1_Read", "AckSent", "HandshakeDone"}
      PROVE  Typed'
  BY <1>e, <1>h DEF Handshake, Typed, config, client
<1>1. CASE ClientNext
  <2>1. CASE ClientHello
    BY <1>a, <2>1 DEF ClientHello, Typed, state, config
  <2>2. ASSUME NEW kind \in Kinds, NEW inner \in Inner, ClientMsg(kind, inner)
        PROVE  Typed'
    <3>1. msgsSent \in Nat
      BY DEF InSequence
    <3>2. Len(inner) \in Nat
      BY <3>1, GroupIs
    <3> QED BY <1>a, <2>2, <3>1, <3>2 DEF ClientMsg, Typed, state, config
  <2> QED BY <1>1, <2>1, <2>2 DEF ClientNext
<1>2. CASE Receive \/ recvFails \/ loopEnds \/ brokenPipe
  BY <1>2 DEF Receive, recv, acknowledge, recvFails, loopEnds, brokenPipe, Typed, client, state, config
<1>3. CASE handleC0
  <2>1. CASE Thrown(1, <<>>, <<>>) /\ rcs' = "HandShake" /\ UNCHANGED <<hss, config>>
    BY <1>e, <2>1 DEF Typed, client, config
  <2> QED BY <1>3, <1>h, <2>1 DEF handleC0, AfterEagerC1
<1>4. CASE handleC1 \/ handleC2
  <2>1. CASE NotEnough(Len(rb))
    BY <2>1 DEF NotEnough, Typed, client, state, config
  <2> QED BY <1>4, <1>h, <2>1 DEF handleC1, handleC2, AfterC1
<1>5. CASE noSuchCase
  BY <1>5, <1>e DEF noSuchCase, Typed, client, state, config
<1>6. CASE waitForMore \/ onShortBody
  BY <1>6 DEF waitForMore, onShortBody, NotEnough, Typed, client, state, config
<1>7. CASE onReadConnect
  BY <1>7, <1>e DEF onReadConnect, Message, Refused, Typed, client, state, config
<1>8. CASE onReadCreateStream
  BY <1>8, <1>e DEF onReadCreateStream, Message, Refused, Dispatch, Typed, client, state, config
<1>9. CASE onReadPublish \/ onReadOtherCmd \/ onMediaData \/ onIgnored \/ onBadMessage
  BY <1>9, <1>e
     DEF onReadPublish, onReadOtherCmd, onMediaData, onIgnored, onBadMessage, Message, Refused,
         Dispatch, Typed, client, state, config
<1>10. CASE onReadWndAckSize
  <2>1. Message({"wndAckSize", "other"}) /\ UNCHANGED <<client, alive>>
    BY <1>10, <1>e DEF onReadWndAckSize, Dispatch
  <2>2. msg.id \in 0..MaxMsgs
    BY <2>1, MessageNumber DEF Typed, client
  <2> QED BY <1>10, <2>1, <2>2 DEF onReadWndAckSize, Message, Typed, client, state
<1>11. CASE onFatal \/ over \/ UNCHANGED vars
  BY <1>11 DEF onFatal, over, vars, Message, Typed, client, state, config
<1> QED BY <1>1, <1>2, <1>3, <1>4, <1>5, <1>6, <1>7, <1>8, <1>9, <1>10, <1>11 DEF Next, TurnNext

LEMMA TypesAreOK == Life /\ InSequence /\ Announced /\ Typed => TypeOK
<1> SUFFICES ASSUME Life, InSequence, Announced, Typed PROVE TypeOK
  OBVIOUS
<1>1. \A u \in Range(wire) \union Range(rb) \union {msgs} :
         \A m \in Range(u) : m.kind \in Kinds \union {"hello"} /\ m.id \in Nat
  <2>1. ASSUME NEW s \in Seq(Groups), NEW u \in Range(s)
        PROVE  u \in Seq(Numbered)
    <3>1. PICK i \in 1..Len(s) : u = s[i]
      BY <2>1 DEF Range
    <3> QED BY <3>1 DEF Groups
  <2>2. ASSUME NEW u \in Seq(Numbered), NEW m \in Range(u)
        PROVE  m.kind \in Kinds \union {"hello"} /\ m.id \in Nat
    <3>1. PICK i \in 1..Len(u) : m = u[i]
      BY <2>2 DEF Range
    <3>2. m \in Numbered
      BY <3>1
    <3> QED BY <3>2 DEF Numbered
  <2>3. \A u \in Range(wire) \union Range(rb) \union {msgs} : u \in Seq(Numbered)
    BY <2>1 DEF InSequence
  <2> QED BY <2>2, <2>3
<1>2. handled \in Seq(1..MaxMsgs)
  <2>1. handled \in Seq(Nat) /\ Len(handled) <= MaxMsgs /\ Len(handled) \in Nat /\ MaxMsgs \in Nat
    BY ConnectionAssumption DEF InSequence, Parsed, Typed, ConnectionAssumption
  <2>2. \A i \in 1..Len(handled) : handled[i] \in 1..MaxMsgs
    BY <2>1 DEF InSequence, HandledOnceInOrder
  <2> QED BY <2>1, <2>2
<1>3. Range(events) \subseteq {"Connect", "CreateStream", "Publish", "MetaData",
                              "ReceiveStream", "Disconnect"}
  BY DEF Life, Told, Call, Range
<1> QED BY <1>1, <1>2, <1>3 DEF TypeOK, Life, InSequence, Announced, Typed

\* Every variable has its type.
THEOREM TypeCorrect == Spec => []TypeOK
  BY LifeAlways, SequenceInit, SequenceStep, AnnouncedInit, AnnouncedStep, TypedInit, TypedStep,
     TypesAreOK, PTL DEF Spec
-----------------------------------------------------------------------------
(* The acknowledgement window, for every modulus, set of windows and size  *)
(* of a read that AckAssumption allows.                                    *)

-----------------------------------------------------------------------------
(* The only remainders there are: of a number below 2 * Modulus.           *)

\* A counter that has not reached Modulus stays as it is.
LEMMA ModBelow ==
    ASSUME NEW x \in Int, 0 <= x, x < Modulus
    PROVE  x % Modulus = x
BY AckAssumption DEF AckAssumption

\* A counter that has passed Modulus starts again.
LEMMA ModAbove ==
    ASSUME NEW x \in Int, Modulus <= x, x < Modulus + Modulus
    PROVE  x % Modulus = x - Modulus
BY AckAssumption DEF AckAssumption

-----------------------------------------------------------------------------
(* The counters never pass each other: ackBytes_ is behind bytesReceived_, *)
(* so their unsigned difference is the difference.  Once a window is set   *)
(* the backlog cannot grow beyond what it was or half a window, so it does *)
(* not wrap; and the byte that moving the counters loses is lost once      *)
(* between two acknowledgements, for ackBytes_ is 0 from then on.          *)
AckInv ==
    /\ CountersOK
    /\ ackBytes <= bytesReceived
    /\ ackWindow # -1 =>
          /\ bytesReceived - ackBytes <= MaxBacklog
          /\ since <= Half
          /\ since <= (bytesReceived - ackBytes) + (IF ackBytes = 0 THEN 1 ELSE 0)

\* What counting n more bytes does to the two counters.
LEMMA CountedAndMoved ==
    ASSUME AckInv, NEW n \in 1..MaxRead
    PROVE  /\ Received(n) \in 0..Modulus - 1 /\ Acked(n) \in 0..Modulus - 1
           /\ Acked(n) <= Received(n)
           /\ (Received(n) - Acked(n)) % Modulus = Received(n) - Acked(n)
           /\ \/ /\ Acked(n) = ackBytes
                 /\ Received(n) = bytesReceived + n
              \/ /\ Acked(n) = 0 /\ ackBytes # 0
                 /\ Received(n) = bytesReceived + n - 1 - ackBytes
              \/ bytesReceived - ackBytes + n >= Modulus
<1> USE AckAssumption DEF AckAssumption, AckInv, CountersOK
<1> DEFINE b == bytesReceived
           a == ackBytes
<1>1. b \in 0..Modulus - 1 /\ a \in 0..Modulus - 1 /\ a <= b /\ n \in Nat /\ n < Modulus /\ n >= 1 /\ Modulus \in Nat
  OBVIOUS
<1> HIDE DEF a, b
<1>2. CASE b + n < Modulus
  <2>1. Counted(n) = b + n
    BY <1>1, <1>2, ModBelow DEF Counted, b
  <2>2. ~Wrapped(n)
    BY <1>1, <2>1 DEF Wrapped, a
  <2>3. Received(n) = b + n /\ Acked(n) = a
    BY <2>1, <2>2 DEF Received, Acked, a
  <2>4. (Received(n) - Acked(n)) % Modulus = Received(n) - Acked(n)
    BY <1>1, <1>2, <2>3, ModBelow
  <2> QED
    BY <1>1, <1>2, <2>3, <2>4 DEF a, b
<1>3. CASE b + n >= Modulus /\ b - a + n < Modulus
  <2>1. Counted(n) = b + n - Modulus
    BY <1>1, <1>3, ModAbove DEF Counted, b
  <2>2. Wrapped(n) /\ a # 0
    BY <1>1, <1>3, <2>1 DEF Wrapped, a
  <2>3. Acked(n) = 0 /\ Received(n) = (b + n - 1 - a) % Modulus
    BY <1>1, <2>1, <2>2 DEF Received, Acked, a
  <2>4. (b + n - 1 - a) % Modulus = b + n - 1 - a
    BY <1>1, <1>3, ModBelow
  <2>5. (Received(n) - Acked(n)) % Modulus = Received(n) - Acked(n)
    BY <1>1, <1>3, <2>3, <2>4, ModBelow
  <2> QED
    BY <1>1, <1>3, <2>2, <2>3, <2>4, <2>5 DEF a, b
<1>4. CASE b - a + n >= Modulus
  <2>1. Counted(n) = b + n - Modulus
    BY <1>1, <1>4, ModAbove DEF Counted, b
  <2>2. ~Wrapped(n)
    BY <1>1, <1>4, <2>1 DEF Wrapped, a
  <2>3. Received(n) = b + n - Modulus /\ Acked(n) = a
    BY <2>1, <2>2 DEF Received, Acked, a
  <2>4. (Received(n) - Acked(n)) % Modulus = Received(n) - Acked(n)
    BY <1>1, <1>4, <2>3, ModBelow
  <2> QED
    BY <1>1, <1>4, <2>3, <2>4 DEF a, b
<1> QED
  BY <1>1, <1>2, <1>3, <1>4

\* A window the client sets leaves room for two reads, within the bound.
LEMMA WindowIsTwoReads ==
    ASSUME AckInv, ackWindow # -1
    PROVE  Half \in Nat /\ MaxRead <= Half /\ Half <= MaxBacklog
BY AckAssumption DEF AckAssumption, AckInv, CountersOK, Half

-----------------------------------------------------------------------------
(* The counters stay counters, and in order.                               *)
THEOREM CountersInOrder == CountersSpec => []AckInv
<1> USE AckAssumption DEF AckAssumption
<1>1. CountersInit => AckInv
  BY DEF CountersInit, AckInv, CountersOK
<1>2. AckInv /\ [CountersNext]_counters => AckInv'
  <2> SUFFICES ASSUME AckInv, [CountersNext]_counters PROVE AckInv'
    OBVIOUS
  <2>1. ASSUME NEW n \in 1..MaxRead, countRead(n) PROVE AckInv'
    <3> DEFINE r == Received(n)
               k == Acked(n)
    <3>1. /\ r \in 0..Modulus - 1 /\ k \in 0..Modulus - 1 /\ k <= r
          /\ (r - k) % Modulus = r - k
          /\ \/ k = ackBytes /\ r = bytesReceived + n
             \/ k = 0 /\ ackBytes # 0 /\ r = bytesReceived + n - 1 - ackBytes
             \/ bytesReceived - ackBytes + n >= Modulus
      BY CountedAndMoved
    <3>2. ackWindow' = ackWindow /\ Half' = Half /\ bytesReceived' = r
      BY <2>1 DEF countRead, Half
    <3>3. CASE Due(n)
      <4>1. ackWindow # -1 /\ r - k >= Half
        BY <3>1, <3>3 DEF Due
      <4>2. Half \in Nat /\ MaxRead <= Half /\ Half <= MaxBacklog
        BY <4>1, WindowIsTwoReads
      <4>3. ackBytes' = (k + Half) % Modulus /\ since' = 0
        BY <2>1, <3>3 DEF countRead
      <4>4. ackBytes' = k + Half
        BY <3>1, <4>1, <4>2, <4>3, ModBelow
      <4>5. r - k <= bytesReceived - ackBytes + n
        BY <3>1, <4>1 DEF AckInv, CountersOK
      <4> HIDE DEF r, k
      <4> QED
        BY <3>1, <3>2, <4>1, <4>2, <4>3, <4>4, <4>5 DEF AckInv, CountersOK
    <3>4. CASE ~Due(n)
      <4>1. ackBytes' = k
        BY <2>1, <3>4 DEF countRead
      <4>2. CASE ackWindow = -1
        <5>1. since' = 0
          BY <2>1, <4>2 DEF countRead
        <5> HIDE DEF r, k
        <5> QED
          BY <3>1, <3>2, <4>1, <4>2, <5>1 DEF AckInv, CountersOK
      <4>3. CASE ackWindow # -1
        <5>1. r - k < Half /\ since' = since + n
          BY <2>1, <3>1, <3>4, <4>3 DEF countRead, Due, Half, AckInv, CountersOK
        <5>2. Half \in Nat /\ MaxRead <= Half /\ Half <= MaxBacklog
          BY <4>3, WindowIsTwoReads
        <5> HIDE DEF r, k
        <5>3. since' <= (r - k) + (IF k = 0 THEN 1 ELSE 0)
          BY <3>1, <4>3, <5>1 DEF AckInv, CountersOK
        <5> QED
          BY <3>1, <3>2, <4>1, <4>3, <5>1, <5>2, <5>3 DEF AckInv, CountersOK
      <4> QED
        BY <4>2, <4>3
    <3> QED
      BY <3>3, <3>4
  <2>2. ASSUME NEW w \in Windows, setAckWindow(w) PROVE AckInv'
    <3>1. Backlog = bytesReceived - ackBytes
      BY ModBelow DEF Backlog, AckInv, CountersOK
    <3>2. ackWindow' = w /\ Half' \in Nat
      BY <2>2 DEF setAckWindow, Half
    <3> QED
      BY <2>2, <3>1, <3>2 DEF setAckWindow, AckInv, CountersOK
  <2>3. CASE UNCHANGED counters
    BY <2>3 DEF counters, AckInv, CountersOK, Half
  <2> QED
    BY <2>1, <2>2, <2>3 DEF CountersNext
<1> QED
  BY <1>1, <1>2, PTL DEF CountersSpec

(* No more than half a window is ever unacknowledged, whatever was counted *)
(* before the window was set and however often the counters wrap.          *)
THEOREM HalfUnacked == CountersSpec => []AtMostHalfUnacked
<1>1. AckInv => AtMostHalfUnacked
  BY DEF AckInv, AtMostHalfUnacked
<1> QED
  BY <1>1, CountersInOrder, PTL

(* However often they wrap, the counters are counters, and the history     *)
(* variable counts bytes (rtmpconnection.cpp:67-79, 269-276).              *)
THEOREM CountersCorrect == CountersSpec => []CountersOK
<1>1. AckInv => CountersOK
  BY DEF AckInv
<1> QED
  BY <1>1, CountersInOrder, PTL
=============================================================================
