---------------------------- MODULE ServerProofs ----------------------------
(***************************************************************************)
(* For every number of descriptors and clients, and whatever goes wrong:   *)
(* a connection that has a socket has its own, and each client's           *)
(* descriptor is held by somebody who will close it.  Neither is           *)
(* inductive: that the client just accepted has no thread yet depends on   *)
(* the backlog holding each client once, in the order they came.  And the  *)
(* list of threads is never longer than the most that ran at once, and     *)
(* one: each thread is in it once, so that what a cleaning leaves can be   *)
(* counted against the threads that run.                                   *)
(***************************************************************************)
EXTENDS Server, ProofFacts, FiniteSetTheorems

Types ==
    /\ arrived \in 0..MaxConns /\ backlog \in Seq(Conns)
    /\ table \in [Fds -> Conns \union {Free, Listening}]
    /\ server \in {"accept", "clean", "spawn"}
    /\ clientSock \in Fds \union {-1} /\ newClient \in 0..MaxConns
    /\ thread \in [Conns -> {"none", "serve", "disconnected", "destroy", "exited"}]
    /\ sockfd \in [Conns -> Fds \union {-1}]

\* The clients that have no thread yet.
Fresh ==
    /\ \A i \in DOMAIN backlog : backlog[i] <= arrived /\ thread[backlog[i]] = "none"
    /\ \A i, j \in DOMAIN backlog : i < j => backlog[i] < backlog[j]
    /\ \A c \in Conns : c > arrived => thread[c] = "none"

\* The socket that start() has.
Accepted ==
    IF server = "accept" THEN clientSock = -1 /\ newClient = 0
    ELSE /\ clientSock \in Fds /\ newClient \in Conns
         /\ table[clientSock] = newClient
         /\ newClient <= arrived /\ thread[newClient] = "none"
         /\ \A i \in DOMAIN backlog : newClient < backlog[i]

\* The sockets that connections have.
Held == \A c \in Conns : sockfd[c] # -1 => thread[c] = "serve" /\ table[sockfd[c]] = c

SockInv == Types /\ Fresh /\ Accepted /\ Held /\ NoSocketLeaks

LEMMA InitSock == Init => SockInv
  BY ServerAssumption
     DEF Init, SockInv, Types, Fresh, Accepted, Held, NoSocketLeaks, Conns, Fds, Free, Listening,
         NoSocket

\* Kinds of steps.

LEMMA ConnectKeeps == SockInv /\ connect => SockInv'
<1> SUFFICES ASSUME SockInv, connect PROVE SockInv'
  OBVIOUS
<1> USE ServerAssumption DEF SockInv, Types, Conns, Fds
<1> arrived + 1 \in Conns /\ arrived' = arrived + 1
  BY DEF connect
<1>1. Types'
  <2>1. backlog' \in Seq(Conns)
    BY DEF connect
  <2>2. UNCHANGED <<table, server, clientSock, newClient, thread, sockfd>>
    BY DEF connect, mainThread
  <2> QED BY <2>1, <2>2
<1>2. Len(backlog') = Len(backlog) + 1 /\ DOMAIN backlog' = 1..Len(backlog) + 1
  BY DEF connect
<1>3. /\ backlog'[Len(backlog) + 1] = arrived + 1
      /\ \A i \in 1..Len(backlog) : backlog'[i] = backlog[i]
  BY DEF connect
<1>4. DOMAIN backlog = 1..Len(backlog) /\ Len(backlog) \in Nat
  OBVIOUS
<1>5. Fresh'
  BY <1>2, <1>3, <1>4 DEF connect, Fresh
<1>6. Accepted'
  BY <1>2, <1>3, <1>4 DEF connect, Accepted, mainThread
<1>7. Held' /\ NoSocketLeaks'
  BY DEF connect, Held, NoSocketLeaks, mainThread
<1> QED BY <1>1, <1>5, <1>6, <1>7

LEMMA AcceptKeeps == SockInv /\ accept => SockInv'
<1> SUFFICES ASSUME SockInv, accept PROVE SockInv'
  OBVIOUS
<1> USE ServerAssumption DEF SockInv, Types, Conns, Fds
<1>1. PICK f \in FreeFds : clientSock' = f
  BY DEF accept
<1>2. f \in Fds /\ table[f] = Free /\ table' = [table EXCEPT ![f] = newClient']
  BY <1>1 DEF accept, FreeFds
<1>3. backlog # <<>> /\ newClient' = backlog[1] /\ backlog[1] \in Conns
  BY DEF accept
<1>4. /\ Len(backlog) \in Nat \ {0} /\ Len(backlog') = Len(backlog) - 1
      /\ DOMAIN backlog = 1..Len(backlog) /\ DOMAIN backlog' = 1..Len(backlog) - 1
      /\ \A i \in DOMAIN backlog' : backlog'[i] = backlog[i + 1]
      /\ backlog' \in Seq(Conns)
  BY <1>3 DEF accept
<1>5. server = "accept" /\ server' = "clean" /\ UNCHANGED <<arrived, thread, sockfd>>
  BY DEF accept, Main
<1>6. Types'
  BY <1>1, <1>2, <1>3, <1>4, <1>5
<1>f. /\ \A i \in 1..Len(backlog) : backlog[i] <= arrived /\ thread[backlog[i]] = "none"
      /\ \A i, j \in 1..Len(backlog) : i < j => backlog[i] < backlog[j]
      /\ \A c \in Conns : c > arrived => thread[c] = "none"
  BY <1>4 DEF Fresh
<1>n. \A i \in 1..Len(backlog) - 1 : i + 1 \in 1..Len(backlog)
  BY <1>4
<1>7. Fresh'
  <2>1. \A i \in DOMAIN backlog' : backlog'[i] <= arrived' /\ thread'[backlog'[i]] = "none"
    <3> TAKE i \in DOMAIN backlog'
    <3>1. i + 1 \in 1..Len(backlog) /\ backlog'[i] = backlog[i + 1]
      BY <1>4, <1>n
    <3>2. backlog[i + 1] <= arrived /\ thread[backlog[i + 1]] = "none"
      BY <3>1, <1>f
    <3> QED BY <3>1, <3>2, <1>5
  <2>2. \A i, j \in DOMAIN backlog' : i < j => backlog'[i] < backlog'[j]
    <3> TAKE i, j \in DOMAIN backlog'
    <3> HAVE i < j
    <3>1. i + 1 \in 1..Len(backlog) /\ j + 1 \in 1..Len(backlog)
      BY <1>4, <1>n
    <3>3. i + 1 < j + 1
      <4>1. i \in Nat /\ j \in Nat
        BY <1>4, SMTT(30)
      <4> QED BY <4>1
    <3>2. backlog[i + 1] < backlog[j + 1]
      BY <3>1, <3>3, <1>f
    <3> QED BY <3>2, <1>4
  <2> QED BY <1>5, <1>f, <2>1, <2>2 DEF Fresh
<1>8. Accepted'
  <2>1. newClient' <= arrived /\ thread[newClient'] = "none"
    <3>1. 1 \in 1..Len(backlog)
      BY <1>4
    <3> QED BY <1>3, <1>f, <3>1
  <2>2. \A i \in DOMAIN backlog' : newClient' < backlog'[i]
    <3> TAKE i \in DOMAIN backlog'
    <3>1. 1 \in 1..Len(backlog) /\ i + 1 \in 1..Len(backlog) /\ 1 < i + 1
      BY <1>4, SMTT(30)
    <3>2. backlog[1] < backlog[i + 1]
      BY <3>1, <1>f
    <3> QED BY <3>2, <1>3, <1>4
  <2> QED BY <1>1, <1>2, <1>3, <1>5, <2>1, <2>2 DEF Accepted
<1>9. Held'
  BY <1>2, <1>5 DEF Held, Free
<1>10. NoSocketLeaks'
  BY <1>1, <1>2, <1>3, <1>5 DEF NoSocketLeaks, Accepted
<1> QED BY <1>6, <1>7, <1>8, <1>9, <1>10

LEMMA CleanKeeps == SockInv /\ cleanClientThread => SockInv'
  BY DEF SockInv, Types, Fresh, Accepted, Held, NoSocketLeaks, cleanClientThread, Main

LEMMA SpawnKeeps == SockInv /\ spawn => SockInv'
<1> SUFFICES ASSUME SockInv, spawn PROVE SockInv'
  OBVIOUS
<1> USE ServerAssumption DEF SockInv, Types, Conns, Fds
<1>1. /\ server = "spawn" /\ server' = "accept"
      /\ clientSock' = -1 /\ newClient' = 0
      /\ thread' = [thread EXCEPT ![newClient] = "serve"]
      /\ sockfd' = [sockfd EXCEPT ![newClient] = clientSock]
      /\ UNCHANGED <<arrived, backlog, table>>
  BY DEF spawn, Main
<1>2. /\ clientSock \in Fds /\ newClient \in Conns
      /\ table[clientSock] = newClient /\ thread[newClient] = "none"
      /\ newClient <= arrived
      /\ \A i \in DOMAIN backlog : newClient < backlog[i]
  BY <1>1 DEF Accepted
<1>3. Types'
  BY <1>1, <1>2
<1>4. Fresh'
  <2>1. \A i \in DOMAIN backlog : backlog[i] \in Conns /\ backlog[i] # newClient
    BY <1>2
  <2> QED BY <1>1, <1>2, <2>1 DEF Fresh
<1>5. Accepted'
  BY <1>1 DEF Accepted
<1>6. Held'
  BY <1>1, <1>2 DEF Held
<1>7. NoSocketLeaks'
  BY <1>1, <1>2 DEF NoSocketLeaks
<1> QED BY <1>3, <1>4, <1>5, <1>6, <1>7

\* A client's thread closes what it has, which is its own.
LEMMA DisconnectKeeps ==
    ASSUME NEW c \in Conns, NEW from, NEW to \in {"disconnected", "destroy", "exited"},
           SockInv, from # "none", Trans(c, from, to), disconnect(c)
    PROVE  SockInv'
<1> USE ServerAssumption DEF SockInv, Types, Conns, Fds
<1>1. /\ thread[c] # "none" /\ thread' = [thread EXCEPT ![c] = to]
      /\ table' = Closed(c) /\ sockfd' = [sockfd EXCEPT ![c] = -1]
      /\ UNCHANGED <<arrived, backlog, server, clientSock, newClient>>
  BY DEF Trans, disconnect, mainThread, NoSocket
<1>2. \A f \in Fds : table'[f] = IF f = sockfd[c] THEN Free ELSE table[f]
  BY <1>1 DEF Closed
<1>3. Types'
  BY <1>1 DEF Closed, Free
<1>4. Fresh'
  <2>1. \A i \in DOMAIN backlog : backlog[i] \in Conns /\ backlog[i] # c
    BY <1>1 DEF Fresh
  <2> QED BY <1>1, <2>1 DEF Fresh
<1>5. Accepted'
  BY <1>1, <1>2 DEF Accepted, Held
<1>6. Held'
  BY <1>1, <1>2 DEF Held
<1>7. NoSocketLeaks'
  <2> SUFFICES ASSUME NEW f \in Fds, table'[f] \in Conns
               PROVE  \/ f = clientSock /\ table'[f] = newClient
                      \/ thread'[table'[f]] = "serve" /\ sockfd'[table'[f]] = f
    BY <1>1 DEF NoSocketLeaks
  <2>1. f # sockfd[c] /\ table'[f] = table[f]
    BY <1>2 DEF Free
  <2>2. table[f] # c \/ (f = clientSock /\ table[f] = newClient)
    BY <2>1 DEF NoSocketLeaks
  <2> QED BY <1>1, <2>1, <2>2 DEF NoSocketLeaks
<1> QED BY <1>3, <1>4, <1>5, <1>6, <1>7

LEMMA RecvFailsKeeps ==
    ASSUME NEW c \in Conns, SockInv, recvFails(c)
    PROVE  SockInv'
<1> USE ServerAssumption DEF SockInv, Types, Conns, Fds
<1>1. /\ thread[c] = "disconnected" /\ thread' = [thread EXCEPT ![c] = "destroy"]
      /\ UNCHANGED <<arrived, backlog, table, sockfd, server, clientSock, newClient>>
  BY DEF recvFails, Trans, mainThread
<1>2. sockfd[c] = -1
  BY <1>1 DEF Held
<1>3. Types'
  BY <1>1
<1>4. Fresh'
  <2>1. \A i \in DOMAIN backlog : backlog[i] \in Conns /\ backlog[i] # c
    BY <1>1 DEF Fresh
  <2> QED BY <1>1, <2>1 DEF Fresh
<1>5. Accepted' /\ Held' /\ NoSocketLeaks'
  BY <1>1, <1>2 DEF Accepted, Held, NoSocketLeaks
<1> QED BY <1>3, <1>4, <1>5

LEMMA NextKeeps == SockInv /\ [Next]_vars => SockInv'
<1> SUFFICES ASSUME SockInv, [Next]_vars PROVE SockInv'
  OBVIOUS
<1>1. CASE UNCHANGED vars
  BY <1>1 DEF SockInv, Types, Fresh, Accepted, Held, NoSocketLeaks, vars, mainThread
<1>2. CASE Terminate
  BY <1>2 DEF Terminate, SockInv, Types, Fresh, Accepted, Held, NoSocketLeaks, mainThread
<1>3. CASE connect
  BY <1>3, ConnectKeeps
<1>4. CASE accept
  BY <1>4, AcceptKeeps
<1>5. CASE cleanClientThread
  BY <1>5, CleanKeeps
<1>6. CASE spawn
  BY <1>6, SpawnKeeps
<1>7. CASE ThreadNext
  <2> PICK c \in Conns : hangUp(c) \/ caught(c) \/ recvFails(c) \/ fatal(c) \/ destroy(c)
    BY <1>7 DEF ThreadNext
  <2>1. CASE hangUp(c)
    BY <2>1, DisconnectKeeps DEF hangUp
  <2>2. CASE caught(c)
    BY <2>2, DisconnectKeeps DEF caught
  <2>3. CASE recvFails(c)
    BY <2>3, RecvFailsKeeps
  <2>4. CASE fatal(c)
    BY <2>4, <1>2 DEF fatal
  <2>5. CASE destroy(c)
    BY <2>5, DisconnectKeeps DEF destroy
  <2> QED BY <2>1, <2>2, <2>3, <2>4, <2>5
<1> QED
  BY <1>1, <1>2, <1>3, <1>4, <1>5, <1>6, <1>7 DEF Next, ServerNext, acceptFails, spawnFails, over

LEMMA SocketsInOrder == Spec => []SockInv
<1>1. Init => SockInv
  BY InitSock
<1>2. SockInv /\ [Next]_vars => SockInv'
  BY NextKeeps
<1> QED BY <1>1, <1>2, PTL DEF Spec

\* However descriptors are handed out again, a connection that has a socket
\* has its own (rtmpconnection.cpp:37-41, 796-800).
THEOREM SocketIsOwn == Spec => []OwnSocket
<1>1. SockInv => OwnSocket
  BY DEF SockInv, Held, OwnSocket
<1> QED BY <1>1, SocketsInOrder, PTL

\* Whichever threads fail, and in whatever order they end, a client's
\* descriptor is start()'s or that of a connection that will close it
\* (rtmpserver.cpp:83-105, rtmpconnection.cpp:784-803).
THEOREM NoSocketIsLost == Spec => []NoSocketLeaks
<1>1. SockInv => NoSocketLeaks
  BY DEF SockInv
<1> QED BY <1>1, SocketsInOrder, PTL

-----------------------------------------------------------------------------
(* The list of threads.                                                    *)

\* What the loop has left of the first i threads; it is by induction on i
\* that this is well-defined and a list of clients.
LEMMA UnfinishedIs ==
    ASSUME NEW t, t \in Seq(Conns)
    PROVE  \E k \in [0..Len(t) -> Seq(Conns)] :
               /\ k[0] = <<>>
               /\ \A i \in 1..Len(t) :
                      k[i] = IF thread[t[i]] = "exited" THEN k[i - 1] ELSE Append(k[i - 1], t[i])
               /\ Unfinished(t) = k[Len(t)]
<1> DEFINE n == Len(t)
           f == [p \in Nat \X Seq(Conns) |->
                    IF p[1] \in 1..n /\ thread[t[p[1]]] # "exited" THEN Append(p[2], t[p[1]])
                    ELSE p[2]]
<1>1. f \in [Nat \X Seq(Conns) -> Seq(Conns)]
  <2> SUFFICES ASSUME NEW i \in Nat, NEW s \in Seq(Conns), i \in 1..n
               PROVE  Append(s, t[i]) \in Seq(Conns)
    OBVIOUS
  <2>1. t[i] \in Conns
    OBVIOUS
  <2> QED
    BY <2>1
<1>2. n \in Nat /\ <<>> \in Seq(Conns)
  OBVIOUS
<1>3. \A i \in 1..n, s \in Seq(Conns) :
         f[<<i, s>>] = IF thread[t[i]] = "exited" THEN s ELSE Append(s, t[i])
  OBVIOUS
<1> HIDE DEF f, n
<1>4. PICK g : /\ g \in [0..n -> Seq(Conns)]
                /\ g[0] = <<>>
                /\ \A i \in 1..n : g[i] = f[<<i, g[i - 1]>>]
  <2>1. \E g : Iterates(g, f, <<>>, n, Seq(Conns))
    BY <1>1, <1>2, Iterated
  <2> QED
    BY <2>1 DEF Iterates
<1>5. \A i \in 1..n : g[i] = IF thread[t[i]] = "exited" THEN g[i - 1] ELSE Append(g[i - 1], t[i])
  <2> TAKE i \in 1..n
  <2>1. g[i - 1] \in Seq(Conns)
    BY <1>2, <1>4
  <2> QED
    BY <1>3, <1>4, <2>1
<1> DEFINE Body(k) == [i \in 0..n |->
                          IF i = 0 THEN <<>>
                          ELSE IF thread[t[i]] = "exited" THEN k[i - 1]
                          ELSE Append(k[i - 1], t[i])]
<1>6. g = Body(g)
  <2>1. \A i \in 0..n : g[i] = Body(g)[i]
    <3> TAKE i \in 0..n
    <3>1. i = 0 \/ (i # 0 /\ i \in 1..n)
      BY <1>2
    <3> QED
      BY <1>4, <1>5, <3>1, Zenon
  <2> QED
    BY <1>4, <2>1
<1>7. PICK k : k = Body(k) /\ Unfinished(t) = k[n]
  BY <1>6, Zenon DEF Unfinished, n
<1>8. k[0] = <<>> /\ \A i \in 1..n :
         k[i] = IF thread[t[i]] = "exited" THEN k[i - 1] ELSE Append(k[i - 1], t[i])
  <2>1. 0 \in 0..n /\ \A i \in 1..n : i \in 0..n /\ i # 0
    BY <1>2
  <2> QED
    BY <1>7, <2>1, Zenon
<1> DEFINE T == {m \in Nat : m <= n => k[m] \in Seq(Conns)}
<1>9. Nat \subseteq T
  <2>1. 0 \in T
    BY <1>2, <1>8
  <2>2. \A m \in Nat : m \in T => m + 1 \in T
    <3> TAKE m \in Nat
    <3> HAVE m \in T
    <3> SUFFICES ASSUME m + 1 <= n PROVE k[m + 1] \in Seq(Conns)
      OBVIOUS
    <3>1. k[m] \in Seq(Conns) /\ m + 1 \in 1..n /\ (m + 1) - 1 = m
      BY <1>2
    <3>2. t[m + 1] \in Conns
      BY <3>1 DEF n
    <3>3. k[m + 1] = IF thread[t[m + 1]] = "exited" THEN k[m] ELSE Append(k[m], t[m + 1])
      BY <1>8, <3>1
    <3> QED
      BY <3>1, <3>2, <3>3
  <2> HIDE DEF T
  <2> QED
    BY <2>1, <2>2, Induction
<1>10. k \in [0..n -> Seq(Conns)]
  <2>1. \A i \in 0..n : k[i] \in Seq(Conns)
    BY <1>2, <1>9
  <2> QED
    BY <1>7, <2>1
<1> QED
  BY <1>7, <1>8, <1>10 DEF n

\* Each thread is in the list once.
Once(list) == \A i, j \in DOMAIN list : i # j => list[i] # list[j]

\* Each element of one list is in the other, and its thread has not ended.
Left(list, from) ==
    \A i \in DOMAIN list : \E j \in DOMAIN from :
        list[i] = from[j] /\ thread[from[j]] # "exited"

\* What a list keeps of the first m threads of another.
From(list, t, m) ==
    \A i \in DOMAIN list : \E j \in 1..m : list[i] = t[j] /\ thread[t[j]] # "exited"

\* One more thread is kept.
LEMMA OneMore ==
    ASSUME NEW t, t \in Seq(Conns), NEW l, l \in Seq(Conns), NEW m, m \in Nat,
           m + 1 \in 1..Len(t), Once(t), thread[t[m + 1]] # "exited", Once(l), From(l, t, m),
           NEW v, v = Append(l, t[m + 1])
    PROVE  Once(v) /\ From(v, t, m + 1)
<1>1. t[m + 1] \in Conns
  OBVIOUS
<1>2. /\ DOMAIN v = 1..Len(l) + 1 /\ DOMAIN l = 1..Len(l) /\ Len(l) \in Nat
      /\ v[Len(l) + 1] = t[m + 1]
      /\ \A i \in 1..Len(l) : v[i] = l[i]
  BY <1>1
<1>3. \A i \in 1..Len(l) : l[i] # t[m + 1]
  <2> TAKE i \in 1..Len(l)
  <2>1. PICK j \in 1..m : l[i] = t[j]
    BY <1>2 DEF From
  <2>2. j \in DOMAIN t /\ m + 1 \in DOMAIN t /\ j # m + 1
    OBVIOUS
  <2> QED
    BY <2>1, <2>2 DEF Once
<1>4. Once(v)
  BY <1>2, <1>3 DEF Once
<1>5. \A i \in DOMAIN v : \E j \in 1..m + 1 : v[i] = t[j] /\ thread[t[j]] # "exited"
  <2> TAKE i \in DOMAIN v
  <2>1. CASE i = Len(l) + 1
    BY <1>2, <2>1
  <2>2. CASE i # Len(l) + 1
    <3>1. i \in 1..Len(l)
      BY <1>2, <2>2
    <3>2. PICK j \in 1..m : l[i] = t[j] /\ thread[t[j]] # "exited"
      BY <1>2, <3>1 DEF From
    <3>3. j \in 1..m + 1
      OBVIOUS
    <3> QED
      BY <1>2, <3>1, <3>2, <3>3
  <2> QED
    BY <2>1, <2>2
<1> QED
  BY <1>4, <1>5 DEF From

\* What cleanClientThread() leaves of a list in which each thread is once.
LEMMA UnfinishedLeft ==
    ASSUME NEW t, t \in Seq(Conns), Once(t)
    PROVE  Unfinished(t) \in Seq(Conns) /\ Once(Unfinished(t)) /\ Left(Unfinished(t), t)
<1>1. PICK k \in [0..Len(t) -> Seq(Conns)] :
          /\ k[0] = <<>>
          /\ \A i \in 1..Len(t) :
                 k[i] = IF thread[t[i]] = "exited" THEN k[i - 1] ELSE Append(k[i - 1], t[i])
          /\ Unfinished(t) = k[Len(t)]
  BY UnfinishedIs
<1> DEFINE T == {m \in Nat : m <= Len(t) => Once(k[m]) /\ From(k[m], t, m)}
<1>2. Len(t) \in Nat
  OBVIOUS
<1>3. 0 \in T
  BY <1>1 DEF Once, From
<1>4. \A m \in Nat : m \in T => m + 1 \in T
  <2> TAKE m \in Nat
  <2> HAVE m \in T
  <2> SUFFICES ASSUME m + 1 <= Len(t) PROVE Once(k[m + 1]) /\ From(k[m + 1], t, m + 1)
    OBVIOUS
  <2>1. m + 1 \in 1..Len(t) /\ m \in 0..Len(t) /\ (m + 1) - 1 = m /\ m <= Len(t)
    BY <1>2
  <2>2. k[m] \in Seq(Conns) /\ Once(k[m]) /\ From(k[m], t, m)
    BY <2>1
  <2>3. k[m + 1] = IF thread[t[m + 1]] = "exited" THEN k[m] ELSE Append(k[m], t[m + 1])
    BY <1>1, <2>1
  <2>4. CASE thread[t[m + 1]] = "exited"
    <3>1. \A j \in 1..m : j \in 1..m + 1
      OBVIOUS
    <3> QED
      BY <2>2, <2>3, <2>4, <3>1 DEF From
  <2>5. CASE thread[t[m + 1]] # "exited"
    <3>1. k[m + 1] = Append(k[m], t[m + 1])
      BY <2>3, <2>5
    <3> QED
      BY <2>1, <2>2, <2>5, <3>1, OneMore, Zenon
  <2> QED
    BY <2>4, <2>5
<1> HIDE DEF T
<1>5. Len(t) \in T
  BY <1>2, <1>3, <1>4, Induction
<1>6. Once(k[Len(t)]) /\ From(k[Len(t)], t, Len(t))
  BY <1>2, <1>5 DEF T
<1>7. k[Len(t)] \in Seq(Conns) /\ DOMAIN t = 1..Len(t)
  BY <1>2
<1> DEFINE r == k[Len(t)]
<1>8. Left(r, t)
  <2>1. \A i \in DOMAIN r : \E j \in 1..Len(t) : r[i] = t[j] /\ thread[t[j]] # "exited"
    BY <1>6 DEF From
  <2> HIDE DEF r
  <2> QED
    BY <1>7, <2>1 DEF Left
<1> QED
  BY <1>1, <1>6, <1>7, <1>8

\* So many clients are as many threads.
LEMMA OnceIsCounted ==
    ASSUME NEW l, l \in Seq(Conns), Once(l), NEW T, IsFiniteSet(T),
           \A i \in DOMAIN l : l[i] \in T
    PROVE  Len(l) <= Cardinality(T)
<1> DEFINE f == [i \in 1..Len(l) |-> l[i]]
<1>1. DOMAIN l = 1..Len(l) /\ Len(l) \in Nat
  OBVIOUS
<1>2. f \in [1..Len(l) -> T]
  BY <1>1
<1>3. \A i, j \in 1..Len(l) : f[i] = f[j] => i = j
  BY <1>1 DEF Once
<1> HIDE DEF f
<1>4. f \in Injection(1..Len(l), T)
  BY <1>2, <1>3 DEF Injection, IsInjective
<1>5. Cardinality(1..Len(l)) <= Cardinality(T)
  BY <1>4, FS_Injection
<1>6. Cardinality(1..Len(l)) = Len(l)
  BY <1>1, FS_Interval
<1> QED
  BY <1>5, <1>6

\* The list has each thread once, and no more threads than ran at once; one
\* more when the newest was added after the last cleaning.
ListInv ==
    /\ clientThreads \in Seq(Conns) /\ Once(clientThreads)
    /\ \A i \in DOMAIN clientThreads : thread[clientThreads[i]] # "none"
    /\ alive \in BOOLEAN /\ peak \in 0..MaxConns
    /\ Cardinality(Running) <= peak
    /\ Len(clientThreads) <= peak + (IF server = "spawn" THEN 0 ELSE 1)

LEMMA RunningIsFinite == IsFiniteSet(Running) /\ Cardinality(Running) \in 0..MaxConns
<1>1. IsFiniteSet(Conns) /\ Cardinality(Conns) = MaxConns
  BY ServerAssumption, FS_Interval DEF ServerAssumption, Conns
<1>2. Running \in SUBSET Conns
  BY DEF Running
<1>3. IsFiniteSet(Running) /\ Cardinality(Running) <= MaxConns
  BY <1>1, <1>2, FS_Subset
<1>4. Cardinality(Running) \in Nat
  BY <1>3, FS_CardinalityType
<1> QED
  BY <1>3, <1>4, ServerAssumption DEF ServerAssumption

LEMMA InitList == Init => ListInv
<1> SUFFICES ASSUME Init PROVE ListInv
  OBVIOUS
<1>1. Running = {}
  BY DEF Init, Running
<1>2. Cardinality(Running) = 0
  BY <1>1, FS_EmptySet
<1> QED
  BY <1>2, ServerAssumption DEF Init, ListInv, Once, ServerAssumption

\* Steps that add no thread and leave the list alone.
LEMMA ListStays ==
    ASSUME SockInv, ListInv, UNCHANGED <<clientThreads, peak>>, alive' \in BOOLEAN,
           thread' \in [Conns -> {"none", "serve", "disconnected", "destroy", "exited"}],
           \A c \in Conns : thread'[c] = thread[c] \/ thread[c] \notin {"none", "exited"},
           \A c \in Conns : thread[c] # "none" => thread'[c] # "none",
           server' = "spawn" => server = "spawn"
    PROVE  ListInv'
<1>1. Running' \in SUBSET Running
  BY DEF Running
<1>2. Cardinality(Running') <= Cardinality(Running) /\ IsFiniteSet(Running')
  BY <1>1, RunningIsFinite, FS_Subset
<1>3. Cardinality(Running') \in Nat
  BY <1>2, FS_CardinalityType
<1>4. \A i \in DOMAIN clientThreads : clientThreads[i] \in Conns
  BY DEF ListInv
<1>5. \A i \in DOMAIN clientThreads : thread'[clientThreads[i]] # "none"
  BY <1>4 DEF ListInv
<1>6. Cardinality(Running') <= peak
  BY <1>2, <1>3, RunningIsFinite DEF ListInv
<1>7. Once(clientThreads)' /\ Len(clientThreads) \in Nat
  BY DEF ListInv, Once
<1>8. Len(clientThreads) <= peak + (IF server' = "spawn" THEN 0 ELSE 1)
  BY <1>7 DEF ListInv
<1> QED
  BY <1>5, <1>6, <1>7, <1>8 DEF ListInv

LEMMA CleanKeepsList == SockInv /\ ListInv /\ cleanClientThread => ListInv'
<1> SUFFICES ASSUME SockInv, ListInv, cleanClientThread PROVE ListInv'
  OBVIOUS
<1> DEFINE r == Unfinished(clientThreads)
<1>1. /\ clientThreads' = r /\ server' = "spawn"
      /\ UNCHANGED <<thread, alive, peak>>
  BY DEF cleanClientThread, Main
<1>2. r \in Seq(Conns) /\ Once(r) /\ Left(r, clientThreads)
  BY UnfinishedLeft DEF ListInv
<1> HIDE DEF r
<1>3. \A i \in DOMAIN r : r[i] \in Running
  <2> TAKE i \in DOMAIN r
  <2>1. PICK j \in DOMAIN clientThreads :
            r[i] = clientThreads[j] /\ thread[clientThreads[j]] # "exited"
    BY <1>2 DEF Left
  <2>2. clientThreads[j] \in Conns /\ thread[clientThreads[j]] # "none"
    BY DEF ListInv
  <2> QED
    BY <2>1, <2>2 DEF Running
<1>4. Len(r) <= Cardinality(Running)
  BY <1>2, <1>3, RunningIsFinite, OnceIsCounted
<1>5. Running' = Running /\ Once(clientThreads)' /\ Len(r) \in Nat
  BY <1>1, <1>2 DEF Running, Once
<1>6. \A i \in DOMAIN r : thread[r[i]] # "none"
  BY <1>3 DEF Running
<1>7. Len(r) <= peak
  BY <1>4, <1>5, RunningIsFinite DEF ListInv
<1> QED
  BY <1>1, <1>2, <1>5, <1>6, <1>7 DEF ListInv

LEMMA SpawnKeepsList == SockInv /\ ListInv /\ spawn => ListInv'
<1> SUFFICES ASSUME SockInv, ListInv, spawn PROVE ListInv'
  OBVIOUS
<1>1. /\ server = "spawn" /\ server' = "accept"
      /\ clientThreads' = Append(clientThreads, newClient)
      /\ thread' = [thread EXCEPT ![newClient] = "serve"]
      /\ peak' = IF Cardinality(Running') > peak THEN Cardinality(Running') ELSE peak
      /\ alive' = alive
  BY DEF spawn, Main
<1>2. newClient \in Conns /\ thread[newClient] = "none"
  BY <1>1 DEF SockInv, Accepted
<1>3. \A i \in DOMAIN clientThreads : clientThreads[i] \in Conns /\ clientThreads[i] # newClient
  BY <1>2 DEF ListInv
<1> DEFINE l == clientThreads'
           n == Len(clientThreads)
<1>4. /\ l \in Seq(Conns) /\ n \in Nat /\ Len(l) = n + 1
      /\ DOMAIN clientThreads = 1..n /\ DOMAIN l = 1..n + 1
      /\ l[n + 1] = newClient /\ \A i \in 1..n : l[i] = clientThreads[i]
  BY <1>1, <1>2 DEF ListInv
<1> HIDE DEF l
<1>5. Once(l)
  <2> HIDE DEF n
  <2> QED
    BY <1>3, <1>4 DEF Once, ListInv
<1>6. \A i \in DOMAIN l : thread'[l[i]] # "none"
  <2> TAKE i \in DOMAIN l
  <2>0. thread \in [Conns -> {"none", "serve", "disconnected", "destroy", "exited"}]
    BY DEF SockInv, Types
  <2>1. CASE i = n + 1
    BY <1>1, <1>2, <1>4, <2>0, <2>1
  <2>2. CASE i # n + 1
    <3>1. i \in 1..n
      BY <1>4, <2>2
    <3>2. l[i] = clientThreads[i] /\ l[i] \in Conns /\ l[i] # newClient /\ thread[l[i]] # "none"
      BY <1>3, <1>4, <3>1 DEF ListInv
    <3> QED
      BY <1>1, <2>0, <3>2
  <2> QED
    BY <2>1, <2>2
<1>7. Cardinality(Running') \in 0..MaxConns
  <2>1. IsFiniteSet(Conns) /\ Cardinality(Conns) = MaxConns /\ MaxConns \in Nat
    BY ServerAssumption, FS_Interval DEF ServerAssumption, Conns
  <2>2. Running' \in SUBSET Conns
    BY DEF Running
  <2>3. IsFiniteSet(Running') /\ Cardinality(Running') <= MaxConns
    BY <2>1, <2>2, FS_Subset
  <2> QED
    BY <2>1, <2>3, FS_CardinalityType
<1>8. /\ peak' \in 0..MaxConns /\ Cardinality(Running') <= peak' /\ peak <= peak'
  <2> HIDE DEF l, n
  <2>1. peak \in 0..MaxConns
    BY DEF ListInv
  <2> DEFINE r == Cardinality(Running')
  <2>2. r \in 0..MaxConns /\ peak' = IF r > peak THEN r ELSE peak
    BY <1>1, <1>7
  <2> HIDE DEF r
  <2>3. peak' \in 0..MaxConns /\ r <= peak' /\ peak <= peak'
    BY <2>1, <2>2
  <2> QED
    BY <2>3 DEF r
<1>9. Len(l) <= peak' + 1
  BY <1>1, <1>4, <1>8 DEF ListInv
<1>10. ListInv' <=> /\ l \in Seq(Conns) /\ Once(l)
                    /\ \A i \in DOMAIN l : thread'[l[i]] # "none"
                    /\ alive' \in BOOLEAN /\ peak' \in 0..MaxConns
                    /\ Cardinality(Running') <= peak'
                    /\ Len(l) <= peak' + (IF server' = "spawn" THEN 0 ELSE 1)
  BY DEF ListInv, Once, l
<1> QED
  BY <1>1, <1>4, <1>5, <1>6, <1>8, <1>9, <1>10 DEF ListInv

LEMMA NextKeepsList == SockInv /\ ListInv /\ [Next]_vars => ListInv'
<1> SUFFICES ASSUME SockInv, ListInv, [Next]_vars PROVE ListInv'
  OBVIOUS
<1>t. thread \in [Conns -> {"none", "serve", "disconnected", "destroy", "exited"}]
  BY DEF SockInv, Types
<1>b. alive \in BOOLEAN
  BY DEF ListInv
<1>1. CASE UNCHANGED vars
  BY <1>1, <1>t, <1>b, ListStays DEF vars, mainThread
<1>2. CASE Terminate
  BY <1>2, <1>t, ListStays DEF Terminate, mainThread
<1>3. CASE connect
  BY <1>3, <1>t, <1>b, ListStays DEF connect, mainThread
<1>4. CASE accept
  BY <1>4, <1>t, <1>b, ListStays DEF accept, Main
<1>5. CASE cleanClientThread
  BY <1>5, CleanKeepsList
<1>6. CASE spawn
  BY <1>6, SpawnKeepsList
<1>7. CASE ThreadNext
  <2> PICK c \in Conns : hangUp(c) \/ caught(c) \/ recvFails(c) \/ fatal(c) \/ destroy(c)
    BY <1>7 DEF ThreadNext
  <2>1. ASSUME NEW from \in {"serve", "disconnected", "destroy"},
               NEW to \in {"disconnected", "destroy", "exited"}, Trans(c, from, to)
        PROVE  ListInv'
    <3>1. /\ thread[c] = from /\ thread' = [thread EXCEPT ![c] = to]
          /\ UNCHANGED <<clientThreads, peak, alive, server>>
      BY <2>1 DEF Trans, mainThread
    <3>2. \A d \in Conns : thread'[d] = IF d = c THEN to ELSE thread[d]
      BY <1>t, <3>1
    <3>3. thread' \in [Conns -> {"none", "serve", "disconnected", "destroy", "exited"}]
      BY <1>t, <3>1
    <3>4. from \notin {"none", "exited"} /\ to # "none"
      OBVIOUS
    <3> QED
      BY <1>b, <3>1, <3>2, <3>3, <3>4, ListStays
  <2>2. CASE hangUp(c) \/ caught(c)
    BY <2>1, <2>2 DEF hangUp, caught
  <2>3. CASE recvFails(c) \/ destroy(c)
    BY <2>1, <2>3 DEF recvFails, destroy
  <2>4. CASE fatal(c)
    BY <2>4, <1>2 DEF fatal
  <2> QED BY <2>2, <2>3, <2>4
<1> QED
  BY <1>1, <1>2, <1>3, <1>4, <1>5, <1>6, <1>7 DEF Next, ServerNext, acceptFails, spawnFails, over

LEMMA ListInOrder == Spec => [](SockInv /\ ListInv)
<1>1. Init => SockInv /\ ListInv
  BY InitSock, InitList
<1>2. SockInv /\ ListInv /\ [Next]_vars => (SockInv /\ ListInv)'
  BY NextKeeps, NextKeepsList
<1> QED BY <1>1, <1>2, PTL DEF Spec

\* The list of threads is longer than the most threads that ever ran at once
\* by one at the most, though a thread that has ended is taken off it only
\* when another client comes (rtmpserver.cpp:55-73, 98).
THEOREM ListIsBounded == Spec => []ThreadListBounded
<1>1. SockInv /\ ListInv => ThreadListBounded
  <2> SUFFICES ASSUME ListInv PROVE ThreadListBounded
    OBVIOUS
  <2>1. Len(clientThreads) \in Nat /\ peak \in Nat
    BY ServerAssumption DEF ListInv, ServerAssumption
  <2> QED
    BY <2>1 DEF ListInv, ThreadListBounded
<1> QED BY <1>1, ListInOrder, PTL

\* The accepting thread, the kernel's queue, the table of descriptors and
\* the threads have the values they should (rtmpserver.cpp:29-105); while
\* start() is between accept() and the new thread it has a socket.
THEOREM TypeCorrect == Spec => []TypeOK
<1>1. SockInv /\ ListInv => TypeOK
  BY DEF SockInv, ListInv, Types, Accepted, TypeOK
<1> QED BY <1>1, ListInOrder, PTL
=============================================================================
