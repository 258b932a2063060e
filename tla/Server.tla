------------------------------- MODULE Server -------------------------------
(***************************************************************************)
(* RtmpServer (rtmpserver.cpp, main.cpp): one thread accepts clients and   *)
(* keeps the list of their threads; each client's thread owns one          *)
(* RtmpConnection, of which this module keeps the socket.  Descriptors are *)
(* handed out by the operating system, the lowest free one first, so that  *)
(* one that was closed soon belongs to another client.                     *)
(* An exception that leaves a thread ends the process: alive.              *)
(***************************************************************************)
EXTENDS Integers, Sequences, FiniteSets

CONSTANTS MaxFd,     \* descriptors are 1..MaxFd; the first is serverSock_
          Backlog,   \* of listen()
          MaxConns,  \* bound: clients, numbered as they arrive
          Faults     \* what may go wrong:
                     \*   "abort"  accept() fails for a client that is gone
                     \*   "thread" a thread cannot be created
                     \*   "fatal"  an exception handleRead() does not catch

ASSUME ServerAssumption ==
    /\ MaxFd \in Nat \ {0}
    /\ Backlog \in Nat \ {0}
    /\ MaxConns \in Nat
    /\ Faults \subseteq {"abort", "thread", "fatal"}

VARIABLES
    arrived,        \* clients that have come so far
    backlog,        \* clients that wait for accept()
    table,          \* whose each descriptor is: a client, or one of
                    \* Free and Listening
    server,         \* where start() is: "accept", "clean" or "spawn"
    clientSock,     \* start()'s variable; -1 outside an iteration
    newClient,      \* the client behind clientSock
    clientThreads,  \* clientThreads_
    thread,         \* where each client's thread is
    sockfd,         \* the sockfd_ of its RtmpConnection
    alive,          \* the process has not been terminated
    peak            \* history: most threads that ran at the same time

mainThread == <<server, clientSock, newClient, clientThreads>>
vars == <<arrived, backlog, table, mainThread, thread, sockfd, alive, peak>>

Conns == 1..MaxConns
Fds == 1..MaxFd
Free == 0
Listening == -1

\* Mutant of NoSocket: 0, which is a descriptor, stands for none.
ZeroSocket == 0

NoSocket == -1

Running == {c \in Conns : thread[c] \notin {"none", "exited"}}

Init ==
    /\ arrived = 0 /\ backlog = <<>>
    /\ table = [f \in Fds |-> IF f = 1 THEN Listening ELSE Free]
    /\ server = "accept" /\ clientSock = -1 /\ newClient = 0
    /\ clientThreads = <<>>
    /\ thread = [c \in Conns |-> "none"]
    /\ sockfd = [c \in Conns |-> NoSocket]
    /\ alive = TRUE /\ peak = 0

\* An exception that nobody catches.
Terminate ==
    /\ alive' = FALSE
    /\ UNCHANGED <<arrived, backlog, table, mainThread, thread, sockfd, peak>>

\* A client connects; the kernel queues it.
connect ==
    /\ alive
    /\ arrived < MaxConns /\ Len(backlog) < Backlog
    /\ arrived' = arrived + 1
    /\ backlog' = Append(backlog, arrived + 1)
    /\ UNCHANGED <<table, mainThread, thread, sockfd, alive, peak>>

-----------------------------------------------------------------------------
(* start(): accept(), cleanClientThread(), push_back() of a new thread.    *)

FreeFds == {f \in Fds : table[f] = Free}

Main(at, next) == alive /\ server = at /\ server' = next

accept ==
    /\ backlog # <<>> /\ FreeFds # {}
    /\ Main("accept", "clean")
    /\ newClient' = Head(backlog)
    /\ backlog' = Tail(backlog)
    /\ \E f \in FreeFds : (\A g \in FreeFds : f <= g) /\ clientSock' = f
    /\ table' = [table EXCEPT ![clientSock'] = newClient']
    /\ UNCHANGED <<arrived, clientThreads, thread, sockfd, alive, peak>>

\* "accept client failed": no descriptor is left, or the client is gone.
acceptFails ==
    /\ alive /\ server = "accept"
    /\ backlog # <<>>
    /\ FreeFds = {} \/ "abort" \in Faults
    /\ Terminate

\* Mutant of Unfinished: the loop stops at the first thread still running.
UnfinishedPrefix(threads) ==
    LET done == {i \in DOMAIN threads : \A j \in 1..i : thread[threads[j]] = "exited"}
    IN  SubSeq(threads, Cardinality(done) + 1, Len(threads))

\* Mutant of JoinReturns: join() for each thread of the list.
JoinWaits == \A i \in DOMAIN clientThreads : thread[clientThreads[i]] = "exited"

\* timed_join() is given no time to wait: it returns at once.
JoinReturns == TRUE

\* Only this thread touches the list, so the loop is as good as one step:
\* kept[i] is what it has left of the first i threads.
Unfinished(threads) ==
    LET kept[i \in 0..Len(threads)] ==
            IF i = 0 THEN <<>>
            ELSE IF thread[threads[i]] = "exited" THEN kept[i - 1]
            ELSE Append(kept[i - 1], threads[i])
    IN  kept[Len(threads)]

cleanClientThread ==
    /\ JoinReturns
    /\ Main("clean", "spawn")
    /\ clientThreads' = Unfinished(clientThreads)
    /\ UNCHANGED <<arrived, backlog, table, clientSock, newClient, thread, sockfd, alive, peak>>

\* The new thread runs clientCycle(), which constructs the RtmpConnection.
spawn ==
    /\ Main("spawn", "accept")
    /\ clientThreads' = Append(clientThreads, newClient)
    /\ thread' = [thread EXCEPT ![newClient] = "serve"]
    /\ sockfd' = [sockfd EXCEPT ![newClient] = clientSock]
    /\ clientSock' = -1 /\ newClient' = 0
    /\ peak' = IF Cardinality(Running') > peak THEN Cardinality(Running') ELSE peak
    /\ UNCHANGED <<arrived, backlog, table, alive>>

spawnFails ==
    /\ alive /\ server = "spawn"
    /\ "thread" \in Faults
    /\ Terminate

-----------------------------------------------------------------------------
(* A client's thread: handleClient(), then ~RtmpConnection().              *)

\* close(sockfd_), when there is a socket: whoever has the number by now.
Closed(c) == [f \in Fds |-> IF f = sockfd[c] THEN Free ELSE table[f]]

Trans(c, from, to) ==
    /\ alive /\ thread[c] = from
    /\ thread' = [thread EXCEPT ![c] = to]
    /\ UNCHANGED <<arrived, backlog, mainThread, alive, peak>>

\* Mutants of disconnect: the closed socket is kept, or forgotten unclosed.
disconnectKeep(c) == table' = Closed(c) /\ UNCHANGED sockfd
disconnectLeak(c) == sockfd' = [sockfd EXCEPT ![c] = NoSocket] /\ UNCHANGED table

\* close() and sockfd_ = -1: the thread does not look at it in between.
disconnect(c) ==
    /\ table' = Closed(c)
    /\ sockfd' = [sockfd EXCEPT ![c] = NoSocket]

\* recv() fails or the client has closed: handleClient() returns.
hangUp(c) ==
    /\ Trans(c, "serve", "destroy")
    /\ disconnect(c)

\* handleRead() has caught an exception; handleClient() goes on to recv().
caught(c) ==
    /\ Trans(c, "serve", "disconnected")
    /\ disconnect(c)

\* recv(-1) fails and the second disconnect() does nothing.
recvFails(c) ==
    /\ Trans(c, "disconnected", "destroy")
    /\ UNCHANGED <<table, sockfd>>

fatal(c) ==
    /\ alive /\ thread[c] = "serve"
    /\ "fatal" \in Faults
    /\ Terminate

destroy(c) ==
    /\ Trans(c, "destroy", "exited")
    /\ disconnect(c)

\* No more clients come, or there is no process.
over ==
    /\ ~alive \/ (arrived = MaxConns /\ backlog = <<>> /\ server = "accept" /\ Running = {})
    /\ UNCHANGED vars

ServerNext == accept \/ acceptFails \/ cleanClientThread \/ spawn \/ spawnFails

ThreadNext == \E c \in Conns : hangUp(c) \/ caught(c) \/ recvFails(c) \/ fatal(c) \/ destroy(c)

Next == connect \/ ServerNext \/ ThreadNext \/ over

\* start() is scheduled; clients come and go as they like.
Spec == Init /\ [][Next]_vars /\ WF_vars(ServerNext)

-----------------------------------------------------------------------------
TypeOK ==
    /\ arrived \in 0..MaxConns /\ backlog \in Seq(Conns)
    /\ table \in [Fds -> Conns \union {Free, Listening}]
    /\ server \in {"accept", "clean", "spawn"}
    /\ clientSock \in Fds \union {-1} /\ newClient \in 0..MaxConns
    /\ server # "accept" => clientSock \in Fds /\ newClient \in Conns
    /\ clientThreads \in Seq(Conns)
    /\ thread \in [Conns -> {"none", "serve", "disconnected", "destroy", "exited"}]
    /\ sockfd \in [Conns -> Fds \union {-1}]
    /\ alive \in BOOLEAN /\ peak \in 0..MaxConns

(* A connection closes its socket in disconnect() and again, if it still   *)
(* has one, in its destructor (rtmpconnection.cpp:37-41, 796-800), while   *)
(* accept() hands the number to the next client: what a connection holds   *)
(* is its own socket, never another client's.                              *)
OwnSocket == \A c \in Conns : sockfd[c] # -1 => table[sockfd[c]] = c

(* A descriptor in use belongs to somebody who will close it: to start(),  *)
(* between accept() and the new thread, or to a connection that still      *)
(* holds it (rtmpserver.cpp:87-105, rtmpconnection.cpp:784-803).           *)
NoSocketLeaks ==
    \A f \in Fds : table[f] \in Conns =>
        \/ f = clientSock /\ table[f] = newClient
        \/ thread[table[f]] = "serve" /\ sockfd[table[f]] = f

(* Threads that ended are taken off the list only when the next client     *)
(* comes (rtmpserver.cpp:55-73, 98): still the list is never longer than   *)
(* the most threads that ran at once, and one.                             *)
ThreadListBounded == Len(clientThreads) <= peak + 1

(* A client in the backlog gets its thread, however long the others stay   *)
(* and whichever of them fail, or the process has ended                    *)
(* (rtmpserver.cpp:83-105).                                                *)
EveryClientServed ==
    \A c \in Conns : arrived >= c ~> (thread[c] # "none" \/ ~alive)
=============================================================================
