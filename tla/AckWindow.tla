----------------------------- MODULE AckWindow ------------------------------
(***************************************************************************)
(* The acknowledgement window of a connection (rtmpconnection.cpp:67-79,   *)
(* 269-276): two unsigned counters that wrap, and one acknowledgement at   *)
(* most per recv().  Modulus stands for 2^32.  The names are not those of  *)
(* Connection, so that one module can extend both.                         *)
(***************************************************************************)
EXTENDS Integers

CONSTANTS Modulus,     \* the counters are unsigned, modulo Modulus
          Windows,     \* the window sizes the client may set
          MaxRead,     \* BUFFER_SIZE, the most bytes one recv() returns
          MaxBacklog   \* bound: bytes not accounted for when a window is set

\* A window is at least two reads, so that half a window per read is enough
\* to catch up, and the backlog is never near 2^32.
ASSUME AckAssumption ==
    /\ Modulus \in Nat /\ MaxRead \in Nat \ {0} /\ MaxBacklog \in Nat
    /\ MaxBacklog + MaxRead < Modulus
    /\ Windows \subseteq Nat
    /\ \A w \in Windows : MaxRead <= w \div 2 /\ w \div 2 <= MaxBacklog

VARIABLES bytesReceived,  \* bytesReceived_
          ackBytes,       \* ackBytes_
          ackWindow,      \* windowAckSize_, -1 until the client sets it
          since           \* history: bytes since the last acknowledgement, or
                          \* since the client set its window

counters == <<bytesReceived, ackBytes, ackWindow, since>>

Half == ackWindow \div 2

Backlog == (bytesReceived - ackBytes) % Modulus

CountersInit == bytesReceived = 0 /\ ackBytes = 0 /\ ackWindow = -1 /\ since = 0

\* Mutants of Counted and Acked: the counter does not wrap; only
\* bytesReceived_ is moved when it has.
CountedWide(n) == bytesReceived + n
AckedNotMoved(n) == ackBytes

\* The counters once n more bytes are counted.  When bytesReceived_ has
\* wrapped, both are moved down so that the difference is about the same.
Counted(n) == (bytesReceived + n) % Modulus
Wrapped(n) == Counted(n) < ackBytes
Received(n) == IF Wrapped(n) THEN (Counted(n) + Modulus - 1 - ackBytes) % Modulus ELSE Counted(n)
Acked(n) == IF Wrapped(n) THEN 0 ELSE ackBytes

\* The comparison is unsigned.
Due(n) ==
    /\ ackWindow # -1
    /\ (Received(n) - Acked(n)) % Modulus >= Half

\* ackBytes_ only advances by half a window: what is beyond that is still
\* outstanding and makes the next acknowledgement come earlier.
countRead(n) ==
    /\ bytesReceived' = Received(n)
    /\ ackBytes' = IF Due(n) THEN (Acked(n) + Half) % Modulus ELSE Acked(n)
    /\ since' = IF Due(n) \/ ackWindow = -1 THEN 0 ELSE since + n
    /\ UNCHANGED ackWindow

setAckWindow(w) ==
    /\ Backlog <= MaxBacklog
    /\ ackWindow' = w
    /\ since' = 0
    /\ UNCHANGED <<bytesReceived, ackBytes>>

CountersNext ==
    \/ \E n \in 1..MaxRead : countRead(n)
    \/ \E w \in Windows : setAckWindow(w)

CountersSpec == CountersInit /\ [][CountersNext]_counters

-----------------------------------------------------------------------------
CountersOK ==
    /\ bytesReceived \in 0..Modulus - 1
    /\ ackBytes \in 0..Modulus - 1
    /\ ackWindow \in Windows \union {-1}
    /\ since \in Nat

(* A client that stops when a window of bytes is unacknowledged is never   *)
(* stopped: after any read at most half a window is, whatever was counted  *)
(* before the window was set or changed, and when the counters wrap        *)
(* (rtmpconnection.cpp:67-79).  It can be half a window, not less, because *)
(* moving the wrapped counters (line 71) loses one byte.                   *)
AtMostHalfUnacked == ackWindow # -1 => since <= Half
=============================================================================
