----------------------------- MODULE ReadBuffer -----------------------------
(***************************************************************************)
(* The growing byte buffer behind every recv() and every parser            *)
(* (readbuffer.h, readbuffer.cpp).  buffer_[0 .. cout_-1] is the sequence  *)
(* data, so cout_ is Len(data); the bytes before bi_ are consumed but      *)
(* still stored, which is what lets snapStop() un-read them, until         *)
(* appendData() runs out of room and moves the rest to the front.          *)
(***************************************************************************)
EXTENDS Integers, Sequences

CONSTANTS Byte,          \* the values of a byte
          InitCapacity,  \* the capacity the buffer is constructed with
          Capacities,    \* bound: InitCapacity doubled so many times
          MaxBlock       \* bound: bytes appended or read by one call

ASSUME BufferAssumption ==
    /\ InitCapacity \in Nat \ {0}
    /\ MaxBlock \in Nat
    /\ InitCapacity \in Capacities
    /\ Capacities \subseteq Nat \ {0}
    /\ \A c \in Capacities \ {InitCapacity} : \E h \in Capacities : c = 2 * h

VARIABLES data,      \* buffer_[0 .. cout_-1]
          capacity,  \* capacity_
          bi,        \* bi_, the number of stored bytes already consumed
          inSnap,    \* inSnap_
          snapBi,    \* snapBi_
          ret        \* what the last call returned or threw

cursors == <<bi, inSnap, snapBi>>
vars == <<data, capacity, cursors, ret>>

Answer(err, bytes) == [err |-> err, bytes |-> bytes]
Done == Answer("none", <<>>)
Block == UNION {[1..n -> Byte] : n \in 0..MaxBlock}

UnReadSize == Len(data) - bi
UnRead == SubSeq(data, bi + 1, Len(data))

Throw(err) ==
    /\ ret' = Answer(err, <<>>)
    /\ UNCHANGED <<data, capacity, cursors>>

Init ==
    /\ data = <<>>
    /\ capacity = InitCapacity
    /\ bi = 0
    /\ inSnap = FALSE
    /\ snapBi = 0
    /\ ret = Done

-----------------------------------------------------------------------------
(* appendData().  The loop doubles capacity_ only while what is unread and *)
(* the new block together do not fit; the bytes are moved to the front of  *)
(* a new array whenever the block does not fit behind the stored ones.     *)

\* Mutants of Fits: the bound is off by one; consumed bytes still count.
FitsOffByOne(c, size) == UnReadSize + size <= c + 1
FitsWithConsumed(c, size) == Len(data) + size <= c

Fits(c, size) == UnReadSize + size <= c

\* The first of capacity_, 2 * capacity_, 4 * capacity_, ... that is enough.
GrownCapacity(c, size) ==
    /\ c >= capacity
    /\ Fits(c, size)
    /\ c = capacity \/ \E h \in Capacities :
                          h >= capacity /\ c = 2 * h /\ ~Fits(h, size)

appendData(s) ==
    \/ /\ inSnap
       /\ Throw("RtmpNotSupported")
    \/ /\ ~inSnap
       /\ capacity' \in {c \in Capacities : GrownCapacity(c, Len(s))}
       /\ IF Len(data) + Len(s) > capacity
             THEN data' = UnRead \o s /\ bi' = 0
             ELSE data' = data \o s /\ bi' = bi
       /\ ret' = Done
       /\ UNCHANGED <<inSnap, snapBi>>

-----------------------------------------------------------------------------
(* readByte(), readBytes(), readChars(), skip(), read<T>(): all test the   *)
(* unread size first, so a short buffer changes nothing.                   *)

readBytes(n) ==
    IF UnReadSize < n
       THEN Throw("RtmpNoEnoughData")
       ELSE /\ ret' = Answer("none", SubSeq(data, bi + 1, bi + n))
            /\ bi' = bi + n
            /\ UNCHANGED <<data, capacity, inSnap, snapBi>>

\* Read, then put bi_ back on every path.
Looked(n, err) ==
    IF UnReadSize < n
       THEN Throw(err)
       ELSE /\ ret' = Answer("none", SubSeq(data, bi + 1, bi + n))
            /\ UNCHANGED <<data, capacity, cursors>>

\* peek<T>(mode), getUnReadBuffer().
peek(n) == Looked(n, "RtmpNoEnoughData")

\* peek<T>(mode, bytesCount): "throw e" throws a copy of the base class.
peekCount(n) == Looked(n, "exception")

-----------------------------------------------------------------------------
(* The snapshot handleRead() puts around every parsing attempt.            *)

\* Mutant of snapStart: the position is left from the previous snapshot.
snapStartStale ==
    IF inSnap
       THEN Throw("RtmpInvalidArg")
       ELSE /\ inSnap' = TRUE
            /\ ret' = Done
            /\ UNCHANGED <<data, capacity, bi, snapBi>>

snapStart ==
    IF inSnap
       THEN Throw("RtmpInvalidArg")
       ELSE /\ inSnap' = TRUE
            /\ snapBi' = bi
            /\ ret' = Done
            /\ UNCHANGED <<data, capacity, bi>>

\* Called only by the handler of RtmpNoEnoughData, inside the snapshot.
snapStop ==
    /\ inSnap
    /\ inSnap' = FALSE
    /\ bi' = snapBi
    /\ ret' = Done
    /\ UNCHANGED <<data, capacity, snapBi>>

snapClear ==
    /\ inSnap' = FALSE
    /\ ret' = Done
    /\ UNCHANGED <<data, capacity, bi, snapBi>>

\* Called only by feedData(), on a buffer that is never in a snapshot.
reset ==
    /\ ~inSnap
    /\ data' = <<>>
    /\ bi' = 0
    /\ ret' = Done
    /\ UNCHANGED <<capacity, inSnap, snapBi>>

Next ==
    \/ \E s \in Block : appendData(s)
    \/ \E n \in 0..MaxBlock : readBytes(n) \/ peek(n) \/ peekCount(n)
    \/ snapStart \/ snapStop \/ snapClear \/ reset

Spec == Init /\ [][Next]_vars

-----------------------------------------------------------------------------
(* The memcpy() calls stay inside the array (readbuffer.cpp:57, 64): the   *)
(* stored bytes fit in it, and the cursors are ordered inside them.        *)
TypeOK ==
    /\ data \in Seq(Byte)
    /\ capacity \in Capacities
    /\ bi \in Nat
    /\ snapBi \in Nat
    /\ inSnap \in BOOLEAN
    /\ bi <= Len(data)
    /\ Len(data) <= capacity
    /\ inSnap => snapBi <= bi

(* Growing is the last resort of appendData() (readbuffer.cpp:38-50): once *)
(* it has grown, more than half of the array is in use, so a connection's  *)
(* memory stays within twice the bytes it really had to hold.              *)
GrowsOnlyWhenNeeded == [][capacity' # capacity => capacity' < 2 * Len(data')]_vars

(* Compaction, growth and un-reading never lose, repeat or reorder a byte: *)
(* the buffer is a FIFO with speculative reads (what handleRead() assumes  *)
(* when it calls snapStop() and parses the same bytes again).              *)
BQ == INSTANCE ByteQueue WITH
        queue <- UnRead,
        taken <- IF inSnap THEN SubSeq(data, snapBi + 1, bi) ELSE <<>>,
        open <- inSnap
ImplementsByteQueue == BQ!Spec
=============================================================================
