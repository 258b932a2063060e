----------------------------- MODULE ByteQueue -----------------------------
(***************************************************************************)
(* What a reader of the socket buffer may rely on: a FIFO of bytes that    *)
(* can be read speculatively.  Between Begin and Commit or Rollback the    *)
(* bytes taken are remembered, and Rollback puts them back in front.       *)
(* ReadBuffer is shown to implement this module.                           *)
(***************************************************************************)
EXTENDS Integers, Sequences

CONSTANTS Byte,      \* the values of a byte
          MaxBlock   \* the longest block put or taken in one call

VARIABLES queue,     \* the bytes not yet taken, oldest first
          taken,     \* the bytes taken since Begin
          open,      \* a speculative read is in progress
          ret        \* what the last call gave its caller

vars == <<queue, taken, open, ret>>

Answer(err, bytes) == [err |-> err, bytes |-> bytes]
Done == Answer("none", <<>>)
Block == UNION {[1..n -> Byte] : n \in 0..MaxBlock}

Init == queue = <<>> /\ taken = <<>> /\ open = FALSE /\ ret = Done

Put(s) ==
    /\ ~open
    /\ queue' = queue \o s
    /\ ret' = Done
    /\ UNCHANGED <<taken, open>>

\* The first n bytes, in order, or an error and no change at all.
Take(n) ==
    /\ n <= Len(queue)
    /\ ret' = Answer("none", SubSeq(queue, 1, n))
    /\ queue' = SubSeq(queue, n + 1, Len(queue))
    /\ taken' = IF open THEN taken \o SubSeq(queue, 1, n) ELSE <<>>
    /\ UNCHANGED open

Look(n) ==
    /\ n <= Len(queue)
    /\ ret' = Answer("none", SubSeq(queue, 1, n))
    /\ UNCHANGED <<queue, taken, open>>

\* One way of looking reports it as any exception.
TooShort(n, err) ==
    /\ n > Len(queue)
    /\ ret' = Answer(err, <<>>)
    /\ UNCHANGED <<queue, taken, open>>

Begin ==
    /\ ~open
    /\ open' = TRUE
    /\ taken' = <<>>
    /\ ret' = Done
    /\ UNCHANGED queue

Commit ==
    /\ open' = FALSE
    /\ taken' = <<>>
    /\ ret' = Done
    /\ UNCHANGED queue

Rollback ==
    /\ open
    /\ queue' = taken \o queue
    /\ taken' = <<>>
    /\ open' = FALSE
    /\ ret' = Done

\* A block offered, or a second Begin, while a speculative read is open.
Refuse(err) ==
    /\ open
    /\ ret' = Answer(err, <<>>)
    /\ UNCHANGED <<queue, taken, open>>

Clear ==
    /\ ~open
    /\ queue' = <<>>
    /\ ret' = Done
    /\ UNCHANGED <<taken, open>>

Next ==
    \/ \E s \in Block : Put(s)
    \/ \E n \in 0..MaxBlock : Take(n) \/ Look(n)
          \/ TooShort(n, "RtmpNoEnoughData") \/ TooShort(n, "exception")
    \/ Begin \/ Commit \/ Rollback \/ Clear
    \/ Refuse("RtmpNotSupported") \/ Refuse("RtmpInvalidArg")

Spec == Init /\ [][Next]_vars
=============================================================================
