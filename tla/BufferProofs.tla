---------------------------- MODULE BufferProofs ----------------------------
(***************************************************************************)
(* What ReadBuffer keeps, for every capacity, block size and set of bytes; *)
(* and what WriteBuffer keeps of the replies and tags that are written     *)
(* with it, whatever the client's chunk size and the lengths of names and  *)
(* media, and however many messages there are.                             *)
(***************************************************************************)
EXTENDS ReadBuffer, Replies, ProofFacts

-----------------------------------------------------------------------------
(* The constants, and the blocks made from them.                           *)

\* Capacities are numbers, the initial one among them.
LEMMA CapacitiesAreNat == Capacities \subseteq Nat /\ InitCapacity \in Capacities
BY BufferAssumption DEF BufferAssumption

\* A block is a sequence of bytes.
LEMMA BlockIsSeq ==
    ASSUME NEW s \in Block
    PROVE  s \in Seq(Byte) /\ Len(s) \in Nat
BY BufferAssumption DEF BufferAssumption, Block

-----------------------------------------------------------------------------
(* The buffer is never overrun: what is stored fits in the array and the   *)
(* cursors stay inside what is stored.                                     *)
THEOREM TypeCorrect == Spec => []TypeOK
<1>1. Init => TypeOK
  <2>1. <<>> \in Seq(Byte) /\ Len(<<>>) = 0
    OBVIOUS
  <2> SUFFICES ASSUME Init PROVE TypeOK
    OBVIOUS
  <2>2. inSnap \in BOOLEAN /\ ~inSnap
    BY Zenon DEF Init
  <2>3. capacity \in Capacities /\ Len(data) <= capacity
    BY <2>1, CapacitiesAreNat DEF Init
  <2> QED
    BY <2>1, <2>2, <2>3 DEF Init, TypeOK
<1>2. TypeOK /\ [Next]_vars => TypeOK'
  <2> SUFFICES ASSUME TypeOK, [Next]_vars PROVE TypeOK'
    OBVIOUS
  <2> USE DEF TypeOK
  <2>1. ASSUME NEW s \in Block, appendData(s) PROVE TypeOK'
    <3>1. CASE inSnap /\ Throw("RtmpNotSupported")
      BY <3>1 DEF Throw, cursors
    <3>2. CASE ~inSnap /\ capacity' \in Capacities /\ GrownCapacity(capacity', Len(s))
               /\ UNCHANGED <<inSnap, snapBi>>
               /\ Len(data) + Len(s) > capacity /\ data' = UnRead \o s /\ bi' = 0
      <4>1. UnRead \in Seq(Byte) /\ Len(UnRead) = Len(data) - bi
        BY CutProperties DEF UnRead
      <4>2. data' \in Seq(Byte) /\ Len(data') = Len(data) - bi + Len(s)
        BY <3>2, <4>1, BlockIsSeq, ConcatProperties
      <4>3. Len(data') <= capacity'
        BY <3>2, <4>2, BlockIsSeq DEF GrownCapacity, Fits, UnReadSize
      <4> QED
        BY <3>2, <4>2, <4>3
    <3>3. CASE ~inSnap /\ capacity' \in Capacities /\ GrownCapacity(capacity', Len(s))
               /\ UNCHANGED <<inSnap, snapBi>>
               /\ ~(Len(data) + Len(s) > capacity) /\ data' = data \o s /\ bi' = bi
      <4>1. data' \in Seq(Byte) /\ Len(data') = Len(data) + Len(s)
        BY <3>3, BlockIsSeq, ConcatProperties
      <4>2. capacity \in Nat /\ capacity' \in Nat /\ Len(s) \in Nat
        BY <3>3, BlockIsSeq, CapacitiesAreNat
      <4>3. Len(data') <= capacity'
        BY <3>3, <4>1, <4>2 DEF GrownCapacity
      <4> QED
        BY <3>3, <4>1, <4>2, <4>3
    <3> QED
      BY <2>1, <3>1, <3>2, <3>3 DEF appendData
  <2>2. ASSUME NEW n \in 0..MaxBlock, readBytes(n) PROVE TypeOK'
    BY <2>2 DEF readBytes, UnReadSize, Throw, cursors
  <2>3. ASSUME NEW n \in 0..MaxBlock, peek(n) \/ peekCount(n) PROVE TypeOK'
    BY <2>3 DEF peek, peekCount, Looked, Throw, cursors
  <2>4. CASE snapStart
    <3>1. CASE inSnap
      BY <2>4, <3>1 DEF snapStart, Throw, cursors
    <3>2. CASE ~inSnap
      <4>1. inSnap' = TRUE /\ snapBi' = bi /\ data' = data /\ capacity' = capacity /\ bi' = bi
        BY <2>4, <3>2 DEF snapStart
      <4> QED
        BY <4>1
    <3> QED
      BY <3>1, <3>2
  <2>5. CASE snapStop
    <3>1. inSnap' \in BOOLEAN /\ ~inSnap'
      BY <2>5, Zenon DEF snapStop
    <3>2. bi' = snapBi /\ snapBi <= bi /\ UNCHANGED <<data, capacity, snapBi>>
      BY <2>5 DEF snapStop
    <3> QED
      BY <3>1, <3>2
  <2>6. CASE snapClear
    <3>1. inSnap' \in BOOLEAN /\ ~inSnap'
      BY <2>6, Zenon DEF snapClear
    <3>2. UNCHANGED <<data, capacity, bi, snapBi>>
      BY <2>6 DEF snapClear
    <3> QED
      BY <3>1, <3>2
  <2>7. CASE reset
    <3>1. <<>> \in Seq(Byte) /\ Len(<<>>) = 0
      OBVIOUS
    <3>2. inSnap' \in BOOLEAN /\ ~inSnap'
      BY <2>7, Zenon DEF reset
    <3>3. capacity \in Nat /\ data' = <<>> /\ bi' = 0 /\ UNCHANGED <<capacity, snapBi>>
      BY <2>7, CapacitiesAreNat DEF reset
    <3> QED
      BY <3>1, <3>2, <3>3
  <2>8. CASE UNCHANGED vars
    BY <2>8 DEF vars, cursors
  <2> QED
    BY <2>1, <2>2, <2>3, <2>4, <2>5, <2>6, <2>7, <2>8 DEF Next
<1> QED
  BY <1>1, <1>2, PTL DEF Spec

-----------------------------------------------------------------------------
(* Growing is the last resort: a buffer that has just grown is more than   *)
(* half full.                                                              *)
THEOREM GrowthIsNeeded == Spec => GrowsOnlyWhenNeeded
<1>1. TypeOK /\ [Next]_vars => [capacity' # capacity => capacity' < 2 * Len(data')]_vars
  <2> SUFFICES ASSUME TypeOK, Next, capacity' # capacity
               PROVE  capacity' < 2 * Len(data')
    OBVIOUS
  <2> USE DEF TypeOK
  <2>1. PICK s \in Block : appendData(s)
    BY DEF Next, readBytes, peek, peekCount, Looked, snapStart, snapStop, snapClear, reset, Throw
  <2>2. ~inSnap /\ capacity' \in Capacities /\ GrownCapacity(capacity', Len(s))
    BY <2>1 DEF appendData, Throw
  <2>3. Len(s) \in Nat /\ s \in Seq(Byte)
    BY BlockIsSeq
  <2>4. PICK h \in Capacities : h >= capacity /\ capacity' = 2 * h /\ ~Fits(h, Len(s))
    BY <2>2 DEF GrownCapacity
  <2>5. Len(data) - bi + Len(s) > h
    BY <2>3, <2>4, CapacitiesAreNat DEF Fits, UnReadSize
  <2>6. data' = UnRead \o s
    BY <2>1, <2>2, <2>3, <2>4, <2>5, CapacitiesAreNat DEF appendData, Throw
  <2>7. UnRead \in Seq(Byte) /\ Len(UnRead) = Len(data) - bi
    BY CutProperties DEF UnRead
  <2>8. Len(data') = Len(data) - bi + Len(s)
    BY <2>3, <2>6, <2>7, ConcatProperties
  <2> QED
    BY <2>3, <2>4, <2>5, <2>8, CapacitiesAreNat
<1> QED
  BY <1>1, TypeCorrect, PTL DEF Spec, GrowsOnlyWhenNeeded

-----------------------------------------------------------------------------
(* Compaction, growth and un-reading are invisible: every call of the      *)
(* buffer does to its unread bytes, and to those taken since snapStart(),  *)
(* what the same call of ByteQueue does.                                   *)
THEOREM BufferIsQueue == Spec => ImplementsByteQueue
<1> DEFINE Taken == IF inSnap THEN SubSeq(data, snapBi + 1, bi) ELSE <<>>
<1>1. Init => BQ!Init
  <2> SUFFICES ASSUME Init PROVE BQ!Init
    OBVIOUS
  <2>1. ~inSnap /\ inSnap = FALSE
    BY Zenon DEF Init
  <2>2. Taken = <<>>
    BY <2>1, Zenon
  <2>3. UnRead = <<>>
    BY SubSeqEmpty DEF Init, UnRead
  <2>4. ret = BQ!Done
    BY Zenon DEF Init, Done, Answer, BQ!Done, BQ!Answer
  <2> QED
    BY <2>1, <2>2, <2>3, <2>4, Zenon DEF BQ!Init
<1>2. TypeOK /\ [Next]_vars => [BQ!Next]_(BQ!vars)
  <2> SUFFICES ASSUME TypeOK, [Next]_vars PROVE BQ!Next \/ UNCHANGED BQ!vars
    BY Zenon
  <2> USE DEF TypeOK
  <2>a. /\ UnRead \in Seq(Byte) /\ Len(UnRead) = Len(data) - bi
        /\ Len(data) \in Nat /\ bi \in Nat /\ snapBi \in Nat /\ bi <= Len(data)
    BY CutProperties DEF UnRead
  <2>b. ASSUME UNCHANGED <<data, capacity, cursors>> PROVE UnRead' = UnRead /\ Taken' = Taken /\ inSnap' = inSnap
    BY <2>b, Zenon DEF UnRead, cursors
  <2>1. ASSUME NEW s \in Block, appendData(s) PROVE BQ!Next
    <3>1. CASE inSnap /\ Throw("RtmpNotSupported")
      <4>1. BQ!Refuse("RtmpNotSupported")
        BY <2>b, <3>1, Zenon DEF Throw, Answer, BQ!Refuse, BQ!Answer
      <4> QED
        BY <4>1, Zenon DEF BQ!Next
    <3>2. CASE ~inSnap /\ UNCHANGED <<inSnap, snapBi>> /\ ret' = Done
               /\ ((data' = UnRead \o s /\ bi' = 0) \/ (data' = data \o s /\ bi' = bi))
      <4>1. s \in Seq(Byte)
        BY BlockIsSeq
      <4>2. UnRead' = UnRead \o s
        <5>1. CASE data' = UnRead \o s /\ bi' = 0
          <6>1. UnRead \o s \in Seq(Byte)
            BY <2>a, <4>1, ConcatProperties
          <6>2. UnRead' = SubSeq(UnRead \o s, 1, Len(UnRead \o s))
            BY <5>1 DEF UnRead
          <6> QED
            BY <6>1, <6>2, SubSeqFull
        <5>2. CASE data' = data \o s /\ bi' = bi
          <6>1. UnRead' = SubSeq(data \o s, bi + 1, Len(data \o s))
            BY <5>2, Zenon DEF UnRead
          <6> QED
            BY <2>a, <4>1, <6>1, CutAppend DEF UnRead
        <5> QED
          BY <3>2, <5>1, <5>2, Zenon
      <4>3. Taken = <<>> /\ Taken' = <<>> /\ ~inSnap /\ inSnap' = inSnap
        BY <3>2, Zenon
      <4>4. BQ!Put(s)
        BY <3>2, <4>2, <4>3, Zenon DEF Done, Answer, BQ!Put, BQ!Done, BQ!Answer
      <4>5. s \in BQ!Block
        BY Zenon DEF Block, BQ!Block
      <4> QED
        BY <4>4, <4>5, Zenon DEF BQ!Next
    <3>3. CASE ~inSnap /\ UNCHANGED <<inSnap, snapBi>> /\ ret' = Done
               /\ (IF Len(data) + Len(s) > capacity
                     THEN data' = UnRead \o s /\ bi' = 0
                     ELSE data' = data \o s /\ bi' = bi)
      <4>1. (data' = UnRead \o s /\ bi' = 0) \/ (data' = data \o s /\ bi' = bi)
        <5>1. CASE Len(data) + Len(s) > capacity
          BY <3>3, <5>1, Zenon
        <5>2. CASE ~(Len(data) + Len(s) > capacity)
          BY <3>3, <5>2, Zenon
        <5> QED
          BY <5>1, <5>2, Zenon
      <4> QED
        <5>1. ~inSnap /\ UNCHANGED <<inSnap, snapBi>> /\ ret' = Done
          BY <3>3, Zenon
        <5> QED
          BY <3>2, <4>1, <5>1, Zenon
    <3> QED
      BY <2>1, <3>1, <3>3, Zenon DEF appendData
  <2>2. ASSUME NEW n \in 0..MaxBlock, readBytes(n) PROVE BQ!Next
    <3>0. n \in Nat
      BY BufferAssumption DEF BufferAssumption
    <3>1. CASE UnReadSize < n
      <4>1. n > Len(UnRead)
        BY <2>a, <3>0, <3>1 DEF UnReadSize
      <4>2. Throw("RtmpNoEnoughData")
        BY <2>2, <3>1, Zenon DEF readBytes
      <4>3. BQ!TooShort(n, "RtmpNoEnoughData")
        BY <2>b, <4>1, <4>2, Zenon DEF Throw, Answer, BQ!TooShort, BQ!Answer
      <4> QED
        BY <4>3, Zenon DEF BQ!Next
    <3>2. CASE ~(UnReadSize < n)
      <4>1. /\ ret' = Answer("none", SubSeq(data, bi + 1, bi + n))
            /\ bi' = bi + n /\ data' = data /\ snapBi' = snapBi /\ inSnap' = inSnap
        BY <2>2, <3>2, Zenon DEF readBytes
      <4>2. n <= Len(UnRead) /\ bi + n <= Len(data)
        BY <2>a, <3>0, <3>2 DEF UnReadSize
      <4>3. /\ SubSeq(UnRead, 1, n) = SubSeq(data, bi + 1, bi + n)
            /\ SubSeq(UnRead, n + 1, Len(UnRead)) = SubSeq(data, bi + n + 1, Len(data))
        BY <2>a, <3>0, <4>2, CutCut DEF UnRead
      <4>4. UnRead' = SubSeq(UnRead, n + 1, Len(UnRead))
        BY <4>1, <4>3, Zenon DEF UnRead
      <4>5. Taken' = IF inSnap THEN Taken \o SubSeq(UnRead, 1, n) ELSE <<>>
        <5>1. CASE inSnap
          <6>1. Taken' = SubSeq(data, snapBi + 1, bi + n) /\ Taken = SubSeq(data, snapBi + 1, bi)
            BY <4>1, <5>1, Zenon
          <6>2. snapBi <= bi /\ bi <= bi + n /\ bi + n \in Nat
            BY <2>a, <3>0, <5>1
          <6>3. SubSeq(data, snapBi + 1, bi) \o SubSeq(data, bi + 1, bi + n)
                  = SubSeq(data, snapBi + 1, bi + n)
            BY <2>a, <4>2, <6>2, CutJoin
          <6> QED
            BY <4>3, <5>1, <6>1, <6>3, Zenon
        <5>2. CASE ~inSnap
          BY <4>1, <5>2, Zenon
        <5> QED
          BY <5>1, <5>2, Zenon
      <4>6. BQ!Take(n)
        BY <4>1, <4>2, <4>3, <4>4, <4>5, Zenon DEF Answer, BQ!Take, BQ!Answer
      <4> QED
        BY <4>6, Zenon DEF BQ!Next
    <3> QED
      BY <3>1, <3>2, Zenon
  <2>3. ASSUME NEW n \in 0..MaxBlock, NEW err \in {"RtmpNoEnoughData", "exception"},
               Looked(n, err)
        PROVE  BQ!Next
    <3>0. n \in Nat
      BY BufferAssumption DEF BufferAssumption
    <3>1. CASE UnReadSize < n
      <4>1. n > Len(UnRead)
        BY <2>a, <3>0, <3>1 DEF UnReadSize
      <4>2. Throw(err)
        BY <2>3, <3>1, Zenon DEF Looked
      <4>3. BQ!TooShort(n, err)
        BY <2>b, <4>1, <4>2, Zenon DEF Throw, Answer, BQ!TooShort, BQ!Answer
      <4>4. BQ!TooShort(n, "RtmpNoEnoughData") \/ BQ!TooShort(n, "exception")
        BY <4>3, Zenon
      <4> QED
        BY <4>4, Zenon DEF BQ!Next
    <3>2. CASE ~(UnReadSize < n)
      <4>1. /\ ret' = Answer("none", SubSeq(data, bi + 1, bi + n))
            /\ UNCHANGED <<data, capacity, cursors>>
        BY <2>3, <3>2, Zenon DEF Looked
      <4>2. n <= Len(UnRead) /\ bi + n <= Len(data)
        BY <2>a, <3>0, <3>2 DEF UnReadSize
      <4>3. SubSeq(UnRead, 1, n) = SubSeq(data, bi + 1, bi + n)
        BY <2>a, <3>0, <4>2, CutCut DEF UnRead
      <4>4. BQ!Look(n)
        BY <2>b, <4>1, <4>2, <4>3, Zenon DEF Answer, BQ!Look, BQ!Answer
      <4> QED
        BY <4>4, Zenon DEF BQ!Next
    <3> QED
      BY <3>1, <3>2, Zenon
  <2>4. CASE snapStart
    <3>1. CASE inSnap
      <4>1. Throw("RtmpInvalidArg")
        BY <2>4, <3>1, Zenon DEF snapStart
      <4>2. BQ!Refuse("RtmpInvalidArg")
        BY <2>b, <3>1, <4>1, Zenon DEF Throw, Answer, BQ!Refuse, BQ!Answer
      <4> QED
        BY <4>2, Zenon DEF BQ!Next
    <3>2. CASE ~inSnap
      <4>1. inSnap' = TRUE /\ snapBi' = bi /\ ret' = Done /\ data' = data /\ bi' = bi
        BY <2>4, <3>2, Zenon DEF snapStart
      <4>2. SubSeq(data, bi + 1, bi) = <<>>
        BY <2>a, SubSeqEmpty
      <4>3. Taken' = <<>> /\ UnRead' = UnRead
        BY <4>1, <4>2, Zenon DEF UnRead
      <4>4. BQ!Begin
        BY <3>2, <4>1, <4>3, Zenon DEF Done, Answer, BQ!Begin, BQ!Done, BQ!Answer
      <4> QED
        BY <4>4, Zenon DEF BQ!Next
    <3> QED
      BY <3>1, <3>2, Zenon
  <2>5. CASE snapStop
    <3>1. inSnap /\ inSnap' = FALSE /\ bi' = snapBi /\ ret' = Done /\ data' = data
      BY <2>5, Zenon DEF snapStop
    <3>2. UnRead' = SubSeq(data, snapBi + 1, Len(data)) /\ Taken = SubSeq(data, snapBi + 1, bi)
      BY <3>1, Zenon DEF UnRead
    <3>3. snapBi <= bi
      BY <3>1
    <3>4. UnRead' = Taken \o UnRead
      <4>1. Len(data) \in Nat /\ Len(data) <= Len(data)
        BY <2>a
      <4>2. SubSeq(data, snapBi + 1, bi) \o SubSeq(data, bi + 1, Len(data))
              = SubSeq(data, snapBi + 1, Len(data))
        BY <2>a, <3>3, <4>1, CutJoin
      <4> QED
        BY <3>2, <4>2, Zenon DEF UnRead
    <3>5. Taken' = <<>>
      BY <3>1, Zenon
    <3>6. BQ!Rollback
      BY <3>1, <3>4, <3>5, Zenon DEF Done, Answer, BQ!Rollback, BQ!Done, BQ!Answer
    <3> QED
      BY <3>6, Zenon DEF BQ!Next
  <2>6. CASE snapClear
    <3>1. inSnap' = FALSE /\ ret' = Done /\ data' = data /\ bi' = bi
      BY <2>6, Zenon DEF snapClear
    <3>2. UnRead' = UnRead /\ Taken' = <<>>
      BY <3>1, Zenon DEF UnRead
    <3>3. BQ!Commit
      BY <3>1, <3>2, Zenon DEF Done, Answer, BQ!Commit, BQ!Done, BQ!Answer
    <3> QED
      BY <3>3, Zenon DEF BQ!Next
  <2>7. CASE reset
    <3>1. ~inSnap /\ inSnap' = inSnap /\ ret' = Done /\ data' = <<>> /\ bi' = 0
      BY <2>7, Zenon DEF reset
    <3>2. UnRead' = <<>>
      <4>1. UnRead' = SubSeq(<<>>, 0 + 1, Len(<<>>))
        BY <3>1, Zenon DEF UnRead
      <4> QED
        BY <4>1, SubSeqEmpty
    <3>3. Taken = <<>> /\ Taken' = <<>>
      BY <3>1, Zenon
    <3>4. BQ!Clear
      BY <3>1, <3>2, <3>3, Zenon DEF Done, Answer, BQ!Clear, BQ!Done, BQ!Answer
    <3> QED
      BY <3>4, Zenon DEF BQ!Next
  <2>8. CASE UNCHANGED vars
    BY <2>8, <2>b, Zenon DEF vars, BQ!vars
  <2> QED
    BY <2>1, <2>2, <2>3, <2>4, <2>5, <2>6, <2>7, <2>8, Zenon DEF Next, peek, peekCount
<1> QED
  BY <1>1, <1>2, TypeCorrect, PTL DEF Spec, ImplementsByteQueue, BQ!Spec

-----------------------------------------------------------------------------
(* WriteBuffer: what its operators keep of a buffer.                       *)

Octet8 == 0..255

Buffers == [size : Nat, data : Seq(Octet8), part : Octet8, left : 1..8, over : BOOLEAN]

\* What is written is inside the array, unless it is known not to be.
Inside(b) == b.over \/ bi_(b) <= b.size

\* Whatever bits it is put together from, a byte is a byte.
LEMMA ByteOfIsByte ==
    ASSUME NEW bits
    PROVE  ByteOf(bits) \in Octet8
BY DEF ByteOf, Octet8

\* The length of what is written, as a number.
LEMMA LengthIsNat ==
    ASSUME NEW b \in Buffers
    PROVE  bi_(b) \in Nat /\ bi_(b) = Len(b.data) /\ b.size \in Nat
BY DEF Buffers, bi_

\* A new buffer, and one that is used again.
LEMMA NewIsEmpty ==
    ASSUME NEW size \in Nat
    PROVE  New(size) \in Buffers /\ New(size).size = size /\ bi_(New(size)) = 0 /\ ~New(size).over
BY DEF New, Buffers, Octet8, bi_

LEMMA reInitEmpties ==
    ASSUME NEW b \in Buffers
    PROVE  reInit(b) \in Buffers /\ reInit(b).size = b.size /\ bi_(reInit(b)) = 0
           /\ reInit(b).over = b.over
<1>1. reInit(b) = [size |-> b.size, data |-> <<>>, part |-> 0, left |-> 8, over |-> b.over]
  BY DEF New, reInit
<1>2. b.size \in Nat /\ b.over \in BOOLEAN /\ 0 \in Octet8
  BY DEF Buffers, Octet8
<1>3. <<>> \in Seq(Octet8) /\ Len(<<>>) = 0
  OBVIOUS
<1> QED BY <1>1, <1>2, <1>3 DEF Buffers, bi_

\* Growing keeps the bytes that are whole.
LEMMA reallocKeeps ==
    ASSUME NEW b \in Buffers
    PROVE  /\ realloc(b) \in Buffers /\ realloc(b).size = 2 * b.size
           /\ bi_(realloc(b)) = bi_(b) /\ realloc(b).over = b.over
<1>1. realloc(b) = [size |-> 2 * b.size, data |-> b.data, part |-> 0,
                    left |-> b.left, over |-> b.over]
  <2> DEFINE r == [b EXCEPT !.size = 2 * b.size]
  <2>1. r = [size |-> 2 * b.size, data |-> b.data, part |-> b.part,
             left |-> b.left, over |-> b.over]
    BY DEF Buffers
  <2>2. realloc(b) = [r EXCEPT !.part = 0]
    BY Zenon DEF realloc
  <2> HIDE DEF r
  <2> QED BY <2>1, <2>2
<1>2. 2 * b.size \in Nat /\ 0 \in Octet8
  BY DEF Buffers, Octet8
<1> QED BY <1>1, <1>2 DEF Buffers, bi_

\* The room that is made before bits are written: for eight bytes more, or
\* as much as there is.
LEMMA RoomIsMade ==
    ASSUME NEW b \in Buffers, Inside(b)
    PROVE  LET c == realloc_for_write(b)
           IN  /\ c \in Buffers /\ Inside(c) /\ c.over = b.over /\ bi_(c) = bi_(b)
               /\ b.size <= c.size
               /\ (bi_(b) + 9 < b.size /\ c.size = b.size) \/ c.size = 2 * b.size
<1>1. CASE Roomy(b)
  BY <1>1, LengthIsNat DEF realloc_for_write, Roomy
<1>2. CASE ~Roomy(b)
  BY <1>2, reallocKeeps, LengthIsNat DEF realloc_for_write, Inside
<1> QED BY <1>1, <1>2

\* At most eight bits: at most one byte is filled, and the one behind it
\* touched.
LEMMA WriteBitsKeeps ==
    ASSUME NEW b \in Buffers, NEW s, NEW bits \in 1..8
    PROVE  LET c == writeBits(b, s, bits)
           IN  /\ c \in Buffers /\ c.size = b.size
               /\ bi_(b) <= bi_(c) /\ bi_(c) <= bi_(b) + 1
               /\ Inside(b) => Inside(c)
               /\ ~b.over /\ bi_(b) + 2 <= b.size => ~c.over
               /\ b.size = 0 => c.over
<1> DEFINE low == s % 2 ^ bits
           shift == IF bits > b.left THEN bits - b.left ELSE 0
           byte == BitOr(b.part, low \div 2 ^ shift)
           rest == BitAnd(low, shift)
           c == writeBits(b, s, bits)
<1>1. byte \in Octet8 /\ rest \in Octet8
  BY ByteOfIsByte DEF BitOr, BitAnd
<1>2. shift \in 0..7 /\ 8 - shift \in 1..8
  BY DEF Buffers
<1>3. c = IF WholeByte(bits, b.left)
             THEN [Touched(b, bi_(b) + 2) EXCEPT !.data = Append(@, byte),
                                                 !.part = rest, !.left = 8 - shift]
             ELSE [Touched(b, bi_(b) + 1) EXCEPT !.part = byte, !.left = @ - bits]
  BY DEF writeBits
<1> HIDE DEF byte, rest, shift, c
<1>4. CASE WholeByte(bits, b.left)
  <2>1. Append(b.data, byte) \in Seq(Octet8) /\ Len(Append(b.data, byte)) = Len(b.data) + 1
    BY <1>1 DEF Buffers
  <2>2. c = [size |-> b.size, data |-> Append(b.data, byte), part |-> rest,
             left |-> 8 - shift, over |-> b.over \/ bi_(b) + 2 > b.size]
    BY <1>3, <1>4 DEF Touched, Buffers
  <2>3. c \in Buffers
    <3>1. (b.over \/ bi_(b) + 2 > b.size) \in BOOLEAN /\ b.size \in Nat
      BY DEF Buffers
    <3> QED BY <1>1, <1>2, <2>1, <2>2, <3>1 DEF Buffers
  <2>4. bi_(c) = bi_(b) + 1 /\ c.size = b.size /\ (c.over <=> b.over \/ bi_(b) + 2 > b.size)
    BY <2>1, <2>2 DEF bi_
  <2> QED BY <2>3, <2>4, LengthIsNat DEF Inside, c
<1>5. CASE ~WholeByte(bits, b.left)
  <2>1. b.left - bits \in 1..8
    BY <1>5 DEF WholeByte, Buffers
  <2>2. c = [size |-> b.size, data |-> b.data, part |-> byte,
             left |-> b.left - bits, over |-> b.over \/ bi_(b) + 1 > b.size]
    BY <1>3, <1>5 DEF Touched, Buffers
  <2>3. c \in Buffers
    <3>1. (b.over \/ bi_(b) + 1 > b.size) \in BOOLEAN /\ b.size \in Nat /\ b.data \in Seq(Octet8)
      BY DEF Buffers
    <3> QED BY <1>1, <2>1, <2>2, <3>1 DEF Buffers
  <2>4. bi_(c) = bi_(b) /\ c.size = b.size /\ (c.over <=> b.over \/ bi_(b) + 1 > b.size)
    BY <2>2 DEF bi_
  <2> QED BY <2>3, <2>4, LengthIsNat DEF Inside, c
<1> QED BY <1>4, <1>5

-----------------------------------------------------------------------------
(* The bytes of a number, one after the other.                             *)

\* What writeBits() does with the i-th of some bytes.
ByteWritten(b, bytes, widths, i) == writeBits(b, bytes[i], widths[i])

\* Bytes of at most eight bits are written behind each other: there is a
\* value for each step, and the last one is the result.
LEMMA WidthsAreWritten ==
    ASSUME NEW b \in Buffers, Inside(b), NEW bytes, NEW widths \in Seq(1..8)
    PROVE  LET c == writeWidths(b, bytes, widths)
               r == realloc_for_write(b)
           IN  /\ c \in Buffers /\ Inside(c) /\ c.size = r.size
               /\ bi_(b) <= bi_(c) /\ bi_(c) <= bi_(b) + Len(widths)
               /\ ~b.over /\ bi_(b) + Len(widths) + 1 <= r.size => ~c.over
               /\ Len(widths) > 0 /\ r.size = 0 => c.over
<1> DEFINE n == Len(widths)
           r == realloc_for_write(b)
           Next1(x) == IF x[1] \in 1..n THEN writeBits(x[2], bytes[x[1]], widths[x[1]]) ELSE x[2]
           step == [x \in Nat \X Buffers |-> Next1(x)]
           IsDone(d) == d = [i \in 0..n |-> IF i = 0 THEN r
                                            ELSE writeBits(d[i - 1], bytes[i], widths[i])]
           done == CHOOSE d : IsDone(d)
<1>1. n \in Nat /\ \A i \in 1..n : widths[i] \in 1..8
  OBVIOUS
<1>2. /\ r \in Buffers /\ Inside(r) /\ r.over = b.over /\ bi_(r) = bi_(b)
      /\ bi_(b) \in Nat /\ r.size \in Nat
  BY RoomIsMade, LengthIsNat
<1> HIDE DEF r
<1>3. step \in [Nat \X Buffers -> Buffers]
  <2>1. \A x \in Nat \X Buffers : Next1(x) \in Buffers
    <3> TAKE x \in Nat \X Buffers
    <3>1. x[2] \in Buffers
      OBVIOUS
    <3> QED BY <1>1, <3>1, WriteBitsKeeps
  <2> HIDE DEF Next1
  <2> QED BY <2>1
<1>4. \A x \in Nat \X Buffers : step[x] = Next1(x)
  OBVIOUS
<1> HIDE DEF step
<1>5. PICK g : Iterates(g, step, r, n, Buffers)
  BY <1>1, <1>2, <1>3, Iterated
<1>6. IsDone(g)
  <2>1. g \in [0..n -> Buffers] /\ g[0] = r /\ \A i \in 1..n : g[i] = step[<<i, g[i - 1]>>]
    BY <1>5 DEF Iterates
  <2>2. \A i \in 1..n : g[i] = writeBits(g[i - 1], bytes[i], widths[i])
    <3> TAKE i \in 1..n
    <3>0. i \in Nat /\ i - 1 \in 0..n
      BY <1>1
    <3>1. g[i - 1] \in Buffers /\ <<i, g[i - 1]>> \in Nat \X Buffers
      BY <2>1, <3>0
    <3>2. step[<<i, g[i - 1]>>] = Next1(<<i, g[i - 1]>>)
      BY <1>4, <3>1
    <3> QED BY <2>1, <3>2
  <2>3. \A i \in 0..n : g[i] = IF i = 0 THEN r ELSE writeBits(g[i - 1], bytes[i], widths[i])
    <3> TAKE i \in 0..n
    <3>1. i = 0 \/ i \in 1..n
      BY <1>1
    <3> QED BY <2>1, <2>2, <3>1
  <2> QED BY <2>1, <2>3
<1>7. IsDone(done)
  BY <1>6
<1>8. writeWidths(b, bytes, widths) = done[n]
  BY DEF writeWidths, r
<1> HIDE DEF done
<1>9. done[0] = r /\ \A i \in 1..n : done[i] = writeBits(done[i - 1], bytes[i], widths[i])
  <2>1. \A i \in 0..n : done[i] = IF i = 0 THEN r ELSE writeBits(done[i - 1], bytes[i], widths[i])
    BY <1>7
  <2>2. 0 \in 0..n /\ \A i \in 1..n : i \in 0..n /\ i # 0
    BY <1>1
  <2> QED BY <2>1, <2>2
<1> DEFINE Good(c, i) ==
              /\ c \in Buffers /\ Inside(c) /\ c.size = r.size
              /\ bi_(b) <= bi_(c) /\ bi_(c) <= bi_(b) + i
              /\ ~b.over /\ bi_(b) + i + 1 <= r.size => ~c.over
              /\ i > 0 /\ r.size = 0 => c.over
           T == {i \in Nat : i <= n => Good(done[i], i)}
<1>10. 0 \in T
  BY <1>2, <1>9
<1>11. \A i \in Nat : i \in T => i + 1 \in T
  <2> SUFFICES ASSUME NEW i \in Nat, Good(done[i], i), i + 1 <= n
               PROVE  Good(done[i + 1], i + 1)
    BY <1>1
  <2> DEFINE d == done[i]
             c == done[i + 1]
  <2>1. i + 1 \in 1..n /\ (i + 1) - 1 = i
    BY <1>1
  <2>2. widths[i + 1] \in 1..8 /\ c = writeBits(d, bytes[i + 1], widths[i + 1])
    BY <1>1, <1>9, <2>1
  <2>3. Good(d, i)
    OBVIOUS
  <2> HIDE DEF d, c
  <2>4. /\ c \in Buffers /\ c.size = d.size
        /\ bi_(d) <= bi_(c) /\ bi_(c) <= bi_(d) + 1
        /\ Inside(d) => Inside(c)
        /\ ~d.over /\ bi_(d) + 2 <= d.size => ~c.over
        /\ d.size = 0 => c.over
    BY <2>2, <2>3, WriteBitsKeeps
  <2>5. bi_(d) \in Nat /\ bi_(c) \in Nat
    BY <2>3, <2>4, LengthIsNat
  <2>6. Good(c, i + 1)
    BY <1>2, <2>3, <2>4, <2>5
  <2> QED BY <2>6 DEF c
<1> HIDE DEF Good
<1>12. n \in T
  BY <1>1, <1>10, <1>11, Induction
<1> QED BY <1>1, <1>8, <1>12 DEF Good, r

\* A number of up to 32 bits is up to four bytes of up to eight bits.
LEMMA WidthsAreBytes ==
    ASSUME NEW bits \in 1..32
    PROVE  /\ Widths(bits) \in Seq(1..8) /\ Len(Widths(bits)) \in 1..4
           /\ bits <= 16 => Len(Widths(bits)) <= 2
           /\ bits <= 8 => Len(Widths(bits)) <= 1
<1> DEFINE n == (bits + 7) \div 8
           w(i) == IF 8 * i <= bits THEN 8 ELSE bits % 8
<1>1. n \in 1..4 /\ (bits <= 16 => n <= 2) /\ (bits <= 8 => n <= 1)
  OBVIOUS
<1>2. \A i \in 1..n : w(i) \in 1..8
  OBVIOUS
<1> HIDE DEF n, w
<1>3. [i \in 1..n |-> w(i)] \in Seq(1..8) /\ Len([i \in 1..n |-> w(i)]) = n
  BY <1>1, <1>2
<1>4. Widths(bits) = [i \in 1..n |-> w(i)]
  BY DEF Widths, n, w
<1> QED BY <1>1, <1>3, <1>4

\* So a number goes into the room that was made, if that is enough.
Fitting(b, c, r, n) ==
    /\ c \in Buffers /\ Inside(c) /\ c.size = r.size
    /\ bi_(c) \in Nat /\ bi_(b) <= bi_(c) /\ bi_(c) <= bi_(b) + n
    /\ ~b.over /\ bi_(b) + n + 1 <= r.size => ~c.over
    /\ n > 0 /\ r.size = 0 => c.over

LEMMA NumberIsWritten ==
    ASSUME NEW b \in Buffers, Inside(b), NEW v, NEW bits \in 1..32
    PROVE  LET r == realloc_for_write(b)
               n == Len(Widths(bits))
           IN  Fitting(b, writeB(b, v, bits), r, n) /\ Fitting(b, writeL(b, v, bits), r, n)
<1> DEFINE W == Widths(bits)
           r == realloc_for_write(b)
<1>1. W \in Seq(1..8)
  BY WidthsAreBytes
<1>2. ASSUME NEW bytes, NEW c, c = writeWidths(b, bytes, W)
      PROVE  Fitting(b, c, r, Len(W))
  <2> HIDE DEF W
  <2>1. /\ c \in Buffers /\ Inside(c) /\ c.size = r.size
        /\ bi_(b) <= bi_(c) /\ bi_(c) <= bi_(b) + Len(W)
        /\ ~b.over /\ bi_(b) + Len(W) + 1 <= r.size => ~c.over
        /\ Len(W) > 0 /\ r.size = 0 => c.over
    BY <1>1, <1>2, WidthsAreWritten
  <2> QED BY <2>1, LengthIsNat DEF Fitting
<1>3. \E bytes : writeB(b, v, bits) = writeWidths(b, bytes, W)
  BY DEF writeB
<1>4. \E bytes : writeL(b, v, bits) = writeWidths(b, bytes, W)
  BY DEF writeL
<1> QED BY <1>2, <1>3, <1>4

\* A block: the array is doubled at most 31 times, its bytes stay.
LEMMA BlockIsWritten ==
    ASSUME NEW b \in Buffers, Inside(b), NEW block \in Seq(Octet8)
    PROVE  LET c == writeBytes(b, block)
           IN  c \in Buffers /\ Inside(c) /\ b.size <= c.size
<1> DEFINE n == Len(block)
           More(g) == IF FitsBlock(g, n) THEN g ELSE realloc(g)
           step == [x \in Nat \X Buffers |-> More(x[2])]
           IsGrown(d) == d = [i \in 0..31 |-> IF i = 0 THEN b ELSE More(d[i - 1])]
           grown == CHOOSE d : IsGrown(d)
<1>1. \A g \in Buffers : /\ More(g) \in Buffers /\ bi_(More(g)) = bi_(g)
                         /\ More(g).over = g.over /\ g.size <= More(g).size
  <2> TAKE g \in Buffers
  <2>1. realloc(g) \in Buffers /\ bi_(realloc(g)) = bi_(g) /\ realloc(g).over = g.over
        /\ g.size <= realloc(g).size
    BY reallocKeeps, LengthIsNat
  <2> QED BY <2>1, LengthIsNat
<1> HIDE DEF More
<1>2. step \in [Nat \X Buffers -> Buffers] /\ \A x \in Nat \X Buffers : step[x] = More(x[2])
  BY <1>1
<1> HIDE DEF step
<1>3. PICK g : Iterates(g, step, b, 31, Buffers)
  BY <1>2, Iterated
<1>4. IsGrown(g)
  <2>1. g \in [0..31 -> Buffers] /\ g[0] = b /\ \A i \in 1..31 : g[i] = step[<<i, g[i - 1]>>]
    BY <1>3 DEF Iterates
  <2>2. \A i \in 1..31 : g[i] = More(g[i - 1])
    <3> TAKE i \in 1..31
    <3>1. i \in Nat /\ i - 1 \in 0..31
      OBVIOUS
    <3>2. g[i - 1] \in Buffers /\ <<i, g[i - 1]>> \in Nat \X Buffers
      BY <2>1, <3>1
    <3> QED BY <1>2, <2>1, <3>2
  <2>3. \A i \in 0..31 : g[i] = IF i = 0 THEN b ELSE More(g[i - 1])
    <3> TAKE i \in 0..31
    <3>1. i = 0 \/ i \in 1..31
      OBVIOUS
    <3> QED BY <2>1, <2>2, <3>1
  <2> QED BY <2>1, <2>3
<1>5. IsGrown(grown)
  BY <1>4
<1>6. writeBytes(b, block) = [Touched(grown[31], bi_(b) + n) EXCEPT !.data = @ \o block]
  BY DEF writeBytes, More
<1> HIDE DEF grown
<1>7. grown[0] = b /\ \A i \in 1..31 : grown[i] = More(grown[i - 1])
  <2>1. \A i \in 0..31 : grown[i] = IF i = 0 THEN b ELSE More(grown[i - 1])
    BY <1>5
  <2>2. 0 \in 0..31 /\ \A i \in 1..31 : i \in 0..31 /\ i # 0
    OBVIOUS
  <2> QED BY <2>1, <2>2
<1> DEFINE Good(c) == /\ c \in Buffers /\ bi_(c) = bi_(b) /\ c.over = b.over
                      /\ b.size <= c.size
           T == {i \in Nat : i <= 31 => Good(grown[i])}
<1>8. 0 \in T
  <2>1. Good(b)
    BY LengthIsNat
  <2> HIDE DEF Good
  <2> QED BY <1>7, <2>1
<1>9. \A i \in Nat : i \in T => i + 1 \in T
  <2> SUFFICES ASSUME NEW i \in Nat, Good(grown[i]), i + 1 <= 31
               PROVE  Good(grown[i + 1])
    OBVIOUS
  <2>1. i + 1 \in 1..31 /\ (i + 1) - 1 = i
    OBVIOUS
  <2>2. grown[i + 1] = More(grown[i])
    BY <1>7, <2>1
  <2>3. /\ More(grown[i]) \in Buffers /\ bi_(More(grown[i])) = bi_(grown[i])
        /\ More(grown[i]).over = grown[i].over /\ grown[i].size <= More(grown[i]).size
    BY <1>1
  <2> QED BY <2>2, <2>3, LengthIsNat
<1> HIDE DEF Good
<1>10. Good(grown[31])
  <2>1. 31 \in T
    BY <1>8, <1>9, Induction
  <2> QED BY <2>1
<1> DEFINE g1 == grown[31]
           c == writeBytes(b, block)
<1>11. g1 \in Buffers /\ bi_(g1) = bi_(b) /\ b.size <= g1.size
  BY <1>10 DEF Good
<1>12. c = [Touched(g1, bi_(b) + n) EXCEPT !.data = @ \o block]
  BY <1>6
<1> HIDE DEF g1, c
<1>13. c = [size |-> g1.size, data |-> g1.data \o block, part |-> g1.part, left |-> g1.left,
            over |-> g1.over \/ bi_(b) + n > g1.size]
  BY <1>11, <1>12 DEF Touched, Buffers
<1>14. g1.data \o block \in Seq(Octet8) /\ Len(g1.data \o block) = bi_(b) + n
  <2>1. g1.data \in Seq(Octet8) /\ Len(g1.data) = bi_(b)
    BY <1>11, LengthIsNat DEF Buffers
  <2> QED BY <2>1, ConcatProperties
<1>15. c \in Buffers
  <2>1. /\ (g1.over \/ bi_(b) + n > g1.size) \in BOOLEAN
        /\ g1.size \in Nat /\ g1.part \in Octet8 /\ g1.left \in 1..8
    BY <1>11 DEF Buffers
  <2> QED BY <1>13, <1>14, <2>1 DEF Buffers
<1>16. /\ bi_(c) = bi_(b) + n /\ c.size = g1.size
       /\ c.over <=> g1.over \/ bi_(b) + n > g1.size
  BY <1>13, <1>14 DEF bi_
<1>17. n \in Nat
  OBVIOUS
<1>18. Inside(c)
  BY <1>11, <1>16, <1>17, LengthIsNat DEF Inside
<1> QED BY <1>11, <1>15, <1>16, <1>18 DEF c

-----------------------------------------------------------------------------
(* Calls of WriteBuffer.                                                   *)

\* Calls that write numbers of up to so many bits.
CallsOf(bits) ==
    [op : {"writeB", "writeL"}, v : Nat, bits : 1..bits]
    \union [op : {"writeByte"}, v : Nat]
    \union [op : {"writeBytes"}, v : Seq(Octet8)]

Narrow == CallsOf(16)
Wide == CallsOf(32)

LEMMA NarrowIsWide ==
    /\ \A c \in Narrow : c \in Wide
    /\ \A s \in Seq(Narrow) : s \in Seq(Wide)
BY DEF Narrow, Wide, CallsOf

\* The calls that a number may go with.
IsNumber(c) == c.op \in {"writeB", "writeL"}

\* What any call keeps, and when it stays inside the array: bits do when the
\* array has room for them once it is doubled.
LEMMA CallKeeps ==
    ASSUME NEW b \in Buffers, Inside(b), NEW call \in Wide
    PROVE  LET c == After(b, call)
               n == Len(Widths(call.bits))
               r == realloc_for_write(b)
           IN  /\ c \in Buffers /\ Inside(c) /\ b.size <= c.size
               /\ IsNumber(call) => call.bits \in 1..32 /\ Fitting(b, c, r, n)
<1> DEFINE c == After(b, call)
<1>1. CASE call.op = "writeB" /\ call.bits \in 1..32
  <2>1. c = writeB(b, call.v, call.bits)
    BY <1>1 DEF After
  <2>2. Fitting(b, c, realloc_for_write(b), Len(Widths(call.bits)))
    BY <1>1, <2>1, NumberIsWritten
  <2> QED BY <1>1, <2>2, RoomIsMade DEF Fitting
<1>2. CASE call.op = "writeL" /\ call.bits \in 1..32
  <2>1. c = writeL(b, call.v, call.bits)
    BY <1>2 DEF After
  <2>2. Fitting(b, c, realloc_for_write(b), Len(Widths(call.bits)))
    BY <1>2, <2>1, NumberIsWritten
  <2> QED BY <1>2, <2>2, RoomIsMade DEF Fitting
<1>3. CASE call.op = "writeByte"
  <2>1. c = writeBits(b, call.v, 8)
    BY <1>3 DEF After, writeByte
  <2> QED BY <1>3, <2>1, WriteBitsKeeps, LengthIsNat DEF IsNumber
<1>4. CASE call.op = "writeBytes" /\ call.v \in Seq(Octet8)
  <2>1. c = writeBytes(b, call.v)
    BY <1>4 DEF After
  <2> QED BY <1>4, <2>1, BlockIsWritten DEF IsNumber
<1> QED BY <1>1, <1>2, <1>3, <1>4 DEF Wide, CallsOf

\* An array of five bytes or more has room for a number of four.
LEMMA WideFits ==
    ASSUME NEW b \in Buffers, Inside(b), ~b.over, b.size > 4, NEW call \in Wide,
           IsNumber(call)
    PROVE  ~After(b, call).over
<1> DEFINE n == Len(Widths(call.bits))
           r == realloc_for_write(b)
           c == After(b, call)
<1>1. call.bits \in 1..32 /\ Fitting(b, c, r, n)
  BY CallKeeps
<1>2. n <= 4 /\ n \in Nat
  <2>1. n \in 1..4
    BY <1>1, WidthsAreBytes, Zenon
  <2> HIDE DEF n
  <2> QED BY <2>1
<1>3. /\ (bi_(b) + 9 < b.size /\ r.size = b.size) \/ r.size = 2 * b.size
      /\ bi_(b) \in Nat /\ b.size \in Nat /\ bi_(b) <= b.size /\ r.size \in Nat
  BY RoomIsMade, LengthIsNat DEF Inside
<1> HIDE DEF n, r, c
<1>4. bi_(b) + n + 1 <= r.size
  BY <1>2, <1>3
<1> QED BY <1>1, <1>4 DEF Fitting, c

\* The first calls of a body, in the order they are made: a type, the length
\* of a string; then the array has room for every number of two bytes.
Early(b, todo) ==
    /\ bi_(b) = 0
    /\ Len(todo) > 1 /\ todo[1].op = "writeB" /\ todo[1].bits = 8
    /\ todo[2].op = "writeB" /\ todo[2].bits = 16
Typed(b, todo) ==
    /\ bi_(b) <= 1 /\ b.size >= 2
    /\ Len(todo) > 0 /\ todo[1].op = "writeB" /\ todo[1].bits = 16
Grown(b) == b.size >= 3

BodyRoom(b, todo) == Early(b, todo) \/ Typed(b, todo) \/ Grown(b)

\* An array that is doubled again and again keeps room for the next number,
\* unless it has no byte at all.
LEMMA NarrowFits ==
    ASSUME NEW b \in Buffers, Inside(b), ~b.over, NEW todo \in Seq(Narrow), todo # <<>>,
           BodyRoom(b, todo)
    PROVE  LET c == After(b, Head(todo))
           IN  \/ ~c.over /\ BodyRoom(c, Tail(todo))
               \/ c.over /\ (Head(todo).op \in {"writeByte", "writeBytes"} \/ c.size = 0)
<1> DEFINE call == Head(todo)
           c == After(b, call)
           n == Len(Widths(call.bits))
           r == realloc_for_write(b)
<1>1. /\ call \in Narrow /\ call \in Wide /\ call = todo[1]
      /\ Tail(todo) \in Seq(Narrow) /\ Len(todo) \in Nat /\ Len(Tail(todo)) = Len(todo) - 1
      /\ Len(todo) > 1 => Tail(todo)[1] = todo[2]
  BY NarrowIsWide
<1>2. /\ c \in Buffers /\ Inside(c) /\ b.size <= c.size
      /\ IsNumber(call) => call.bits \in 1..32 /\ Fitting(b, c, r, n)
  BY <1>1, CallKeeps
<1>3. /\ (bi_(b) + 9 < b.size /\ r.size = b.size) \/ r.size = 2 * b.size
      /\ bi_(b) \in Nat /\ b.size \in Nat /\ bi_(b) <= b.size /\ r.size \in Nat /\ b.size <= r.size
  BY RoomIsMade, LengthIsNat DEF Inside
<1>4. c.size \in Nat /\ bi_(c) \in Nat /\ c.over \in BOOLEAN
  BY <1>2, LengthIsNat DEF Buffers
<1>5. IsNumber(call) => /\ call.bits \in 1..16 /\ n \in Nat /\ n <= 2 /\ n > 0
                        /\ call.bits <= 8 => n <= 1
  <2>1. IsNumber(call) => call.bits \in 1..16
    BY <1>1 DEF IsNumber, Narrow, CallsOf
  <2>2. IsNumber(call) => call.bits \in 1..32 /\ n \in 1..4 /\ n <= 2 /\ (call.bits <= 8 => n <= 1)
    <3> SUFFICES ASSUME IsNumber(call)
                 PROVE  call.bits \in 1..32 /\ n \in 1..4 /\ n <= 2 /\ (call.bits <= 8 => n <= 1)
      OBVIOUS
    <3>1. call.bits \in 1..32 /\ call.bits <= 16
      BY <2>1
    <3> QED BY <3>1, WidthsAreBytes, Zenon
  <2> HIDE DEF n, call
  <2> QED BY <2>1, <2>2
<1> HIDE DEF c, n, r, call
<1>6. CASE Early(b, todo)
  <2>1. IsNumber(call) /\ call.bits = 8 /\ n <= 1 /\ n > 0 /\ bi_(b) = 0
    BY <1>1, <1>5, <1>6 DEF Early, IsNumber
  <2>2. Fitting(b, c, r, n) /\ n \in Nat
    BY <1>2, <1>5, <2>1
  <2> HIDE DEF Early
  <2>3. CASE b.size = 0
    <3>1. r.size = 0
      BY <1>3, <2>1, <2>3
    <3>2. c.over /\ c.size = 0
      BY <2>1, <2>2, <3>1 DEF Fitting
    <3> QED BY <3>2 DEF c, call
  <2>4. CASE b.size > 0
    <3>1. bi_(b) + n + 1 <= r.size /\ r.size >= 2
      BY <1>3, <2>1, <2>2, <2>4
    <3>2. ~c.over /\ c.size >= 2 /\ bi_(c) <= 1
      BY <2>1, <2>2, <3>1 DEF Fitting
    <3>3. Typed(c, Tail(todo))
      BY <1>1, <1>6, <3>2 DEF Early, Typed
    <3> QED BY <3>2, <3>3 DEF BodyRoom, c, call
  <2>5. b.size = 0 \/ b.size > 0
    BY <1>3
  <2> QED BY <2>3, <2>4, <2>5
<1>7. CASE Typed(b, todo)
  <2>1. IsNumber(call) /\ n <= 2 /\ n \in Nat /\ bi_(b) <= 1 /\ b.size >= 2
    BY <1>1, <1>5, <1>7 DEF Typed, IsNumber
  <2>2. Fitting(b, c, r, n)
    BY <1>2, <2>1
  <2>3. bi_(b) + n + 1 <= r.size /\ r.size >= 3
    BY <1>3, <2>1
  <2>4. ~c.over /\ Grown(c)
    BY <2>2, <2>3 DEF Fitting, Grown
  <2> QED BY <2>4 DEF BodyRoom, c, call
<1>8. CASE Grown(b)
  <2>1. Grown(c)
    <3>1. b.size >= 3
      BY <1>8 DEF Grown
    <3>2. c.size >= 3
      BY <1>2, <1>3, <1>4, <3>1
    <3> QED BY <3>2 DEF Grown
  <2>2. CASE IsNumber(call)
    <3>1. bi_(b) + n + 1 <= r.size
      BY <1>3, <1>5, <1>8, <2>2 DEF Grown
    <3>2. ~c.over
      BY <1>2, <2>2, <3>1 DEF Fitting
    <3> QED BY <2>1, <3>2 DEF BodyRoom, c, call
  <2>3. CASE ~IsNumber(call)
    <3>1. call.op \in {"writeByte", "writeBytes"}
      BY <1>1, <2>3 DEF IsNumber, Narrow, CallsOf
    <3> QED BY <1>4, <2>1, <3>1 DEF BodyRoom, c, call
  <2> QED BY <2>2, <2>3
<1> QED BY <1>6, <1>7, <1>8 DEF BodyRoom

-----------------------------------------------------------------------------
(* What the handlers ask for, and the calls that are made of it.           *)

\* The letters of a text.
LEMMA TextIsBytes ==
    ASSUME NEW n \in Nat
    PROVE  Text(n) \in Seq(Octet8) /\ Len(Text(n)) = n
<1>1. 97 \in Octet8
  BY DEF Octet8
<1> QED BY <1>1 DEF Text

\* The calls that write a value.
LEMMA ValueCalls ==
    /\ \A n \in Nat : String(n) \in Seq(Narrow) /\ Key(n) \in Seq(Narrow)
    /\ Number \in Seq(Narrow) /\ ObjectEnd \in Seq(Narrow)
    /\ \A type \in Nat : Mark(type) \in Seq(Narrow)
<1>1. \A v \in Nat : B(v, 8) \in Narrow /\ B(v, 16) \in Narrow
  BY DEF B, Narrow, CallsOf
<1>2. \A s \in Seq(Octet8) : Octets(s) \in Narrow
  BY DEF Octets, Narrow, CallsOf
<1>3. \A n \in Nat : String(n) \in Seq(Narrow) /\ Key(n) \in Seq(Narrow)
  <2> TAKE n \in Nat
  <2>1. B(2, 8) \in Narrow /\ B(n, 16) \in Narrow /\ Octets(Text(n)) \in Narrow
    BY <1>1, <1>2, TextIsBytes
  <2> QED BY <2>1 DEF String, Key
<1>4. Number \in Seq(Narrow)
  <2>1. [i \in 1..8 |-> 63] \in Seq(Octet8)
    BY DEF Octet8
  <2>2. Octets([i \in 1..8 |-> 63]) \in Narrow /\ B(0, 8) \in Narrow
    BY <1>1, <1>2, <2>1
  <2> QED BY <2>2 DEF Number
<1>5. ObjectEnd \in Seq(Narrow)
  <2>1. B(0, 16) \in Narrow /\ B(9, 8) \in Narrow
    BY <1>1
  <2> QED BY <2>1 DEF ObjectEnd
<1>6. \A type \in Nat : Mark(type) \in Seq(Narrow)
  BY <1>1 DEF Mark
<1> QED BY <1>3, <1>4, <1>5, <1>6

Bodies == {"onBWDone", "_result", "createStream", "onStatus", "connect"}

\* A body begins with the type and the length of a string.
LEMMA BodyCalls ==
    ASSUME NEW kind \in Bodies, NEW n \in Nat
    PROVE  /\ Body(kind, n) \in Seq(Narrow) /\ Len(Body(kind, n)) > 1
           /\ Body(kind, n)[1].op = "writeB" /\ Body(kind, n)[1].bits = 8
           /\ Body(kind, n)[2].op = "writeB" /\ Body(kind, n)[2].bits = 16
<1> DEFINE Starts(s) ==
              /\ s \in Seq(Narrow) /\ Len(s) > 1
              /\ s[1].op = "writeB" /\ s[1].bits = 8
              /\ s[2].op = "writeB" /\ s[2].bits = 16
<1>1. \A k \in Nat : Starts(String(k))
  <2> TAKE k \in Nat
  <2>1. String(k) \in Seq(Narrow)
    BY ValueCalls
  <2>2. Len(String(k)) = 3 /\ String(k)[1] = B(2, 8) /\ String(k)[2] = B(k, 16)
    BY DEF String
  <2> QED BY <2>1, <2>2 DEF B
<1>2. ASSUME NEW s, Starts(s), NEW t \in Seq(Narrow)
      PROVE  Starts(s \o t)
  <2>1. /\ s \o t \in Seq(Narrow) /\ Len(s \o t) = Len(s) + Len(t)
        /\ (s \o t)[1] = s[1] /\ (s \o t)[2] = s[2]
    BY <1>2, ConcatProperties
  <2> QED BY <1>2, <2>1
<1> HIDE DEF Starts
<1>3. \A k \in Nat : String(k) \in Seq(Narrow) /\ Key(k) \in Seq(Narrow)
  BY ValueCalls
<1>4. Number \in Seq(Narrow) /\ ObjectEnd \in Seq(Narrow) /\ \A k \in Nat : Mark(k) \in Seq(Narrow)
  BY ValueCalls
<1>5. \A s, t : Starts(s) /\ t \in Seq(Narrow) => Starts(s \o t)
  BY <1>2
<1> DEFINE body == Body(kind, n)
<1>6. CASE kind = "onBWDone"
  <2>1. body = String(8) \o Number \o Mark(5)
    BY <1>6 DEF Body
  <2>2. Starts(body)
    BY <2>1, <1>1, <1>3, <1>4, <1>5
  <2> QED BY <2>2 DEF Starts
<1>7. CASE kind = "_result"
  <2>1. body = String(7) \o Number \o Mark(5) \o Mark(6)
    BY <1>7 DEF Body
  <2>2. Starts(body)
    BY <2>1, <1>1, <1>3, <1>4, <1>5
  <2> QED BY <2>2 DEF Starts
<1>8. CASE kind = "createStream"
  <2>1. body = String(7) \o Number \o Mark(5) \o Number
    BY <1>8 DEF Body
  <2>2. Starts(body)
    BY <2>1, <1>1, <1>3, <1>4, <1>5
  <2> QED BY <2>2 DEF Starts
<1>9. CASE kind = "onStatus"
  <2>1. body = String(8) \o Number \o Mark(5)
                \o Mark(3) \o Key(5) \o String(6) \o Key(4) \o String(23)
                \o Key(11) \o String(n + 17) \o Key(8) \o String(8) \o ObjectEnd
    BY <1>9 DEF Body
  <2>2. n + 17 \in Nat
    OBVIOUS
  <2>3. Starts(String(8) \o Number \o Mark(5) \o Mark(3) \o Key(5) \o String(6))
    BY <1>1, <1>3, <1>4, <1>5
  <2>4. Starts(String(8) \o Number \o Mark(5) \o Mark(3) \o Key(5) \o String(6)
               \o Key(4) \o String(23) \o Key(11) \o String(n + 17))
    BY <1>3, <1>5, <2>2, <2>3
  <2>5. Starts(body)
    BY <2>1, <1>3, <1>4, <1>5, <2>4
  <2> QED BY <2>5 DEF Starts
<1>10. CASE kind = "connect"
  <2>1. body = String(7) \o Number
                \o Mark(3) \o Key(6) \o String(18) \o Key(12) \o Number
                \o Key(4) \o Number \o ObjectEnd
                \o Mark(3) \o Key(5) \o String(6) \o Key(4) \o String(29)
                \o Key(11) \o String(20) \o Key(14) \o Number \o ObjectEnd
    BY <1>10 DEF Body
  <2>2. Starts(String(7) \o Number \o Mark(3) \o Key(6) \o String(18) \o Key(12) \o Number)
    BY <1>1, <1>3, <1>4, <1>5
  <2>3. Starts(String(7) \o Number \o Mark(3) \o Key(6) \o String(18) \o Key(12) \o Number
               \o Key(4) \o Number \o ObjectEnd \o Mark(3) \o Key(5) \o String(6))
    BY <1>3, <1>4, <1>5, <2>2
  <2>4. Starts(body)
    BY <2>1, <1>3, <1>4, <1>5, <2>3
  <2> QED BY <2>4 DEF Starts
<1> QED BY <1>6, <1>7, <1>8, <1>9, <1>10 DEF Bodies

\* A number of up to 32 bits.
LEMMA NumberCall ==
    ASSUME NEW v \in Nat, NEW bits \in 1..32
    PROVE  B(v, bits) \in Wide /\ L(v, bits) \in Wide
BY DEF B, L, Wide, CallsOf

\* The header of a message.
LEMMA HeaderCalls ==
    ASSUME NEW csid \in Nat, NEW type \in Nat, NEW streamId \in Nat, NEW body \in Seq(Octet8)
    PROVE  writeHeader(Message(csid, type, streamId, body)) \in Seq(Wide)
<1> DEFINE m == Message(csid, type, streamId, body)
           n == Len(body)
           form == CASE csid < 64 -> <<B(csid, 6)>>
                     [] csid \in 64..319 -> <<B(0, 6), B(csid - 64, 8)>>
                     [] csid > 319 -> <<B(1, 6), L(csid - 64, 16)>>
           rest == <<B(0, 24), B(n, 24), B(type, 8), L(streamId, 32)>>
<1>1. m.csid = csid /\ m.type = type /\ m.streamId = streamId /\ m.body = body
  BY DEF Message
<1>2. n \in Nat
  OBVIOUS
<1>3. \A v \in Nat : /\ B(v, 2) \in Wide /\ B(v, 6) \in Wide /\ B(v, 8) \in Wide
                      /\ B(v, 24) \in Wide /\ L(v, 16) \in Wide /\ L(v, 32) \in Wide
  <2>1. 2 \in 1..32 /\ 6 \in 1..32 /\ 8 \in 1..32 /\ 16 \in 1..32 /\ 24 \in 1..32 /\ 32 \in 1..32
    OBVIOUS
  <2> QED BY <2>1, NumberCall, Zenon
<1>4. writeHeader(m) = <<B(0, 2)>> \o form \o rest
  <2> HIDE DEF m
  <2> QED BY <1>1, Zenon DEF writeHeader
<1> HIDE DEF m, n
<1>5. form \in Seq(Wide)
  <2>1. CASE csid < 64
    <3>1. B(csid, 6) \in Wide
      BY <1>3
    <3>2. form = <<B(csid, 6)>>
      <4>1. ~(csid \in 64..319) /\ ~(csid > 319)
        BY <2>1
      <4> QED BY <2>1, <4>1, Zenon
    <3> HIDE DEF form
    <3> QED BY <3>1, <3>2
  <2>2. CASE csid \in 64..319
    <3>1. csid - 64 \in Nat /\ ~(csid < 64) /\ ~(csid > 319)
      BY <2>2
    <3>2. B(0, 6) \in Wide /\ B(csid - 64, 8) \in Wide
      BY <1>3, <3>1
    <3>3. form = <<B(0, 6), B(csid - 64, 8)>>
      BY <2>2, <3>1, Zenon
    <3> HIDE DEF form
    <3> QED BY <3>2, <3>3
  <2>3. CASE csid > 319
    <3>1. csid - 64 \in Nat /\ ~(csid < 64) /\ ~(csid \in 64..319)
      BY <2>3
    <3>2. B(1, 6) \in Wide /\ L(csid - 64, 16) \in Wide
      BY <1>3, <3>1
    <3>3. form = <<B(1, 6), L(csid - 64, 16)>>
      BY <2>3, <3>1, Zenon
    <3> HIDE DEF form
    <3> QED BY <3>2, <3>3
  <2>4. csid < 64 \/ csid \in 64..319 \/ csid > 319
    OBVIOUS
  <2> HIDE DEF form
  <2> QED BY <2>1, <2>2, <2>3, <2>4
<1>6. <<B(0, 2)>> \in Seq(Wide)
  <2>1. B(0, 2) \in Wide
    BY <1>3
  <2> QED BY <2>1
<1>7. rest \in Seq(Wide)
  <2>1. B(0, 24) \in Wide /\ B(n, 24) \in Wide /\ B(type, 8) \in Wide /\ L(streamId, 32) \in Wide
    BY <1>2, <1>3
  <2> QED BY <2>1
<1> HIDE DEF form, rest
<1>8. <<B(0, 2)>> \o form \o rest \in Seq(Wide)
  BY <1>5, <1>6, <1>7
<1> QED BY <1>4, <1>8 DEF m

\* The pieces of a body are cut inside it.
LEMMA PiecesAreBytes ==
    ASSUME NEW body \in Seq(Octet8), NEW size \in {128, 1024}
    PROVE  Pieces(body, size) \in Seq(Seq(Octet8))
<1> DEFINE n == (Len(body) + size - 1) \div size
           end(i) == IF i * size < Len(body) THEN i * size ELSE Len(body)
           piece(i) == SubSeq(body, (i - 1) * size + 1, end(i))
<1>1. n \in Nat /\ Len(body) \in Nat
  BY SMT
<1>2. \A i \in 1..n : piece(i) \in Seq(Octet8)
  <2> TAKE i \in 1..n
  <2>1. /\ (i - 1) * size \in Nat /\ end(i) \in Nat
        /\ (i - 1) * size <= end(i) /\ end(i) <= Len(body)
    <3>1. CASE size = 128
      BY <1>1, <3>1
    <3>2. CASE size = 1024
      BY <1>1, <3>2
    <3> QED BY <3>1, <3>2
  <2> HIDE DEF end, n
  <2> QED BY <2>1, CutProperties
<1> HIDE DEF piece, n
<1>3. [i \in 1..n |-> piece(i)] \in Seq(Seq(Octet8))
  BY <1>1, <1>2
<1>4. Pieces(body, size) = [i \in 1..n |-> piece(i)]
  BY DEF Pieces, piece, n
<1> QED BY <1>3, <1>4

\* A function of 1 to k is a sequence, if k is below 1 the empty one.
LEMMA CountIsSeq ==
    ASSUME NEW S, NEW k \in Int, NEW f \in [1..k -> S]
    PROVE  f \in Seq(S)
OBVIOUS

\* A message that is sent in chunks.
LEMMA MessageCalls ==
    ASSUME NEW csid \in Nat, NEW type \in Nat, NEW streamId \in Nat, NEW body \in Seq(Octet8),
           outChunkSize \in {128, 1024}
    PROVE  chunkedSentMsg(Message(csid, type, streamId, body)) \in Seq(Wide)
<1> DEFINE m == Message(csid, type, streamId, body)
           pieces == Pieces(m.body, outChunkSize)
           k == 2 * Len(pieces) - 1
           call(i) == IF i % 2 = 1 THEN Octets(pieces[(i + 1) \div 2]) ELSE Octet(195)
<1>1. pieces \in Seq(Seq(Octet8)) /\ Len(pieces) \in Nat
  <2> DEFINE x == m.body
  <2>1. x \in Seq(Octet8)
    BY DEF Message
  <2> HIDE DEF x
  <2>2. Pieces(x, outChunkSize) \in Seq(Seq(Octet8))
    BY <2>1, PiecesAreBytes
  <2>3. pieces \in Seq(Seq(Octet8))
    BY <2>2 DEF x
  <2> HIDE DEF pieces
  <2> QED BY <2>3
<1>2. writeHeader(m) \in Seq(Wide)
  BY HeaderCalls
<1>3. \A s \in Seq(Octet8) : Octets(s) \in Wide
  BY DEF Octets, Wide, CallsOf
<1>4. Octet(195) \in Wide
  BY DEF Octet, Wide, CallsOf
<1>5. chunkedSentMsg(m) = writeHeader(m) \o [i \in 1..k |-> call(i)]
  <2> HIDE DEF m
  <2> QED BY Zenon DEF chunkedSentMsg
<1> HIDE DEF pieces, m
<1>6. \A i \in 1..k : call(i) \in Wide
  <2> TAKE i \in 1..k
  <2>1. CASE i % 2 = 1
    <3>1. (i + 1) \div 2 \in 1..Len(pieces)
      BY <1>1, <2>1
    <3>2. pieces[(i + 1) \div 2] \in Seq(Octet8)
      BY <1>1, <3>1
    <3> QED BY <1>3, <2>1, <3>2
  <2>2. CASE ~(i % 2 = 1)
    BY <1>4, <2>2
  <2> QED BY <2>1, <2>2
<1>7. k \in Int
  BY <1>1
<1> HIDE DEF k, call
<1>8. [i \in 1..k |-> call(i)] \in Seq(Wide)
  <2> DEFINE f == [i \in 1..k |-> call(i)]
  <2>1. f \in [1..k -> Wide]
    BY <1>6
  <2> HIDE DEF f
  <2>2. f \in Seq(Wide)
    BY <1>7, <2>1, CountIsSeq
  <2> QED BY <2>2 DEF f
<1> HIDE DEF k
<1> QED BY <1>2, <1>5, <1>8 DEF m

-----------------------------------------------------------------------------
(* What holds of the connection's buffers at every moment.                 *)

Handshakes == [kind : {"handshake"}, size : Nat]
Controls == {c \in [kind : {"control"}, type : Nat, v : Nat, rest : Seq(Octet8)] :
                c.type = 1 => c.v = 1024}
Answered == [kind : {"reply"}, of : Bodies, csid : Nat, streamId : Nat, n : Nat]
Tags == [kind : {"tag"}, type : Nat, ts : Nat, body : Seq(Octet8)]
Items == Handshakes \union Controls \union Answered \union Tags

\* What the handlers leave to be written, and the sizes they agree on.
Asking ==
    /\ chunkSize \in ChunkSizes \union {-1, 128} /\ outChunkSize \in {128, 1024}
    /\ isConnected \in BOOLEAN
    /\ queue \in Seq(Items)
    /\ count \in Nat /\ count + Len(queue) <= MaxSent + 3

Arrays ==
    /\ wp \in Buffers /\ wb \in Buffers /\ tagWb \in Buffers
    /\ Inside(wp) /\ Inside(wb) /\ Inside(tagWb)
    /\ wb.size > 4 /\ tagWb.size > 4
    /\ pc # "over" => ~wp.over /\ ~wb.over /\ ~tagWb.over

\* The calls that are left fit the buffer they are made on.
Writing ==
    /\ pc \in {"idle", "body", "send", "tag", "terminated", "over"}
    /\ calls \in Seq(Wide)
    /\ pc = "body" => msg \in Answered /\ calls \in Seq(Narrow) /\ BodyRoom(wp, calls)

\* Bits get outside an array only if it has no byte.
RepliesInv == Asking /\ Arrays /\ Writing /\ BitsInBounds

\* What a client may choose is a number.
LEMMA InputsAreNats ==
    /\ \A size \in ChunkSizes : size \in Nat
    /\ \A csid \in ChunkStreams : csid \in Nat
    /\ \A id \in StreamIds : id \in Nat
    /\ \A n \in NameLengths : n \in Nat
    /\ \A n \in TagLengths : n \in Nat
    /\ \A ts \in Timestamps : ts \in Nat
    /\ RandomSize \in Nat /\ MaxSent \in Nat
<1>1. /\ \A i \in AllChunkStreams : i \in Nat
      /\ \A i \in 0..255 : i \in Nat
  BY SMT DEF AllChunkStreams
<1> QED BY <1>1, RepliesAssumption

\* Each kind of item is what its constructor makes.
LEMMA KindsOfItems ==
    ASSUME NEW i \in Items
    PROVE  /\ i.kind = "handshake" => i.size \in Nat
           /\ i.kind = "control" => /\ i.type \in Nat /\ i.v \in Nat /\ i.rest \in Seq(Octet8)
                                    /\ i.type = 1 => i.v = 1024
           /\ i.kind = "reply" => i \in Answered
           /\ i.kind = "tag" => i.type \in Nat /\ i.ts \in Nat /\ i.body \in Seq(Octet8)
BY DEF Items, Handshakes, Controls, Answered, Tags

LEMMA PacketIsItem ==
    ASSUME NEW n \in Nat
    PROVE  Packet(n) \in Items
BY DEF Packet, Items, Handshakes

LEMMA ControlIsItem ==
    ASSUME NEW type \in Nat, NEW v \in Nat, NEW rest \in Seq(Octet8), type = 1 => v = 1024
    PROVE  Control(type, v, rest) \in Items
BY DEF Control, Items, Controls

LEMMA ReplyIsItem ==
    ASSUME NEW kind \in Bodies, NEW csid \in Nat, NEW streamId \in Nat, NEW n \in Nat
    PROVE  Reply(kind, csid, streamId, n) \in Items
BY DEF Reply, Items, Answered

LEMMA TagIsItem ==
    ASSUME NEW type \in Nat, NEW ts \in Nat, NEW n \in Nat
    PROVE  Tag(type, ts, n) \in Items
BY TextIsBytes DEF Tag, Items, Tags

\* A connection begins with an empty array for what it sends.
LEMMA RepliesInitInv == RepliesInit => RepliesInv
<1> SUFFICES ASSUME RepliesInit
             PROVE  RepliesInv
  OBVIOUS
<1>1. /\ WbInit \in Nat /\ WbInit > 4 /\ StreamWbInit \in Nat /\ StreamWbInit > 4
      /\ RandomSize \in Nat /\ MaxSent \in Nat
  BY RepliesAssumption
<1>2. Asking
  <2>1. Packet(1) \in Items /\ Packet(8 + RandomSize) \in Items
    BY <1>1, PacketIsItem
  <2>2. queue = <<Packet(1), Packet(8 + RandomSize), Packet(8 + RandomSize)>>
    BY DEF RepliesInit
  <2>3. queue \in Seq(Items) /\ Len(queue) = 3
    BY <2>1, <2>2
  <2>4. chunkSize = 128 /\ outChunkSize = 128 /\ isConnected = FALSE /\ count = 0
    BY DEF RepliesInit
  <2>5. count + Len(queue) <= MaxSent + 3
    BY <1>1, <2>3, <2>4
  <2>6. chunkSize \in ChunkSizes \union {-1, 128} /\ outChunkSize \in {128, 1024}
        /\ isConnected \in BOOLEAN /\ count \in Nat
    BY <2>4
  <2> QED BY <2>3, <2>5, <2>6 DEF Asking
<1>3. Arrays
  <2>1. wp = New(0) /\ wb = New(WbInit) /\ tagWb = New(StreamWbInit)
    BY DEF RepliesInit
  <2>2. \A n \in Nat : /\ New(n) \in Buffers /\ New(n).size = n /\ ~New(n).over
                       /\ Inside(New(n))
    BY NewIsEmpty DEF Inside
  <2> QED BY <1>1, <2>1, <2>2 DEF Arrays
<1>4. Writing /\ BitsInBounds
  <2>1. pc = "idle" /\ calls = <<>>
    BY DEF RepliesInit
  <2> QED BY <2>1 DEF Writing, BitsInBounds
<1> QED BY <1>2, <1>3, <1>4 DEF RepliesInv

\* A handler asks for nothing that is not an item.
LEMMA AnswersKeep ==
    ASSUME RepliesInv, NEW replies \in Seq(Items), Len(replies) <= 4, Handler, Answers(replies),
           chunkSize' \in ChunkSizes \union {-1, 128}, isConnected' \in BOOLEAN,
           outChunkSize' = outChunkSize
    PROVE  RepliesInv'
<1>1. Asking'
  <2>1. queue' = replies /\ count' = count /\ count < MaxSent
    BY DEF Answers, Handler
  <2>2. count \in Nat /\ MaxSent \in Nat /\ Len(replies) \in Nat
    <3>1. count \in Nat
      BY DEF RepliesInv, Asking
    <3>2. MaxSent \in Nat
      BY RepliesAssumption
    <3> QED BY <3>1, <3>2
  <2>3. count' + Len(queue') <= MaxSent + 3 /\ queue' \in Seq(Items) /\ count' \in Nat
    BY <2>1, <2>2
  <2>4. outChunkSize' \in {128, 1024}
    BY DEF RepliesInv, Asking
  <2> QED BY <2>3, <2>4, Zenon DEF Asking
<1>2. UNCHANGED <<pc, msg, calls, last, buffers>>
  BY DEF Answers
<1>3. Arrays' /\ Writing' /\ BitsInBounds'
  BY <1>2 DEF RepliesInv, Arrays, Writing, BitsInBounds, buffers
<1> QED BY <1>1, <1>3 DEF RepliesInv

\* The first item is taken off the queue.
LEMMA BeginKeeps ==
    ASSUME RepliesInv, NEW to, NEW m, NEW todo, Begin(to, m, todo)
    PROVE  /\ Asking' /\ pc = "idle" /\ pc' = to /\ msg' = m /\ calls' = todo
           /\ next \in Items
<1>1. /\ pc = "idle" /\ pc' = to /\ msg' = m /\ calls' = todo
      /\ queue # <<>> /\ queue' = Tail(queue) /\ count' = count + 1
      /\ outChunkSize' = IF next.kind = "control" /\ next.type = 1 THEN next.v ELSE outChunkSize
      /\ UNCHANGED <<chunkSize, isConnected>>
  BY DEF Begin
<1>2. /\ queue \in Seq(Items) /\ count \in Nat /\ count + Len(queue) <= MaxSent + 3
      /\ outChunkSize \in {128, 1024} /\ chunkSize \in ChunkSizes \union {-1, 128}
      /\ isConnected \in BOOLEAN
  BY DEF RepliesInv, Asking
<1>3. /\ next \in Items /\ Tail(queue) \in Seq(Items)
      /\ Len(Tail(queue)) = Len(queue) - 1 /\ Len(queue) \in Nat
  BY <1>1, <1>2 DEF next
<1>4. outChunkSize' \in {128, 1024}
  BY <1>1, <1>2, <1>3, KindsOfItems
<1>5. MaxSent \in Nat
  BY RepliesAssumption
<1>6. count' \in Nat /\ count' + Len(queue') <= MaxSent + 3
  BY <1>1, <1>2, <1>3, <1>5
<1> QED BY <1>1, <1>2, <1>3, <1>4, <1>6 DEF Asking

\* One step of each handler.
LEMMA HandlersKeep ==
    ASSUME RepliesInv,
           \/ onReadConnect \/ onReadCmd \/ onReceiveStream
           \/ \E size \in ChunkSizes \union {-1} : onSetChunkSize(size)
    PROVE  RepliesInv'
<1>1. /\ chunkSize \in ChunkSizes \union {-1, 128} /\ isConnected \in BOOLEAN
  BY DEF RepliesInv, Asking
<1>2. CASE onReadConnect
  <2> DEFINE window == 2500000
             replies == <<Control(5, window, <<>>), Control(6, window, <<2>>),
                          Control(1, 1024, <<>>), Reply("connect", 3, 0, 0)>>
  <2>1. /\ Handler /\ Answers(replies)
        /\ isConnected' = TRUE /\ chunkSize' = chunkSize /\ outChunkSize' = outChunkSize
    BY <1>2, SMT DEF onReadConnect
  <2>2. window \in Nat
    BY SMT
  <2> HIDE DEF window
  <2>3. <<>> \in Seq(Octet8)
    OBVIOUS
  <2>4. Control(5, window, <<>>) \in Items /\ Control(6, window, <<2>>) \in Items
    <3> DEFINE dynamic == <<2>>
    <3>1. 5 \in Nat /\ 6 \in Nat /\ 5 # 1 /\ 6 # 1
      OBVIOUS
    <3>2. dynamic \in Seq(Octet8)
      BY DEF Octet8
    <3> HIDE DEF dynamic
    <3>3. Control(5, window, <<>>) \in Items
      BY <2>2, <2>3, <3>1, ControlIsItem, Zenon
    <3>4. Control(6, window, dynamic) \in Items
      BY <2>2, <3>1, <3>2, ControlIsItem, Zenon
    <3> QED BY <3>3, <3>4 DEF dynamic
  <2>5. Control(1, 1024, <<>>) \in Items
    BY <2>3 DEF Control, Items, Controls
  <2>6. Reply("connect", 3, 0, 0) \in Items
    BY ReplyIsItem DEF Bodies
  <2>7. replies \in Seq(Items) /\ Len(replies) <= 4
    BY <2>4, <2>5, <2>6
  <2> HIDE DEF replies
  <2> QED BY <1>1, <2>1, <2>7, AnswersKeep
<1>3. CASE onReadCmd
  <2>1. /\ Handler /\ chunkSize' = chunkSize /\ outChunkSize' = outChunkSize
        /\ isConnected' = isConnected
    BY <1>3 DEF onReadCmd, config
  <2>2. \E i \in Items : Answers(<<i>>)
    <3>1. CASE \E kind \in {"onBWDone", "_result", "createStream"} :
                  Answers(<<Reply(kind, 3, 0, 0)>>)
      <4>1. \A kind \in {"onBWDone", "_result", "createStream"} : Reply(kind, 3, 0, 0) \in Items
        BY ReplyIsItem DEF Bodies
      <4> QED BY <3>1, <4>1
    <3>2. CASE \E csid \in ChunkStreams, id \in StreamIds, n \in NameLengths :
                  isConnected /\ Answers(<<Reply("onStatus", csid, id, n)>>)
      <4>1. \A csid \in ChunkStreams, id \in StreamIds, n \in NameLengths :
               Reply("onStatus", csid, id, n) \in Items
        <5>1. "onStatus" \in Bodies
          BY DEF Bodies
        <5> QED BY <5>1, InputsAreNats, ReplyIsItem, Zenon
      <4> QED BY <3>2, <4>1
    <3>3. CASE Answers(<<Control(3, 256, <<>>)>>)
      <4>1. Control(3, 256, <<>>) \in Items
        <5> DEFINE bytes == 256
        <5>1. 3 \in Nat /\ bytes \in Nat /\ 3 # 1 /\ <<>> \in Seq(Octet8)
          OBVIOUS
        <5> HIDE DEF bytes
        <5>2. Control(3, bytes, <<>>) \in Items
          BY <5>1, ControlIsItem, Zenon
        <5> QED BY <5>2 DEF bytes
      <4> QED BY <3>3, <4>1
    <3> QED BY <1>3, <3>1, <3>2, <3>3 DEF onReadCmd
  <2>3. PICK i \in Items : Answers(<<i>>)
    BY <2>2
  <2>4. <<i>> \in Seq(Items) /\ Len(<<i>>) <= 4
    OBVIOUS
  <2> QED BY <1>1, <2>1, <2>3, <2>4, AnswersKeep
<1>4. CASE onReceiveStream
  <2>1. /\ Handler /\ chunkSize' = chunkSize /\ outChunkSize' = outChunkSize
        /\ isConnected' = isConnected
    BY <1>4 DEF onReceiveStream, config
  <2>2. PICK type \in {8, 9, 18}, ts \in Timestamps, n \in TagLengths : Answers(<<Tag(type, ts, n)>>)
    BY <1>4 DEF onReceiveStream
  <2>3. type \in Nat /\ ts \in Nat /\ n \in Nat
    <3>1. type \in Nat
      OBVIOUS
    <3> QED BY <3>1, InputsAreNats, Zenon
  <2>4. Tag(type, ts, n) \in Items
    BY <2>3, TagIsItem
  <2>5. <<Tag(type, ts, n)>> \in Seq(Items) /\ Len(<<Tag(type, ts, n)>>) <= 4
    BY <2>4
  <2> QED BY <1>1, <2>1, <2>2, <2>5, AnswersKeep
<1>5. CASE \E size \in ChunkSizes \union {-1} : onSetChunkSize(size)
  <2>1. /\ Handler /\ Answers(<<>>) /\ chunkSize' \in ChunkSizes \union {-1, 128}
        /\ outChunkSize' = outChunkSize /\ isConnected' = isConnected
    BY <1>5 DEF onSetChunkSize
  <2>2. <<>> \in Seq(Items) /\ Len(<<>>) <= 4
    OBVIOUS
  <2> QED BY <1>1, <2>1, <2>2, AnswersKeep
<1> QED BY <1>2, <1>3, <1>4, <1>5

\* Bytes and blocks, and numbers of up to 32 bits, are calls.
LEMMA WideCalls ==
    /\ \A v \in Nat : /\ B(v, 3) \in Wide /\ B(v, 5) \in Wide /\ B(v, 8) \in Wide
                      /\ B(v, 24) \in Wide /\ B(v, 32) \in Wide
    /\ \A v \in Nat : Octet(v) \in Wide
    /\ \A s \in Seq(Octet8) : Octets(s) \in Wide
<1>1. 3 \in 1..32 /\ 5 \in 1..32 /\ 8 \in 1..32 /\ 24 \in 1..32 /\ 32 \in 1..32
  OBVIOUS
<1>2. \A v \in Nat : /\ B(v, 3) \in Wide /\ B(v, 5) \in Wide /\ B(v, 8) \in Wide
                     /\ B(v, 24) \in Wide /\ B(v, 32) \in Wide
  BY <1>1, NumberCall, Zenon
<1>3. /\ \A v \in Nat : Octet(v) \in Wide
      /\ \A s \in Seq(Octet8) : Octets(s) \in Wide
  BY DEF Octet, Octets, Wide, CallsOf
<1> QED BY <1>2, <1>3

\* A message goes to a buffer that is used again.
LEMMA SendKeeps ==
    ASSUME RepliesInv, NEW m, NEW todo \in Seq(Wide), Begin("send", m, todo),
           wb' = reInit(wb), UNCHANGED <<wp, tagWb>>
    PROVE  RepliesInv'
<1>1. Asking' /\ pc = "idle" /\ pc' = "send" /\ calls' = todo
  BY BeginKeeps
<1>2. /\ wp \in Buffers /\ wb \in Buffers /\ tagWb \in Buffers
      /\ Inside(wp) /\ Inside(wb) /\ Inside(tagWb)
      /\ wb.size > 4 /\ tagWb.size > 4 /\ ~wp.over /\ ~wb.over /\ ~tagWb.over
  BY <1>1 DEF RepliesInv, Arrays
<1>3. wb' \in Buffers /\ Inside(wb') /\ wb'.size > 4 /\ ~wb'.over
  <2>1. wb.size \in Nat
    BY <1>2, LengthIsNat
  <2> QED BY <1>2, <2>1, reInitEmpties DEF Inside
<1>4. Arrays'
  BY <1>2, <1>3 DEF Arrays
<1>5. Writing' /\ BitsInBounds'
  BY <1>1 DEF Writing, BitsInBounds
<1> QED BY <1>1, <1>4, <1>5 DEF RepliesInv

LEMMA beginHandshakeKeeps == RepliesInv /\ beginHandshake => RepliesInv'
<1> SUFFICES ASSUME RepliesInv, beginHandshake
             PROVE  RepliesInv'
  OBVIOUS
<1> DEFINE todo == IF next.size = 1 THEN <<Octet(3)>>
                   ELSE <<B(0, 32), B(0, 32), Octets(Text(RandomSize))>>
<1>1. Begin("send", next, todo) /\ wb' = reInit(wb) /\ UNCHANGED <<wp, tagWb>>
  BY DEF beginHandshake
<1>2. todo \in Seq(Wide)
  <2>1. Text(RandomSize) \in Seq(Octet8)
    BY InputsAreNats, TextIsBytes, Zenon
  <2>2. Octet(3) \in Wide /\ B(0, 32) \in Wide /\ Octets(Text(RandomSize)) \in Wide
    BY <2>1, WideCalls
  <2> QED BY <2>2
<1> HIDE DEF todo
<1> QED BY <1>1, <1>2, SendKeeps

LEMMA beginControlKeeps == RepliesInv /\ beginControl => RepliesInv'
<1> SUFFICES ASSUME RepliesInv, beginControl
             PROVE  RepliesInv'
  OBVIOUS
<1> DEFINE digit(i) == (next.v \div 256 ^ (4 - i)) % 256
           body == [i \in 1..4 |-> digit(i)] \o next.rest
           m == Message(2, next.type, 0, body)
           behind == [i \in DOMAIN next.rest |-> B(next.rest[i], 8)]
           todo == writeHeader(m) \o <<B(next.v, 32)>> \o behind
<1>1. Begin("send", m @@ next, todo) /\ wb' = reInit(wb) /\ UNCHANGED <<wp, tagWb>>
  BY DEF beginControl
<1>2. next.type \in Nat /\ next.v \in Nat /\ next.rest \in Seq(Octet8)
  <2>1. next \in Items
    BY <1>1, BeginKeeps
  <2>2. next.kind = "control"
    BY DEF beginControl
  <2> QED BY <2>1, <2>2, KindsOfItems
<1>3. body \in Seq(Octet8)
  <2>1. \A i \in 1..4 : digit(i) \in Octet8
    <3> TAKE i \in 1..4
    <3>1. 256 ^ (4 - i) \in Nat \ {0}
      <4>1. 256 ^ 0 \in Nat \ {0} /\ 256 ^ 1 \in Nat \ {0}
            /\ 256 ^ 2 \in Nat \ {0} /\ 256 ^ 3 \in Nat \ {0}
        OBVIOUS
      <4> DEFINE e == 4 - i
      <4>2. e \in {0, 1, 2, 3}
        OBVIOUS
      <4> HIDE DEF e
      <4>3. 256 ^ e \in Nat \ {0}
        <5>1. CASE e = 0
          BY <4>1, <5>1, Zenon
        <5>2. CASE e = 1
          BY <4>1, <5>2, Zenon
        <5>3. CASE e = 2
          BY <4>1, <5>3, Zenon
        <5>4. CASE e = 3
          BY <4>1, <5>4, Zenon
        <5> QED BY <4>2, <5>1, <5>2, <5>3, <5>4
      <4> QED BY <4>3 DEF e
    <3>2. next.v \div 256 ^ (4 - i) \in Int
      BY <1>2, <3>1
    <3> QED BY <3>2 DEF Octet8
  <2> HIDE DEF digit
  <2>2. [i \in 1..4 |-> digit(i)] \in Seq(Octet8)
    BY <2>1
  <2> QED BY <1>2, <2>2, ConcatProperties
<1> HIDE DEF digit, body
<1>4. writeHeader(m) \in Seq(Wide)
  BY <1>2, <1>3, HeaderCalls
<1> HIDE DEF m
<1>5. behind \in Seq(Wide)
  <2>1. \A i \in 1..Len(next.rest) : B(next.rest[i], 8) \in Wide
    <3>1. \A i \in 1..Len(next.rest) : next.rest[i] \in Nat
      <4> DEFINE rest == next.rest
      <4>1. rest \in Seq(Octet8)
        BY <1>2
      <4>2. \A i \in 1..Len(rest) : rest[i] \in Octet8
        BY <4>1
      <4>3. \A x \in Octet8 : x \in Nat
        BY DEF Octet8
      <4> QED BY <4>2, <4>3, Zenon
    <3> QED BY <3>1, WideCalls, Zenon
  <2>2. DOMAIN next.rest = 1..Len(next.rest) /\ Len(next.rest) \in Nat
    BY <1>2
  <2> QED BY <2>1, <2>2
<1>6. <<B(next.v, 32)>> \in Seq(Wide)
  <2>1. B(next.v, 32) \in Wide
    BY <1>2, WideCalls
  <2> QED BY <2>1
<1> HIDE DEF behind
<1>7. todo \in Seq(Wide)
  BY <1>4, <1>5, <1>6
<1> HIDE DEF todo
<1> QED BY <1>1, <1>7, SendKeeps

LEMMA beginReplyKeeps == RepliesInv /\ beginReply => RepliesInv'
<1> SUFFICES ASSUME RepliesInv, beginReply
             PROVE  RepliesInv'
  OBVIOUS
<1>1. next.kind = "reply" /\ UNCHANGED <<wb, tagWb>>
  BY DEF beginReply
<1>2. CASE chunkSize >= 0 /\ Begin("body", next, Body(next.of, next.n)) /\ wp' = New(chunkSize)
  <2>1. /\ Asking' /\ pc = "idle" /\ pc' = "body" /\ msg' = next /\ next \in Items
        /\ calls' = Body(next.of, next.n)
    BY <1>2, BeginKeeps
  <2>2. next \in Answered /\ next.of \in Bodies /\ next.n \in Nat
    BY <1>1, <2>1, KindsOfItems DEF Answered
  <2>3. wp' \in Buffers /\ bi_(wp') = 0 /\ ~wp'.over /\ Inside(wp')
    <3>1. chunkSize \in Nat
      <4>1. chunkSize \in ChunkSizes \/ chunkSize = -1 \/ chunkSize = 128
        BY DEF RepliesInv, Asking
      <4> QED BY <1>2, <4>1, InputsAreNats
    <3>2. New(chunkSize) \in Buffers /\ bi_(New(chunkSize)) = 0 /\ ~New(chunkSize).over
          /\ New(chunkSize).size = chunkSize
      BY <3>1, NewIsEmpty
    <3> QED BY <1>2, <3>1, <3>2 DEF Inside
  <2>4. /\ calls' \in Seq(Narrow) /\ calls' \in Seq(Wide)
        /\ BodyRoom(wp', calls')
    <3>1. /\ calls' \in Seq(Narrow) /\ Len(calls') > 1
          /\ calls'[1].op = "writeB" /\ calls'[1].bits = 8
          /\ calls'[2].op = "writeB" /\ calls'[2].bits = 16
      BY <2>1, <2>2, BodyCalls
    <3> QED BY <2>3, <3>1, NarrowIsWide DEF BodyRoom, Early
  <2>5. Arrays'
    BY <1>1, <2>1, <2>3 DEF RepliesInv, Arrays
  <2>6. Writing' /\ BitsInBounds'
    BY <2>1, <2>2, <2>4 DEF Writing, BitsInBounds
  <2> QED BY <2>1, <2>5, <2>6 DEF RepliesInv
<1>3. CASE chunkSize < 0 /\ Begin("terminated", next, <<>>) /\ UNCHANGED wp
  <2>1. Asking' /\ pc = "idle" /\ pc' = "terminated" /\ calls' = <<>>
    BY <1>3, BeginKeeps
  <2>2. Arrays'
    BY <1>1, <1>3, <2>1 DEF RepliesInv, Arrays
  <2>3. Writing' /\ BitsInBounds'
    BY <2>1 DEF Writing, BitsInBounds
  <2> QED BY <2>1, <2>2, <2>3 DEF RepliesInv
<1> QED BY <1>2, <1>3 DEF beginReply

LEMMA beginTagKeeps == RepliesInv /\ beginTag => RepliesInv'
<1> SUFFICES ASSUME RepliesInv, beginTag
             PROVE  RepliesInv'
  OBVIOUS
<1> DEFINE n == Len(next.body)
           todo == <<B(0, 3), B(next.type, 5), B(n, 24), B(next.ts % 2 ^ 24, 24),
                     B(next.ts \div 2 ^ 24, 8), B(0, 24), Octets(next.body), B(n + 11, 32)>>
<1>1. Begin("tag", next, todo) /\ tagWb' = reInit(tagWb) /\ UNCHANGED <<wp, wb>>
  BY DEF beginTag
<1>2. /\ Asking' /\ pc = "idle" /\ pc' = "tag" /\ calls' = todo /\ next \in Items
  BY <1>1, BeginKeeps
<1>3. next.type \in Nat /\ next.ts \in Nat /\ next.body \in Seq(Octet8) /\ n \in Nat
  BY <1>2, KindsOfItems DEF beginTag
<1>4. next.ts % 2 ^ 24 \in Nat /\ next.ts \div 2 ^ 24 \in Nat
  <2>1. 2 ^ 24 \in Nat \ {0}
    OBVIOUS
  <2> QED BY <1>3, <2>1
<1> HIDE DEF n
<1>5. todo \in Seq(Wide)
  <2> DEFINE low == next.ts % 2 ^ 24
             high == next.ts \div 2 ^ 24
  <2>1. low \in Nat /\ high \in Nat
    BY <1>4
  <2> HIDE DEF low, high
  <2>2. /\ B(0, 3) \in Wide /\ B(next.type, 5) \in Wide /\ B(n, 24) \in Wide /\ B(low, 24) \in Wide
        /\ B(high, 8) \in Wide /\ B(0, 24) \in Wide /\ Octets(next.body) \in Wide
        /\ B(n + 11, 32) \in Wide
    <3>1. n + 11 \in Nat
      BY <1>3
    <3> QED BY <1>3, <2>1, <3>1, WideCalls
  <2>3. todo = <<B(0, 3), B(next.type, 5), B(n, 24), B(low, 24),
                 B(high, 8), B(0, 24), Octets(next.body), B(n + 11, 32)>>
    BY DEF low, high
  <2> HIDE DEF todo
  <2> QED BY <2>2, <2>3
<1> HIDE DEF todo
<1>6. Arrays'
  <2>1. /\ tagWb \in Buffers /\ Inside(tagWb) /\ tagWb.size > 4
        /\ ~wp.over /\ ~wb.over /\ ~tagWb.over
    BY <1>2 DEF RepliesInv, Arrays
  <2>2. tagWb' \in Buffers /\ Inside(tagWb') /\ tagWb'.size > 4 /\ ~tagWb'.over
    <3>1. tagWb.size \in Nat
      BY <2>1, LengthIsNat
    <3> QED BY <1>1, <2>1, <3>1, reInitEmpties DEF Inside
  <2> QED BY <1>1, <2>1, <2>2 DEF RepliesInv, Arrays
<1>7. Writing' /\ BitsInBounds'
  BY <1>2, <1>5 DEF Writing, BitsInBounds
<1> QED BY <1>2, <1>6, <1>7 DEF RepliesInv

\* A call on a buffer that lives longer than a message: only a byte or a block
\* gets outside.
LEMMA LongLivedCall ==
    ASSUME RepliesInv, NEW b, NEW after, Call(b, after), pc # "over",
           b \in Buffers, Inside(b), ~b.over, b.size > 4
    PROVE  /\ after \in Buffers /\ Inside(after) /\ after.size > 4
           /\ calls' \in Seq(Wide) /\ Asking'
           /\ \/ pc' = "over" /\ last'.op \in {"writeByte", "writeBytes"}
              \/ pc' = pc /\ ~after.over
<1> DEFINE call == Head(calls)
<1>1. /\ calls # <<>> /\ after = After(b, call) /\ last' = [op |-> call.op, size |-> after.size]
      /\ calls' = Tail(calls) /\ pc' = IF after.over THEN "over" ELSE pc
      /\ UNCHANGED <<config, queue, count>>
  BY DEF Call
<1>2. calls \in Seq(Wide)
  BY DEF RepliesInv, Writing
<1>3. call \in Wide /\ Tail(calls) \in Seq(Wide)
  BY <1>1, <1>2
<1> HIDE DEF call
<1>4. after \in Buffers /\ Inside(after) /\ b.size <= after.size
  BY <1>1, <1>3, CallKeeps
<1>5. b.size \in Nat /\ after.size \in Nat /\ after.over \in BOOLEAN
  BY <1>4, LengthIsNat DEF Buffers
<1>6. ~after.over \/ call.op \in {"writeByte", "writeBytes"}
  <2>1. CASE IsNumber(call)
    BY <1>1, <1>3, <2>1, WideFits
  <2>2. CASE ~IsNumber(call)
    BY <1>3, <2>2 DEF IsNumber, Wide, CallsOf
  <2> QED BY <2>1, <2>2
<1>7. Asking'
  BY <1>1 DEF RepliesInv, Asking, config
<1>8. last'.op = call.op
  BY <1>1
<1>9. after.size > 4
  BY <1>4, <1>5
<1> QED BY <1>1, <1>3, <1>4, <1>6, <1>7, <1>8, <1>9

LEMMA callOnWbKeeps == RepliesInv /\ callOnWb => RepliesInv'
<1> SUFFICES ASSUME RepliesInv, callOnWb
             PROVE  RepliesInv'
  OBVIOUS
<1>1. pc = "send" /\ Call(wb, wb') /\ UNCHANGED <<wp, tagWb>>
  BY DEF callOnWb
<1>2. /\ wp \in Buffers /\ wb \in Buffers /\ tagWb \in Buffers
      /\ Inside(wp) /\ Inside(wb) /\ Inside(tagWb)
      /\ wb.size > 4 /\ tagWb.size > 4 /\ ~wp.over /\ ~wb.over /\ ~tagWb.over
  BY <1>1 DEF RepliesInv, Arrays
<1>3. /\ wb' \in Buffers /\ Inside(wb') /\ wb'.size > 4
      /\ calls' \in Seq(Wide) /\ Asking'
      /\ \/ pc' = "over" /\ last'.op \in {"writeByte", "writeBytes"}
         \/ pc' = pc /\ ~wb'.over
  BY <1>1, <1>2, LongLivedCall
<1>4. Arrays' /\ Writing' /\ BitsInBounds'
  BY <1>1, <1>2, <1>3 DEF Arrays, Writing, BitsInBounds
<1> QED BY <1>3, <1>4 DEF RepliesInv

LEMMA callOnTagKeeps == RepliesInv /\ callOnTag => RepliesInv'
<1> SUFFICES ASSUME RepliesInv, callOnTag
             PROVE  RepliesInv'
  OBVIOUS
<1>1. pc = "tag" /\ Call(tagWb, tagWb') /\ UNCHANGED <<wp, wb>>
  BY DEF callOnTag
<1>2. /\ wp \in Buffers /\ wb \in Buffers /\ tagWb \in Buffers
      /\ Inside(wp) /\ Inside(wb) /\ Inside(tagWb)
      /\ wb.size > 4 /\ tagWb.size > 4 /\ ~wp.over /\ ~wb.over /\ ~tagWb.over
  BY <1>1 DEF RepliesInv, Arrays
<1>3. /\ tagWb' \in Buffers /\ Inside(tagWb') /\ tagWb'.size > 4
      /\ calls' \in Seq(Wide) /\ Asking'
      /\ \/ pc' = "over" /\ last'.op \in {"writeByte", "writeBytes"}
         \/ pc' = pc /\ ~tagWb'.over
  BY <1>1, <1>2, LongLivedCall
<1>4. Arrays' /\ Writing' /\ BitsInBounds'
  BY <1>1, <1>2, <1>3 DEF Arrays, Writing, BitsInBounds
<1> QED BY <1>3, <1>4 DEF RepliesInv

\* The array of a body begins with any size: it is large enough from the
\* second call on.
LEMMA callOnBodyKeeps == RepliesInv /\ callOnBody => RepliesInv'
<1> SUFFICES ASSUME RepliesInv, callOnBody
             PROVE  RepliesInv'
  OBVIOUS
<1> DEFINE call == Head(calls)
           after == After(wp, call)
<1>1. /\ pc = "body" /\ calls # <<>> /\ wp' = after /\ last' = [op |-> call.op, size |-> after.size]
      /\ calls' = Tail(calls) /\ pc' = IF after.over THEN "over" ELSE pc
      /\ UNCHANGED <<config, queue, msg, count, wb, tagWb>>
  BY DEF callOnBody, Call
<1>2. /\ wp \in Buffers /\ wb \in Buffers /\ tagWb \in Buffers
      /\ Inside(wp) /\ Inside(wb) /\ Inside(tagWb)
      /\ wb.size > 4 /\ tagWb.size > 4 /\ ~wp.over /\ ~wb.over /\ ~tagWb.over
  BY <1>1 DEF RepliesInv, Arrays
<1>3. msg \in Answered /\ calls \in Seq(Narrow) /\ BodyRoom(wp, calls)
  BY <1>1 DEF RepliesInv, Writing
<1>4. call \in Wide /\ Tail(calls) \in Seq(Narrow) /\ Tail(calls) \in Seq(Wide)
  BY <1>1, <1>3, NarrowIsWide
<1>5. after \in Buffers /\ Inside(after)
  BY <1>2, <1>4, CallKeeps
<1>6. \/ ~after.over /\ BodyRoom(after, Tail(calls))
      \/ after.over /\ (call.op \in {"writeByte", "writeBytes"} \/ after.size = 0)
  BY <1>1, <1>2, <1>3, NarrowFits
<1> HIDE DEF call, after
<1>7. Asking'
  BY <1>1 DEF RepliesInv, Asking, config
<1>8. last'.op = call.op /\ last'.size = after.size
  BY <1>1
<1>9. Arrays'
  BY <1>1, <1>2, <1>5, <1>6 DEF Arrays
<1>10. Writing' /\ BitsInBounds'
  BY <1>1, <1>3, <1>4, <1>6, <1>8 DEF Writing, BitsInBounds
<1> QED BY <1>7, <1>9, <1>10 DEF RepliesInv

LEMMA sendBodyKeeps == RepliesInv /\ sendBody => RepliesInv'
<1> SUFFICES ASSUME RepliesInv, sendBody
             PROVE  RepliesInv'
  OBVIOUS
<1>1. /\ pc = "body" /\ pc' = "send" /\ wb' = reInit(wb)
      /\ calls' = chunkedSentMsg(Message(msg.csid, 20, msg.streamId, getBuffer(wp)))
      /\ UNCHANGED <<config, queue, count, wp, tagWb>>
  BY DEF sendBody
<1>2. /\ wp \in Buffers /\ wb \in Buffers /\ tagWb \in Buffers
      /\ Inside(wp) /\ Inside(wb) /\ Inside(tagWb)
      /\ wb.size > 4 /\ tagWb.size > 4 /\ ~wp.over /\ ~wb.over /\ ~tagWb.over
  BY <1>1 DEF RepliesInv, Arrays
<1>3. msg.csid \in Nat /\ msg.streamId \in Nat
  BY <1>1 DEF RepliesInv, Writing, Answered
<1>4. getBuffer(wp) \in Seq(Octet8)
  BY <1>2 DEF getBuffer, Buffers
<1>5. outChunkSize \in {128, 1024}
  BY DEF RepliesInv, Asking
<1>6. calls' \in Seq(Wide)
  <2>1. \A csid \in Nat, streamId \in Nat, body \in Seq(Octet8) :
           chunkedSentMsg(Message(csid, 20, streamId, body)) \in Seq(Wide)
    BY <1>5, MessageCalls
  <2> QED BY <1>1, <1>3, <1>4, <2>1, Zenon
<1>7. wb' \in Buffers /\ Inside(wb') /\ wb'.size > 4 /\ ~wb'.over
  <2>1. wb.size \in Nat
    BY <1>2, LengthIsNat
  <2> QED BY <1>1, <1>2, <2>1, reInitEmpties DEF Inside
<1>8. Asking'
  BY <1>1 DEF RepliesInv, Asking, config
<1>9. Arrays' /\ Writing' /\ BitsInBounds'
  BY <1>1, <1>2, <1>6, <1>7 DEF Arrays, Writing, BitsInBounds
<1> QED BY <1>8, <1>9 DEF RepliesInv

LEMMA writtenKeeps ==
    ASSUME RepliesInv, NEW at, NEW b, written(at, b), at # "over"
    PROVE  RepliesInv'
<1>1. /\ pc = at /\ pc' = "idle"
      /\ UNCHANGED <<config, queue, msg, calls, last, buffers, count>>
  BY DEF written
<1>2. Asking' /\ Arrays' /\ Writing' /\ BitsInBounds'
  BY <1>1 DEF RepliesInv, Asking, Arrays, Writing, BitsInBounds, config, buffers
<1> QED BY <1>2 DEF RepliesInv

\* Every step keeps the invariant.
LEMMA RepliesNextInv == RepliesInv /\ [RepliesNext]_repliesVars => RepliesInv'
<1> SUFFICES ASSUME RepliesInv, [RepliesNext]_repliesVars
             PROVE  RepliesInv'
  OBVIOUS
<1>1. CASE \/ onReadConnect \/ onReadCmd \/ onReceiveStream
           \/ \E size \in ChunkSizes \union {-1} : onSetChunkSize(size)
  BY <1>1, HandlersKeep
<1>2. CASE beginHandshake \/ beginControl \/ beginReply \/ beginTag
  BY <1>2, beginHandshakeKeeps, beginControlKeeps, beginReplyKeeps, beginTagKeeps
<1>3. CASE callOnBody \/ callOnWb \/ callOnTag \/ sendBody
  BY <1>3, callOnBodyKeeps, callOnWbKeeps, callOnTagKeeps, sendBodyKeeps
<1>4. CASE written("send", wb) \/ written("tag", tagWb)
  BY <1>4, writtenKeeps
<1>5. CASE over \/ UNCHANGED repliesVars
  <2>1. UNCHANGED repliesVars
    BY <1>5 DEF over
  <2>2. UNCHANGED <<chunkSize, outChunkSize, isConnected, queue, pc, msg, calls, last,
                    wp, wb, tagWb, count>>
    BY <2>1 DEF repliesVars, config, buffers
  <2> QED BY <2>2 DEF RepliesInv, Asking, Arrays, Writing, BitsInBounds
<1> QED BY <1>1, <1>2, <1>3, <1>4, <1>5 DEF RepliesNext

THEOREM RepliesInvHolds == RepliesSpec => []RepliesInv
BY RepliesInitInv, RepliesNextInv, PTL DEF RepliesSpec

\* What is written stays a buffer of bytes, and what is said of the
\* connection stays what a handler may have said.
THEOREM RepliesTypeCorrect == RepliesSpec => []RepliesOK
<1>1. RepliesInv => RepliesOK
  <2> SUFFICES ASSUME RepliesInv
               PROVE  RepliesOK
    OBVIOUS
  <2>1. ASSUME NEW b \in Buffers, Inside(b)
        PROVE  Buffer(b)
    <3>1. /\ b.size \in Nat /\ b.left \in 1..8 /\ b.part \in 0..255
      BY DEF Buffers, Octet8
    <3>2. \A i \in DOMAIN b.data : b.data[i] \in 0..255
      <4> DEFINE stored == b.data
      <4>1. stored \in Seq(Octet8)
        BY DEF Buffers
      <4> HIDE DEF stored
      <4>2. \A i \in 1..Len(stored) : stored[i] \in Octet8
        BY <4>1
      <4>3. DOMAIN stored = 1..Len(stored)
        BY <4>1
      <4> QED BY <4>2, <4>3, Zenon DEF stored, Octet8
    <3>3. b.over \/ Len(b.data) <= b.size
      BY <2>1 DEF Inside, bi_
    <3> QED BY <3>1, <3>2, <3>3 DEF Buffer
  <2>2. \A b \in {wp, wb, tagWb} : Buffer(b)
    BY <2>1 DEF RepliesInv, Arrays
  <2>3. count \in 0..MaxSent + 3
    <3>1. count \in Nat /\ queue \in Seq(Items) /\ count + Len(queue) <= MaxSent + 3
      BY DEF RepliesInv, Asking
    <3>2. Len(queue) \in Nat /\ MaxSent \in Nat
      BY <3>1, InputsAreNats
    <3> QED BY <3>1, <3>2
  <2> QED BY <2>2, <2>3 DEF RepliesInv, Asking, Writing, RepliesOK
<1> QED BY <1>1, RepliesInvHolds, PTL

\* "8 + 1, we at most write bits": doubling once makes room for whatever
\* number is written next, unless the array has no byte.
THEOREM BitsStayInside == RepliesSpec => []BitsInBounds
<1>1. RepliesInv => BitsInBounds
  BY DEF RepliesInv
<1> QED BY <1>1, RepliesInvHolds, PTL
=============================================================================
