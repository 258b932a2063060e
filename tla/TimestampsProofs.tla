-------------------------- MODULE TimestampsProofs --------------------------
(***************************************************************************)
(* The parser stays in step with a correct client, for every number of     *)
(* messages, every length and timestamp, and both kinds of clients: the    *)
(* units it has read in this turn, those it has and those on their way are *)
(* a chain in which each follows from the one before, and what the parser  *)
(* takes the next unit for is what the client sent.  The turn's beginning  *)
(* is part of this, for a turn may be undone, and so is what was           *)
(* remembered then.                                                        *)
(***************************************************************************)
EXTENDS Timestamps, ProofFacts

-----------------------------------------------------------------------------
(* Types.                                                                  *)

Kinds == {"media", "cmd"}
\* What 32 bits hold, without a sign and with one.
Unsigned == 0..2 * Half - 1
Signed == (-Half)..Half - 1

Msgs == [cs : Streams, type : 0..3, kind : Kinds, len : Nat \ {0}, ts : Nat, delta : Unsigned,
         exts : Nat, wraps : Nat, clean : BOOLEAN]
Headers == [u : {"header"}, id : Nat, k : Nat, cs : Streams, chunkType : 0..3, time : Nat,
            kind : Kinds \union {"none"}, len : Nat, streamId : {-1, 1}]
Exts == [u : {"ext"}, id : Nat, k : Nat, v : Nat]
Pieces == [u : {"piece"}, id : Nat, k : Nat]
AllUnits == Headers \union Exts \union Pieces
Long == {v \in Nat : v >= Limit}
Contexts == [set : BOOLEAN, timestamp : Int, delta : Signed, chunkType : 0..3, time : Int,
             ext : Long \union {None}, kind : Kinds \union {"none"}, len : Int,
             streamId : {-1, 1}]
Bodies == Seq(AllUnits)
Parses == [cs : Streams \union {0}, kind : Kinds \union {"none"}, len : Int,
           timestamp : Int, streamId : {-1, 1}, body : Bodies]

Types ==
    /\ fmle \in BOOLEAN /\ relied \in BOOLEAN
    /\ pc \in {"recv", "turn", "header", "body", "more", "lost"}
    /\ taken \in Seq(AllUnits) /\ rb \in Seq(AllUnits) /\ wire \in Seq(AllUnits)
    /\ sent \in Seq(Msgs) /\ last \in [Streams -> 0..Len(sent)]
    /\ \A cs \in Streams : last[cs] # 0 => sent[last[cs]].cs = cs
    /\ left \in Nat /\ (left # 0 => sent # <<>> /\ left < sent[Len(sent)].len)
    /\ ctx \in [Streams -> Contexts] /\ savedCtx \in [Streams -> Contexts]
    /\ mh \in Parses /\ delivered \in Seq(Parses)
    /\ pc = "recv" => taken = <<>> /\ mh = NoMessage

-----------------------------------------------------------------------------
(* Numbers of 32 bits.                                                     *)

LEMMA HalfType == Half \in Nat \ {0} /\ Limit \in Nat \ {0} /\ Limit <= Half
BY TimestampsAssumption DEF TimestampsAssumption

LEMMA UnsignedType == \A x \in Unsigned : x \in Nat /\ x < 2 * Half
BY HalfType DEF Unsigned

LEMMA SignedType == -1 \in Signed /\ \A x \in Signed : x \in Int
BY HalfType DEF Signed

\* What is narrowed fits.
LEMMA NarrowType == ASSUME NEW x \in Int PROVE Narrow(x) \in Signed
<1>1. x + Half \in Int /\ 2 * Half \in Nat \ {0}
  BY HalfType
<1>2. PICK r \in 0..2 * Half - 1 : r = (x + Half) % (2 * Half)
  BY <1>1
<1> QED
  BY <1>2, HalfType DEF Narrow, Signed

\* What fits stays as it is, and what is less than 2^32 too large loses 2^32.
LEMMA NarrowIs ==
    ASSUME NEW x \in Nat, x < 3 * Half
    PROVE  Narrow(x) = IF x < Half THEN x ELSE x - 2 * Half
<1>1. ASSUME NEW h \in Nat, h > 0, x < h
      PROVE  ((x + h) % (2 * h)) - h = x
  BY <1>1
<1>2. ASSUME NEW h \in Nat, h > 0, h <= x, x < 3 * h
      PROVE  ((x + h) % (2 * h)) - h = x - 2 * h
  BY <1>2
<1>3. Half \in Nat /\ Half > 0
  BY HalfType
<1> QED
  BY <1>1, <1>2, <1>3 DEF Narrow

-----------------------------------------------------------------------------
(* The chain of units.                                                     *)

\* A unit of a message that was sent.
IsUnit(u) ==
    /\ u.id \in 1..Len(sent) /\ u.k \in 1..sent[u.id].len
    /\ \/ u = Header(sent[u.id], u.id, u.k)
       \/ u = Extended(sent[u.id], u.id, u.k) /\ Extends(sent[u.id], u.k)
       \/ u = Piece(u.id, u.k)

\* The place of a unit, and the one that follows.
PosOf(u) == <<u.id, u.k, u.u>>
After(u) ==
    IF u.u = "header" THEN <<u.id, u.k, IF Extends(sent[u.id], u.k) THEN "ext" ELSE "piece">>
    ELSE IF u.u = "ext" THEN <<u.id, u.k, "piece">>
    ELSE IF u.k < sent[u.id].len THEN <<u.id, u.k + 1, "header">>
    ELSE <<u.id + 1, 1, "header">>

\* What the client sends next.
EndPos ==
    IF left = 0 THEN <<Len(sent) + 1, 1, "header">>
    ELSE <<Len(sent), sent[Len(sent)].len - left + 1, "header">>

PosAt(S, i) == IF i <= Len(S) THEN PosOf(S[i]) ELSE EndPos

Chained(S) == \A i \in 1..Len(S) : IsUnit(S[i]) /\ PosAt(S, i + 1) = After(S[i])

Stream == taken \o (rb \o wire)

\* What the chain is made of.
LEMMA StreamIs ==
    ASSUME Types
    PROVE  /\ Stream \in Seq(AllUnits)
           /\ Len(taken) \in Nat /\ Len(rb) \in Nat /\ Len(wire) \in Nat
           /\ Len(Stream) = Len(taken) + Len(rb) + Len(wire)
           /\ \A i \in 1..Len(rb) : Stream[Len(taken) + i] = rb[i]
<1> DEFINE v == rb \o wire
<1>1. taken \in Seq(AllUnits) /\ rb \in Seq(AllUnits) /\ wire \in Seq(AllUnits)
  BY DEF Types
<1>2. /\ v \in Seq(AllUnits) /\ Len(v) = Len(rb) + Len(wire)
      /\ \A i \in 1..Len(rb) + Len(wire) : v[i] = IF i <= Len(rb) THEN rb[i] ELSE wire[i - Len(rb)]
  BY <1>1, ConcatProperties
<1>3. Len(taken) \in Nat /\ Len(rb) \in Nat /\ Len(wire) \in Nat
  BY <1>1
<1> HIDE DEF v
<1>4. /\ taken \o v \in Seq(AllUnits) /\ Len(taken \o v) = Len(taken) + Len(v)
      /\ \A i \in 1..Len(taken) + Len(v) :
            (taken \o v)[i] = IF i <= Len(taken) THEN taken[i] ELSE v[i - Len(taken)]
  <2>1. taken \in Seq(AllUnits) /\ v \in Seq(AllUnits)
    BY <1>1, <1>2
  <2> QED
    BY <2>1, ConcatProperties, Zenon
<1> DEFINE s == taken \o v
<1>s. /\ s \in Seq(AllUnits) /\ Len(s) = Len(taken) + Len(v)
      /\ \A i \in 1..Len(taken) + Len(v) :
            s[i] = IF i <= Len(taken) THEN taken[i] ELSE v[i - Len(taken)]
  BY <1>4
<1>5. s = Stream
  BY DEF Stream, v
<1> HIDE DEF s
<1>6. \A i \in 1..Len(rb) : s[Len(taken) + i] = rb[i]
  <2> TAKE i \in 1..Len(rb)
  <2>1. /\ Len(taken) + i \in 1..Len(taken) + Len(v) /\ ~(Len(taken) + i <= Len(taken))
        /\ (Len(taken) + i) - Len(taken) = i /\ i \in 1..Len(rb) + Len(wire) /\ i <= Len(rb)
    BY <1>2, <1>3
  <2> QED
    BY <1>2, <1>s, <2>1
<1> QED
  BY <1>2, <1>3, <1>s, <1>5, <1>6

\* Reading n units moves them from rb to taken.
LEMMA ReadKeeps ==
    ASSUME Types, NEW n \in Nat, n <= Len(rb), Read(n), wire' = wire
    PROVE  /\ Stream' = Stream
           /\ taken' \in Seq(AllUnits) /\ rb' \in Seq(AllUnits)
           /\ Len(taken') = Len(taken) + n
<1> DEFINE a == SubSeq(rb, 1, n)
           b == SubSeq(rb, n + 1, Len(rb))
<1>1. taken \in Seq(AllUnits) /\ rb \in Seq(AllUnits) /\ wire \in Seq(AllUnits)
  BY DEF Types
<1>2. taken' = taken \o a /\ rb' = b
  BY DEF Read, Drop
<1>3. (taken \o a) \o b = taken \o rb
  BY <1>1, CutMove
<1>4. a \in Seq(AllUnits) /\ b \in Seq(AllUnits) /\ Len(a) = n
  BY <1>1, CutProperties
<1> HIDE DEF a, b
<1>5. (taken \o a) \o (b \o wire) = ((taken \o a) \o b) \o wire
  <2> DEFINE t == taken \o a
  <2>1. t \in Seq(AllUnits)
    BY <1>1, <1>4, ConcatProperties
  <2> HIDE DEF t
  <2>2. t \o (b \o wire) = (t \o b) \o wire
    BY <1>1, <1>4, <2>1, ConcatAssociative, SMTT(30)
  <2> QED
    BY <2>2 DEF t
<1>6. (taken \o rb) \o wire = taken \o (rb \o wire)
  BY <1>1, ConcatAssociative
<1>7. Stream' = Stream
  BY <1>2, <1>3, <1>5, <1>6, Zenon DEF Stream
<1>8. taken \o a \in Seq(AllUnits) /\ Len(taken \o a) = Len(taken) + n
  BY <1>1, <1>4, ConcatProperties
<1> QED
  BY <1>2, <1>4, <1>7, <1>8

\* What recv() returns moves from wire to rb.
LEMMA RecvKeeps ==
    ASSUME Types, NEW n \in 1..Len(wire), recv(n)
    PROVE  Stream' = Stream /\ rb' \in Seq(AllUnits) /\ wire' \in Seq(AllUnits)
<1> DEFINE a == SubSeq(wire, 1, n)
           b == SubSeq(wire, n + 1, Len(wire))
<1>1. taken \in Seq(AllUnits) /\ rb \in Seq(AllUnits) /\ wire \in Seq(AllUnits)
  BY DEF Types
<1>2. rb' = rb \o a /\ wire' = b /\ taken' = taken
  BY DEF recv, Drop
<1>n. n \in Nat /\ n <= Len(wire)
  OBVIOUS
<1>3. (rb \o a) \o b = rb \o wire
  BY <1>1, <1>n, CutMove
<1>4. a \in Seq(AllUnits) /\ b \in Seq(AllUnits)
  BY <1>1, CutProperties
<1> HIDE DEF a, b
<1>5. Stream' = Stream
  BY <1>2, <1>3, Zenon DEF Stream
<1>6. rb \o a \in Seq(AllUnits)
  BY <1>1, <1>4, ConcatProperties
<1> QED
  BY <1>2, <1>4, <1>5, <1>6

\* A turn that is undone gives back what it has read.
LEMMA UndoKeeps ==
    ASSUME Types, NotEnough
    PROVE  Stream' = Stream /\ rb' \in Seq(AllUnits) /\ taken' = <<>>
<1>1. taken \in Seq(AllUnits) /\ rb \in Seq(AllUnits) /\ wire \in Seq(AllUnits)
  BY DEF Types
<1>2. rb' = taken \o rb /\ taken' = <<>> /\ wire' = wire
  BY DEF NotEnough
<1>3. taken \o rb \in Seq(AllUnits)
  BY <1>1, ConcatProperties
<1>4. (taken \o rb) \o wire = taken \o (rb \o wire) /\ (taken \o rb) \o wire \in Seq(AllUnits)
  BY <1>1, <1>3, ConcatAssociative, ConcatProperties
<1>5. <<>> \o ((taken \o rb) \o wire) = (taken \o rb) \o wire
  BY <1>4, ConcatEmptySeq
<1>6. Stream' = Stream
  BY <1>2, <1>4, <1>5, Zenon DEF Stream
<1> QED
  BY <1>2, <1>3, <1>6

\* At the start of a turn what was read before it leaves the chain.
LEMMA TurnKeeps ==
    ASSUME Types, taken' = <<>>, rb' = rb, wire' = wire
    PROVE  /\ Stream' \in Seq(AllUnits)
           /\ Len(Stream) = Len(taken) + Len(Stream')
           /\ \A i \in 1..Len(Stream') : Stream'[i] = Stream[Len(taken) + i]
<1> DEFINE v == rb \o wire
<1>1. taken \in Seq(AllUnits) /\ rb \in Seq(AllUnits) /\ wire \in Seq(AllUnits)
  BY DEF Types
<1>2. v \in Seq(AllUnits)
  BY <1>1, ConcatProperties
<1> HIDE DEF v
<1>3. <<>> \o v = v
  BY <1>2, ConcatEmptySeq
<1>4. Stream' = v
  <2>1. Stream' = <<>> \o v
    BY DEF Stream, v
  <2> QED
    BY <1>3, <2>1
<1>5. /\ Len(taken \o v) = Len(taken) + Len(v)
      /\ \A i \in 1..Len(taken) + Len(v) :
            (taken \o v)[i] = IF i <= Len(taken) THEN taken[i] ELSE v[i - Len(taken)]
  BY <1>1, <1>2, ConcatProperties
<1>6. Stream = taken \o v
  BY DEF Stream, v
<1> DEFINE s == taken \o v
<1>7. Len(taken) \in Nat /\ Len(v) \in Nat
  BY <1>1, <1>2
<1>8. \A i \in 1..Len(v) : s[Len(taken) + i] = v[i]
  <2> TAKE i \in 1..Len(v)
  <2>1. Len(taken) + i \in 1..Len(taken) + Len(v) /\ ~(Len(taken) + i <= Len(taken))
        /\ (Len(taken) + i) - Len(taken) = i
    BY <1>7
  <2> QED
    BY <1>5, <2>1
<1> HIDE DEF s
<1> QED
  BY <1>2, <1>4, <1>5, <1>6, <1>8 DEF s

\* The fields of a header, an extension and a piece.
LEMMA HeaderIs ==
    ASSUME NEW m \in Msgs, NEW id \in Nat, NEW k \in Nat, NEW h, h = Header(m, id, k)
    PROVE  /\ h \in Headers
           /\ h.u = "header" /\ h.id = id /\ h.k = k /\ h.cs = m.cs
           /\ h.chunkType = IF k = 1 THEN m.type ELSE 3
           /\ h.chunkType # 3 =>
                 h.time = IF IsExtended(m.delta) THEN Limit ELSE m.delta
           /\ h.chunkType < 2 => h.kind = m.kind /\ h.len = m.len
           /\ h.chunkType >= 2 => h.kind = "none"
           /\ h.chunkType = 0 => h.streamId = 1
<1> DEFINE type == IF k = 1 THEN m.type ELSE 3
           time == IF type = 3 THEN 0 ELSE IF IsExtended(m.delta) THEN Limit ELSE m.delta
           kind == IF type < 2 THEN m.kind ELSE "none"
           len == IF type < 2 THEN m.len ELSE 0
           streamId == IF type = 0 THEN 1 ELSE -1
<1>1. /\ type \in 0..3 /\ time \in Nat /\ kind \in Kinds \union {"none"} /\ len \in Nat
      /\ streamId \in {-1, 1} /\ m.cs \in Streams
  BY HalfType, UnsignedType DEF Msgs
<1>2. h = [u |-> "header", id |-> id, k |-> k, cs |-> m.cs, chunkType |-> type, time |-> time,
           kind |-> kind, len |-> len, streamId |-> streamId]
  BY Zenon DEF Header
<1> HIDE DEF type, time, kind, len, streamId
<1>3. h \in Headers
  BY <1>1, <1>2 DEF Headers
<1>4. /\ h.u = "header" /\ h.id = id /\ h.k = k /\ h.cs = m.cs /\ h.chunkType = type
      /\ h.time = time /\ h.kind = kind /\ h.len = len /\ h.streamId = streamId
  BY <1>2
<1> QED
  BY <1>1, <1>3, <1>4 DEF type, time, kind, len, streamId

LEMMA ExtIs ==
    ASSUME NEW m \in Msgs, NEW id \in Nat, NEW k \in Nat, NEW h, h = Extended(m, id, k)
    PROVE  h \in Exts /\ h.u = "ext" /\ h.id = id /\ h.k = k /\ h.v = m.delta
BY UnsignedType DEF Msgs, Extended, Exts

LEMMA PieceIs ==
    ASSUME NEW id \in Nat, NEW k \in Nat, NEW h, h = Piece(id, k)
    PROVE  h \in Pieces /\ h.u = "piece" /\ h.id = id /\ h.k = k
BY DEF Piece, Pieces

\* What a unit is says what it is called.
LEMMA UnitIs ==
    ASSUME Types, NEW u, IsUnit(u)
    PROVE  /\ u.id \in 1..Len(sent) /\ u.k \in 1..sent[u.id].len /\ sent[u.id] \in Msgs
           /\ u.id \in Nat /\ u.k \in Nat
           /\ u.u = "header" => u = Header(sent[u.id], u.id, u.k)
           /\ u.u = "ext" => u \in Exts /\ u.v = sent[u.id].delta /\ Extends(sent[u.id], u.k)
           /\ u.u = "piece" => u = Piece(u.id, u.k)
           /\ u.u \in {"header", "ext", "piece"}
<1>1. u.id \in 1..Len(sent) /\ u.k \in 1..sent[u.id].len
  BY DEF IsUnit
<1>2. sent[u.id] \in Msgs /\ u.id \in Nat /\ u.k \in Nat
  BY <1>1 DEF Types
<1>3. CASE u = Header(sent[u.id], u.id, u.k)
  <2>1. u.u = "header"
    BY <1>2, <1>3, HeaderIs
  <2> QED
    BY <1>1, <1>2, <1>3, <2>1
<1>4. CASE u = Extended(sent[u.id], u.id, u.k) /\ Extends(sent[u.id], u.k)
  <2>1. u.u = "ext" /\ u \in Exts /\ u.v = sent[u.id].delta
    BY <1>2, <1>4, ExtIs
  <2> QED
    BY <1>1, <1>2, <1>4, <2>1
<1>5. CASE u = Piece(u.id, u.k)
  <2>1. u.u = "piece"
    BY <1>2, <1>5, PieceIs
  <2> QED
    BY <1>1, <1>2, <1>5, <2>1
<1> QED
  BY <1>3, <1>4, <1>5 DEF IsUnit

\* The units of a chunk.
LEMMA ChunkIs ==
    ASSUME NEW m \in Msgs, NEW id \in Nat, NEW k \in Nat, NEW c, c = Chunk(m, id, k)
    PROVE  /\ c \in Seq(AllUnits) /\ Len(c) \in {2, 3}
           /\ Len(c) = 3 <=> Extends(m, k)
           /\ c[1] = Header(m, id, k) /\ c[Len(c)] = Piece(id, k)
           /\ Len(c) = 3 => c[2] = Extended(m, id, k)
<1> DEFINE h == Header(m, id, k)
           e == Extended(m, id, k)
           p == Piece(id, k)
<1>1. h \in AllUnits /\ e \in AllUnits /\ p \in AllUnits
  BY HeaderIs, ExtIs, PieceIs DEF AllUnits
<1>2. c = IF Extends(m, k) THEN <<h, e, p>> ELSE <<h, p>>
  BY DEF Chunk
<1> HIDE DEF h, e, p
<1>3. CASE Extends(m, k)
  <2>1. c = <<h, e, p>>
    BY <1>2, <1>3
  <2>2. c \in Seq(AllUnits) /\ Len(c) = 3 /\ c[1] = h /\ c[2] = e /\ c[3] = p
    BY <1>1, <2>1
  <2> QED
    BY <1>3, <2>2 DEF h, e, p
<1>4. CASE ~Extends(m, k)
  <2>1. c = <<h, p>>
    BY <1>2, <1>4
  <2>2. c \in Seq(AllUnits) /\ Len(c) = 2 /\ c[1] = h /\ c[2] = p
    BY <1>1, <2>1
  <2> QED
    BY <1>4, <2>2 DEF h, e, p
<1> QED
  BY <1>3, <1>4

\* The client appends chunk k of message id, m, which is what comes next.
Appends(m, id, k) ==
    /\ UNCHANGED <<fmle, taken, rb>>
    /\ wire' = wire \o Chunk(m, id, k)
    /\ sent' \in Seq(Msgs) /\ Len(sent) <= Len(sent')
    /\ \A i \in 1..Len(sent) : sent'[i] = sent[i]
    /\ id \in 1..Len(sent') /\ k \in 1..m.len /\ sent'[id] = m
    /\ EndPos = <<id, k, "header">>
    /\ EndPos' = IF k < m.len THEN <<id, k + 1, "header">> ELSE <<id + 1, 1, "header">>

\* The chain, where there was one, stays as it was.
LEMMA OldUnits ==
    ASSUME Types, NEW m \in Msgs, NEW id \in Nat, NEW k \in Nat, Appends(m, id, k),
           NEW u, IsUnit(u)
    PROVE  IsUnit(u)' /\ After(u)' = After(u) /\ PosOf(u)' = PosOf(u)
<1>1. sent'[u.id] = sent[u.id] /\ u.id \in 1..Len(sent')
  <2>1. u.id \in 1..Len(sent)
    BY DEF IsUnit
  <2>2. Len(sent) \in Nat /\ Len(sent') \in Nat /\ Len(sent) <= Len(sent')
    BY DEF Types, Appends
  <2> QED
    BY <2>1, <2>2 DEF Appends
<1>2. Extends(sent[u.id], u.k)' = Extends(sent[u.id], u.k)
  BY <1>1 DEF Extends, Appends
<1>3. /\ Header(sent[u.id], u.id, u.k)' = Header(sent[u.id], u.id, u.k)
      /\ Extended(sent[u.id], u.id, u.k)' = Extended(sent[u.id], u.id, u.k)
      /\ Piece(u.id, u.k)' = Piece(u.id, u.k)
  BY <1>1 DEF Header, Extended, Piece
<1>4. IsUnit(u)'
  BY <1>1, <1>2, <1>3 DEF IsUnit
<1>5. After(u)' = After(u)
  BY <1>1, <1>2 DEF After
<1> QED
  BY <1>4, <1>5 DEF PosOf

\* The units that are appended are a chain.
LEMMA NewUnits ==
    ASSUME Types, NEW m \in Msgs, NEW id \in Nat, NEW k \in Nat, Appends(m, id, k),
           NEW c, c = Chunk(m, id, k)
    PROVE  /\ PosOf(c[1]) = <<id, k, "header">>
           /\ \A i \in 1..Len(c) : IsUnit(c[i])'
           /\ \A i \in 1..Len(c) - 1 : PosOf(c[i + 1]) = After(c[i])'
           /\ EndPos' = After(c[Len(c)])'
<1>1. /\ Len(c) \in {2, 3} /\ (Len(c) = 3 <=> Extends(m, k))
      /\ c[1] = Header(m, id, k) /\ c[Len(c)] = Piece(id, k)
      /\ Len(c) = 3 => c[2] = Extended(m, id, k)
  BY ChunkIs
<1>2. /\ sent'[id] = m /\ id \in 1..Len(sent') /\ k \in 1..m.len /\ fmle' = fmle
      /\ EndPos' = IF k < m.len THEN <<id, k + 1, "header">> ELSE <<id + 1, 1, "header">>
  BY DEF Appends
<1>3. Extends(m, k)' = Extends(m, k)
  BY <1>2 DEF Extends
<1>4. c[1].u = "header" /\ c[1].id = id /\ c[1].k = k
  BY <1>1, HeaderIs
<1>5. IsUnit(c[1])' /\ After(c[1])' = <<id, k, IF Extends(m, k) THEN "ext" ELSE "piece">>
  BY <1>1, <1>2, <1>3, <1>4 DEF IsUnit, After, Header
<1>6. c[Len(c)].u = "piece" /\ c[Len(c)].id = id /\ c[Len(c)].k = k
  BY <1>1, PieceIs
<1>7. IsUnit(c[Len(c)])' /\ After(c[Len(c)])' = EndPos'
  BY <1>1, <1>2, <1>6 DEF IsUnit, After, Piece
<1>8. ASSUME Extends(m, k)
      PROVE  /\ c[2].u = "ext" /\ c[2].id = id /\ c[2].k = k
             /\ IsUnit(c[2])' /\ After(c[2])' = <<id, k, "piece">>
  <2>1. c[2] = Extended(m, id, k)
    BY <1>1, <1>8
  <2>2. c[2].u = "ext" /\ c[2].id = id /\ c[2].k = k
    BY <2>1, ExtIs
  <2> QED
    BY <1>2, <1>3, <1>8, <2>1, <2>2 DEF IsUnit, After, Extended
<1>9. CASE Extends(m, k)
  <2>1. Len(c) = 3
    BY <1>1, <1>9
  <2>2. \A i \in 1..3 : i = 1 \/ i = 2 \/ i = 3
    OBVIOUS
  <2>3. \A i \in 1..3 - 1 : i = 1 \/ i = 2
    OBVIOUS
  <2>4. \A i \in 1..Len(c) : IsUnit(c[i])'
    BY <1>5, <1>7, <1>8, <1>9, <2>1, <2>2
  <2>5. \A i \in 1..Len(c) - 1 : PosOf(c[i + 1]) = After(c[i])'
    <3> TAKE i \in 1..Len(c) - 1
    <3>1. CASE i = 1
      <4>1. i + 1 = 2
        BY <3>1
      <4> QED
        BY <1>5, <1>8, <1>9, <3>1, <4>1 DEF PosOf
    <3>2. CASE i = 2
      <4>1. i + 1 = 3
        BY <3>2
      <4> QED
        BY <1>6, <1>8, <1>9, <2>1, <3>2, <4>1 DEF PosOf
    <3> QED
      BY <2>1, <2>3, <3>1, <3>2
  <2> QED
    BY <1>4, <1>7, <2>4, <2>5 DEF PosOf
<1>10. CASE ~Extends(m, k)
  <2>1. Len(c) = 2
    BY <1>1, <1>10
  <2>2. \A i \in 1..2 : i = 1 \/ i = 2
    OBVIOUS
  <2>3. \A i \in 1..2 - 1 : i = 1 /\ i + 1 = 2
    OBVIOUS
  <2>4. \A i \in 1..Len(c) : IsUnit(c[i])'
    BY <1>5, <1>7, <2>1, <2>2
  <2>5. \A i \in 1..Len(c) - 1 : PosOf(c[i + 1]) = After(c[i])'
    BY <1>5, <1>6, <1>10, <2>1, <2>3 DEF PosOf
  <2> QED
    BY <1>4, <1>7, <2>4, <2>5 DEF PosOf
<1> QED
  BY <1>9, <1>10

\* Then all of it is a chain, and what was next to read is still so.
LEMMA ClientChains ==
    ASSUME Types, Chained(Stream), NEW m \in Msgs, NEW id \in Nat, NEW k \in Nat,
           Appends(m, id, k)
    PROVE  /\ Chained(Stream)' /\ wire' \in Seq(AllUnits)
           /\ \A i \in 1..Len(Stream) + 1 : PosAt(Stream, i)' = PosAt(Stream, i)
<1>s. PICK s : s = Stream
  OBVIOUS
<1>c. PICK c : c = Chunk(m, id, k)
  OBVIOUS
<1>t. PICK t : t = Stream'
  OBVIOUS
<1>1. taken \in Seq(AllUnits) /\ rb \in Seq(AllUnits) /\ wire \in Seq(AllUnits)
  BY DEF Types
<1>2. c \in Seq(AllUnits) /\ Len(c) \in {2, 3}
  BY <1>c, ChunkIs
<1>3. s \in Seq(AllUnits)
  BY <1>s, StreamIs
<1>4. wire' = wire \o c /\ taken' = taken /\ rb' = rb
  BY <1>c DEF Appends
<1>5. t = s \o c
  <2>0. \A x, y, z \in Seq(AllUnits) : x \o (y \o z) = (x \o y) \o z
    BY ConcatAssociative
  <2>1. c \in Seq(AllUnits)
    BY <1>2
  <2> DEFINE r == rb \o wire
  <2>2. r \in Seq(AllUnits)
    BY <1>1, ConcatProperties
  <2>3. rb \o (wire \o c) = r \o c
    BY <1>1, <2>0, <2>1, Zenon
  <2>4. t = taken \o (r \o c) /\ s = taken \o r
    BY <1>4, <1>s, <1>t, <2>3 DEF Stream
  <2>5. taken \in Seq(AllUnits)
    BY <1>1
  <2> HIDE DEF r
  <2>6. taken \o (r \o c) = (taken \o r) \o c
    BY <2>0, <2>1, <2>2, <2>5, Zenon
  <2> QED
    BY <2>4, <2>6
<1>6. wire' \in Seq(AllUnits)
  BY <1>1, <1>2, <1>4, ConcatProperties
<1>7. /\ s \o c \in Seq(AllUnits) /\ Len(s \o c) = Len(s) + Len(c)
      /\ \A i \in 1..Len(s) + Len(c) :
            (s \o c)[i] = IF i <= Len(s) THEN s[i] ELSE c[i - Len(s)]
  BY <1>2, <1>3, ConcatProperties
<1> DEFINE N == Len(s)
           n == Len(c)
<1>8. N \in Nat /\ n \in {2, 3}
  BY <1>2, <1>3
<1>9. Len(t) = N + n /\ \A i \in 1..N + n : t[i] = IF i <= N THEN s[i] ELSE c[i - N]
  BY <1>5, <1>7
<1>10. /\ \A i \in 1..N : IsUnit(s[i])
       /\ \A i \in 1..N - 1 : PosOf(s[i + 1]) = After(s[i])
       /\ N # 0 => EndPos = After(s[N])
  <2>0. Chained(s)
    BY <1>s
  <2>1. \A i \in 1..N - 1 : i \in 1..N /\ i + 1 <= Len(s)
    BY <1>8
  <2>2. N # 0 => N \in 1..Len(s) /\ ~(N + 1 <= Len(s))
    BY <1>8
  <2> QED
    BY <2>0, <2>1, <2>2 DEF Chained, PosAt
<1>11. /\ PosOf(c[1]) = <<id, k, "header">>
       /\ \A i \in 1..n : IsUnit(c[i])'
       /\ \A i \in 1..n - 1 : PosOf(c[i + 1]) = After(c[i])'
       /\ EndPos' = After(c[n])'
  BY <1>c, NewUnits DEF n
<1>12. EndPos = <<id, k, "header">>
  BY DEF Appends
<1>13. \A i \in 1..N : IsUnit(s[i])' /\ After(s[i])' = After(s[i])
  BY <1>10, OldUnits
<1> HIDE DEF N, n
<1> DEFINE Next1(i) == IF i + 1 <= Len(t) THEN PosOf(t[i + 1]) ELSE EndPos'
<1>14. \A i \in 1..N + n : IsUnit(t[i])' /\ Next1(i) = After(t[i])'
  <2> TAKE i \in 1..N + n
  <2>1. CASE i < N
    <3>1. i \in 1..N - 1 /\ i \in 1..N /\ i + 1 \in 1..N + n /\ i + 1 <= N /\ i <= N
      BY <1>8, <2>1
    <3>2. t[i] = s[i] /\ t[i + 1] = s[i + 1] /\ i + 1 <= Len(t)
      BY <1>9, <3>1
    <3> QED
      BY <1>10, <1>13, <3>1, <3>2
  <2>2. CASE i = N
    <3>1. i \in 1..N /\ i + 1 \in 1..N + n /\ ~(i + 1 <= N) /\ (i + 1) - N = 1 /\ i <= N /\ N # 0
      BY <1>8, <2>2
    <3>2. t[i] = s[i] /\ i + 1 <= Len(t)
      BY <1>9, <3>1
    <3>3. t[i + 1] = c[1]
      <4>1. t[i + 1] = c[(i + 1) - N]
        BY <1>9, <3>1
      <4> QED
        BY <3>1, <4>1
    <3> QED
      BY <1>10, <1>11, <1>12, <1>13, <2>2, <3>1, <3>2, <3>3
  <2>3. CASE i > N /\ i < N + n
    <3>1. /\ ~(i <= N) /\ i - N \in 1..n - 1 /\ i - N \in 1..n /\ i + 1 \in 1..N + n
          /\ ~(i + 1 <= N) /\ (i + 1) - N = (i - N) + 1
      BY <1>8, <2>3
    <3>2. t[i] = c[i - N] /\ t[i + 1] = c[(i - N) + 1] /\ i + 1 <= Len(t)
      BY <1>9, <3>1
    <3> QED
      BY <1>11, <3>1, <3>2
  <2>4. CASE i = N + n
    <3>1. ~(i <= N) /\ i - N = n /\ n \in 1..n /\ ~(i + 1 <= N + n)
      BY <1>8, <2>4
    <3>2. t[i] = c[n] /\ ~(i + 1 <= Len(t))
      BY <1>9, <3>1
    <3> QED
      BY <1>11, <3>1, <3>2
  <2> QED
    BY <1>8, <2>1, <2>2, <2>3, <2>4
<1>15. Chained(Stream)'
  BY <1>t, <1>9, <1>14 DEF Chained, PosAt, PosOf
<1>16. \A i \in 1..N + 1 : (IF i <= Len(t) THEN PosOf(t[i]) ELSE EndPos')
                           = (IF i <= N THEN PosOf(s[i]) ELSE EndPos)
  <2> TAKE i \in 1..N + 1
  <2>1. i \in 1..N + n /\ i <= Len(t)
    BY <1>8, <1>9
  <2>2. CASE i <= N
    BY <1>9, <2>1, <2>2
  <2>3. CASE i = N + 1
    <3>1. ~(i <= N) /\ i - N = 1
      BY <1>8, <2>3
    <3>2. t[i] = c[1]
      BY <1>9, <2>1, <3>1
    <3> QED
      BY <1>11, <1>12, <2>1, <3>1, <3>2
  <2> QED
    BY <1>8, <2>2, <2>3
<1>17. \A i \in 1..Len(Stream) + 1 : PosAt(Stream, i)' = PosAt(Stream, i)
  BY <1>s, <1>t, <1>16 DEF PosAt, PosOf, N
<1> QED
  BY <1>6, <1>15, <1>17

\* The parser's steps that only move units.
LEMMA ChainSame ==
    ASSUME Chained(Stream), Stream' = Stream, UNCHANGED <<fmle, left, sent>>
    PROVE  Chained(Stream)' /\ \A i : PosAt(Stream, i)' = PosAt(Stream, i)
<1>1. PICK s : s = Stream
  OBVIOUS
<1>a. \A u : (IsUnit(u)' <=> IsUnit(u)) /\ After(u)' = After(u) /\ EndPos' = EndPos
  BY DEF IsUnit, After, EndPos, Header, Extended, Extends, Piece
<1>b. \A i : PosAt(s, i)' = PosAt(s, i)
  BY <1>a DEF PosAt, PosOf
<1>c. Chained(s)'
  <2> SUFFICES ASSUME NEW i \in 1..Len(s) PROVE IsUnit(s[i])' /\ PosAt(s, i + 1)' = After(s[i])'
    BY DEF Chained
  <2>1. IsUnit(s[i]) /\ PosAt(s, i + 1) = After(s[i])
    BY <1>1 DEF Chained
  <2> QED
    BY <1>a, <1>b, <2>1
<1>2. Chained(s)' /\ \A i : PosAt(s, i)' = PosAt(s, i)
  BY <1>b, <1>c
<1>3. s = Stream'
  BY <1>1
<1> QED
  BY <1>1, <1>2, <1>3

LEMMA ChainTurn ==
    ASSUME Types, Chained(Stream), startTurn
    PROVE  /\ Chained(Stream)'
           /\ PosAt(Stream, 1)' = PosAt(Stream, Len(taken) + 1)
<1>1. PICK s : s = Stream
  OBVIOUS
<1>2. PICK t : t = Stream'
  OBVIOUS
<1>3. /\ UNCHANGED <<fmle, left, sent>>
      /\ taken' = <<>> /\ rb' = rb /\ wire' = wire
  BY DEF startTurn, client
<1>4. PICK n \in Nat : n = Len(taken)
  BY DEF Types
<1>5. /\ s \in Seq(AllUnits) /\ t \in Seq(AllUnits) /\ Len(s) = n + Len(t)
      /\ \A i \in 1..Len(t) : t[i] = s[n + i]
  BY <1>1, <1>2, <1>3, <1>4, StreamIs, TurnKeeps
<1>6. Len(t) \in Nat
  BY <1>5
<1>7. \A u : (IsUnit(u)' <=> IsUnit(u)) /\ After(u)' = After(u) /\ EndPos' = EndPos
  BY <1>3 DEF IsUnit, After, EndPos, Header, Extended, Extends, Piece
<1>8. \A i \in 1..Len(t) + 1 : PosAt(t, i) = PosAt(s, n + i)
  <2> TAKE i \in 1..Len(t) + 1
  <2>1. CASE i <= Len(t)
    <3>1. i \in 1..Len(t) /\ n + i <= Len(s)
      BY <1>5, <1>6, <2>1
    <3> QED
      BY <1>5, <2>1, <3>1 DEF PosAt
  <2>2. CASE ~(i <= Len(t))
    <3>1. ~(n + i <= Len(s))
      BY <1>5, <1>6, <2>2
    <3> QED
      BY <2>2, <3>1 DEF PosAt
  <2> QED
    BY <2>1, <2>2
<1>9. \A i : PosAt(t, i)' = PosAt(t, i)
  BY <1>7 DEF PosAt, PosOf
<1>10. Chained(s)
  BY <1>1
<1>11. \A i \in 1..Len(t) : IsUnit(t[i])' /\ PosAt(t, i + 1)' = After(t[i])'
  <2> TAKE i \in 1..Len(t)
  <2>1. n + i \in 1..Len(s) /\ i + 1 \in 1..Len(t) + 1 /\ n + (i + 1) = (n + i) + 1
    BY <1>5, <1>6
  <2>2. IsUnit(s[n + i]) /\ PosAt(s, (n + i) + 1) = After(s[n + i])
    BY <1>10, <2>1 DEF Chained
  <2>3. t[i] = s[n + i]
    BY <1>5
  <2>4. PosAt(t, i + 1) = PosAt(s, (n + i) + 1)
    BY <1>8, <2>1
  <2> QED
    BY <1>7, <1>9, <2>2, <2>3, <2>4
<1>12. Chained(t)'
  BY <1>11 DEF Chained
<1>13. PosAt(t, 1)' = PosAt(s, n + 1)
  <2>1. 1 \in 1..Len(t) + 1
    BY <1>6
  <2> QED
    BY <1>8, <1>9, <2>1
<1> QED
  BY <1>1, <1>2, <1>4, <1>12, <1>13

\* The unit in front of the parser, and the one behind it.
LEMMA Ahead ==
    ASSUME Types, Chained(Stream), rb # <<>>
    PROVE  /\ hd = rb[1] /\ IsUnit(hd) /\ Len(rb) \in Nat /\ Len(rb) >= 1
           /\ PosAt(Stream, Len(taken) + 1) = PosOf(hd)
           /\ PosAt(Stream, Len(taken) + 2) = After(hd)
           /\ Len(rb) >= 2 => IsUnit(rb[2]) /\ PosOf(rb[2]) = After(hd)
<1>1. PICK s : s = Stream
  OBVIOUS
<1>2. PICK n \in Nat : n = Len(taken)
  BY DEF Types
<1>3. /\ s \in Seq(AllUnits) /\ Len(rb) \in Nat /\ Len(s) >= n + Len(rb)
      /\ \A i \in 1..Len(rb) : s[n + i] = rb[i]
  BY <1>1, <1>2, StreamIs
<1>4. rb \in Seq(AllUnits) /\ Len(rb) >= 1 /\ hd = rb[1]
  BY DEF Types, hd
<1>5. s[n + 1] = rb[1] /\ n + 1 \in 1..Len(s) /\ n + 1 <= Len(s) /\ (n + 1) + 1 = n + 2
  BY <1>3, <1>4
<1>6. IsUnit(s[n + 1]) /\ PosAt(s, n + 2) = After(s[n + 1])
  BY <1>1, <1>5 DEF Chained
<1>7. PosAt(s, n + 1) = PosOf(s[n + 1])
  BY <1>5 DEF PosAt
<1>8. ASSUME Len(rb) >= 2
      PROVE  IsUnit(rb[2]) /\ PosOf(rb[2]) = After(hd)
  <2>1. 2 \in 1..Len(rb) /\ s[n + 2] = rb[2] /\ n + 2 \in 1..Len(s) /\ n + 2 <= Len(s)
    BY <1>3, <1>8
  <2>2. IsUnit(s[n + 2])
    BY <1>1, <2>1 DEF Chained
  <2>3. PosAt(s, n + 2) = PosOf(s[n + 2])
    BY <2>1 DEF PosAt
  <2> QED
    BY <1>4, <1>5, <1>6, <2>1, <2>2, <2>3
<1> QED
  BY <1>1, <1>2, <1>3, <1>4, <1>5, <1>6, <1>7, <1>8

\* A header in front of the parser is one that the client sent.
LEMMA HeaderAhead ==
    ASSUME Types, Chained(Stream), rb # <<>>, IsHeader
    PROVE  /\ hd \in Headers /\ hd.id \in 1..Len(sent) /\ hd.k \in 1..sent[hd.id].len
           /\ hd.id \in Nat /\ hd.k \in Nat /\ sent[hd.id] \in Msgs
           /\ hd = Header(sent[hd.id], hd.id, hd.k)
<1>1. IsUnit(hd) /\ hd.u = "header"
  BY Ahead DEF IsHeader
<1>2. /\ hd.id \in 1..Len(sent) /\ hd.k \in 1..sent[hd.id].len
      /\ hd.id \in Nat /\ hd.k \in Nat /\ sent[hd.id] \in Msgs
      /\ hd = Header(sent[hd.id], hd.id, hd.k)
  BY <1>1, UnitIs
<1> QED
  BY <1>2, HeaderIs

\* What is behind a header, as far as the buffer reaches.
LEMMA Behind ==
    ASSUME Types, Chained(Stream), rb # <<>>, IsHeader, Len(rb) >= 2
    PROVE  LET m == sent[hd.id]
           IN  IF Extends(m, hd.k) THEN rb[2].u = "ext" /\ rb[2].v = m.delta
               ELSE rb[2].u = "piece"
<1> DEFINE m == sent[hd.id]
<1>1. IsUnit(rb[2]) /\ PosOf(rb[2]) = After(hd) /\ hd.u = "header"
  BY Ahead DEF IsHeader
<1>2. /\ rb[2].id = hd.id
      /\ rb[2].u = IF Extends(m, hd.k) THEN "ext" ELSE "piece"
  BY <1>1 DEF PosOf, After
<1>3. rb[2].u = "ext" => rb[2].v = sent[rb[2].id].delta
  BY <1>1, UnitIs
<1> QED
  BY <1>2, <1>3

\* A header that is said to be extended is, by a value that does not fit
\* into it.
LEMMA ExtThere ==
    ASSUME Types, Chained(Stream), rb # <<>>, IsHeader, HeaderThere(hd), HasExt(hd)
    PROVE  Len(rb) >= 2 /\ rb[2].u = "ext" /\ rb[2].v \in Long
<1>1. Len(rb) >= 2 /\ Len(rb) \in Nat
  BY Ahead DEF HeaderThere
<1>2. /\ hd \in Headers /\ hd.k \in Nat /\ hd.id \in Nat /\ sent[hd.id] \in Msgs
      /\ hd = Header(sent[hd.id], hd.id, hd.k)
  BY HeaderAhead
<1>3. CASE Peeks(hd)
  <2>1. rb[2].u = "ext" /\ rb[2].v = ctx[hd.cs].ext /\ ctx[hd.cs].ext # None
    BY <1>3 DEF HasExt, SeenAgain, Peeks
  <2>2. hd.cs \in Streams
    BY <1>2 DEF Headers
  <2>3. ctx[hd.cs] \in Contexts
    BY <2>2 DEF Types
  <2>4. ctx[hd.cs].ext \in Long \union {None}
    BY <2>3 DEF Contexts
  <2> QED
    BY <1>1, <2>1, <2>4
<1>4. CASE ~Peeks(hd)
  <2> DEFINE m == sent[hd.id]
  <2>1. hd.chunkType # 3 /\ hd.time = Limit
    BY <1>4 DEF HasExt
  <2>2. /\ hd.chunkType = IF hd.k = 1 THEN m.type ELSE 3
        /\ hd.time = IF IsExtended(m.delta) THEN Limit ELSE m.delta
    BY <1>2, <2>1, HeaderIs
  <2>3. m.delta \in Nat
    BY <1>2, UnsignedType DEF Msgs
  <2>4. IsExtended(m.delta) /\ m.delta \in Long
    BY <2>1, <2>2, <2>3, TimestampsAssumption DEF IsExtended, Long, TimestampsAssumption
  <2>5. Extends(m, hd.k)
    BY <2>1, <2>2, <2>4 DEF Extends
  <2> QED
    BY <1>1, <2>4, <2>5, Behind
<1> QED
  BY <1>3, <1>4

-----------------------------------------------------------------------------
(* Type correctness.                                                       *)

\* What a header says of its time and its extension is well-typed.
LEMMA TimeTyped ==
    ASSUME Types, Chained(Stream), rb # <<>>, IsHeader, HeaderThere(hd)
    PROVE  Time(hd) \in Int /\ Ext(hd) \in Long \union {None}
<1>1. hd \in Headers
  BY HeaderAhead
<1>2. hd.time \in Nat
  BY <1>1 DEF Headers
<1>3. CASE HasExt(hd)
  <2>1. rb[2].v \in Long
    BY <1>3, ExtThere
  <2> QED
    BY <1>3, <2>1, TimestampsAssumption DEF Time, Ext, Long, TimestampsAssumption
<1>4. CASE ~HasExt(hd)
  BY <1>2, <1>4 DEF Time, Ext
<1> QED
  BY <1>3, <1>4

\* The fields of a context, one by one.
LEMMA ContextIs ==
    ASSUME NEW c \in Contexts
    PROVE  /\ c.set \in BOOLEAN /\ c.timestamp \in Int /\ c.delta \in Signed /\ c.chunkType \in 0..3
           /\ c.time \in Int /\ c.ext \in Long \union {None} /\ c.kind \in Kinds \union {"none"}
           /\ c.len \in Int /\ c.streamId \in {-1, 1}
BY DEF Contexts

LEMMA PrevTyped ==
    ASSUME Types, Chained(Stream), rb # <<>>, IsHeader, HeaderThere(hd)
    PROVE  Prev(hd) \in Contexts
<1> DEFINE len == IF hd.chunkType < 2 THEN hd.len ELSE -1
           time == Time(hd)
           ext == Ext(hd)
<1>1. hd \in Headers
  BY HeaderAhead
<1>2. /\ hd.cs \in Streams /\ hd.chunkType \in 0..3 /\ hd.kind \in Kinds \union {"none"}
      /\ len \in Int
  BY <1>1 DEF Headers
<1>3. time \in Int /\ ext \in Long \union {None}
  BY TimeTyped
<1>4. ctx[hd.cs] \in Contexts
  BY <1>2 DEF Types
<1> DEFINE new == [set |-> FALSE, timestamp |-> -1, delta |-> -1, chunkType |-> hd.chunkType,
                   time |-> time, ext |-> ext, kind |-> hd.kind, len |-> len, streamId |-> -1]
<1>5. Prev(hd) = IF ctx[hd.cs].set THEN ctx[hd.cs] ELSE new
  BY DEF Prev
<1> HIDE DEF len, time, ext
<1>6. new \in Contexts
  BY <1>2, <1>3, SignedType DEF Contexts
<1> HIDE DEF new
<1> QED
  BY <1>4, <1>5, <1>6

\* What is remembered of a header is a context, and what is begun a message.
LEMMA ContextTyped ==
    ASSUME Types, Chained(Stream), rb # <<>>, IsHeader, HeaderThere(hd)
    PROVE  Context(hd) \in Contexts /\ Begun(hd, Context(hd)) \in Parses
<1> DEFINE prev == Prev(hd)
           delta == TimestampDelta(hd, prev)
           sum == prev.timestamp + delta
           time == IF hd.chunkType = 0 THEN Time(hd) ELSE sum
           ext == IF hd.chunkType = 3 /\ ~HasExt(hd) THEN prev.ext ELSE Ext(hd)
           kind == IF OwnKind(hd) THEN hd.kind ELSE prev.kind
           len == IF OwnKind(hd) THEN hd.len ELSE prev.len
           streamId == IF hd.chunkType = 0 THEN hd.streamId ELSE prev.streamId
           c == [set |-> TRUE, delta |-> delta, timestamp |-> time, chunkType |-> hd.chunkType,
                 time |-> time, ext |-> ext, kind |-> kind, len |-> len, streamId |-> streamId]
<1>1. hd \in Headers
  BY HeaderAhead
<1>2. /\ hd.cs \in Streams /\ hd.chunkType \in 0..3 /\ hd.kind \in Kinds \union {"none"}
      /\ hd.len \in Nat /\ hd.streamId \in {-1, 1}
  BY <1>1 DEF Headers
<1>3. Time(hd) \in Int /\ Ext(hd) \in Long \union {None}
  BY TimeTyped
<1>4. prev \in Contexts
  BY PrevTyped
<1>5. Context(hd) = c
  BY DEF Context
<1> HIDE DEF prev
<1>6. /\ prev.timestamp \in Int /\ prev.delta \in Signed /\ prev.time \in Int
      /\ prev.ext \in Long \union {None} /\ prev.kind \in Kinds \union {"none"}
      /\ prev.len \in Int /\ prev.streamId \in {-1, 1}
  BY <1>4, ContextIs
<1>7. delta \in Signed /\ delta \in Int
  BY <1>3, <1>6, NarrowType, SignedType DEF TimestampDelta
<1> HIDE DEF delta
<1>8. time \in Int
  BY <1>3, <1>6, <1>7
<1>9. ext \in Long \union {None} /\ kind \in Kinds \union {"none"} /\ len \in Int
      /\ streamId \in {-1, 1}
  BY <1>2, <1>3, <1>6
<1> HIDE DEF time, ext, kind, len, streamId
<1>10. c \in Contexts
  BY <1>2, <1>7, <1>8, <1>9 DEF Contexts
<1> DEFINE b == [cs |-> hd.cs, kind |-> kind, len |-> len, timestamp |-> time,
                 streamId |-> streamId, body |-> <<>>]
<1>11. Begun(hd, c) = b
  BY DEF Begun
<1>12. <<>> \in Bodies
  BY DEF Bodies
<1>13. b \in Parses
  BY <1>2, <1>8, <1>9, <1>12 DEF Parses
<1> QED
  BY <1>5, <1>10, <1>11, <1>13

LEMMA OwnTyped ==
    ASSUME Types, Chained(Stream), rb # <<>>, IsHeader, HeaderThere(hd)
    PROVE  Begun(hd, Own(hd)) \in Parses
<1>1. hd \in Headers
  BY HeaderAhead
<1>2. /\ hd.cs \in Streams /\ hd.kind \in Kinds \union {"none"}
      /\ hd.len \in Nat /\ hd.streamId \in {-1, 1}
  BY <1>1 DEF Headers
<1> DEFINE time == Time(hd)
<1>3. time \in Int /\ <<>> \in Bodies
  BY TimeTyped DEF Bodies
<1> DEFINE b == [cs |-> hd.cs, kind |-> hd.kind, len |-> hd.len, timestamp |-> time,
                 streamId |-> hd.streamId, body |-> <<>>]
<1>4. Begun(hd, Own(hd)) = b
  BY DEF Begun, Own
<1> HIDE DEF time
<1>5. b \in Parses
  BY <1>2, <1>3 DEF Parses
<1> QED
  BY <1>4, <1>5

LEMMA NoMessageTyped == NoMessage \in Parses
<1>1. <<>> \in Bodies
  BY DEF Bodies
<1> QED
  BY <1>1 DEF NoMessage, Parses

LEMMA NoContextTyped == NoContext \in Contexts
BY SignedType DEF NoContext, Contexts

\* A message that the client may send next.
Fits(m) ==
    \/ m.type = 0 /\ m = Absolute(m.cs, m.kind, m.len, m.delta)
    \/ /\ m.type \in 1..3 /\ last[m.cs] # 0
       /\ m = Relative(sent[last[m.cs]], m.type, m.kind, m.len, m.delta)
       /\ m.type \in {2, 3} => m.kind = sent[last[m.cs]].kind /\ m.len = sent[last[m.cs]].len
       /\ m.type = 3 => m.delta = sent[last[m.cs]].delta

LEMMA ExtensionsType == ASSUME NEW time PROVE Extensions(time) \in {0, 1}
BY DEF Extensions

LEMMA WrapsType == ASSUME NEW time PROVE Wraps(time) \in {0, 1}
BY DEF Wraps

LEMMA AbsoluteIs ==
    ASSUME NEW cs \in Streams, NEW kind \in Kinds, NEW len \in Nat \ {0}, NEW time \in Unsigned,
           NEW m, m = Absolute(cs, kind, len, time)
    PROVE  /\ m \in Msgs /\ m.cs = cs /\ m.type = 0 /\ m.kind = kind /\ m.len = len
           /\ m.delta = time /\ m.ts = time /\ m.exts = Extensions(time) /\ m.wraps = 0
           /\ m.clean = (kind = "media")
<1>1. Extensions(time) \in Nat /\ time \in Nat
  BY ExtensionsType, UnsignedType
<1> QED
  BY <1>1 DEF Absolute, Msgs

\* What the client begins.
LEMMA BeginIs ==
    ASSUME Types, NEW cs \in Streams, ClientBegin(cs)
    PROVE  MaySend /\ left = 0 /\ \E m \in Msgs : Begin(m) /\ Fits(m)
<1>a. Lengths \subseteq Nat \ {0} /\ Times \subseteq Unsigned /\ Deltas \subseteq Unsigned
  BY TimestampsAssumption DEF TimestampsAssumption, Unsigned
<1>1. ASSUME NEW kind \in Kinds, NEW len \in Lengths, NEW time \in Times,
             Begin(Absolute(cs, kind, len, time))
      PROVE  \E m \in Msgs : Begin(m) /\ Fits(m)
  <2> PICK m : m = Absolute(cs, kind, len, time)
    OBVIOUS
  <2>1. /\ m \in Msgs /\ m.cs = cs /\ m.type = 0 /\ m.kind = kind /\ m.len = len
        /\ m.delta = time
    BY <1>a, AbsoluteIs
  <2>2. Fits(m)
    BY <2>1 DEF Fits
  <2> QED
    BY <1>1, <2>1, <2>2
<1> DEFINE l == sent[last[cs]]
<1>2. ASSUME last[cs] # 0 PROVE l \in Msgs /\ l.cs = cs /\ last[cs] \in Nat
  BY <1>2 DEF Types
<1>3. ASSUME last[cs] # 0, NEW type \in 1..3, NEW kind \in Kinds, NEW len \in Nat \ {0},
             NEW time \in Unsigned, Begin(Relative(l, type, kind, len, time)),
             type \in {2, 3} => kind = l.kind /\ len = l.len,
             type = 3 => time = l.delta
      PROVE  \E m \in Msgs : Begin(m) /\ Fits(m)
  <2> PICK m : m = Relative(l, type, kind, len, time)
    OBVIOUS
  <2>0. l \in Msgs /\ l.cs = cs /\ type \in 0..3
    BY <1>2, <1>3
  <2> HIDE DEF l
  <2>1. /\ m \in Msgs /\ m.cs = cs /\ m.type = type /\ m.kind = kind /\ m.len = len
        /\ m.delta = time
    <3> DEFINE ts == l.ts + time
               exts == l.exts + Extensions(time)
               wraps == l.wraps + Wraps(time)
               clean == l.clean /\ kind = "media"
    <3>1. ts \in Nat /\ exts \in Nat /\ wraps \in Nat /\ clean \in BOOLEAN /\ l.cs \in Streams
      BY <1>3, <2>0, ExtensionsType, WrapsType, UnsignedType DEF Msgs
    <3>2. m = [cs |-> l.cs, type |-> type, kind |-> kind, len |-> len, ts |-> ts,
               delta |-> time, exts |-> exts, wraps |-> wraps, clean |-> clean]
      BY DEF Relative
    <3> HIDE DEF ts, exts, wraps, clean
    <3> QED
      BY <1>3, <2>0, <3>1, <3>2 DEF Msgs
  <2>2. Fits(m)
    BY <1>3, <2>1 DEF Fits, l
  <2> QED
    BY <1>3, <2>1, <2>2 DEF l
<1>4. CASE last[cs] # 0
  <2>1. l \in Msgs /\ l.kind \in Kinds /\ l.len \in Nat \ {0} /\ l.delta \in Unsigned
    BY <1>2, <1>4 DEF Msgs
  <2> HIDE DEF l
  <2>2. ASSUME NEW kind \in Kinds, NEW len \in Lengths, NEW time \in Deltas,
               Begin(Relative(l, 1, kind, len, time))
        PROVE  \E m \in Msgs : Begin(m) /\ Fits(m)
    BY <1>a, <1>3, <1>4, <2>2
  <2>3. ASSUME NEW time \in Deltas, Begin(Relative(l, 2, l.kind, l.len, time))
        PROVE  \E m \in Msgs : Begin(m) /\ Fits(m)
    BY <1>a, <1>3, <1>4, <2>1, <2>3
  <2>4. ASSUME Begin(Relative(l, 3, l.kind, l.len, l.delta))
        PROVE  \E m \in Msgs : Begin(m) /\ Fits(m)
    BY <1>3, <1>4, <2>1, <2>4
  <2> QED
    BY <1>1, <2>2, <2>3, <2>4 DEF ClientBegin, Kinds, l
<1>5. CASE last[cs] = 0
  BY <1>1, <1>5 DEF ClientBegin, Kinds
<1> QED
  BY <1>4, <1>5 DEF ClientBegin

LEMMA BeginAppends ==
    ASSUME Types, left = 0, NEW m \in Msgs, Begin(m)
    PROVE  /\ Appends(m, Len(sent) + 1, 1)
           /\ sent' \in Seq(Msgs) /\ Len(sent') = Len(sent) + 1 /\ sent'[Len(sent) + 1] = m
           /\ \A i \in 1..Len(sent) : sent'[i] = sent[i]
           /\ Len(sent) \in Nat
<1>1. sent \in Seq(Msgs) /\ Len(sent) \in Nat
  BY DEF Types
<1>2. /\ sent' = Append(sent, m) /\ left' = m.len - 1 /\ wire' = wire \o Chunk(m, Len(sent) + 1, 1)
      /\ UNCHANGED <<fmle, taken, rb>>
  BY DEF Begin
<1>3. /\ sent' \in Seq(Msgs) /\ Len(sent') = Len(sent) + 1 /\ sent'[Len(sent) + 1] = m
      /\ \A i \in 1..Len(sent) : sent'[i] = sent[i]
  BY <1>1, <1>2
<1>4. m.len \in Nat \ {0}
  BY DEF Msgs
<1>5. EndPos = <<Len(sent) + 1, 1, "header">>
  BY DEF EndPos
<1>6. EndPos' = IF 1 < m.len THEN <<Len(sent) + 1, 2, "header">>
                ELSE <<(Len(sent) + 1) + 1, 1, "header">>
  <2> DEFINE n == Len(sent)
             N == Len(sent')
  <2>1. EndPos' = IF m.len - 1 = 0 THEN <<N + 1, 1, "header">>
                  ELSE <<N, sent'[N].len - (m.len - 1) + 1, "header">>
    BY <1>2 DEF EndPos
  <2>2. N = n + 1 /\ sent'[N] = m /\ n \in Nat
    BY <1>1, <1>3
  <2>3. m.len - (m.len - 1) + 1 = 2
    BY <1>4
  <2> HIDE DEF n, N
  <2>4. EndPos' = IF m.len - 1 = 0 THEN <<(n + 1) + 1, 1, "header">>
                  ELSE <<n + 1, 2, "header">>
    BY <2>1, <2>2, <2>3
  <2>5. 1 < m.len <=> ~(m.len - 1 = 0)
    BY <1>4
  <2> QED
    BY <2>4, <2>5 DEF n
<1>7. Len(sent) + 1 \in 1..Len(sent') /\ 1 \in 1..m.len /\ Len(sent) <= Len(sent') /\ 1 + 1 = 2
  BY <1>1, <1>3, <1>4
<1> QED
  BY <1>1, <1>2, <1>3, <1>5, <1>6, <1>7 DEF Appends

LEMMA ContinueAppends ==
    ASSUME Types, ClientContinue
    PROVE  \E m \in Msgs, k \in Nat : Appends(m, Len(sent), k)
<1>1. /\ left > 0 /\ left \in Nat /\ sent # <<>> /\ left < sent[Len(sent)].len
      /\ sent \in Seq(Msgs)
  BY DEF ClientContinue, Types
<1>2. PICK n \in Nat \ {0} : n = Len(sent)
  BY <1>1
<1>3. PICK m \in Msgs : m = sent[n]
  BY <1>1, <1>2
<1>4. m.len \in Nat \ {0} /\ left < m.len
  BY <1>1, <1>2, <1>3 DEF Msgs
<1>5. PICK k \in Nat : k = m.len - left + 1 /\ k \in 1..m.len
  BY <1>1, <1>4
<1>6. /\ wire' = wire \o Chunk(m, n, k) /\ left' = left - 1 /\ sent' = sent
      /\ UNCHANGED <<fmle, taken, rb>>
  BY <1>2, <1>3, <1>5 DEF ClientContinue
<1>7. EndPos = <<n, k, "header">>
  BY <1>1, <1>2, <1>3, <1>5 DEF EndPos
<1>8. EndPos' = IF k < m.len THEN <<n, k + 1, "header">> ELSE <<n + 1, 1, "header">>
  <2>1. EndPos' = IF left - 1 = 0 THEN <<n + 1, 1, "header">>
                  ELSE <<n, m.len - (left - 1) + 1, "header">>
    BY <1>2, <1>3, <1>6 DEF EndPos
  <2>2. (k < m.len <=> ~(left - 1 = 0)) /\ m.len - (left - 1) + 1 = k + 1
    BY <1>1, <1>4, <1>5
  <2> QED
    BY <2>1, <2>2
<1>9. n \in 1..n /\ n <= n
  OBVIOUS
<1>10. Appends(m, n, k)
  BY <1>1, <1>2, <1>3, <1>5, <1>6, <1>7, <1>8, <1>9 DEF Appends
<1> QED
  BY <1>2, <1>10

LEMMA BeginTyped ==
    ASSUME Types, Chained(Stream), NEW cs \in Streams, ClientBegin(cs)
    PROVE  Types' /\ Chained(Stream)'
<1>1. PICK m \in Msgs : Begin(m) /\ Fits(m)
  BY BeginIs
<1>2. left = 0
  BY BeginIs
<1>3. /\ Appends(m, Len(sent) + 1, 1)
      /\ sent' \in Seq(Msgs) /\ Len(sent') = Len(sent) + 1 /\ sent'[Len(sent) + 1] = m
      /\ \A i \in 1..Len(sent) : sent'[i] = sent[i]
      /\ Len(sent) \in Nat
  BY <1>1, <1>2, BeginAppends
<1>4. PICK n \in Nat : n = Len(sent) + 1
  BY <1>3
<1>5. Chained(Stream)' /\ wire' \in Seq(AllUnits)
  BY <1>3, <1>4, ClientChains
<1>6. m.len \in Nat \ {0} /\ m.cs \in Streams
  BY DEF Msgs
<1>7. /\ left' = m.len - 1 /\ last' = [last EXCEPT ![m.cs] = n] /\ relied' = Relies(m)
      /\ UNCHANGED <<fmle, pc, rb, taken, ctx, savedCtx, mh, delivered>>
  BY <1>1, <1>4 DEF Begin
<1>8. left' \in Nat /\ (left' # 0 => sent' # <<>> /\ left' < sent'[Len(sent')].len)
  BY <1>3, <1>6, <1>7
<1>9. last' \in [Streams -> 0..Len(sent')] /\ \A d \in Streams : last'[d] # 0 => sent'[last'[d]].cs = d
  <2>0. last \in [Streams -> 0..Len(sent)] /\ \A d \in Streams : last[d] # 0 => sent[last[d]].cs = d
    BY DEF Types
  <2>1. last' \in [Streams -> 0..n]
    <3>1. n \in 0..n /\ \A i \in 0..Len(sent) : i \in 0..n
      BY <1>3, <1>4
    <3>2. \A d \in Streams : last[d] \in 0..n
      BY <2>0, <3>1
    <3> QED
      BY <1>7, <2>0, <3>1, <3>2
  <2>2. ASSUME NEW d \in Streams, last'[d] # 0 PROVE sent'[last'[d]].cs = d
    <3>1. CASE d = m.cs
      BY <1>3, <1>4, <1>7, <2>0, <3>1
    <3>2. CASE d # m.cs
      <4>1. last'[d] = last[d] /\ last[d] \in 1..Len(sent)
        BY <1>3, <1>7, <2>0, <2>2, <3>2
      <4> QED
        BY <1>3, <2>0, <2>2, <4>1
    <3> QED
      BY <3>1, <3>2
  <2> QED
    BY <1>3, <1>4, <2>1, <2>2
<1>10. relied' \in BOOLEAN
  BY <1>7 DEF Relies
<1>11. Types'
  BY <1>3, <1>5, <1>7, <1>8, <1>9, <1>10 DEF Types
<1> QED
  BY <1>5, <1>11

LEMMA ContinueTyped ==
    ASSUME Types, Chained(Stream), ClientContinue
    PROVE  Types' /\ Chained(Stream)'
<1>1. PICK m \in Msgs, k \in Nat : Appends(m, Len(sent), k)
  BY ContinueAppends
<1>2. Len(sent) \in Nat
  BY DEF Types
<1>3. Chained(Stream)' /\ wire' \in Seq(AllUnits)
  BY <1>1, <1>2, ClientChains
<1>4. /\ left' = left - 1 /\ left > 0
      /\ UNCHANGED <<fmle, last, sent, relied, pc, rb, taken, ctx, savedCtx, mh, delivered>>
  BY DEF ClientContinue
<1>5. left' \in Nat /\ (left' # 0 => sent # <<>> /\ left' < sent[Len(sent)].len)
  <2>1. left \in Nat /\ sent # <<>> /\ left < sent[Len(sent)].len
    BY <1>4 DEF Types
  <2>2. sent[Len(sent)] \in Msgs
    BY <2>1 DEF Types
  <2>3. sent[Len(sent)].len \in Nat
    BY <2>2 DEF Msgs
  <2> QED
    BY <1>4, <2>1, <2>3
<1>6. Types'
  BY <1>3, <1>4, <1>5 DEF Types
<1> QED
  BY <1>3, <1>6

LEMMA NotEnoughTyped ==
    ASSUME Types, Chained(Stream), NotEnough
    PROVE  Types' /\ Chained(Stream)'
<1>1. Stream' = Stream /\ rb' \in Seq(AllUnits) /\ taken' = <<>>
  BY UndoKeeps
<1>2. /\ pc' = "recv" /\ mh' = NoMessage /\ ctx' = savedCtx
      /\ UNCHANGED <<fmle, last, left, sent, relied, wire, savedCtx, delivered>>
  BY DEF NotEnough, restoreContext, client
<1>3. Chained(Stream)'
  BY <1>1, <1>2, ChainSame
<1>4. mh' \in Parses /\ taken' \in Seq(AllUnits)
  BY <1>1, <1>2, NoMessageTyped
<1>5. Types'
  BY <1>1, <1>2, <1>4 DEF Types
<1> QED
  BY <1>3, <1>5

\* A step that reads n units.
LEMMA ReadTyped ==
    ASSUME Types, Chained(Stream), NEW n \in Nat, n <= Len(rb), Read(n),
           UNCHANGED <<client, wire, savedCtx>>,
           ctx' \in [Streams -> Contexts], mh' \in Parses, delivered' \in Seq(Parses),
           pc' \in {"turn", "body", "more", "lost"}
    PROVE  Types' /\ Chained(Stream)'
<1>1. Stream' = Stream /\ rb' \in Seq(AllUnits) /\ taken' \in Seq(AllUnits)
  BY ReadKeeps
<1>2. UNCHANGED <<fmle, last, left, sent, relied>>
  BY DEF client
<1>3. Chained(Stream)'
  BY <1>1, <1>2, ChainSame
<1>4. Types'
  BY <1>1, <1>2 DEF Types
<1> QED
  BY <1>3, <1>4

\* A whole header is in the buffer.
LEMMA HeaderFitsIn ==
    ASSUME Types, Chained(Stream), rb # <<>>, IsHeader, HeaderThere(hd)
    PROVE  HeaderSize(hd) \in {1, 2} /\ HeaderSize(hd) \in Nat /\ HeaderSize(hd) <= Len(rb)
<1>1. Len(rb) \in Nat /\ Len(rb) >= 1
  BY Ahead
<1>2. HasExt(hd) => Len(rb) >= 2
  BY ExtThere
<1> QED
  BY <1>1, <1>2 DEF HeaderSize

\* readHeader, when the header is there.
LEMMA HeaderRead ==
    ASSUME Types, Chained(Stream), readHeader, HeaderThere(hd)
    PROVE  /\ rb # <<>> /\ IsHeader /\ pc = "header"
           /\ Read(HeaderSize(hd)) /\ UNCHANGED <<client, wire, savedCtx, delivered>>
           /\ IF Remembered(hd)
                 THEN ctx' = [ctx EXCEPT ![hd.cs] = Context(hd)] /\ mh' = Begun(hd, Context(hd))
                 ELSE ctx' = ctx /\ mh' = Begun(hd, Own(hd))
           /\ pc' = IF mh'.len = -1 THEN "lost" ELSE "body"
BY DEF readHeader

LEMMA ReadHeaderTyped ==
    ASSUME Types, Chained(Stream), readHeader
    PROVE  Types' /\ Chained(Stream)'
<1>1. rb # <<>> /\ IsHeader
  BY DEF readHeader
<1>2. CASE ~HeaderThere(hd)
  <2>1. NotEnough
    BY <1>2 DEF readHeader
  <2> QED
    BY <2>1, NotEnoughTyped
<1>3. CASE HeaderThere(hd)
  <2>1. /\ Read(HeaderSize(hd)) /\ UNCHANGED <<client, wire, savedCtx, delivered>>
        /\ IF Remembered(hd)
              THEN ctx' = [ctx EXCEPT ![hd.cs] = Context(hd)] /\ mh' = Begun(hd, Context(hd))
              ELSE ctx' = ctx /\ mh' = Begun(hd, Own(hd))
        /\ pc' = IF mh'.len = -1 THEN "lost" ELSE "body"
    BY <1>3, HeaderRead
  <2>2. HeaderSize(hd) \in Nat /\ HeaderSize(hd) <= Len(rb)
    BY <1>1, <1>3, HeaderFitsIn
  <2>3. Context(hd) \in Contexts /\ Begun(hd, Context(hd)) \in Parses
    BY <1>1, <1>3, ContextTyped
  <2>4. Begun(hd, Own(hd)) \in Parses
    BY <1>1, <1>3, OwnTyped
  <2>5. ctx \in [Streams -> Contexts] /\ delivered \in Seq(Parses)
    BY DEF Types
  <2>6. ctx' \in [Streams -> Contexts] /\ mh' \in Parses
    BY <2>1, <2>3, <2>4, <2>5
  <2>7. pc' \in {"turn", "body", "more", "lost"} /\ delivered' \in Seq(Parses)
    BY <2>1, <2>5
  <2>8. UNCHANGED <<client, wire, savedCtx>>
    BY <2>1
  <2> QED
    BY <2>1, <2>2, <2>6, <2>7, <2>8, ReadTyped
<1> QED
  BY <1>2, <1>3

\* One more piece of the body.
LEMMA PieceTaken ==
    ASSUME Types, Chained(Stream), rb # <<>>, TakePiece
    PROVE  /\ mh' \in Parses /\ mh'.body = Append(mh.body, hd) /\ mh.body \in Bodies
           /\ mh'.cs = mh.cs /\ mh'.kind = mh.kind /\ mh'.len = mh.len
           /\ mh'.timestamp = mh.timestamp /\ mh'.streamId = mh.streamId
<1>1. mh' = [mh EXCEPT !.body = Append(mh.body, hd)] /\ mh \in Parses
  BY DEF TakePiece, Types
<1>2. hd \in AllUnits
  BY DEF Types, hd
<1>3. mh.body \in Bodies
  BY <1>1 DEF Parses
<1> DEFINE b == Append(mh.body, hd)
<1>4. b \in Bodies
  BY <1>2, <1>3 DEF Bodies
<1> HIDE DEF b
<1> QED
  BY <1>1, <1>3, <1>4 DEF Parses, b

LEMMA ReadBodyTyped ==
    ASSUME Types, Chained(Stream), readBody
    PROVE  Types' /\ Chained(Stream)'
<1>1. rb # <<>> /\ TakePiece
  BY DEF readBody
<1>2. /\ Read(1) /\ UNCHANGED <<client, wire, ctx, savedCtx>>
      /\ \/ pc' = "turn" /\ delivered' = Append(delivered, mh')
         \/ pc' = "more" /\ UNCHANGED delivered
  BY <1>1 DEF TakePiece
<1>3. mh' \in Parses
  BY <1>1, PieceTaken
<1>4. ctx \in [Streams -> Contexts] /\ delivered \in Seq(Parses)
  BY DEF Types
<1>5. delivered' \in Seq(Parses) /\ ctx' \in [Streams -> Contexts]
  BY <1>2, <1>3, <1>4
<1>6. 1 \in Nat /\ 1 <= Len(rb)
  BY <1>1, Ahead
<1>7. UNCHANGED <<client, wire, savedCtx>> /\ pc' \in {"turn", "body", "more", "lost"}
  BY <1>2
<1> QED
  BY <1>2, <1>3, <1>5, <1>6, <1>7, ReadTyped

LEMMA ReadMoreTyped ==
    ASSUME Types, Chained(Stream), readMore
    PROVE  Types' /\ Chained(Stream)'
<1>1. rb # <<>> /\ IsHeader
  BY DEF readMore
<1>2. CASE ~HeaderThere(hd)
  <2>1. NotEnough
    BY <1>2 DEF readMore
  <2> QED
    BY <2>1, NotEnoughTyped
<1>3. CASE HeaderThere(hd) /\ hd.chunkType = 3 /\ hd.cs = mh.cs
  <2>1. /\ Read(HeaderSize(hd)) /\ pc' = "body"
        /\ UNCHANGED <<client, wire, ctx, savedCtx, mh, delivered>>
    BY <1>3 DEF readMore
  <2>2. HeaderSize(hd) \in Nat /\ HeaderSize(hd) <= Len(rb)
    BY <1>1, <1>3, HeaderFitsIn
  <2>3. ctx \in [Streams -> Contexts] /\ delivered \in Seq(Parses) /\ mh \in Parses
    BY DEF Types
  <2>4. UNCHANGED <<client, wire, savedCtx>> /\ pc' \in {"turn", "body", "more", "lost"}
    BY <2>1
  <2>5. ctx' \in [Streams -> Contexts] /\ delivered' \in Seq(Parses) /\ mh' \in Parses
    BY <2>1, <2>3
  <2> QED
    BY <2>1, <2>2, <2>4, <2>5, ReadTyped
<1>4. CASE HeaderThere(hd) /\ ~(hd.chunkType = 3 /\ hd.cs = mh.cs)
  <2>1. /\ pc' = "lost"
        /\ UNCHANGED <<fmle, last, left, sent, relied, wire, rb, taken, ctx, savedCtx, mh, delivered>>
    BY <1>4 DEF readMore, Lost, client
  <2>2. Chained(Stream)'
    <3>1. Stream' = Stream
      BY <2>1 DEF Stream
    <3> QED
      BY <2>1, <3>1, ChainSame
  <2> QED
    BY <2>1, <2>2 DEF Types
<1> QED
  BY <1>2, <1>3, <1>4

LEMMA RecvTyped ==
    ASSUME Types, Chained(Stream), NEW n \in 1..Len(wire), recv(n)
    PROVE  Types' /\ Chained(Stream)'
<1>1. Stream' = Stream /\ rb' \in Seq(AllUnits) /\ wire' \in Seq(AllUnits)
  BY RecvKeeps
<1>2. /\ pc' = "turn"
      /\ UNCHANGED <<fmle, last, left, sent, relied, taken, ctx, savedCtx, mh, delivered>>
  BY DEF recv, client
<1>3. Chained(Stream)'
  BY <1>1, <1>2, ChainSame
<1>4. Types'
  BY <1>1, <1>2 DEF Types
<1> QED
  BY <1>3, <1>4

LEMMA StartTyped ==
    ASSUME Types, Chained(Stream), startTurn
    PROVE  Types' /\ Chained(Stream)'
<1>1. /\ pc' \in {"recv", "header"} /\ taken' = <<>> /\ mh' = NoMessage
      /\ (savedCtx' = savedCtx \/ savedCtx' = ctx)
      /\ UNCHANGED <<fmle, last, left, sent, relied, wire, rb, ctx, delivered>>
  BY DEF startTurn, client
<1>2. Chained(Stream)'
  BY ChainTurn
<1>3. mh' \in Parses /\ taken' \in Seq(AllUnits)
  BY <1>1, NoMessageTyped
<1>4. Types'
  BY <1>1, <1>3 DEF Types
<1> QED
  BY <1>2, <1>4

LEMMA SameTyped ==
    ASSUME Types, Chained(Stream), pc' \in {pc, "lost"},
           UNCHANGED <<client, wire, rb, taken, ctx, savedCtx, mh, delivered>>
    PROVE  Types' /\ Chained(Stream)'
<1>1. UNCHANGED <<fmle, last, left, sent, relied, wire, rb, taken, ctx, savedCtx, mh, delivered>>
  BY DEF client
<1>2. Chained(Stream)'
  <2>1. Stream' = Stream
    BY <1>1 DEF Stream
  <2> QED
    BY <1>1, <2>1, ChainSame
<1> QED
  BY <1>1, <1>2 DEF Types

LEMMA NextTyped == Types /\ Chained(Stream) /\ [Next]_vars => (Types /\ Chained(Stream))'
<1> SUFFICES ASSUME Types, Chained(Stream), [Next]_vars PROVE Types' /\ Chained(Stream)'
  OBVIOUS
<1>1. CASE \E cs \in Streams : ClientBegin(cs)
  BY <1>1, BeginTyped
<1>2. CASE ClientContinue
  BY <1>2, ContinueTyped
<1>3. CASE \E n \in 1..Len(wire) : recv(n)
  BY <1>3, RecvTyped
<1>4. CASE startTurn
  BY <1>4, StartTyped
<1>5. CASE readHeader
  BY <1>5, ReadHeaderTyped
<1>6. CASE readBody
  BY <1>6, ReadBodyTyped
<1>7. CASE readMore
  BY <1>7, ReadMoreTyped
<1>8. CASE runsOut
  BY <1>8, NotEnoughTyped DEF runsOut
<1>9. CASE noHeader
  BY <1>9, SameTyped DEF noHeader, Lost
<1>10. CASE over \/ UNCHANGED vars
  BY <1>10, SameTyped DEF over, vars
<1> QED
  BY <1>1, <1>2, <1>3, <1>4, <1>5, <1>6, <1>7, <1>8, <1>9, <1>10 DEF Next

LEMMA InitTyped == Init => Types /\ Chained(Stream)
<1> SUFFICES ASSUME Init PROVE Types /\ Chained(Stream)
  OBVIOUS
<1>1. /\ taken = <<>> /\ rb = <<>> /\ wire = <<>> /\ sent = <<>> /\ delivered = <<>>
      /\ mh = NoMessage /\ pc = "recv" /\ left = 0 /\ relied = FALSE
      /\ last = [cs \in Streams |-> 0]
      /\ ctx = [cs \in Streams |-> NoContext] /\ savedCtx = ctx
  BY DEF Init
<1>2. fmle \in BOOLEAN
  BY TimestampsAssumption DEF Init, TimestampsAssumption
<1>3. mh \in Parses /\ ctx \in [Streams -> Contexts] /\ savedCtx \in [Streams -> Contexts]
  BY <1>1, NoMessageTyped, NoContextTyped
<1>4. Types
  <2>1. Len(sent) = 0 /\ 0 \in 0..0
    BY <1>1
  <2>2. last \in [Streams -> 0..Len(sent)] /\ \A cs \in Streams : last[cs] = 0
    BY <1>1, <2>1
  <2>3. /\ taken \in Seq(AllUnits) /\ rb \in Seq(AllUnits) /\ wire \in Seq(AllUnits)
        /\ sent \in Seq(Msgs) /\ delivered \in Seq(Parses)
    BY <1>1
  <2>4. left \in Nat /\ left = 0 /\ relied \in BOOLEAN /\ pc = "recv"
    BY <1>1
  <2> QED
    BY <1>1, <1>2, <1>3, <2>2, <2>3, <2>4, Zenon DEF Types
<1>5. Len(Stream) = 0
  BY <1>1, <1>4, StreamIs
<1> QED
  BY <1>4, <1>5 DEF Chained

LEMMA Typed == Spec => [](Types /\ Chained(Stream))
<1>1. Init => Types /\ Chained(Stream)
  BY InitTyped
<1>2. Types /\ Chained(Stream) /\ [Next]_vars => (Types /\ Chained(Stream))'
  BY NextTyped
<1> QED
  BY <1>1, <1>2, PTL DEF Spec

\* What the parser remembers is well-typed whatever the client relies on;
\* an extended timestamp it remembers is one that does not fit into three
\* bytes (rtmpparser.cpp:77-150, 219-283).
THEOREM TypeCorrect == Spec => []TypeOK
<1>1. Types => TypeOK
  <2> SUFFICES ASSUME Types PROVE TypeOK
    OBVIOUS
  <2>1. \A cs \in Streams : LET c == ctx[cs] IN
          /\ c.set \in BOOLEAN /\ c.chunkType \in 0..3 /\ c.streamId \in {-1, 1}
          /\ c.timestamp \in Int /\ c.delta \in (-Half)..Half - 1 /\ c.ext \in Nat \union {None}
          /\ c.ext = None \/ c.ext >= Limit
    <3> TAKE cs \in Streams
    <3>1. ctx[cs] \in Contexts
      BY DEF Types
    <3>2. PICK c \in Contexts : c = ctx[cs]
      BY <3>1
    <3>3. /\ c.set \in BOOLEAN /\ c.chunkType \in 0..3 /\ c.streamId \in {-1, 1}
          /\ c.timestamp \in Int /\ c.delta \in Signed /\ c.ext \in Long \union {None}
      BY ContextIs
    <3> QED
      BY <3>2, <3>3 DEF Long, Signed
  <2> QED
    BY <2>1 DEF Types, TypeOK
<1> QED
  BY <1>1, Typed, PTL

-----------------------------------------------------------------------------
(* In step with the client.                                                *)

\* j is the last of the first n messages on chunk stream cs.
Latest(cs, j, n) ==
    /\ j \in 1..n /\ sent[j].cs = cs
    /\ \A l \in 1..n : l > j => sent[l].cs # cs

\* What the header of message i, m, relies on: the message before it on its
\* chunk stream, l, which is no command where kind and length are left out.
Continues(m, l) ==
    /\ m.type \in 1..3
    /\ m = Relative(l, m.type, m.kind, m.len, m.delta)
    /\ m.type \in {2, 3} => l.kind = "media" /\ m.kind = l.kind /\ m.len = l.len
    /\ m.type = 3 => m.delta = l.delta

Sums(i) ==
    LET m == sent[i]
    IN  \/ m.type = 0 /\ m = Absolute(m.cs, m.kind, m.len, m.delta)
        \/ \E j \in 1..i - 1 : Latest(m.cs, j, i - 1) /\ Continues(m, sent[j])

SentInv ==
    /\ \A i \in 1..Len(sent) : Sums(i) /\ ~Relies(sent[i])
    /\ \A cs \in Streams : last[cs] # 0 => Latest(cs, last[cs], Len(sent))

\* What the header of m says, and what of it is kept as a delta.
Due(m) == IF IsExtended(m.delta) THEN Limit + m.delta ELSE m.delta
Kept(m) == Due(m) - 2 * Half * Wraps(m.delta)

\* What the timestamp of m is to be.
Timed(m) == m.ts + Limit * m.exts - 2 * Half * m.wraps
IsTimed(d, m) == m.clean => d.timestamp = Timed(m) /\ d.streamId = 1

\* c is what is to be remembered of m.
Agrees(c, m) ==
    /\ c.set /\ c.kind = "media" /\ c.len = m.len
    /\ c.ext = IF IsExtended(m.delta) THEN m.delta ELSE None
    /\ (IF c.chunkType = 0 THEN Narrow(c.time) ELSE c.delta) = Kept(m)
    /\ IsTimed(c, m)

\* x has what is to be remembered of the first n messages.
CtxOk(x, n) ==
    \A cs \in Streams : \A j \in 1..n :
        Latest(cs, j, n) /\ sent[j].kind = "media" => Agrees(x[cs], sent[j])

\* d is message m.
Parsed(d, m) == d.cs = m.cs /\ d.kind = m.kind /\ d.len = m.len /\ IsTimed(d, m)

\* d has the first n pieces of message i.
HasPieces(d, i, n) == Len(d.body) = n /\ \A k \in 1..n : d.body[k] = Piece(i, k)

Cur == Len(delivered) + 1

\* What the parser reads next is unit u of chunk k of the current message.
Ready(k, u) == PosAt(Stream, Len(taken) + 1) = <<Cur, k, u>>

\* What a turn that is undone goes back to.
Saved == PosAt(Stream, 1) = <<Cur, 1, "header">> /\ CtxOk(savedCtx, Len(delivered))

Done ==
    \A i \in 1..Len(delivered) :
        Parsed(delivered[i], sent[i]) /\ HasPieces(delivered[i], i, sent[i].len)

Halfway ==
    /\ Cur \in 1..Len(sent) /\ Parsed(mh, sent[Cur])
    /\ HasPieces(mh, Cur, Len(mh.body)) /\ Len(mh.body) < sent[Cur].len
    /\ CtxOk(ctx, Cur)
    /\ pc = "more" => Len(mh.body) > 0
    /\ Ready(Len(mh.body) + 1, IF pc = "body" THEN "piece" ELSE "header")

InStep ==
    /\ pc # "lost" /\ Len(delivered) <= Len(sent) /\ Done
    /\ pc \in {"recv", "turn", "header"} => Ready(1, "header") /\ CtxOk(ctx, Len(delivered))
    /\ pc \in {"recv", "header"} => taken = <<>>
    /\ pc \in {"header", "body", "more"} => Saved
    /\ pc \in {"body", "more"} => Halfway

\* The fields of a message.
LEMMA MsgIs ==
    ASSUME NEW m \in Msgs
    PROVE  /\ m.cs \in Streams /\ m.type \in 0..3 /\ m.kind \in Kinds /\ m.len \in Nat \ {0}
           /\ m.ts \in Nat /\ m.delta \in Nat /\ m.delta < 2 * Half
           /\ m.exts \in Nat /\ m.wraps \in Nat /\ m.clean \in BOOLEAN
BY UnsignedType DEF Msgs

\* Only media messages are clean.
LEMMA CleanIsMedia ==
    ASSUME Types, SentInv, NEW i \in 1..Len(sent), sent[i].clean
    PROVE  sent[i].kind = "media"
<1>1. Sums(i)
  BY DEF SentInv
<1> PICK m \in Msgs : m = sent[i]
  BY DEF Types
<1>2. CASE m = Absolute(m.cs, m.kind, m.len, m.delta)
  <2>1. m.clean = (m.kind = "media")
    BY <1>2 DEF Absolute
  <2> QED
    BY <2>1
<1>3. ASSUME NEW j, Continues(m, sent[j]) PROVE m.kind = "media"
  <2>1. m.clean = (sent[j].clean /\ m.kind = "media")
    BY <1>3 DEF Continues, Relative
  <2> QED
    BY <2>1
<1> QED
  BY <1>1, <1>2, <1>3 DEF Sums

\* The message before, for a header that relies on it.
LEMMA Before ==
    ASSUME Types, SentInv, NEW i \in 1..Len(sent), sent[i].type # 0, NEW x, CtxOk(x, i - 1)
    PROVE  \E l \in Msgs :
              /\ Continues(sent[i], l)
              /\ l.kind = "media" => Agrees(x[sent[i].cs], l)
              /\ l.clean => l.kind = "media"
<1>1. Sums(i)
  BY DEF SentInv
<1>2. PICK j \in 1..i - 1 : Latest(sent[i].cs, j, i - 1) /\ Continues(sent[i], sent[j])
  BY <1>1 DEF Sums
<1>3. j \in 1..Len(sent) /\ Len(sent) \in Nat
  BY DEF Types
<1>4. sent[j] \in Msgs /\ sent[i].cs \in Streams
  BY <1>3, MsgIs DEF Types
<1>5. sent[j].kind = "media" => Agrees(x[sent[i].cs], sent[j])
  BY <1>2, <1>4 DEF CtxOk
<1>6. sent[j].clean => sent[j].kind = "media"
  BY <1>3, CleanIsMedia
<1> QED
  BY <1>2, <1>4, <1>5, <1>6

\* A type 3 header is taken to be extended when it is, and only then.
LEMMA SeenRight ==
    ASSUME Types, Chained(Stream), SentInv, rb # <<>>, IsHeader, HeaderThere(hd),
           CtxOk(ctx, IF hd.k = 1 THEN hd.id - 1 ELSE hd.id)
    PROVE  /\ HasExt(hd) <=> Extends(sent[hd.id], hd.k)
           /\ HasExt(hd) => rb[2].v = sent[hd.id].delta
<1>h. PICK h \in Headers : h = hd
  BY HeaderAhead
<1>i. PICK i \in 1..Len(sent) : i = hd.id
  BY HeaderAhead
<1>m. PICK m \in Msgs : m = sent[i]
  BY <1>i DEF Types
<1>k. h.k \in 1..m.len /\ h.k \in Nat /\ i \in Nat /\ h = Header(m, i, h.k)
  BY <1>h, <1>i, <1>m, HeaderAhead
<1>1. /\ m.delta \in Nat /\ m.cs \in Streams /\ m.type \in 0..3 /\ m.len \in Nat /\ m.kind \in Kinds
  BY MsgIs
<1>2. /\ h.cs = m.cs /\ h.chunkType = IF h.k = 1 THEN m.type ELSE 3
      /\ h.chunkType # 3 => h.time = IF IsExtended(m.delta) THEN Limit ELSE m.delta
  BY <1>k, HeaderIs
<1>3. Len(rb) >= 2 => IF Extends(m, h.k) THEN rb[2].u = "ext" /\ rb[2].v = m.delta
                      ELSE rb[2].u = "piece"
  BY <1>h, <1>i, <1>m, Behind
<1>4. HasExt(hd) => Len(rb) >= 2
  BY ExtThere
<1>5. CASE h.chunkType # 3
  <2>1. ~Peeks(h) /\ (HasExt(h) <=> h.time = Limit)
    BY <1>5 DEF Peeks, HasExt
  <2>2. h.time = Limit <=> IsExtended(m.delta)
    BY <1>1, <1>2, <1>5, TimestampsAssumption DEF IsExtended, TimestampsAssumption
  <2>3. Extends(m, h.k) <=> IsExtended(m.delta)
    BY <1>2, <1>5 DEF Extends
  <2> QED
    BY <1>h, <1>i, <1>m, <1>3, <1>4, <2>1, <2>2, <2>3
<1>6. CASE h.chunkType = 3
  <2>1. HasExt(h) <=> ctx[h.cs].ext # None /\ SeenAgain(h)
    BY <1>6 DEF Peeks, HasExt
  <2>2. ASSUME HasExt(h) PROVE Extends(m, h.k)
    BY <1>h, <1>3, <1>4, <2>1, <2>2 DEF SeenAgain
  <2>3. ASSUME Extends(m, h.k) PROVE ctx[h.cs].ext = m.delta
    <3>1. IsExtended(m.delta) /\ fmle
      BY <1>2, <1>6, <2>3 DEF Extends
    <3>2. CASE h.k # 1
      <4>1. m.kind = "media"
        <5>1. ~Relies(m)
          BY <1>m DEF SentInv
        <5>2. m.len > 1
          BY <1>1, <1>k, <3>2
        <5> QED
          BY <1>1, <3>1, <5>1, <5>2 DEF Relies, Kinds
      <4>2. Latest(m.cs, i, i)
        BY <1>k, <1>m DEF Latest
      <4>3. Agrees(ctx[m.cs], m)
        BY <1>h, <1>i, <1>k, <1>m, <1>1, <3>2, <4>1, <4>2 DEF CtxOk
      <4> QED
        BY <1>2, <3>1, <4>3 DEF Agrees
    <3>3. CASE h.k = 1
      <4>1. m.type = 3 /\ CtxOk(ctx, i - 1)
        BY <1>h, <1>i, <1>2, <1>6, <3>3
      <4>2. PICK l \in Msgs : /\ Continues(m, l)
                              /\ l.kind = "media" => Agrees(ctx[m.cs], l)
        BY <1>m, <4>1, Before
      <4> QED
        BY <1>2, <3>1, <4>1, <4>2 DEF Continues, Agrees
    <3> QED
      BY <3>2, <3>3
  <2>4. ASSUME Extends(m, h.k) PROVE HasExt(h)
    <3>1. ctx[h.cs].ext = m.delta /\ m.delta # None
      BY <1>1, <2>3, <2>4 DEF None
    <3>2. Peeks(h)
      BY <1>6, <3>1 DEF Peeks
    <3>3. Len(rb) >= 2
      BY <1>h, <3>2 DEF HeaderThere
    <3> QED
      BY <1>3, <2>1, <2>4, <3>1, <3>3 DEF SeenAgain
  <2> QED
    BY <1>h, <1>i, <1>m, <1>3, <1>4, <2>2, <2>4
<1> QED
  BY <1>5, <1>6

\* An extension adds Limit to what is due.
LEMMA DueIs ==
    ASSUME NEW m \in Msgs
    PROVE  Due(m) \in Int /\ Due(m) = m.delta + Limit * Extensions(m.delta)
<1>1. m.delta \in Nat /\ Limit \in Nat
  BY MsgIs, TimestampsAssumption DEF TimestampsAssumption
<1>2. CASE IsExtended(m.delta)
  <2>1. Extensions(m.delta) = 1 /\ Due(m) = Limit + m.delta
    BY <1>2 DEF Extensions, Due
  <2> QED
    BY <1>1, <2>1
<1>3. CASE ~IsExtended(m.delta)
  <2>1. Extensions(m.delta) = 0 /\ Due(m) = m.delta
    BY <1>3 DEF Extensions, Due
  <2> QED
    BY <1>1, <2>1
<1> QED
  BY <1>2, <1>3

\* As a delta, it is what int32_t makes of it.
LEMMA KeptIs ==
    ASSUME NEW m \in Msgs
    PROVE  Kept(m) \in Int /\ Narrow(Due(m)) = Kept(m)
<1>1. m.delta \in Nat /\ m.delta < 2 * Half
  BY MsgIs
<1>2. Due(m) \in Nat /\ Due(m) < 3 * Half
  BY <1>1, HalfType DEF Due
<1>3. Wraps(m.delta) = IF Due(m) < Half THEN 0 ELSE 1
  BY <1>1, HalfType DEF Wraps, Due, IsExtended
<1>4. Narrow(Due(m)) = IF Due(m) < Half THEN Due(m) ELSE Due(m) - 2 * Half
  BY <1>2, NarrowIs
<1> DEFINE n == 2 * Half
<1>5. n \in Nat
  BY HalfType
<1> HIDE DEF n
<1>6. CASE Due(m) < Half
  <2>1. Kept(m) = Due(m) - n * 0 /\ n * 0 = 0
    BY <1>3, <1>5, <1>6 DEF Kept, n
  <2> QED
    BY <1>2, <1>4, <1>6, <2>1
<1>7. CASE ~(Due(m) < Half)
  <2>1. Kept(m) = Due(m) - n * 1 /\ n * 1 = n
    BY <1>3, <1>5, <1>7 DEF Kept, n
  <2> QED
    BY <1>2, <1>4, <1>5, <1>7, <2>1 DEF n
<1> QED
  BY <1>6, <1>7

\* One more of what is counted, or not.
LEMMA TimesOneMore ==
    ASSUME NEW n \in Nat, NEW b \in Nat, NEW e \in {0, 1}
    PROVE  n * b \in Nat /\ n * e \in Nat /\ n * (b + e) = n * b + n * e
<1>1. n * b \in Nat
  OBVIOUS
<1>2. CASE e = 0
  <2>1. n * e = 0 /\ b + e = b
    BY <1>2
  <2> QED
    BY <1>1, <2>1
<1>3. CASE e = 1
  <2>1. n * e = n /\ n * (b + e) = n * b + n
    BY <1>3
  <2> QED
    BY <1>1, <2>1
<1> QED
  BY <1>2, <1>3

\* What a message that continues another adds up to.
LEMMA ContinuesIs ==
    ASSUME NEW m \in Msgs, NEW l \in Msgs, Continues(m, l)
    PROVE  /\ Timed(m) = Timed(l) + Kept(m)
           /\ m.clean => l.clean /\ m.kind = "media"
<1>1. /\ m.ts = l.ts + m.delta /\ m.exts = l.exts + Extensions(m.delta)
      /\ m.wraps = l.wraps + Wraps(m.delta)
  BY DEF Continues, Relative
<1>2. /\ l.ts \in Nat /\ l.exts \in Nat /\ l.wraps \in Nat /\ m.delta \in Nat
      /\ Extensions(m.delta) \in {0, 1} /\ Wraps(m.delta) \in {0, 1}
  BY MsgIs, ExtensionsType, WrapsType
<1> DEFINE n == 2 * Half
<1>3. n \in Nat /\ Limit \in Nat
  BY HalfType
<1>4. Due(m) = m.delta + Limit * Extensions(m.delta)
  BY DueIs
<1>5. Kept(m) = Due(m) - n * Wraps(m.delta)
  BY DEF Kept
<1>6. Timed(m) = m.ts + Limit * m.exts - n * m.wraps
      /\ Timed(l) = l.ts + Limit * l.exts - n * l.wraps
  BY DEF Timed
<1> HIDE DEF n
<1>7. /\ Limit * l.exts \in Nat /\ Limit * Extensions(m.delta) \in Nat
      /\ Limit * m.exts = Limit * l.exts + Limit * Extensions(m.delta)
  <2>1. PICK e \in {0, 1} : e = Extensions(m.delta)
    BY <1>2
  <2>2. PICK b \in Nat : b = l.exts
    BY <1>2
  <2>3. Limit * b \in Nat /\ Limit * e \in Nat /\ Limit * (b + e) = Limit * b + Limit * e
    BY <1>3, TimesOneMore
  <2>4. m.exts = b + e
    BY <1>1, <2>1, <2>2
  <2> QED
    BY <2>1, <2>2, <2>3, <2>4, Zenon
<1>8. /\ n * l.wraps \in Nat /\ n * Wraps(m.delta) \in Nat
      /\ n * m.wraps = n * l.wraps + n * Wraps(m.delta)
  <2>1. PICK e \in {0, 1} : e = Wraps(m.delta)
    BY <1>2
  <2>2. PICK b \in Nat : b = l.wraps
    BY <1>2
  <2>3. n * b \in Nat /\ n * e \in Nat /\ n * (b + e) = n * b + n * e
    BY <1>3, TimesOneMore
  <2>4. m.wraps = b + e
    BY <1>1, <2>1, <2>2
  <2> QED
    BY <2>1, <2>2, <2>3, <2>4, Zenon
<1>9. ASSUME NEW a \in Nat, NEW d \in Nat, NEW p \in Nat, NEW e \in Nat,
             NEW q \in Nat, NEW w \in Nat
      PROVE  (a + d) + (p + e) - (q + w) = (a + p - q) + ((d + e) - w)
  OBVIOUS
<1>10. Timed(m) = Timed(l) + Kept(m)
  BY <1>1, <1>2, <1>4, <1>5, <1>6, <1>7, <1>8, <1>9
<1>11. m.clean = (l.clean /\ m.kind = "media")
  BY DEF Continues, Relative
<1>12. m.clean => l.clean /\ m.kind = "media"
  BY <1>11
<1> QED
  BY <1>10, <1>12

\* The parser is at the first header of message i, m.
AtFirst(i, m) ==
    /\ rb # <<>> /\ IsHeader /\ HeaderThere(hd)
    /\ hd.k = 1 /\ hd.id = i /\ m = sent[i]
    /\ CtxOk(ctx, i - 1)

\* What such a header says.
LEMMA FirstIs ==
    ASSUME Types, Chained(Stream), SentInv, NEW i \in 1..Len(sent), NEW m \in Msgs, AtFirst(i, m)
    PROVE  /\ hd \in Headers /\ hd.cs = m.cs /\ hd.chunkType = m.type
           /\ hd.chunkType < 2 => hd.kind = m.kind /\ hd.len = m.len
           /\ hd.chunkType >= 2 => hd.kind = "none"
           /\ hd.chunkType = 0 => hd.streamId = 1
           /\ HasExt(hd) <=> Extends(m, 1)
           /\ Extends(m, 1) => IsExtended(m.delta) /\ Ext(hd) = m.delta
           /\ ~Extends(m, 1) => Ext(hd) = None
           /\ m.type # 3 => (Extends(m, 1) <=> IsExtended(m.delta)) /\ Time(hd) = Due(m)
<1> PICK h \in Headers : h = hd
  BY HeaderAhead DEF AtFirst
<1>1. h = Header(m, i, 1) /\ i \in Nat /\ rb # <<>> /\ IsHeader /\ HeaderThere(hd)
  BY HeaderAhead DEF AtFirst
<1>2. /\ h.cs = m.cs /\ h.chunkType = m.type
      /\ h.chunkType # 3 => h.time = IF IsExtended(m.delta) THEN Limit ELSE m.delta
      /\ h.chunkType < 2 => h.kind = m.kind /\ h.len = m.len
      /\ h.chunkType >= 2 => h.kind = "none"
      /\ h.chunkType = 0 => h.streamId = 1
  BY <1>1, HeaderIs
<1>3. CtxOk(ctx, IF hd.k = 1 THEN hd.id - 1 ELSE hd.id)
  BY DEF AtFirst
<1>4. (HasExt(h) <=> Extends(m, 1)) /\ (HasExt(h) => rb[2].v = m.delta)
  BY <1>1, <1>3, SeenRight DEF AtFirst
<1>5. /\ Extends(m, 1) => IsExtended(m.delta) /\ Ext(h) = m.delta
      /\ ~Extends(m, 1) => Ext(h) = None
  BY <1>4 DEF Extends, Ext
<1>6. m.type # 3 => (Extends(m, 1) <=> IsExtended(m.delta)) /\ Time(h) = Due(m)
  BY <1>2, <1>4 DEF Extends, Time, Due
<1> QED
  BY <1>2, <1>4, <1>5, <1>6

\* The fields of what such a header leaves behind.
LEMMA ContextFields ==
    ASSUME NEW prev, prev = Prev(hd), NEW c, c = Context(hd)
    PROVE  /\ c.set = TRUE /\ c.chunkType = hd.chunkType
           /\ c.delta = TimestampDelta(hd, prev)
           /\ c.timestamp = IF hd.chunkType = 0 THEN Time(hd) ELSE prev.timestamp + c.delta
           /\ c.time = c.timestamp
           /\ c.ext = IF hd.chunkType = 3 /\ ~HasExt(hd) THEN prev.ext ELSE Ext(hd)
           /\ c.kind = IF hd.chunkType < 2 THEN hd.kind ELSE prev.kind
           /\ c.len = IF hd.chunkType < 2 THEN hd.len ELSE prev.len
           /\ c.streamId = IF hd.chunkType = 0 THEN hd.streamId ELSE prev.streamId
BY DEF Context, OwnKind

\* What is remembered of a message is what is to be remembered of it.
LEMMA ContextRight ==
    ASSUME Types, Chained(Stream), SentInv, NEW i \in 1..Len(sent), NEW m \in Msgs,
           AtFirst(i, m), Remembered(hd)
    PROVE  m.kind = "media" /\ Agrees(Context(hd), m)
<1>h. PICK h \in Headers : h = hd
  BY FirstIs
<1>p. PICK p : p = Prev(hd)
  OBVIOUS
<1>c. PICK c : c = Context(hd)
  OBVIOUS
<1>1. /\ h.cs = m.cs /\ h.chunkType = m.type
      /\ h.chunkType < 2 => h.kind = m.kind /\ h.len = m.len
      /\ h.chunkType >= 2 => h.kind = "none"
      /\ h.chunkType = 0 => h.streamId = 1
      /\ HasExt(h) <=> Extends(m, 1)
      /\ Extends(m, 1) => IsExtended(m.delta) /\ Ext(h) = m.delta
      /\ ~Extends(m, 1) => Ext(h) = None
      /\ m.type # 3 => (Extends(m, 1) <=> IsExtended(m.delta)) /\ Time(h) = Due(m)
  BY <1>h, FirstIs
<1>2. /\ c.set = TRUE /\ c.chunkType = h.chunkType
      /\ c.delta = TimestampDelta(h, p)
      /\ c.timestamp = IF h.chunkType = 0 THEN Time(h) ELSE p.timestamp + c.delta
      /\ c.time = c.timestamp
      /\ c.ext = IF h.chunkType = 3 /\ ~HasExt(h) THEN p.ext ELSE Ext(h)
      /\ c.kind = IF h.chunkType < 2 THEN h.kind ELSE p.kind
      /\ c.len = IF h.chunkType < 2 THEN h.len ELSE p.len
      /\ c.streamId = IF h.chunkType = 0 THEN h.streamId ELSE p.streamId
  BY <1>h, <1>p, <1>c, ContextFields
<1>3. m.type \in 0..3 /\ m.cs \in Streams /\ m.delta \in Nat /\ m.kind \in Kinds
  BY MsgIs
<1>4. sent[i] = m /\ CtxOk(ctx, i - 1)
  BY DEF AtFirst
<1>5. h.chunkType \notin {2, 3} => h.kind = "media"
  BY <1>h DEF Remembered
<1>6. p = IF ctx[m.cs].set THEN ctx[m.cs]
          ELSE [set |-> FALSE, timestamp |-> -1, delta |-> -1, chunkType |-> h.chunkType,
                time |-> Time(h), ext |-> Ext(h), kind |-> h.kind,
                len |-> IF h.chunkType < 2 THEN h.len ELSE -1, streamId |-> -1]
  BY <1>h, <1>p, <1>1 DEF Prev
<1>7. CASE m.type = 0
  <2>1. m.kind = "media" /\ c.kind = "media" /\ c.len = m.len /\ c.streamId = 1
    BY <1>1, <1>2, <1>5, <1>7
  <2>2. c.time = Due(m) /\ c.timestamp = Due(m) /\ c.chunkType = 0
    BY <1>1, <1>2, <1>7
  <2>3. c.ext = IF IsExtended(m.delta) THEN m.delta ELSE None
    BY <1>1, <1>2, <1>7
  <2>4. Timed(m) = Due(m)
    <3>1. m = Absolute(m.cs, m.kind, m.len, m.delta)
      <4>1. Sums(i)
        BY DEF SentInv
      <4> QED
        BY <1>4, <1>7, <4>1 DEF Sums, Continues
    <3>2. m.ts = m.delta /\ m.exts = Extensions(m.delta) /\ m.wraps = 0
      BY <3>1 DEF Absolute
    <3>3. 2 * Half * 0 = 0
      BY HalfType
    <3>4. Due(m) \in Int /\ Due(m) = m.delta + Limit * Extensions(m.delta)
      BY DueIs
    <3> DEFINE e == Limit * Extensions(m.delta)
               z == 2 * Half * 0
    <3>5. Timed(m) = m.delta + (e - z)
      BY <3>2, Zenon DEF Timed
    <3>6. e \in Nat /\ m.delta \in Nat
      BY HalfType, ExtensionsType, MsgIs
    <3>7. z = 0 /\ Due(m) = m.delta + e
      BY <3>3, <3>4
    <3> HIDE DEF e, z
    <3> QED
      BY <3>5, <3>6, <3>7
  <2>5. Narrow(c.time) = Kept(m)
    BY <2>2, KeptIs
  <2> QED
    BY <1>c, <1>2, <2>1, <2>2, <2>3, <2>4, <2>5 DEF Agrees, IsTimed
<1>8. CASE m.type # 0
  <2>1. PICK l \in Msgs : /\ Continues(m, l)
                          /\ l.kind = "media" => Agrees(ctx[m.cs], l)
                          /\ l.clean => l.kind = "media"
    BY <1>4, <1>8, Before
  <2>2. m.kind = "media"
    BY <1>1, <1>3, <1>5, <1>8, <2>1 DEF Continues
  <2>3. l.kind = "media" => p = ctx[m.cs] /\ Agrees(p, l)
    BY <1>6, <2>1 DEF Agrees
  <2>4. m.type \in {2, 3} => l.kind = "media" /\ m.kind = l.kind /\ m.len = l.len
    BY <2>1 DEF Continues
  <2>5. c.kind = "media" /\ c.len = m.len
    BY <1>1, <1>2, <1>3, <1>8, <2>2, <2>3, <2>4 DEF Agrees
  <2>6. m.type = 3 => m.delta = l.delta /\ Kept(m) = Kept(l)
    BY <2>1 DEF Continues, Due, Kept
  <2>7. c.delta = Kept(m)
    <3>1. CASE m.type = 3
      <4>1. (IF p.chunkType = 0 THEN Narrow(p.time) ELSE p.delta) = Kept(m)
        BY <2>3, <2>4, <2>6, <3>1 DEF Agrees
      <4> QED
        BY <1>1, <1>2, <3>1, <4>1 DEF TimestampDelta
    <3>2. CASE m.type # 3
      BY <1>1, <1>2, <1>3, <1>8, <3>2, KeptIs DEF TimestampDelta
    <3> QED
      BY <3>1, <3>2
  <2>8. c.ext = IF IsExtended(m.delta) THEN m.delta ELSE None
    <3>1. CASE m.type = 3
      <4>1. p.ext = IF IsExtended(m.delta) THEN m.delta ELSE None
        BY <2>3, <2>4, <2>6, <3>1 DEF Agrees
      <4> QED
        BY <1>1, <1>2, <3>1, <4>1
    <3>2. CASE m.type # 3
      BY <1>1, <1>2, <3>2
    <3> QED
      BY <3>1, <3>2
  <2>9. IsTimed(c, m)
    <3> SUFFICES ASSUME m.clean
                 PROVE  c.timestamp = Timed(m) /\ c.streamId = 1
      BY DEF IsTimed
    <3>1. Timed(m) = Timed(l) + Kept(m) /\ l.clean
      BY <2>1, ContinuesIs
    <3>2. p.timestamp = Timed(l) /\ p.streamId = 1
      BY <2>1, <2>3, <3>1 DEF Agrees, IsTimed
    <3> QED
      BY <1>1, <1>2, <1>8, <2>7, <3>1, <3>2
  <2>10. c.chunkType # 0
    BY <1>1, <1>2, <1>8
  <2> QED
    BY <1>c, <1>2, <2>2, <2>5, <2>7, <2>8, <2>9, <2>10 DEF Agrees
<1> QED
  BY <1>7, <1>8

\* What is begun is message i, whether its header is remembered or not.
LEMMA BegunRight ==
    ASSUME Types, Chained(Stream), SentInv, NEW i \in 1..Len(sent), NEW m \in Msgs,
           AtFirst(i, m)
    PROVE  /\ Remembered(hd) => Parsed(Begun(hd, Context(hd)), m)
           /\ ~Remembered(hd) => Parsed(Begun(hd, Own(hd)), m) /\ m.kind = "cmd"
<1>h. PICK h \in Headers : h = hd
  BY FirstIs
<1>1. /\ h.cs = m.cs /\ h.chunkType = m.type
      /\ h.chunkType < 2 => h.kind = m.kind /\ h.len = m.len
  BY <1>h, FirstIs
<1>2. m.type \in 0..3 /\ m.kind \in Kinds /\ sent[i] = m
  BY MsgIs DEF AtFirst
<1>3. ASSUME Remembered(h) PROVE Parsed(Begun(h, Context(h)), m)
  <2>c. PICK c : c = Context(h)
    OBVIOUS
  <2>1. m.kind = "media" /\ Agrees(c, m)
    BY <1>h, <1>3, <2>c, ContextRight
  <2> QED
    BY <1>1, <2>c, <2>1 DEF Agrees, IsTimed, Begun, Parsed
<1>4. ASSUME ~Remembered(h) PROVE Parsed(Begun(h, Own(h)), m) /\ m.kind = "cmd"
  <2>1. h.chunkType < 2 /\ h.kind = m.kind /\ h.len = m.len /\ m.kind = "cmd"
    BY <1>1, <1>2, <1>4 DEF Remembered, Kinds
  <2>2. ~m.clean
    BY <1>2, <2>1, CleanIsMedia
  <2> QED
    BY <1>1, <2>1, <2>2 DEF Begun, Own, Parsed, IsTimed
<1> QED
  BY <1>h, <1>3, <1>4

\* What is remembered is right up to message i, once its header is read.
LEMMA CtxStep ==
    ASSUME Types, Chained(Stream), SentInv, NEW i \in 1..Len(sent), NEW m \in Msgs,
           AtFirst(i, m),
           NEW x, x = IF Remembered(hd) THEN [ctx EXCEPT ![hd.cs] = Context(hd)] ELSE ctx
    PROVE  CtxOk(x, i)
<1>1. sent[i] = m /\ CtxOk(ctx, i - 1) /\ m.cs \in Streams /\ hd.cs = m.cs /\ i \in Nat
  BY FirstIs, MsgIs DEF AtFirst
<1>2. ctx \in [Streams -> Contexts]
  BY DEF Types
<1> SUFFICES ASSUME NEW cs \in Streams, NEW j \in 1..i, Latest(cs, j, i), sent[j].kind = "media"
             PROVE  Agrees(x[cs], sent[j])
  BY DEF CtxOk
<1>3. CASE j = i
  <2>1. cs = m.cs /\ m.kind = "media"
    BY <1>1, <1>3 DEF Latest
  <2>2. Remembered(hd)
    BY <2>1, BegunRight
  <2>3. Agrees(Context(hd), m)
    BY <2>2, ContextRight
  <2>4. x[cs] = Context(hd)
    BY <1>1, <1>2, <2>1, <2>2
  <2> QED
    BY <1>1, <1>3, <2>3, <2>4
<1>4. CASE j # i
  <2>1. j \in 1..i - 1 /\ i > j /\ i \in 1..i
    BY <1>1, <1>4
  <2>2. m.cs # cs
    BY <1>1, <2>1 DEF Latest
  <2>3. Latest(cs, j, i - 1)
    <3>1. \A l \in 1..i - 1 : l \in 1..i
      BY <1>1
    <3> QED
      BY <2>1, <3>1 DEF Latest
  <2>4. Agrees(ctx[cs], sent[j])
    BY <1>1, <2>1, <2>3 DEF CtxOk
  <2>5. x[cs] = ctx[cs]
    BY <1>1, <1>2, <2>2
  <2> QED
    BY <2>4, <2>5
<1> QED
  BY <1>3, <1>4

\* Of the first n messages nothing changes when others are sent.
LEMMA Earlier ==
    ASSUME NEW n \in Nat, n <= Len(sent), Len(sent) \in Nat,
           \A i \in 1..Len(sent) : sent'[i] = sent[i]
    PROVE  /\ \A cs, j : Latest(cs, j, n)' <=> Latest(cs, j, n)
           /\ \A x : CtxOk(x, n)' <=> CtxOk(x, n)
<1>1. \A i \in 1..n : sent'[i] = sent[i]
  OBVIOUS
<1>2. \A cs, j : Latest(cs, j, n)' <=> Latest(cs, j, n)
  BY <1>1 DEF Latest
<1>3. \A x : CtxOk(x, n)' <=> CtxOk(x, n)
  <2> TAKE x
  <2>1. ASSUME NEW cs \in Streams, NEW j \in 1..n
        PROVE  (Latest(cs, j, n)' /\ sent'[j].kind = "media" => Agrees(x[cs], sent'[j]))
               <=> (Latest(cs, j, n) /\ sent[j].kind = "media" => Agrees(x[cs], sent[j]))
    BY <1>1, <1>2
  <2> DEFINE Was(cs, j) == Latest(cs, j, n) /\ sent[j].kind = "media" => Agrees(x[cs], sent[j])
             Is(cs, j) ==
                 Latest(cs, j, n)' /\ sent'[j].kind = "media" => Agrees(x[cs], sent'[j])
  <2>2. CtxOk(x, n) <=> \A cs \in Streams : \A j \in 1..n : Was(cs, j)
    BY DEF CtxOk
  <2>3. CtxOk(x, n)' <=> \A cs \in Streams : \A j \in 1..n : Is(cs, j)
    BY DEF CtxOk, Agrees, IsTimed
  <2>4. \A cs \in Streams : \A j \in 1..n : Is(cs, j) <=> Was(cs, j)
    BY <2>1
  <2> HIDE DEF Was, Is
  <2> QED
    BY <2>2, <2>3, <2>4
<1> QED
  BY <1>2, <1>3

\* Nor does what they add up to.
LEMMA SumsStay ==
    ASSUME Types, SentInv, NEW i \in 1..Len(sent), fmle' = fmle,
           \A l \in 1..Len(sent) : sent'[l] = sent[l]
    PROVE  Sums(i)' /\ (~Relies(sent[i]))'
<1>1. i - 1 \in Nat /\ i - 1 <= Len(sent) /\ Len(sent) \in Nat
  BY DEF Types
<1>2. \A cs, j : Latest(cs, j, i - 1)' <=> Latest(cs, j, i - 1)
  BY <1>1, Earlier
<1>3. sent'[i] = sent[i] /\ \A j \in 1..i - 1 : sent'[j] = sent[j]
  BY <1>1
<1>4. Sums(i) /\ ~Relies(sent[i])
  BY DEF SentInv
<1>5. (~Relies(sent[i]))'
  BY <1>3, <1>4 DEF Relies
<1>m. PICK m : m = sent[i]
  OBVIOUS
<1>6. CASE m.type = 0 /\ m = Absolute(m.cs, m.kind, m.len, m.delta)
  <2>1. sent'[i] = m
    BY <1>m, <1>3
  <2> QED
    BY <1>5, <1>6, <2>1 DEF Sums, Absolute, Extensions
<1>7. CASE \E j \in 1..i - 1 : Latest(m.cs, j, i - 1) /\ Continues(m, sent[j])
  <2>1. PICK j \in 1..i - 1 : Latest(m.cs, j, i - 1) /\ Continues(m, sent[j])
    BY <1>7
  <2>2. Latest(m.cs, j, i - 1)' /\ sent'[j] = sent[j] /\ sent'[i] = m
    BY <1>m, <1>2, <1>3, <2>1
  <2>3. Continues(sent'[i], sent'[j])
    BY <2>1, <2>2
  <2>4. Latest(sent[i].cs, j, i - 1)'
    BY <2>2 DEF Latest
  <2> QED
    BY <1>5, <2>3, <2>4 DEF Sums
<1> QED
  BY <1>m, <1>4, <1>5, <1>6, <1>7 DEF Sums

\* A message that is begun adds up to what it continues.
LEMMA SentBegun ==
    ASSUME Types, SentInv, left = 0, NEW m \in Msgs, Begin(m), Fits(m), ~Relies(m)
    PROVE  SentInv'
<1>1. /\ sent' \in Seq(Msgs) /\ Len(sent') = Len(sent) + 1 /\ sent'[Len(sent) + 1] = m
      /\ \A i \in 1..Len(sent) : sent'[i] = sent[i]
      /\ Len(sent) \in Nat
  BY BeginAppends
<1>2. PICK n \in Nat : n = Len(sent)
  BY <1>1
<1>3. fmle' = fmle /\ last' = [last EXCEPT ![m.cs] = n + 1] /\ last \in [Streams -> 0..n]
  BY <1>2 DEF Begin, Types
<1>4. m.cs \in Streams /\ m.type \in 0..3 /\ m.kind \in Kinds
  BY MsgIs
<1>5. \A cs, j : Latest(cs, j, n)' <=> Latest(cs, j, n)
  BY <1>1, <1>2, Earlier
<1>6. ASSUME NEW i \in 1..n PROVE Sums(i)' /\ (~Relies(sent[i]))'
  <2>1. i \in 1..Len(sent) /\ fmle' = fmle
    BY <1>2, <1>3
  <2> QED
    BY <1>1, <2>1, SumsStay
<1>7. (~Relies(sent[n + 1]))'
  BY <1>1, <1>2, <1>3 DEF Relies
<1>8. Sums(n + 1)'
  <2>0. sent'[n + 1] = m /\ (n + 1) - 1 = n
    BY <1>1, <1>2
  <2>1. CASE m.type = 0 /\ m = Absolute(m.cs, m.kind, m.len, m.delta)
    BY <2>0, <2>1 DEF Sums
  <2>2. CASE m.type # 0
    <3>1. PICK j \in 0..n : j = last[m.cs]
      BY <1>3, <1>4
    <3>2. /\ m.type \in 1..3 /\ j # 0 /\ m = Relative(sent[j], m.type, m.kind, m.len, m.delta)
          /\ m.type \in {2, 3} => m.kind = sent[j].kind /\ m.len = sent[j].len
          /\ m.type = 3 => m.delta = sent[j].delta
      BY <2>2, <3>1 DEF Fits
    <3>3. m.type \in {2, 3} => m.kind = "media"
      BY <1>4 DEF Relies, Kinds
    <3>4. Continues(m, sent[j])
      BY <3>2, <3>3 DEF Continues
    <3>5. j \in 1..n /\ j \in 1..(n + 1) - 1
      BY <2>0, <3>1, <3>2
    <3>6. Latest(m.cs, j, n)
      BY <1>2, <1>4, <3>1, <3>2 DEF SentInv
    <3>7. Latest(m.cs, j, n)' /\ sent'[j] = sent[j]
      BY <1>1, <1>2, <1>5, <3>5, <3>6
    <3>8. Latest(sent[n + 1].cs, j, (n + 1) - 1)'
      BY <2>0, <3>7 DEF Latest
    <3>9. Continues(sent'[n + 1], sent'[j])
      BY <2>0, <3>4, <3>7
    <3> QED
      BY <3>5, <3>8, <3>9 DEF Sums
  <2> QED
    BY <2>1, <2>2 DEF Fits
<1>9. ASSUME NEW cs \in Streams, last'[cs] # 0 PROVE Latest(cs, last[cs], n + 1)'
  <2>1. CASE cs = m.cs
    <3>1. last'[cs] = n + 1 /\ n + 1 \in 1..n + 1 /\ \A l \in 1..n + 1 : ~(l > n + 1)
      BY <1>2, <1>3, <2>1
    <3>2. sent'[n + 1].cs = cs
      BY <1>1, <1>2, <2>1
    <3>3. Latest(cs, n + 1, n + 1)'
      BY <3>1, <3>2 DEF Latest
    <3> QED
      BY <3>1, <3>3 DEF Latest
  <2>2. CASE cs # m.cs
    <3>1. last'[cs] = last[cs] /\ last[cs] # 0
      BY <1>3, <1>9, <2>2
    <3>2. PICK j \in 0..n : j = last[cs]
      BY <1>3
    <3>3. Latest(cs, j, n)'
      BY <1>2, <1>5, <3>1, <3>2 DEF SentInv
    <3>4. j \in 1..n + 1
      BY <3>1, <3>2
    <3>5. \A l \in 1..n + 1 : l \in 1..n \/ l = n + 1
      OBVIOUS
    <3>6. sent'[n + 1].cs # cs
      BY <1>1, <1>2, <2>2
    <3>7. Latest(cs, j, n + 1)'
      BY <3>3, <3>4, <3>5, <3>6 DEF Latest
    <3> QED
      BY <3>1, <3>2, <3>7 DEF Latest
  <2> QED
    BY <2>1, <2>2
<1>10. \A i \in 1..n + 1 : i \in 1..n \/ i = n + 1
  OBVIOUS
<1>11. Len(sent') = n + 1
  BY <1>1, <1>2
<1>12. \A i \in 1..Len(sent') : (Sums(i) /\ ~Relies(sent[i]))'
  <2> TAKE i \in 1..Len(sent')
  <2>1. CASE i \in 1..n
    BY <1>6, <2>1
  <2>2. CASE i = n + 1
    BY <1>7, <1>8, <2>2
  <2> QED
    BY <1>10, <1>11, <2>1, <2>2
<1>13. \A cs \in Streams : (last[cs] # 0 => Latest(cs, last[cs], Len(sent)))'
  BY <1>9, <1>11 DEF Latest
<1> QED
  BY <1>12, <1>13 DEF SentInv

\* The parser's steps say nothing of what was sent.
LEMMA SentKept ==
    ASSUME Types, SentInv, UNCHANGED <<fmle, last, sent>>
    PROVE  SentInv'
<1>1. sent' = sent /\ last' = last /\ fmle' = fmle
  OBVIOUS
<1>2. \A i \in 1..Len(sent) : Sums(i)' /\ (~Relies(sent[i]))'
  BY <1>1, SumsStay
<1>3. Len(sent) \in Nat
  BY DEF Types
<1>4. \A cs, j : Latest(cs, j, Len(sent))' <=> Latest(cs, j, Len(sent))
  BY <1>1 DEF Latest
<1>5. \A cs \in Streams : last'[cs] # 0 => Latest(cs, last[cs], Len(sent))'
  BY <1>1, <1>4 DEF SentInv
<1> QED
  BY <1>1, <1>2, <1>5 DEF SentInv

\* What was delivered stays right.
LEMMA DoneStays ==
    ASSUME Types, Done, Len(delivered) <= Len(sent), delivered' = delivered,
           \A i \in 1..Len(sent) : sent'[i] = sent[i]
    PROVE  Done'
<1>1. Len(delivered) \in Nat /\ Len(sent) \in Nat
  BY DEF Types
<1>2. \A i \in 1..Len(delivered) : sent'[i] = sent[i]
  BY <1>1
<1> SUFFICES ASSUME NEW i \in 1..Len(delivered)
             PROVE  (Parsed(delivered[i], sent[i]) /\ HasPieces(delivered[i], i, sent[i].len))'
  BY DEF Done
<1>3. Parsed(delivered[i], sent[i]) /\ HasPieces(delivered[i], i, sent[i].len)
  BY DEF Done
<1>4. sent'[i] = sent[i] /\ delivered'[i] = delivered[i]
  BY <1>2
<1> QED
  BY <1>3, <1>4 DEF Parsed, IsTimed, HasPieces, Piece

\* Nothing changes for the parser when the client sends.
LEMMA ClientInStep ==
    ASSUME Types, Chained(Stream), InStep, pc = "recv",
           NEW m \in Msgs, NEW id \in Nat, NEW k \in Nat, Appends(m, id, k),
           UNCHANGED <<pc, ctx, savedCtx, mh, delivered>>
    PROVE  InStep'
<1>1. /\ taken = <<>> /\ taken' = taken /\ Len(delivered) <= Len(sent) /\ Done
      /\ Ready(1, "header") /\ CtxOk(ctx, Len(delivered))
  BY DEF InStep, Appends
<1>2. /\ Len(sent) <= Len(sent') /\ Len(sent') \in Nat /\ Len(sent) \in Nat
      /\ Len(delivered) \in Nat
      /\ \A i \in 1..Len(sent) : sent'[i] = sent[i]
  BY DEF Types, Appends
<1>3. Done'
  BY <1>1, <1>2, DoneStays
<1>4. PosAt(Stream, 1)' = PosAt(Stream, 1)
  <2>1. 1 \in 1..Len(Stream) + 1
    BY StreamIs
  <2> QED
    BY <2>1, ClientChains
<1>5. Len(taken) + 1 = 1 /\ Len(taken') + 1 = 1
  BY <1>1
<1>6. Ready(1, "header")'
  BY <1>1, <1>4, <1>5 DEF Ready, Cur
<1>7. CtxOk(ctx, Len(delivered))'
  <2>1. PICK n \in Nat : n = Len(delivered)
    BY <1>2
  <2>2. \A x : CtxOk(x, n)' <=> CtxOk(x, n)
    BY <1>1, <1>2, <2>1, Earlier
  <2>3. PICK x : x = ctx
    OBVIOUS
  <2>4. CtxOk(x, n)'
    BY <1>1, <2>1, <2>2, <2>3
  <2> QED
    BY <2>1, <2>3, <2>4 DEF CtxOk
<1>8. Len(delivered') <= Len(sent')
  BY <1>1, <1>2
<1> QED
  BY <1>1, <1>3, <1>6, <1>7, <1>8 DEF InStep

\* What the parser's steps that only move units leave alone.
LEMMA Frame ==
    ASSUME Chained(Stream), Stream' = Stream, UNCHANGED client
    PROVE  /\ \A i : PosAt(Stream, i)' = PosAt(Stream, i)
           /\ \A x, n : CtxOk(x, n)' <=> CtxOk(x, n)
           /\ UNCHANGED <<fmle, last, left, sent, relied>>
<1>1. UNCHANGED <<fmle, last, left, sent, relied>>
  BY DEF client
<1>2. \A x, n : CtxOk(x, n)' <=> CtxOk(x, n)
  BY <1>1 DEF CtxOk, Latest, Agrees, IsTimed
<1> QED
  BY <1>1, <1>2, ChainSame

\* A turn that is undone is back where it began.
LEMMA UndoInStep ==
    ASSUME Types, Chained(Stream), InStep, pc \in {"header", "body", "more"}, NotEnough
    PROVE  InStep'
<1>1. Stream' = Stream /\ taken' = <<>>
  BY UndoKeeps
<1>2. /\ pc' = "recv" /\ ctx' = savedCtx
      /\ UNCHANGED <<client, wire, savedCtx, delivered>>
  BY DEF NotEnough, restoreContext
<1>3. /\ \A i : PosAt(Stream, i)' = PosAt(Stream, i)
      /\ \A x, n : CtxOk(x, n)' <=> CtxOk(x, n)
      /\ sent' = sent
  BY <1>1, <1>2, Frame
<1>4. Len(delivered) <= Len(sent) /\ Done /\ Saved
  BY DEF InStep
<1>5. Done'
  BY <1>2, <1>3, <1>4, DoneStays
<1>6. Len(taken') + 1 = 1
  BY <1>1
<1>7. Ready(1, "header")'
  BY <1>2, <1>3, <1>4, <1>6 DEF Ready, Saved, Cur
<1>8. CtxOk(ctx, Len(delivered))'
  <2>1. PICK x : x = savedCtx
    OBVIOUS
  <2>2. PICK n : n = Len(delivered)
    OBVIOUS
  <2>3. CtxOk(x, n)'
    BY <1>3, <1>4, <2>1, <2>2 DEF Saved
  <2> QED
    BY <1>2, <2>1, <2>2, <2>3 DEF CtxOk
<1> QED
  BY <1>1, <1>2, <1>3, <1>4, <1>5, <1>7, <1>8 DEF InStep

LEMMA RecvInStep ==
    ASSUME Types, Chained(Stream), InStep, NEW n \in 1..Len(wire), recv(n)
    PROVE  InStep'
<1>1. Stream' = Stream
  BY RecvKeeps
<1>2. /\ pc = "recv" /\ pc' = "turn"
      /\ UNCHANGED <<client, taken, ctx, savedCtx, mh, delivered>>
  BY DEF recv
<1>3. /\ \A i : PosAt(Stream, i)' = PosAt(Stream, i)
      /\ \A x, l : CtxOk(x, l)' <=> CtxOk(x, l)
      /\ sent' = sent
  BY <1>1, <1>2, Frame
<1>4. /\ Len(delivered) <= Len(sent) /\ Done
      /\ Ready(1, "header") /\ CtxOk(ctx, Len(delivered))
  BY <1>2 DEF InStep
<1>5. Done'
  BY <1>2, <1>3, <1>4, DoneStays
<1>6. Ready(1, "header")'
  BY <1>2, <1>3, <1>4 DEF Ready, Cur
<1>7. CtxOk(ctx, Len(delivered))'
  <2>1. PICK x : x = ctx
    OBVIOUS
  <2>2. PICK l : l = Len(delivered)
    OBVIOUS
  <2>3. CtxOk(x, l)'
    BY <1>3, <1>4, <2>1, <2>2
  <2> QED
    BY <1>2, <2>1, <2>2, <2>3 DEF CtxOk
<1> QED
  BY <1>2, <1>3, <1>4, <1>5, <1>6, <1>7 DEF InStep

\* Each turn begins where the one before ended.
LEMMA StartInStep ==
    ASSUME Types, Chained(Stream), InStep, startTurn
    PROVE  InStep'
<1>1. /\ pc = "turn" /\ pc' \in {"recv", "header"} /\ taken' = <<>>
      /\ pc' = "header" => savedCtx' = ctx
      /\ UNCHANGED <<client, ctx, delivered>>
  BY DEF startTurn
<1>2. PosAt(Stream, 1)' = PosAt(Stream, Len(taken) + 1)
  BY ChainTurn
<1>3. /\ Len(delivered) <= Len(sent) /\ Done
      /\ Ready(1, "header") /\ CtxOk(ctx, Len(delivered))
  BY <1>1 DEF InStep
<1>4. sent' = sent
  BY <1>1 DEF client
<1>5. Done'
  BY <1>1, <1>3, <1>4, DoneStays
<1>6. PosAt(Stream, 1)' = <<Cur, 1, "header">> /\ Cur' = Cur
  BY <1>1, <1>2, <1>3 DEF Ready, Cur
<1>7. Len(taken') + 1 = 1
  BY <1>1
<1>8. Ready(1, "header")'
  BY <1>6, <1>7 DEF Ready
<1>9. /\ CtxOk(ctx, Len(delivered))'
      /\ pc' = "header" => CtxOk(savedCtx, Len(delivered))'
  BY <1>1, <1>3, <1>4 DEF CtxOk, Latest, Agrees, IsTimed
<1>10. pc' = "header" => Saved'
  BY <1>6, <1>9 DEF Saved, Cur
<1> QED
  BY <1>1, <1>3, <1>4, <1>5, <1>8, <1>9, <1>10 DEF InStep

\* A header that is read leads to the piece of its chunk.
LEMMA HeaderPassed ==
    ASSUME Types, Chained(Stream), rb # <<>>, IsHeader, HeaderThere(hd),
           HasExt(hd) <=> Extends(sent[hd.id], hd.k)
    PROVE  PosAt(Stream, Len(taken) + HeaderSize(hd) + 1) = <<hd.id, hd.k, "piece">>
<1>1. PICK n \in Nat : n = Len(taken)
  BY DEF Types
<1>2. PICK s : s = Stream
  OBVIOUS
<1>3. hd.u = "header" /\ PosAt(s, n + 2) = After(hd)
  BY <1>1, <1>2, Ahead DEF IsHeader
<1>4. CASE ~HasExt(hd)
  <2>1. HeaderSize(hd) = 1 /\ n + 1 + 1 = n + 2
    BY <1>1, <1>4 DEF HeaderSize
  <2> QED
    BY <1>1, <1>2, <1>3, <1>4, <2>1 DEF After
<1>5. CASE HasExt(hd)
  <2>1. HeaderSize(hd) = 2 /\ n + 2 + 1 = (n + 2) + 1 /\ Len(rb) >= 2
    BY <1>1, <1>5, ExtThere DEF HeaderSize
  <2>2. IsUnit(rb[2]) /\ PosOf(rb[2]) = <<hd.id, hd.k, "ext">>
    BY <1>3, <1>5, <2>1, Ahead DEF After
  <2>3. /\ s \in Seq(AllUnits) /\ Len(rb) \in Nat /\ Len(s) >= n + Len(rb)
        /\ \A i \in 1..Len(rb) : s[n + i] = rb[i]
    BY <1>1, <1>2, StreamIs
  <2>4. s[n + 2] = rb[2] /\ n + 2 \in 1..Len(s)
    BY <1>1, <2>1, <2>3
  <2>5. PosAt(s, (n + 2) + 1) = After(rb[2])
    BY <1>2, <2>4 DEF Chained
  <2>6. After(rb[2]) = <<hd.id, hd.k, "piece">>
    BY <2>2 DEF PosOf, After
  <2> QED
    BY <1>1, <1>2, <2>1, <2>5, <2>6
<1> QED
  BY <1>4, <1>5

\* The header of the current message is read.
LEMMA HeaderInStep ==
    ASSUME Types, Chained(Stream), SentInv, InStep, readHeader, HeaderThere(hd)
    PROVE  InStep'
<1>1. /\ rb # <<>> /\ IsHeader /\ pc = "header"
      /\ Read(HeaderSize(hd)) /\ UNCHANGED <<client, wire, savedCtx, delivered>>
      /\ IF Remembered(hd)
            THEN ctx' = [ctx EXCEPT ![hd.cs] = Context(hd)] /\ mh' = Begun(hd, Context(hd))
            ELSE ctx' = ctx /\ mh' = Begun(hd, Own(hd))
      /\ pc' = IF mh'.len = -1 THEN "lost" ELSE "body"
  BY HeaderRead
<1>2. /\ Len(delivered) <= Len(sent) /\ Done /\ Saved /\ taken = <<>>
      /\ Ready(1, "header") /\ CtxOk(ctx, Len(delivered)) /\ Len(delivered) \in Nat
  BY <1>1 DEF InStep, Types
<1>3. hd.id = Cur /\ hd.k = 1
  BY <1>1, <1>2, Ahead DEF Ready, PosOf
<1>4. PICK i \in 1..Len(sent) : i = Cur /\ i = Len(delivered) + 1 /\ Len(delivered) = i - 1
  BY <1>1, <1>2, <1>3, HeaderAhead DEF Cur
<1>5. PICK m \in Msgs : m = sent[i]
  BY DEF Types
<1>6. AtFirst(i, m)
  BY <1>1, <1>2, <1>3, <1>4, <1>5 DEF AtFirst
<1>7. HeaderSize(hd) \in Nat /\ HeaderSize(hd) <= Len(rb)
  BY <1>1, HeaderFitsIn
<1>8. wire' = wire
  BY <1>1
<1>9. Stream' = Stream /\ Len(taken') = Len(taken) + HeaderSize(hd)
  BY <1>1, <1>7, <1>8, ReadKeeps
<1>10. UNCHANGED client
  BY <1>1
<1>11. /\ \A l : PosAt(Stream, l)' = PosAt(Stream, l)
       /\ \A x, n : CtxOk(x, n)' <=> CtxOk(x, n)
       /\ sent' = sent
  BY <1>9, <1>10, Frame
<1>12. Done'
  BY <1>1, <1>2, <1>11, DoneStays
<1>13. Parsed(mh', m) /\ mh'.body = <<>>
  <2>1. mh'.body = <<>>
    BY <1>1 DEF Begun
  <2> QED
    BY <1>1, <1>6, <2>1, BegunRight
<1>14. pc' = "body"
  <2>1. m.len \in Nat
    BY MsgIs
  <2> QED
    BY <1>1, <1>13, <2>1 DEF Parsed
<1>15. CtxOk(ctx, i)'
  <2>1. PICK x : x = IF Remembered(hd) THEN [ctx EXCEPT ![hd.cs] = Context(hd)] ELSE ctx
    OBVIOUS
  <2>2. CtxOk(x, i)
    BY <1>6, <2>1, CtxStep
  <2>3. x = ctx'
    BY <1>1, <2>1
  <2>4. CtxOk(x, i)'
    BY <1>11, <2>2
  <2> QED
    BY <2>3, <2>4 DEF CtxOk
<1>16. PosAt(Stream, Len(taken) + HeaderSize(hd) + 1) = <<i, 1, "piece">>
  <2>1. HasExt(hd) <=> Extends(sent[hd.id], hd.k)
    BY <1>3, <1>4, <1>5, <1>6, FirstIs
  <2> QED
    BY <1>1, <1>3, <1>4, <2>1, HeaderPassed
<1>17. Cur' = i
  BY <1>1, <1>4 DEF Cur
<1>18. (Ready(1, "piece"))'
  BY <1>9, <1>11, <1>16, <1>17 DEF Ready
<1>19. Saved'
  <2>1. PICK x : x = savedCtx
    OBVIOUS
  <2>2. PICK n : n = Len(delivered)
    OBVIOUS
  <2>3. CtxOk(x, n)'
    BY <1>2, <1>11, <2>1, <2>2 DEF Saved
  <2>4. CtxOk(savedCtx, Len(delivered))'
    BY <1>1, <2>1, <2>2, <2>3 DEF CtxOk
  <2>5. PosAt(Stream, 1)' = <<Cur, 1, "header">>
    BY <1>2, <1>11 DEF Saved
  <2> QED
    BY <1>4, <1>17, <2>4, <2>5 DEF Saved
<1>20. Halfway'
  <2>1. Parsed(mh, sent[Cur])'
    BY <1>5, <1>11, <1>13, <1>17 DEF Parsed, IsTimed
  <2>2. Len(mh'.body) = 0 /\ Len(mh'.body) + 1 = 1
    BY <1>13
  <2>3. HasPieces(mh, Cur, Len(mh.body))'
    BY <2>2 DEF HasPieces
  <2>4. m.len \in Nat \ {0} /\ sent'[i] = m
    BY <1>5, <1>11, MsgIs
  <2>5. Len(mh'.body) < sent'[i].len
    BY <2>2, <2>4
  <2>6. CtxOk(ctx, Cur)'
    BY <1>15, <1>17 DEF CtxOk
  <2>7. (Ready(Len(mh.body) + 1, "piece"))'
    BY <1>18, <2>2 DEF Ready
  <2>8. i \in 1..Len(sent')
    BY <1>11
  <2> QED
    BY <1>14, <1>17, <2>1, <2>3, <2>5, <2>6, <2>7, <2>8 DEF Halfway
<1> QED
  BY <1>1, <1>2, <1>11, <1>12, <1>14, <1>19, <1>20 DEF InStep

\* What a body is begun with does not change.
LEMMA SavedStays ==
    ASSUME Saved, Len(delivered) \in Nat, UNCHANGED <<savedCtx, delivered>>,
           \A l : PosAt(Stream, l)' = PosAt(Stream, l),
           \A x, n : CtxOk(x, n)' <=> CtxOk(x, n)
    PROVE  Saved'
<1>1. PICK x : x = savedCtx
  OBVIOUS
<1>2. PICK n : n = Len(delivered)
  OBVIOUS
<1>3. CtxOk(x, n)'
  BY <1>1, <1>2 DEF Saved
<1>4. CtxOk(savedCtx, Len(delivered))'
  BY <1>1, <1>2, <1>3 DEF CtxOk
<1>5. PosAt(Stream, 1)' = <<Cur, 1, "header">>
  BY DEF Saved
<1>6. Cur' = Cur
  BY DEF Cur
<1> QED
  BY <1>4, <1>5, <1>6 DEF Saved

\* The next piece of the current message is taken.
LEMMA BodyInStep ==
    ASSUME Types, Chained(Stream), InStep, readBody
    PROVE  InStep'
<1>1. pc = "body" /\ rb # <<>> /\ TakePiece
  BY DEF readBody
<1>2. /\ Read(1) /\ UNCHANGED <<client, wire, ctx, savedCtx>>
      /\ IF Len(mh'.body) = mh.len
            THEN pc' = "turn" /\ delivered' = Append(delivered, mh')
            ELSE pc' = "more" /\ UNCHANGED delivered
  BY <1>1 DEF TakePiece
<1>3. /\ mh' \in Parses /\ mh'.body = Append(mh.body, hd) /\ mh.body \in Bodies
      /\ mh'.cs = mh.cs /\ mh'.kind = mh.kind /\ mh'.len = mh.len
      /\ mh'.timestamp = mh.timestamp /\ mh'.streamId = mh.streamId
  BY <1>1, PieceTaken
<1>4. Len(delivered) <= Len(sent) /\ Done /\ Saved /\ Halfway /\ Len(delivered) \in Nat
  BY <1>1 DEF InStep, Types
<1>5. PICK i \in 1..Len(sent) : i = Cur /\ i = Len(delivered) + 1
  BY <1>4 DEF Halfway, Cur
<1>6. PICK m \in Msgs : m = sent[i]
  BY DEF Types
<1>7. PICK n \in Nat : n = Len(mh.body)
  BY <1>3 DEF Bodies
<1>8. m.len \in Nat \ {0} /\ n < m.len
  BY <1>4, <1>5, <1>6, <1>7, MsgIs DEF Halfway
<1>9. /\ Parsed(mh, m) /\ HasPieces(mh, i, n) /\ CtxOk(ctx, i) /\ Ready(n + 1, "piece")
  BY <1>1, <1>4, <1>5, <1>6, <1>7 DEF Halfway
<1>10. hd.id = i /\ hd.k = n + 1 /\ hd.u = "piece" /\ IsUnit(hd)
       /\ PosAt(Stream, Len(taken) + 2) = After(hd) /\ Len(rb) >= 1 /\ Len(rb) \in Nat
  BY <1>1, <1>5, <1>9, Ahead DEF Ready, PosOf
<1>11. hd = Piece(i, n + 1)
  BY <1>10, UnitIs
<1>12. Len(mh'.body) = n + 1 /\ HasPieces(mh', i, n + 1)
  <2>1. PICK b \in Seq(AllUnits) : b = mh.body
    BY <1>3 DEF Bodies
  <2>2. PICK p \in AllUnits : p = hd
    BY <1>1 DEF Types, hd
  <2>3. /\ Len(Append(b, p)) = n + 1 /\ Append(b, p)[n + 1] = p
        /\ \A k \in 1..n : Append(b, p)[k] = b[k]
    BY <1>7, <2>1
  <2>4. \A k \in 1..n : b[k] = Piece(i, k)
    BY <1>9, <2>1 DEF HasPieces
  <2>5. \A k \in 1..n + 1 : k \in 1..n \/ k = n + 1
    OBVIOUS
  <2>6. mh'.body = Append(b, p)
    BY <1>3, <2>1, <2>2
  <2>7. \A k \in 1..n + 1 : mh'.body[k] = Piece(i, k)
    BY <1>11, <2>2, <2>3, <2>4, <2>5, <2>6
  <2> QED
    BY <2>3, <2>6, <2>7 DEF HasPieces
<1>13. Parsed(mh', m)
  BY <1>3, <1>9 DEF Parsed, IsTimed
<1>14. wire' = wire /\ UNCHANGED client
  BY <1>2
<1>15. Stream' = Stream /\ Len(taken') = Len(taken) + 1
  BY <1>2, <1>10, <1>14, ReadKeeps
<1>16. /\ \A l : PosAt(Stream, l)' = PosAt(Stream, l)
       /\ \A x, l : CtxOk(x, l)' <=> CtxOk(x, l)
       /\ sent' = sent
  BY <1>14, <1>15, Frame
<1>17. CtxOk(ctx, i)'
  <2>1. PICK x : x = ctx
    OBVIOUS
  <2>2. CtxOk(x, i)'
    BY <1>9, <1>16, <2>1
  <2> QED
    BY <1>2, <2>1, <2>2 DEF CtxOk
<1>18. After(hd) = IF n + 1 < m.len THEN <<i, (n + 1) + 1, "header">> ELSE <<i + 1, 1, "header">>
  BY <1>6, <1>10 DEF After
<1>19. Len(taken) + 2 = Len(taken') + 1
  <2>1. Len(taken) \in Nat
    BY DEF Types
  <2> QED
    BY <1>15, <2>1
<1>20. mh.len = m.len
  BY <1>9 DEF Parsed
<1>21. CASE n + 1 = m.len
  <2>1. pc' = "turn" /\ delivered' = Append(delivered, mh')
    BY <1>2, <1>12, <1>20, <1>21
  <2>2. delivered \in Seq(Parses) /\ Len(delivered) = i - 1
    BY <1>5 DEF Types
  <2>3. /\ Len(delivered') = i /\ delivered'[i] = mh'
        /\ \A l \in 1..i - 1 : delivered'[l] = delivered[l]
    BY <1>3, <2>1, <2>2
  <2>4. \A l \in 1..i : l \in 1..i - 1 \/ l = i
    OBVIOUS
  <2>5. Done'
    <3> SUFFICES ASSUME NEW l \in 1..i
                 PROVE  Parsed(delivered[l], sent[l])' /\ HasPieces(delivered[l], l, sent[l].len)'
      BY <2>3 DEF Done
    <3>1. CASE l \in 1..i - 1
      <4>1. Parsed(delivered[l], sent[l]) /\ HasPieces(delivered[l], l, sent[l].len)
        BY <1>4, <2>2, <3>1 DEF Done
      <4>2. delivered'[l] = delivered[l] /\ sent'[l] = sent[l]
        BY <1>16, <2>3, <3>1
      <4> QED
        BY <4>1, <4>2 DEF Parsed, IsTimed, HasPieces, Piece
    <3>2. CASE l = i
      <4>1. delivered'[l] = mh' /\ sent'[l] = m
        BY <1>6, <1>16, <2>3, <3>2
      <4> QED
        BY <1>12, <1>13, <1>21, <3>2, <4>1 DEF Parsed, IsTimed, HasPieces, Piece
    <3> QED
      BY <2>4, <3>1, <3>2
  <2>6. Ready(1, "header")'
    <3>1. PosAt(Stream, Len(taken) + 1)' = <<i + 1, 1, "header">>
      BY <1>8, <1>10, <1>16, <1>18, <1>19, <1>21
    <3>2. Cur' = i + 1
      BY <2>3 DEF Cur
    <3> QED
      BY <3>1, <3>2 DEF Ready
  <2>7. CtxOk(ctx, Len(delivered))'
    BY <1>17, <2>3 DEF CtxOk
  <2>8. Len(delivered') <= Len(sent')
    BY <1>16, <2>3
  <2> QED
    BY <2>1, <2>5, <2>6, <2>7, <2>8 DEF InStep
<1>22. CASE n + 1 # m.len
  <2>1. pc' = "more" /\ delivered' = delivered
    BY <1>2, <1>12, <1>20, <1>22
  <2>2. Done'
    BY <1>4, <1>16, <2>1, DoneStays
  <2>3. Saved'
    BY <1>2, <1>4, <1>16, <2>1, SavedStays
  <2>4. Cur' = i
    BY <1>5, <2>1 DEF Cur
  <2>5. n + 1 < m.len
    BY <1>8, <1>22
  <2>6. Halfway'
    <3>1. Parsed(mh, sent[Cur])'
      BY <1>6, <1>13, <1>16, <2>4 DEF Parsed, IsTimed
    <3>2. HasPieces(mh, Cur, Len(mh.body))'
      BY <1>12, <2>4 DEF HasPieces, Piece
    <3>3. CtxOk(ctx, Cur)'
      BY <1>17, <2>4 DEF CtxOk
    <3>4. PosAt(Stream, Len(taken) + 1)' = <<i, (n + 1) + 1, "header">>
      BY <1>10, <1>16, <1>18, <1>19, <2>5
    <3>5. (Ready(Len(mh.body) + 1, "header"))'
      BY <1>12, <2>4, <3>4 DEF Ready
    <3>6. Len(mh'.body) < sent'[i].len /\ Len(mh'.body) > 0 /\ i \in 1..Len(sent')
      BY <1>6, <1>12, <1>16, <2>5
    <3> QED
      BY <2>1, <2>4, <3>1, <3>2, <3>3, <3>5, <3>6 DEF Halfway
  <2>7. Len(delivered') <= Len(sent')
    BY <1>4, <1>16, <2>1
  <2> QED
    BY <2>1, <2>2, <2>3, <2>6, <2>7 DEF InStep
<1> QED
  BY <1>21, <1>22

\* The header of the current message's next chunk is read.
LEMMA MoreInStep ==
    ASSUME Types, Chained(Stream), SentInv, InStep, readMore, HeaderThere(hd)
    PROVE  InStep'
<1>1. pc = "more" /\ rb # <<>> /\ IsHeader
  BY DEF readMore
<1>2. Len(delivered) <= Len(sent) /\ Done /\ Saved /\ Halfway /\ Len(delivered) \in Nat
  BY <1>1 DEF InStep, Types
<1>3. PICK i \in 1..Len(sent) : i = Cur
  BY <1>2 DEF Halfway
<1>4. PICK m \in Msgs : m = sent[i]
  BY DEF Types
<1>5. PICK n \in Nat : n = Len(mh.body)
  <2>1. mh.body \in Seq(AllUnits)
    BY DEF Types, Parses, Bodies
  <2> QED
    BY <2>1
<1>6. /\ Parsed(mh, m) /\ HasPieces(mh, i, n) /\ CtxOk(ctx, i) /\ n > 0 /\ n < m.len
      /\ Ready(n + 1, "header")
  BY <1>1, <1>2, <1>3, <1>4, <1>5 DEF Halfway
<1>7. hd.id = i /\ hd.k = n + 1
  BY <1>1, <1>3, <1>6, Ahead DEF Ready, PosOf
<1>8. hd.chunkType = 3 /\ hd.cs = mh.cs
  <2>1. PICK h \in Headers : h = hd
    BY <1>1, HeaderAhead
  <2>2. h = Header(m, i, n + 1) /\ n + 1 # 1
    BY <1>1, <1>4, <1>6, <1>7, <2>1, HeaderAhead
  <2>3. h.cs = m.cs /\ h.chunkType = 3
    BY <2>2, HeaderIs
  <2> QED
    BY <1>6, <2>1, <2>3 DEF Parsed
<1>9. HasExt(hd) <=> Extends(sent[hd.id], hd.k)
  <2>1. CtxOk(ctx, IF hd.k = 1 THEN hd.id - 1 ELSE hd.id)
    BY <1>6, <1>7
  <2> QED
    BY <1>1, <2>1, SeenRight
<1>10. /\ Read(HeaderSize(hd)) /\ pc' = "body"
       /\ UNCHANGED <<client, wire, ctx, savedCtx, mh, delivered>>
  BY <1>8 DEF readMore
<1>11. HeaderSize(hd) \in Nat /\ HeaderSize(hd) <= Len(rb)
  BY <1>1, HeaderFitsIn
<1>12. wire' = wire /\ UNCHANGED client
  BY <1>10
<1>13. Stream' = Stream /\ Len(taken') = Len(taken) + HeaderSize(hd)
  BY <1>10, <1>11, <1>12, ReadKeeps
<1>14. /\ \A l : PosAt(Stream, l)' = PosAt(Stream, l)
       /\ \A x, l : CtxOk(x, l)' <=> CtxOk(x, l)
       /\ sent' = sent
  BY <1>12, <1>13, Frame
<1>15. Done'
  BY <1>2, <1>10, <1>14, DoneStays
<1>16. Saved'
  BY <1>2, <1>10, <1>14, SavedStays
<1>17. PosAt(Stream, Len(taken) + 1)' = <<i, n + 1, "piece">>
  BY <1>1, <1>7, <1>9, <1>13, <1>14, HeaderPassed
<1>18. Halfway'
  <2>1. Cur' = i /\ mh' = mh
    BY <1>3, <1>10 DEF Cur
  <2>2. Parsed(mh, sent[Cur])'
    BY <1>4, <1>6, <1>14, <2>1 DEF Parsed, IsTimed
  <2>3. HasPieces(mh, Cur, Len(mh.body))'
    BY <1>5, <1>6, <2>1 DEF HasPieces, Piece
  <2>4. CtxOk(ctx, Cur)'
    <3>1. PICK x : x = ctx
      OBVIOUS
    <3>2. CtxOk(x, i)'
      BY <1>6, <1>14, <3>1
    <3> QED
      BY <1>10, <2>1, <3>1, <3>2 DEF CtxOk
  <2>5. (Ready(Len(mh.body) + 1, "piece"))'
    BY <1>5, <1>17, <2>1 DEF Ready
  <2>6. Len(mh'.body) < sent'[i].len /\ i \in 1..Len(sent')
    BY <1>4, <1>5, <1>6, <1>14, <2>1
  <2> QED
    BY <1>10, <2>1, <2>2, <2>3, <2>4, <2>5, <2>6 DEF Halfway
<1>19. Len(delivered') <= Len(sent')
  BY <1>2, <1>10, <1>14
<1> QED
  BY <1>10, <1>15, <1>16, <1>18, <1>19 DEF InStep

\* Nothing but a header is where one should be.
LEMMA NeverLost ==
    ASSUME Types, Chained(Stream), InStep, pc \in {"header", "more"}, rb # <<>>
    PROVE  IsHeader
<1>1. CASE pc = "header"
  BY <1>1, Ahead DEF InStep, Ready, PosOf, IsHeader
<1>2. CASE pc = "more"
  BY <1>2, Ahead DEF InStep, Halfway, Ready, PosOf, IsHeader
<1> QED
  BY <1>1, <1>2

LEMMA SameInStep ==
    ASSUME Types, Chained(Stream), SentInv, InStep, UNCHANGED vars
    PROVE  SentInv' /\ InStep'
<1>1. UNCHANGED <<fmle, last, left, sent, relied, wire, pc, rb, taken, ctx, savedCtx, mh, delivered>>
  BY DEF vars, client
<1>2. SentInv'
  BY <1>1, SentKept
<1>3. Stream' = Stream
  BY <1>1 DEF Stream
<1>4. /\ \A l : PosAt(Stream, l)' = PosAt(Stream, l)
      /\ \A x, n : CtxOk(x, n)' <=> CtxOk(x, n)
      /\ UNCHANGED client
  <2>1. UNCHANGED client
    BY DEF vars
  <2> QED
    BY <1>3, <2>1, Frame
<1>5. Len(delivered) <= Len(sent) /\ Done /\ Len(delivered) \in Nat
  BY DEF InStep, Types
<1>6. Done'
  BY <1>1, <1>5, DoneStays
<1>7. \A k, u : Ready(k, u)' <=> Ready(k, u)
  BY <1>1, <1>4 DEF Ready, Cur
<1>8. Saved => Saved'
  BY <1>1, <1>4, <1>5, SavedStays
<1>9. \A n : CtxOk(ctx, n)' <=> CtxOk(ctx, n)
  <2>1. PICK x : x = ctx
    OBVIOUS
  <2> QED
    BY <1>1, <1>4, <2>1 DEF CtxOk
<1>10. CtxOk(ctx, Len(delivered)) => CtxOk(ctx, Len(delivered))'
  BY <1>1, <1>9 DEF CtxOk
<1>11. Halfway => Halfway'
  <2> SUFFICES ASSUME Halfway PROVE Halfway'
    OBVIOUS
  <2>1. Cur' = Cur
    BY <1>1 DEF Cur
  <2>2. CtxOk(ctx, Cur)'
    BY <1>1, <1>9, <2>1 DEF Halfway, CtxOk
  <2>3. Parsed(mh, sent[Cur])' /\ HasPieces(mh, Cur, Len(mh.body))'
    BY <1>1, <2>1 DEF Halfway, Parsed, IsTimed, HasPieces, Piece
  <2>4. Ready(Len(mh.body) + 1, IF pc = "body" THEN "piece" ELSE "header")'
    BY <1>1, <1>7 DEF Halfway, Ready
  <2> QED
    BY <1>1, <2>1, <2>2, <2>3, <2>4 DEF Halfway
<1>12. InStep'
  BY <1>1, <1>6, <1>7, <1>8, <1>10, <1>11 DEF InStep
<1> QED
  BY <1>2, <1>12

\* Every step keeps in step, as long as no command is relied on.
LEMMA NextInStep ==
    ASSUME Types, Chained(Stream), ~relied => SentInv /\ InStep, [Next]_vars, ~relied'
    PROVE  SentInv' /\ InStep'
<1>1. CASE \E cs \in Streams : ClientBegin(cs)
  <2>1. PICK cs \in Streams : ClientBegin(cs)
    BY <1>1
  <2>2. MaySend /\ left = 0
    BY <2>1, BeginIs
  <2>3. PICK m \in Msgs : Begin(m) /\ Fits(m)
    BY <2>1, BeginIs
  <2>4. ~relied /\ pc = "recv" /\ SentInv /\ InStep
    BY <2>2 DEF MaySend
  <2>5. ~Relies(m) /\ UNCHANGED <<pc, ctx, savedCtx, mh, delivered>>
    BY <2>3 DEF Begin
  <2>6. Appends(m, Len(sent) + 1, 1) /\ Len(sent) + 1 \in Nat
    BY <2>2, <2>3, BeginAppends
  <2>7. SentInv'
    BY <2>2, <2>3, <2>4, <2>5, SentBegun
  <2>8. InStep'
    BY <2>4, <2>5, <2>6, ClientInStep
  <2> QED
    BY <2>7, <2>8
<1>2. CASE ClientContinue
  <2>1. /\ ~relied /\ pc = "recv" /\ SentInv /\ InStep
        /\ UNCHANGED <<fmle, last, sent, pc, ctx, savedCtx, mh, delivered>>
    BY <1>2 DEF ClientContinue, MaySend
  <2>2. PICK m \in Msgs, k \in Nat : Appends(m, Len(sent), k)
    BY <1>2, ContinueAppends
  <2>3. Len(sent) \in Nat
    BY DEF Types
  <2>4. InStep'
    BY <2>1, <2>2, <2>3, ClientInStep
  <2> QED
    BY <2>1, <2>4, SentKept
<1>3. ASSUME UNCHANGED client, InStep' PROVE SentInv' /\ InStep'
  <2>1. ~relied /\ UNCHANGED <<fmle, last, sent>>
    BY <1>3 DEF client
  <2> QED
    BY <1>3, <2>1, SentKept
<1>4. ASSUME UNCHANGED client PROVE SentInv /\ InStep
  BY <1>4 DEF client
<1>5. ASSUME NotEnough, pc \in {"header", "body", "more"} PROVE SentInv' /\ InStep'
  BY <1>3, <1>4, <1>5, UndoInStep DEF NotEnough
<1>6. CASE \E n \in 1..Len(wire) : recv(n)
  BY <1>3, <1>4, <1>6, RecvInStep DEF recv
<1>7. CASE startTurn
  BY <1>3, <1>4, <1>7, StartInStep DEF startTurn
<1>8. CASE readHeader
  <2>1. CASE HeaderThere(hd)
    BY <1>3, <1>4, <1>8, <2>1, HeaderInStep, HeaderRead
  <2>2. CASE ~HeaderThere(hd)
    BY <1>5, <1>8, <2>2 DEF readHeader
  <2> QED
    BY <2>1, <2>2
<1>9. CASE readBody
  <2>1. UNCHANGED client
    BY <1>9 DEF readBody, TakePiece
  <2> QED
    BY <1>3, <1>4, <1>9, <2>1, BodyInStep
<1>10. CASE readMore
  <2>1. CASE HeaderThere(hd)
    <3>1. UNCHANGED client
      BY <1>10, <2>1 DEF readMore, Lost
    <3> QED
      BY <1>3, <1>4, <1>10, <2>1, <3>1, MoreInStep
  <2>2. CASE ~HeaderThere(hd)
    BY <1>5, <1>10, <2>2 DEF readMore
  <2> QED
    BY <2>1, <2>2
<1>11. CASE runsOut
  BY <1>5, <1>11 DEF runsOut
<1>12. CASE noHeader
  <2>1. UNCHANGED client
    BY <1>12 DEF noHeader, Lost
  <2>2. IsHeader
    BY <1>4, <1>12, <2>1, NeverLost DEF noHeader
  <2> QED
    BY <1>12, <2>2 DEF noHeader
<1>13. CASE over \/ UNCHANGED vars
  <2>1. UNCHANGED vars /\ UNCHANGED client
    BY <1>13 DEF over, vars
  <2> QED
    BY <1>4, <2>1, SameInStep
<1> QED
  BY <1>1, <1>2, <1>6, <1>7, <1>8, <1>9, <1>10, <1>11, <1>12, <1>13 DEF Next

IInv == Types /\ Chained(Stream) /\ (~relied => SentInv /\ InStep)

LEMMA IInvInit == Init => IInv
<1> SUFFICES ASSUME Init PROVE IInv
  OBVIOUS
<1>1. Types /\ Chained(Stream)
  BY InitTyped
<1>2. /\ taken = <<>> /\ rb = <<>> /\ wire = <<>> /\ sent = <<>> /\ delivered = <<>>
      /\ pc = "recv" /\ left = 0 /\ last = [cs \in Streams |-> 0]
  BY DEF Init
<1>3. Len(sent) = 0 /\ Len(delivered) = 0 /\ Len(taken) = 0
  BY <1>2
<1>4. SentInv
  BY <1>2, <1>3 DEF SentInv
<1>5. Len(Stream) = 0
  BY <1>1, <1>2, StreamIs
<1>6. Ready(1, "header")
  BY <1>2, <1>3, <1>5 DEF Ready, PosAt, EndPos, Cur
<1>7. InStep
  BY <1>2, <1>3, <1>6 DEF InStep, Done, CtxOk
<1> QED
  BY <1>1, <1>4, <1>7 DEF IInv

LEMMA IInvHolds == Spec => []IInv
<1>1. IInv /\ [Next]_vars => IInv'
  <2> SUFFICES ASSUME IInv, [Next]_vars PROVE IInv'
    OBVIOUS
  <2>1. Types /\ Chained(Stream) /\ (~relied => SentInv /\ InStep)
    BY DEF IInv
  <2>2. (Types /\ Chained(Stream))'
    BY <2>1, NextTyped
  <2>3. ~relied' => SentInv' /\ InStep'
    BY <2>1, NextInStep
  <2> QED
    BY <2>2, <2>3 DEF IInv
<1> QED
  BY <1>1, IInvInit, PTL DEF Spec

\* Whatever the headers leave out and wherever turns are undone, the parser
\* stays in step: each message has its own chunk stream, kind, length and
\* pieces, unless the client relied on a command's header
\* (rtmpparser.cpp:105-130, 219-283).
THEOREM FieldsAreRight == Spec => []FieldsRight
<1>1. IInv => FieldsRight
  <2> SUFFICES ASSUME IInv, ~relied
               PROVE  /\ pc # "lost"
                      /\ \A i \in DOMAIN delivered :
                            /\ delivered[i].cs = sent[i].cs
                            /\ delivered[i].kind = sent[i].kind
                            /\ delivered[i].len = sent[i].len
                            /\ delivered[i].body = [k \in 1..sent[i].len |-> Piece(i, k)]
    BY DEF FieldsRight
  <2>1. Types /\ InStep
    BY DEF IInv
  <2>2. pc # "lost" /\ Done
    BY <2>1 DEF InStep
  <2>3. ASSUME NEW i \in DOMAIN delivered
        PROVE  /\ delivered[i].cs = sent[i].cs
               /\ delivered[i].kind = sent[i].kind
               /\ delivered[i].len = sent[i].len
               /\ delivered[i].body = [k \in 1..sent[i].len |-> Piece(i, k)]
    <3>1. i \in 1..Len(delivered) /\ delivered[i] \in Parses
      BY <2>1, <2>3 DEF Types
    <3>2. Parsed(delivered[i], sent[i]) /\ HasPieces(delivered[i], i, sent[i].len)
      BY <2>2, <3>1 DEF Done
    <3>3. PICK b \in Seq(AllUnits) : b = delivered[i].body
      BY <3>1 DEF Parses, Bodies
    <3>4. b = [k \in 1..Len(b) |-> b[k]]
      BY <3>3
    <3>5. Len(b) = sent[i].len /\ \A k \in 1..sent[i].len : b[k] = Piece(i, k)
      BY <3>2, <3>3 DEF HasPieces
    <3>6. b = [k \in 1..sent[i].len |-> Piece(i, k)]
      BY <3>4, <3>5
    <3> QED
      BY <3>2, <3>3, <3>6 DEF Parsed
  <2> QED
    BY <2>2, <2>3
<1> QED
  BY <1>1, IInvHolds, PTL

\* The timestamp of a media message is the sum of what its chunk stream
\* carried since the last type 0 header, and Limit for each extension, less
\* 2^32 for each delta that does not fit into an int32_t, however often a turn
\* was undone and repeated (rtmpparser.h:14-15, rtmpparser.cpp:143-147,
\* 239-267).
THEOREM TimestampsAreRight == Spec => []TimestampsRight
<1>1. IInv => TimestampsRight
  <2> SUFFICES ASSUME IInv, ~relied, NEW i \in DOMAIN delivered, sent[i].clean
               PROVE  /\ delivered[i].timestamp = Timed(sent[i])
                      /\ delivered[i].streamId = 1
    BY DEF TimestampsRight, Timed
  <2>1. Types /\ Done
    BY DEF IInv, InStep
  <2>2. i \in 1..Len(delivered)
    BY <2>1 DEF Types
  <2>3. Parsed(delivered[i], sent[i])
    BY <2>1, <2>2 DEF Done
  <2> QED
    BY <2>3 DEF Parsed, IsTimed
<1> QED
  BY <1>1, IInvHolds, PTL
=============================================================================
