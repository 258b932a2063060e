------------------------- MODULE ChunkParserProofs -------------------------
(***************************************************************************)
(* What ChunkParser promises, for every number of streams, messages and    *)
(* sizes: the parser stays in step with the chunks, no message is lost,    *)
(* and they come out whole and in order.                                   *)
(*                                                                         *)
(* The argument.  The chunks the client has sent form a tape (IsTape): for *)
(* each chunk its units, and what the client was before and after it.      *)
(* The units of this turn, those that are unread and those on their way    *)
(* are one piece of the tape (Reads), which recv(), reading and undoing a  *)
(* turn only cut elsewhere.  The invariant (Holds) says that the turn      *)
(* began at a chunk f and is now at a chunk c, and that calls, messages,   *)
(* headers and sizes are those that belong to what the client was at c     *)
(* (Match); what the turn saved belongs to f (Undone), so that a turn that *)
(* is undone is at f again.                                                *)
(*                                                                         *)
(* Two hypotheses bound the client, and none the parser.  ResizeIn <= 1:   *)
(* it sets a chunk size with at most one message in progress; with two,    *)
(* the outer call keeps the old size.  MaxNest <= 3: with more messages    *)
(* nested, a stream's second message can be returned before its first      *)
(* (README, section 3).  The run ChunkParserNested shows the former.       *)
(***************************************************************************)
EXTENDS ChunkParser, ProofFacts, FiniteSetTheorems

-----------------------------------------------------------------------------
(* Types.                                                                  *)

ChunkSizes == {InitChunk} \union NewChunks
AnyStream == Streams \union {Control}
AnyKind == {"none", "media", "SetChunkSize"}
SizeHeader == Full(Control, "SetChunkSize", 1)
Headers == [u : {"full"}, cs : Streams, kind : {"media"}, len : Lengths]
           \union {SizeHeader} \union [u : {"type3"}, cs : Streams]
BodyUnits == [u : {"piece"}, id : Nat, k : Nat]
AllUnits == Headers \union BodyUnits
Lasts == [cs : AnyStream, len : Nat, id : Nat]
Messages == [cs : AnyStream, kind : {"media", "SetChunkSize"}, body : Seq(BodyUnits)]
Contexts == [kind : {"none", "media"}, len : Nat]

\* A call that parses a SetChunkSize has its body, a size the client may set.
IsSet(m) == m.kind = "SetChunkSize"
HasSize(m) == IsSet(m) => Len(m.body) = 1 /\ m.body[1].k \in NewChunks
Calls == {f \in [cs : AnyStream, kind : AnyKind, len : Nat, body : Seq(AllUnits),
                 chunk : ChunkSizes] :
             Len(f.body) <= f.len /\ HasSize(f) /\ (IsSet(f) => f.len = 1)}
Results == {m \in [cs : AnyStream, kind : AnyKind, body : Seq(AllUnits)] : HasSize(m)}

\* All that is read in this turn, is unread or is on its way.
Stream == taken \o (rb \o wire)

\* The header of a SetChunkSize is followed by a size.
Followed(S) ==
    \A i \in 1..Len(S) :
       S[i] = SizeHeader => i + 1 \in 1..Len(S) /\ S[i + 1] \in BodyUnits /\ S[i + 1].k \in NewChunks

Types ==
    /\ left \in [Streams -> Nat] /\ lastSent \in [Streams -> Lasts]
    /\ \A cs \in Streams : left[cs] <= lastSent[cs].len
    /\ outSize \in ChunkSizes /\ begun \in 0..MaxNest
    /\ sent \in Seq(Messages)
    /\ taken \in Seq(AllUnits) /\ rb \in Seq(AllUnits) /\ wire \in Seq(AllUnits)
    /\ Followed(Stream)
    /\ pc \in {"recv", "turn", "parse", "return", "desync"}
    /\ stack \in Seq(Calls)
    /\ stack # <<>> => pc \in {"parse", "return", "desync"}
    /\ pc = "return" => stack # <<>>
    /\ ctx \in [Streams -> Contexts] /\ savedCtx \in [Streams -> Contexts]
    /\ msgs \in Seq(Results) /\ savedMsgs \in Seq(Results) /\ delivered \in Seq(Results)
    /\ chunkSize \in ChunkSizes

\* What the assumption says of the sizes.
LEMMA SizesArePositive ==
    /\ ChunkSizes \subseteq Nat \ {0} /\ Lengths \subseteq Nat \ {0}
    /\ NewChunks \subseteq ChunkSizes /\ InitChunk \in ChunkSizes
    /\ Control \notin Streams
BY ChunkAssumption DEF ChunkAssumption, ChunkSizes

\* The kinds of units differ.
LEMMA UnitIs ==
    /\ \A h \in Headers : h.u \in {"full", "type3"}
    /\ \A p \in BodyUnits : p.u = "piece"
    /\ SizeHeader \in Headers /\ SizeHeader.u = "full" /\ SizeHeader.cs = Control
    /\ SizeHeader.kind = "SetChunkSize" /\ SizeHeader.len = 1
    /\ \A h \in Headers : h.u = "type3" => h.cs \in Streams
    /\ \A h \in Headers : h.u = "full" /\ h # SizeHeader =>
          h.cs \in Streams /\ h.kind = "media" /\ h.len \in Lengths
BY DEF Headers, BodyUnits, SizeHeader, Full

\* n pieces of a body.
ArePieces(b, id, from, n) ==
    /\ b \in Seq(BodyUnits) /\ Len(b) = n
    /\ \A i \in 1..n : b[i] = Piece(id, from + i - 1)

LEMMA PiecesAre ==
    ASSUME NEW id, id \in Nat, NEW from, from \in Nat \ {0}, NEW n, n \in Nat
    PROVE  ArePieces(Pieces(id, from, n), id, from, n)
<1>b. PICK b : b = Pieces(id, from, n)
  OBVIOUS
<1>1. \A i \in 1..n : Piece(id, from + i - 1) \in BodyUnits
  BY DEF Piece, BodyUnits
<1>2. b = [i \in 1..n |-> Piece(id, from + i - 1)]
  BY <1>b DEF Pieces
<1>3. b \in Seq(BodyUnits) /\ Len(b) = n
  BY <1>1, <1>2
<1>4. \A i \in 1..n : b[i] = Piece(id, from + i - 1)
  BY <1>2
<1> QED
  BY <1>b, <1>3, <1>4 DEF ArePieces

-----------------------------------------------------------------------------
(* What moves the units.                                                   *)

\* The stream is what is read, what is unread and what is on its way.
LEMMA StreamIs ==
    ASSUME Types
    PROVE  /\ Stream \in Seq(AllUnits)
           /\ Len(taken) \in Nat /\ Len(rb) \in Nat /\ Len(wire) \in Nat
           /\ Len(Stream) = Len(taken) + Len(rb) + Len(wire)
           /\ \A i \in 1..Len(rb) : Stream[Len(taken) + i] = rb[i]
<1> DEFINE v == rb \o wire
<1>1. taken \in Seq(AllUnits) /\ rb \in Seq(AllUnits) /\ wire \in Seq(AllUnits)
  BY DEF Types
<1>2. /\ v \in Seq(AllUnits) /\ Len(v) = Len(rb) + Len(wire)
      /\ \A i \in 1..Len(rb) + Len(wire) : v[i] = IF i <= Len(rb) THEN rb[i] ELSE wire[i - Len(rb)]
  BY <1>1, ConcatProperties
<1>3. Len(taken) \in Nat /\ Len(rb) \in Nat /\ Len(wire) \in Nat
  BY <1>1
<1> HIDE DEF v
<1>4. /\ taken \o v \in Seq(AllUnits) /\ Len(taken \o v) = Len(taken) + Len(v)
      /\ \A i \in 1..Len(taken) + Len(v) :
            (taken \o v)[i] = IF i <= Len(taken) THEN taken[i] ELSE v[i - Len(taken)]
  <2>1. taken \in Seq(AllUnits) /\ v \in Seq(AllUnits)
    BY <1>1, <1>2
  <2> QED
    BY <2>1, ConcatProperties, Zenon
<1> DEFINE s == taken \o v
<1>s. /\ s \in Seq(AllUnits) /\ Len(s) = Len(taken) + Len(v)
      /\ \A i \in 1..Len(taken) + Len(v) :
            s[i] = IF i <= Len(taken) THEN taken[i] ELSE v[i - Len(taken)]
  BY <1>4
<1>5. s = Stream
  BY DEF Stream, v
<1> HIDE DEF s
<1>6. \A i \in 1..Len(rb) : s[Len(taken) + i] = rb[i]
  <2> TAKE i \in 1..Len(rb)
  <2>1. /\ Len(taken) + i \in 1..Len(taken) + Len(v) /\ ~(Len(taken) + i <= Len(taken))
        /\ (Len(taken) + i) - Len(taken) = i /\ i \in 1..Len(rb) + Len(wire) /\ i <= Len(rb)
    BY <1>2, <1>3
  <2> QED
    BY <1>2, <1>s, <2>1
<1> QED
  BY <1>2, <1>3, <1>s, <1>5, <1>6

\* Reading n units moves them from rb to taken.
LEMMA ReadKeeps ==
    ASSUME Types, NEW n \in Nat, n <= Len(rb), Read(n), wire' = wire
    PROVE  /\ Stream' = Stream
           /\ taken' \in Seq(AllUnits) /\ rb' \in Seq(AllUnits)
           /\ Len(taken') = Len(taken) + n
<1> DEFINE a == SubSeq(rb, 1, n)
           b == SubSeq(rb, n + 1, Len(rb))
<1>1. taken \in Seq(AllUnits) /\ rb \in Seq(AllUnits) /\ wire \in Seq(AllUnits)
  BY DEF Types
<1>2. taken' = taken \o a /\ rb' = b
  BY DEF Read, Drop, Take
<1>3. (taken \o a) \o b = taken \o rb
  BY <1>1, CutMove
<1>4. a \in Seq(AllUnits) /\ b \in Seq(AllUnits) /\ Len(a) = n
  BY <1>1, CutProperties
<1> HIDE DEF a, b
<1>5. (taken \o a) \o (b \o wire) = ((taken \o a) \o b) \o wire
  <2> DEFINE t == taken \o a
  <2>1. t \in Seq(AllUnits)
    BY <1>1, <1>4, ConcatProperties
  <2> HIDE DEF t
  <2>2. t \o (b \o wire) = (t \o b) \o wire
    BY <1>1, <1>4, <2>1, ConcatAssociative, SMTT(30)
  <2> QED
    BY <2>2 DEF t
<1>6. (taken \o rb) \o wire = taken \o (rb \o wire)
  BY <1>1, ConcatAssociative
<1>7. Stream' = Stream
  BY <1>2, <1>3, <1>5, <1>6, Zenon DEF Stream
<1>8. taken \o a \in Seq(AllUnits) /\ Len(taken \o a) = Len(taken) + n
  BY <1>1, <1>4, ConcatProperties
<1> QED
  BY <1>2, <1>4, <1>7, <1>8

\* What recv() returns moves from wire to rb.
LEMMA RecvKeeps ==
    ASSUME Types, NEW n \in 1..Len(wire), recv(n)
    PROVE  Stream' = Stream /\ rb' \in Seq(AllUnits) /\ wire' \in Seq(AllUnits)
<1> DEFINE a == SubSeq(wire, 1, n)
           b == SubSeq(wire, n + 1, Len(wire))
<1>1. taken \in Seq(AllUnits) /\ rb \in Seq(AllUnits) /\ wire \in Seq(AllUnits)
  BY DEF Types
<1>2. rb' = rb \o a /\ wire' = b /\ taken' = taken
  BY DEF recv, Drop, Take
<1>n. n \in Nat /\ n <= Len(wire)
  OBVIOUS
<1>3. (rb \o a) \o b = rb \o wire
  BY <1>1, <1>n, CutMove
<1>4. a \in Seq(AllUnits) /\ b \in Seq(AllUnits)
  BY <1>1, CutProperties
<1> HIDE DEF a, b
<1>5. Stream' = Stream
  BY <1>2, <1>3, Zenon DEF Stream
<1>6. rb \o a \in Seq(AllUnits)
  BY <1>1, <1>4, ConcatProperties
<1> QED
  BY <1>2, <1>4, <1>5, <1>6

\* A turn that is undone gives back what it has read.
LEMMA UndoKeeps ==
    ASSUME Types, NotEnough
    PROVE  Stream' = Stream /\ rb' \in Seq(AllUnits) /\ taken' = <<>>
<1>1. taken \in Seq(AllUnits) /\ rb \in Seq(AllUnits) /\ wire \in Seq(AllUnits)
  BY DEF Types
<1>2. rb' = taken \o rb /\ taken' = <<>> /\ wire' = wire
  BY DEF NotEnough
<1>3. taken \o rb \in Seq(AllUnits)
  BY <1>1, ConcatProperties
<1>4. (taken \o rb) \o wire = taken \o (rb \o wire) /\ (taken \o rb) \o wire \in Seq(AllUnits)
  BY <1>1, <1>3, ConcatAssociative, ConcatProperties
<1>5. <<>> \o ((taken \o rb) \o wire) = (taken \o rb) \o wire
  BY <1>4, ConcatEmptySeq
<1>6. Stream' = Stream
  BY <1>2, <1>4, <1>5, Zenon DEF Stream
<1> QED
  BY <1>2, <1>3, <1>6

\* At the start of a turn what was read before it leaves the stream.
LEMMA TurnKeeps ==
    ASSUME Types, taken' = <<>>, rb' = rb, wire' = wire
    PROVE  /\ Stream' \in Seq(AllUnits)
           /\ Len(Stream) = Len(taken) + Len(Stream')
           /\ \A i \in 1..Len(Stream') : Stream'[i] = Stream[Len(taken) + i]
<1> DEFINE v == rb \o wire
<1>1. taken \in Seq(AllUnits) /\ rb \in Seq(AllUnits) /\ wire \in Seq(AllUnits)
  BY DEF Types
<1>2. v \in Seq(AllUnits)
  BY <1>1, ConcatProperties
<1> HIDE DEF v
<1>3. <<>> \o v = v
  BY <1>2, ConcatEmptySeq
<1>4. Stream' = v
  <2>1. Stream' = <<>> \o v
    BY DEF Stream, v
  <2> QED
    BY <1>3, <2>1
<1>5. /\ Len(taken \o v) = Len(taken) + Len(v)
      /\ \A i \in 1..Len(taken) + Len(v) :
            (taken \o v)[i] = IF i <= Len(taken) THEN taken[i] ELSE v[i - Len(taken)]
  BY <1>1, <1>2, ConcatProperties
<1>6. Stream = taken \o v
  BY DEF Stream, v
<1> DEFINE s == taken \o v
<1>7. Len(taken) \in Nat /\ Len(v) \in Nat
  BY <1>1, <1>2
<1>8. \A i \in 1..Len(v) : s[Len(taken) + i] = v[i]
  <2> TAKE i \in 1..Len(v)
  <2>1. Len(taken) + i \in 1..Len(taken) + Len(v) /\ ~(Len(taken) + i <= Len(taken))
        /\ (Len(taken) + i) - Len(taken) = i
    BY <1>7
  <2> QED
    BY <1>5, <2>1
<1> HIDE DEF s
<1> QED
  BY <1>2, <1>4, <1>5, <1>6, <1>8 DEF s

\* The client sends a header and a part of a body.
Sends(h, b) ==
    /\ h \in Headers /\ b \in Seq(BodyUnits)
    /\ h = SizeHeader => Len(b) = 1 /\ b[1].k \in NewChunks
    /\ wire' = wire \o <<h>> \o b
    /\ UNCHANGED <<taken, rb>>

\* They come at the end of the stream.
LEMMA ClientSends ==
    ASSUME Types, NEW h, NEW b, Sends(h, b)
    PROVE  /\ wire' \in Seq(AllUnits)
           /\ Len(Stream') = Len(Stream) + 1 + Len(b)
           /\ \A i \in 1..Len(Stream) : Stream'[i] = Stream[i]
           /\ Stream'[Len(Stream) + 1] = h
           /\ \A j \in 1..Len(b) : Stream'[Len(Stream) + 1 + j] = b[j]
           /\ Followed(Stream)'
<1>s. PICK s : s = Stream
  OBVIOUS
<1>t. PICK t : t = Stream'
  OBVIOUS
<1> DEFINE e == <<h>>
           c == e \o b
           r == rb \o wire
<1>1. taken \in Seq(AllUnits) /\ rb \in Seq(AllUnits) /\ wire \in Seq(AllUnits)
  BY DEF Types
<1>2. /\ h \in Headers /\ b \in Seq(BodyUnits) /\ taken' = taken /\ rb' = rb
      /\ wire' = (wire \o e) \o b
      /\ h = SizeHeader => Len(b) = 1 /\ b[1].k \in NewChunks
  BY DEF Sends
<1>3. /\ e \in Seq(AllUnits) /\ Len(e) = 1 /\ e[1] = h
      /\ b \in Seq(AllUnits) /\ Len(b) \in Nat /\ \A j \in 1..Len(b) : b[j] \in BodyUnits
  BY <1>2 DEF AllUnits
<1> HIDE DEF e
<1>4. /\ c \in Seq(AllUnits) /\ Len(c) = Len(e) + Len(b)
      /\ \A i \in 1..Len(e) + Len(b) : c[i] = IF i <= Len(e) THEN e[i] ELSE b[i - Len(e)]
  BY <1>3, ConcatProperties, Zenon
<1>5. /\ Len(c) = 1 + Len(b) /\ c[1] = h
      /\ \A j \in 1..Len(b) : c[1 + j] = b[j]
  <2>1. 1 \in 1..1 + Len(b)
    BY <1>3
  <2>2. \A j \in 1..Len(b) : 1 + j \in 1..1 + Len(b) /\ ~(1 + j <= 1) /\ (1 + j) - 1 = j
    BY <1>3
  <2> QED
    BY <1>3, <1>4, <2>1, <2>2
<1>6. (wire \o e) \o b = wire \o c
  <2>1. wire \in Seq(AllUnits) /\ e \in Seq(AllUnits) /\ b \in Seq(AllUnits)
    BY <1>1, <1>3
  <2> QED
    BY <2>1, ConcatAssociative
<1> HIDE DEF c
<1>7. r \in Seq(AllUnits) /\ rb \o (wire \o c) = r \o c
  <2>1. r \in Seq(AllUnits)
    BY <1>1, ConcatProperties, Zenon
  <2>2. (rb \o wire) \o c = rb \o (wire \o c)
    <3>1. rb \in Seq(AllUnits) /\ wire \in Seq(AllUnits) /\ c \in Seq(AllUnits)
      BY <1>1, <1>4
    <3> QED
      BY <3>1, ConcatAssociative
  <2> QED
    BY <2>1, <2>2, Zenon
<1> HIDE DEF r
<1>8. t = s \o c /\ s \in Seq(AllUnits)
  <2>1. t = taken \o (r \o c) /\ s = taken \o r
    BY <1>2, <1>6, <1>7, <1>s, <1>t, Zenon DEF Stream, r
  <2>2. (taken \o r) \o c = taken \o (r \o c)
    <3>1. taken \in Seq(AllUnits) /\ r \in Seq(AllUnits) /\ c \in Seq(AllUnits)
      BY <1>1, <1>4, <1>7
    <3> QED
      BY <3>1, ConcatAssociative
  <2>3. taken \o r \in Seq(AllUnits)
    BY <1>1, <1>7, ConcatProperties, Zenon
  <2> QED
    BY <2>1, <2>2, <2>3, Zenon
<1>9. wire' \in Seq(AllUnits)
  <2>1. wire \o c \in Seq(AllUnits)
    BY <1>1, <1>4, ConcatProperties, Zenon
  <2> QED
    BY <1>2, <1>6, <2>1, Zenon
<1>10. /\ s \o c \in Seq(AllUnits) /\ Len(s \o c) = Len(s) + Len(c)
       /\ \A i \in 1..Len(s) + Len(c) : (s \o c)[i] = IF i <= Len(s) THEN s[i] ELSE c[i - Len(s)]
  <2>1. s \in Seq(AllUnits) /\ c \in Seq(AllUnits)
    BY <1>4, <1>8
  <2> QED
    BY <2>1, ConcatProperties, Zenon
<1>11. PICK n \in Nat : n = Len(s)
  BY <1>8
<1>12. PICK m \in Nat : m = Len(b)
  BY <1>3
<1>13. /\ Len(t) = n + (1 + m)
       /\ \A i \in 1..n + (1 + m) : t[i] = IF i <= n THEN s[i] ELSE c[i - n]
  BY <1>5, <1>8, <1>10, <1>11, <1>12
<1>14. \A i \in 1..n : t[i] = s[i]
  <2>1. \A i \in 1..n : i \in 1..n + (1 + m) /\ i <= n
    OBVIOUS
  <2> QED
    BY <1>13, <2>1
<1>15. t[n + 1] = h
  <2>1. n + 1 \in 1..n + (1 + m) /\ ~(n + 1 <= n) /\ (n + 1) - n = 1
    OBVIOUS
  <2> QED
    BY <1>5, <1>13, <2>1
<1>16. \A j \in 1..m : t[n + 1 + j] = b[j]
  <2> TAKE j \in 1..m
  <2>1. n + 1 + j \in 1..n + (1 + m) /\ ~(n + 1 + j <= n) /\ (n + 1 + j) - n = 1 + j
    OBVIOUS
  <2>2. t[n + 1 + j] = c[1 + j]
    BY <1>13, <2>1
  <2> QED
    BY <1>5, <1>12, <2>2
<1>17. Followed(t)
  <2> SUFFICES ASSUME NEW i \in 1..Len(t), t[i] = SizeHeader
               PROVE  i + 1 \in 1..Len(t) /\ t[i + 1] \in BodyUnits /\ t[i + 1].k \in NewChunks
    BY DEF Followed
  <2>1. i \in 1..n \/ i = n + 1 \/ (i - n - 1 \in 1..m /\ i = n + 1 + (i - n - 1))
    BY <1>13
  <2>2. CASE i \in 1..n
    <3>1. s[i] = SizeHeader
      BY <1>14, <2>2
    <3>2. Followed(s)
      BY <1>s DEF Types
    <3>3. i + 1 \in 1..n /\ s[i + 1] \in BodyUnits /\ s[i + 1].k \in NewChunks
      BY <1>11, <2>2, <3>1, <3>2 DEF Followed
    <3>4. i + 1 \in 1..Len(t)
      BY <1>13, <3>3
    <3> QED
      BY <1>14, <3>3, <3>4
  <2>3. CASE i = n + 1
    <3>1. h = SizeHeader
      BY <1>15, <2>3
    <3>2. m = 1 /\ b[1].k \in NewChunks /\ b[1] \in BodyUnits
      BY <1>2, <1>3, <1>12, <3>1
    <3>3. i + 1 = n + 1 + 1 /\ i + 1 \in 1..Len(t) /\ 1 \in 1..m
      BY <1>13, <2>3, <3>2
    <3>4. t[i + 1] = b[1]
      BY <1>16, <3>3
    <3> QED
      BY <3>2, <3>3, <3>4
  <2>4. CASE i - n - 1 \in 1..m /\ i = n + 1 + (i - n - 1)
    <3>1. t[i] = b[i - n - 1]
      BY <1>16, <2>4
    <3>2. t[i].u = "piece"
      BY <1>3, <1>12, <2>4, <3>1, UnitIs
    <3> QED
      BY <3>2, UnitIs
  <2> QED
    BY <2>1, <2>2, <2>3, <2>4
<1>18. /\ n = Len(Stream) /\ m = Len(b) /\ s = Stream /\ t = Stream'
  BY <1>s, <1>t, <1>11, <1>12
<1>19. n + (1 + m) = n + 1 + m
  OBVIOUS
<1>20. Followed(Stream)'
  BY <1>17, <1>t DEF Followed
<1> QED
  BY <1>9, <1>13, <1>14, <1>15, <1>16, <1>18, <1>19, <1>20

-----------------------------------------------------------------------------
(* Each step keeps the types.                                              *)

LEMMA LeastIs ==
    ASSUME NEW a \in Nat, NEW b \in Nat
    PROVE  /\ Least(a, b) \in Nat /\ Least(a, b) <= a /\ Least(a, b) <= b
           /\ a # 0 /\ b # 0 => Least(a, b) # 0
BY DEF Least

\* What the types say of the units is about taken, rb and wire only.
LEMMA TypesFollow ==
    ASSUME Types, UNCHANGED <<taken, rb, wire>>
    PROVE  Followed(Stream)'
BY DEF Types, Stream, Followed

LEMMA BeginTypes ==
    ASSUME Types, NEW cs \in Streams, NEW len \in Lengths, Begin(cs, len)
    PROVE  Types'
<1> DEFINE id == Len(sent) + 1
           n == Least(outSize, len)
           l == [cs |-> cs, len |-> len, id |-> id]
           m == Message(cs, "media", Pieces(id, 1, len))
<1>1. /\ outSize \in Nat \ {0} /\ len \in Nat \ {0} /\ id \in Nat /\ n \in Nat /\ n <= len
  BY SizesArePositive, LeastIs DEF Types
<1>2. /\ left' = [left EXCEPT ![cs] = len - n] /\ lastSent' = [lastSent EXCEPT ![cs] = l]
      /\ sent' = Append(sent, m)
      /\ begun < MaxNest /\ begun' \in {0, begun + 1}
      /\ UNCHANGED <<outSize, pc, rb, taken, stack, ctx, msgs, savedCtx, savedMsgs, chunkSize,
                     delivered>>
  BY DEF Begin, MayBegin, server, saved
<1>3. PICK h \in Headers : wire' = wire \o <<h>> \o Pieces(id, 1, n) /\ h # SizeHeader
  <2>1. Full(cs, "media", len) \in Headers /\ Full(cs, "media", len) # SizeHeader
    BY DEF Headers, Full, SizeHeader
  <2>2. Type3(cs) \in Headers /\ Type3(cs) # SizeHeader
    BY DEF Headers, Type3, SizeHeader, Full
  <2> QED
    BY <2>1, <2>2 DEF Begin
<1>4. Pieces(id, 1, n) \in Seq(BodyUnits) /\ Pieces(id, 1, len) \in Seq(BodyUnits)
  <2>1. 1 \in Nat \ {0} /\ len \in Nat
    BY <1>1
  <2>2. ArePieces(Pieces(id, 1, n), id, 1, n) /\ ArePieces(Pieces(id, 1, len), id, 1, len)
    BY <1>1, <2>1, PiecesAre, Zenon
  <2> QED
    BY <2>2 DEF ArePieces
<1>5. wire' \in Seq(AllUnits) /\ Followed(Stream)'
  BY <1>2, <1>3, <1>4, ClientSends DEF Sends
<1>6. m \in Messages /\ l \in Lasts /\ len - n \in Nat /\ len - n <= l.len
  BY <1>1, <1>4 DEF Message, Messages, Lasts, AnyStream
<1> HIDE DEF id, n, l, m
<1>7. left' \in [Streams -> Nat] /\ lastSent' \in [Streams -> Lasts] /\ sent' \in Seq(Messages)
  BY <1>2, <1>6 DEF Types
<1>8. \A s \in Streams : left'[s] <= lastSent'[s].len
  BY <1>2, <1>6 DEF Types
<1>9. begun' \in 0..MaxNest
  BY <1>2, ChunkAssumption DEF Types, ChunkAssumption
<1> QED
  BY <1>2, <1>5, <1>7, <1>8, <1>9 DEF Types

LEMMA ContinueTypes ==
    ASSUME Types, NEW cs \in Streams, Continue(cs)
    PROVE  Types'
<1> DEFINE n == Least(outSize, left[cs])
           m == lastSent[cs]
           from == m.len - left[cs] + 1
<1>1. /\ outSize \in Nat \ {0} /\ left[cs] \in Nat /\ m.id \in Nat /\ m.len \in Nat
      /\ left[cs] <= m.len /\ n \in Nat /\ n <= left[cs] /\ from \in Nat \ {0}
  <2>1. outSize \in Nat \ {0} /\ left[cs] \in Nat /\ m \in Lasts /\ left[cs] <= m.len
    BY SizesArePositive DEF Types
  <2>2. m.id \in Nat /\ m.len \in Nat
    BY <2>1 DEF Lasts
  <2>3. n \in Nat /\ n <= left[cs]
    BY <2>1, LeastIs
  <2> QED
    BY <2>1, <2>2, <2>3
<1>2. /\ left' = [left EXCEPT ![cs] = left[cs] - n] /\ begun' \in {0, begun}
      /\ wire' = wire \o <<Type3(cs)>> \o Pieces(m.id, from, n)
      /\ UNCHANGED <<lastSent, sent, outSize, pc, rb, taken, stack, ctx, msgs, savedCtx,
                     savedMsgs, chunkSize, delivered>>
  BY DEF Continue, server, saved
<1>3. Type3(cs) \in Headers /\ Type3(cs) # SizeHeader
  BY DEF Headers, Type3, SizeHeader, Full
<1>4. Pieces(m.id, from, n) \in Seq(BodyUnits)
  <2>1. ArePieces(Pieces(m.id, from, n), m.id, from, n)
    BY <1>1, PiecesAre, Zenon
  <2> QED
    BY <2>1 DEF ArePieces
<1>5. wire' \in Seq(AllUnits) /\ Followed(Stream)'
  BY <1>2, <1>3, <1>4, ClientSends DEF Sends
<1>6. left[cs] - n \in Nat /\ left[cs] - n <= m.len
  BY <1>1
<1> HIDE DEF n, from
<1>7. left' \in [Streams -> Nat] /\ \A s \in Streams : left'[s] <= lastSent'[s].len
  BY <1>2, <1>6 DEF Types
<1>8. begun' \in 0..MaxNest
  BY <1>2, ChunkAssumption DEF Types, ChunkAssumption
<1> QED
  BY <1>2, <1>5, <1>7, <1>8 DEF Types

LEMMA SetChunkSizeTypes ==
    ASSUME Types, NEW size \in NewChunks, SetChunkSize(size)
    PROVE  Types'
<1> DEFINE body == <<Piece(Len(sent) + 1, size)>>
           m == Message(Control, "SetChunkSize", body)
<1>1. size \in Nat /\ size \in ChunkSizes
  BY SizesArePositive
<1>2. /\ body \in Seq(BodyUnits) /\ Len(body) = 1 /\ body[1].k = size
  BY <1>1 DEF Piece, BodyUnits, Types
<1>3. /\ wire' = wire \o <<SizeHeader>> \o body
      /\ sent' = Append(sent, m) /\ outSize' = size
      /\ begun < MaxNest /\ begun' \in {0, begun + 1}
      /\ UNCHANGED <<left, lastSent, pc, rb, taken, stack, ctx, msgs, savedCtx, savedMsgs,
                     chunkSize, delivered>>
  BY DEF SetChunkSize, MayBegin, server, saved, SizeHeader
<1>4. m \in Messages
  BY <1>2 DEF Message, Messages, AnyStream
<1> HIDE DEF body, m
<1>5. wire' \in Seq(AllUnits) /\ Followed(Stream)'
  BY <1>2, <1>3, UnitIs, ClientSends DEF Sends
<1>6. sent' \in Seq(Messages)
  BY <1>3, <1>4 DEF Types
<1>7. begun' \in 0..MaxNest
  BY <1>3, ChunkAssumption DEF Types, ChunkAssumption
<1> QED
  BY <1>1, <1>3, <1>5, <1>6, <1>7 DEF Types

\* recv(), and a turn that ends without a message.
LEMMA RecvTypes ==
    ASSUME Types, NEW n \in 1..Len(wire), recv(n)
    PROVE  Types'
<1>1. Stream' = Stream /\ rb' \in Seq(AllUnits) /\ wire' \in Seq(AllUnits)
  BY RecvKeeps
<1>2. /\ UNCHANGED <<left, lastSent, outSize, begun, sent, taken, stack, ctx, msgs, savedCtx,
                     savedMsgs, chunkSize, delivered>>
      /\ pc = "recv" /\ pc' = "turn"
  BY DEF recv, client, saved
<1>3. Followed(Stream)'
  BY <1>1 DEF Types, Followed
<1>4. stack' = <<>>
  BY <1>2 DEF Types
<1> QED
  BY <1>1, <1>2, <1>3, <1>4 DEF Types

LEMMA NotEnoughTypes ==
    ASSUME Types, NotEnough
    PROVE  Types'
<1>1. Stream' = Stream /\ rb' \in Seq(AllUnits) /\ taken' = <<>>
  BY UndoKeeps
<1>2. /\ UNCHANGED <<left, lastSent, outSize, begun, sent, wire, savedCtx, savedMsgs, chunkSize,
                     delivered>>
      /\ pc' = "recv" /\ stack' = <<>> /\ ctx' = savedCtx /\ msgs' = savedMsgs
  BY DEF NotEnough, restoreContext, client, saved
<1>3. Followed(Stream)'
  BY <1>1 DEF Types, Followed
<1> QED
  BY <1>1, <1>2, <1>3 DEF Types

\* normalExchange() sets the size that a SetChunkSize has.
LEMMA DeliverTypes ==
    ASSUME Types, NEW m \in Results, Deliver(m)
    PROVE  delivered' \in Seq(Results) /\ chunkSize' \in ChunkSizes
<1>1. delivered' = Append(delivered, m)
  BY DEF Deliver
<1>2. delivered' \in Seq(Results)
  BY <1>1 DEF Types
<1>3. m.kind = "SetChunkSize" => m.body[1].k \in ChunkSizes
  BY SizesArePositive DEF Results, HasSize, IsSet
<1>4. chunkSize' \in ChunkSizes
  BY <1>3 DEF Types, Deliver
<1> QED
  BY <1>2, <1>4

LEMMA TurnTypes ==
    ASSUME Types, loopEnds \/ fromBuffer \/ startTurn
    PROVE  Types'
<1>1. CASE loopEnds
  <2>1. Followed(Stream)'
    BY <1>1, TypesFollow DEF loopEnds
  <2> QED
    BY <1>1, <2>1 DEF loopEnds, Types, client, saved
<1>2. CASE fromBuffer
  <2>1. Followed(Stream)'
    BY <1>2, TypesFollow DEF fromBuffer
  <2>2. /\ Deliver(Head(msgs)) /\ msgs # <<>> /\ msgs' = Tail(msgs)
        /\ savedCtx' = ctx /\ savedMsgs' = msgs
        /\ UNCHANGED <<left, lastSent, outSize, begun, sent, wire, pc, rb, taken, stack, ctx>>
    BY <1>2 DEF fromBuffer, client
  <2>3. Head(msgs) \in Results /\ Tail(msgs) \in Seq(Results)
    BY <2>2 DEF Types
  <2>4. delivered' \in Seq(Results) /\ chunkSize' \in ChunkSizes
    BY <2>2, <2>3, DeliverTypes
  <2> QED
    BY <2>1, <2>2, <2>3, <2>4 DEF Types
<1>3. CASE startTurn
  <2>1. /\ UNCHANGED <<left, lastSent, outSize, begun, sent, wire, rb, stack, ctx, msgs,
                       chunkSize, delivered>>
        /\ pc = "turn" /\ pc' = "parse" /\ taken' = <<>> /\ savedCtx' = ctx /\ savedMsgs' = msgs
    BY <1>3 DEF startTurn, client
  <2>2. Followed(Stream)'
    <3>1. PICK s : s = Stream
      OBVIOUS
    <3>2. PICK t : t = Stream'
      OBVIOUS
    <3>3. PICK n \in Nat : n = Len(taken)
      BY DEF Types
    <3>4. /\ t \in Seq(AllUnits) /\ Len(s) = n + Len(t)
          /\ \A i \in 1..Len(t) : t[i] = s[n + i]
      BY <2>1, <3>1, <3>2, <3>3, TurnKeeps
    <3>5. Followed(s)
      BY <3>1 DEF Types
    <3>6. Followed(t)
      <4> SUFFICES ASSUME NEW i \in 1..Len(t), t[i] = SizeHeader
                   PROVE  i + 1 \in 1..Len(t) /\ t[i + 1] \in BodyUnits /\ t[i + 1].k \in NewChunks
        BY DEF Followed
      <4>1. s[n + i] = SizeHeader /\ n + i \in 1..Len(s) /\ n + (i + 1) = (n + i) + 1
        BY <3>4
      <4>2. /\ (n + i) + 1 \in 1..Len(s) /\ s[n + (i + 1)] \in BodyUnits
            /\ s[n + (i + 1)].k \in NewChunks
        BY <3>5, <4>1 DEF Followed
      <4>3. i + 1 \in 1..Len(t)
        BY <3>4, <4>2
      <4> QED
        BY <3>4, <4>2, <4>3
    <3> QED
      BY <3>2, <3>6 DEF Followed
  <2> QED
    BY <2>1, <2>2 DEF Types
<1> QED
  BY <1>1, <1>2, <1>3

\* The part of a body that a chunk has.
LEMMA BodyIs ==
    ASSUME Types, NEW n \in Nat, n < Len(rb), NEW b, b = Body(n)
    PROVE  /\ b \in Seq(AllUnits) /\ Len(b) = n
           /\ \A i \in 1..n : b[i] = Stream[Len(taken) + (1 + i)]
<1>1. rb \in Seq(AllUnits) /\ Len(rb) \in Nat
  BY DEF Types
<1>2. 1 <= 1 + n /\ 1 + n <= Len(rb) /\ (1 + n) - 1 = n /\ 1 + 1 = 2
  BY <1>1
<1> DEFINE m == 1 + n
<1>3. m \in Nat
  OBVIOUS
<1> HIDE DEF m
<1>4. /\ SubSeq(rb, 1 + 1, m) \in Seq(AllUnits) /\ Len(SubSeq(rb, 1 + 1, m)) = m - 1
      /\ \A i \in 1..m - 1 : SubSeq(rb, 1 + 1, m)[i] = rb[1 + i]
  BY <1>1, <1>2, <1>3, CutProperties DEF m
<1>5. /\ b \in Seq(AllUnits) /\ Len(b) = n /\ \A i \in 1..n : b[i] = rb[1 + i]
  BY <1>2, <1>4 DEF m, Body
<1>6. \A i \in 1..n : 1 + i \in 1..Len(rb)
  BY <1>1
<1> QED
  BY <1>5, <1>6, StreamIs

\* Reading a chunk leaves the stream as it is.
LEMMA ReadTypes ==
    ASSUME Types, NEW n \in Nat, n < Len(rb), Read(1 + n), wire' = wire
    PROVE  /\ taken' \in Seq(AllUnits) /\ rb' \in Seq(AllUnits) /\ wire' \in Seq(AllUnits)
           /\ Stream' = Stream /\ Followed(Stream)' /\ Len(taken') = Len(taken) + (1 + n)
<1>1. 1 + n \in Nat /\ 1 + n <= Len(rb)
  BY DEF Types
<1>2. /\ Stream' = Stream /\ taken' \in Seq(AllUnits) /\ rb' \in Seq(AllUnits)
      /\ Len(taken') = Len(taken) + (1 + n)
  BY <1>1, ReadKeeps
<1> QED
  BY <1>2 DEF Types, Followed

\* NextPc says whether the innermost call has its message.
LEMMA NextPcIs ==
    ASSUME NEW st, st \in Seq(Calls), st # <<>>, NEW p, p = NextPc(st)
    PROVE  /\ p \in {"parse", "return"} /\ Len(st) \in Nat \ {0} /\ st[Len(st)] \in Calls
           /\ p = "return" <=> Unparsed(st[Len(st)]) = 0
BY DEF NextPc

\* Of several unfinished calls of a stream there is an innermost one.
LEMMA ContinuedIs ==
    ASSUME Types, NEW cs, Parsing(cs) # {}
    PROVE  /\ Continued(cs) \in 1..Len(stack)
           /\ stack[Continued(cs)].cs = cs /\ Unparsed(stack[Continued(cs)]) > 0
<1>1. stack \in Seq(Calls) /\ Len(stack) \in Nat /\ DOMAIN stack = 1..Len(stack)
  BY DEF Types
<1> DEFINE P == Parsing(cs)
           T == {Len(stack) - i : i \in P}
<1>2. P \subseteq 1..Len(stack)
  BY <1>1 DEF Parsing
<1>3. T \subseteq Nat /\ T # {}
  BY <1>1, <1>2
<1>4. PICK x \in T : \A y \in T : x <= y
  BY <1>3, LeastNumber
<1>5. PICK i \in P : x = Len(stack) - i
  OBVIOUS
<1>6. \A j \in P : j <= i
  <2> TAKE j \in P
  <2>1. Len(stack) - j \in T
    OBVIOUS
  <2>2. Len(stack) - i <= Len(stack) - j
    BY <1>4, <1>5, <2>1
  <2> QED
    BY <1>1, <1>2, <2>2
<1> HIDE DEF P
<1>7. Continued(cs) \in P
  BY <1>6 DEF Continued, P
<1> QED
  BY <1>1, <1>7 DEF Parsing, P

\* A message that gets more of its body.
Extended(f, b) == [f EXCEPT !.body = @ \o b]
LEMMA ExtendIs ==
    ASSUME NEW f, f \in Calls, NEW b, b \in Seq(AllUnits), Len(b) <= Unparsed(f), Unparsed(f) > 0,
           NEW g, g = Extended(f, b)
    PROVE  /\ g \in Calls /\ ~IsSet(f)
           /\ g.cs = f.cs /\ g.kind = f.kind /\ g.len = f.len /\ g.chunk = f.chunk
           /\ g.body = f.body \o b /\ Len(g.body) = Len(f.body) + Len(b)
<1>1. /\ f \in [cs : AnyStream, kind : AnyKind, len : Nat, body : Seq(AllUnits), chunk : ChunkSizes]
      /\ Len(f.body) <= f.len /\ HasSize(f) /\ (IsSet(f) => f.len = 1)
  BY DEF Calls
<1>2. f.body \in Seq(AllUnits) /\ f.len \in Nat
  BY <1>1
<1> DEFINE c == f.body \o b
<1>3. c \in Seq(AllUnits) /\ Len(c) = Len(f.body) + Len(b)
  BY <1>2, ConcatProperties, Zenon
<1>4. ~IsSet(f)
  BY <1>1, <1>2 DEF HasSize, Unparsed
<1>5. g = [f EXCEPT !.body = c]
  BY DEF Extended
<1> HIDE DEF c
<1>6. /\ g \in [cs : AnyStream, kind : AnyKind, len : Nat, body : Seq(AllUnits), chunk : ChunkSizes]
      /\ g.cs = f.cs /\ g.kind = f.kind /\ g.len = f.len /\ g.chunk = f.chunk /\ g.body = c
  BY <1>1, <1>3, <1>5
<1>7. Len(g.body) <= g.len /\ ~IsSet(g)
  BY <1>2, <1>3, <1>4, <1>6 DEF Unparsed, IsSet
<1>8. g \in Calls
  BY <1>6, <1>7 DEF Calls, HasSize
<1> QED
  BY <1>3, <1>4, <1>6, <1>8 DEF c

LEMMA CallIs ==
    ASSUME NEW f, f \in Calls
    PROVE  /\ f.cs \in AnyStream /\ f.kind \in AnyKind /\ f.len \in Nat
           /\ f.body \in Seq(AllUnits) /\ Len(f.body) \in Nat /\ f.chunk \in ChunkSizes
           /\ f.chunk \in Nat \ {0} /\ Unparsed(f) \in Nat
           /\ HasSize(f) /\ (IsSet(f) => f.len = 1)
<1>1. /\ f \in [cs : AnyStream, kind : AnyKind, len : Nat, body : Seq(AllUnits), chunk : ChunkSizes]
      /\ Len(f.body) <= f.len /\ HasSize(f) /\ (IsSet(f) => f.len = 1)
  BY DEF Calls
<1>2. /\ f.cs \in AnyStream /\ f.kind \in AnyKind /\ f.len \in Nat
      /\ f.body \in Seq(AllUnits) /\ f.chunk \in ChunkSizes
  BY <1>1
<1>3. Len(f.body) \in Nat
  BY <1>2
<1>4. f.chunk \in Nat \ {0}
  BY <1>2, SizesArePositive, Zenon
<1>5. Unparsed(f) \in Nat
  BY <1>1, <1>2, <1>3 DEF Unparsed
<1> QED
  BY <1>1, <1>2, <1>3, <1>4, <1>5

\* The call with the place i of the stack, of which n pieces come.
LEMMA ContinueMsgIs ==
    ASSUME Types, continueMsg, NEW i, i = Continued(Head(rb).cs),
           NEW n, n = Part(stack[top].chunk, Unparsed(stack[i]))
    PROVE  /\ i \in 1..Len(stack) /\ stack[i] \in Calls /\ stack[i].cs = Head(rb).cs
           /\ Unparsed(stack[i]) > 0 /\ n \in Nat \ {0} /\ n <= Unparsed(stack[i])
           /\ top \in 1..Len(stack) /\ stack[top] \in Calls
           /\ Len(rb) <= n => NotEnough
           /\ Len(rb) > n =>
                 /\ Read(1 + n)
                 /\ stack' = [stack EXCEPT ![i] = [stack[i] EXCEPT !.body = @ \o Body(n)]]
                 /\ pc' = NextPc(stack')
                 /\ UNCHANGED <<client, wire, ctx, msgs, saved, chunkSize, delivered>>
<1>1. Parsing(Head(rb).cs) # {}
  BY DEF continueMsg, Continues
<1>2. i \in 1..Len(stack) /\ stack[i].cs = Head(rb).cs /\ Unparsed(stack[i]) > 0
  BY <1>1, ContinuedIs
<1>3. stack \in Seq(Calls) /\ Len(stack) \in Nat
  BY DEF Types
<1>4. top \in 1..Len(stack)
  BY <1>2, <1>3 DEF top
<1>5. stack[i] \in Calls /\ stack[top] \in Calls
  BY <1>2, <1>3, <1>4
<1>6. Unparsed(stack[i]) \in Nat /\ stack[top].chunk \in Nat \ {0}
  BY <1>5, CallIs
<1>7. n \in Nat \ {0} /\ n <= Unparsed(stack[i])
  BY <1>2, <1>6, LeastIs DEF Part
<1>8. IF Len(rb) <= n
      THEN NotEnough
      ELSE /\ Read(1 + n)
           /\ stack' = [stack EXCEPT ![i].body = @ \o Body(n)]
           /\ pc' = NextPc(stack')
           /\ UNCHANGED <<client, wire, ctx, msgs, saved, chunkSize, delivered>>
  BY Zenon DEF continueMsg
<1>9. Len(rb) \in Nat
  BY DEF Types
<1> QED
  BY <1>2, <1>4, <1>5, <1>7, <1>8, <1>9

LEMMA ContinueMsgTypes ==
    ASSUME Types, continueMsg
    PROVE  Types'
<1>1. PICK i : i = Continued(Head(rb).cs)
  OBVIOUS
<1>2. PICK n : n = Part(stack[top].chunk, Unparsed(stack[i]))
  OBVIOUS
<1>3. /\ i \in 1..Len(stack) /\ stack[i] \in Calls
      /\ Unparsed(stack[i]) > 0 /\ n \in Nat \ {0} /\ n <= Unparsed(stack[i])
      /\ Len(rb) <= n => NotEnough
      /\ Len(rb) > n =>
            /\ Read(1 + n)
            /\ stack' = [stack EXCEPT ![i] = [stack[i] EXCEPT !.body = @ \o Body(n)]]
            /\ pc' = NextPc(stack')
            /\ UNCHANGED <<client, wire, ctx, msgs, saved, chunkSize, delivered>>
  BY <1>1, <1>2, ContinueMsgIs
<1>4. CASE Len(rb) <= n
  BY <1>3, <1>4, NotEnoughTypes
<1>5. CASE Len(rb) > n
  <2>1. n \in Nat /\ n < Len(rb) /\ wire' = wire
    BY <1>3, <1>5 DEF Types
  <2>2. /\ taken' \in Seq(AllUnits) /\ rb' \in Seq(AllUnits) /\ wire' \in Seq(AllUnits)
        /\ Followed(Stream)'
    BY <1>3, <1>5, <2>1, ReadTypes
  <2>3. Body(n) \in Seq(AllUnits) /\ Len(Body(n)) = n
    BY <2>1, BodyIs
  <2>4. PICK g : g = [stack[i] EXCEPT !.body = @ \o Body(n)]
    OBVIOUS
  <2>5. g \in Calls
    <3>1. g = Extended(stack[i], Body(n))
      BY <2>4 DEF Extended
    <3> QED
      BY <1>3, <2>3, <3>1, ExtendIs
  <2>6. stack' = [stack EXCEPT ![i] = g] /\ stack \in Seq(Calls)
    BY <1>3, <1>5, <2>4, Zenon DEF Types
  <2>7. stack' \in Seq(Calls) /\ stack' # <<>>
    BY <1>3, <2>5, <2>6
  <2>8. pc' \in {"parse", "return"}
    BY <1>3, <1>5, <2>7, NextPcIs
  <2>9. UNCHANGED <<left, lastSent, outSize, begun, sent, ctx, msgs, savedCtx, savedMsgs,
                    chunkSize, delivered>>
    BY <1>3, <1>5 DEF client, saved
  <2> QED
    BY <2>2, <2>7, <2>8, <2>9 DEF Types
<1>6. Len(rb) \in Nat /\ n \in Nat
  BY <1>3 DEF Types
<1> QED
  BY <1>4, <1>5, <1>6

\* A header that begins a message.
LEMMA BeginMsgIs ==
    ASSUME Types, beginMsg, NEW h, h = Head(rb), NEW hd, hd = HeaderOf(h),
           NEW size, size = ChunkSizeForCall, NEW n, n = Part(size, hd.len)
    PROVE  /\ h \in Headers /\ h.cs \in AnyStream /\ h = Stream[Len(taken) + 1]
           /\ 1 \in 1..Len(rb)
           /\ hd.kind \in AnyKind /\ hd.len \in Nat
           /\ hd.kind = "SetChunkSize" => h = SizeHeader /\ hd.len = 1
           /\ Remembered(h) => h.cs \in Streams /\ hd \in Contexts
           /\ size \in ChunkSizes /\ n \in Nat /\ n <= hd.len /\ (hd.len # 0 => n # 0)
           /\ Len(rb) <= n => NotEnough
           /\ Len(rb) > n =>
                 /\ Read(1 + n)
                 /\ stack' = Append(stack, [cs |-> h.cs, kind |-> hd.kind, len |-> hd.len,
                                            body |-> Body(n), chunk |-> size])
                 /\ pc' = NextPc(stack')
                 /\ ctx' = IF Remembered(h) THEN [ctx EXCEPT ![h.cs] = hd] ELSE ctx
                 /\ UNCHANGED <<client, wire, msgs, saved, chunkSize, delivered>>
<1>1. ChunkHeader
  BY DEF beginMsg
<1>2. h \in AllUnits /\ 1 \in 1..Len(rb) /\ h = rb[1] /\ h.u \in {"full", "type3"}
  BY <1>1 DEF ChunkHeader, Types
<1>3. h \in Headers
  BY <1>2, UnitIs DEF AllUnits
<1>4. h = Stream[Len(taken) + 1]
  BY <1>2, StreamIs
<1>5. h.u = "type3" => h.cs \in Streams /\ hd \in Contexts
  BY <1>3, UnitIs DEF HeaderOf, Types
<1>6. h.u = "full" => hd = [kind |-> h.kind, len |-> h.len]
  BY DEF HeaderOf
<1>7. h.u = "full" /\ h # SizeHeader => h.cs \in Streams /\ hd \in Contexts
  <2> SUFFICES ASSUME h.u = "full", h # SizeHeader PROVE h.cs \in Streams /\ hd \in Contexts
    OBVIOUS
  <2>1. h.cs \in Streams /\ h.kind = "media" /\ h.len \in Lengths
    BY <1>3, UnitIs, Zenon
  <2>2. h.len \in Nat
    BY <2>1, SizesArePositive
  <2> QED
    BY <1>6, <2>1, <2>2 DEF Contexts
<1>8. h = SizeHeader =>
          /\ hd.kind = "SetChunkSize" /\ hd.len = 1 /\ h.cs = Control /\ ~Remembered(h)
  BY <1>6, UnitIs DEF Remembered
<1>9. h = SizeHeader \/ (h.cs \in Streams /\ hd \in Contexts)
  BY <1>2, <1>5, <1>7
<1>10. /\ h.cs \in AnyStream /\ hd.kind \in AnyKind /\ hd.len \in Nat
       /\ hd.kind = "SetChunkSize" => h = SizeHeader /\ hd.len = 1
       /\ Remembered(h) => h.cs \in Streams /\ hd \in Contexts
  <2>1. CASE h = SizeHeader
    BY <1>8, <2>1 DEF AnyStream, AnyKind
  <2>2. CASE h # SizeHeader
    <3>1. h.cs \in Streams /\ hd \in Contexts
      BY <1>9, <2>2
    <3>2. hd.kind \in {"none", "media"} /\ hd.len \in Nat
      BY <3>1 DEF Contexts
    <3> QED
      BY <3>1, <3>2 DEF AnyStream, AnyKind
  <2> QED
    BY <2>1, <2>2
<1>11. size \in ChunkSizes
  <2>1. CASE stack = <<>>
    BY <2>1 DEF ChunkSizeForCall, Types
  <2>2. CASE stack # <<>>
    <3>1. stack[top] \in Calls
      BY <2>2 DEF top, Types
    <3> QED
      BY <2>2, <3>1, CallIs DEF ChunkSizeForCall
  <2> QED
    BY <2>1, <2>2
<1>12. n \in Nat /\ n <= hd.len /\ (hd.len # 0 => n # 0)
  <2>1. size \in Nat \ {0}
    BY <1>11, SizesArePositive, Zenon
  <2> QED
    BY <1>10, <2>1, LeastIs DEF Part
<1>13. IF Len(rb) <= n
         THEN NotEnough
         ELSE /\ Read(1 + n)
              /\ stack' = Append(stack, [cs |-> h.cs, kind |-> hd.kind, len |-> hd.len,
                                         body |-> Body(n), chunk |-> size])
              /\ pc' = NextPc(stack')
              /\ ctx' = IF Remembered(h) THEN [ctx EXCEPT ![h.cs] = hd] ELSE ctx
              /\ UNCHANGED <<client, wire, msgs, saved, chunkSize, delivered>>
  BY Zenon DEF beginMsg
<1>14. Len(rb) \in Nat
  BY DEF Types
<1> QED
  BY <1>2, <1>3, <1>4, <1>10, <1>11, <1>12, <1>13, <1>14

LEMMA BeginMsgTypes ==
    ASSUME Types, beginMsg
    PROVE  Types'
<1>1. PICK h : h = Head(rb)
  OBVIOUS
<1>2. PICK hd : hd = HeaderOf(h)
  OBVIOUS
<1>3. PICK size : size = ChunkSizeForCall
  OBVIOUS
<1>4. PICK n : n = Part(size, hd.len)
  OBVIOUS
<1>5. /\ h \in Headers /\ h.cs \in AnyStream /\ h = Stream[Len(taken) + 1]
      /\ 1 \in 1..Len(rb)
      /\ hd.kind \in AnyKind /\ hd.len \in Nat
      /\ hd.kind = "SetChunkSize" => h = SizeHeader /\ hd.len = 1
      /\ Remembered(h) => h.cs \in Streams /\ hd \in Contexts
      /\ size \in ChunkSizes /\ n \in Nat /\ n <= hd.len /\ (hd.len # 0 => n # 0)
      /\ Len(rb) <= n => NotEnough
      /\ Len(rb) > n =>
            /\ Read(1 + n)
            /\ stack' = Append(stack, [cs |-> h.cs, kind |-> hd.kind, len |-> hd.len,
                                       body |-> Body(n), chunk |-> size])
            /\ pc' = NextPc(stack')
            /\ ctx' = IF Remembered(h) THEN [ctx EXCEPT ![h.cs] = hd] ELSE ctx
            /\ UNCHANGED <<client, wire, msgs, saved, chunkSize, delivered>>
  BY <1>1, <1>2, <1>3, <1>4, BeginMsgIs
<1>6. CASE Len(rb) <= n
  BY <1>5, <1>6, NotEnoughTypes
<1>7. CASE Len(rb) > n
  <2>1. n < Len(rb) /\ wire' = wire /\ Len(taken) \in Nat
    BY <1>5, <1>7 DEF Types
  <2>2. /\ taken' \in Seq(AllUnits) /\ rb' \in Seq(AllUnits) /\ wire' \in Seq(AllUnits)
        /\ Followed(Stream)'
    BY <1>5, <1>7, <2>1, ReadTypes
  <2>3. PICK b : b = Body(n)
    OBVIOUS
  <2>4. /\ b \in Seq(AllUnits) /\ Len(b) = n
        /\ \A i \in 1..n : b[i] = Stream[Len(taken) + (1 + i)]
    BY <1>5, <2>1, <2>3, BodyIs
  <2>5. PICK f : f = [cs |-> h.cs, kind |-> hd.kind, len |-> hd.len, body |-> b, chunk |-> size]
    OBVIOUS
  <2>6. /\ f \in [cs : AnyStream, kind : AnyKind, len : Nat, body : Seq(AllUnits), chunk : ChunkSizes]
        /\ f.kind = hd.kind /\ f.len = hd.len /\ f.body = b
    BY <1>5, <2>4, <2>5
  <2>7. hd.kind = "SetChunkSize" => hd.len = 1 /\ n = 1 /\ b[1].k \in NewChunks
    <3> SUFFICES ASSUME hd.kind = "SetChunkSize" PROVE hd.len = 1 /\ n = 1 /\ b[1].k \in NewChunks
      OBVIOUS
    <3>1. h = SizeHeader /\ hd.len = 1
      BY <1>5
    <3>2. n = 1
      BY <1>5, <3>1
    <3>3. PICK k \in Nat : k = Len(taken) + 1
      BY <2>1
    <3>4. k \in 1..Len(Stream) /\ Stream[k] = SizeHeader /\ Len(taken) + (1 + 1) = k + 1
      <4>1. /\ Len(Stream) = Len(taken) + Len(rb) + Len(wire)
            /\ Len(rb) \in Nat /\ Len(wire) \in Nat
        BY StreamIs
      <4>2. 1 <= Len(rb)
        BY <1>5, <4>1
      <4>3. k \in 1..Len(Stream)
        BY <2>1, <3>3, <4>1, <4>2
      <4>4. Len(taken) + (1 + 1) = k + 1
        BY <2>1, <3>3
      <4> QED
        BY <1>5, <3>1, <3>3, <4>3, <4>4, Zenon
    <3>5. Stream[k + 1].k \in NewChunks
      BY <3>4 DEF Types, Followed
    <3>6. 1 \in 1..n
      BY <3>2
    <3> QED
      BY <2>4, <3>1, <3>2, <3>4, <3>5, <3>6
  <2>8. f \in Calls
    BY <1>5, <2>4, <2>6, <2>7 DEF Calls, HasSize, IsSet
  <2>9. stack' \in Seq(Calls) /\ stack' # <<>>
    <3>1. stack' = Append(stack, f) /\ stack \in Seq(Calls)
      BY <1>5, <1>7, <2>3, <2>5, Zenon DEF Types
    <3> QED
      BY <2>8, <3>1
  <2>10. pc' \in {"parse", "return"}
    BY <1>5, <1>7, <2>9, NextPcIs
  <2>11. ctx' \in [Streams -> Contexts]
    BY <1>5, <1>7 DEF Types
  <2>12. UNCHANGED <<left, lastSent, outSize, begun, sent, msgs, savedCtx, savedMsgs,
                     chunkSize, delivered>>
    BY <1>5, <1>7 DEF client, saved
  <2> QED
    BY <2>2, <2>9, <2>10, <2>11, <2>12 DEF Types
<1>8. Len(rb) \in Nat /\ n \in Nat
  BY <1>5 DEF Types
<1> QED
  BY <1>6, <1>7, <1>8

LEMMA NoHeaderTypes ==
    ASSUME Types, noHeader
    PROVE  Types'
<1>1. CASE rb = <<>>
  BY <1>1, NotEnoughTypes DEF noHeader
<1>2. CASE rb # <<>>
  <2>1. /\ UNCHANGED <<left, lastSent, outSize, begun, sent, wire, rb, taken, stack, ctx, msgs,
                       savedCtx, savedMsgs, chunkSize, delivered>>
        /\ pc' = "desync"
    BY <1>2 DEF noHeader, client, saved
  <2>2. Followed(Stream)'
    BY <2>1, TypesFollow
  <2> QED
    BY <2>1, <2>2 DEF Types
<1> QED
  BY <1>1, <1>2

\* A call that has its message.
LEMMA ParsedIs ==
    ASSUME NEW f, f \in Calls, NEW m, m = Parsed(f)
    PROVE  /\ m \in Results /\ m.cs = f.cs /\ m.kind = f.kind /\ m.body = f.body
           /\ m.kind = "SetChunkSize" => m.body[1].k \in ChunkSizes
<1>1. /\ f.cs \in AnyStream /\ f.kind \in AnyKind /\ f.body \in Seq(AllUnits) /\ HasSize(f)
  BY CallIs
<1>2. m = [cs |-> f.cs, kind |-> f.kind, body |-> f.body]
  BY DEF Parsed, Message
<1>3. /\ m \in [cs : AnyStream, kind : AnyKind, body : Seq(AllUnits)]
      /\ m.cs = f.cs /\ m.kind = f.kind /\ m.body = f.body
  BY <1>1, <1>2
<1>4. HasSize(m)
  BY <1>1, <1>3 DEF HasSize, IsSet
<1>5. m.kind = "SetChunkSize" => m.body[1].k \in ChunkSizes
  BY <1>4, SizesArePositive DEF HasSize, IsSet
<1> QED
  BY <1>3, <1>4, <1>5 DEF Results

LEMMA ReturnOuterTypes ==
    ASSUME Types, returnOuter
    PROVE  Types'
<1>1. /\ Deliver(Parsed(stack[1])) /\ stack' = <<>> /\ pc' = "turn" /\ top = 1
      /\ UNCHANGED <<left, lastSent, outSize, begun, sent, wire, rb, taken, ctx, msgs, savedCtx,
                     savedMsgs>>
  BY DEF returnOuter, client, saved
<1>2. stack[1] \in Calls
  <2>1. stack \in Seq(Calls) /\ 1 \in 1..Len(stack)
    BY <1>1 DEF Types, top
  <2> QED
    BY <2>1
<1>3. Parsed(stack[1]) \in Results
  BY <1>2, ParsedIs
<1>4. delivered' \in Seq(Results) /\ chunkSize' \in ChunkSizes
  BY <1>1, <1>3, DeliverTypes
<1>5. Followed(Stream)'
  BY <1>1, TypesFollow
<1> QED
  BY <1>1, <1>4, <1>5 DEF Types

\* The innermost of several calls returns to the one that made it.
LEMMA ReturnInnerIs ==
    ASSUME Types, returnInner, NEW n, n = Len(stack)
    PROVE  /\ n \in Nat /\ n > 1 /\ stack[n] \in Calls /\ stack[n - 1] \in Calls
           /\ \E m, g :
                 /\ m = Parsed(stack[n])
                 /\ g = [stack[n - 1] EXCEPT !.chunk = CallerChunk(stack[n - 1], m)]
                 /\ g \in Calls
                 /\ g.cs = stack[n - 1].cs /\ g.kind = stack[n - 1].kind /\ g.len = stack[n - 1].len
                 /\ g.body = stack[n - 1].body /\ g.chunk = CallerChunk(stack[n - 1], m)
                 /\ m \in Results /\ msgs' = Append(msgs, m)
                 /\ stack' \in Seq(Calls) /\ Len(stack') = n - 1
                 /\ stack'[n - 1] = g
                 /\ \A i \in 1..n - 2 : stack'[i] = stack[i]
           /\ pc' = NextPc(stack')
           /\ UNCHANGED <<left, lastSent, outSize, begun, sent, wire, rb, taken, ctx, savedCtx,
                          savedMsgs, chunkSize, delivered>>
<1>1. /\ n \in Nat /\ n > 1 /\ stack \in Seq(Calls)
      /\ pc' = NextPc(stack')
      /\ UNCHANGED <<left, lastSent, outSize, begun, sent, wire, rb, taken, ctx, savedCtx,
                     savedMsgs, chunkSize, delivered>>
  BY DEF returnInner, client, saved, Types, top
<1>2. n \in 1..n /\ n - 1 \in 1..n
  BY <1>1
<1>3. stack[n] \in Calls /\ stack[n - 1] \in Calls
  BY <1>1, <1>2
<1>4. PICK m : m = Parsed(stack[n])
  OBVIOUS
<1>5. PICK f : f = stack[n - 1]
  OBVIOUS
<1>6. PICK c : c = CallerChunk(f, m)
  OBVIOUS
<1>7. PICK g : g = [f EXCEPT !.chunk = c]
  OBVIOUS
<1>8. m \in Results /\ (m.kind = "SetChunkSize" => m.body[1].k \in ChunkSizes)
  BY <1>3, <1>4, ParsedIs
<1>9. c \in ChunkSizes
  BY <1>3, <1>5, <1>6, <1>8, CallIs DEF CallerChunk
<1>10. /\ g \in Calls
       /\ g.cs = f.cs /\ g.kind = f.kind /\ g.len = f.len /\ g.body = f.body /\ g.chunk = c
  <2>1. /\ f \in [cs : AnyStream, kind : AnyKind, len : Nat, body : Seq(AllUnits), chunk : ChunkSizes]
        /\ Len(f.body) <= f.len /\ HasSize(f) /\ (IsSet(f) => f.len = 1)
    BY <1>3, <1>5 DEF Calls
  <2>2. /\ g \in [cs : AnyStream, kind : AnyKind, len : Nat, body : Seq(AllUnits), chunk : ChunkSizes]
        /\ g.cs = f.cs /\ g.kind = f.kind /\ g.len = f.len /\ g.body = f.body /\ g.chunk = c
    BY <1>7, <1>9, <2>1
  <2> QED
    BY <2>1, <2>2 DEF Calls, HasSize, IsSet
<1>11. /\ stack' = Append(SubSeq(stack, 1, n - 2), g) /\ msgs' = Append(msgs, m)
  BY <1>4, <1>5, <1>6, <1>7, Zenon DEF returnInner, top, Take
<1> DEFINE k == n - 2
           p == SubSeq(stack, 0 + 1, k)
<1>12. k \in Nat /\ 0 <= k /\ k <= Len(stack) /\ 0 + 1 = 1 /\ k - 0 = k /\ k + 1 = n - 1
  BY <1>1
<1> HIDE DEF k
<1>13. /\ p \in Seq(Calls) /\ Len(p) = k - 0 /\ \A i \in 1..k - 0 : p[i] = stack[0 + i]
  BY <1>1, <1>12, CutProperties
<1> HIDE DEF p
<1>14. stack' = Append(p, g)
  BY <1>11, <1>12 DEF k, p
<1>15. /\ stack' \in Seq(Calls) /\ Len(stack') = k + 1 /\ stack'[k + 1] = g
       /\ \A i \in 1..k : stack'[i] = p[i]
  BY <1>10, <1>12, <1>13, <1>14
<1>16. \A i \in 1..k : stack'[i] = stack[i]
  BY <1>12, <1>13, <1>15
<1>17. \A i \in 1..n - 2 : stack'[i] = stack[i]
  BY <1>16 DEF k
<1>18. /\ m = Parsed(stack[n])
       /\ g = [stack[n - 1] EXCEPT !.chunk = CallerChunk(stack[n - 1], m)]
       /\ g \in Calls
       /\ g.cs = stack[n - 1].cs /\ g.kind = stack[n - 1].kind /\ g.len = stack[n - 1].len
       /\ g.body = stack[n - 1].body /\ g.chunk = CallerChunk(stack[n - 1], m)
       /\ m \in Results /\ msgs' = Append(msgs, m)
       /\ stack' \in Seq(Calls) /\ Len(stack') = n - 1
       /\ stack'[n - 1] = g
       /\ \A i \in 1..n - 2 : stack'[i] = stack[i]
  BY <1>4, <1>5, <1>6, <1>7, <1>8, <1>10, <1>11, <1>12, <1>15, <1>17, Zenon
<1> QED
  BY <1>1, <1>3, <1>18, Zenon

LEMMA ReturnInnerTypes ==
    ASSUME Types, returnInner
    PROVE  Types'
<1>1. PICK n : n = Len(stack)
  OBVIOUS
<1>2. /\ n \in Nat /\ n > 1
      /\ \E m : m \in Results /\ msgs' = Append(msgs, m)
      /\ stack' \in Seq(Calls) /\ Len(stack') = n - 1
      /\ pc' = NextPc(stack')
      /\ UNCHANGED <<left, lastSent, outSize, begun, sent, wire, rb, taken, ctx, savedCtx,
                     savedMsgs, chunkSize, delivered>>
  BY <1>1, ReturnInnerIs
<1>3. msgs' \in Seq(Results)
  BY <1>2 DEF Types
<1>4. stack' # <<>>
  BY <1>2
<1>5. pc' \in {"parse", "return"}
  BY <1>2, <1>4, NextPcIs
<1>6. Followed(Stream)'
  BY <1>2, TypesFollow
<1> QED
  BY <1>2, <1>3, <1>4, <1>5, <1>6 DEF Types

LEMMA InitTypes ==
    ASSUME Init
    PROVE  Types
<1>1. /\ Nothing \in Lasts /\ Nothing.len = 0 /\ NoHeader \in Contexts
      /\ InitChunk \in ChunkSizes /\ 0 \in 0..MaxNest
  BY SizesArePositive, ChunkAssumption
     DEF Nothing, Lasts, NoHeader, Contexts, AnyStream, ChunkAssumption
<1>2. left \in [Streams -> Nat] /\ lastSent \in [Streams -> Lasts]
  BY <1>1 DEF Init
<1>3. \A cs \in Streams : left[cs] <= lastSent[cs].len
  BY <1>1 DEF Init
<1>4. ctx \in [Streams -> Contexts] /\ savedCtx \in [Streams -> Contexts]
  BY <1>1 DEF Init
<1>5. Stream = <<>>
  <2>1. taken = <<>> /\ rb = <<>> /\ wire = <<>>
    BY DEF Init
  <2>2. <<>> \in Seq(AllUnits)
    OBVIOUS
  <2>3. <<>> \o (<<>> \o <<>>) = <<>>
    BY <2>2, ConcatEmptySeq
  <2> QED
    BY <2>1, <2>3 DEF Stream
<1>6. Followed(Stream)
  <2>1. Len(<<>>) = 0
    OBVIOUS
  <2> QED
    BY <1>5, <2>1 DEF Followed
<1> QED
  BY <1>1, <1>2, <1>3, <1>4, <1>6 DEF Init, Types

LEMMA NextTypes ==
    ASSUME Types, [Next]_vars
    PROVE  Types'
<1>1. CASE ClientNext
  BY <1>1, BeginTypes, ContinueTypes, SetChunkSizeTypes DEF ClientNext
<1>2. CASE \E n \in 1..Len(wire) : recv(n)
  BY <1>2, RecvTypes
<1>3. CASE ParserNext
  BY <1>3, TurnTypes, ContinueMsgTypes, BeginMsgTypes, NoHeaderTypes, ReturnOuterTypes,
     ReturnInnerTypes DEF ParserNext
<1>4. CASE UNCHANGED vars
  <2>1. UNCHANGED <<left, lastSent, outSize, begun, sent, wire, pc, rb, taken, stack, ctx, msgs,
                    savedCtx, savedMsgs, chunkSize, delivered>>
    BY <1>4 DEF vars, client, saved
  <2>2. Followed(Stream)'
    BY <2>1, TypesFollow
  <2> QED
    BY <2>1, <2>2 DEF Types
<1> QED
  BY <1>1, <1>2, <1>3, <1>4 DEF Next, over

LEMMA TypesAre ==
    ASSUME Types
    PROVE  TypeOK
<1>1. outSize \in Nat \ {0}
  BY SizesArePositive DEF Types
<1>2. \A i \in DOMAIN stack : stack[i] \in Calls
  BY DEF Types
<1>3. \A i \in DOMAIN stack :
         /\ stack[i].cs \in Streams \union {Control}
         /\ stack[i].len \in Nat /\ Unparsed(stack[i]) >= 0
         /\ stack[i].chunk \in {InitChunk} \union NewChunks
  <2> TAKE i \in DOMAIN stack
  <2>1. stack[i].cs \in AnyStream /\ stack[i].len \in Nat /\ Unparsed(stack[i]) \in Nat
        /\ stack[i].chunk \in ChunkSizes
    BY <1>2, CallIs
  <2> QED
    BY <2>1 DEF AnyStream, ChunkSizes
<1> QED
  BY <1>1, <1>3 DEF Types, TypeOK, Contexts, ChunkSizes

-----------------------------------------------------------------------------
(* TypeOK, and with it: no chunk size is ever 0, whatever is nested in     *)
(* what, and even once the parser is out of step (rtmpparser.cpp:168-201). *)
THEOREM TypeCorrect == Spec => []TypeOK
<1>1. Init => Types
  BY InitTypes
<1>2. Types /\ [Next]_vars => Types'
  BY NextTypes
<1>3. Types => TypeOK
  BY TypesAre
<1> QED
  BY <1>1, <1>2, <1>3, PTL DEF Spec

-----------------------------------------------------------------------------
(* The client and its chunks, as values.                                   *)

States == [left : [Streams -> Nat], lastSent : [Streams -> Lasts], outSize : ChunkSizes,
           begun : Nat, sent : Seq(Messages)]
Sender == [left |-> left, lastSent |-> lastSent, outSize |-> outSize, begun |-> begun,
           sent |-> sent]

Busy(z) == \E cs \in Streams : z.left[cs] > 0

\* What was sent last on a stream is what it says, and each message has its
\* number and its own pieces.
LastFine(z, cs) ==
    IF z.lastSent[cs].id = 0 THEN z.left[cs] = 0 /\ z.lastSent[cs].len = 0
    ELSE /\ z.lastSent[cs].id \in 1..Len(z.sent) /\ z.lastSent[cs].len \in Lengths
         /\ z.sent[z.lastSent[cs].id].cs = cs /\ z.sent[z.lastSent[cs].id].kind = "media"
         /\ Len(z.sent[z.lastSent[cs].id].body) = z.lastSent[cs].len
         /\ z.left[cs] <= z.lastSent[cs].len
MessageFine(m, i) ==
    /\ Len(m.body) >= 1 /\ Id(m) = i
    /\ IF IsSet(m) THEN m.cs = Control
       ELSE m.cs \in Streams /\ \A k \in 1..Len(m.body) : m.body[k] = Piece(i, k)
Fine(z) ==
    /\ z \in States
    /\ \A cs \in Streams : LastFine(z, cs)
    /\ \A i \in 1..Len(z.sent) : MessageFine(z.sent[i], i)

\* A chunk, and what the client is before and after it sends one.
Chunks == [h : Headers, id : Nat, from : Nat \ {0}, n : Nat \ {0}]
BeginMove(z, ch, z2, cs, len) ==
    /\ cs \in Streams /\ len \in Lengths
    /\ z.left[cs] = 0 /\ z.begun < MaxNest
    /\ ch.id = Len(z.sent) + 1 /\ ch.from = 1 /\ ch.n = Least(z.outSize, len)
    /\ ch.h = Full(cs, "media", len) \/ (ch.h = Type3(cs) /\ z.lastSent[cs].len = len)
    /\ z2.left = [z.left EXCEPT ![cs] = len - ch.n]
    /\ z2.lastSent = [z.lastSent EXCEPT ![cs] = [cs |-> cs, len |-> len, id |-> ch.id]]
    /\ z2.sent = Append(z.sent, Message(cs, "media", Pieces(ch.id, 1, len)))
    /\ z2.outSize = z.outSize
    /\ Busy(z2) => z2.begun = z.begun + 1
ContinueMove(z, ch, z2, cs) ==
    /\ cs \in Streams /\ z.left[cs] > 0
    /\ ch.id = z.lastSent[cs].id /\ ch.from = z.lastSent[cs].len - z.left[cs] + 1
    /\ ch.n = Least(z.outSize, z.left[cs]) /\ ch.h = Type3(cs)
    /\ z2.left = [z.left EXCEPT ![cs] = z.left[cs] - ch.n]
    /\ z2.lastSent = z.lastSent /\ z2.sent = z.sent /\ z2.outSize = z.outSize
    /\ Busy(z2) => z2.begun = z.begun
SizeMove(z, ch, z2, size) ==
    /\ size \in NewChunks /\ z.begun < MaxNest
    /\ \A a, b \in Streams : z.left[a] > 0 /\ z.left[b] > 0 => a = b
    /\ ch.id = Len(z.sent) + 1 /\ ch.from = size /\ ch.n = 1 /\ ch.h = SizeHeader
    /\ z2.left = z.left /\ z2.lastSent = z.lastSent /\ z2.outSize = size
    /\ z2.sent = Append(z.sent, Message(Control, "SetChunkSize", <<Piece(ch.id, size)>>))
    /\ Busy(z2) => z2.begun = z.begun + 1
Moves(z, ch, z2) ==
    \/ \E cs \in Streams, len \in Lengths : BeginMove(z, ch, z2, cs, len)
    \/ \E cs \in Streams : ContinueMove(z, ch, z2, cs)
    \/ \E size \in NewChunks : SizeMove(z, ch, z2, size)

-----------------------------------------------------------------------------
(* What the parser has, when it has read what the client had sent when it  *)
(* was z: the calls st, the messages ms that wait, the headers x, the      *)
(* messages d that were delivered and the connection's chunk size q.       *)

Unfinished(f) == Unparsed(f) > 0

\* A call has the first pieces of a message; what it lacks was not sent yet.
CallOf(f, z) ==
    /\ Len(f.body) >= 1 /\ Id(f) \in 1..Len(z.sent)
    /\ LET m == z.sent[Id(f)]
       IN  /\ f.cs = m.cs /\ f.kind = m.kind /\ f.len = Len(m.body)
           /\ \A k \in 1..Len(f.body) : f.body[k] = m.body[k]
    /\ Unfinished(f) =>
          f.cs \in Streams /\ z.lastSent[f.cs].id = Id(f) /\ z.left[f.cs] = Unparsed(f)
InProgress(st, cs) == \E i \in 1..Len(st) : st[i].cs = cs /\ Unfinished(st[i])
CallsMatch(z, st) ==
    /\ \A i \in 1..Len(st) : CallOf(st[i], z)
    /\ \A cs \in Streams : z.left[cs] > 0 => InProgress(st, cs)
    /\ \A i, j \in 1..Len(st) :
          Unfinished(st[i]) /\ Unfinished(st[j]) /\ st[i].cs = st[j].cs => i = j

Remembers(z, x) ==
    \A cs \in Streams : z.lastSent[cs].id # 0 => x[cs] = [kind |-> "media", len |-> z.lastSent[cs].len]

\* The size that is set once the messages that wait are delivered.
LastSize(ms, size) ==
    \E i \in 1..Len(ms) : /\ IsSet(ms[i]) /\ ms[i].body[1].k = size
                          /\ \A j \in 1..Len(ms) : j > i => ~IsSet(ms[j])
SizeIs(q, ms, size) ==
    (q = size /\ \A i \in 1..Len(ms) : ~IsSet(ms[i])) \/ LastSize(ms, size)
SizesMatch(z, st, ms, q) ==
    /\ \A i \in 1..Len(st) : i < Len(st) => ~IsSet(st[i])
    /\ IF Len(st) # 0 /\ IsSet(st[Len(st)])
       THEN /\ st[Len(st)].body[1].k = z.outSize
            /\ \A i \in 1..Len(st) : Unfinished(st[i]) => i = Len(st) - 1
            /\ Len(st) = 1 => Len(ms) = 0
       ELSE /\ SizeIs(q, ms, z.outSize)
            /\ \A i \in 1..Len(st) : Unfinished(st[i]) => st[i].chunk = z.outSize

\* Each message is delivered, waits, or is being parsed.
Whole(m, z) == Id(m) \in 1..Len(z.sent) /\ m = z.sent[Id(m)]
Has(s, l) == \E i \in 1..Len(s) : Id(s[i]) = l
AllMatch(z, st, ms, d) ==
    /\ Len(d) + Len(ms) + Len(st) = Len(z.sent)
    /\ \A i \in 1..Len(d) : Whole(d[i], z)
    /\ \A i \in 1..Len(ms) : Whole(ms[i], z)
    /\ \A l \in 1..Len(z.sent) : Has(d, l) \/ Has(ms, l) \/ Has(st, l)

\* On each chunk stream the messages are in order: first those delivered,
\* then the outermost call's, then those that wait, then the other calls'.
Earlier(a, b) == a.cs = b.cs => Id(a) < Id(b)
InOrder(s) == \A i, j \in 1..Len(s) : i < j => Earlier(s[i], s[j])
Before(s, t, from) == \A i \in 1..Len(s), j \in 1..Len(t) : j >= from => Earlier(s[i], t[j])
OrderMatch(z, st, ms, d) ==
    /\ InOrder(d) /\ InOrder(ms) /\ InOrder(st)
    /\ Before(d, ms, 1) /\ Before(d, st, 1) /\ Before(ms, st, 2)
    /\ Len(st) # 0 => \A j \in 1..Len(ms) : Earlier(st[1], ms[j])
    /\ \A i, j \in 1..Len(st) : 2 <= i /\ i < j => st[i].cs # st[j].cs
    /\ Len(st) # 0 /\ Busy(z) => Len(ms) + Len(st) <= z.begun

Match(z, st, ms, x, d, q) ==
    /\ CallsMatch(z, st) /\ Remembers(z, x) /\ SizesMatch(z, st, ms, q) /\ AllMatch(z, st, ms, d)
    /\ MaxNest <= 3 => OrderMatch(z, st, ms, d)

-----------------------------------------------------------------------------
(* The client's chunks leave what it sent in order.                        *)

LEMMA StateIs ==
    ASSUME NEW z, z \in States
    PROVE  /\ z.left \in [Streams -> Nat] /\ z.lastSent \in [Streams -> Lasts]
           /\ z.outSize \in ChunkSizes /\ z.outSize \in Nat \ {0} /\ z.begun \in Nat
           /\ z.sent \in Seq(Messages) /\ Len(z.sent) \in Nat
           /\ \A cs \in Streams : /\ z.left[cs] \in Nat /\ z.lastSent[cs].id \in Nat
                                  /\ z.lastSent[cs].len \in Nat
           /\ \A i \in 1..Len(z.sent) : z.sent[i] \in Messages
<1>1. /\ z.left \in [Streams -> Nat] /\ z.lastSent \in [Streams -> Lasts]
      /\ z.outSize \in ChunkSizes /\ z.begun \in Nat /\ z.sent \in Seq(Messages)
  BY DEF States
<1>2. z.outSize \in Nat \ {0}
  BY <1>1, SizesArePositive, Zenon
<1>3. \A cs \in Streams : /\ z.left[cs] \in Nat /\ z.lastSent[cs].id \in Nat
                          /\ z.lastSent[cs].len \in Nat
  BY <1>1 DEF Lasts
<1> QED
  BY <1>1, <1>2, <1>3

LEMMA MessageIs ==
    ASSUME NEW m, m \in Messages
    PROVE  m.cs \in AnyStream /\ m.kind \in {"media", "SetChunkSize"} /\ m.body \in Seq(BodyUnits)
           /\ Len(m.body) \in Nat /\ \A k \in 1..Len(m.body) : m.body[k] \in BodyUnits
<1>1. m.cs \in AnyStream /\ m.kind \in {"media", "SetChunkSize"} /\ m.body \in Seq(BodyUnits)
  BY DEF Messages
<1> QED
  BY <1>1

\* A message that is new.
LEMMA NewMessage ==
    ASSUME NEW z, z \in States, NEW z2, z2 \in States, NEW m, z2.sent = Append(z.sent, m)
    PROVE  /\ Len(z2.sent) = Len(z.sent) + 1 /\ z2.sent[Len(z.sent) + 1] = m
           /\ \A i \in 1..Len(z.sent) : z2.sent[i] = z.sent[i]
<1>1. z.sent \in Seq(Messages)
  BY StateIs
<1> QED
  BY <1>1

\* The messages of one state are the first of those of another.
Follows(z2, z) ==
    /\ Len(z.sent) <= Len(z2.sent)
    /\ \A i \in 1..Len(z.sent) : z2.sent[i] = z.sent[i]

LEMMA BeginFine ==
    ASSUME NEW z, Fine(z), NEW ch, ch \in Chunks, NEW z2, z2 \in States, NEW cs, NEW len,
           BeginMove(z, ch, z2, cs, len)
    PROVE  /\ Fine(z2) /\ Follows(z2, z) /\ Len(z2.sent) = Len(z.sent) + 1
           /\ z2.sent[ch.id].cs = cs /\ z2.sent[ch.id].kind = "media"
           /\ Len(z2.sent[ch.id].body) = len
           /\ z2.left[cs] = len - ch.n /\ z2.lastSent[cs].len = len /\ z2.lastSent[cs].id = ch.id
           /\ \A s \in Streams : s # cs => z2.left[s] = z.left[s] /\ z2.lastSent[s] = z.lastSent[s]
           /\ ch.id = Len(z.sent) + 1 /\ ch.n <= len /\ len \in Nat \ {0} /\ ch.n \in Nat \ {0}
<1>b. PICK b : b = Pieces(ch.id, 1, len)
  OBVIOUS
<1> DEFINE m == Message(cs, "media", b)
           l == [cs |-> cs, len |-> len, id |-> ch.id]
<1>1. /\ cs \in Streams /\ len \in Lengths /\ z \in States
      /\ ch.id = Len(z.sent) + 1 /\ ch.n = Least(z.outSize, len)
      /\ z2.left = [z.left EXCEPT ![cs] = len - ch.n]
      /\ z2.lastSent = [z.lastSent EXCEPT ![cs] = l]
      /\ z2.sent = Append(z.sent, m)
  BY <1>b DEF BeginMove, Fine
<1>2. ch.id \in Nat /\ len \in Nat \ {0} /\ ch.n \in Nat \ {0}
  BY <1>1, SizesArePositive DEF Chunks
<1>3. b \in Seq(BodyUnits) /\ Len(b) = len /\ ArePieces(b, ch.id, 1, len)
  <2>1. 1 \in Nat \ {0} /\ len \in Nat
    BY <1>2
  <2>2. ArePieces(b, ch.id, 1, len)
    BY <1>2, <1>b, <2>1, PiecesAre, Zenon
  <2> QED
    BY <2>2 DEF ArePieces
<1>4. \A k \in 1..len : b[k] = Piece(ch.id, k) /\ b[k].id = ch.id
  <2> TAKE k \in 1..len
  <2>1. b[k] = Piece(ch.id, 1 + k - 1)
    BY <1>3 DEF ArePieces
  <2>2. 1 + k - 1 = k
    BY <1>2
  <2>3. b[k] = Piece(ch.id, k)
    BY <2>1, <2>2
  <2> QED
    BY <2>3 DEF Piece
<1>5. m.cs = cs /\ m.kind = "media" /\ m.body = b
  BY DEF Message
<1>6. l.len = len /\ l.id = ch.id
  OBVIOUS
<1> HIDE DEF m, l
<1>7. /\ Len(z2.sent) = Len(z.sent) + 1 /\ z2.sent[Len(z.sent) + 1] = m
      /\ \A i \in 1..Len(z.sent) : z2.sent[i] = z.sent[i]
  BY <1>1, NewMessage
<1>8. /\ z2.left[cs] = len - ch.n /\ z2.lastSent[cs] = l
      /\ \A s \in Streams : s # cs => z2.left[s] = z.left[s] /\ z2.lastSent[s] = z.lastSent[s]
  BY <1>1, StateIs
<1>9. Len(z.sent) \in Nat /\ ch.n <= len
  <2>1. z.outSize \in Nat /\ Len(z.sent) \in Nat
    BY <1>1, StateIs
  <2>2. Least(z.outSize, len) <= len
    BY <1>2, <2>1, LeastIs
  <2> QED
    BY <1>1, <2>1, <2>2
<1>10. \A i \in 1..Len(z2.sent) : MessageFine(z2.sent[i], i)
  <2> TAKE i \in 1..Len(z2.sent)
  <2>1. CASE i = Len(z.sent) + 1
    <3>1. z2.sent[i] = m /\ i = ch.id /\ 1 \in 1..len
      BY <1>1, <1>2, <1>7, <2>1
    <3>2. ~IsSet(m)
      BY <1>5 DEF IsSet
    <3> QED
      BY <1>1, <1>2, <1>3, <1>4, <1>5, <3>1, <3>2 DEF MessageFine, Id
  <2>2. CASE i # Len(z.sent) + 1
    <3>1. i \in 1..Len(z.sent)
      BY <1>7, <1>9, <2>2
    <3> QED
      BY <1>7, <3>1 DEF Fine
  <2> QED
    BY <2>1, <2>2
<1>11. \A s \in Streams : LastFine(z2, s)
  <2> TAKE s \in Streams
  <2>1. CASE s = cs
    <3>1. /\ z2.lastSent[s].id = ch.id /\ z2.lastSent[s].len = len
          /\ z2.sent[ch.id] = m /\ ch.id \in 1..Len(z2.sent) /\ ch.id # 0
          /\ z2.left[s] = len - ch.n
      BY <1>1, <1>6, <1>7, <1>8, <1>9, <2>1
    <3>2. z2.left[s] <= len
      BY <1>2, <3>1
    <3> QED
      BY <1>1, <1>3, <1>5, <2>1, <3>1, <3>2 DEF LastFine
  <2>2. CASE s # cs
    <3>1. z2.left[s] = z.left[s] /\ z2.lastSent[s] = z.lastSent[s] /\ LastFine(z, s)
      BY <1>8, <2>2 DEF Fine
    <3>2. CASE z.lastSent[s].id = 0
      BY <3>1, <3>2 DEF LastFine
    <3>3. CASE z.lastSent[s].id # 0
      <4>1. z.lastSent[s].id \in 1..Len(z.sent)
        BY <3>1, <3>3 DEF LastFine
      <4>2. z2.sent[z.lastSent[s].id] = z.sent[z.lastSent[s].id]
            /\ z.lastSent[s].id \in 1..Len(z2.sent)
        BY <1>7, <1>9, <4>1
      <4> QED
        BY <3>1, <3>3, <4>2 DEF LastFine
    <3> QED
      BY <3>2, <3>3
  <2> QED
    BY <2>1, <2>2
<1>12. Follows(z2, z)
  BY <1>7, <1>9 DEF Follows
<1>13. z2.sent[ch.id] = m
  BY <1>1, <1>7
<1> QED
  BY <1>1, <1>2, <1>3, <1>5, <1>6, <1>7, <1>8, <1>9, <1>10, <1>11, <1>12, <1>13 DEF Fine

LEMMA ContinueFine ==
    ASSUME NEW z, Fine(z), NEW ch, ch \in Chunks, NEW z2, z2 \in States, NEW cs,
           ContinueMove(z, ch, z2, cs)
    PROVE  /\ Fine(z2) /\ Follows(z2, z)
           /\ z2.left[cs] = z.left[cs] - ch.n
           /\ \A s \in Streams : s # cs => z2.left[s] = z.left[s]
           /\ ch.n <= z.left[cs] /\ ch.n \in Nat \ {0}
<1>1. /\ cs \in Streams /\ z.left[cs] > 0 /\ z \in States
      /\ ch.n = Least(z.outSize, z.left[cs])
      /\ z2.left = [z.left EXCEPT ![cs] = z.left[cs] - ch.n]
      /\ z2.lastSent = z.lastSent /\ z2.sent = z.sent
  BY DEF ContinueMove, Fine
<1>2. z.left[cs] \in Nat /\ z.outSize \in Nat /\ ch.n \in Nat \ {0} /\ Len(z.sent) \in Nat
  BY <1>1, StateIs DEF Chunks
<1>3. ch.n <= z.left[cs]
  BY <1>1, <1>2, LeastIs
<1>4. /\ z2.left[cs] = z.left[cs] - ch.n
      /\ \A s \in Streams : s # cs => z2.left[s] = z.left[s]
  BY <1>1, StateIs
<1>5. \A s \in Streams : LastFine(z2, s)
  <2> TAKE s \in Streams
  <2>1. LastFine(z, s) /\ z2.left[s] <= z.left[s] /\ (z.left[s] = 0 => z2.left[s] = 0)
    BY <1>1, <1>2, <1>3, <1>4, StateIs DEF Fine
  <2>2. z.left[s] \in Nat /\ z2.left[s] \in Nat /\ z.lastSent[s].len \in Nat
    BY <1>1, StateIs
  <2> QED
    BY <1>1, <2>1, <2>2 DEF LastFine
<1>6. Follows(z2, z)
  BY <1>1, <1>2 DEF Follows
<1>7. \A i \in 1..Len(z2.sent) : MessageFine(z2.sent[i], i)
  BY <1>1 DEF Fine
<1> QED
  BY <1>2, <1>3, <1>4, <1>5, <1>6, <1>7 DEF Fine

LEMMA SizeFine ==
    ASSUME NEW z, Fine(z), NEW ch, ch \in Chunks, NEW z2, z2 \in States, NEW size,
           SizeMove(z, ch, z2, size)
    PROVE  /\ Fine(z2) /\ Follows(z2, z) /\ Len(z2.sent) = Len(z.sent) + 1
           /\ z2.sent[ch.id].cs = Control /\ z2.sent[ch.id].kind = "SetChunkSize"
           /\ Len(z2.sent[ch.id].body) = 1 /\ z2.sent[ch.id].body[1] = Piece(ch.id, size)
           /\ ch.id = Len(z.sent) + 1
<1> DEFINE b == <<Piece(ch.id, size)>>
           m == Message(Control, "SetChunkSize", b)
<1>1. /\ z \in States /\ ch.id = Len(z.sent) + 1
      /\ z2.left = z.left /\ z2.lastSent = z.lastSent
      /\ z2.sent = Append(z.sent, m)
  BY DEF SizeMove, Fine
<1>2. Len(b) = 1 /\ b[1] = Piece(ch.id, size) /\ b[1].id = ch.id
  BY DEF Piece
<1> HIDE DEF b
<1>3. m.cs = Control /\ m.kind = "SetChunkSize" /\ m.body = b
  BY DEF Message
<1> HIDE DEF m
<1>4. /\ Len(z2.sent) = Len(z.sent) + 1 /\ z2.sent[Len(z.sent) + 1] = m
      /\ \A i \in 1..Len(z.sent) : z2.sent[i] = z.sent[i]
  BY <1>1, NewMessage
<1>5. Len(z.sent) \in Nat
  BY <1>1, StateIs
<1>6. \A i \in 1..Len(z2.sent) : MessageFine(z2.sent[i], i)
  <2> TAKE i \in 1..Len(z2.sent)
  <2>1. CASE i = Len(z.sent) + 1
    <3>1. z2.sent[i] = m /\ i = ch.id
      BY <1>1, <1>4, <2>1
    <3> QED
      BY <1>2, <1>3, <3>1 DEF MessageFine, Id, IsSet
  <2>2. CASE i # Len(z.sent) + 1
    <3>1. i \in 1..Len(z.sent)
      BY <1>4, <1>5, <2>2
    <3> QED
      BY <1>4, <3>1 DEF Fine
  <2> QED
    BY <2>1, <2>2
<1>7. \A s \in Streams : LastFine(z2, s)
  <2> TAKE s \in Streams
  <2>1. z2.left[s] = z.left[s] /\ z2.lastSent[s] = z.lastSent[s] /\ LastFine(z, s)
    BY <1>1 DEF Fine
  <2>2. CASE z.lastSent[s].id = 0
    BY <2>1, <2>2 DEF LastFine
  <2>3. CASE z.lastSent[s].id # 0
    <3>1. z.lastSent[s].id \in 1..Len(z.sent)
      BY <2>1, <2>3 DEF LastFine
    <3>2. z2.sent[z.lastSent[s].id] = z.sent[z.lastSent[s].id]
          /\ z.lastSent[s].id \in 1..Len(z2.sent)
      BY <1>4, <1>5, <3>1
    <3> QED
      BY <2>1, <2>3, <3>2 DEF LastFine
  <2> QED
    BY <2>2, <2>3
<1>8. Follows(z2, z) /\ z2.sent[ch.id] = m
  BY <1>1, <1>4, <1>5 DEF Follows
<1> QED
  BY <1>1, <1>2, <1>3, <1>4, <1>6, <1>7, <1>8 DEF Fine

-----------------------------------------------------------------------------
(* The calls.                                                              *)

\* What a call of the stack is.
LEMMA CallFacts ==
    ASSUME NEW z, Fine(z), NEW f, f \in Calls, CallOf(f, z)
    PROVE  /\ IsSet(f) => f.cs = Control /\ ~Unfinished(f)
           /\ ~IsSet(f) => f.cs \in Streams /\ f.kind = "media"
           /\ Unfinished(f) => /\ f.cs \in Streams /\ z.left[f.cs] > 0
                               /\ z.lastSent[f.cs].id = Id(f) /\ z.left[f.cs] = Unparsed(f)
           /\ Id(f) \in 1..Len(z.sent)
<1>1. /\ z \in States /\ Id(f) \in 1..Len(z.sent)
      /\ MessageFine(z.sent[Id(f)], Id(f)) /\ z.sent[Id(f)] \in Messages
      /\ f.cs = z.sent[Id(f)].cs /\ f.kind = z.sent[Id(f)].kind
      /\ Unfinished(f) => /\ f.cs \in Streams
                          /\ z.lastSent[f.cs].id = Id(f) /\ z.left[f.cs] = Unparsed(f)
  BY StateIs DEF Fine, CallOf
<1>2. f.kind \in {"media", "SetChunkSize"}
  BY <1>1, MessageIs
<1>3. Control \notin Streams
  BY SizesArePositive
<1>4. IsSet(f) => f.cs = Control
  BY <1>1 DEF MessageFine, IsSet
<1>5. ~IsSet(f) => f.cs \in Streams /\ f.kind = "media"
  BY <1>1, <1>2 DEF MessageFine, IsSet
<1>6. Unfinished(f) => z.left[f.cs] > 0
  BY <1>1 DEF Unfinished
<1> QED
  BY <1>1, <1>3, <1>4, <1>5, <1>6

\* A call stays what it is while its own message gets nothing.
LEMMA CallKept ==
    ASSUME NEW z, NEW z2, Fine(z), Follows(z2, z), z2 \in States, NEW f, CallOf(f, z),
           Unfinished(f) => z2.left[f.cs] = z.left[f.cs] /\ z2.lastSent[f.cs] = z.lastSent[f.cs]
    PROVE  CallOf(f, z2)
<1>1. z2.sent[Id(f)] = z.sent[Id(f)] /\ Id(f) \in 1..Len(z2.sent)
  <2>1. Len(z.sent) \in Nat /\ Len(z2.sent) \in Nat
    BY StateIs DEF Fine
  <2> QED
    BY <2>1 DEF Follows, CallOf
<1> QED
  BY <1>1 DEF CallOf

\* One more call on the stack.
Pushed(st, f, st2) ==
    /\ st \in Seq(Calls) /\ f \in Calls /\ st2 \in Seq(Calls)
    /\ Len(st) \in Nat /\ Len(st2) = Len(st) + 1 /\ st2[Len(st) + 1] = f
    /\ \A i \in 1..Len(st) : st2[i] = st[i]

LEMMA PushedIs ==
    ASSUME NEW st, st \in Seq(Calls), NEW f, f \in Calls, NEW st2, st2 = Append(st, f)
    PROVE  Pushed(st, f, st2)
BY DEF Pushed

LEMMA PushedPlaces ==
    ASSUME NEW st, NEW f, NEW st2, Pushed(st, f, st2), NEW i, i \in 1..Len(st2)
    PROVE  (i = Len(st) + 1 /\ st2[i] = f) \/ (i \in 1..Len(st) /\ st2[i] = st[i] /\ i # Len(st) + 1)
<1>1. i = Len(st) + 1 \/ (i \in 1..Len(st) /\ i # Len(st) + 1)
  BY DEF Pushed
<1> QED
  BY <1>1 DEF Pushed

\* The call that begins to parse the message of a chunk.
Opens(f, z2, ch) ==
    /\ f \in Calls /\ z2.sent[ch.id] \in Messages /\ ch.id \in 1..Len(z2.sent)
    /\ f.cs = z2.sent[ch.id].cs /\ f.kind = z2.sent[ch.id].kind
    /\ f.len = Len(z2.sent[ch.id].body)
    /\ Len(f.body) = ch.n /\ ArePieces(f.body, ch.id, ch.from, ch.n)

LEMMA OpenedId ==
    ASSUME NEW f, NEW z2, NEW ch, ch \in Chunks, Opens(f, z2, ch)
    PROVE  Id(f) = ch.id /\ Len(f.body) >= 1
<1>1. 1 \in 1..ch.n /\ ch.n \in Nat /\ ch.from \in Nat
  BY DEF Chunks
<1>2. f.body[1] = Piece(ch.id, ch.from + 1 - 1)
  BY <1>1 DEF Opens, ArePieces
<1>3. f.body[1].id = ch.id
  BY <1>2 DEF Piece
<1> QED
  BY <1>1, <1>3 DEF Id, Opens

LEMMA CallsBegin ==
    ASSUME NEW z, Fine(z), NEW ch, ch \in Chunks, NEW z2, z2 \in States, NEW cs, NEW len,
           BeginMove(z, ch, z2, cs, len), NEW st, CallsMatch(z, st),
           NEW f, Opens(f, z2, ch), NEW st2, Pushed(st, f, st2)
    PROVE  CallsMatch(z2, st2)
<1>1. /\ Fine(z2) /\ Follows(z2, z) /\ Len(z2.sent) = Len(z.sent) + 1
      /\ z2.sent[ch.id].cs = cs /\ z2.sent[ch.id].kind = "media"
      /\ Len(z2.sent[ch.id].body) = len
      /\ z2.left[cs] = len - ch.n /\ z2.lastSent[cs].len = len /\ z2.lastSent[cs].id = ch.id
      /\ \A s \in Streams : s # cs => z2.left[s] = z.left[s] /\ z2.lastSent[s] = z.lastSent[s]
      /\ ch.id = Len(z.sent) + 1 /\ ch.n <= len /\ len \in Nat \ {0} /\ ch.n \in Nat \ {0}
  BY BeginFine
<1>2. cs \in Streams /\ z.left[cs] = 0
  BY DEF BeginMove
<1>3. \A i \in 1..Len(st) : st[i] \in Calls /\ CallOf(st[i], z)
  BY DEF Pushed, CallsMatch
<1>4. \A i \in 1..Len(st) : Unfinished(st[i]) => st[i].cs \in Streams /\ st[i].cs # cs
  <2> TAKE i \in 1..Len(st)
  <2>1. Unfinished(st[i]) => st[i].cs \in Streams /\ z.left[st[i].cs] > 0
    BY <1>3, CallFacts
  <2> QED
    BY <1>2, <2>1
<1>5. \A i \in 1..Len(st) : CallOf(st[i], z2)
  <2> TAKE i \in 1..Len(st)
  <2>1. Unfinished(st[i]) =>
           z2.left[st[i].cs] = z.left[st[i].cs] /\ z2.lastSent[st[i].cs] = z.lastSent[st[i].cs]
    BY <1>1, <1>4
  <2> QED
    BY <1>1, <1>3, <2>1, CallKept
<1>6. /\ Id(f) = ch.id /\ Len(f.body) >= 1 /\ f.cs = cs /\ f.kind = "media" /\ f.len = len
      /\ Len(f.body) = ch.n
  <2>1. Id(f) = ch.id /\ Len(f.body) >= 1
    BY OpenedId
  <2> QED
    BY <1>1, <2>1 DEF Opens
<1>7. CallOf(f, z2)
  <2>1. ch.id \in 1..Len(z2.sent)
    BY DEF Opens
  <2>2. \A k \in 1..Len(f.body) : f.body[k] = z2.sent[ch.id].body[k]
    <3> TAKE k \in 1..Len(f.body)
    <3>1. MessageFine(z2.sent[ch.id], ch.id) /\ ~IsSet(z2.sent[ch.id])
      BY <1>1, <2>1 DEF Fine, IsSet
    <3>2. k \in 1..len /\ k \in 1..ch.n /\ 1 + k - 1 = k
      BY <1>1, <1>6
    <3>3. z2.sent[ch.id].body[k] = Piece(ch.id, k)
      BY <1>1, <3>1, <3>2 DEF MessageFine
    <3>4. f.body[k] = Piece(ch.id, ch.from + k - 1) /\ ch.from = 1
      BY <3>2 DEF Opens, ArePieces, BeginMove
    <3> QED
      BY <3>2, <3>3, <3>4
  <2>3. Unparsed(f) = len - ch.n
    BY <1>6 DEF Unparsed
  <2> QED
    BY <1>1, <1>2, <1>6, <2>1, <2>2, <2>3 DEF CallOf
<1>8. \A i \in 1..Len(st2) : CallOf(st2[i], z2)
  BY <1>5, <1>7, PushedPlaces
<1>9. \A s \in Streams : z2.left[s] > 0 => InProgress(st2, s)
  <2> SUFFICES ASSUME NEW s \in Streams, z2.left[s] > 0 PROVE InProgress(st2, s)
    OBVIOUS
  <2>1. CASE s = cs
    <3>1. Unfinished(f) /\ Len(st) + 1 \in 1..Len(st2) /\ st2[Len(st) + 1] = f
      BY <1>1, <1>6, <2>1 DEF Unfinished, Unparsed, Pushed
    <3> QED
      BY <1>6, <2>1, <3>1 DEF InProgress
  <2>2. CASE s # cs
    <3>1. InProgress(st, s)
      BY <1>1, <2>2 DEF CallsMatch
    <3>2. PICK i \in 1..Len(st) : st[i].cs = s /\ Unfinished(st[i])
      BY <3>1 DEF InProgress
    <3>3. i \in 1..Len(st2) /\ st2[i] = st[i]
      BY <3>2 DEF Pushed
    <3> QED
      BY <3>2, <3>3 DEF InProgress
  <2> QED
    BY <2>1, <2>2
<1>10. \A i, j \in 1..Len(st2) :
          Unfinished(st2[i]) /\ Unfinished(st2[j]) /\ st2[i].cs = st2[j].cs => i = j
  <2> SUFFICES ASSUME NEW i \in 1..Len(st2), NEW j \in 1..Len(st2), Unfinished(st2[i]),
                      Unfinished(st2[j]), st2[i].cs = st2[j].cs
               PROVE  i = j
    OBVIOUS
  <2>1. (i = Len(st) + 1 /\ st2[i] = f) \/ (i \in 1..Len(st) /\ st2[i] = st[i] /\ i # Len(st) + 1)
    BY PushedPlaces
  <2>2. (j = Len(st) + 1 /\ st2[j] = f) \/ (j \in 1..Len(st) /\ st2[j] = st[j] /\ j # Len(st) + 1)
    BY PushedPlaces
  <2> QED
    BY <1>4, <1>6, <2>1, <2>2 DEF CallsMatch
<1> QED
  BY <1>8, <1>9, <1>10 DEF CallsMatch

LEMMA CallsSize ==
    ASSUME NEW z, Fine(z), NEW ch, ch \in Chunks, NEW z2, z2 \in States, NEW size,
           SizeMove(z, ch, z2, size), NEW st, CallsMatch(z, st),
           NEW f, Opens(f, z2, ch), NEW st2, Pushed(st, f, st2)
    PROVE  CallsMatch(z2, st2) /\ IsSet(f) /\ f.body[1].k = z2.outSize /\ ~Unfinished(f)
<1>1. /\ Fine(z2) /\ Follows(z2, z) /\ Len(z2.sent) = Len(z.sent) + 1
      /\ z2.sent[ch.id].cs = Control /\ z2.sent[ch.id].kind = "SetChunkSize"
      /\ Len(z2.sent[ch.id].body) = 1 /\ z2.sent[ch.id].body[1] = Piece(ch.id, size)
      /\ ch.id = Len(z.sent) + 1
  BY SizeFine
<1>2. z2.left = z.left /\ z2.lastSent = z.lastSent /\ ch.n = 1 /\ ch.from = size /\ z2.outSize = size
  BY DEF SizeMove
<1>3. \A i \in 1..Len(st) : CallOf(st[i], z)
  BY DEF CallsMatch
<1>4. \A i \in 1..Len(st) : CallOf(st[i], z2)
  BY <1>1, <1>2, <1>3, CallKept
<1>5. /\ Id(f) = ch.id /\ Len(f.body) = 1 /\ f.cs = Control /\ f.kind = "SetChunkSize" /\ f.len = 1
      /\ ch.id \in 1..Len(z2.sent)
  BY <1>1, <1>2, OpenedId DEF Opens
<1>6. f.body[1] = Piece(ch.id, size)
  <2>1. 1 \in 1..ch.n /\ size + 1 - 1 = size
    BY <1>2 DEF Chunks
  <2>2. f.body[1] = Piece(ch.id, ch.from + 1 - 1)
    BY <2>1 DEF Opens, ArePieces
  <2> QED
    BY <1>2, <2>1, <2>2
<1>7. ~Unfinished(f)
  BY <1>5 DEF Unfinished, Unparsed
<1>8. CallOf(f, z2)
  <2>1. \A k \in 1..1 : k = 1
    OBVIOUS
  <2> QED
    BY <1>1, <1>5, <1>6, <1>7, <2>1 DEF CallOf
<1>9. \A i \in 1..Len(st2) : CallOf(st2[i], z2)
  BY <1>4, <1>8, PushedPlaces
<1>10. \A s \in Streams : z2.left[s] > 0 => InProgress(st2, s)
  <2> SUFFICES ASSUME NEW s \in Streams, z2.left[s] > 0 PROVE InProgress(st2, s)
    OBVIOUS
  <2>1. InProgress(st, s)
    BY <1>2 DEF CallsMatch
  <2>2. PICK i \in 1..Len(st) : st[i].cs = s /\ Unfinished(st[i])
    BY <2>1 DEF InProgress
  <2>3. i \in 1..Len(st2) /\ st2[i] = st[i]
    BY <2>2 DEF Pushed
  <2> QED
    BY <2>2, <2>3 DEF InProgress
<1>11. \A i, j \in 1..Len(st2) :
          Unfinished(st2[i]) /\ Unfinished(st2[j]) /\ st2[i].cs = st2[j].cs => i = j
  <2> SUFFICES ASSUME NEW i \in 1..Len(st2), NEW j \in 1..Len(st2), Unfinished(st2[i]),
                      Unfinished(st2[j]), st2[i].cs = st2[j].cs
               PROVE  i = j
    OBVIOUS
  <2>1. i \in 1..Len(st) /\ st2[i] = st[i] /\ j \in 1..Len(st) /\ st2[j] = st[j]
    BY <1>7, PushedPlaces
  <2> QED
    BY <2>1 DEF CallsMatch
<1>12. IsSet(f) /\ f.body[1].k = z2.outSize
  BY <1>2, <1>5, <1>6 DEF IsSet, Piece
<1> QED
  BY <1>7, <1>9, <1>10, <1>11, <1>12 DEF CallsMatch

\* One call of the stack changes.
Changed(st, i, g, st2) ==
    /\ st \in Seq(Calls) /\ g \in Calls /\ st2 \in Seq(Calls)
    /\ Len(st) \in Nat /\ i \in 1..Len(st) /\ Len(st2) = Len(st) /\ st2[i] = g
    /\ \A j \in 1..Len(st) : j # i => st2[j] = st[j]

\* It gets the pieces of a chunk.
Grows(f, g, ch) ==
    /\ f \in Calls /\ g \in Calls
    /\ g.cs = f.cs /\ g.kind = f.kind /\ g.len = f.len /\ g.chunk = f.chunk
    /\ Len(g.body) = Len(f.body) + ch.n
    /\ \A k \in 1..Len(f.body) : g.body[k] = f.body[k]
    /\ \A k \in 1..ch.n : g.body[Len(f.body) + k] = Piece(ch.id, ch.from + k - 1)

LEMMA GrownCall ==
    ASSUME NEW z, Fine(z), NEW ch, ch \in Chunks, NEW z2, z2 \in States, NEW cs,
           ContinueMove(z, ch, z2, cs), NEW f, CallOf(f, z), Unfinished(f), f.cs = cs,
           NEW g, Grows(f, g, ch)
    PROVE  CallOf(g, z2) /\ Id(g) = Id(f) /\ Unparsed(g) = Unparsed(f) - ch.n /\ ~IsSet(g)
<1>1. /\ Fine(z2) /\ z2.left[cs] = z.left[cs] - ch.n
      /\ ch.n <= z.left[cs] /\ ch.n \in Nat \ {0} /\ z2.sent = z.sent /\ z2.lastSent = z.lastSent
      /\ cs \in Streams /\ z \in States
  <2>1. /\ Fine(z2) /\ z2.left[cs] = z.left[cs] - ch.n
        /\ ch.n <= z.left[cs] /\ ch.n \in Nat \ {0}
    BY ContinueFine
  <2> QED
    BY <2>1 DEF ContinueMove, Fine
<1>2. /\ ~IsSet(f) /\ z.lastSent[cs].id = Id(f) /\ z.left[cs] = Unparsed(f)
      /\ Id(f) \in 1..Len(z.sent) /\ f \in Calls
  BY CallFacts DEF Grows
<1>3. Len(f.body) \in Nat /\ f.len \in Nat /\ Len(f.body) >= 1
  BY <1>2, CallIs DEF CallOf
<1>4. PICK m : m = z.sent[Id(f)]
  OBVIOUS
<1>5. /\ f.cs = m.cs /\ f.kind = m.kind /\ f.len = Len(m.body)
      /\ \A k \in 1..Len(f.body) : f.body[k] = m.body[k]
  BY <1>4 DEF CallOf
<1>6. MessageFine(m, Id(f)) /\ ~IsSet(m)
  BY <1>2, <1>4, <1>5 DEF Fine, IsSet
<1>7. Len(m.body) = z.lastSent[cs].len
  <2>1. LastFine(z, cs) /\ Id(f) # 0
    BY <1>1, <1>2 DEF Fine
  <2> QED
    BY <1>2, <1>4, <2>1 DEF LastFine
<1>8. ch.id = Id(f) /\ ch.from = Len(f.body) + 1
  <2>1. ch.id = z.lastSent[cs].id /\ ch.from = z.lastSent[cs].len - z.left[cs] + 1
    BY DEF ContinueMove
  <2>2. z.left[cs] = f.len - Len(f.body)
    BY <1>2 DEF Unparsed
  <2>3. PICK a \in Nat : a = Len(f.body)
    BY <1>3
  <2>4. PICK l \in Nat : l = f.len
    BY <1>3
  <2>5. ch.from = l - (l - a) + 1
    BY <1>5, <1>7, <2>1, <2>2, <2>3, <2>4
  <2>6. l - (l - a) + 1 = a + 1
    OBVIOUS
  <2> QED
    BY <1>2, <2>1, <2>3, <2>5, <2>6
<1>9. \A k \in 1..Len(g.body) : g.body[k] = m.body[k]
  <2> TAKE k \in 1..Len(g.body)
  <2>1. CASE k <= Len(f.body)
    <3>1. k \in 1..Len(f.body)
      BY <1>3, <2>1 DEF Grows
    <3> QED
      BY <1>5, <3>1 DEF Grows
  <2>2. CASE k > Len(f.body)
    <3>1. PICK j \in 1..ch.n : k = Len(f.body) + j
      <4>1. Len(g.body) = Len(f.body) + ch.n
        BY DEF Grows
      <4>2. k - Len(f.body) \in 1..ch.n /\ k = Len(f.body) + (k - Len(f.body))
        BY <1>1, <1>3, <2>2, <4>1
      <4> QED
        BY <4>2
    <3>2. g.body[k] = Piece(ch.id, ch.from + j - 1)
      BY <3>1 DEF Grows
    <3>3. ch.from + j - 1 = k /\ k \in 1..Len(m.body)
      <4>1. f.len - Len(f.body) >= ch.n
        BY <1>1, <1>2 DEF Unparsed
      <4>2. PICK a \in Nat : a = Len(f.body)
        BY <1>3
      <4>3. PICK l \in Nat : l = f.len
        BY <1>3
      <4>4. PICK n \in Nat : n = ch.n
        BY <1>1
      <4>5. l - a >= n /\ j \in 1..n /\ ch.from = a + 1 /\ k = a + j
        BY <1>8, <3>1, <4>1, <4>2, <4>3, <4>4
      <4>6. a + 1 + j - 1 = a + j /\ a + j \in 1..l
        BY <4>5
      <4> QED
        BY <1>5, <4>3, <4>5, <4>6
    <3>4. m.body[k] = Piece(Id(f), k)
      BY <1>6, <3>3 DEF MessageFine
    <3> QED
      BY <1>8, <3>2, <3>3, <3>4
  <2> QED
    BY <1>3, <2>1, <2>2
<1>10. Id(g) = Id(f) /\ Len(g.body) >= 1
  <2>1. 1 \in 1..Len(f.body)
    BY <1>3
  <2>2. g.body[1] = f.body[1] /\ Len(g.body) = Len(f.body) + ch.n
    BY <2>1 DEF Grows
  <2> QED
    BY <1>1, <1>3, <2>2 DEF Id
<1>11. Unparsed(g) = Unparsed(f) - ch.n
  BY <1>1, <1>3 DEF Grows, Unparsed
<1>12. g.cs = m.cs /\ g.kind = m.kind /\ g.len = Len(m.body) /\ g.cs = cs
  BY <1>5 DEF Grows
<1>13. CallOf(g, z2)
  BY <1>1, <1>2, <1>4, <1>9, <1>10, <1>11, <1>12 DEF CallOf
<1> QED
  BY <1>6, <1>10, <1>11, <1>12, <1>13 DEF IsSet

LEMMA CallsContinue ==
    ASSUME NEW z, Fine(z), NEW ch, ch \in Chunks, NEW z2, z2 \in States, NEW cs,
           ContinueMove(z, ch, z2, cs), NEW st, CallsMatch(z, st), NEW i, NEW g, NEW st2,
           Changed(st, i, g, st2), Grows(st[i], g, ch), st[i].cs = cs, Unfinished(st[i])
    PROVE  CallsMatch(z2, st2)
<1>1. /\ Fine(z2) /\ Follows(z2, z) /\ z2.left[cs] = z.left[cs] - ch.n
      /\ \A s \in Streams : s # cs => z2.left[s] = z.left[s]
      /\ ch.n <= z.left[cs] /\ ch.n \in Nat \ {0} /\ z2.lastSent = z.lastSent /\ cs \in Streams
  <2>1. /\ Fine(z2) /\ Follows(z2, z) /\ z2.left[cs] = z.left[cs] - ch.n
        /\ \A s \in Streams : s # cs => z2.left[s] = z.left[s]
        /\ ch.n <= z.left[cs] /\ ch.n \in Nat \ {0}
    BY ContinueFine
  <2> QED
    BY <2>1 DEF ContinueMove
<1>2. i \in 1..Len(st) /\ \A j \in 1..Len(st) : CallOf(st[j], z) /\ st[j] \in Calls
  BY DEF CallsMatch, Changed
<1>3. CallOf(g, z2) /\ Unparsed(g) = Unparsed(st[i]) - ch.n /\ g.cs = cs
  <2>1. CallOf(g, z2) /\ Unparsed(g) = Unparsed(st[i]) - ch.n
    BY <1>2, GrownCall
  <2> QED
    BY <2>1 DEF Grows
<1>4. z.left[cs] = Unparsed(st[i])
  BY <1>2, CallFacts
<1>5. \A j \in 1..Len(st) : j # i /\ Unfinished(st[j]) => st[j].cs # cs /\ st[j].cs \in Streams
  <2> TAKE j \in 1..Len(st)
  <2>1. Unfinished(st[j]) => st[j].cs \in Streams
    BY <1>2, CallFacts
  <2> QED
    BY <1>2, <2>1 DEF CallsMatch
<1>6. \A j \in 1..Len(st) : j # i => CallOf(st[j], z2)
  <2> TAKE j \in 1..Len(st)
  <2> HAVE j # i
  <2>1. Unfinished(st[j]) =>
           z2.left[st[j].cs] = z.left[st[j].cs] /\ z2.lastSent[st[j].cs] = z.lastSent[st[j].cs]
    BY <1>1, <1>5
  <2> QED
    BY <1>1, <1>2, <2>1, CallKept
<1>7. /\ Len(st2) = Len(st) /\ st2[i] = g
      /\ \A j \in 1..Len(st) : j # i => st2[j] = st[j]
  BY DEF Changed
<1>8. \A j \in 1..Len(st2) : CallOf(st2[j], z2)
  <2> TAKE j \in 1..Len(st2)
  <2> QED
    BY <1>3, <1>6, <1>7
<1>9. \A s \in Streams : z2.left[s] > 0 => InProgress(st2, s)
  <2> SUFFICES ASSUME NEW s \in Streams, z2.left[s] > 0 PROVE InProgress(st2, s)
    OBVIOUS
  <2>1. CASE s = cs
    <3>1. Unfinished(g)
      BY <1>1, <1>3, <1>4, <2>1 DEF Unfinished
    <3> QED
      BY <1>2, <1>3, <1>7, <2>1, <3>1 DEF InProgress
  <2>2. CASE s # cs
    <3>1. InProgress(st, s)
      BY <1>1, <2>2 DEF CallsMatch
    <3>2. PICK j \in 1..Len(st) : st[j].cs = s /\ Unfinished(st[j])
      BY <3>1 DEF InProgress
    <3>3. j # i /\ j \in 1..Len(st2)
      BY <1>7, <2>2, <3>2
    <3>4. st2[j] = st[j]
      BY <1>7, <3>2, <3>3
    <3> QED
      BY <3>2, <3>3, <3>4 DEF InProgress
  <2> QED
    BY <2>1, <2>2
<1>10. \A j \in 1..Len(st2) : Unfinished(st2[j]) =>
          j \in 1..Len(st) /\ Unfinished(st[j]) /\ st2[j].cs = st[j].cs
  <2> TAKE j \in 1..Len(st2)
  <2> HAVE Unfinished(st2[j])
  <2>1. CASE j = i
    BY <1>2, <1>3, <1>7, <2>1
  <2>2. CASE j # i
    <3>1. j \in 1..Len(st) /\ st2[j] = st[j]
      BY <1>7, <2>2
    <3> QED
      BY <3>1
  <2> QED
    BY <2>1, <2>2
<1>11. \A j, k \in 1..Len(st2) :
          Unfinished(st2[j]) /\ Unfinished(st2[k]) /\ st2[j].cs = st2[k].cs => j = k
  BY <1>10 DEF CallsMatch
<1> QED
  BY <1>8, <1>9, <1>11 DEF CallsMatch

-----------------------------------------------------------------------------
(* The headers and the chunk sizes.                                        *)

Remembering(x, cs, len) == [x EXCEPT ![cs] = [kind |-> "media", len |-> len]]

LEMMA RemembersBegin ==
    ASSUME NEW z, Fine(z), NEW ch, ch \in Chunks, NEW z2, z2 \in States, NEW cs, NEW len,
           BeginMove(z, ch, z2, cs, len), NEW x, x \in [Streams -> Contexts], Remembers(z, x),
           NEW x2, x2 = Remembering(x, cs, len)
    PROVE  Remembers(z2, x2)
<1>1. /\ z2.lastSent[cs].len = len /\ z2.lastSent[cs].id = ch.id /\ cs \in Streams
      /\ \A s \in Streams : s # cs => z2.lastSent[s] = z.lastSent[s]
  <2>1. /\ z2.lastSent[cs].len = len /\ z2.lastSent[cs].id = ch.id
        /\ \A s \in Streams : s # cs => z2.left[s] = z.left[s] /\ z2.lastSent[s] = z.lastSent[s]
    BY BeginFine
  <2> QED
    BY <2>1 DEF BeginMove
<1>2. x2[cs] = [kind |-> "media", len |-> len] /\ \A s \in Streams : s # cs => x2[s] = x[s]
  BY <1>1 DEF Remembering
<1>3. \A s \in Streams : z2.lastSent[s].id # 0 => x2[s] = [kind |-> "media", len |-> z2.lastSent[s].len]
  <2> SUFFICES ASSUME NEW s \in Streams, z2.lastSent[s].id # 0
               PROVE  x2[s] = [kind |-> "media", len |-> z2.lastSent[s].len]
    OBVIOUS
  <2>1. CASE s = cs
    BY <1>1, <1>2, <2>1
  <2>2. CASE s # cs
    BY <1>1, <1>2, <2>2 DEF Remembers
  <2> QED
    BY <2>1, <2>2
<1> QED
  BY <1>3 DEF Remembers

\* The next chunk is read in the innermost call, which is unfinished, or when
\* there is no call and no message that waits.
Ready(st, ms) == IF Len(st) = 0 THEN Len(ms) = 0 ELSE Unfinished(st[Len(st)])

\* The chunk size for it.
SizeForChunk(st, q) == IF Len(st) = 0 THEN q ELSE st[Len(st)].chunk

LEMMA SizesReady ==
    ASSUME NEW z, Fine(z), NEW st, st \in Seq(Calls), CallsMatch(z, st), NEW ms, NEW q,
           SizesMatch(z, st, ms, q), Ready(st, ms)
    PROVE  /\ SizeIs(q, ms, z.outSize) /\ SizeForChunk(st, q) = z.outSize
           /\ \A i \in 1..Len(st) : ~IsSet(st[i]) /\ (Unfinished(st[i]) => st[i].chunk = z.outSize)
<1>1. Len(st) \in Nat /\ \A i \in 1..Len(st) : st[i] \in Calls /\ CallOf(st[i], z)
  BY DEF CallsMatch
<1>2. Len(st) # 0 => Len(st) \in 1..Len(st)
  BY <1>1
<1>3. Len(st) # 0 => ~IsSet(st[Len(st)])
  BY <1>1, <1>2, CallFacts DEF Ready
<1>4. /\ SizeIs(q, ms, z.outSize)
      /\ \A i \in 1..Len(st) : Unfinished(st[i]) => st[i].chunk = z.outSize
  BY <1>3 DEF SizesMatch
<1>5. \A i \in 1..Len(st) : ~IsSet(st[i])
  <2> TAKE i \in 1..Len(st)
  <2>1. i < Len(st) \/ i = Len(st)
    BY <1>1
  <2> QED
    BY <1>1, <1>3, <2>1 DEF SizesMatch
<1>6. CASE Len(st) = 0
  <2>1. ~LastSize(ms, z.outSize)
    <3>1. Len(ms) = 0
      BY <1>6 DEF Ready
    <3>2. \A i \in 1..0 : FALSE
      OBVIOUS
    <3> QED
      BY <3>1, <3>2 DEF LastSize
  <2> QED
    BY <1>4, <1>5, <1>6, <2>1 DEF SizeIs, SizeForChunk
<1>7. CASE Len(st) # 0
  BY <1>2, <1>4, <1>5, <1>7 DEF Ready, SizeForChunk
<1> QED
  BY <1>6, <1>7

LEMMA SizesBegin ==
    ASSUME NEW z, Fine(z), NEW st, CallsMatch(z, st), NEW ms, NEW q,
           SizesMatch(z, st, ms, q), Ready(st, ms), NEW z2, z2.outSize = z.outSize,
           NEW f, NEW st2, Pushed(st, f, st2), ~IsSet(f), f.chunk = SizeForChunk(st, q)
    PROVE  SizesMatch(z2, st2, ms, q)
<1>1. /\ SizeIs(q, ms, z.outSize) /\ SizeForChunk(st, q) = z.outSize
      /\ \A i \in 1..Len(st) : ~IsSet(st[i]) /\ (Unfinished(st[i]) => st[i].chunk = z.outSize)
  BY SizesReady DEF Pushed
<1>2. \A i \in 1..Len(st2) : ~IsSet(st2[i]) /\ (Unfinished(st2[i]) => st2[i].chunk = z2.outSize)
  <2> TAKE i \in 1..Len(st2)
  <2>1. (i = Len(st) + 1 /\ st2[i] = f) \/ (i \in 1..Len(st) /\ st2[i] = st[i] /\ i # Len(st) + 1)
    BY PushedPlaces
  <2> QED
    BY <1>1, <2>1
<1>3. Len(st2) \in 1..Len(st2)
  BY DEF Pushed
<1> QED
  BY <1>1, <1>2, <1>3 DEF SizesMatch

LEMMA SizesSize ==
    ASSUME NEW z, Fine(z), NEW ch, NEW z2, NEW size, SizeMove(z, ch, z2, size),
           NEW st, CallsMatch(z, st), NEW ms, NEW q,
           SizesMatch(z, st, ms, q), Ready(st, ms),
           NEW f, NEW st2, Pushed(st, f, st2), IsSet(f), f.body[1].k = z2.outSize, ~Unfinished(f)
    PROVE  SizesMatch(z2, st2, ms, q)
<1>1. \A i \in 1..Len(st) : ~IsSet(st[i])
  BY SizesReady DEF Pushed
<1>2. Len(st) \in Nat /\ Len(st2) = Len(st) + 1 /\ st2[Len(st) + 1] = f /\ Len(st2) # 0
      /\ \A i \in 1..Len(st) : st[i] \in Calls
  BY DEF Pushed
<1>3. \A i \in 1..Len(st2) : i < Len(st2) => ~IsSet(st2[i])
  <2> TAKE i \in 1..Len(st2)
  <2> HAVE i < Len(st2)
  <2>1. i \in 1..Len(st) /\ st2[i] = st[i]
    BY <1>2, PushedPlaces
  <2> QED
    BY <1>1, <2>1
<1>4. \A i \in 1..Len(st2) : Unfinished(st2[i]) => i = Len(st2) - 1
  <2> SUFFICES ASSUME NEW i \in 1..Len(st2), Unfinished(st2[i]) PROVE i = Len(st2) - 1
    OBVIOUS
  <2>1. i \in 1..Len(st) /\ st2[i] = st[i]
    BY PushedPlaces
  <2>2. Len(st) \in 1..Len(st) /\ Unfinished(st[Len(st)]) /\ Unfinished(st[i])
    BY <1>2, <2>1 DEF Ready
  <2>3. \A j \in 1..Len(st) : Unfinished(st[j]) => st[j].cs \in Streams /\ z.left[st[j].cs] > 0
    BY <1>2, CallFacts DEF CallsMatch
  <2>4. st[i].cs = st[Len(st)].cs
    BY <2>1, <2>2, <2>3 DEF SizeMove
  <2>5. i = Len(st)
    BY <2>1, <2>2, <2>4 DEF CallsMatch
  <2> QED
    BY <1>2, <2>5
<1>5. Len(st2) = 1 => Len(ms) = 0
  <2>1. PICK n \in Nat : n = Len(st)
    BY <1>2
  <2>2. Len(st2) = n + 1
    BY <1>2, <2>1
  <2>3. n + 1 = 1 => n = 0
    OBVIOUS
  <2> QED
    BY <2>1, <2>2, <2>3 DEF Ready
<1> QED
  BY <1>2, <1>3, <1>4, <1>5 DEF SizesMatch

LEMMA SizesContinue ==
    ASSUME NEW z, Fine(z), NEW st, CallsMatch(z, st), NEW ms, NEW q,
           SizesMatch(z, st, ms, q), Ready(st, ms), NEW z2, z2.outSize = z.outSize,
           NEW i, NEW g, NEW st2, Changed(st, i, g, st2), g.chunk = st[i].chunk,
           ~IsSet(g), Unfinished(st[i])
    PROVE  SizesMatch(z2, st2, ms, q)
<1>1. /\ SizeIs(q, ms, z.outSize)
      /\ \A j \in 1..Len(st) : ~IsSet(st[j]) /\ (Unfinished(st[j]) => st[j].chunk = z.outSize)
  BY SizesReady DEF Changed
<1>2. \A j \in 1..Len(st2) : ~IsSet(st2[j]) /\ (Unfinished(st2[j]) => st2[j].chunk = z2.outSize)
  <2> TAKE j \in 1..Len(st2)
  <2>1. j \in 1..Len(st) /\ i \in 1..Len(st)
    BY DEF Changed
  <2>2. CASE j = i
    <3>1. st2[j] = g
      BY <2>2 DEF Changed
    <3> QED
      BY <1>1, <2>1, <3>1
  <2>3. CASE j # i
    <3>1. st2[j] = st[j]
      BY <2>1, <2>3 DEF Changed
    <3> QED
      BY <1>1, <2>1, <3>1
  <2> QED
    BY <2>2, <2>3
<1>3. Len(st2) # 0 => Len(st2) \in 1..Len(st2)
  BY DEF Changed
<1> QED
  BY <1>1, <1>2, <1>3 DEF SizesMatch

-----------------------------------------------------------------------------
(* The messages, and their order.                                          *)

LEMMA WholeKept ==
    ASSUME NEW z, z \in States, NEW z2, z2 \in States, Follows(z2, z), NEW m, Whole(m, z)
    PROVE  Whole(m, z2)
<1>1. Len(z.sent) \in Nat /\ Len(z2.sent) \in Nat
  BY StateIs
<1> QED
  BY <1>1 DEF Follows, Whole

LEMMA AllPush ==
    ASSUME NEW z, z \in States, NEW z2, z2 \in States, Follows(z2, z),
           Len(z2.sent) = Len(z.sent) + 1,
           NEW f, Id(f) = Len(z2.sent), NEW st, NEW st2, Pushed(st, f, st2),
           NEW ms, ms \in Seq(Results), NEW d, d \in Seq(Results), AllMatch(z, st, ms, d)
    PROVE  AllMatch(z2, st2, ms, d)
<1>1. Len(z.sent) \in Nat /\ Len(ms) \in Nat /\ Len(d) \in Nat /\ Len(st) \in Nat
      /\ Len(st2) = Len(st) + 1
  BY StateIs DEF Pushed
<1>2. Len(d) + Len(ms) + Len(st2) = Len(z2.sent)
  <2>1. Len(d) + Len(ms) + Len(st) = Len(z.sent)
    BY DEF AllMatch
  <2> QED
    BY <1>1, <2>1
<1>3. /\ \A i \in 1..Len(d) : Whole(d[i], z2)
      /\ \A i \in 1..Len(ms) : Whole(ms[i], z2)
  BY WholeKept DEF AllMatch
<1>4. \A l \in 1..Len(z2.sent) : Has(d, l) \/ Has(ms, l) \/ Has(st2, l)
  <2> TAKE l \in 1..Len(z2.sent)
  <2>1. CASE l = Len(z2.sent)
    <3>1. Len(st) + 1 \in 1..Len(st2) /\ st2[Len(st) + 1] = f
      BY <1>1 DEF Pushed
    <3>2. Has(st2, l)
      BY <2>1, <3>1 DEF Has
    <3> QED
      BY <3>2
  <2>2. CASE l # Len(z2.sent)
    <3>1. l \in 1..Len(z.sent)
      BY <1>1, <2>2
    <3>2. Has(st, l) => Has(st2, l)
      <4>1. \A i \in 1..Len(st) : i \in 1..Len(st2) /\ st2[i] = st[i]
        BY <1>1 DEF Pushed
      <4> QED
        BY <4>1 DEF Has
    <3> QED
      BY <3>1, <3>2 DEF AllMatch
  <2> QED
    BY <2>1, <2>2
<1> QED
  BY <1>2, <1>3, <1>4 DEF AllMatch

\* The calls are the same, but for what they have of their bodies.
Alike(st, st2) ==
    /\ Len(st2) = Len(st)
    /\ \A i \in 1..Len(st) : Id(st2[i]) = Id(st[i]) /\ st2[i].cs = st[i].cs

LEMMA AllAlike ==
    ASSUME NEW z, NEW z2, z2.sent = z.sent, NEW st, NEW st2, Alike(st, st2),
           NEW ms, NEW d, AllMatch(z, st, ms, d)
    PROVE  AllMatch(z2, st2, ms, d)
<1>1. \A l : Has(st, l) => Has(st2, l)
  BY DEF Alike, Has
<1>2. /\ \A i \in 1..Len(d) : Whole(d[i], z2)
      /\ \A i \in 1..Len(ms) : Whole(ms[i], z2)
  BY DEF AllMatch, Whole
<1> QED
  BY <1>1, <1>2 DEF AllMatch, Alike

LEMMA OrderAlike ==
    ASSUME NEW z, NEW z2, NEW st, NEW st2, Alike(st, st2), NEW ms, NEW d,
           OrderMatch(z, st, ms, d), Busy(z), Busy(z2) => z2.begun = z.begun
    PROVE  OrderMatch(z2, st2, ms, d)
<1>1. /\ Len(st2) = Len(st)
      /\ \A i \in 1..Len(st) : Id(st2[i]) = Id(st[i]) /\ st2[i].cs = st[i].cs
  BY DEF Alike
<1>2. InOrder(st2)
  BY <1>1 DEF OrderMatch, InOrder, Earlier
<1>3. Before(d, st2, 1) /\ Before(ms, st2, 2)
  BY <1>1 DEF OrderMatch, Before, Earlier
<1>4. Len(st2) # 0 => \A j \in 1..Len(ms) : Earlier(st2[1], ms[j])
  <2> SUFFICES ASSUME Len(st2) # 0, NEW j \in 1..Len(ms) PROVE Earlier(st2[1], ms[j])
    OBVIOUS
  <2>1. 1 \in 1..Len(st)
    BY <1>1
  <2> QED
    BY <1>1, <2>1 DEF OrderMatch, Earlier
<1>5. \A i, j \in 1..Len(st2) : 2 <= i /\ i < j => st2[i].cs # st2[j].cs
  BY <1>1 DEF OrderMatch
<1> QED
  BY <1>1, <1>2, <1>3, <1>4, <1>5 DEF OrderMatch

\* A message begins inside at most two others, and only the innermost of the
\* calls but the first may be of the stream of one that has begun again.
LEMMA OrderPush ==
    ASSUME NEW z, Fine(z), NEW z2, z2 \in States, Len(z2.sent) = Len(z.sent) + 1,
           NEW st, CallsMatch(z, st), NEW f, Id(f) = Len(z2.sent), NEW st2, Pushed(st, f, st2),
           f.cs \in Streams => z.left[f.cs] = 0,
           NEW ms, ms \in Seq(Results), NEW d, d \in Seq(Results), AllMatch(z, st, ms, d),
           Ready(st, ms), OrderMatch(z, st, ms, d), MaxNest <= 3, z.begun < MaxNest,
           Busy(z2) => z2.begun = z.begun + 1
    PROVE  OrderMatch(z2, st2, ms, d)
<1>1. /\ Len(z.sent) \in Nat /\ Len(ms) \in Nat /\ Len(d) \in Nat /\ Len(st) \in Nat
      /\ Len(st2) = Len(st) + 1 /\ z.begun \in Nat /\ z2.begun \in Nat /\ MaxNest \in Nat
  BY StateIs, ChunkAssumption DEF Pushed, Fine, ChunkAssumption
<1>2. /\ \A i \in 1..Len(d) : Id(d[i]) \in 1..Len(z.sent)
      /\ \A i \in 1..Len(ms) : Id(ms[i]) \in 1..Len(z.sent)
      /\ \A i \in 1..Len(st) : Id(st[i]) \in 1..Len(z.sent)
  BY DEF AllMatch, Whole, CallsMatch, CallOf
<1>3. /\ \A i \in 1..Len(d) : Id(d[i]) < Id(f)
      /\ \A i \in 1..Len(ms) : Id(ms[i]) < Id(f)
      /\ \A i \in 1..Len(st) : Id(st[i]) < Id(f)
  <2>1. \A k \in 1..Len(z.sent) : k < Id(f)
    <3>1. PICK n \in Nat : n = Len(z.sent)
      BY <1>1
    <3>2. Id(f) = n + 1
      BY <3>1
    <3>3. \A k \in 1..n : k < n + 1
      OBVIOUS
    <3> QED
      BY <3>1, <3>2, <3>3
  <2> QED
    BY <1>2, <2>1
<1>4. \A i \in 1..Len(st2) :
         (i = Len(st) + 1 /\ st2[i] = f) \/ (i \in 1..Len(st) /\ st2[i] = st[i] /\ i # Len(st) + 1)
  BY PushedPlaces
<1>5. InOrder(st2)
  <2> SUFFICES ASSUME NEW i \in 1..Len(st2), NEW j \in 1..Len(st2), i < j
               PROVE  Earlier(st2[i], st2[j])
    BY DEF InOrder
  <2>1. i \in 1..Len(st) /\ st2[i] = st[i]
    BY <1>1, <1>4
  <2>2. CASE st2[j] = f
    BY <1>3, <2>1, <2>2 DEF Earlier
  <2>3. CASE j \in 1..Len(st) /\ st2[j] = st[j]
    BY <2>1, <2>3 DEF OrderMatch, InOrder
  <2> QED
    BY <1>4, <2>2, <2>3
<1>6. Before(d, st2, 1)
  <2> SUFFICES ASSUME NEW i \in 1..Len(d), NEW j \in 1..Len(st2), j >= 1
               PROVE  Earlier(d[i], st2[j])
    BY DEF Before
  <2>1. CASE st2[j] = f
    BY <1>3, <2>1 DEF Earlier
  <2>2. CASE j \in 1..Len(st) /\ st2[j] = st[j]
    BY <2>2 DEF OrderMatch, Before
  <2> QED
    BY <1>4, <2>1, <2>2
<1>7. Before(ms, st2, 2)
  <2> SUFFICES ASSUME NEW i \in 1..Len(ms), NEW j \in 1..Len(st2), j >= 2
               PROVE  Earlier(ms[i], st2[j])
    BY DEF Before
  <2>1. CASE st2[j] = f
    BY <1>3, <2>1 DEF Earlier
  <2>2. CASE j \in 1..Len(st) /\ st2[j] = st[j]
    BY <2>2 DEF OrderMatch, Before
  <2> QED
    BY <1>4, <2>1, <2>2
<1>8. \A j \in 1..Len(ms) : Earlier(st2[1], ms[j])
  <2> TAKE j \in 1..Len(ms)
  <2>1. Len(st) # 0
    BY <1>1 DEF Ready
  <2>2. 1 \in 1..Len(st2) /\ 1 # Len(st) + 1
    BY <1>1, <2>1
  <2>3. st2[1] = st[1]
    BY <1>4, <2>2
  <2> QED
    BY <2>1, <2>3 DEF OrderMatch
<1>9. Len(st) # 0 => /\ Len(st) \in 1..Len(st) /\ st[Len(st)].cs \in Streams
                     /\ z.left[st[Len(st)].cs] > 0 /\ Len(ms) + Len(st) <= z.begun
  <2> SUFFICES ASSUME Len(st) # 0
               PROVE  /\ Len(st) \in 1..Len(st) /\ st[Len(st)].cs \in Streams
                      /\ z.left[st[Len(st)].cs] > 0 /\ Len(ms) + Len(st) <= z.begun
    OBVIOUS
  <2>1. Len(st) \in 1..Len(st) /\ Unfinished(st[Len(st)])
    BY <1>1 DEF Ready
  <2>2. st[Len(st)] \in Calls /\ CallOf(st[Len(st)], z)
    BY <2>1 DEF Pushed, CallsMatch
  <2>3. st[Len(st)].cs \in Streams /\ z.left[st[Len(st)].cs] > 0
    BY <2>1, <2>2, CallFacts
  <2>4. Busy(z)
    BY <2>3 DEF Busy
  <2> QED
    BY <2>1, <2>3, <2>4 DEF OrderMatch
<1>10. Len(st) <= 2
  <2>1. CASE Len(st) = 0
    BY <2>1
  <2>2. CASE Len(st) # 0
    <3>1. Len(ms) + Len(st) <= z.begun /\ z.begun < 3
      BY <1>1, <1>9, <2>2
    <3> QED
      BY <1>1, <3>1
  <2> QED
    BY <2>1, <2>2
<1>11. \A i, j \in 1..Len(st2) : 2 <= i /\ i < j => st2[i].cs # st2[j].cs
  <2> SUFFICES ASSUME NEW i \in 1..Len(st2), NEW j \in 1..Len(st2), 2 <= i, i < j
               PROVE  st2[i].cs # st2[j].cs
    OBVIOUS
  <2>1. i = 2 /\ j = 3 /\ Len(st) = 2
    <3>1. PICK n \in Nat : n = Len(st)
      BY <1>1
    <3>2. i \in 1..n + 1 /\ j \in 1..n + 1 /\ n <= 2
      BY <1>1, <1>10, <3>1
    <3>3. i = 2 /\ j = 3 /\ n = 2
      BY <3>2
    <3> QED
      BY <3>1, <3>3
  <2>2. st2[j] = f /\ st2[i] = st[Len(st)]
    <3>1. i # Len(st) + 1 /\ ~(j \in 1..Len(st))
      BY <1>1, <2>1
    <3> QED
      BY <1>4, <2>1, <3>1
  <2>3. st[Len(st)].cs \in Streams /\ z.left[st[Len(st)].cs] > 0
    BY <1>9, <2>1
  <2> QED
    BY <2>2, <2>3
<1>12. Busy(z2) => Len(ms) + Len(st2) <= z2.begun
  <2> SUFFICES ASSUME Busy(z2) PROVE Len(ms) + Len(st2) <= z2.begun
    OBVIOUS
  <2>1. Len(ms) + Len(st) <= z.begun
    BY <1>1, <1>9 DEF Ready
  <2>2. z2.begun = z.begun + 1
    OBVIOUS
  <2> QED
    BY <1>1, <2>1, <2>2
<1>13. InOrder(d) /\ InOrder(ms) /\ Before(d, ms, 1)
  BY DEF OrderMatch
<1> QED
  BY <1>5, <1>6, <1>7, <1>8, <1>11, <1>12, <1>13 DEF OrderMatch

-----------------------------------------------------------------------------
(* The parser reads a chunk.                                               *)

LEMMA MatchBegin ==
    ASSUME NEW z, Fine(z), NEW ch, ch \in Chunks, NEW z2, z2 \in States, NEW cs, NEW len,
           BeginMove(z, ch, z2, cs, len),
           NEW st, NEW ms, ms \in Seq(Results), NEW x, x \in [Streams -> Contexts],
           NEW d, d \in Seq(Results), NEW q, Match(z, st, ms, x, d, q), Ready(st, ms),
           NEW f, Opens(f, z2, ch), f.chunk = SizeForChunk(st, q),
           NEW st2, Pushed(st, f, st2),
           NEW x2, x2 = Remembering(x, cs, len)
    PROVE  Match(z2, st2, ms, x2, d, q)
<1>1. /\ CallsMatch(z, st) /\ Remembers(z, x) /\ SizesMatch(z, st, ms, q) /\ AllMatch(z, st, ms, d)
      /\ MaxNest <= 3 => OrderMatch(z, st, ms, d)
  BY DEF Match
<1>2. /\ Fine(z2) /\ Follows(z2, z) /\ Len(z2.sent) = Len(z.sent) + 1 /\ ch.id = Len(z.sent) + 1
      /\ z2.sent[ch.id].cs = cs /\ z2.sent[ch.id].kind = "media"
  BY BeginFine
<1>3. Id(f) = Len(z2.sent) /\ f.cs = cs /\ ~IsSet(f)
  <2>1. Id(f) = ch.id
    BY OpenedId
  <2> QED
    BY <1>2, <2>1 DEF Opens, IsSet
<1>4. /\ z2.outSize = z.outSize /\ z.left[cs] = 0 /\ z.begun < MaxNest
      /\ Busy(z2) => z2.begun = z.begun + 1
  BY DEF BeginMove
<1>5. CallsMatch(z2, st2)
  BY <1>1, CallsBegin
<1>6. Remembers(z2, x2)
  BY <1>1, RemembersBegin
<1>7. SizesMatch(z2, st2, ms, q)
  BY <1>1, <1>3, <1>4, SizesBegin
<1>8. AllMatch(z2, st2, ms, d)
  BY <1>1, <1>2, <1>3, AllPush DEF Fine
<1>9. MaxNest <= 3 => OrderMatch(z2, st2, ms, d)
  <2>1. f.cs \in Streams => z.left[f.cs] = 0
    BY <1>3, <1>4
  <2> QED
    BY <1>1, <1>2, <1>3, <1>4, <2>1, OrderPush
<1> QED
  BY <1>5, <1>6, <1>7, <1>8, <1>9 DEF Match

LEMMA MatchSize ==
    ASSUME NEW z, Fine(z), NEW ch, ch \in Chunks, NEW z2, z2 \in States, NEW size,
           SizeMove(z, ch, z2, size),
           NEW st, NEW ms, ms \in Seq(Results), NEW x,
           NEW d, d \in Seq(Results), NEW q, Match(z, st, ms, x, d, q), Ready(st, ms),
           NEW f, Opens(f, z2, ch), NEW st2, Pushed(st, f, st2)
    PROVE  Match(z2, st2, ms, x, d, q)
<1>1. /\ CallsMatch(z, st) /\ Remembers(z, x) /\ SizesMatch(z, st, ms, q) /\ AllMatch(z, st, ms, d)
      /\ MaxNest <= 3 => OrderMatch(z, st, ms, d)
  BY DEF Match
<1>2. /\ Fine(z2) /\ Follows(z2, z) /\ Len(z2.sent) = Len(z.sent) + 1 /\ ch.id = Len(z.sent) + 1
      /\ z2.sent[ch.id].cs = Control
  BY SizeFine
<1>3. Id(f) = Len(z2.sent) /\ f.cs = Control /\ Control \notin Streams
  <2>1. Id(f) = ch.id /\ Control \notin Streams
    BY OpenedId, SizesArePositive
  <2> QED
    BY <1>2, <2>1 DEF Opens
<1>4. /\ z2.lastSent = z.lastSent /\ z.begun < MaxNest
      /\ Busy(z2) => z2.begun = z.begun + 1
  BY DEF SizeMove
<1>5. CallsMatch(z2, st2) /\ IsSet(f) /\ f.body[1].k = z2.outSize /\ ~Unfinished(f)
  BY <1>1, CallsSize
<1>6. Remembers(z2, x)
  BY <1>1, <1>4 DEF Remembers
<1>7. SizesMatch(z2, st2, ms, q)
  BY <1>1, <1>5, SizesSize
<1>8. AllMatch(z2, st2, ms, d)
  BY <1>1, <1>2, <1>3, AllPush DEF Fine
<1>9. MaxNest <= 3 => OrderMatch(z2, st2, ms, d)
  <2>1. f.cs \in Streams => z.left[f.cs] = 0
    BY <1>3
  <2> QED
    BY <1>1, <1>2, <1>3, <1>4, <2>1, OrderPush
<1> QED
  BY <1>5, <1>6, <1>7, <1>8, <1>9 DEF Match

LEMMA MatchContinue ==
    ASSUME NEW z, Fine(z), NEW ch, ch \in Chunks, NEW z2, z2 \in States, NEW cs,
           ContinueMove(z, ch, z2, cs),
           NEW st, NEW ms, NEW x, NEW d, NEW q, Match(z, st, ms, x, d, q), Ready(st, ms),
           NEW i, NEW g, NEW st2, Changed(st, i, g, st2), Grows(st[i], g, ch),
           st[i].cs = cs, Unfinished(st[i])
    PROVE  Match(z2, st2, ms, x, d, q)
<1>1. /\ CallsMatch(z, st) /\ Remembers(z, x) /\ SizesMatch(z, st, ms, q) /\ AllMatch(z, st, ms, d)
      /\ MaxNest <= 3 => OrderMatch(z, st, ms, d)
  BY DEF Match
<1>2. /\ z2.lastSent = z.lastSent /\ z2.sent = z.sent /\ z2.outSize = z.outSize
      /\ Busy(z2) => z2.begun = z.begun
      /\ cs \in Streams /\ z.left[cs] > 0
  BY DEF ContinueMove
<1>3. CallOf(st[i], z) /\ i \in 1..Len(st)
  BY <1>1 DEF CallsMatch, Changed
<1>4. Id(g) = Id(st[i]) /\ ~IsSet(g)
  BY <1>3, GrownCall
<1>5. g.cs = st[i].cs /\ g.chunk = st[i].chunk
  BY DEF Grows
<1>6. Alike(st, st2)
  <2>1. Len(st2) = Len(st)
    BY DEF Changed
  <2>2. \A j \in 1..Len(st) : Id(st2[j]) = Id(st[j]) /\ st2[j].cs = st[j].cs
    <3> TAKE j \in 1..Len(st)
    <3>1. CASE j = i
      BY <1>4, <1>5, <3>1 DEF Changed
    <3>2. CASE j # i
      BY <3>2 DEF Changed
    <3> QED
      BY <3>1, <3>2
  <2> QED
    BY <2>1, <2>2 DEF Alike
<1>7. CallsMatch(z2, st2)
  BY <1>1, CallsContinue
<1>8. Remembers(z2, x)
  BY <1>1, <1>2 DEF Remembers
<1>9. SizesMatch(z2, st2, ms, q)
  BY <1>1, <1>2, <1>4, <1>5, SizesContinue
<1>10. AllMatch(z2, st2, ms, d)
  BY <1>1, <1>2, <1>6, AllAlike
<1>11. MaxNest <= 3 => OrderMatch(z2, st2, ms, d)
  <2>1. Busy(z)
    BY <1>2 DEF Busy
  <2> QED
    BY <1>1, <1>2, <1>6, <2>1, OrderAlike
<1> QED
  BY <1>7, <1>8, <1>9, <1>10, <1>11 DEF Match

-----------------------------------------------------------------------------
(* A call returns.                                                         *)

\* One more message.
More(s, m, s2) ==
    /\ s \in Seq(Results) /\ m \in Results /\ s2 \in Seq(Results)
    /\ Len(s) \in Nat /\ Len(s2) = Len(s) + 1 /\ s2[Len(s) + 1] = m
    /\ \A i \in 1..Len(s) : s2[i] = s[i]

LEMMA MoreIs ==
    ASSUME NEW s, s \in Seq(Results), NEW m, m \in Results, NEW s2, s2 = Append(s, m)
    PROVE  More(s, m, s2)
BY DEF More

LEMMA MorePlaces ==
    ASSUME NEW s, NEW m, NEW s2, More(s, m, s2), NEW i, i \in 1..Len(s2)
    PROVE  (i = Len(s) + 1 /\ s2[i] = m) \/ (i \in 1..Len(s) /\ s2[i] = s[i] /\ i # Len(s) + 1)
<1>1. i = Len(s) + 1 \/ (i \in 1..Len(s) /\ i # Len(s) + 1)
  BY DEF More
<1> QED
  BY <1>1 DEF More

\* A finished call has the whole message.
LEMMA WholeParsed ==
    ASSUME NEW z, Fine(z), NEW f, f \in Calls, CallOf(f, z), ~Unfinished(f)
    PROVE  Whole(Parsed(f), z) /\ Id(Parsed(f)) = Id(f) /\ Parsed(f).cs = f.cs
<1>1. /\ Parsed(f).cs = f.cs /\ Parsed(f).kind = f.kind /\ Parsed(f).body = f.body
      /\ Parsed(f) = [cs |-> f.cs, kind |-> f.kind, body |-> f.body]
  BY DEF Parsed, Message
<1>2. PICK m : m = z.sent[Id(f)]
  OBVIOUS
<1>3. /\ Id(f) \in 1..Len(z.sent) /\ f.cs = m.cs /\ f.kind = m.kind /\ f.len = Len(m.body)
      /\ \A k \in 1..Len(f.body) : f.body[k] = m.body[k]
  BY <1>2 DEF CallOf
<1>4. m \in Messages
  BY <1>2, <1>3, StateIs DEF Fine
<1>5. f.body \in Seq(AllUnits) /\ Len(f.body) = f.len
  <2>1. f.body \in Seq(AllUnits) /\ Len(f.body) \in Nat /\ f.len \in Nat /\ Len(f.body) <= f.len
    BY CallIs DEF Calls
  <2> QED
    BY <2>1 DEF Unfinished, Unparsed
<1>6. m.body \in Seq(AllUnits)
  <2>1. m.body \in Seq(BodyUnits)
    BY <1>4, MessageIs
  <2>2. BodyUnits \subseteq AllUnits
    BY DEF AllUnits
  <2> QED
    BY <2>1, <2>2
<1>7. f.body = m.body
  <2>1. PICK a : a = f.body
    OBVIOUS
  <2>2. PICK b : b = m.body
    OBVIOUS
  <2>3. /\ a \in Seq(AllUnits) /\ b \in Seq(AllUnits) /\ Len(a) = Len(b)
        /\ \A k \in 1..Len(a) : a[k] = b[k]
    BY <1>3, <1>5, <1>6, <2>1, <2>2
  <2>4. a = b
    BY <2>3, SeqEqual
  <2> QED
    BY <2>1, <2>2, <2>4
<1>8. m = [cs |-> m.cs, kind |-> m.kind, body |-> m.body]
  BY <1>4 DEF Messages
<1>9. Parsed(f) = m
  BY <1>1, <1>3, <1>7, <1>8
<1>10. Id(Parsed(f)) = Id(f)
  BY <1>1 DEF Id
<1> QED
  BY <1>1, <1>2, <1>3, <1>9, <1>10 DEF Whole

\* The innermost call is gone, and the one that called it has chunk size c.
Popped(st, c, st2) ==
    /\ st \in Seq(Calls) /\ st2 \in Seq(Calls) /\ Len(st) \in Nat
    /\ Len(st) >= 2 /\ Len(st2) = Len(st) - 1
    /\ \A i \in 1..Len(st2) : /\ st2[i].cs = st[i].cs /\ st2[i].kind = st[i].kind
                              /\ st2[i].len = st[i].len /\ st2[i].body = st[i].body
                              /\ i < Len(st2) => st2[i].chunk = st[i].chunk
    /\ st2[Len(st2)].chunk = c

LEMMA PoppedFacts ==
    ASSUME NEW st, NEW c, NEW st2, Popped(st, c, st2)
    PROVE  /\ Len(st) \in 1..Len(st) /\ Len(st2) \in 1..Len(st2) /\ Len(st2) \in 1..Len(st)
           /\ \A i \in 1..Len(st2) :
                 /\ i \in 1..Len(st) /\ i < Len(st) /\ Id(st2[i]) = Id(st[i])
                 /\ st2[i].cs = st[i].cs /\ Unparsed(st2[i]) = Unparsed(st[i])
                 /\ Unfinished(st2[i]) <=> Unfinished(st[i])
                 /\ IsSet(st2[i]) <=> IsSet(st[i])
           /\ \A i \in 1..Len(st) : i # Len(st) => i \in 1..Len(st2)
<1>1. /\ Len(st) \in 1..Len(st) /\ Len(st2) \in 1..Len(st2) /\ Len(st2) \in 1..Len(st)
      /\ \A i \in 1..Len(st2) : i \in 1..Len(st) /\ i < Len(st)
      /\ \A i \in 1..Len(st) : i # Len(st) => i \in 1..Len(st2)
  BY DEF Popped
<1>2. \A i \in 1..Len(st2) :
         /\ Id(st2[i]) = Id(st[i]) /\ st2[i].cs = st[i].cs /\ Unparsed(st2[i]) = Unparsed(st[i])
         /\ Unfinished(st2[i]) <=> Unfinished(st[i])
         /\ IsSet(st2[i]) <=> IsSet(st[i])
  BY DEF Popped, Id, Unparsed, Unfinished, IsSet
<1> QED
  BY <1>1, <1>2

LEMMA CallsPop ==
    ASSUME NEW z, NEW st, CallsMatch(z, st), NEW c, NEW st2, Popped(st, c, st2),
           ~Unfinished(st[Len(st)])
    PROVE  CallsMatch(z, st2)
<1>1. \A i \in 1..Len(st2) : CallOf(st2[i], z)
  <2> TAKE i \in 1..Len(st2)
  <2>1. i \in 1..Len(st)
    BY PoppedFacts
  <2>2. CallOf(st[i], z)
    BY <2>1 DEF CallsMatch
  <2>3. /\ st2[i].cs = st[i].cs /\ st2[i].kind = st[i].kind
        /\ st2[i].len = st[i].len /\ st2[i].body = st[i].body
    BY DEF Popped
  <2> QED
    BY <2>2, <2>3 DEF CallOf, Id, Unparsed, Unfinished
<1>2. \A cs \in Streams : z.left[cs] > 0 => InProgress(st2, cs)
  <2> SUFFICES ASSUME NEW cs \in Streams, z.left[cs] > 0 PROVE InProgress(st2, cs)
    OBVIOUS
  <2>1. PICK i \in 1..Len(st) : st[i].cs = cs /\ Unfinished(st[i])
    BY DEF CallsMatch, InProgress
  <2>2. i \in 1..Len(st2)
    BY <2>1, PoppedFacts
  <2>3. st2[i].cs = cs /\ Unfinished(st2[i])
    BY <2>1, <2>2, PoppedFacts
  <2> QED
    BY <2>2, <2>3 DEF InProgress
<1>3. \A i, j \in 1..Len(st2) :
         Unfinished(st2[i]) /\ Unfinished(st2[j]) /\ st2[i].cs = st2[j].cs => i = j
  <2> SUFFICES ASSUME NEW i \in 1..Len(st2), NEW j \in 1..Len(st2), Unfinished(st2[i]),
                      Unfinished(st2[j]), st2[i].cs = st2[j].cs
               PROVE  i = j
    OBVIOUS
  <2>1. i \in 1..Len(st) /\ j \in 1..Len(st) /\ Unfinished(st[i]) /\ Unfinished(st[j])
        /\ st[i].cs = st[j].cs
    BY PoppedFacts
  <2> QED
    BY <2>1 DEF CallsMatch
<1> QED
  BY <1>1, <1>2, <1>3 DEF CallsMatch

\* A message that sets no size changes nothing of it.
LEMMA SizeIsMore ==
    ASSUME NEW q, NEW ms, NEW size, SizeIs(q, ms, size), NEW m, NEW ms2, More(ms, m, ms2), ~IsSet(m)
    PROVE  SizeIs(q, ms2, size)
<1>1. CASE q = size /\ \A i \in 1..Len(ms) : ~IsSet(ms[i])
  <2>1. \A i \in 1..Len(ms2) : ~IsSet(ms2[i])
    BY <1>1, MorePlaces
  <2> QED
    BY <1>1, <2>1 DEF SizeIs
<1>2. CASE LastSize(ms, size)
  <2>1. PICK i \in 1..Len(ms) : /\ IsSet(ms[i]) /\ ms[i].body[1].k = size
                                /\ \A j \in 1..Len(ms) : j > i => ~IsSet(ms[j])
    BY <1>2 DEF LastSize
  <2>2. i \in 1..Len(ms2) /\ ms2[i] = ms[i]
    BY DEF More
  <2>3. \A j \in 1..Len(ms2) : j > i => ~IsSet(ms2[j])
    BY <2>1, MorePlaces
  <2>4. LastSize(ms2, size)
    BY <2>1, <2>2, <2>3 DEF LastSize
  <2> QED
    BY <2>4 DEF SizeIs
<1> QED
  BY <1>1, <1>2 DEF SizeIs

LEMMA SizesPop ==
    ASSUME NEW z, NEW st, NEW ms, NEW q, SizesMatch(z, st, ms, q),
           NEW c, NEW st2, Popped(st, c, st2), NEW m, NEW ms2, More(ms, m, ms2),
           m.kind = st[Len(st)].kind, m.body = st[Len(st)].body,
           c = CallerChunk(st[Len(st) - 1], m)
    PROVE  SizesMatch(z, st2, ms2, q)
<1>1. Len(st2) = Len(st) - 1 /\ Len(st) # 0 /\ Len(st2) # 0 /\ st2[Len(st2)].chunk = c
      /\ \A i \in 1..Len(st2) : i < Len(st2) => st2[i].chunk = st[i].chunk
  BY DEF Popped
<1>2. \A i \in 1..Len(st2) : ~IsSet(st2[i])
  BY PoppedFacts DEF SizesMatch
<1>3. Len(st2) \in 1..Len(st2)
  BY PoppedFacts
<1>4. IsSet(m) <=> IsSet(st[Len(st)])
  BY DEF IsSet
<1>5. CASE IsSet(st[Len(st)])
  <2>1. /\ m.body[1].k = z.outSize
        /\ \A i \in 1..Len(st) : Unfinished(st[i]) => i = Len(st) - 1
    BY <1>1, <1>5 DEF SizesMatch
  <2>2. c = z.outSize
    BY <1>4, <1>5, <2>1 DEF CallerChunk, IsSet
  <2>3. \A i \in 1..Len(st2) : Unfinished(st2[i]) => st2[i].chunk = z.outSize
    <3> SUFFICES ASSUME NEW i \in 1..Len(st2), Unfinished(st2[i]) PROVE st2[i].chunk = z.outSize
      OBVIOUS
    <3>1. i \in 1..Len(st) /\ Unfinished(st[i])
      BY PoppedFacts
    <3>2. i = Len(st2)
      BY <1>1, <2>1, <3>1
    <3> QED
      BY <1>1, <2>2, <3>2
  <2>4. LastSize(ms2, z.outSize)
    <3>1. Len(ms2) \in 1..Len(ms2) /\ ms2[Len(ms2)] = m
      BY DEF More
    <3>2. \A j \in 1..Len(ms2) : ~(j > Len(ms2))
      BY DEF More
    <3> QED
      BY <1>4, <1>5, <2>1, <3>1, <3>2 DEF LastSize
  <2> QED
    BY <1>2, <1>3, <2>3, <2>4 DEF SizesMatch, SizeIs
<1>6. CASE ~IsSet(st[Len(st)])
  <2>1. /\ SizeIs(q, ms, z.outSize)
        /\ \A i \in 1..Len(st) : Unfinished(st[i]) => st[i].chunk = z.outSize
    BY <1>6 DEF SizesMatch
  <2>2. SizeIs(q, ms2, z.outSize)
    BY <1>4, <1>6, <2>1, SizeIsMore
  <2>3. c = st[Len(st2)].chunk
    BY <1>1, <1>4, <1>6 DEF CallerChunk, IsSet
  <2>4. \A i \in 1..Len(st2) : Unfinished(st2[i]) => st2[i].chunk = z.outSize
    <3> SUFFICES ASSUME NEW i \in 1..Len(st2), Unfinished(st2[i]) PROVE st2[i].chunk = z.outSize
      OBVIOUS
    <3>1. i \in 1..Len(st) /\ Unfinished(st[i])
      BY PoppedFacts
    <3>2. i < Len(st2) \/ i = Len(st2)
      BY <1>1 DEF Popped
    <3>3. st2[i].chunk = st[i].chunk
      BY <1>1, <2>3, <3>2
    <3> QED
      BY <2>1, <3>1, <3>3
  <2> QED
    BY <1>2, <1>3, <2>2, <2>4 DEF SizesMatch
<1> QED
  BY <1>5, <1>6

LEMMA AllPop ==
    ASSUME NEW z, NEW st, NEW ms, NEW d, AllMatch(z, st, ms, d), d \in Seq(Results),
           NEW c, NEW st2, Popped(st, c, st2), NEW m, NEW ms2, More(ms, m, ms2),
           Whole(m, z), Id(m) = Id(st[Len(st)])
    PROVE  AllMatch(z, st2, ms2, d)
<1>1. Len(d) + Len(ms2) + Len(st2) = Len(z.sent)
  <2>1. /\ Len(d) \in Nat /\ Len(ms) \in Nat /\ Len(st) \in Nat
        /\ Len(ms2) = Len(ms) + 1 /\ Len(st2) = Len(st) - 1
    BY DEF Popped, More
  <2>2. Len(d) + Len(ms) + Len(st) = Len(z.sent)
    BY DEF AllMatch
  <2> QED
    BY <2>1, <2>2
<1>2. \A i \in 1..Len(ms2) : Whole(ms2[i], z)
  BY MorePlaces DEF AllMatch
<1>3. \A l \in 1..Len(z.sent) : Has(d, l) \/ Has(ms2, l) \/ Has(st2, l)
  <2> TAKE l \in 1..Len(z.sent)
  <2>1. Has(ms, l) => Has(ms2, l)
    <3>1. \A i \in 1..Len(ms) : i \in 1..Len(ms2) /\ ms2[i] = ms[i]
      BY DEF More
    <3> QED
      BY <3>1 DEF Has
  <2>2. Has(st, l) => Has(ms2, l) \/ Has(st2, l)
    <3> SUFFICES ASSUME NEW i \in 1..Len(st), Id(st[i]) = l PROVE Has(ms2, l) \/ Has(st2, l)
      BY DEF Has
    <3>1. CASE i = Len(st)
      <4>1. Len(ms) + 1 \in 1..Len(ms2) /\ ms2[Len(ms) + 1] = m
        BY DEF More
      <4> QED
        BY <3>1, <4>1 DEF Has
    <3>2. CASE i # Len(st)
      <4>1. i \in 1..Len(st2)
        BY <3>2, PoppedFacts
      <4>2. Id(st2[i]) = l
        BY <4>1, PoppedFacts
      <4> QED
        BY <4>1, <4>2 DEF Has
    <3> QED
      BY <3>1, <3>2
  <2> QED
    BY <2>1, <2>2 DEF AllMatch
<1> QED
  BY <1>1, <1>2, <1>3 DEF AllMatch

LEMMA OrderPop ==
    ASSUME NEW z, NEW st, NEW ms, NEW d, OrderMatch(z, st, ms, d),
           NEW c, NEW st2, Popped(st, c, st2), NEW m, NEW ms2, More(ms, m, ms2),
           Id(m) = Id(st[Len(st)]), m.cs = st[Len(st)].cs
    PROVE  OrderMatch(z, st2, ms2, d)
<1>1. \A i \in 1..Len(ms2) :
         (i = Len(ms) + 1 /\ ms2[i] = m) \/ (i \in 1..Len(ms) /\ ms2[i] = ms[i] /\ i # Len(ms) + 1)
  BY MorePlaces
<1>2. /\ Len(ms) \in Nat /\ Len(st) \in Nat /\ Len(st) >= 2 /\ Len(st) \in 1..Len(st)
      /\ Len(st2) = Len(st) - 1 /\ Len(ms2) = Len(ms) + 1
      /\ \A i \in 1..Len(st2) : /\ i \in 1..Len(st) /\ i < Len(st) /\ Id(st2[i]) = Id(st[i])
                                /\ st2[i].cs = st[i].cs
  <2>1. /\ Len(st) \in Nat /\ Len(st) >= 2 /\ Len(st2) = Len(st) - 1
        /\ Len(ms) \in Nat /\ Len(ms2) = Len(ms) + 1
    BY DEF Popped, More
  <2> QED
    BY <2>1, PoppedFacts
<1>3. InOrder(ms2)
  <2> SUFFICES ASSUME NEW i \in 1..Len(ms2), NEW j \in 1..Len(ms2), i < j
               PROVE  Earlier(ms2[i], ms2[j])
    BY DEF InOrder
  <2>1. i \in 1..Len(ms) /\ ms2[i] = ms[i]
    BY <1>1, <1>2
  <2>2. CASE ms2[j] = m
    <3>1. Earlier(ms[i], st[Len(st)])
      BY <1>2, <2>1 DEF OrderMatch, Before
    <3> QED
      BY <2>1, <2>2, <3>1 DEF Earlier
  <2>3. CASE j \in 1..Len(ms) /\ ms2[j] = ms[j]
    BY <2>1, <2>3 DEF OrderMatch, InOrder
  <2> QED
    BY <1>1, <2>2, <2>3
<1>4. InOrder(st2)
  BY <1>2 DEF OrderMatch, InOrder, Earlier
<1>5. Before(d, ms2, 1)
  <2> SUFFICES ASSUME NEW i \in 1..Len(d), NEW j \in 1..Len(ms2)
               PROVE  Earlier(d[i], ms2[j])
    BY DEF Before
  <2>1. CASE ms2[j] = m
    <3>1. Earlier(d[i], st[Len(st)])
      BY <1>2 DEF OrderMatch, Before
    <3> QED
      BY <2>1, <3>1 DEF Earlier
  <2>2. CASE j \in 1..Len(ms) /\ ms2[j] = ms[j]
    BY <2>2 DEF OrderMatch, Before
  <2> QED
    BY <1>1, <2>1, <2>2
<1>6. Before(d, st2, 1)
  BY <1>2 DEF OrderMatch, Before, Earlier
<1>7. Before(ms2, st2, 2)
  <2> SUFFICES ASSUME NEW i \in 1..Len(ms2), NEW j \in 1..Len(st2), j >= 2
               PROVE  Earlier(ms2[i], st2[j])
    BY DEF Before
  <2>1. j \in 1..Len(st) /\ j < Len(st) /\ Id(st2[j]) = Id(st[j]) /\ st2[j].cs = st[j].cs
    BY <1>2
  <2>2. CASE ms2[i] = m
    <3>1. st[j].cs # st[Len(st)].cs
      BY <1>2, <2>1 DEF OrderMatch
    <3> QED
      BY <2>1, <2>2, <3>1 DEF Earlier
  <2>3. CASE i \in 1..Len(ms) /\ ms2[i] = ms[i]
    <3>1. Earlier(ms[i], st[j])
      BY <2>1, <2>3 DEF OrderMatch, Before
    <3> QED
      BY <2>1, <2>3, <3>1 DEF Earlier
  <2> QED
    BY <1>1, <2>2, <2>3
<1>8. \A j \in 1..Len(ms2) : Earlier(st2[1], ms2[j])
  <2> TAKE j \in 1..Len(ms2)
  <2>1. 1 \in 1..Len(st2) /\ 1 \in 1..Len(st) /\ 1 < Len(st) /\ Len(st) # 0
    BY <1>2
  <2>2. Id(st2[1]) = Id(st[1]) /\ st2[1].cs = st[1].cs
    BY <1>2, <2>1
  <2>3. CASE ms2[j] = m
    <3>1. Earlier(st[1], st[Len(st)])
      BY <1>2, <2>1 DEF OrderMatch, InOrder
    <3> QED
      BY <2>2, <2>3, <3>1 DEF Earlier
  <2>4. CASE j \in 1..Len(ms) /\ ms2[j] = ms[j]
    <3>1. Earlier(st[1], ms[j])
      BY <2>1, <2>4 DEF OrderMatch
    <3> QED
      BY <2>2, <2>4, <3>1 DEF Earlier
  <2> QED
    BY <1>1, <2>3, <2>4
<1>9. \A i, j \in 1..Len(st2) : 2 <= i /\ i < j => st2[i].cs # st2[j].cs
  BY <1>2 DEF OrderMatch
<1>10. Busy(z) => Len(ms2) + Len(st2) <= z.begun
  <2>1. Len(st) # 0
    BY <1>2
  <2>2. Len(ms2) + Len(st2) = Len(ms) + Len(st)
    BY <1>2
  <2> QED
    BY <2>1, <2>2 DEF OrderMatch
<1>11. InOrder(d)
  BY DEF OrderMatch
<1> QED
  BY <1>3, <1>4, <1>5, <1>6, <1>7, <1>8, <1>9, <1>10, <1>11 DEF OrderMatch

LEMMA MatchInner ==
    ASSUME NEW z, Fine(z), NEW st, NEW ms, NEW x, NEW d, d \in Seq(Results), NEW q,
           Match(z, st, ms, x, d, q), ~Unfinished(st[Len(st)]),
           NEW m, m = Parsed(st[Len(st)]), NEW ms2, More(ms, m, ms2),
           NEW st2, Popped(st, CallerChunk(st[Len(st) - 1], m), st2)
    PROVE  Match(z, st2, ms2, x, d, q)
<1>1. /\ CallsMatch(z, st) /\ Remembers(z, x) /\ SizesMatch(z, st, ms, q) /\ AllMatch(z, st, ms, d)
      /\ MaxNest <= 3 => OrderMatch(z, st, ms, d)
  BY DEF Match
<1>2. PICK c : c = CallerChunk(st[Len(st) - 1], m)
  OBVIOUS
<1>3. Popped(st, c, st2)
  BY <1>2
<1>4. Len(st) \in 1..Len(st) /\ st[Len(st)] \in Calls
  BY <1>3, PoppedFacts DEF Popped
<1>5. CallOf(st[Len(st)], z)
  BY <1>1, <1>4 DEF CallsMatch
<1>6. Whole(m, z) /\ Id(m) = Id(st[Len(st)]) /\ m.cs = st[Len(st)].cs
  BY <1>4, <1>5, WholeParsed
<1>7. m.kind = st[Len(st)].kind /\ m.body = st[Len(st)].body
  BY <1>4, ParsedIs
<1>8. CallsMatch(z, st2)
  BY <1>1, <1>3, CallsPop
<1>9. SizesMatch(z, st2, ms2, q)
  BY <1>1, <1>2, <1>3, <1>7, SizesPop
<1>10. AllMatch(z, st2, ms2, d)
  BY <1>1, <1>3, <1>6, AllPop
<1>11. MaxNest <= 3 => OrderMatch(z, st2, ms2, d)
  BY <1>1, <1>3, <1>6, OrderPop
<1> QED
  BY <1>1, <1>8, <1>9, <1>10, <1>11 DEF Match

-----------------------------------------------------------------------------
(* A message is delivered.                                                 *)

\* The connection's chunk size after it.
SizeAfter(m, q) == IF IsSet(m) THEN m.body[1].k ELSE q

LEMMA MatchOuter ==
    ASSUME NEW z, Fine(z), NEW st, NEW ms, ms \in Seq(Results), NEW x, NEW d, NEW q,
           Match(z, st, ms, x, d, q), st \in Seq(Calls), Len(st) = 1, ~Unfinished(st[1]),
           NEW m, m = Parsed(st[1]), NEW d2, More(d, m, d2), NEW st2, Len(st2) = 0
    PROVE  Match(z, st2, ms, x, d2, SizeAfter(m, q))
<1>1. /\ CallsMatch(z, st) /\ Remembers(z, x) /\ SizesMatch(z, st, ms, q) /\ AllMatch(z, st, ms, d)
      /\ MaxNest <= 3 => OrderMatch(z, st, ms, d)
  BY DEF Match
<1>2. 1 \in 1..Len(st) /\ st[1] \in Calls /\ (\A i \in 1..Len(st) : i = 1)
  BY <1>1
<1>3. CallOf(st[1], z)
  BY <1>1, <1>2 DEF CallsMatch
<1>4. Whole(m, z) /\ Id(m) = Id(st[1]) /\ m.cs = st[1].cs
  BY <1>2, <1>3, WholeParsed
<1>5. m.kind = st[1].kind /\ m.body = st[1].body
  BY <1>2, ParsedIs
<1>6. /\ Len(d) \in Nat /\ Len(d2) = Len(d) + 1 /\ Len(d) + 1 \in 1..Len(d2) /\ d2[Len(d) + 1] = m
      /\ \A i \in 1..Len(d) : i \in 1..Len(d2) /\ d2[i] = d[i]
  BY DEF More
<1>7. \A i \in 1..Len(d2) :
         (i = Len(d) + 1 /\ d2[i] = m) \/ (i \in 1..Len(d) /\ d2[i] = d[i] /\ i # Len(d) + 1)
  BY MorePlaces
<1>8. \A i \in 1..Len(st2) : FALSE
  OBVIOUS
<1>9. CallsMatch(z, st2)
  <2>1. \A cs \in Streams : ~(z.left[cs] > 0)
    BY <1>1, <1>2 DEF CallsMatch, InProgress
  <2> QED
    BY <1>8, <2>1 DEF CallsMatch
<1>10. SizesMatch(z, st2, ms, SizeAfter(m, q))
  <2>1. SizeIs(SizeAfter(m, q), ms, z.outSize)
    <3>1. CASE IsSet(st[1])
      <4>1. m.body[1].k = z.outSize /\ Len(ms) = 0
        BY <1>1, <1>5, <3>1 DEF SizesMatch
      <4>2. \A i \in 1..Len(ms) : ~IsSet(ms[i])
        <5>1. \A i \in 1..0 : FALSE
          OBVIOUS
        <5> QED
          BY <4>1, <5>1
      <4>3. SizeAfter(m, q) = z.outSize
        BY <1>5, <3>1, <4>1 DEF SizeAfter, IsSet
      <4> QED
        BY <4>2, <4>3 DEF SizeIs
    <3>2. CASE ~IsSet(st[1])
      <4>1. SizeIs(q, ms, z.outSize)
        BY <1>1, <3>2 DEF SizesMatch
      <4>2. SizeAfter(m, q) = q
        BY <1>5, <3>2 DEF SizeAfter, IsSet
      <4> QED
        BY <4>1, <4>2
    <3> QED
      BY <3>1, <3>2
  <2> QED
    BY <1>8, <2>1 DEF SizesMatch
<1>11. AllMatch(z, st2, ms, d2)
  <2>1. Len(d2) + Len(ms) + Len(st2) = Len(z.sent)
    <3>1. Len(d) + Len(ms) + 1 = Len(z.sent)
      BY <1>1 DEF AllMatch
    <3>2. PICK a \in Nat : a = Len(ms)
      OBVIOUS
    <3> QED
      BY <1>6, <3>1, <3>2
  <2>2. \A i \in 1..Len(d2) : Whole(d2[i], z)
    BY <1>1, <1>4, <1>7 DEF AllMatch
  <2>3. \A l \in 1..Len(z.sent) : Has(d2, l) \/ Has(ms, l)
    <3> TAKE l \in 1..Len(z.sent)
    <3>1. Has(d, l) => Has(d2, l)
      BY <1>6 DEF Has
    <3>2. Has(st, l) => Has(d2, l)
      BY <1>2, <1>4, <1>6 DEF Has
    <3> QED
      BY <1>1, <3>1, <3>2 DEF AllMatch
  <2>4. \A i \in 1..Len(ms) : Whole(ms[i], z)
    BY <1>1 DEF AllMatch
  <2> QED
    BY <2>1, <2>2, <2>3, <2>4 DEF AllMatch
<1>12. MaxNest <= 3 => OrderMatch(z, st2, ms, d2)
  <2> SUFFICES ASSUME OrderMatch(z, st, ms, d) PROVE OrderMatch(z, st2, ms, d2)
    BY <1>1
  <2>1. InOrder(d2)
    <3> SUFFICES ASSUME NEW i \in 1..Len(d2), NEW j \in 1..Len(d2), i < j
                 PROVE  Earlier(d2[i], d2[j])
      BY DEF InOrder
    <3>1. i \in 1..Len(d) /\ d2[i] = d[i]
      BY <1>6, <1>7
    <3>2. CASE d2[j] = m
      <4>1. Earlier(d[i], st[1])
        BY <1>2, <3>1 DEF OrderMatch, Before
      <4> QED
        BY <1>4, <3>1, <3>2, <4>1 DEF Earlier
    <3>3. CASE j \in 1..Len(d) /\ d2[j] = d[j]
      BY <3>1, <3>3 DEF OrderMatch, InOrder
    <3> QED
      BY <1>7, <3>2, <3>3
  <2>2. Before(d2, ms, 1)
    <3> SUFFICES ASSUME NEW i \in 1..Len(d2), NEW j \in 1..Len(ms), j >= 1
                 PROVE  Earlier(d2[i], ms[j])
      BY DEF Before
    <3>1. CASE d2[i] = m
      <4>1. Earlier(st[1], ms[j])
        BY DEF OrderMatch
      <4> QED
        BY <1>4, <3>1, <4>1 DEF Earlier
    <3>2. CASE i \in 1..Len(d) /\ d2[i] = d[i]
      BY <3>2 DEF OrderMatch, Before
    <3> QED
      BY <1>7, <3>1, <3>2
  <2>3. InOrder(ms)
    BY DEF OrderMatch
  <2>4. InOrder(st2) /\ Before(d2, st2, 1) /\ Before(ms, st2, 2)
    BY <1>8 DEF InOrder, Before
  <2> QED
    BY <1>8, <2>1, <2>2, <2>3, <2>4 DEF OrderMatch
<1> QED
  BY <1>1, <1>9, <1>10, <1>11, <1>12 DEF Match

\* The first message that waits is taken.
Rest(ms, ms2) ==
    /\ ms \in Seq(Results) /\ ms2 \in Seq(Results) /\ Len(ms) \in Nat \ {0}
    /\ Len(ms2) = Len(ms) - 1
    /\ \A i \in 1..Len(ms2) : ms2[i] = ms[i + 1]

LEMMA RestIs ==
    ASSUME NEW ms, ms \in Seq(Results), ms # <<>>, NEW ms2, ms2 = Tail(ms)
    PROVE  Rest(ms, ms2) /\ Head(ms) = ms[1] /\ ms[1] \in Results
BY DEF Rest

LEMMA RestPlaces ==
    ASSUME NEW ms, NEW ms2, Rest(ms, ms2)
    PROVE  /\ \A i \in 1..Len(ms2) : i + 1 \in 1..Len(ms) /\ i + 1 # 1
           /\ \A i \in 1..Len(ms) : i = 1 \/ (i - 1 \in 1..Len(ms2) /\ ms2[i - 1] = ms[i])
           /\ 1 \in 1..Len(ms)
<1>1. /\ \A i \in 1..Len(ms2) : i + 1 \in 1..Len(ms) /\ i + 1 # 1
      /\ \A i \in 1..Len(ms) : i = 1 \/ (i - 1 \in 1..Len(ms2) /\ (i - 1) + 1 = i)
      /\ 1 \in 1..Len(ms)
  BY DEF Rest
<1> QED
  BY <1>1 DEF Rest

LEMMA MatchWaiting ==
    ASSUME NEW z, NEW st, NEW ms, NEW x, NEW d, NEW q,
           Match(z, st, ms, x, d, q), Len(st) = 0, NEW ms2, Rest(ms, ms2),
           NEW m, m = ms[1], NEW d2, More(d, m, d2)
    PROVE  Match(z, st, ms2, x, d2, SizeAfter(m, q))
<1>1. /\ CallsMatch(z, st) /\ Remembers(z, x) /\ SizesMatch(z, st, ms, q) /\ AllMatch(z, st, ms, d)
      /\ MaxNest <= 3 => OrderMatch(z, st, ms, d)
  BY DEF Match
<1>2. \A i \in 1..Len(st) : FALSE
  OBVIOUS
<1>3. /\ Len(d) \in Nat /\ Len(d2) = Len(d) + 1 /\ Len(d) + 1 \in 1..Len(d2) /\ d2[Len(d) + 1] = m
      /\ \A i \in 1..Len(d) : i \in 1..Len(d2) /\ d2[i] = d[i]
  BY DEF More
<1>4. \A i \in 1..Len(d2) :
         (i = Len(d) + 1 /\ d2[i] = m) \/ (i \in 1..Len(d) /\ d2[i] = d[i] /\ i # Len(d) + 1)
  BY MorePlaces
<1>5. /\ \A i \in 1..Len(ms2) : i + 1 \in 1..Len(ms) /\ i + 1 # 1 /\ ms2[i] = ms[i + 1]
      /\ \A i \in 1..Len(ms) : i = 1 \/ (i - 1 \in 1..Len(ms2) /\ ms2[i - 1] = ms[i])
      /\ 1 \in 1..Len(ms) /\ Len(ms2) = Len(ms) - 1 /\ Len(ms) \in Nat /\ Len(ms2) \in Nat
  BY RestPlaces DEF Rest
<1>6. SizeIs(SizeAfter(m, q), ms2, z.outSize)
  <2>1. SizeIs(q, ms, z.outSize)
    BY <1>1 DEF SizesMatch
  <2>2. CASE q = z.outSize /\ \A i \in 1..Len(ms) : ~IsSet(ms[i])
    <3>1. ~IsSet(m) /\ \A i \in 1..Len(ms2) : ~IsSet(ms2[i])
      BY <1>5, <2>2
    <3> QED
      BY <2>2, <3>1 DEF SizeAfter, SizeIs
  <2>3. CASE LastSize(ms, z.outSize)
    <3>1. PICK i \in 1..Len(ms) : /\ IsSet(ms[i]) /\ ms[i].body[1].k = z.outSize
                                  /\ \A j \in 1..Len(ms) : j > i => ~IsSet(ms[j])
      BY <2>3 DEF LastSize
    <3>2. CASE i = 1
      <4>1. \A j \in 1..Len(ms2) : ~IsSet(ms2[j])
        <5> TAKE j \in 1..Len(ms2)
        <5>1. j + 1 \in 1..Len(ms) /\ j + 1 > 1
          BY <1>5
        <5> QED
          BY <1>5, <3>1, <3>2, <5>1
      <4>2. SizeAfter(m, q) = z.outSize
        BY <3>1, <3>2 DEF SizeAfter
      <4> QED
        BY <4>1, <4>2 DEF SizeIs
    <3>3. CASE i # 1
      <4>1. i - 1 \in 1..Len(ms2) /\ ms2[i - 1] = ms[i]
        BY <1>5, <3>3
      <4>2. \A j \in 1..Len(ms2) : j > i - 1 => ~IsSet(ms2[j])
        <5> TAKE j \in 1..Len(ms2)
        <5> HAVE j > i - 1
        <5>1. j + 1 \in 1..Len(ms) /\ j + 1 > i
          BY <1>5
        <5> QED
          BY <1>5, <3>1, <5>1
      <4>3. LastSize(ms2, z.outSize)
        BY <3>1, <4>1, <4>2 DEF LastSize
      <4> QED
        BY <4>3 DEF SizeIs
    <3> QED
      BY <3>2, <3>3
  <2> QED
    BY <2>1, <2>2, <2>3 DEF SizeIs
<1>7. SizesMatch(z, st, ms2, SizeAfter(m, q))
  BY <1>2, <1>6 DEF SizesMatch
<1>8. AllMatch(z, st, ms2, d2)
  <2>1. Len(d2) + Len(ms2) + Len(st) = Len(z.sent)
    <3>1. Len(d) + Len(ms) + 0 = Len(z.sent)
      BY <1>1 DEF AllMatch
    <3>2. PICK a \in Nat : a = Len(d)
      BY <1>3
    <3>3. PICK b \in Nat : b = Len(ms2)
      BY <1>5
    <3>4. Len(ms) = b + 1 /\ Len(d2) = a + 1
      BY <1>3, <1>5, <3>2, <3>3
    <3>5. a + (b + 1) + 0 = (a + 1) + b + 0
      OBVIOUS
    <3> QED
      BY <3>1, <3>2, <3>3, <3>4, <3>5
  <2>2. \A i \in 1..Len(d2) : Whole(d2[i], z)
    BY <1>1, <1>4, <1>5 DEF AllMatch
  <2>3. \A i \in 1..Len(ms2) : Whole(ms2[i], z)
    BY <1>1, <1>5 DEF AllMatch
  <2>4. \A l \in 1..Len(z.sent) : Has(d2, l) \/ Has(ms2, l)
    <3> TAKE l \in 1..Len(z.sent)
    <3>1. Has(d, l) => Has(d2, l)
      BY <1>3 DEF Has
    <3>2. Has(ms, l) => Has(d2, l) \/ Has(ms2, l)
      BY <1>3, <1>5 DEF Has
    <3> QED
      BY <1>1, <1>2, <3>1, <3>2 DEF AllMatch, Has
  <2> QED
    BY <2>1, <2>2, <2>3, <2>4 DEF AllMatch
<1>9. MaxNest <= 3 => OrderMatch(z, st, ms2, d2)
  <2> SUFFICES ASSUME OrderMatch(z, st, ms, d) PROVE OrderMatch(z, st, ms2, d2)
    BY <1>1
  <2>1. InOrder(d2)
    <3> SUFFICES ASSUME NEW i \in 1..Len(d2), NEW j \in 1..Len(d2), i < j
                 PROVE  Earlier(d2[i], d2[j])
      BY DEF InOrder
    <3>1. i \in 1..Len(d) /\ d2[i] = d[i]
      BY <1>3, <1>4
    <3>2. CASE d2[j] = m
      <4>1. Earlier(d[i], ms[1])
        BY <1>5, <3>1 DEF OrderMatch, Before
      <4> QED
        BY <3>1, <3>2, <4>1
    <3>3. CASE j \in 1..Len(d) /\ d2[j] = d[j]
      BY <3>1, <3>3 DEF OrderMatch, InOrder
    <3> QED
      BY <1>4, <3>2, <3>3
  <2>2. Before(d2, ms2, 1)
    <3> SUFFICES ASSUME NEW i \in 1..Len(d2), NEW j \in 1..Len(ms2)
                 PROVE  Earlier(d2[i], ms2[j])
      BY DEF Before
    <3>1. j + 1 \in 1..Len(ms) /\ ms2[j] = ms[j + 1] /\ 1 < j + 1 /\ j + 1 >= 1
      BY <1>5
    <3>2. CASE d2[i] = m
      <4>1. Earlier(ms[1], ms[j + 1])
        BY <1>5, <3>1 DEF OrderMatch, InOrder
      <4> QED
        BY <3>1, <3>2, <4>1
    <3>3. CASE i \in 1..Len(d) /\ d2[i] = d[i]
      BY <3>1, <3>3 DEF OrderMatch, Before
    <3> QED
      BY <1>4, <3>2, <3>3
  <2>3. InOrder(ms2)
    <3> SUFFICES ASSUME NEW i \in 1..Len(ms2), NEW j \in 1..Len(ms2), i < j
                 PROVE  Earlier(ms2[i], ms2[j])
      BY DEF InOrder
    <3>1. i + 1 \in 1..Len(ms) /\ j + 1 \in 1..Len(ms) /\ i + 1 < j + 1
          /\ ms2[i] = ms[i + 1] /\ ms2[j] = ms[j + 1]
      BY <1>5
    <3> QED
      BY <3>1 DEF OrderMatch, InOrder
  <2>4. InOrder(st) /\ Before(d2, st, 1) /\ Before(ms2, st, 2)
    BY <1>2 DEF InOrder, Before
  <2> QED
    BY <1>2, <2>1, <2>2, <2>3, <2>4 DEF OrderMatch
<1> QED
  BY <1>1, <1>7, <1>8, <1>9 DEF Match

-----------------------------------------------------------------------------
(* The tape: all the chunks of the client, with what it was before and     *)
(* after each of them.  A chunk c begins after the unit at[c].             *)

ChunkAt(H, c) ==
    /\ H.chunk[c] \in Chunks /\ H.at[c + 1] = H.at[c] + 1 + H.chunk[c].n
    /\ H.unit[H.at[c] + 1] = H.chunk[c].h
    /\ \A j \in 1..H.chunk[c].n :
          H.unit[H.at[c] + 1 + j] = Piece(H.chunk[c].id, H.chunk[c].from + j - 1)
    /\ Moves(H.state[c], H.chunk[c], H.state[c + 1])
IsTape(H) ==
    /\ H.n \in Nat \ {0}
    /\ \A c \in 1..H.n : /\ Fine(H.state[c]) /\ H.at[c] \in Nat /\ H.at[c] <= H.at[H.n]
                         /\ Follows(H.state[H.n], H.state[c])
    /\ \A c \in 1..H.n : c < H.n => ChunkAt(H, c)

LEMMA MovesFine ==
    ASSUME NEW z, Fine(z), NEW ch, ch \in Chunks, NEW z2, z2 \in States, Moves(z, ch, z2)
    PROVE  Fine(z2) /\ Follows(z2, z)
<1>1. CASE \E cs \in Streams, len \in Lengths : BeginMove(z, ch, z2, cs, len)
  BY <1>1, BeginFine
<1>2. CASE \E cs \in Streams : ContinueMove(z, ch, z2, cs)
  BY <1>2, ContinueFine
<1>3. CASE \E size \in NewChunks : SizeMove(z, ch, z2, size)
  BY <1>3, SizeFine
<1> QED
  BY <1>1, <1>2, <1>3 DEF Moves

LEMMA FollowsAll ==
    ASSUME NEW z, z \in States, NEW z2, z2 \in States, NEW z3, z3 \in States,
           Follows(z2, z), Follows(z3, z2)
    PROVE  Follows(z3, z)
<1>1. Len(z.sent) \in Nat /\ Len(z2.sent) \in Nat /\ Len(z3.sent) \in Nat
  BY StateIs
<1> QED
  BY <1>1 DEF Follows

\* One more chunk at the end.
Longer(H, ch, z2, G) ==
    /\ G.n = H.n + 1
    /\ \A c \in 1..H.n : G.at[c] = H.at[c] /\ G.state[c] = H.state[c]
    /\ G.at[H.n + 1] = H.at[H.n] + 1 + ch.n /\ G.state[H.n + 1] = z2
    /\ \A c \in 1..H.n : c < H.n => G.chunk[c] = H.chunk[c]
    /\ G.chunk[H.n] = ch
    /\ \A u \in 1..H.at[H.n] : G.unit[u] = H.unit[u]
    /\ G.unit[H.at[H.n] + 1] = ch.h
    /\ \A j \in 1..ch.n : G.unit[H.at[H.n] + 1 + j] = Piece(ch.id, ch.from + j - 1)

LEMMA LongerExists ==
    ASSUME NEW H, IsTape(H), NEW ch, ch \in Chunks, NEW z2
    PROVE  \E G : Longer(H, ch, z2, G)
<1>1. PICK n \in Nat \ {0} : n = H.n
  BY DEF IsTape
<1>2. PICK a \in Nat : a = H.at[n]
  <2>1. n \in 1..n
    BY <1>1
  <2> QED
    BY <1>1, <2>1 DEF IsTape
<1>3. PICK k \in Nat : k = ch.n
  BY DEF Chunks
<1> DEFINE ats == [c \in 1..n + 1 |-> IF c = n + 1 THEN a + 1 + k ELSE H.at[c]]
           states == [c \in 1..n + 1 |-> IF c = n + 1 THEN z2 ELSE H.state[c]]
           chunks == [c \in 1..n |-> IF c = n THEN ch ELSE H.chunk[c]]
           units == [u \in 1..a + 1 + k |-> IF u <= a THEN H.unit[u]
                                            ELSE IF u = a + 1 THEN ch.h
                                            ELSE Piece(ch.id, ch.from + (u - (a + 1)) - 1)]
           G == [n |-> n + 1, at |-> ats, state |-> states, chunk |-> chunks, unit |-> units]
<1>4. /\ \A c \in 1..n : ats[c] = H.at[c] /\ states[c] = H.state[c]
      /\ ats[n + 1] = a + 1 + k /\ states[n + 1] = z2
  OBVIOUS
<1>5. /\ \A c \in 1..n : c < n => chunks[c] = H.chunk[c]
      /\ chunks[n] = ch
  OBVIOUS
<1>6. /\ \A u \in 1..a : units[u] = H.unit[u]
      /\ units[a + 1] = ch.h
  OBVIOUS
<1>7. \A j \in 1..k : units[a + 1 + j] = Piece(ch.id, ch.from + j - 1)
  <2> TAKE j \in 1..k
  <2>1. /\ a + 1 + j \in 1..a + 1 + k /\ ~(a + 1 + j <= a) /\ a + 1 + j # a + 1
        /\ (a + 1 + j) - (a + 1) = j
    OBVIOUS
  <2>2. units[a + 1 + j] = Piece(ch.id, ch.from + ((a + 1 + j) - (a + 1)) - 1)
    BY <2>1
  <2> QED
    BY <2>1, <2>2
<1> HIDE DEF ats, states, chunks, units
<1>8. G.n = n + 1 /\ G.at = ats /\ G.state = states /\ G.chunk = chunks /\ G.unit = units
  OBVIOUS
<1> HIDE DEF G
<1>9. Longer(H, ch, z2, G)
  BY <1>1, <1>2, <1>3, <1>4, <1>5, <1>6, <1>7, <1>8 DEF Longer
<1> QED
  BY <1>9

LEMMA LongerIsTape ==
    ASSUME NEW H, IsTape(H), NEW ch, ch \in Chunks, NEW z2, z2 \in States,
           Moves(H.state[H.n], ch, z2), NEW G, Longer(H, ch, z2, G)
    PROVE  IsTape(G)
<1>1. PICK n \in Nat \ {0} : n = H.n
  BY DEF IsTape
<1>2. n \in 1..n
  OBVIOUS
<1>3. PICK z : z = H.state[n]
  OBVIOUS
<1>4. Fine(z) /\ Fine(z2) /\ Follows(z2, z) /\ z \in States
  <2>1. Fine(z)
    BY <1>1, <1>2, <1>3 DEF IsTape
  <2>2. Moves(z, ch, z2)
    BY <1>1, <1>3
  <2> QED
    BY <2>1, <2>2, MovesFine DEF Fine
<1>5. PICK a \in Nat : a = H.at[n]
  BY <1>1, <1>2 DEF IsTape
<1>6. PICK k \in Nat \ {0} : k = ch.n
  BY DEF Chunks
<1>7. /\ G.n = n + 1 /\ G.at[n + 1] = a + 1 + k /\ G.state[n + 1] = z2 /\ G.chunk[n] = ch
      /\ \A c \in 1..n : G.at[c] = H.at[c] /\ G.state[c] = H.state[c]
      /\ \A c \in 1..n : c < n => G.chunk[c] = H.chunk[c]
      /\ \A u \in 1..a : G.unit[u] = H.unit[u]
      /\ G.unit[a + 1] = ch.h
      /\ \A j \in 1..k : G.unit[a + 1 + j] = Piece(ch.id, ch.from + j - 1)
  BY <1>1, <1>5, <1>6 DEF Longer
<1>8. \A c \in 1..n : /\ Fine(H.state[c]) /\ H.at[c] \in Nat /\ H.at[c] <= a
                      /\ Follows(z, H.state[c])
  BY <1>1, <1>3, <1>5 DEF IsTape
<1>9. \A c \in 1..n + 1 : /\ Fine(G.state[c]) /\ G.at[c] \in Nat /\ G.at[c] <= G.at[n + 1]
                          /\ Follows(z2, G.state[c])
  <2> TAKE c \in 1..n + 1
  <2>1. CASE c = n + 1
    <3>1. Follows(z2, z2)
      BY DEF Follows
    <3> QED
      BY <1>4, <1>7, <2>1, <3>1
  <2>2. CASE c # n + 1
    <3>1. c \in 1..n
      BY <2>2
    <3>2. G.at[c] = H.at[c] /\ G.state[c] = H.state[c]
      BY <1>7, <3>1
    <3>3. H.at[c] \in Nat /\ H.at[c] <= a + 1 + k
      BY <1>8, <3>1
    <3>4. Fine(H.state[c]) /\ Follows(z2, H.state[c])
      <4>1. Fine(H.state[c]) /\ Follows(z, H.state[c])
        BY <1>8, <3>1
      <4> QED
        BY <1>4, <4>1, FollowsAll DEF Fine
    <3> QED
      BY <1>7, <3>2, <3>3, <3>4
  <2> QED
    BY <2>1, <2>2
<1>10. \A c \in 1..n + 1 : c < n + 1 => ChunkAt(G, c)
  <2> SUFFICES ASSUME NEW c \in 1..n + 1, c < n + 1 PROVE ChunkAt(G, c)
    OBVIOUS
  <2>1. CASE c = n
    <3>1. G.at[c] = a /\ G.chunk[c] = ch /\ G.state[c] = z /\ G.at[c + 1] = a + 1 + k
          /\ G.state[c + 1] = z2
      BY <1>2, <1>3, <1>5, <1>7, <2>1
    <3>2. Moves(z, ch, z2)
      BY <1>1, <1>3
    <3> QED
      BY <1>6, <1>7, <3>1, <3>2 DEF ChunkAt
  <2>2. CASE c # n
    <3>1. c \in 1..n /\ c < n /\ c + 1 \in 1..n
      BY <2>2
    <3>2. ChunkAt(H, c)
      BY <1>1, <3>1 DEF IsTape
    <3>3. G.at[c] = H.at[c] /\ G.chunk[c] = H.chunk[c] /\ G.state[c] = H.state[c]
          /\ G.at[c + 1] = H.at[c + 1] /\ G.state[c + 1] = H.state[c + 1]
      BY <1>7, <3>1
    <3>4. PICK m \in Nat \ {0} : m = H.chunk[c].n
      BY <3>2 DEF ChunkAt, Chunks
    <3>5. PICK b \in Nat : b = H.at[c]
      BY <1>8, <3>1
    <3>6. b + 1 + m <= a
      <4>1. H.at[c + 1] = b + 1 + m
        BY <3>2, <3>4, <3>5 DEF ChunkAt
      <4> QED
        BY <1>8, <3>1, <4>1
    <3>7. b + 1 \in 1..a /\ \A j \in 1..m : b + 1 + j \in 1..a
      BY <3>6
    <3>8. /\ G.unit[b + 1] = H.unit[b + 1]
          /\ \A j \in 1..m : G.unit[b + 1 + j] = H.unit[b + 1 + j]
      BY <1>7, <3>7
    <3> QED
      BY <3>2, <3>3, <3>4, <3>5, <3>8 DEF ChunkAt
  <2> QED
    BY <2>1, <2>2
<1> QED
  BY <1>7, <1>9, <1>10 DEF IsTape

\* A chunk is where there is more.
LEMMA TapeEnds ==
    ASSUME NEW H, IsTape(H), NEW c, c \in 1..H.n
    PROVE  /\ H.at[c] \in Nat /\ H.at[H.n] \in Nat /\ H.at[c] <= H.at[H.n]
           /\ H.at[c] = H.at[H.n] => c = H.n
           /\ c # H.n => c < H.n /\ ChunkAt(H, c) /\ c + 1 \in 1..H.n
<1>1. PICK n \in Nat \ {0} : n = H.n
  BY DEF IsTape
<1>2. n \in 1..n
  OBVIOUS
<1>3. H.at[c] \in Nat /\ H.at[n] \in Nat /\ H.at[c] <= H.at[n]
  BY <1>1, <1>2 DEF IsTape
<1>4. c # n => c < n /\ c + 1 \in 1..n
  BY <1>1
<1>5. c # n => ChunkAt(H, c)
  BY <1>1, <1>4 DEF IsTape
<1>6. c # n => H.at[c] # H.at[n]
  <2> SUFFICES ASSUME c # n PROVE H.at[c] # H.at[n]
    OBVIOUS
  <2>1. H.at[c + 1] = H.at[c] + 1 + H.chunk[c].n /\ H.chunk[c].n \in Nat
    BY <1>5 DEF ChunkAt, Chunks
  <2>2. H.at[c + 1] <= H.at[n]
    BY <1>1, <1>4 DEF IsTape
  <2> QED
    BY <1>3, <2>1, <2>2
<1> QED
  BY <1>1, <1>3, <1>4, <1>5, <1>6

-----------------------------------------------------------------------------
(* What the client sends is a chunk more.                                  *)

LEMMA SenderIs ==
    ASSUME Types, NEW z, z = Sender
    PROVE  /\ z \in States /\ z.left = left /\ z.lastSent = lastSent /\ z.outSize = outSize
           /\ z.begun = begun /\ z.sent = sent
<1>1. /\ z = [left |-> left, lastSent |-> lastSent, outSize |-> outSize, begun |-> begun,
              sent |-> sent]
  BY DEF Sender
<1>2. begun \in Nat
  BY ChunkAssumption DEF Types, ChunkAssumption
<1> QED
  BY <1>1, <1>2 DEF Types, States

ClientStep(ch, b, z2) ==
    /\ ch \in Chunks /\ z2 \in States /\ z2 = Sender' /\ Moves(Sender, ch, z2)
    /\ Sends(ch.h, b) /\ ArePieces(b, ch.id, ch.from, ch.n)
    /\ pc = "recv"
    /\ UNCHANGED <<pc, stack, ctx, msgs, savedCtx, savedMsgs, chunkSize, delivered>>

LEMMA BeginStep ==
    ASSUME Types, NEW cs \in Streams, NEW len \in Lengths, Begin(cs, len)
    PROVE  \E ch, b, z2 : ClientStep(ch, b, z2)
<1>1. PICK id : id = Len(sent) + 1
  OBVIOUS
<1>2. PICK n : n = Least(outSize, len)
  OBVIOUS
<1>3. /\ outSize \in Nat \ {0} /\ len \in Nat \ {0} /\ id \in Nat /\ n \in Nat \ {0} /\ n <= len
  <2>1. outSize \in Nat \ {0} /\ len \in Nat \ {0} /\ Len(sent) \in Nat
    BY SizesArePositive DEF Types
  <2> QED
    BY <1>1, <1>2, <2>1, LeastIs
<1>4. PICK h : /\ h = Full(cs, "media", len) \/ (h = Type3(cs) /\ lastSent[cs].len = len)
               /\ wire' = wire \o <<h>> \o Pieces(id, 1, n)
  BY <1>1, <1>2 DEF Begin
<1>5. h \in Headers /\ h # SizeHeader
  BY <1>4 DEF Headers, Full, SizeHeader, Type3
<1>6. PICK b : b = Pieces(id, 1, n)
  OBVIOUS
<1>7. ArePieces(b, id, 1, n) /\ b \in Seq(BodyUnits)
  <2>1. ArePieces(b, id, 1, n)
    BY <1>3, <1>6, PiecesAre
  <2> QED
    BY <2>1 DEF ArePieces
<1>8. PICK ch : ch = [h |-> h, id |-> id, from |-> 1, n |-> n]
  OBVIOUS
<1>9. ch \in Chunks /\ ch.h = h /\ ch.id = id /\ ch.from = 1 /\ ch.n = n
  BY <1>3, <1>5, <1>8 DEF Chunks
<1>10. PICK z : z = Sender
  OBVIOUS
<1>11. /\ z \in States /\ z.left = left /\ z.lastSent = lastSent /\ z.outSize = outSize
       /\ z.begun = begun /\ z.sent = sent
  BY <1>10, SenderIs
<1>12. Types'
  BY BeginTypes
<1>13. PICK z2 : z2 = Sender'
  OBVIOUS
<1>14. /\ z2 \in States /\ z2.left = left' /\ z2.lastSent = lastSent' /\ z2.outSize = outSize'
       /\ z2.begun = begun' /\ z2.sent = sent'
  <2>1. begun' \in Nat
    BY <1>12, ChunkAssumption DEF Types, ChunkAssumption
  <2> QED
    BY <1>12, <1>13, <2>1 DEF Types, States, Sender
<1>15. /\ left[cs] = 0 /\ begun < MaxNest /\ pc = "recv"
       /\ left' = [left EXCEPT ![cs] = len - n]
       /\ lastSent' = [lastSent EXCEPT ![cs] = [cs |-> cs, len |-> len, id |-> id]]
       /\ sent' = Append(sent, Message(cs, "media", Pieces(id, 1, len)))
       /\ begun' = IF \E s \in Streams : left'[s] > 0 THEN begun + 1 ELSE 0
       /\ UNCHANGED <<outSize, pc, rb, taken, stack, ctx, msgs, savedCtx, savedMsgs, chunkSize,
                      delivered>>
  BY <1>1, <1>2 DEF Begin, MayBegin, server, saved
<1>16. Busy(z2) => z2.begun = z.begun + 1
  BY <1>11, <1>14, <1>15 DEF Busy
<1>17. BeginMove(z, ch, z2, cs, len)
  <2>1. ch.id = Len(z.sent) + 1 /\ ch.from = 1 /\ ch.n = Least(z.outSize, len)
    BY <1>1, <1>2, <1>9, <1>11
  <2>2. ch.h = Full(cs, "media", len) \/ (ch.h = Type3(cs) /\ z.lastSent[cs].len = len)
    BY <1>4, <1>9, <1>11
  <2>3. /\ z2.left = [z.left EXCEPT ![cs] = len - ch.n]
        /\ z2.sent = Append(z.sent, Message(cs, "media", Pieces(ch.id, 1, len)))
        /\ z2.outSize = z.outSize /\ z.left[cs] = 0 /\ z.begun < MaxNest
    BY <1>9, <1>11, <1>14, <1>15
  <2>4. z2.lastSent = [z.lastSent EXCEPT ![cs] = [cs |-> cs, len |-> len, id |-> ch.id]]
    <3>1. PICK l : l = [cs |-> cs, len |-> len, id |-> id]
      OBVIOUS
    <3>2. [cs |-> cs, len |-> len, id |-> ch.id] = l
      BY <1>9, <3>1
    <3>3. lastSent' = [lastSent EXCEPT ![cs] = l]
      BY <1>15, <3>1, Zenon
    <3>4. z2.lastSent = [z.lastSent EXCEPT ![cs] = l]
      BY <1>11, <1>14, <3>3
    <3> QED
      BY <3>2, <3>4, Zenon
  <2> QED
    BY <1>16, <2>1, <2>2, <2>3, <2>4, Zenon DEF BeginMove
<1>18. Moves(z, ch, z2)
  BY <1>17 DEF Moves
<1>19. Sends(h, b)
  BY <1>4, <1>5, <1>6, <1>7, <1>15 DEF Sends
<1>20. ClientStep(ch, b, z2)
  BY <1>7, <1>9, <1>10, <1>13, <1>14, <1>15, <1>18, <1>19 DEF ClientStep
<1> QED
  BY <1>20

LEMMA ContinueStep ==
    ASSUME Types, NEW cs \in Streams, Continue(cs)
    PROVE  \E ch, b, z2 : ClientStep(ch, b, z2)
<1>1. PICK n : n = Least(outSize, left[cs])
  OBVIOUS
<1>2. PICK id : id = lastSent[cs].id
  OBVIOUS
<1>3. PICK from : from = lastSent[cs].len - left[cs] + 1
  OBVIOUS
<1>4. /\ outSize \in Nat \ {0} /\ left[cs] \in Nat /\ left[cs] > 0 /\ id \in Nat
      /\ n \in Nat \ {0} /\ from \in Nat \ {0}
  <2>1. outSize \in Nat \ {0} /\ left[cs] \in Nat /\ lastSent[cs] \in Lasts
        /\ left[cs] <= lastSent[cs].len /\ left[cs] > 0
    BY SizesArePositive DEF Types, Continue
  <2>2. id \in Nat /\ lastSent[cs].len \in Nat
    BY <1>2, <2>1 DEF Lasts
  <2>3. n \in Nat \ {0}
    BY <1>1, <2>1, LeastIs
  <2> QED
    BY <1>3, <2>1, <2>2, <2>3
<1>5. Type3(cs) \in Headers /\ Type3(cs) # SizeHeader
  BY DEF Headers, Type3, SizeHeader, Full
<1>6. PICK b : b = Pieces(id, from, n)
  OBVIOUS
<1>7. ArePieces(b, id, from, n) /\ b \in Seq(BodyUnits)
  <2>1. ArePieces(b, id, from, n)
    BY <1>4, <1>6, PiecesAre
  <2> QED
    BY <2>1 DEF ArePieces
<1>8. PICK ch : ch = [h |-> Type3(cs), id |-> id, from |-> from, n |-> n]
  OBVIOUS
<1>9. ch \in Chunks /\ ch.h = Type3(cs) /\ ch.id = id /\ ch.from = from /\ ch.n = n
  BY <1>4, <1>5, <1>8 DEF Chunks
<1>10. PICK z : z = Sender
  OBVIOUS
<1>11. /\ z \in States /\ z.left = left /\ z.lastSent = lastSent /\ z.outSize = outSize
       /\ z.begun = begun /\ z.sent = sent
  BY <1>10, SenderIs
<1>12. Types'
  BY ContinueTypes
<1>13. PICK z2 : z2 = Sender'
  OBVIOUS
<1>14. /\ z2 \in States /\ z2.left = left' /\ z2.lastSent = lastSent' /\ z2.outSize = outSize'
       /\ z2.begun = begun' /\ z2.sent = sent'
  <2>1. begun' \in Nat
    BY <1>12, ChunkAssumption DEF Types, ChunkAssumption
  <2> QED
    BY <1>12, <1>13, <2>1 DEF Types, States, Sender
<1>15. /\ pc = "recv" /\ left' = [left EXCEPT ![cs] = left[cs] - n]
       /\ wire' = wire \o <<Type3(cs)>> \o b
       /\ begun' = IF \E s \in Streams : left'[s] > 0 THEN begun ELSE 0
       /\ UNCHANGED <<lastSent, sent, outSize, pc, rb, taken, stack, ctx, msgs, savedCtx,
                      savedMsgs, chunkSize, delivered>>
  BY <1>1, <1>2, <1>3, <1>6 DEF Continue, server, saved
<1>16. Busy(z2) => z2.begun = z.begun
  BY <1>11, <1>14, <1>15 DEF Busy
<1>17. ContinueMove(z, ch, z2, cs)
  <2>1. /\ z.left[cs] > 0 /\ ch.id = z.lastSent[cs].id
        /\ ch.from = z.lastSent[cs].len - z.left[cs] + 1
        /\ ch.n = Least(z.outSize, z.left[cs]) /\ ch.h = Type3(cs)
    BY <1>1, <1>2, <1>3, <1>4, <1>9, <1>11
  <2>2. /\ z2.left = [z.left EXCEPT ![cs] = z.left[cs] - ch.n]
        /\ z2.lastSent = z.lastSent /\ z2.sent = z.sent /\ z2.outSize = z.outSize
    BY <1>9, <1>11, <1>14, <1>15
  <2> QED
    BY <1>16, <2>1, <2>2, Zenon DEF ContinueMove
<1>18. Moves(z, ch, z2)
  BY <1>17 DEF Moves
<1>19. Sends(Type3(cs), b)
  BY <1>5, <1>7, <1>15 DEF Sends
<1>20. ClientStep(ch, b, z2)
  BY <1>7, <1>9, <1>10, <1>13, <1>14, <1>15, <1>18, <1>19 DEF ClientStep
<1> QED
  BY <1>20

\* At most one message is in progress when the client sets a size.
LEMMA AtMostOne ==
    ASSUME Types, ResizeIn <= 1, Cardinality({cs \in Streams : left[cs] > 0}) <= ResizeIn
    PROVE  \A a, b \in Streams : left[a] > 0 /\ left[b] > 0 => a = b
<1> SUFFICES ASSUME NEW a \in Streams, NEW b \in Streams, left[a] > 0, left[b] > 0, a # b
             PROVE  FALSE
  OBVIOUS
<1> DEFINE S == {cs \in Streams : left[cs] > 0}
<1>1. IsFiniteSet(Streams) /\ ResizeIn \in Nat
  BY ChunkAssumption DEF ChunkAssumption
<1>2. IsFiniteSet(S)
  BY <1>1, FS_Subset
<1>3. {a, b} \subseteq S
  OBVIOUS
<1>4. IsFiniteSet({a, b}) /\ Cardinality({a, b}) <= Cardinality(S)
  BY <1>2, <1>3, FS_Subset
<1>5. Cardinality({a, b}) = 2
  <2>1. IsFiniteSet({a}) /\ Cardinality({a}) = 1
    BY FS_Singleton
  <2>2. Cardinality({a} \union {b}) = 1 + 1
    BY <2>1, FS_AddElement
  <2>3. {a, b} = {a} \union {b}
    OBVIOUS
  <2> QED
    BY <2>2, <2>3
<1>6. Cardinality(S) \in Nat
  BY <1>2, FS_CardinalityType
<1> QED
  BY <1>1, <1>4, <1>5, <1>6

LEMMA SizeStep ==
    ASSUME Types, ResizeIn <= 1, NEW size \in NewChunks, SetChunkSize(size)
    PROVE  \E ch, b, z2 : ClientStep(ch, b, z2)
<1>1. PICK id : id = Len(sent) + 1
  OBVIOUS
<1>2. id \in Nat /\ size \in Nat \ {0}
  BY <1>1, SizesArePositive DEF Types
<1>3. PICK b : b = <<Piece(id, size)>>
  OBVIOUS
<1>4. b \in Seq(BodyUnits) /\ Len(b) = 1 /\ b[1] = Piece(id, size) /\ b[1].k = size
  BY <1>2, <1>3 DEF Piece, BodyUnits
<1>5. ArePieces(b, id, size, 1)
  <2>1. \A i \in 1..1 : i = 1 /\ size + i - 1 = size
    BY <1>2
  <2> QED
    BY <1>4, <2>1 DEF ArePieces
<1>6. PICK ch : ch = [h |-> SizeHeader, id |-> id, from |-> size, n |-> 1]
  OBVIOUS
<1>7. ch \in Chunks /\ ch.h = SizeHeader /\ ch.id = id /\ ch.from = size /\ ch.n = 1
  BY <1>2, <1>6, UnitIs DEF Chunks
<1>8. PICK z : z = Sender
  OBVIOUS
<1>9. /\ z \in States /\ z.left = left /\ z.lastSent = lastSent /\ z.outSize = outSize
      /\ z.begun = begun /\ z.sent = sent
  BY <1>8, SenderIs
<1>10. Types'
  BY SetChunkSizeTypes
<1>11. PICK z2 : z2 = Sender'
  OBVIOUS
<1>12. /\ z2 \in States /\ z2.left = left' /\ z2.lastSent = lastSent' /\ z2.outSize = outSize'
       /\ z2.begun = begun' /\ z2.sent = sent'
  <2>1. begun' \in Nat
    BY <1>10, ChunkAssumption DEF Types, ChunkAssumption
  <2> QED
    BY <1>10, <1>11, <2>1 DEF Types, States, Sender
<1>13. /\ begun < MaxNest /\ pc = "recv" /\ outSize' = size
       /\ Cardinality({cs \in Streams : left[cs] > 0}) <= ResizeIn
       /\ wire' = wire \o <<SizeHeader>> \o b
       /\ sent' = Append(sent, Message(Control, "SetChunkSize", b))
       /\ begun' = IF Idle THEN 0 ELSE begun + 1
       /\ UNCHANGED <<left, lastSent, pc, rb, taken, stack, ctx, msgs, savedCtx, savedMsgs,
                      chunkSize, delivered>>
  BY <1>1, <1>3 DEF SetChunkSize, MayBegin, server, saved, SizeHeader
<1>14. Busy(z2) => z2.begun = z.begun + 1
  <2> SUFFICES ASSUME Busy(z2) PROVE z2.begun = z.begun + 1
    OBVIOUS
  <2>1. PICK s \in Streams : left[s] > 0
    BY <1>12, <1>13 DEF Busy
  <2>2. ~Idle
    BY <2>1 DEF Idle
  <2> QED
    BY <1>9, <1>12, <1>13, <2>2
<1>15. \A p, q \in Streams : left[p] > 0 /\ left[q] > 0 => p = q
  BY <1>13, AtMostOne
<1>16. SizeMove(z, ch, z2, size)
  <2>1. z2.sent = Append(z.sent, Message(Control, "SetChunkSize", <<Piece(ch.id, size)>>))
    BY <1>3, <1>7, <1>9, <1>12, <1>13
  <2>2. \A p, q \in Streams : z.left[p] > 0 /\ z.left[q] > 0 => p = q
    BY <1>9, <1>15
  <2>3. /\ z.begun < MaxNest /\ ch.id = Len(z.sent) + 1
        /\ z2.left = z.left /\ z2.lastSent = z.lastSent /\ z2.outSize = size
    BY <1>1, <1>7, <1>9, <1>12, <1>13
  <2> QED
    BY <1>7, <1>14, <2>1, <2>2, <2>3 DEF SizeMove
<1>17. Moves(z, ch, z2)
  BY <1>16 DEF Moves
<1>18. Sends(SizeHeader, b)
  BY <1>4, <1>13, UnitIs DEF Sends
<1>19. ClientStep(ch, b, z2)
  BY <1>5, <1>7, <1>8, <1>11, <1>12, <1>13, <1>17, <1>18 DEF ClientStep
<1> QED
  BY <1>19

LEMMA ClientMoves ==
    ASSUME Types, ResizeIn <= 1, ClientNext
    PROVE  \E ch, b, z2 : ClientStep(ch, b, z2)
BY BeginStep, ContinueStep, SizeStep DEF ClientNext

-----------------------------------------------------------------------------
(* The invariant: the stream is the tape from where the turn began (f),    *)
(* and the parser has what belongs to what it has read of it (to c).       *)

Reads(H, b) ==
    /\ Len(Stream) = H.at[H.n] - b
    /\ \A i \in 1..Len(Stream) : Stream[i] = H.unit[b + i]
Where ==
    /\ pc # "desync"
    /\ pc \in {"recv", "turn"} => Len(stack) = 0
    /\ pc = "return" => Len(stack) # 0 /\ ~Unfinished(stack[Len(stack)])
    /\ pc = "parse" => Ready(stack, msgs)
Undone(z) == savedMsgs = <<>> /\ Match(z, <<>>, <<>>, savedCtx, delivered, chunkSize)
Holds(H, f, c) ==
    /\ IsTape(H) /\ f \in 1..H.n /\ c \in 1..H.n
    /\ H.state[H.n] = Sender
    /\ Reads(H, H.at[f]) /\ Len(taken) = H.at[c] - H.at[f]
    /\ Match(H.state[c], stack, msgs, ctx, delivered, chunkSize)
    /\ pc \in {"parse", "return"} => Undone(H.state[f])
    /\ Where
Inv == Types /\ \E H, f, c : Holds(H, f, c)

LEMMA InitHolds ==
    ASSUME Init
    PROVE  \E H, f, c : Holds(H, f, c)
<1>1. Types
  BY InitTypes
<1>2. PICK z : z = Sender
  OBVIOUS
<1>3. /\ z \in States /\ z.left = left /\ z.lastSent = lastSent /\ z.outSize = outSize
      /\ z.begun = begun /\ z.sent = sent
  BY <1>1, <1>2, SenderIs
<1>4. /\ sent = <<>> /\ outSize = InitChunk /\ chunkSize = InitChunk /\ stack = <<>> /\ msgs = <<>>
      /\ delivered = <<>> /\ taken = <<>> /\ rb = <<>> /\ wire = <<>> /\ pc = "recv"
      /\ left = [cs \in Streams |-> 0] /\ lastSent = [cs \in Streams |-> Nothing]
  BY DEF Init
<1>5. /\ \A cs \in Streams : z.left[cs] = 0 /\ z.lastSent[cs].id = 0 /\ z.lastSent[cs].len = 0
      /\ Len(z.sent) = 0
  BY <1>3, <1>4 DEF Nothing
<1>6. Fine(z)
  <2>1. \A cs \in Streams : LastFine(z, cs)
    BY <1>5 DEF LastFine
  <2>2. \A i \in 1..Len(z.sent) : FALSE
    BY <1>5
  <2> QED
    BY <1>3, <2>1, <2>2 DEF Fine
<1>7. \A i \in 1..0 : FALSE
  OBVIOUS
<1>8. /\ Len(stack) = 0 /\ Len(msgs) = 0 /\ Len(delivered) = 0
  BY <1>4
<1>9. CallsMatch(z, stack) /\ Remembers(z, ctx)
  BY <1>5, <1>7, <1>8 DEF CallsMatch, Remembers
<1>10. SizesMatch(z, stack, msgs, chunkSize)
  BY <1>3, <1>4, <1>7, <1>8 DEF SizesMatch, SizeIs
<1>11. AllMatch(z, stack, msgs, delivered)
  BY <1>5, <1>7, <1>8 DEF AllMatch
<1>12. OrderMatch(z, stack, msgs, delivered)
  BY <1>7, <1>8 DEF OrderMatch, InOrder, Before
<1>13. Match(z, stack, msgs, ctx, delivered, chunkSize)
  BY <1>9, <1>10, <1>11, <1>12 DEF Match
<1> DEFINE H == [n |-> 1, at |-> [c \in 1..1 |-> 0], state |-> [c \in 1..1 |-> z]]
<1>14. H.n = 1 /\ H.at[1] = 0 /\ H.state[1] = z
  OBVIOUS
<1> HIDE DEF H
<1>15. IsTape(H)
  <2>1. Follows(z, z)
    BY <1>5 DEF Follows
  <2>2. \A c \in 1..H.n : c = 1
    BY <1>14
  <2> QED
    BY <1>6, <1>14, <2>1, <2>2 DEF IsTape
<1>16. Reads(H, H.at[1]) /\ Len(taken) = H.at[1] - H.at[1]
  <2>1. Len(Stream) = 0 /\ Len(taken) = 0
    <3>1. Len(taken) = 0 /\ Len(rb) = 0 /\ Len(wire) = 0
      BY <1>4
    <3> QED
      BY <1>1, <3>1, StreamIs
  <2> QED
    BY <1>7, <1>14, <2>1 DEF Reads
<1>17. Where
  BY <1>4, <1>8 DEF Where
<1>18. 1 \in 1..H.n
  BY <1>14
<1>19. Holds(H, 1, 1)
  BY <1>2, <1>4, <1>13, <1>14, <1>15, <1>16, <1>17, <1>18 DEF Holds
<1> QED
  BY <1>19

LEMMA ClientHolds ==
    ASSUME Types, NEW H, NEW f, NEW c, Holds(H, f, c),
           NEW ch, NEW b, NEW z2, ClientStep(ch, b, z2)
    PROVE  \E G : Holds(G, f, c)'
<1>1. /\ ch \in Chunks /\ z2 \in States /\ Moves(H.state[H.n], ch, z2) /\ IsTape(H)
      /\ Sends(ch.h, b) /\ Len(b) = ch.n
      /\ \A j \in 1..ch.n : b[j] = Piece(ch.id, ch.from + j - 1)
  BY DEF ClientStep, Holds, ArePieces
<1>2. PICK G : Longer(H, ch, z2, G)
  BY <1>1, LongerExists
<1>3. IsTape(G)
  BY <1>1, <1>2, LongerIsTape
<1>4. PICK n \in Nat \ {0} : n = H.n
  BY <1>1 DEF IsTape
<1>5. PICK k \in Nat : k = ch.n
  BY <1>1 DEF Chunks
<1>6. f \in 1..n /\ c \in 1..n /\ n \in 1..n
  BY <1>4 DEF Holds
<1>7. PICK a \in Nat : a = H.at[n]
  BY <1>1, <1>4, <1>6, TapeEnds
<1>8. PICK g \in Nat : g = H.at[f] /\ g <= a
  BY <1>1, <1>4, <1>6, <1>7, TapeEnds
<1>9. /\ G.n = n + 1 /\ G.at[n + 1] = a + 1 + k /\ G.state[n + 1] = z2
      /\ \A d \in 1..n : G.at[d] = H.at[d] /\ G.state[d] = H.state[d]
      /\ \A u \in 1..a : G.unit[u] = H.unit[u]
      /\ G.unit[a + 1] = ch.h
      /\ \A j \in 1..k : G.unit[a + 1 + j] = Piece(ch.id, ch.from + j - 1)
  BY <1>2, <1>4, <1>5, <1>7 DEF Longer
<1>10. PICK l \in Nat : l = Len(Stream)
  BY StreamIs
<1>11. l = a - g /\ \A i \in 1..l : Stream[i] = H.unit[g + i]
  BY <1>4, <1>7, <1>8, <1>10 DEF Holds, Reads
<1>12. /\ Len(Stream') = l + 1 + k
       /\ \A i \in 1..l : Stream'[i] = Stream[i]
       /\ Stream'[l + 1] = ch.h
       /\ \A j \in 1..k : Stream'[l + 1 + j] = b[j]
  <2>1. /\ Len(Stream') = Len(Stream) + 1 + Len(b)
        /\ \A i \in 1..Len(Stream) : Stream'[i] = Stream[i]
        /\ Stream'[Len(Stream) + 1] = ch.h
        /\ \A j \in 1..Len(b) : Stream'[Len(Stream) + 1 + j] = b[j]
    BY <1>1, ClientSends, Zenon
  <2>2. Len(b) = k
    BY <1>1, <1>5
  <2> QED
    BY <1>10, <2>1, <2>2, Zenon
<1>13. \A i \in 1..l + 1 + k : Stream'[i] = G.unit[g + i]
  <2> TAKE i \in 1..l + 1 + k
  <2>1. CASE i \in 1..l
    <3>1. g + i \in 1..a
      BY <1>11, <2>1
    <3> QED
      BY <1>9, <1>11, <1>12, <2>1, <3>1
  <2>2. CASE i = l + 1
    <3>1. g + i = a + 1
      BY <1>11, <2>2
    <3> QED
      BY <1>9, <1>12, <2>2, <3>1
  <2>3. CASE i \in l + 2..l + 1 + k
    <3>1. PICK j \in 1..k : i = l + 1 + j
      <4>1. i - (l + 1) \in 1..k /\ i = l + 1 + (i - (l + 1))
        BY <2>3
      <4> QED
        BY <4>1
    <3>2. g + i = a + 1 + j
      BY <1>11, <3>1
    <3>3. Stream'[i] = b[j] /\ G.unit[g + i] = Piece(ch.id, ch.from + j - 1)
      BY <1>9, <1>12, <3>1, <3>2
    <3> QED
      BY <1>1, <1>5, <3>3
  <2> QED
    BY <2>1, <2>2, <2>3
<1>14. G.at[f] = g /\ G.at[c] = H.at[c] /\ G.state[c] = H.state[c] /\ G.state[f] = H.state[f]
  BY <1>6, <1>8, <1>9
<1>15. Reads(G, G.at[f])'
  <2>1. l + 1 + k = (a + 1 + k) - g
    BY <1>11
  <2> QED
    BY <1>9, <1>12, <1>13, <1>14, <2>1 DEF Reads
<1>16. f \in 1..G.n /\ c \in 1..G.n
  BY <1>6, <1>9
<1>17. UNCHANGED <<pc, stack, ctx, msgs, savedCtx, savedMsgs, chunkSize, delivered, taken>>
       /\ pc = "recv" /\ z2 = Sender'
  BY DEF ClientStep, Sends
<1>18. Where' /\ (pc \in {"parse", "return"} => Undone(G.state[f]))'
  BY <1>17 DEF Holds, Where
<1>19. Match(G.state[c], stack, msgs, ctx, delivered, chunkSize)'
  BY <1>14, <1>17 DEF Holds
<1>20. (Len(taken) = G.at[c] - G.at[f])'
  BY <1>8, <1>14, <1>17 DEF Holds
<1>21. (G.state[G.n] = Sender)'
  BY <1>9, <1>17
<1>22. Holds(G, f, c)'
  BY <1>3, <1>15, <1>16, <1>18, <1>19, <1>20, <1>21 DEF Holds
<1> QED
  BY <1>22

\* A turn that is undone goes back to where it began.
LEMMA NotEnoughHolds ==
    ASSUME Types, NEW H, NEW f, NEW c, Holds(H, f, c), pc = "parse", NotEnough
    PROVE  Holds(H, f, f)'
<1>1. /\ pc' = "recv" /\ stack' = <<>> /\ ctx' = savedCtx /\ msgs' = savedMsgs
      /\ UNCHANGED <<left, lastSent, outSize, begun, sent, chunkSize, delivered>>
  BY DEF NotEnough, restoreContext, client
<1>2. savedMsgs = <<>> /\ Match(H.state[f], <<>>, <<>>, savedCtx, delivered, chunkSize)
  BY DEF Holds, Undone
<1>3. Stream' = Stream /\ taken' = <<>>
  BY UndoKeeps
<1>4. Match(H.state[f], stack, msgs, ctx, delivered, chunkSize)'
  BY <1>1, <1>2
<1>5. (H.state[H.n] = Sender)'
  BY <1>1 DEF Holds, Sender
<1>6. Reads(H, H.at[f])'
  BY <1>3 DEF Holds, Reads
<1>7. (Len(taken) = H.at[f] - H.at[f])'
  <2>1. H.at[f] \in Nat
    BY TapeEnds DEF Holds
  <2> QED
    BY <1>3, <2>1
<1>8. Where'
  BY <1>1 DEF Where
<1>9. ~(pc' \in {"parse", "return"})
  BY <1>1
<1> QED
  BY <1>4, <1>5, <1>6, <1>7, <1>8, <1>9 DEF Holds

\* recv(), the end of the loop and noise.
LEMMA SameHolds ==
    ASSUME NEW H, NEW f, NEW c, Holds(H, f, c), Stream' = Stream,
           UNCHANGED <<left, lastSent, outSize, begun, sent, taken, stack, ctx, msgs, savedCtx,
                       savedMsgs, chunkSize, delivered>>,
           pc' = pc \/ (pc \in {"recv", "turn"} /\ pc' \in {"recv", "turn"})
    PROVE  Holds(H, f, c)'
<1>1. Reads(H, H.at[f])'
  BY DEF Holds, Reads
<1>2. (H.state[H.n] = Sender)'
  BY DEF Holds, Sender
<1>3. Where'
  BY DEF Holds, Where
<1>4. (pc \in {"parse", "return"} => Undone(H.state[f]))'
  BY DEF Holds, Undone
<1>5. Match(H.state[c], stack, msgs, ctx, delivered, chunkSize)'
  BY DEF Holds
<1> QED
  BY <1>1, <1>2, <1>3, <1>4, <1>5 DEF Holds

LEMMA StartHolds ==
    ASSUME Types, NEW H, NEW f, NEW c, Holds(H, f, c), startTurn
    PROVE  Holds(H, c, c)'
<1>1. /\ pc = "turn" /\ pc' = "parse" /\ taken' = <<>> /\ msgs = <<>>
      /\ savedCtx' = ctx /\ savedMsgs' = msgs
      /\ UNCHANGED <<left, lastSent, outSize, begun, sent, wire, rb, stack, ctx, msgs, chunkSize,
                     delivered>>
  BY DEF startTurn, client
<1>2. stack = <<>>
  <2>1. Len(stack) = 0
    BY <1>1 DEF Holds, Where
  <2> QED
    BY <2>1 DEF Types
<1>3. /\ Stream' \in Seq(AllUnits) /\ Len(Stream) = Len(taken) + Len(Stream')
      /\ \A i \in 1..Len(Stream') : Stream'[i] = Stream[Len(taken) + i]
  BY <1>1, TurnKeeps
<1>4. PICK n \in Nat \ {0} : n = H.n
  BY DEF Holds, IsTape
<1>5. H.at[c] \in Nat /\ H.at[f] \in Nat /\ H.at[n] \in Nat /\ H.at[f] <= H.at[n]
  BY <1>4, TapeEnds DEF Holds
<1>6. PICK a \in Nat : a = H.at[c]
  BY <1>5
<1>7. PICK g \in Nat : g = H.at[f]
  BY <1>5
<1>8. PICK e \in Nat : e = H.at[n]
  BY <1>5
<1>9. PICK t \in Nat : t = Len(taken)
  BY DEF Types
<1>10. PICK l \in Nat : l = Len(Stream')
  BY <1>3
<1>11. t = a - g /\ Len(Stream) = e - g /\ \A i \in 1..Len(Stream) : Stream[i] = H.unit[g + i]
  BY <1>4, <1>6, <1>7, <1>8, <1>9 DEF Holds, Reads
<1>12. t + l = e - g
  BY <1>3, <1>9, <1>10, <1>11
<1>13. l = e - a
  BY <1>11, <1>12
<1>14. \A i \in 1..l : Stream'[i] = H.unit[a + i]
  <2> TAKE i \in 1..l
  <2>1. t + i \in 1..e - g /\ g + (t + i) = a + i
    BY <1>11, <1>12
  <2>2. Stream'[i] = Stream[t + i]
    BY <1>3, <1>9, <1>10
  <2> QED
    BY <1>11, <2>1, <2>2
<1>15. Reads(H, H.at[c])'
  BY <1>4, <1>6, <1>8, <1>10, <1>13, <1>14 DEF Reads
<1>16. (Len(taken) = H.at[c] - H.at[c])'
  BY <1>1, <1>5
<1>17. (H.state[H.n] = Sender)'
  BY <1>1 DEF Holds, Sender
<1>18. Match(H.state[c], stack, msgs, ctx, delivered, chunkSize)'
  BY <1>1 DEF Holds
<1>19. Undone(H.state[c])'
  BY <1>1, <1>2 DEF Holds, Undone
<1>20. Where'
  <2>1. Len(stack') = 0 /\ Len(msgs') = 0
    BY <1>1, <1>2
  <2> QED
    BY <1>1, <2>1 DEF Where, Ready
<1> QED
  BY <1>15, <1>16, <1>17, <1>18, <1>19, <1>20 DEF Holds

\* A message that waits is delivered.
LEMMA FromBufferHolds ==
    ASSUME Types, NEW H, NEW f, NEW c, Holds(H, f, c), fromBuffer
    PROVE  Holds(H, f, c)'
<1>1. /\ pc = "turn" /\ msgs # <<>> /\ msgs' = Tail(msgs) /\ Deliver(Head(msgs))
      /\ UNCHANGED <<left, lastSent, outSize, begun, sent, wire, pc, rb, taken, stack, ctx>>
  BY DEF fromBuffer, client
<1>2. PICK m : m = msgs[1]
  OBVIOUS
<1>3. Rest(msgs, msgs') /\ Head(msgs) = m /\ m \in Results
  <2>1. msgs \in Seq(Results)
    BY DEF Types
  <2> QED
    BY <1>1, <1>2, <2>1, RestIs
<1>4. delivered' = Append(delivered, m) /\ chunkSize' = SizeAfter(m, chunkSize)
  BY <1>1, <1>3 DEF Deliver, SizeAfter, IsSet
<1>5. More(delivered, m, delivered')
  <2>1. delivered \in Seq(Results)
    BY DEF Types
  <2> QED
    BY <1>3, <1>4, <2>1, MoreIs
<1>6. Len(stack) = 0
  BY <1>1 DEF Holds, Where
<1>7. Match(H.state[c], stack, msgs', ctx, delivered', SizeAfter(m, chunkSize))
  <2>1. Match(H.state[c], stack, msgs, ctx, delivered, chunkSize)
    BY DEF Holds
  <2> QED
    BY <1>2, <1>3, <1>5, <1>6, <2>1, MatchWaiting
<1>8. Match(H.state[c], stack, msgs, ctx, delivered, chunkSize)'
  BY <1>1, <1>4, <1>7
<1>9. Reads(H, H.at[f])'
  BY <1>1 DEF Holds, Reads, Stream
<1>10. (H.state[H.n] = Sender)'
  BY <1>1 DEF Holds, Sender
<1>11. Where'
  BY <1>1, <1>6 DEF Where
<1> QED
  BY <1>1, <1>8, <1>9, <1>10, <1>11 DEF Holds

LEMMA OuterHolds ==
    ASSUME Types, NEW H, NEW f, NEW c, Holds(H, f, c), returnOuter
    PROVE  Holds(H, f, c)'
<1>1. /\ pc = "return" /\ Len(stack) = 1 /\ Deliver(Parsed(stack[1])) /\ stack' = <<>>
      /\ pc' = "turn"
      /\ UNCHANGED <<left, lastSent, outSize, begun, sent, wire, rb, taken, ctx, msgs, savedCtx,
                     savedMsgs>>
  BY DEF returnOuter, client, saved, top
<1>2. stack \in Seq(Calls) /\ stack[1] \in Calls
  BY <1>1 DEF Types
<1>3. ~Unfinished(stack[1])
  BY <1>1 DEF Holds, Where
<1>4. PICK m : m = Parsed(stack[1])
  OBVIOUS
<1>5. m \in Results
  BY <1>2, <1>4, ParsedIs
<1>6. delivered' = Append(delivered, m) /\ chunkSize' = SizeAfter(m, chunkSize)
  BY <1>1, <1>4 DEF Deliver, SizeAfter, IsSet
<1>7. More(delivered, m, delivered')
  <2>1. delivered \in Seq(Results)
    BY DEF Types
  <2> QED
    BY <1>5, <1>6, <2>1, MoreIs
<1>8. Len(stack') = 0
  BY <1>1
<1>9. Match(H.state[c], stack', msgs, ctx, delivered', SizeAfter(m, chunkSize))
  <2>1. Match(H.state[c], stack, msgs, ctx, delivered, chunkSize) /\ Fine(H.state[c])
    BY DEF Holds, IsTape
  <2>2. msgs \in Seq(Results)
    BY DEF Types
  <2> QED
    BY <1>1, <1>2, <1>3, <1>4, <1>7, <1>8, <2>1, <2>2, MatchOuter
<1>10. Match(H.state[c], stack, msgs, ctx, delivered, chunkSize)'
  BY <1>1, <1>6, <1>9
<1>11. Reads(H, H.at[f])'
  BY <1>1 DEF Holds, Reads, Stream
<1>12. (H.state[H.n] = Sender)'
  BY <1>1 DEF Holds, Sender
<1>13. Where'
  BY <1>1, <1>8 DEF Where
<1> QED
  BY <1>1, <1>10, <1>11, <1>12, <1>13 DEF Holds

\* What NextPc() says of the calls.
LEMMA WhereNext ==
    ASSUME NEW st, st \in Seq(Calls), Len(st) # 0, NEW p, p = NextPc(st), NEW ms
    PROVE  /\ p \in {"parse", "return"}
           /\ p = "return" => ~Unfinished(st[Len(st)])
           /\ p = "parse" => Ready(st, ms)
<1>1. st[Len(st)] \in Calls
  OBVIOUS
<1>2. Unparsed(st[Len(st)]) \in Nat
  BY <1>1, CallIs
<1> QED
  BY <1>2 DEF NextPc, Unfinished, Ready

LEMMA InnerHolds ==
    ASSUME Types, NEW H, NEW f, NEW c, Holds(H, f, c), returnInner
    PROVE  Holds(H, f, c)'
<1>1. PICK n : n = Len(stack)
  OBVIOUS
<1>2. /\ n \in Nat /\ n > 1 /\ stack[n] \in Calls /\ stack[n - 1] \in Calls
      /\ \E m, g :
            /\ m = Parsed(stack[n])
            /\ g = [stack[n - 1] EXCEPT !.chunk = CallerChunk(stack[n - 1], m)]
            /\ g \in Calls
            /\ g.cs = stack[n - 1].cs /\ g.kind = stack[n - 1].kind /\ g.len = stack[n - 1].len
            /\ g.body = stack[n - 1].body /\ g.chunk = CallerChunk(stack[n - 1], m)
            /\ m \in Results /\ msgs' = Append(msgs, m)
            /\ stack' \in Seq(Calls) /\ Len(stack') = n - 1
            /\ stack'[n - 1] = g
            /\ \A i \in 1..n - 2 : stack'[i] = stack[i]
      /\ pc' = NextPc(stack')
      /\ UNCHANGED <<left, lastSent, outSize, begun, sent, wire, rb, taken, ctx, savedCtx,
                     savedMsgs, chunkSize, delivered>>
  BY <1>1, ReturnInnerIs, Zenon
<1>3. PICK m, g :
         /\ m = Parsed(stack[n])
         /\ g = [stack[n - 1] EXCEPT !.chunk = CallerChunk(stack[n - 1], m)]
         /\ g \in Calls
         /\ g.cs = stack[n - 1].cs /\ g.kind = stack[n - 1].kind /\ g.len = stack[n - 1].len
         /\ g.body = stack[n - 1].body /\ g.chunk = CallerChunk(stack[n - 1], m)
         /\ m \in Results /\ msgs' = Append(msgs, m)
         /\ stack' \in Seq(Calls) /\ Len(stack') = n - 1
         /\ stack'[n - 1] = g
         /\ \A i \in 1..n - 2 : stack'[i] = stack[i]
  BY <1>2, Zenon
<1>4. pc = "return"
  BY DEF returnInner
<1>5. Popped(stack, CallerChunk(stack[n - 1], m), stack')
  <2>1. \A i \in 1..n - 1 : /\ stack'[i].cs = stack[i].cs /\ stack'[i].kind = stack[i].kind
                            /\ stack'[i].len = stack[i].len /\ stack'[i].body = stack[i].body
                            /\ i < n - 1 => stack'[i].chunk = stack[i].chunk
    <3> TAKE i \in 1..n - 1
    <3>1. CASE i = n - 1
      <4>1. ~(i < n - 1)
        BY <1>2, <3>1
      <4>2. stack'[i] = g /\ stack[i] = stack[n - 1]
        BY <1>3, <3>1
      <4> QED
        BY <1>3, <4>1, <4>2
    <3>2. CASE i # n - 1
      <4>1. i \in 1..n - 2
        BY <1>2, <3>2
      <4>2. stack'[i] = stack[i]
        BY <1>3, <4>1
      <4> QED
        BY <4>2
    <3> QED
      BY <3>1, <3>2
  <2>2. stack'[n - 1].chunk = CallerChunk(stack[n - 1], m)
    BY <1>3
  <2>3. stack \in Seq(Calls) /\ n >= 2
    BY <1>2 DEF Types
  <2> QED
    BY <1>1, <1>2, <1>3, <2>1, <2>2, <2>3 DEF Popped
<1>6. More(msgs, m, msgs')
  <2>1. msgs \in Seq(Results)
    BY DEF Types
  <2> QED
    BY <1>3, <2>1, MoreIs
<1>7. ~Unfinished(stack[Len(stack)])
  BY <1>4 DEF Holds, Where
<1>8. Match(H.state[c], stack', msgs', ctx, delivered, chunkSize)
  <2>1. Match(H.state[c], stack, msgs, ctx, delivered, chunkSize) /\ Fine(H.state[c])
    BY DEF Holds, IsTape
  <2>2. delivered \in Seq(Results)
    BY DEF Types
  <2>3. m = Parsed(stack[Len(stack)])
    BY <1>1, <1>3
  <2>4. Popped(stack, CallerChunk(stack[Len(stack) - 1], m), stack')
    BY <1>1, <1>5
  <2> QED
    BY <1>6, <1>7, <2>1, <2>2, <2>3, <2>4, MatchInner
<1>9. Match(H.state[c], stack, msgs, ctx, delivered, chunkSize)'
  BY <1>2, <1>8
<1>10. Reads(H, H.at[f])'
  BY <1>2 DEF Holds, Reads, Stream
<1>11. (H.state[H.n] = Sender)'
  BY <1>2 DEF Holds, Sender
<1>12. Len(stack') # 0 /\ stack' \in Seq(Calls)
  BY <1>2, <1>3
<1>13. /\ pc' \in {"parse", "return"}
       /\ pc' = "return" => ~Unfinished(stack'[Len(stack')])
       /\ pc' = "parse" => Ready(stack', msgs')
  BY <1>2, <1>12, WhereNext
<1>14. Where'
  BY <1>12, <1>13 DEF Where
<1>15. Undone(H.state[f])'
  <2>1. Undone(H.state[f])
    BY <1>4 DEF Holds
  <2> QED
    BY <1>2, <2>1 DEF Undone
<1>16. (Len(taken) = H.at[c] - H.at[f])'
  BY <1>2 DEF Holds
<1> QED
  BY <1>9, <1>10, <1>11, <1>14, <1>15, <1>16 DEF Holds

-----------------------------------------------------------------------------
(* The parser takes each chunk for what it is.                             *)

LEMMA AtChunk ==
    ASSUME Types, NEW H, NEW f, NEW c, Holds(H, f, c), rb # <<>>
    PROVE  /\ c < H.n /\ ChunkAt(H, c) /\ c + 1 \in 1..H.n /\ c \in 1..H.n
           /\ Head(rb) = H.chunk[c].h /\ Head(rb) \in Headers
<1>1. c \in 1..H.n /\ f \in 1..H.n /\ IsTape(H) /\ Len(taken) = H.at[c] - H.at[f] /\ Reads(H, H.at[f])
  BY DEF Holds
<1>2. PICK a \in Nat : a = H.at[c]
  BY <1>1, TapeEnds
<1>3. PICK g \in Nat : g = H.at[f]
  BY <1>1, TapeEnds
<1>4. PICK t \in Nat : t = Len(taken)
  BY DEF Types
<1>5. Len(rb) \in Nat /\ Len(rb) >= 1 /\ Head(rb) = rb[1]
  BY DEF Types
<1>6. /\ Len(wire) \in Nat /\ Len(Stream) = t + Len(rb) + Len(wire)
      /\ Stream[t + 1] = rb[1]
  BY <1>4, <1>5, StreamIs
<1>7. t + 1 \in 1..Len(Stream) /\ Len(Stream) >= t + 1
  BY <1>4, <1>5, <1>6
<1>8. c # H.n
  <2> SUFFICES ASSUME c = H.n PROVE FALSE
    OBVIOUS
  <2>1. Len(Stream) = a - g /\ t = a - g
    BY <1>1, <1>2, <1>3, <1>4 DEF Reads
  <2> QED
    BY <1>2, <1>3, <1>4, <1>7, <2>1
<1>9. c < H.n /\ ChunkAt(H, c) /\ c + 1 \in 1..H.n
  BY <1>1, <1>8, TapeEnds
<1>10. Stream[t + 1] = H.unit[g + (t + 1)]
  BY <1>1, <1>3, <1>7 DEF Reads
<1>11. g + (t + 1) = a + 1
  <2>1. t = a - g
    BY <1>1, <1>2, <1>3, <1>4
  <2> QED
    BY <1>2, <1>3, <1>4, <2>1
<1>12. H.unit[a + 1] = H.chunk[c].h /\ H.chunk[c].h \in Headers
  BY <1>2, <1>9 DEF ChunkAt, Chunks
<1> QED
  BY <1>1, <1>5, <1>6, <1>9, <1>10, <1>11, <1>12

\* What it reads after the header are the chunk's pieces.
LEMMA BodyOfChunk ==
    ASSUME Types, NEW H, NEW f, NEW c, Holds(H, f, c), c \in 1..H.n, ChunkAt(H, c),
           NEW n, n = H.chunk[c].n, n < Len(rb), NEW b, b = Body(n)
    PROVE  ArePieces(b, H.chunk[c].id, H.chunk[c].from, n) /\ b \in Seq(AllUnits) /\ Len(b) = n
<1>1. PICK a \in Nat : a = H.at[c]
  BY TapeEnds DEF Holds
<1>2. PICK g \in Nat : g = H.at[f]
  BY TapeEnds DEF Holds
<1>3. PICK t \in Nat : t = Len(taken)
  BY DEF Types
<1>4. n \in Nat /\ H.chunk[c].id \in Nat /\ H.chunk[c].from \in Nat \ {0}
  BY DEF ChunkAt, Chunks
<1>5. PICK from \in Nat \ {0} : from = H.chunk[c].from
  BY <1>4
<1>6. PICK id \in Nat : id = H.chunk[c].id
  BY <1>4
<1>7. /\ b \in Seq(AllUnits) /\ Len(b) = n
      /\ \A i \in 1..n : b[i] = Stream[t + (1 + i)]
  BY <1>3, <1>4, BodyIs
<1>8. \A i \in 1..n : b[i] = Piece(id, from + i - 1)
  <2> TAKE i \in 1..n
  <2>1. Len(rb) \in Nat /\ Len(wire) \in Nat /\ Len(Stream) = t + Len(rb) + Len(wire)
    BY <1>3, StreamIs
  <2>2. t + (1 + i) \in 1..Len(Stream)
    BY <1>3, <1>4, <2>1
  <2>3. Stream[t + (1 + i)] = H.unit[g + (t + (1 + i))]
    BY <1>2, <2>2 DEF Holds, Reads
  <2>4. t = a - g
    BY <1>1, <1>2, <1>3 DEF Holds
  <2>5. g + (t + (1 + i)) = a + 1 + i
    BY <2>4
  <2>6. H.unit[a + 1 + i] = Piece(id, from + i - 1)
    BY <1>1, <1>5, <1>6 DEF ChunkAt
  <2> QED
    BY <1>7, <2>3, <2>5, <2>6
<1>9. b \in Seq(BodyUnits)
  <2>1. \A i \in 1..n : b[i] \in BodyUnits
    <3> TAKE i \in 1..n
    <3>1. from + i - 1 \in Nat
      BY <1>4
    <3>2. Piece(id, from + i - 1) \in BodyUnits
      BY <3>1 DEF Piece, BodyUnits
    <3> QED
      BY <1>8, <3>2
  <2>2. PICK e : e = [i \in 1..n |-> b[i]]
    OBVIOUS
  <2>3. e \in Seq(BodyUnits)
    BY <1>4, <2>1, <2>2
  <2>4. e \in Seq(AllUnits) /\ Len(e) = n /\ \A i \in 1..n : e[i] = b[i]
    BY <1>4, <2>1, <2>2 DEF AllUnits
  <2>5. e = b
    BY <1>7, <2>4, SeqEqual
  <2> QED
    BY <2>3, <2>5
<1> QED
  BY <1>5, <1>6, <1>7, <1>8, <1>9 DEF ArePieces

\* The stream stays where it is, and the place in it moves on.
LEMMA ReadOn ==
    ASSUME Types, NEW H, NEW f, NEW c, Holds(H, f, c), c \in 1..H.n, ChunkAt(H, c),
           NEW n, n = H.chunk[c].n, n < Len(rb), Read(1 + n), wire' = wire
    PROVE  Reads(H, H.at[f])' /\ (Len(taken) = H.at[c + 1] - H.at[f])'
<1>1. n \in Nat
  BY DEF ChunkAt, Chunks
<1>2. Stream' = Stream /\ Len(taken') = Len(taken) + (1 + n)
  BY <1>1, ReadTypes
<1>3. Reads(H, H.at[f])'
  BY <1>2 DEF Holds, Reads
<1>4. H.at[c] \in Nat /\ H.at[f] \in Nat
  BY TapeEnds DEF Holds
<1>5. H.at[c + 1] = H.at[c] + 1 + n
  BY DEF ChunkAt
<1>6. Len(taken) = H.at[c] - H.at[f]
  BY DEF Holds
<1>7. Len(taken') = H.at[c + 1] - H.at[f]
  <2>1. PICK a \in Nat : a = H.at[c]
    BY <1>4
  <2>2. PICK g \in Nat : g = H.at[f]
    BY <1>4
  <2>3. PICK k \in Nat : k = n
    BY <1>1
  <2>4. (a - g) + (1 + k) = (a + 1 + k) - g
    OBVIOUS
  <2> QED
    BY <1>2, <1>5, <1>6, <2>1, <2>2, <2>3, <2>4
<1> QED
  BY <1>3, <1>7

LEMMA IsContinued ==
    ASSUME Types, pc = "parse", rb # <<>>, NEW z, CallsMatch(z, stack),
           NEW ch, Head(rb) = ch.h, NEW z2, NEW cs, ContinueMove(z, ch, z2, cs)
    PROVE  Continues
<1>1. Head(rb).u = "type3" /\ Head(rb).cs = cs /\ cs \in Streams /\ z.left[cs] > 0
  BY DEF ContinueMove, Type3
<1>2. PICK i \in 1..Len(stack) : stack[i].cs = cs /\ Unparsed(stack[i]) > 0
  BY <1>1 DEF CallsMatch, InProgress, Unfinished
<1>3. i \in Parsing(cs)
  BY <1>2 DEF Parsing, Types
<1> QED
  BY <1>1, <1>3 DEF Continues, ChunkHeader

LEMMA IsBegun ==
    ASSUME Types, NEW z, Fine(z), CallsMatch(z, stack), NEW ch, Head(rb) = ch.h, NEW z2, NEW cs,
           NEW len, BeginMove(z, ch, z2, cs, len)
    PROVE  ~Continues
<1>1. Head(rb).cs = cs /\ z.left[cs] = 0
  BY DEF BeginMove, Type3, Full
<1>2. Parsing(cs) = {}
  <2> SUFFICES ASSUME NEW i \in Parsing(cs) PROVE FALSE
    OBVIOUS
  <2>1. i \in 1..Len(stack) /\ stack[i].cs = cs /\ Unfinished(stack[i]) /\ stack[i] \in Calls
    BY DEF Parsing, Types, Unfinished
  <2>2. CallOf(stack[i], z)
    BY <2>1 DEF CallsMatch
  <2>3. z.left[cs] > 0
    BY <2>1, <2>2, CallFacts
  <2> QED
    BY <1>1, <2>3
<1> QED
  BY <1>1, <1>2 DEF Continues

LEMMA IsSize ==
    ASSUME NEW z, NEW ch, Head(rb) = ch.h, NEW z2, NEW size, SizeMove(z, ch, z2, size)
    PROVE  ~Continues
<1>1. Head(rb).u = "full"
  BY UnitIs DEF SizeMove
<1> QED
  BY <1>1 DEF Continues

-----------------------------------------------------------------------------
(* One chunk is read.                                                      *)

\* What the invariant says after a chunk, when the calls and the headers
\* match what the client was after it.
LEMMA ChunkHolds ==
    ASSUME Types, NEW H, NEW f, NEW c, Holds(H, f, c), pc = "parse", c + 1 \in 1..H.n,
           Reads(H, H.at[f])', (Len(taken) = H.at[c + 1] - H.at[f])',
           stack' \in Seq(Calls), Len(stack') # 0, pc' = NextPc(stack'),
           Match(H.state[c + 1], stack', msgs, ctx', delivered, chunkSize),
           UNCHANGED <<client, wire, msgs, saved, chunkSize, delivered>>
    PROVE  Holds(H, f, c + 1)'
<1>1. UNCHANGED <<left, lastSent, outSize, begun, sent, msgs, savedCtx, savedMsgs, chunkSize,
                  delivered>>
  BY DEF client, saved
<1>2. /\ pc' \in {"parse", "return"}
      /\ pc' = "return" => ~Unfinished(stack'[Len(stack')])
      /\ pc' = "parse" => Ready(stack', msgs')
  BY WhereNext
<1>3. Where'
  BY <1>2 DEF Where
<1>4. Undone(H.state[f])'
  BY <1>1 DEF Holds, Undone
<1>5. (H.state[H.n] = Sender)'
  BY <1>1 DEF Holds, Sender
<1>6. Match(H.state[c + 1], stack, msgs, ctx, delivered, chunkSize)'
  BY <1>1
<1> QED
  BY <1>3, <1>4, <1>5, <1>6 DEF Holds

LEMMA ContinueHolds ==
    ASSUME Types, NEW H, NEW f, NEW c, Holds(H, f, c), continueMsg
    PROVE  \E d : Holds(H, f, d)'
<1>1. pc = "parse" /\ rb # <<>> /\ Continues
  BY DEF continueMsg, Continues, ChunkHeader
<1>2. /\ c < H.n /\ ChunkAt(H, c) /\ c + 1 \in 1..H.n /\ c \in 1..H.n
      /\ Head(rb) = H.chunk[c].h /\ Head(rb) \in Headers
  BY <1>1, AtChunk
<1>3. PICK z : z = H.state[c]
  OBVIOUS
<1>4. PICK z2 : z2 = H.state[c + 1]
  OBVIOUS
<1>5. PICK ch : ch = H.chunk[c]
  OBVIOUS
<1>6. /\ Fine(z) /\ Fine(z2) /\ z2 \in States /\ z \in States /\ ch \in Chunks /\ Moves(z, ch, z2)
      /\ Head(rb) = ch.h
  BY <1>2, <1>3, <1>4, <1>5 DEF Holds, IsTape, ChunkAt, Fine
<1>7. /\ Match(z, stack, msgs, ctx, delivered, chunkSize) /\ CallsMatch(z, stack)
      /\ SizesMatch(z, stack, msgs, chunkSize) /\ Ready(stack, msgs)
  BY <1>1, <1>3 DEF Holds, Match, Where
<1>8. PICK cs \in Streams : ContinueMove(z, ch, z2, cs)
  BY <1>1, <1>6, <1>7, IsBegun, IsSize DEF Moves
<1>9. PICK i : i = Continued(Head(rb).cs)
  OBVIOUS
<1>10. PICK n : n = Part(stack[top].chunk, Unparsed(stack[i]))
  OBVIOUS
<1>11. /\ i \in 1..Len(stack) /\ stack[i] \in Calls /\ stack[i].cs = Head(rb).cs
       /\ Unparsed(stack[i]) > 0 /\ n \in Nat \ {0} /\ n <= Unparsed(stack[i])
       /\ top \in 1..Len(stack) /\ stack[top] \in Calls
       /\ Len(rb) <= n => NotEnough
       /\ Len(rb) > n =>
             /\ Read(1 + n)
             /\ stack' = [stack EXCEPT ![i] = [stack[i] EXCEPT !.body = @ \o Body(n)]]
             /\ pc' = NextPc(stack')
             /\ UNCHANGED <<client, wire, ctx, msgs, saved, chunkSize, delivered>>
  BY <1>9, <1>10, ContinueMsgIs
<1>12. Head(rb).cs = cs /\ Unfinished(stack[i])
  BY <1>6, <1>8, <1>11 DEF ContinueMove, Type3, Unfinished
<1>13. n = ch.n
  <2>1. CallOf(stack[i], z)
    BY <1>7, <1>11 DEF CallsMatch
  <2>2. z.left[cs] = Unparsed(stack[i])
    BY <1>6, <1>11, <1>12, <2>1, CallFacts
  <2>3. SizeForChunk(stack, chunkSize) = z.outSize /\ stack \in Seq(Calls)
    BY <1>6, <1>7, SizesReady DEF Types
  <2>4. stack[top].chunk = z.outSize
    <3>1. Len(stack) # 0
      BY <1>11
    <3> QED
      BY <2>3, <3>1 DEF SizeForChunk, top
  <2>5. n = Least(z.outSize, z.left[cs])
    BY <1>10, <2>2, <2>4 DEF Part
  <2> QED
    BY <1>8, <2>5 DEF ContinueMove
<1>14. CASE Len(rb) <= n
  BY <1>1, <1>11, <1>14, NotEnoughHolds
<1>15. CASE Len(rb) > n
  <2>1. n < Len(rb) /\ n = H.chunk[c].n /\ Len(stack) \in Nat /\ stack \in Seq(Calls) /\ Len(rb) \in Nat
    BY <1>5, <1>11, <1>13, <1>15 DEF Types
  <2>2. PICK b : b = Body(n)
    OBVIOUS
  <2>3. ArePieces(b, ch.id, ch.from, n) /\ b \in Seq(AllUnits) /\ Len(b) = n
    BY <1>2, <1>5, <2>1, <2>2, BodyOfChunk
  <2>4. Reads(H, H.at[f])' /\ (Len(taken) = H.at[c + 1] - H.at[f])'
    <3>1. Read(1 + n) /\ wire' = wire
      BY <1>11, <1>15
    <3> QED
      BY <1>2, <2>1, <3>1, ReadOn
  <2>5. PICK g : g = [stack[i] EXCEPT !.body = @ \o b]
    OBVIOUS
  <2>6. /\ g \in Calls
        /\ g.cs = stack[i].cs /\ g.kind = stack[i].kind /\ g.len = stack[i].len
        /\ g.chunk = stack[i].chunk
        /\ g.body = stack[i].body \o b /\ Len(g.body) = Len(stack[i].body) + Len(b)
    <3>1. PICK e : e = stack[i]
      OBVIOUS
    <3>2. e \in Calls /\ Len(b) <= Unparsed(e) /\ Unparsed(e) > 0 /\ b \in Seq(AllUnits)
      BY <1>11, <2>3, <3>1
    <3>3. g = Extended(e, b)
      BY <2>5, <3>1 DEF Extended
    <3>4. /\ g \in Calls
          /\ g.cs = e.cs /\ g.kind = e.kind /\ g.len = e.len /\ g.chunk = e.chunk
          /\ g.body = e.body \o b /\ Len(g.body) = Len(e.body) + Len(b)
      BY <3>2, <3>3, ExtendIs
    <3> QED
      BY <3>1, <3>4
  <2>7. stack' = [stack EXCEPT ![i] = g]
    BY <1>11, <1>15, <2>2, <2>5, Zenon
  <2>8. Changed(stack, i, g, stack')
    BY <1>11, <2>1, <2>6, <2>7 DEF Changed
  <2>9. Grows(stack[i], g, ch)
    <3>1. PICK old : old = stack[i].body
      OBVIOUS
    <3>2. old \in Seq(AllUnits) /\ Len(old) \in Nat
      BY <1>11, <3>1, CallIs
    <3>3. \A k \in 1..Len(old) + Len(b) :
             (old \o b)[k] = IF k <= Len(old) THEN old[k] ELSE b[k - Len(old)]
      BY <2>3, <3>2, ConcatProperties, Zenon
    <3>4. \A k \in 1..Len(old) : g.body[k] = old[k]
      <4> TAKE k \in 1..Len(old)
      <4>1. k \in 1..Len(old) + Len(b) /\ k <= Len(old)
        BY <1>11, <2>3, <3>2
      <4> QED
        BY <2>6, <3>1, <3>3, <4>1
    <3>5. \A k \in 1..n : g.body[Len(old) + k] = Piece(ch.id, ch.from + k - 1)
      <4> TAKE k \in 1..n
      <4>1. PICK l \in Nat : l = Len(old)
        BY <3>2
      <4>2. l + k \in 1..l + n /\ ~(l + k <= l) /\ (l + k) - l = k
        BY <1>11
      <4>3. (old \o b)[l + k] = b[k]
        BY <2>3, <3>3, <4>1, <4>2
      <4>4. b[k] = Piece(ch.id, ch.from + k - 1)
        BY <2>3 DEF ArePieces
      <4> QED
        BY <2>6, <3>1, <4>1, <4>3, <4>4
    <3> QED
      BY <1>11, <1>13, <2>3, <2>6, <3>1, <3>4, <3>5 DEF Grows
  <2>10. Match(z2, stack', msgs, ctx, delivered, chunkSize)
    BY <1>6, <1>7, <1>8, <1>11, <1>12, <2>8, <2>9, MatchContinue
  <2>11. /\ stack' \in Seq(Calls) /\ Len(stack') # 0
         /\ pc' = NextPc(stack') /\ ctx' = ctx
         /\ UNCHANGED <<client, wire, msgs, saved, chunkSize, delivered>>
    <3>1. Len(stack') = Len(stack) /\ stack' \in Seq(Calls) /\ Len(stack) # 0
      BY <1>11, <2>8 DEF Changed
    <3> QED
      BY <1>11, <1>15, <3>1
  <2>12. Match(H.state[c + 1], stack', msgs, ctx', delivered, chunkSize)
    BY <1>4, <2>10, <2>11
  <2>13. Holds(H, f, c + 1)'
    BY <1>1, <1>2, <2>4, <2>11, <2>12, ChunkHolds
  <2> QED
    BY <2>13
<1> QED
  <2>1. Len(rb) \in Nat /\ n \in Nat
    BY <1>11 DEF Types
  <2> QED
    BY <1>14, <1>15, <2>1

\* The header that the parser makes of a chunk that begins a message.
LEMMA HeaderBegin ==
    ASSUME Types, NEW z, Fine(z), Remembers(z, ctx), NEW ch, NEW z2, NEW cs, NEW len,
           BeginMove(z, ch, z2, cs, len), NEW hd, hd = HeaderOf(ch.h)
    PROVE  ch.h.cs = cs /\ hd = [kind |-> "media", len |-> len] /\ Remembered(ch.h)
<1>1. cs \in Streams /\ len \in Lengths /\ len # 0
  BY SizesArePositive DEF BeginMove
<1>2. CASE ch.h = Full(cs, "media", len)
  <2>1. ch.h.u = "full" /\ ch.h.cs = cs /\ ch.h.kind = "media" /\ ch.h.len = len
    BY <1>2 DEF Full
  <2> QED
    BY <2>1 DEF HeaderOf, Remembered
<1>3. CASE ch.h = Type3(cs) /\ z.lastSent[cs].len = len
  <2>1. ch.h.u = "type3" /\ ch.h.cs = cs
    BY <1>3 DEF Type3
  <2>2. z.lastSent[cs].id # 0
    BY <1>1, <1>3 DEF Fine, LastFine
  <2>3. ctx[cs] = [kind |-> "media", len |-> z.lastSent[cs].len]
    BY <1>1, <2>2 DEF Remembers
  <2> QED
    BY <1>3, <2>1, <2>3 DEF HeaderOf, Remembered
<1> QED
  BY <1>2, <1>3 DEF BeginMove

LEMMA HeaderSize ==
    ASSUME NEW z, NEW ch, NEW z2, NEW size, SizeMove(z, ch, z2, size), NEW hd, hd = HeaderOf(ch.h)
    PROVE  /\ ch.h.cs = Control /\ hd.kind = "SetChunkSize" /\ hd.len = 1 /\ ~Remembered(ch.h)
           /\ ch.h = SizeHeader
<1>1. ch.h = SizeHeader
  BY DEF SizeMove
<1>2. hd = [kind |-> "SetChunkSize", len |-> 1]
  BY <1>1, UnitIs DEF HeaderOf
<1> QED
  BY <1>1, <1>2, UnitIs DEF Remembered

\* The call that begins with it.
CallWith(cs, kind, len, b, size) ==
    [cs |-> cs, kind |-> kind, len |-> len, body |-> b, chunk |-> size]

LEMMA NewCall ==
    ASSUME NEW cs, cs \in AnyStream, NEW kind, kind \in AnyKind, NEW len, len \in Nat,
           NEW b, b \in Seq(AllUnits), Len(b) <= len, NEW size, size \in ChunkSizes,
           kind = "SetChunkSize" => len = 1 /\ Len(b) = 1 /\ b[1].k \in NewChunks,
           NEW f, f = CallWith(cs, kind, len, b, size)
    PROVE  /\ f \in Calls
           /\ f.cs = cs /\ f.kind = kind /\ f.len = len /\ f.body = b /\ f.chunk = size
<1>1. /\ f \in [cs : AnyStream, kind : AnyKind, len : Nat, body : Seq(AllUnits), chunk : ChunkSizes]
      /\ f.cs = cs /\ f.kind = kind /\ f.len = len /\ f.body = b /\ f.chunk = size
  BY DEF CallWith
<1> QED
  BY <1>1 DEF Calls, HasSize, IsSet

LEMMA NewSizeCall ==
    ASSUME NEW b, b \in Seq(AllUnits), Len(b) = 1, b[1].k \in NewChunks,
           NEW size, size \in ChunkSizes,
           NEW f, f = CallWith(Control, "SetChunkSize", 1, b, size)
    PROVE  /\ f \in Calls
           /\ f.cs = Control /\ f.kind = "SetChunkSize" /\ f.len = 1 /\ f.body = b
<1>1. Control \in AnyStream /\ "SetChunkSize" \in AnyKind
  BY DEF AnyStream, AnyKind
<1>2. /\ f \in [cs : AnyStream, kind : AnyKind, len : Nat, body : Seq(AllUnits), chunk : ChunkSizes]
      /\ f.cs = Control /\ f.kind = "SetChunkSize" /\ f.len = 1 /\ f.body = b
  BY <1>1 DEF CallWith
<1>3. HasSize(f)
  BY <1>2 DEF HasSize
<1>4. Len(f.body) <= f.len
  <2>1. Len(f.body) = 1 /\ f.len = 1
    BY <1>2, Zenon
  <2>2. 1 <= 1
    OBVIOUS
  <2> QED
    BY <2>1, <2>2, Zenon
<1> QED
  BY <1>2, <1>3, <1>4 DEF Calls

LEMMA BeginHolds ==
    ASSUME Types, NEW H, NEW f, NEW c, Holds(H, f, c), beginMsg
    PROVE  \E d : Holds(H, f, d)'
<1>1. pc = "parse" /\ rb # <<>> /\ ~Continues
  BY DEF beginMsg, ChunkHeader
<1>2. /\ c < H.n /\ ChunkAt(H, c) /\ c + 1 \in 1..H.n /\ c \in 1..H.n
      /\ Head(rb) = H.chunk[c].h /\ Head(rb) \in Headers
  BY <1>1, AtChunk
<1>3. PICK z : z = H.state[c]
  OBVIOUS
<1>4. PICK z2 : z2 = H.state[c + 1]
  OBVIOUS
<1>5. PICK ch : ch = H.chunk[c]
  OBVIOUS
<1>6. /\ Fine(z) /\ Fine(z2) /\ z2 \in States /\ z \in States /\ ch \in Chunks /\ Moves(z, ch, z2)
      /\ Head(rb) = ch.h
  BY <1>2, <1>3, <1>4, <1>5 DEF Holds, IsTape, ChunkAt, Fine
<1>7. /\ Match(z, stack, msgs, ctx, delivered, chunkSize) /\ CallsMatch(z, stack)
      /\ SizesMatch(z, stack, msgs, chunkSize) /\ Ready(stack, msgs) /\ Remembers(z, ctx)
  BY <1>1, <1>3 DEF Holds, Match, Where
<1>8. \A cs \in Streams : ~ContinueMove(z, ch, z2, cs)
  BY <1>1, <1>6, <1>7, IsContinued
<1>9. PICK h : h = Head(rb)
  OBVIOUS
<1>10. PICK hd : hd = HeaderOf(h)
  OBVIOUS
<1>11. PICK size : size = ChunkSizeForCall
  OBVIOUS
<1>12. PICK n : n = Part(size, hd.len)
  OBVIOUS
<1>13. /\ h.cs \in AnyStream
       /\ hd.kind \in AnyKind /\ hd.len \in Nat
       /\ size \in ChunkSizes /\ n \in Nat /\ n <= hd.len /\ (hd.len # 0 => n # 0)
       /\ Len(rb) <= n => NotEnough
       /\ Len(rb) > n =>
             /\ Read(1 + n)
             /\ stack' = Append(stack, [cs |-> h.cs, kind |-> hd.kind, len |-> hd.len,
                                        body |-> Body(n), chunk |-> size])
             /\ pc' = NextPc(stack')
             /\ ctx' = IF Remembered(h) THEN [ctx EXCEPT ![h.cs] = hd] ELSE ctx
             /\ UNCHANGED <<client, wire, msgs, saved, chunkSize, delivered>>
  BY <1>9, <1>10, <1>11, <1>12, BeginMsgIs
<1>14. size = z.outSize /\ size = SizeForChunk(stack, chunkSize)
  <2>1. stack \in Seq(Calls) /\ (stack = <<>> <=> Len(stack) = 0)
    BY DEF Types
  <2>2. size = SizeForChunk(stack, chunkSize)
    BY <1>11, <2>1 DEF ChunkSizeForCall, SizeForChunk, top
  <2> QED
    BY <1>6, <1>7, <2>1, <2>2, SizesReady
<1>15. ch.h = h /\ hd = HeaderOf(ch.h)
  BY <1>6, <1>9, <1>10
<1>16. n = ch.n
  <2>1. ASSUME NEW cs \in Streams, NEW len \in Lengths, BeginMove(z, ch, z2, cs, len)
        PROVE  n = ch.n
    <3>1. hd = [kind |-> "media", len |-> len]
      BY <1>6, <1>7, <1>15, <2>1, HeaderBegin, Zenon
    <3>2. hd.len = len
      BY <3>1
    <3> QED
      BY <1>12, <1>14, <2>1, <3>2 DEF BeginMove, Part
  <2>2. ASSUME NEW s \in NewChunks, SizeMove(z, ch, z2, s)
        PROVE  n = ch.n
    <3>1. hd.len = 1 /\ ch.n = 1
      BY <1>15, <2>2, HeaderSize DEF SizeMove
    <3>2. n \in Nat /\ n <= 1 /\ n # 0
      BY <1>13, <3>1
    <3> QED
      BY <3>1, <3>2
  <2> QED
    BY <1>6, <1>8, <2>1, <2>2 DEF Moves
<1>17. CASE Len(rb) <= n
  BY <1>1, <1>13, <1>17, NotEnoughHolds
<1>18. CASE Len(rb) > n
  <2>1. n < Len(rb) /\ n = H.chunk[c].n /\ Len(rb) \in Nat
    BY <1>5, <1>13, <1>16, <1>18 DEF Types
  <2>2. PICK b : b = Body(n)
    OBVIOUS
  <2>3. ArePieces(b, ch.id, ch.from, n) /\ b \in Seq(AllUnits) /\ Len(b) = n
    BY <1>2, <1>5, <2>1, <2>2, BodyOfChunk
  <2>4. Reads(H, H.at[f])' /\ (Len(taken) = H.at[c + 1] - H.at[f])'
    <3>1. Read(1 + n) /\ wire' = wire
      BY <1>13, <1>18
    <3> QED
      BY <1>2, <2>1, <3>1, ReadOn
  <2>5. PICK g : g = CallWith(h.cs, hd.kind, hd.len, b, size)
    OBVIOUS
  <2>6. stack' = Append(stack, g) /\ stack \in Seq(Calls)
    BY <1>13, <1>18, <2>2, <2>5, Zenon DEF Types, CallWith
  <2>7. /\ pc' = NextPc(stack')
        /\ ctx' = IF Remembered(h) THEN [ctx EXCEPT ![h.cs] = hd] ELSE ctx
        /\ UNCHANGED <<client, wire, msgs, saved, chunkSize, delivered>>
    BY <1>13, <1>18, Zenon
  <2>8. /\ msgs \in Seq(Results) /\ delivered \in Seq(Results) /\ ctx \in [Streams -> Contexts]
    BY DEF Types
  <2>9. ASSUME NEW cs \in Streams, NEW len \in Lengths, BeginMove(z, ch, z2, cs, len)
        PROVE  /\ stack' \in Seq(Calls) /\ Len(stack') # 0
               /\ Match(z2, stack', msgs, ctx', delivered, chunkSize)
    <3>1. /\ h.cs = cs /\ hd = [kind |-> "media", len |-> len] /\ Remembered(h)
      BY <1>6, <1>7, <1>15, <2>9, HeaderBegin, Zenon
    <3>2. hd.kind = "media" /\ hd.len = len
      BY <3>1
    <3>3. /\ g \in Calls /\ g.cs = cs /\ g.kind = "media" /\ g.len = len /\ g.body = b
          /\ g.chunk = size
      <4>1. Len(b) <= hd.len
        BY <1>13, <2>3
      <4>2. hd.kind # "SetChunkSize"
        BY <3>2
      <4>3. /\ g \in Calls /\ g.cs = h.cs /\ g.kind = hd.kind /\ g.len = hd.len /\ g.body = b
            /\ g.chunk = size
        BY <1>13, <2>3, <2>5, <4>1, <4>2, NewCall
      <4> QED
        BY <3>1, <3>2, <4>3
    <3>4. Pushed(stack, g, stack')
      BY <2>6, <3>3, PushedIs
    <3>5. Opens(g, z2, ch)
      <4>1. /\ z2.sent[ch.id].cs = cs /\ z2.sent[ch.id].kind = "media"
            /\ Len(z2.sent[ch.id].body) = len
            /\ Len(z2.sent) = Len(z.sent) + 1 /\ ch.id = Len(z.sent) + 1
        BY <1>6, <2>9, BeginFine
      <4>2. ch.id \in 1..Len(z2.sent) /\ z2.sent[ch.id] \in Messages
        <5>1. Len(z.sent) \in Nat
          BY <1>6, StateIs
        <5>2. ch.id \in 1..Len(z2.sent)
          BY <4>1, <5>1
        <5> QED
          BY <1>6, <5>2, StateIs
      <4> QED
        BY <1>16, <2>3, <3>3, <4>1, <4>2 DEF Opens
    <3>6. ctx' = Remembering(ctx, cs, len)
      BY <2>7, <3>1, Zenon DEF Remembering
    <3>7. g.chunk = SizeForChunk(stack, chunkSize)
      BY <1>14, <3>3
    <3>8. Match(z2, stack', msgs, ctx', delivered, chunkSize)
      BY <1>6, <1>7, <2>8, <2>9, <3>4, <3>5, <3>6, <3>7, MatchBegin
    <3> QED
      BY <3>4, <3>8 DEF Pushed
  <2>10. ASSUME NEW s \in NewChunks, SizeMove(z, ch, z2, s)
         PROVE  /\ stack' \in Seq(Calls) /\ Len(stack') # 0
                /\ Match(z2, stack', msgs, ctx', delivered, chunkSize)
    <3>1. /\ h.cs = Control /\ hd.kind = "SetChunkSize" /\ hd.len = 1 /\ ~Remembered(h)
      BY <1>15, <2>10, HeaderSize
    <3>2. b[1] = Piece(ch.id, s) /\ n = 1 /\ ch.from = s
      <4>1. ch.from = s /\ ch.n = 1 /\ s \in Nat
        BY <2>10, SizesArePositive DEF SizeMove
      <4>2. 1 \in 1..n /\ s + 1 - 1 = s
        BY <1>16, <4>1
      <4>3. b[1] = Piece(ch.id, ch.from + 1 - 1)
        BY <2>3, <4>2 DEF ArePieces
      <4> QED
        BY <1>16, <4>1, <4>2, <4>3
    <3>3. /\ g \in Calls /\ g.cs = Control /\ g.kind = "SetChunkSize" /\ g.len = 1 /\ g.body = b
      <4>1. Len(b) = 1 /\ Len(b) <= 1 /\ b[1].k \in NewChunks
        BY <2>3, <3>2 DEF Piece
      <4>2. g = CallWith(Control, "SetChunkSize", 1, b, size)
        BY <2>5, <3>1
      <4> QED
        BY <1>13, <2>3, <4>1, <4>2, NewSizeCall
    <3>4. Pushed(stack, g, stack')
      BY <2>6, <3>3, PushedIs
    <3>5. Opens(g, z2, ch)
      <4>1. /\ z2.sent[ch.id].cs = Control /\ z2.sent[ch.id].kind = "SetChunkSize"
            /\ Len(z2.sent[ch.id].body) = 1
            /\ Len(z2.sent) = Len(z.sent) + 1 /\ ch.id = Len(z.sent) + 1
        BY <1>6, <2>10, SizeFine
      <4>2. ch.id \in 1..Len(z2.sent) /\ z2.sent[ch.id] \in Messages
        <5>1. Len(z.sent) \in Nat
          BY <1>6, StateIs
        <5>2. ch.id \in 1..Len(z2.sent)
          BY <4>1, <5>1
        <5> QED
          BY <1>6, <5>2, StateIs
      <4> QED
        BY <1>16, <2>3, <3>3, <4>1, <4>2 DEF Opens
    <3>6. ctx' = ctx
      BY <2>7, <3>1
    <3>7. Match(z2, stack', msgs, ctx', delivered, chunkSize)
      BY <1>6, <1>7, <2>8, <2>10, <3>4, <3>5, <3>6, MatchSize
    <3> QED
      BY <3>4, <3>7 DEF Pushed
  <2>11. /\ stack' \in Seq(Calls) /\ Len(stack') # 0
         /\ Match(z2, stack', msgs, ctx', delivered, chunkSize)
    BY <1>6, <1>8, <2>9, <2>10 DEF Moves
  <2>12. Match(H.state[c + 1], stack', msgs, ctx', delivered, chunkSize)
    BY <1>4, <2>11
  <2>13. Holds(H, f, c + 1)'
    BY <1>1, <1>2, <2>4, <2>7, <2>11, <2>12, ChunkHolds
  <2> QED
    BY <2>13
<1> QED
  <2>1. Len(rb) \in Nat /\ n \in Nat
    BY <1>13 DEF Types
  <2> QED
    BY <1>17, <1>18, <2>1

LEMMA NoHeaderHolds ==
    ASSUME Types, NEW H, NEW f, NEW c, Holds(H, f, c), noHeader
    PROVE  Holds(H, f, f)'
<1>1. pc = "parse" /\ ~ChunkHeader
  BY DEF noHeader
<1>2. CASE rb = <<>>
  BY <1>1, <1>2, NotEnoughHolds DEF noHeader
<1>3. CASE rb # <<>>
  <2>1. Head(rb) \in Headers
    BY <1>3, AtChunk
  <2>2. Head(rb).u \in {"full", "type3"}
    BY <2>1, UnitIs
  <2> QED
    BY <1>1, <1>3, <2>2 DEF ChunkHeader
<1> QED
  BY <1>2, <1>3

\* The invariant is inductive.
LEMMA NextHolds ==
    ASSUME ResizeIn <= 1, Types, \E H, f, c : Holds(H, f, c), [Next]_vars
    PROVE  \E H, f, c : Holds(H, f, c)'
<1>1. PICK H, f, c : Holds(H, f, c)
  OBVIOUS
<1>2. CASE ClientNext
  <2>1. PICK ch, b, z2 : ClientStep(ch, b, z2)
    BY <1>2, ClientMoves
  <2>2. \E G : Holds(G, f, c)'
    BY <1>1, <2>1, ClientHolds
  <2> QED
    BY <2>2
<1>3. CASE \E n \in 1..Len(wire) : recv(n)
  <2>1. PICK n \in 1..Len(wire) : recv(n)
    BY <1>3
  <2>2. Stream' = Stream
    BY <2>1, RecvKeeps
  <2>3. UNCHANGED <<left, lastSent, outSize, begun, sent, taken, stack, ctx, msgs, savedCtx,
                    savedMsgs, chunkSize, delivered>> /\ pc = "recv" /\ pc' = "turn"
    BY <2>1 DEF recv, client, saved
  <2>4. Holds(H, f, c)'
    BY <1>1, <2>2, <2>3, SameHolds
  <2> QED
    BY <2>4
<1>4. CASE loopEnds
  <2>1. UNCHANGED <<left, lastSent, outSize, begun, sent, taken, stack, ctx, msgs, savedCtx,
                    savedMsgs, chunkSize, delivered>> /\ pc = "turn" /\ pc' = "recv"
        /\ rb' = rb /\ wire' = wire
    BY <1>4 DEF loopEnds, client, saved
  <2>2. Stream' = Stream
    BY <2>1 DEF Stream
  <2>3. Holds(H, f, c)'
    BY <1>1, <2>1, <2>2, SameHolds
  <2> QED
    BY <2>3
<1>5. CASE UNCHANGED vars
  <2>1. UNCHANGED <<left, lastSent, outSize, begun, sent, taken, stack, ctx, msgs, savedCtx,
                    savedMsgs, chunkSize, delivered>> /\ pc' = pc /\ rb' = rb /\ wire' = wire
    BY <1>5 DEF vars, client, saved
  <2>2. Stream' = Stream
    BY <2>1 DEF Stream
  <2>3. Holds(H, f, c)'
    BY <1>1, <2>1, <2>2, SameHolds
  <2> QED
    BY <2>3
<1>6. CASE fromBuffer
  BY <1>1, <1>6, FromBufferHolds
<1>7. CASE startTurn
  BY <1>1, <1>7, StartHolds
<1>8. CASE continueMsg
  <2>1. \E d : Holds(H, f, d)'
    BY <1>1, <1>8, ContinueHolds
  <2> QED
    BY <2>1
<1>9. CASE beginMsg
  <2>1. \E d : Holds(H, f, d)'
    BY <1>1, <1>9, BeginHolds
  <2> QED
    BY <2>1
<1>10. CASE noHeader
  BY <1>1, <1>10, NoHeaderHolds
<1>11. CASE returnOuter
  BY <1>1, <1>11, OuterHolds
<1>12. CASE returnInner
  BY <1>1, <1>12, InnerHolds
<1> QED
  BY <1>2, <1>3, <1>4, <1>5, <1>6, <1>7, <1>8, <1>9, <1>10, <1>11, <1>12 DEF Next, ParserNext, over

LEMMA InvIsInvariant ==
    ASSUME ResizeIn <= 1
    PROVE  Spec => []Inv
<1>1. Init => Inv
  BY InitTypes, InitHolds DEF Inv
<1>2. Inv /\ [Next]_vars => Inv'
  <2> SUFFICES ASSUME Inv, [Next]_vars PROVE Inv'
    OBVIOUS
  <2>1. Types'
    BY NextTypes DEF Inv
  <2>2. \E H, f, c : Holds(H, f, c)'
    BY NextHolds DEF Inv
  <2> QED
    BY <2>1, <2>2 DEF Inv
<1> QED
  BY <1>1, <1>2, PTL DEF Spec

-----------------------------------------------------------------------------
(* InStep: no piece of a body is ever taken for a chunk header, when no    *)
(* chunk size is set with more than one message in progress                *)
(* (rtmpparser.cpp:152-203).                                               *)
THEOREM NeverOutOfStep ==
    ASSUME ResizeIn <= 1
    PROVE  Spec => []InStep
<1>1. Inv => InStep
  BY DEF Inv, Holds, Where, InStep
<1> QED
  BY <1>1, InvIsInvariant, PTL

\* When nothing is left to read, all the chunks have been.
LEMMA AllRead ==
    ASSUME Types, NEW H, NEW f, NEW c, Holds(H, f, c), wire = <<>>, rb = <<>>
    PROVE  c = H.n
<1>1. Len(Stream) = Len(taken)
  <2>1. Len(taken) \in Nat
    BY DEF Types
  <2>2. Len(rb) = 0 /\ Len(wire) = 0
    OBVIOUS
  <2> QED
    BY <2>1, <2>2, StreamIs
<1>2. IsTape(H) /\ f \in 1..H.n /\ c \in 1..H.n
  BY DEF Holds
<1>3. PICK a \in Nat : a = H.at[f]
  BY <1>2, TapeEnds
<1>4. PICK b \in Nat : b = H.at[c]
  BY <1>2, TapeEnds
<1>5. PICK e \in Nat : e = H.at[H.n]
  BY <1>2, TapeEnds
<1>6. e - a = b - a
  BY <1>1, <1>3, <1>4, <1>5 DEF Holds, Reads
<1>7. H.at[c] = H.at[H.n]
  BY <1>4, <1>5, <1>6, <1>3
<1> QED
  BY <1>2, <1>7, TapeEnds

(* AllAccounted: once all that was sent has been read, each message was    *)
(* delivered or waits in msgsBuffer_ (rtmpparser.cpp:33-59).               *)
THEOREM NoneIsLost ==
    ASSUME ResizeIn <= 1
    PROVE  Spec => []AllAccounted
<1>1. Inv => AllAccounted
  <2> SUFFICES ASSUME Inv, wire = <<>>, rb = <<>>, pc = "recv"
               PROVE  stack = <<>> /\ Len(delivered) + Len(msgs) = Len(sent)
    BY DEF AllAccounted
  <2>1. Types
    BY DEF Inv
  <2>2. PICK H, f, c : Holds(H, f, c)
    BY DEF Inv
  <2>3. c = H.n
    BY <2>1, <2>2, AllRead
  <2>4. Len(stack) = 0 /\ stack = <<>>
    <3>1. Len(stack) = 0
      BY <2>2 DEF Holds, Where
    <3>2. stack \in Seq(Calls)
      BY <2>1 DEF Types
    <3> QED
      BY <3>1, <3>2
  <2>5. Len(delivered) + Len(msgs) + Len(stack) = Len(Sender.sent)
    BY <2>2, <2>3 DEF Holds, Match, AllMatch
  <2>6. Sender.sent = sent
    BY DEF Sender
  <2>7. Len(delivered) \in Nat /\ Len(msgs) \in Nat
    BY <2>1 DEF Types
  <2> QED
    BY <2>4, <2>5, <2>6, <2>7
<1> QED
  BY <1>1, InvIsInvariant, PTL

-----------------------------------------------------------------------------
(* The order.                                                              *)

\* Message l is after all those of its stream in o.
After(o, l, z) == \A i \in 1..Len(o) : o[i].cs = z.sent[l].cs => Id(o[i]) < l

\* Those before m on its stream, in what comes out and in what was sent.
Preceding(o, i) == {Id(o[j]) : j \in {j \in 1..i - 1 : o[j].cs = o[i].cs}}
SentBefore(s, m) == {l \in 1..Id(m) - 1 : s[l].cs = m.cs}

LEMMA PrecedingRight ==
    ASSUME NEW z, z \in States, NEW o, o \in Seq(Results),
           \A i \in 1..Len(o) : Whole(o[i], z), InOrder(o),
           \A l \in 1..Len(z.sent) : Has(o, l) \/ After(o, l, z),
           NEW i \in 1..Len(o)
    PROVE  Preceding(o, i) = SentBefore(z.sent, o[i])
<1>1. PICK n \in Nat : n = Len(o)
  OBVIOUS
<1>2. PICK t \in Nat : t = Len(z.sent)
  BY StateIs
<1>3. \A j \in 1..n : Id(o[j]) \in 1..t /\ o[j] = z.sent[Id(o[j])]
  BY <1>1, <1>2 DEF Whole
<1>4. PICK a \in 1..t : a = Id(o[i])
  BY <1>1, <1>3
<1>5. ASSUME NEW j \in 1..n, j < i, o[j].cs = o[i].cs
      PROVE  Id(o[j]) \in 1..a - 1 /\ z.sent[Id(o[j])].cs = o[i].cs
  <2>1. Id(o[j]) < Id(o[i])
    BY <1>1, <1>5 DEF InOrder, Earlier
  <2>2. PICK b \in 1..t : b = Id(o[j])
    BY <1>3
  <2>3. b < a
    BY <1>4, <2>1, <2>2
  <2>4. b \in 1..a - 1
    BY <2>3
  <2>5. z.sent[Id(o[j])].cs = o[i].cs
    BY <1>3, <1>5
  <2> QED
    BY <2>2, <2>4, <2>5
<1>6. ASSUME NEW l \in 1..a - 1, z.sent[l].cs = o[i].cs
      PROVE  \E j \in 1..n : j < i /\ o[j].cs = o[i].cs /\ Id(o[j]) = l
  <2>1. l \in 1..t /\ ~(a < l) /\ a # l
    BY <1>4
  <2>2. ~After(o, l, z)
    BY <1>4, <1>6, <2>1 DEF After
  <2>3. PICK j \in 1..n : Id(o[j]) = l
    BY <1>1, <1>2, <2>1, <2>2 DEF Has
  <2>4. o[j].cs = o[i].cs
    BY <1>3, <1>6, <2>3
  <2>5. j # i
    BY <1>4, <2>1, <2>3
  <2>6. ~(i < j)
    <3>1. i < j => Id(o[i]) < Id(o[j])
      BY <1>1, <2>4 DEF InOrder, Earlier
    <3> QED
      BY <1>4, <2>1, <2>3, <3>1
  <2>7. j < i
    BY <1>1, <2>5, <2>6
  <2> QED
    BY <2>3, <2>4, <2>7
<1>7. \A j : j \in 1..i - 1 <=> j \in 1..n /\ j < i
  BY <1>1
<1>8. \A b : b \in Preceding(o, i) <=> \E j \in 1..n : j < i /\ o[j].cs = o[i].cs /\ b = Id(o[j])
  BY <1>7, Zenon DEF Preceding
<1>9. \A l : l \in SentBefore(z.sent, o[i]) <=> l \in 1..a - 1 /\ z.sent[l].cs = o[i].cs
  BY <1>4 DEF SentBefore
<1>10. \A b : b \in Preceding(o, i) => b \in SentBefore(z.sent, o[i])
  BY <1>5, <1>8, <1>9
<1>11. \A b : b \in SentBefore(z.sent, o[i]) => b \in Preceding(o, i)
  BY <1>6, <1>8, <1>9
<1> QED
  BY <1>10, <1>11, Zenon

\* What comes out, as a whole.
LEMMA OutputIs ==
    ASSUME Types, NEW z, z \in States, MaxNest <= 3,
           CallsMatch(z, stack), AllMatch(z, stack, msgs, delivered),
           OrderMatch(z, stack, msgs, delivered)
    PROVE  /\ Output \in Seq(Results) /\ InOrder(Output)
           /\ \A i \in 1..Len(Output) : Whole(Output[i], z)
           /\ \A l \in 1..Len(z.sent) : Has(Output, l) \/ After(Output, l, z)
<1>1. stack \in Seq(Calls) /\ delivered \in Seq(Results) /\ msgs \in Seq(Results)
  BY DEF Types
<1>2. CASE stack = <<>>
  <2>1. PICK o : o = delivered \o msgs
    OBVIOUS
  <2>2. Output = o
    BY <1>2, <2>1 DEF Output
  <2>3. PICK p \in Nat : p = Len(delivered)
    BY <1>1
  <2>4. PICK q \in Nat : q = Len(msgs)
    BY <1>1
  <2>5. /\ o \in Seq(Results) /\ Len(o) = p + q
        /\ \A i \in 1..p + q : o[i] = IF i <= p THEN delivered[i] ELSE msgs[i - p]
    BY <1>1, <2>1, <2>3, <2>4, ConcatProperties
  <2>6. \A i \in 1..p : o[i] = delivered[i] /\ i \in 1..p + q
    BY <2>5
  <2>7. \A i \in 1..q : o[p + i] = msgs[i] /\ p + i \in 1..p + q
    <3> TAKE i \in 1..q
    <3>1. p + i \in 1..p + q /\ ~(p + i <= p) /\ (p + i) - p = i
      OBVIOUS
    <3> QED
      BY <2>5, <3>1
  <2>8. \A i \in 1..p + q : i \in 1..p \/ (\E k \in 1..q : i = p + k)
    <3> TAKE i \in 1..p + q
    <3>1. CASE i > p
      <4>1. i - p \in 1..q /\ i = p + (i - p)
        BY <3>1
      <4> QED
        BY <4>1
    <3> QED
      BY <3>1
  <2>9. \A i \in 1..Len(o) : Whole(o[i], z)
    <3>1. \A i \in 1..p : Whole(o[i], z)
      BY <2>3, <2>6 DEF AllMatch
    <3>2. \A k \in 1..q : Whole(o[p + k], z)
      BY <2>4, <2>7 DEF AllMatch
    <3> QED
      BY <2>5, <2>8, <3>1, <3>2
  <2>10. InOrder(o)
    <3> SUFFICES ASSUME NEW i \in 1..p + q, NEW j \in 1..p + q, i < j
                 PROVE  Earlier(o[i], o[j])
      BY <2>5 DEF InOrder
    <3>1. CASE j \in 1..p
      <4>1. i \in 1..p
        BY <3>1
      <4>2. Earlier(delivered[i], delivered[j])
        BY <2>3, <3>1, <4>1 DEF OrderMatch, InOrder
      <4> QED
        BY <2>6, <3>1, <4>1, <4>2
    <3>2. CASE \E k \in 1..q : j = p + k
      <4>1. PICK k \in 1..q : j = p + k
        BY <3>2
      <4>2. CASE i \in 1..p
        <5>1. Earlier(delivered[i], msgs[k])
          BY <2>3, <2>4, <4>2 DEF OrderMatch, Before
        <5> QED
          BY <2>6, <2>7, <4>1, <4>2, <5>1
      <4>3. CASE \E g \in 1..q : i = p + g
        <5>1. PICK g \in 1..q : i = p + g
          BY <4>3
        <5>2. g < k
          BY <4>1, <5>1
        <5>3. Earlier(msgs[g], msgs[k])
          BY <2>4, <5>2 DEF OrderMatch, InOrder
        <5> QED
          BY <2>7, <4>1, <5>1, <5>3
      <4> QED
        BY <2>8, <4>2, <4>3
    <3> QED
      BY <2>8, <3>1, <3>2
  <2>11. \A l \in 1..Len(z.sent) : Has(o, l)
    <3> TAKE l \in 1..Len(z.sent)
    <3>1. ~Has(stack, l)
      <4>1. Len(stack) = 0
        BY <1>2
      <4> QED
        BY <4>1 DEF Has
    <3>2. Has(delivered, l) => Has(o, l)
      BY <2>3, <2>5, <2>6 DEF Has
    <3>3. Has(msgs, l) => Has(o, l)
      BY <2>4, <2>5, <2>7 DEF Has
    <3> QED
      BY <3>1, <3>2, <3>3 DEF AllMatch
  <2> QED
    BY <2>2, <2>5, <2>9, <2>10, <2>11
<1>3. CASE stack # <<>>
  <2>1. Output = delivered
    BY <1>3 DEF Output
  <2>2. Len(stack) \in Nat
    BY <1>1
  <2>3. ASSUME NEW l \in 1..Len(z.sent)
        PROVE  Has(delivered, l) \/ After(delivered, l, z)
    <3>1. ASSUME Has(msgs, l)
          PROVE  After(delivered, l, z)
      <4>1. PICK k \in 1..Len(msgs) : Id(msgs[k]) = l
        BY <3>1 DEF Has
      <4>2. msgs[k].cs = z.sent[l].cs
        BY <4>1 DEF AllMatch, Whole
      <4>3. \A i \in 1..Len(delivered) : Earlier(delivered[i], msgs[k])
        BY <1>1 DEF OrderMatch, Before
      <4> QED
        BY <4>1, <4>2, <4>3 DEF Earlier, After
    <3>2. ASSUME Has(stack, l)
          PROVE  After(delivered, l, z)
      <4>1. PICK k \in 1..Len(stack) : Id(stack[k]) = l
        BY <3>2 DEF Has
      <4>2. stack[k].cs = z.sent[l].cs
        BY <4>1 DEF CallsMatch, CallOf
      <4>3. \A i \in 1..Len(delivered) : Earlier(delivered[i], stack[k])
        BY <1>1 DEF OrderMatch, Before
      <4> QED
        BY <4>1, <4>2, <4>3 DEF Earlier, After
    <3> QED
      BY <3>1, <3>2 DEF AllMatch
  <2> QED
    BY <1>1, <2>1, <2>3 DEF AllMatch, OrderMatch
<1> QED
  BY <1>2, <1>3

(* InOrderAndIntact: the messages come out whole, in order on their chunk  *)
(* streams and once each (rtmpparser.cpp:33-59, 152-203), when no chunk    *)
(* size is set with more than one message in progress and no more than     *)
(* three messages are nested.                                              *)
THEOREM ComesOutInOrder ==
    ASSUME ResizeIn <= 1, MaxNest <= 3
    PROVE  Spec => []InOrderAndIntact
<1>1. Inv => InOrderAndIntact
  <2> SUFFICES ASSUME Inv PROVE InOrderAndIntact
    OBVIOUS
  <2>1. Types
    BY DEF Inv
  <2>2. PICK H, f, c : Holds(H, f, c)
    BY DEF Inv
  <2>3. PICK z : z = H.state[c]
    OBVIOUS
  <2>4. /\ Match(z, stack, msgs, ctx, delivered, chunkSize) /\ Fine(z) /\ Follows(Sender, z)
    <3>1. c \in 1..H.n /\ IsTape(H) /\ H.state[H.n] = Sender
      BY <2>2 DEF Holds
    <3>2. Fine(H.state[c]) /\ Follows(H.state[H.n], H.state[c])
      BY <3>1 DEF IsTape
    <3> QED
      BY <2>2, <2>3, <3>1, <3>2 DEF Holds
  <2>5. z \in States /\ Len(z.sent) \in Nat
    BY <2>4, StateIs DEF Fine
  <2>6. /\ Output \in Seq(Results) /\ InOrder(Output)
        /\ \A i \in 1..Len(Output) : Whole(Output[i], z)
        /\ \A l \in 1..Len(z.sent) : Has(Output, l) \/ After(Output, l, z)
    BY <2>1, <2>4, <2>5, OutputIs DEF Match
  <2>7. /\ sent \in Seq(Messages) /\ Len(z.sent) <= Len(sent)
        /\ \A l \in 1..Len(z.sent) : l \in 1..Len(sent) /\ sent[l] = z.sent[l]
    <3>1. sent \in Seq(Messages) /\ Sender.sent = sent
      BY <2>1 DEF Types, Sender
    <3>2. Len(sent) \in Nat
      BY <3>1
    <3> QED
      BY <2>4, <2>5, <3>1, <3>2 DEF Follows
  <2>8. ASSUME NEW i \in 1..Len(Output)
        PROVE  /\ Id(Output[i]) \in DOMAIN sent /\ Output[i] = sent[Id(Output[i])]
               /\ Preceding(Output, i) = SentBefore(sent, Output[i])
    <3>1. Id(Output[i]) \in 1..Len(z.sent) /\ Output[i] = z.sent[Id(Output[i])]
      BY <2>6 DEF Whole
    <3>2. Preceding(Output, i) = SentBefore(z.sent, Output[i])
      BY <2>5, <2>6, PrecedingRight
    <3>3. \A l \in 1..Id(Output[i]) - 1 : sent[l] = z.sent[l]
      BY <2>5, <2>7, <3>1
    <3>4. SentBefore(sent, Output[i]) = SentBefore(z.sent, Output[i])
      BY <3>3 DEF SentBefore
    <3> QED
      BY <2>7, <3>1, <3>2, <3>4
  <2>9. DOMAIN Output = 1..Len(Output)
    BY <2>6
  <2> QED
    BY <2>8, <2>9, Zenon DEF InOrderAndIntact, Preceding, SentBefore
<1> QED
  BY <1>1, InvIsInvariant, PTL

=============================================================================
