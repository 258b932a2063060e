--------------------------- MODULE CommandsProofs ---------------------------
(***************************************************************************)
(* The decoders of Commands, for every set of bodies.                      *)
(*                                                                         *)
(* The calls that are still to be made are read as a grammar: each may end *)
(* in the places CallEnd says, and todo derives the places where a body    *)
(* may end from here (Path).  What todo derives are ends of the command's  *)
(* form, and every call only makes that less (Derives).                    *)
(***************************************************************************)
EXTENDS Commands, ProofFacts

Byte == 0..255

-----------------------------------------------------------------------------
(* The grammar.                                                            *)

\* Whatever ends behind a place ends later, and inside the body.
LEMMA EndsLater ==
    ASSUME NEW s \in Seq(Byte), NEW i \in 0..Len(s)
    PROVE  /\ TextEnd(s, i) \subseteq i + 1..Len(s)
           /\ StringEnd(s, i) \subseteq i + 1..Len(s)
           /\ NumberEnd(s, i) \subseteq i + 1..Len(s)
           /\ BoolEnd(s, i) \subseteq i + 1..Len(s)
           /\ \A type \in Nat : MarkEnd(s, i, type) \subseteq i + 1..Len(s)
           /\ EndMark(s, i) \subseteq i + 1..Len(s)
<1>1. \A k \in 1..Len(s) : s[k] \in 0..255
  BY ElementOfSeq DEF Byte
<1>2. \A k \in 0..Len(s) : TextEnd(s, k) \subseteq k + 1..Len(s)
  <2> SUFFICES ASSUME NEW k \in 0..Len(s) PROVE TextEnd(s, k) \subseteq k + 1..Len(s)
    OBVIOUS
  <2>1. CASE k + 2 <= Len(s)
    <3>1. s[k + 1] \in 0..255 /\ s[k + 2] \in 0..255
      BY <1>1, <2>1
    <3> DEFINE a == s[k + 1]
               b == s[k + 2]
               e == k + 2 + 256 * a + b
    <3> HIDE DEF a, b
    <3>2. e \in Nat /\ k + 1 <= e
      <4>1. a \in 0..255 /\ b \in 0..255
        BY <3>1 DEF a, b
      <4> QED
        BY <4>1
    <3>3. TextEnd(s, k) = IF e <= Len(s) THEN {e} ELSE {}
      BY <2>1 DEF TextEnd, Inside, a, b
    <3> HIDE DEF e
    <3> QED
      BY <3>2, <3>3
  <2>2. CASE ~(k + 2 <= Len(s))
    BY <2>2 DEF TextEnd
  <2> QED
    BY <2>1, <2>2
<1>3. StringEnd(s, i) \subseteq i + 1..Len(s)
  <2>1. CASE i < Len(s)
    <3>1. TextEnd(s, i + 1) \subseteq i + 1 + 1..Len(s)
      BY <1>2, <2>1
    <3> QED
      BY <3>1 DEF StringEnd
  <2>2. CASE ~(i < Len(s))
    BY <2>2 DEF StringEnd, At, String
  <2> QED
    BY <2>1, <2>2
<1>4. NumberEnd(s, i) \subseteq i + 1..Len(s) /\ BoolEnd(s, i) \subseteq i + 1..Len(s)
  BY CommandsAssumption DEF CommandsAssumption, NumberEnd, BoolEnd, Inside
<1>5. \A type \in Nat : MarkEnd(s, i, type) \subseteq i + 1..Len(s)
  BY DEF MarkEnd, At
<1>6. EndMark(s, i) \subseteq i + 1..Len(s)
  BY DEF EndMark
<1> QED
  BY <1>2, <1>3, <1>4, <1>5, <1>6

\* What may be said of the ends of objects: they come later.
Later(s) ==
    {ends \in [Places(s) -> SUBSET (0..Len(s))] :
        \A p \in Places(s) : \A j \in ends[p] : p.at <= j}

\* A place is what Place makes of its parts.
LEMMA PlaceIs ==
    ASSUME NEW s, NEW open \in BOOLEAN, NEW turn \in {"key", "value"}, NEW at \in 0..Len(s)
    PROVE  /\ Place(open, turn, at) \in Places(s)
           /\ Place(open, turn, at).open = open
           /\ Place(open, turn, at).turn = turn
           /\ Place(open, turn, at).at = at
BY DEF Place, Places

\* The place where an object begins that is skipped.
LEMMA KeyPlaceIs ==
    ASSUME NEW s, NEW at \in 0..Len(s)
    PROVE  Place(FALSE, "key", at) \in Places(s) /\ Place(FALSE, "key", at).at = at
BY DEF Place, Places

\* And has these parts.
LEMMA PlaceHas ==
    ASSUME NEW s \in Seq(Byte), NEW p \in Places(s)
    PROVE  /\ p.open \in BOOLEAN /\ p.turn \in {"key", "value"}
           /\ p.at \in 0..Len(s) /\ p.at \in Nat /\ 0 <= p.at /\ p.at <= Len(s)
BY DEF Place, Places

\* So do values.
LEMMA ValueEndsLater ==
    ASSUME NEW s \in Seq(Byte), NEW ends \in Later(s), NEW i \in 0..Len(s)
    PROVE  ValueEnd(s, ends, i) \subseteq i + 1..Len(s)
<1>1. At(s, i) = Object => ends[Place(FALSE, "key", i + 1)] \subseteq i + 1..Len(s)
  <2> SUFFICES ASSUME At(s, i) = Object
               PROVE  ends[Place(FALSE, "key", i + 1)] \subseteq i + 1..Len(s)
    OBVIOUS
  <2>1. i + 1 \in 0..Len(s)
    BY DEF At, Object
  <2> DEFINE p == Place(FALSE, "key", i + 1)
  <2>2. p \in Places(s) /\ p.at = i + 1
    BY <2>1, KeyPlaceIs
  <2> HIDE DEF p
  <2>3. ends[p] \subseteq 0..Len(s) /\ \A j \in ends[p] : p.at <= j
    BY <2>2 DEF Later
  <2>4. ends[p] \subseteq i + 1..Len(s)
    BY <2>1, <2>2, <2>3
  <2> QED
    BY <2>4 DEF p
<1>2. Null \in Nat /\ Undefined \in Nat
  BY DEF Null, Undefined
<1> QED
  BY <1>1, <1>2, EndsLater, Zenon DEF ValueEnd

\* Where an object may go on.
NextTurn(s, ends, p) ==
    IF p.turn = "key" THEN TextEnd(s, p.at) ELSE ValueEnd(s, ends, p.at)
Other(turn) == IF turn = "key" THEN "value" ELSE "key"

LEMMA BeyondIs ==
    ASSUME NEW s \in Seq(Byte), NEW ends, NEW p \in Places(s)
    PROVE  Beyond(s, ends, p) =
             (IF p.open /\ p.at = Len(s) THEN {p.at} ELSE EndMark(s, p.at))
               \union UNION {ends[Place(p.open, Other(p.turn), j)] : j \in NextTurn(s, ends, p)}
<1>1. CASE p.turn = "key"
  BY <1>1, Zenon DEF Beyond, Other, NextTurn
<1>2. CASE p.turn # "key"
  BY <1>2, Zenon DEF Beyond, Other, NextTurn
<1> QED
  BY <1>1, <1>2

LEMMA NextTurnLater ==
    ASSUME NEW s \in Seq(Byte), NEW ends \in Later(s), NEW p \in Places(s)
    PROVE  /\ NextTurn(s, ends, p) \subseteq p.at + 1..Len(s)
           /\ \A j \in NextTurn(s, ends, p) :
                 /\ j \in 0..Len(s) /\ p.at < j
                 /\ Place(p.open, Other(p.turn), j) \in Places(s)
                 /\ Place(p.open, Other(p.turn), j).at = j
<1>1. p.at \in 0..Len(s) /\ p.open \in BOOLEAN /\ Other(p.turn) \in {"key", "value"}
  BY PlaceHas DEF Other
<1>2. NextTurn(s, ends, p) \subseteq p.at + 1..Len(s)
  BY <1>1, EndsLater, ValueEndsLater DEF NextTurn
<1>3. \A j \in NextTurn(s, ends, p) : j \in 0..Len(s) /\ p.at < j
  BY <1>1, <1>2
<1>4. ASSUME NEW j \in NextTurn(s, ends, p)
      PROVE  /\ Place(p.open, Other(p.turn), j) \in Places(s)
             /\ Place(p.open, Other(p.turn), j).at = j
  <2>1. j \in 0..Len(s)
    BY <1>3
  <2> DEFINE open == p.open
             turn == Other(p.turn)
  <2>2. open \in BOOLEAN /\ turn \in {"key", "value"}
    BY <1>1
  <2> HIDE DEF open, turn
  <2>3. Place(open, turn, j) \in Places(s) /\ Place(open, turn, j).at = j
    BY <2>1, <2>2, PlaceIs
  <2> QED
    BY <2>3 DEF open, turn
<1> QED
  BY <1>2, <1>3, <1>4

LEMMA BeyondLater ==
    ASSUME NEW s \in Seq(Byte), NEW ends \in Later(s)
    PROVE  [p \in Places(s) |-> Beyond(s, ends, p)] \in Later(s)
<1>1. ASSUME NEW p \in Places(s), NEW j \in Beyond(s, ends, p)
      PROVE  j \in 0..Len(s) /\ p.at <= j
  <2>1. p.at \in 0..Len(s)
    BY PlaceHas
  <2>2. CASE j \in IF p.open /\ p.at = Len(s) THEN {p.at} ELSE EndMark(s, p.at)
    <3>1. EndMark(s, p.at) \subseteq p.at + 1..Len(s)
      BY <2>1, EndsLater
    <3> QED
      BY <2>1, <2>2, <3>1
  <2>3. CASE j \in UNION {ends[Place(p.open, Other(p.turn), k)] : k \in NextTurn(s, ends, p)}
    <3>1. PICK k \in NextTurn(s, ends, p) : j \in ends[Place(p.open, Other(p.turn), k)]
      BY <2>3
    <3> DEFINE q == Place(p.open, Other(p.turn), k)
    <3>2. k \in 0..Len(s) /\ p.at < k /\ q \in Places(s) /\ q.at = k
      BY NextTurnLater
    <3> HIDE DEF q
    <3>3. ends[q] \subseteq 0..Len(s) /\ \A l \in ends[q] : q.at <= l
      BY <3>2 DEF Later
    <3>4. j \in ends[q]
      BY <3>1 DEF q
    <3> QED
      BY <2>1, <3>2, <3>3, <3>4
  <2> QED
    BY <1>1, <2>2, <2>3, BeyondIs
<1> QED
  BY <1>1 DEF Later

\* Only what is known of later places counts.
LEMMA BeyondLocal ==
    ASSUME NEW s \in Seq(Byte), NEW e \in Later(s), NEW f \in Later(s), NEW p \in Places(s),
           \A q \in Places(s) : p.at < q.at => e[q] = f[q]
    PROVE  Beyond(s, e, p) = Beyond(s, f, p)
<1>1. p.at \in 0..Len(s)
  BY PlaceHas
<1>2. NextTurn(s, e, p) = NextTurn(s, f, p)
  <2>1. At(s, p.at) = Object =>
          e[Place(FALSE, "key", p.at + 1)] = f[Place(FALSE, "key", p.at + 1)]
    <3> SUFFICES ASSUME At(s, p.at) = Object
                 PROVE  e[Place(FALSE, "key", p.at + 1)] = f[Place(FALSE, "key", p.at + 1)]
      OBVIOUS
    <3>1. p.at + 1 \in 0..Len(s) /\ p.at < p.at + 1
      BY <1>1 DEF At, Object
    <3>2. /\ Place(FALSE, "key", p.at + 1) \in Places(s)
          /\ Place(FALSE, "key", p.at + 1).at = p.at + 1
      BY <3>1, KeyPlaceIs
    <3> QED
      BY <3>1, <3>2
  <2>2. ValueEnd(s, e, p.at) = ValueEnd(s, f, p.at)
    <3>1. CASE At(s, p.at) = Object
      BY <2>1, <3>1, Zenon DEF ValueEnd
    <3>2. CASE At(s, p.at) # Object
      BY <3>2, Zenon DEF ValueEnd
    <3> QED
      BY <3>1, <3>2
  <2> QED
    BY <2>2, Zenon DEF NextTurn
<1>3. \A j \in NextTurn(s, e, p) :
         e[Place(p.open, Other(p.turn), j)] = f[Place(p.open, Other(p.turn), j)]
  <2> TAKE j \in NextTurn(s, e, p)
  <2>1. /\ p.at < j
        /\ Place(p.open, Other(p.turn), j) \in Places(s)
        /\ Place(p.open, Other(p.turn), j).at = j
    BY NextTurnLater
  <2> QED
    BY <2>1
<1>4. UNION {e[Place(p.open, Other(p.turn), j)] : j \in NextTurn(s, e, p)}
        = UNION {f[Place(p.open, Other(p.turn), j)] : j \in NextTurn(s, f, p)}
  BY <1>2, <1>3
<1>5. /\ Beyond(s, e, p) =
             (IF p.open /\ p.at = Len(s) THEN {p.at} ELSE EndMark(s, p.at))
               \union UNION {e[Place(p.open, Other(p.turn), j)] : j \in NextTurn(s, e, p)}
      /\ Beyond(s, f, p) =
             (IF p.open /\ p.at = Len(s) THEN {p.at} ELSE EndMark(s, p.at))
               \union UNION {f[Place(p.open, Other(p.turn), j)] : j \in NextTurn(s, f, p)}
  BY BeyondIs, Zenon
<1> QED
  BY <1>4, <1>5, Zenon

\* So the grammar is well defined: there are such ends.
LEMMA EndsAre ==
    ASSUME NEW s \in Seq(Byte)
    PROVE  \E ends : ends = [p \in Places(s) |-> Beyond(s, ends, p)]
<1> DEFINE L == Len(s)
           S == Later(s)
           none == [p \in Places(s) |-> {}]
           step == [x \in Nat \X S |-> [p \in Places(s) |-> Beyond(s, x[2], p)]]
<1>1. L \in Nat /\ L + 2 \in Nat
  OBVIOUS
<1>2. none \in S
  BY DEF Later
<1>3. step \in [Nat \X S -> S]
  <2>1. \A x \in Nat \X S : [p \in Places(s) |-> Beyond(s, x[2], p)] \in S
    BY BeyondLater
  <2> QED
    BY <2>1
<1>4. \A x \in Nat \X S : step[x] = [p \in Places(s) |-> Beyond(s, x[2], p)]
  OBVIOUS
<1> HIDE DEF S, none, step
<1>5. PICK g : Iterates(g, step, none, L + 2, S)
  BY <1>1, <1>2, <1>3, Iterated
<1>6. /\ \A i \in 0..L + 2 : g[i] \in S
      /\ \A i \in 1..L + 2 : g[i] = [p \in Places(s) |-> Beyond(s, g[i - 1], p)]
  <2>1. /\ g \in [0..L + 2 -> S]
        /\ \A i \in 1..L + 2 : g[i] = step[<<i, g[i - 1]>>]
    BY <1>5 DEF Iterates
  <2>2. \A i \in 1..L + 2 : <<i, g[i - 1]>> \in Nat \X S
    <3> TAKE i \in 1..L + 2
    <3>1. i \in Nat /\ i - 1 \in 0..L + 2
      BY <1>1
    <3> QED
      BY <2>1, <3>1
  <2>3. \A i \in 1..L + 2 :
           step[<<i, g[i - 1]>>] = [p \in Places(s) |-> Beyond(s, g[i - 1], p)]
    BY <1>4, <2>2
  <2> QED
    BY <2>1, <2>3
\* After n steps all is known of the last n places.
<1> DEFINE Settled(n) == n <= L + 1 => \A p \in Places(s) : L - n < p.at => g[n][p] = g[n + 1][p]
           T == {n \in Nat : Settled(n)}
<1>7. 0 \in T
  <2>1. \A p \in Places(s) : ~(L - 0 < p.at)
    <3> TAKE p \in Places(s)
    <3>1. p.at \in Nat /\ p.at <= L
      BY PlaceHas
    <3> QED
      BY <1>1, <3>1
  <2> QED
    BY <2>1
<1>8. \A n \in Nat : n \in T => n + 1 \in T
  <2> TAKE n \in Nat
  <2> HAVE n \in T
  <2> SUFFICES ASSUME n + 1 <= L + 1, NEW p \in Places(s), L - (n + 1) < p.at
               PROVE  g[n + 1][p] = g[n + 1 + 1][p]
    OBVIOUS
  <2>1. /\ n + 1 \in 1..L + 2 /\ (n + 1) - 1 = n
        /\ n + 1 + 1 \in 1..L + 2 /\ (n + 1 + 1) - 1 = n + 1
        /\ n \in 0..L + 2 /\ n + 1 \in 0..L + 2 /\ n <= L + 1
    BY <1>1
  <2>2. \A q \in Places(s) : p.at < q.at => g[n][q] = g[n + 1][q]
    <3> TAKE q \in Places(s)
    <3> HAVE p.at < q.at
    <3>1. p.at \in Nat /\ q.at \in Nat
      BY PlaceHas
    <3>2. L - n < q.at
      BY <1>1, <3>1
    <3> QED
      BY <2>1, <3>2
  <2>3. g[n] \in S /\ g[n + 1] \in S
    BY <1>6, <2>1
  <2>4. Beyond(s, g[n], p) = Beyond(s, g[n + 1], p)
    BY <2>2, <2>3, BeyondLocal DEF S
  <2>5. g[n + 1] = [q \in Places(s) |-> Beyond(s, g[n], q)]
    BY <1>6, <2>1
  <2>6. g[n + 1 + 1] = [q \in Places(s) |-> Beyond(s, g[n + 1], q)]
    BY <1>6, <2>1
  <2> QED
    BY <2>4, <2>5, <2>6
<1>9. L + 1 \in T
  <2> HIDE DEF T
  <2>1. Nat \subseteq T
    BY <1>7, <1>8, Induction
  <2> QED
    BY <1>1, <2>1
<1>10. \A p \in Places(s) : g[L + 1][p] = g[L + 2][p]
  <2>1. \A p \in Places(s) : L - (L + 1) < p.at
    <3> TAKE p \in Places(s)
    <3>1. p.at \in Nat
      BY PlaceHas
    <3> QED
      BY <1>1, <3>1
  <2>2. (L + 1) + 1 = L + 2
    BY <1>1
  <2> QED
    BY <1>9, <2>1, <2>2
<1>11. g[L + 1] = g[L + 2]
  <2>1. g[L + 1] \in S /\ g[L + 2] \in S
    BY <1>1, <1>6
  <2>2. g[L + 1] \in [Places(s) -> SUBSET (0..L)] /\ g[L + 2] \in [Places(s) -> SUBSET (0..L)]
    BY <2>1 DEF S, Later
  <2> QED
    BY <1>10, <2>2
<1>12. g[L + 2] = [p \in Places(s) |-> Beyond(s, g[L + 1], p)]
  <2>1. L + 2 \in 1..L + 2 /\ (L + 2) - 1 = L + 1
    BY <1>1
  <2> QED
    BY <1>6, <2>1
<1> QED
  BY <1>11, <1>12

\* An object ends where it may end from one of its places.
LEMMA EndsUnfold ==
    ASSUME NEW s \in Seq(Byte), NEW p \in Places(s)
    PROVE  Ends(s)[p] = Beyond(s, Ends(s), p)
<1>1. Ends(s) = CHOOSE ends : ends = [q \in Places(s) |-> Beyond(s, ends, q)]
  BY DEF Ends
<1>2. Ends(s) = [q \in Places(s) |-> Beyond(s, Ends(s), q)]
  BY <1>1, EndsAre
<1> HIDE DEF Ends
<1> QED
  BY <1>2

-----------------------------------------------------------------------------
(* Calls as a grammar.                                                     *)

Ops == {"string", "onMetaData", "number", "one", "bool", "null", "undefined", "nullOrObject",
        "object", "objectOrArray", "skipObject", "key", "value"}

Keys == (1..3) \union {Name, Flag, Rate, Codec}

\* The calls there are once the name has been read.
Calls ==
    {c \in [op : Ops, key : Int, top : BOOLEAN] : c.op # "value" => c.key \in Keys \union {NoKey}}

\* Where a call that begins behind the i-th byte may end.
CallEnd(c, s, i) ==
    CASE c.op \in {"string", "onMetaData"} -> StringEnd(s, i)
      [] c.op \in {"number", "one"} -> NumberEnd(s, i)
      [] c.op = "bool" -> BoolEnd(s, i)
      [] c.op = "null" -> MarkEnd(s, i, Null)
      [] c.op = "undefined" -> MarkEnd(s, i, Undefined)
      [] c.op = "nullOrObject" -> {i} \union MarkEnd(s, i, Null) \union ClosedEnd(s, i)
      [] c.op = "skipObject" -> ClosedEnd(s, i)
      [] c.op = "object" -> OpenEnd(s, i)
      [] c.op = "objectOrArray" -> OpenEnd(s, i) \union ArrayEnd(s, i)
      [] c.op \in {"key", "value"} -> Ends(s)[Place(c.top, c.op, i)]

\* The calls may take the reader from i to j.
Path(calls, s, i, j) ==
    \E w \in [0..Len(calls) -> 0..Len(s)] :
        /\ w[0] = i /\ w[Len(calls)] = j
        /\ \A k \in 1..Len(calls) : w[k] \in CallEnd(calls[k], s, w[k - 1])

LEMMA PathNone ==
    ASSUME NEW s, NEW i \in 0..Len(s), NEW j
    PROVE  Path(<<>>, s, i, j) <=> i = j
<1>1. ASSUME i = j PROVE Path(<<>>, s, i, j)
  <2> DEFINE w == [k \in 0..0 |-> i]
  <2>1. w \in [0..0 -> 0..Len(s)] /\ w[0] = i /\ Len(<<>>) = 0
    OBVIOUS
  <2>2. \A k \in 1..0 : w[k] \in CallEnd(<<>>[k], s, w[k - 1])
    OBVIOUS
  <2> HIDE DEF w
  <2> QED
    BY <1>1, <2>1, <2>2 DEF Path
<1>2. ASSUME Path(<<>>, s, i, j) PROVE i = j
  BY <1>2 DEF Path
<1> QED
  BY <1>1, <1>2

LEMMA PathOne ==
    ASSUME NEW s, NEW c, NEW i \in 0..Len(s), NEW j \in 0..Len(s)
    PROVE  Path(<<c>>, s, i, j) <=> j \in CallEnd(c, s, i)
<1>1. Len(<<c>>) = 1 /\ <<c>>[1] = c
  OBVIOUS
<1>2. ASSUME j \in CallEnd(c, s, i) PROVE Path(<<c>>, s, i, j)
  <2> DEFINE w == [k \in 0..1 |-> IF k = 0 THEN i ELSE j]
  <2>1. w \in [0..1 -> 0..Len(s)] /\ w[0] = i /\ w[1] = j
    OBVIOUS
  <2> HIDE DEF w
  <2>2. \A k \in 1..1 : w[k] \in CallEnd(<<c>>[k], s, w[k - 1])
    <3> TAKE k \in 1..1
    <3>1. k = 1 /\ k - 1 = 0
      OBVIOUS
    <3> QED
      BY <1>1, <1>2, <2>1, <3>1
  <2> QED
    BY <1>1, <2>1, <2>2 DEF Path
<1>3. ASSUME Path(<<c>>, s, i, j) PROVE j \in CallEnd(c, s, i)
  <2>1. PICK w \in [0..1 -> 0..Len(s)] :
              /\ w[0] = i /\ w[1] = j
              /\ \A k \in 1..1 : w[k] \in CallEnd(<<c>>[k], s, w[k - 1])
    BY <1>1, <1>3 DEF Path
  <2>2. 1 \in 1..1 /\ 1 - 1 = 0
    OBVIOUS
  <2>3. w[1] \in CallEnd(<<c>>[1], s, w[1 - 1])
    BY <2>1, <2>2
  <2> QED
    BY <1>1, <2>1, <2>2, <2>3
<1> QED
  BY <1>2, <1>3

\* A path along two sequences of calls is a path along the one and then one
\* along the other.
LEMMA PathSplit ==
    ASSUME NEW s \in Seq(Byte), NEW a \in Seq(Calls), NEW b \in Seq(Calls), NEW i, NEW j,
           Path(a \o b, s, i, j)
    PROVE  \E m \in 0..Len(s) : Path(a, s, i, m) /\ Path(b, s, m, j)
<1> DEFINE u == a \o b
<1>1. /\ Len(u) = Len(a) + Len(b)
      /\ \A k \in 1..Len(a) + Len(b) : u[k] = IF k <= Len(a) THEN a[k] ELSE b[k - Len(a)]
  BY ConcatProperties
<1>2. Len(a) \in Nat /\ Len(b) \in Nat
  OBVIOUS
<1> DEFINE la == Len(a)
           lb == Len(b)
<1>3. PICK w \in [0..la + lb -> 0..Len(s)] :
            /\ w[0] = i /\ w[la + lb] = j
            /\ \A k \in 1..la + lb : w[k] \in CallEnd(u[k], s, w[k - 1])
  BY <1>1 DEF Path
<1> HIDE DEF u, la, lb
<1> DEFINE m == w[la]
           wa == [k \in 0..la |-> w[k]]
           wb == [k \in 0..lb |-> w[la + k]]
<1>4. la \in Nat /\ lb \in Nat
  BY <1>2 DEF la, lb
<1>5. m \in 0..Len(s)
  BY <1>4
<1>6. Path(a, s, i, m)
  <2>1. wa \in [0..la -> 0..Len(s)]
    BY <1>4
  <2>2. wa[0] = i /\ wa[la] = m
    BY <1>3, <1>4
  <2>3. \A k \in 1..la : wa[k] \in CallEnd(a[k], s, wa[k - 1])
    <3> TAKE k \in 1..la
    <3>1. k \in 1..la + lb /\ k \in 0..la /\ k - 1 \in 0..la /\ k <= la
      BY <1>4
    <3>2. u[k] = a[k]
      BY <1>1, <3>1 DEF la, lb
    <3>3. wa[k] = w[k] /\ wa[k - 1] = w[k - 1]
      BY <3>1
    <3> HIDE DEF wa
    <3> QED
      BY <1>3, <3>1, <3>2, <3>3
  <2> HIDE DEF wa, m
  <2> QED
    BY <2>1, <2>2, <2>3 DEF Path, la
<1>7. Path(b, s, m, j)
  <2>1. wb \in [0..lb -> 0..Len(s)]
    <3>1. \A k \in 0..lb : la + k \in 0..la + lb
      BY <1>4
    <3> QED
      BY <3>1
  <2>2. wb[0] = m /\ wb[lb] = j
    BY <1>3, <1>4
  <2>3. \A k \in 1..lb : wb[k] \in CallEnd(b[k], s, wb[k - 1])
    <3> TAKE k \in 1..lb
    <3>1. /\ la + k \in 1..la + lb /\ k \in 0..lb /\ k - 1 \in 0..lb
          /\ ~(la + k <= la) /\ la + k - la = k /\ la + (k - 1) = (la + k) - 1
      BY <1>4
    <3>2. u[la + k] = b[k]
      BY <1>1, <3>1 DEF la, lb
    <3>3. wb[k] = w[la + k] /\ wb[k - 1] = w[la + (k - 1)]
      BY <3>1
    <3> HIDE DEF wb
    <3>4. w[la + k] \in CallEnd(u[la + k], s, w[la + (k - 1)])
      <4> DEFINE q == la + k
      <4>1. q \in 1..la + lb
        BY <3>1
      <4>2. q - 1 = la + (k - 1)
        BY <3>1
      <4> HIDE DEF q
      <4>3. w[q] \in CallEnd(u[q], s, w[q - 1])
        BY <1>3, <4>1
      <4> QED
        BY <4>2, <4>3 DEF q
    <3> QED
      BY <3>2, <3>3, <3>4, Zenon
  <2> HIDE DEF wb, m
  <2> QED
    BY <2>1, <2>2, <2>3 DEF Path, lb
<1> QED
  BY <1>5, <1>6, <1>7

LEMMA PathJoin ==
    ASSUME NEW s \in Seq(Byte), NEW a \in Seq(Calls), NEW b \in Seq(Calls), NEW i, NEW m, NEW j,
           Path(a, s, i, m), Path(b, s, m, j)
    PROVE  Path(a \o b, s, i, j)
<1> DEFINE u == a \o b
<1>1. /\ Len(u) = Len(a) + Len(b)
      /\ \A k \in 1..Len(a) + Len(b) : u[k] = IF k <= Len(a) THEN a[k] ELSE b[k - Len(a)]
  BY ConcatProperties
<1>2. Len(a) \in Nat /\ Len(b) \in Nat
  OBVIOUS
<1> DEFINE la == Len(a)
           lb == Len(b)
<1>3. PICK wa \in [0..la -> 0..Len(s)] :
            /\ wa[0] = i /\ wa[la] = m
            /\ \A k \in 1..la : wa[k] \in CallEnd(a[k], s, wa[k - 1])
  BY DEF Path
<1>4. PICK wb \in [0..lb -> 0..Len(s)] :
            /\ wb[0] = m /\ wb[lb] = j
            /\ \A k \in 1..lb : wb[k] \in CallEnd(b[k], s, wb[k - 1])
  BY DEF Path
<1> HIDE DEF u, la, lb
<1>5. la \in Nat /\ lb \in Nat
  BY <1>2 DEF la, lb
<1> DEFINE w == [k \in 0..la + lb |-> IF k <= la THEN wa[k] ELSE wb[k - la]]
<1>6. w \in [0..la + lb -> 0..Len(s)]
  <2>1. \A k \in 0..la + lb : (k <= la => k \in 0..la) /\ (~(k <= la) => k - la \in 0..lb)
    BY <1>5
  <2> QED
    BY <2>1
<1>7. \A k \in 0..la : w[k] = wa[k]
  BY <1>5
<1>8. \A k \in 0..lb : w[la + k] = wb[k]
  <2> TAKE k \in 0..lb
  <2>1. la + k \in 0..la + lb /\ la + k - la = k /\ (la + k <= la => k = 0 /\ la + k = la)
    BY <1>5
  <2> QED
    BY <1>3, <1>4, <1>5, <2>1
<1> HIDE DEF w
<1>9. w[0] = i /\ w[la + lb] = j
  BY <1>3, <1>4, <1>5, <1>7, <1>8
<1>10. \A k \in 1..la + lb : w[k] \in CallEnd(u[k], s, w[k - 1])
  <2> TAKE k \in 1..la + lb
  <2>1. CASE k <= la
    <3>1. k \in 1..la /\ k \in 0..la /\ k - 1 \in 0..la
      BY <1>5, <2>1
    <3>2. u[k] = a[k]
      BY <1>1, <2>1 DEF la, lb
    <3> QED
      BY <1>3, <1>7, <3>1, <3>2
  <2>2. CASE ~(k <= la)
    <3>1. /\ k - la \in 1..lb /\ k - la \in 0..lb /\ (k - la) - 1 \in 0..lb
          /\ la + (k - la) = k /\ la + ((k - la) - 1) = k - 1
      BY <1>5, <2>2
    <3>2. u[k] = b[k - la]
      BY <1>1, <2>2 DEF la, lb
    <3>3. w[k] = wb[k - la] /\ w[k - 1] = wb[(k - la) - 1]
      BY <1>8, <3>1
    <3>4. wb[k - la] \in CallEnd(b[k - la], s, wb[(k - la) - 1])
      BY <1>4, <3>1
    <3> QED
      BY <3>2, <3>3, <3>4
  <2> QED
    BY <2>1, <2>2
<1> QED
  BY <1>1, <1>6, <1>9, <1>10 DEF Path, u, la, lb


\* A path along calls begins with the first of them.
LEMMA PathFirst ==
    ASSUME NEW s \in Seq(Byte), NEW c \in Calls, NEW t \in Seq(Calls), NEW i \in 0..Len(s), NEW j,
           Path(<<c>> \o t, s, i, j)
    PROVE  \E m \in 0..Len(s) : m \in CallEnd(c, s, i) /\ Path(t, s, m, j)
<1>1. <<c>> \in Seq(Calls)
  OBVIOUS
<1>2. PICK m \in 0..Len(s) : Path(<<c>>, s, i, m) /\ Path(t, s, m, j)
  BY <1>1, PathSplit
<1>3. m \in CallEnd(c, s, i)
  BY <1>2, PathOne
<1> QED
  BY <1>2, <1>3

\* What the calls derive from here has the form of the command.
Derives(calls, s, i) ==
    \A j \in 0..Len(s) : Path(calls, s, i, j) => j \in Form(NameOf(s), s)

\* A call may be replaced by calls that derive less.
LEMMA DerivesLess ==
    ASSUME NEW s \in Seq(Byte), NEW c \in Calls, NEW t \in Seq(Calls), NEW calls \in Seq(Calls),
           NEW i \in 0..Len(s), NEW k \in 0..Len(s),
           \A m \in 0..Len(s) : Path(calls, s, k, m) => m \in CallEnd(c, s, i),
           Derives(<<c>> \o t, s, i)
    PROVE  Derives(calls \o t, s, k)
<1> SUFFICES ASSUME NEW j \in 0..Len(s), Path(calls \o t, s, k, j)
             PROVE  j \in Form(NameOf(s), s)
  BY DEF Derives
<1>1. PICK m \in 0..Len(s) : Path(calls, s, k, m) /\ Path(t, s, m, j)
  BY PathSplit
<1>2. Path(<<c>>, s, i, m)
  BY <1>1, PathOne
<1>3. <<c>> \in Seq(Calls)
  OBVIOUS
<1>4. Path(<<c>> \o t, s, i, j)
  BY <1>1, <1>2, <1>3, PathJoin
<1> QED
  BY <1>4 DEF Derives

-----------------------------------------------------------------------------
(* What is read.                                                           *)

\* The place in the body that has been reached.
Pos == Len(input.body) - Len(rest)

Field == [key : Keys, value : Seq(Byte)]

\* rest is what is left of the body.
Reads ==
    /\ input.body \in Seq(Byte) /\ input.data \in BOOLEAN
    /\ rest \in Seq(Byte) /\ Len(rest) <= Len(input.body)
    /\ rest = SubSeq(input.body, Len(input.body) - Len(rest) + 1, Len(input.body))

LEMMA RestIs ==
    ASSUME Reads
    PROVE  /\ Len(rest) \in Nat /\ Len(input.body) \in Nat
           /\ Pos \in 0..Len(input.body) /\ Pos \in Nat /\ Pos + Len(rest) = Len(input.body)
           /\ \A k \in 1..Len(rest) : rest[k] = input.body[Pos + k] /\ rest[k] \in Byte
           /\ Type = At(input.body, Pos)
<1> DEFINE s == input.body
<1>1. /\ s \in Seq(Byte) /\ rest \in Seq(Byte) /\ Len(rest) <= Len(s)
      /\ rest = SubSeq(s, Len(s) - Len(rest) + 1, Len(s))
  BY DEF Reads
<1>2. Len(rest) \in Nat /\ Len(s) \in Nat
  BY <1>1
<1>3. Pos \in 0..Len(s) /\ Pos \in Nat /\ Pos + Len(rest) = Len(s) /\ Pos = Len(s) - Len(rest)
  BY <1>1, <1>2 DEF Pos
<1> HIDE DEF s, Pos
<1>4. rest = SubSeq(s, Pos + 1, Len(s)) /\ Len(s) - Pos = Len(rest)
  BY <1>1, <1>2, <1>3
<1>5. \A k \in 1..Len(rest) : rest[k] = s[Pos + k]
  <2>1. \A k \in 1..Len(s) - Pos : SubSeq(s, Pos + 1, Len(s))[k] = s[Pos + k]
    BY <1>1, <1>2, <1>3, CutProperties
  <2> QED
    BY <1>4, <2>1
<1>6. \A k \in 1..Len(rest) : rest[k] \in Byte
  BY <1>1, ElementOfSeq
<1>7. Type = At(s, Pos)
  <2>1. CASE rest = <<>>
    <3>1. ~(Pos < Len(s))
      BY <1>2, <1>3, <2>1
    <3> QED
      BY <2>1, <3>1 DEF Type, At
  <2>2. CASE rest # <<>>
    <3>1. Pos < Len(s) /\ 1 \in 1..Len(rest)
      BY <1>1, <1>2, <1>3, <2>2
    <3>2. rest[1] = s[Pos + 1]
      BY <1>5, <3>1
    <3> QED
      BY <2>2, <3>1, <3>2 DEF Type, At
  <2> QED
    BY <2>1, <2>2
<1> QED
  BY <1>2, <1>3, <1>5, <1>6, <1>7 DEF s

\* A C string ends at its first zero, or where it is cut off.
LEMMA NulIs ==
    ASSUME NEW s \in Seq(Byte)
    PROVE  UpToNul(s) \in Seq(Byte) /\ Len(UpToNul(s)) <= Len(s)
<1> DEFINE T == {i \in 1..Len(s) + 1 : i = Len(s) + 1 \/ s[i] = 0}
<1>1. Len(s) \in Nat /\ Len(s) + 1 \in T /\ T \subseteq Nat
  OBVIOUS
<1>2. PICK x \in T : \A y \in T : x <= y
  <2> HIDE DEF T
  <2> QED
    BY <1>1, LeastNumber
<1>3. /\ x \in 1..Len(s) + 1
      /\ x = Len(s) + 1 \/ s[x] = 0
      /\ \A j \in 1..x - 1 : s[j] # 0
  <2>1. \A j \in 1..x - 1 : j \notin T /\ j \in 1..Len(s) + 1
    BY <1>1, <1>2
  <2> QED
    BY <1>2, <2>1
<1>4. Nul(s) \in 1..Len(s) + 1
  BY <1>3 DEF Nul
<1> HIDE DEF T
<1> DEFINE n == Nul(s) - 1
<1>5. n \in Nat /\ n <= Len(s) /\ UpToNul(s) = SubSeq(s, 0 + 1, n) /\ n - 0 = n
  BY <1>1, <1>4 DEF UpToNul
<1> HIDE DEF n
<1>6. SubSeq(s, 0 + 1, n) \in Seq(Byte) /\ Len(SubSeq(s, 0 + 1, n)) = n - 0
  BY <1>5, CutProperties
<1> QED
  BY <1>5, <1>6

LEMMA NameIs ==
    ASSUME NEW text \in Seq(Byte)
    PROVE  AsName(text) \in Int
<1>1. CASE Len(text) = 1
  <2>1. text[1] \in Byte
    BY <1>1, ElementOfSeq
  <2>2. AsName(text) = text[1]
    BY <1>1 DEF AsName
  <2>3. Byte \subseteq Int
    BY DEF Byte
  <2> QED
    BY <2>1, <2>2, <2>3
<1>2. CASE Len(text) # 1
  BY <1>2 DEF AsName, other
<1> QED
  BY <1>1, <1>2

\* A text that is there ends in one place.
LEMMA TextRead ==
    ASSUME Reads, NEW i \in Nat \ {0}, TextThere(i)
    PROVE  /\ TextLength(i) \in Nat
           /\ i + 1 + TextLength(i) <= Len(rest)
           /\ TextEnd(input.body, Pos + i - 1) = {Pos + i + 1 + TextLength(i)}
           /\ Text(i) \in Seq(Byte)
<1> DEFINE s == input.body
           n == TextLength(i)
<1>1. /\ Len(rest) \in Nat /\ Len(s) \in Nat
      /\ Pos \in Nat /\ Pos + Len(rest) = Len(s)
      /\ \A k \in 1..Len(rest) : rest[k] = s[Pos + k] /\ rest[k] \in Byte
  BY RestIs
<1>2. i + 1 <= Len(rest) /\ i + 1 + n <= Len(rest)
  BY DEF TextThere
<1>3. i \in 1..Len(rest) /\ i + 1 \in 1..Len(rest)
  BY <1>1, <1>2
<1> DEFINE a == rest[i]
           b == rest[i + 1]
<1>4. a \in 0..255 /\ b \in 0..255 /\ s[Pos + i] = a /\ s[Pos + i + 1] = b
  <2>1. Pos + (i + 1) = Pos + i + 1
    BY <1>1
  <2> QED
    BY <1>1, <1>3, <2>1 DEF Byte
<1>5. n = 256 * a + b
  BY DEF TextLength
<1> HIDE DEF a, b
<1> HIDE DEF n
<1>6. n \in Nat
  <2>1. a \in 0..255 /\ b \in 0..255
    BY <1>4
  <2> QED
    BY <1>5, <2>1
<1>7. TextEnd(s, Pos + i - 1) = {Pos + i + 1 + n}
  <2>1. Pos + i - 1 + 2 <= Len(s)
    BY <1>1, <1>2
  <2>2. Pos + i - 1 + 1 = Pos + i /\ Pos + i - 1 + 2 = Pos + i + 1
    BY <1>1
  <2>3. TextEnd(s, Pos + i - 1) = Inside(s, Pos + i + 1 + 256 * a + b)
    BY <1>4, <2>1, <2>2 DEF TextEnd
  <2>4. Pos + i + 1 + 256 * a + b = Pos + i + 1 + n /\ Pos + i + 1 + n <= Len(s)
    <3>1. a \in 0..255 /\ b \in 0..255
      BY <1>4
    <3>2. /\ Len(rest) \in Nat /\ Len(s) \in Nat /\ Pos \in Nat /\ Pos + Len(rest) = Len(s)
      BY <1>1
    <3> QED
      BY <1>2, <1>5, <1>6, <3>1, <3>2
  <2> QED
    BY <2>3, <2>4 DEF Inside
<1>8. Text(i) \in Seq(Byte)
  <2> DEFINE m == i + 1
             e == i + 1 + n
  <2>1. m \in Nat /\ e \in Nat /\ m <= e /\ e <= Len(rest) /\ i + 2 = m + 1
    BY <1>1, <1>2, <1>6
  <2>2. rest \in Seq(Byte)
    BY DEF Reads
  <2>3. SubSeq(rest, m + 1, e) \in Seq(Byte)
    <3> HIDE DEF m, e
    <3> QED
      BY <2>1, <2>2, CutProperties
  <2>4. Text(i) = UpToNul(SubSeq(rest, m + 1, e))
    BY <2>1 DEF Text, n
  <2> QED
    BY <2>3, <2>4, NulIs
<1> QED
  BY <1>2, <1>6, <1>7, <1>8 DEF n

-----------------------------------------------------------------------------
(* The inductive invariant.                                                *)

Outcomes == {"running", "ok", "bad", "unsupported", "ignored", "terminated"}

\* What was read before the calls in todo is the beginning of a body of the
\* command's form, if the calls read the rest of it.
Inv ==
    /\ Reads
    /\ fields \in Seq(Field)
    /\ outcome \in Outcomes
    /\ outcome = "ok" => todo = <<>>
    /\ \/ todo = <<Parse("name")>> /\ rest = input.body
       \/ todo \in Seq(Calls) /\ Derives(todo, input.body, Pos)

LEMMA InvTyped ==
    ASSUME Inv
    PROVE  TypeOK
<1>1. \A i \in DOMAIN fields : fields[i] \in Field
  BY ElementOfSeq DEF Inv
<1>2. ASSUME NEW i \in DOMAIN fields, NEW j \in DOMAIN fields[i].value
      PROVE  fields[i].value[j] \in 0..255
  <2> DEFINE v == fields[i].value
  <2>1. v \in Seq(Byte)
    BY <1>1 DEF Field
  <2> HIDE DEF v
  <2>2. \A k \in DOMAIN v : v[k] \in Byte
    BY <2>1, ElementOfSeq
  <2> QED
    BY <1>2, <2>2 DEF v, Byte
<1>3. \A i \in DOMAIN fields : fields[i].key \in Keys
  BY <1>1 DEF Field
<1> QED
  BY <1>2, <1>3 DEF Inv, Reads, Outcomes, TypeOK, Byte, Keys

LEMMA InvForm ==
    ASSUME Inv
    PROVE  AcceptedHasForm
<1> SUFFICES ASSUME outcome = "ok"
             PROVE  Pos \in Form(NameOf(input.body), input.body)
  BY DEF AcceptedHasForm, Pos
<1>1. todo = <<>> /\ todo # <<Parse("name")>>
  BY DEF Inv
<1>2. Derives(<<>>, input.body, Pos) /\ Pos \in 0..Len(input.body)
  BY <1>1, RestIs DEF Inv
<1>3. Path(<<>>, input.body, Pos, Pos)
  BY <1>2, PathNone
<1> QED
  BY <1>2, <1>3 DEF Derives

LEMMA InitInv ==
    ASSUME Init
    PROVE  Inv
<1> DEFINE s == input.body
<1>1. s \in Seq(Byte) /\ input.data \in BOOLEAN /\ rest = s
  BY CommandsAssumption DEF CommandsAssumption, Init, Byte
<1>2. Reads
  <2>1. Len(s) \in Nat /\ Len(rest) = Len(s) /\ Len(s) - Len(rest) + 1 = 0 + 1
    BY <1>1
  <2> HIDE DEF s
  <2>2. SubSeq(s, 1, Len(s)) = s
    BY <1>1
  <2> QED
    BY <1>1, <2>1, <2>2 DEF Reads, s
<1> QED
  BY <1>1, <1>2 DEF Init, Inv, Outcomes

\* The call that is made, after the name has been read.
LEMMA Current ==
    ASSUME Inv, NEW ops \in SUBSET Ops, Pending(ops)
    PROVE  /\ Reads
           /\ todo \in Seq(Calls) /\ todo # <<>> /\ Tail(todo) \in Seq(Calls)
           /\ todo = <<todo[1]>> \o Tail(todo)
           /\ todo[1] \in Calls /\ todo[1].op \in ops
           /\ Derives(todo, input.body, Pos)
<1>1. Reads /\ todo # <<>> /\ todo[1].op \in ops
  BY DEF Inv, Pending
<1>2. todo # <<Parse("name")>>
  <2>1. <<Parse("name")>>[1].op = "name" /\ "name" \notin Ops
    BY DEF Parse, Call, Ops
  <2> QED
    BY <1>1, <2>1
<1>3. todo \in Seq(Calls) /\ Derives(todo, input.body, Pos)
  BY <1>2 DEF Inv
<1>4. /\ todo = <<todo[1]>> \o Tail(todo) /\ Tail(todo) \in Seq(Calls)
      /\ todo[1] \in Calls
  BY <1>1, <1>3
<1> QED
  BY <1>1, <1>3, <1>4

LEMMA Stops ==
    ASSUME Inv, NEW how \in Outcomes, how = "ok" => todo = <<>>, End(how)
    PROVE  Inv'
BY DEF Inv, End, Reads, Pos, Derives

LEMMA ReadsOn ==
    ASSUME Reads, NEW n \in Nat, n <= Len(rest),
           input' = input, rest' = SubSeq(rest, n + 1, Len(rest))
    PROVE  Reads' /\ Pos' = Pos + n /\ Pos' \in 0..Len(input.body)
<1> DEFINE s == input.body
           u == SubSeq(rest, n + 1, Len(rest))
           p == Pos
<1>1. /\ s \in Seq(Byte) /\ rest \in Seq(Byte)
      /\ Len(rest) \in Nat /\ Len(s) \in Nat /\ p \in Nat /\ p + Len(rest) = Len(s)
      /\ p = Len(s) - Len(rest)
      /\ rest = SubSeq(s, Len(s) - Len(rest) + 1, Len(s))
  <2>1. /\ s \in Seq(Byte) /\ rest \in Seq(Byte)
        /\ rest = SubSeq(s, Len(s) - Len(rest) + 1, Len(s))
    BY DEF Reads
  <2>2. Len(rest) \in Nat /\ Len(s) \in Nat /\ p \in Nat /\ p + Len(rest) = Len(s)
    BY RestIs
  <2>3. p = Len(s) - Len(rest)
    BY DEF Pos
  <2> QED
    BY <2>1, <2>2, <2>3
<1>2. u \in Seq(Byte) /\ Len(u) = Len(rest) - n
  <2>1. rest \in Seq(Byte) /\ Len(rest) \in Nat
    BY <1>1
  <2> HIDE DEF s, p
  <2> QED
    BY <2>1, CutProperties
<1> HIDE DEF s, p, u
<1>3. u = SubSeq(s, p + n + 1, Len(s))
  <2>1. rest = SubSeq(s, p + 1, Len(s)) /\ p + n <= Len(s)
    BY <1>1
  <2>2. s \in Seq(Byte) /\ p \in Nat
    BY <1>1
  <2> QED
    BY <2>1, <2>2, CutCut DEF u
<1>4. Len(u) \in Nat /\ Len(u) <= Len(s) /\ Len(s) - Len(u) = p + n /\ p + n \in 0..Len(s)
  BY <1>1, <1>2
<1>5. u = SubSeq(s, Len(s) - Len(u) + 1, Len(s))
  BY <1>3, <1>4
<1>6. input' = input /\ rest' = u
  BY DEF u
<1>7. Reads'
  BY <1>1, <1>2, <1>4, <1>5, <1>6 DEF Reads, s
<1>8. Pos' = p + n
  BY <1>4, <1>6 DEF Pos, s
<1> QED
  BY <1>4, <1>7, <1>8 DEF p, s

\* Calls may be put in the place of one that derives what they do.
LEMMA Goes ==
    ASSUME Inv, NEW ops \in SUBSET Ops, Pending(ops),
           NEW n \in Nat, n <= Len(rest), NEW calls \in Seq(Calls), Go(n, calls),
           \A m \in 0..Len(input.body) :
              Path(calls, input.body, Pos + n, m) => m \in CallEnd(todo[1], input.body, Pos),
           fields' \in Seq(Field)
    PROVE  Inv'
<1>1. /\ Reads
      /\ todo \in Seq(Calls) /\ todo # <<>> /\ Tail(todo) \in Seq(Calls)
      /\ todo = <<todo[1]>> \o Tail(todo)
      /\ todo[1] \in Calls
      /\ Derives(todo, input.body, Pos)
  BY Current
<1>2. /\ input' = input /\ rest' = SubSeq(rest, n + 1, Len(rest))
      /\ todo' = calls \o Tail(todo) /\ outcome' = outcome /\ outcome = "running"
  BY DEF Go, Pending
<1>3. Reads' /\ Pos' = Pos + n /\ Pos + n \in 0..Len(input.body)
  BY <1>1, <1>2, ReadsOn
<1> DEFINE s == input.body
           c == todo[1]
           t == Tail(todo)
           p == Pos
<1>4. s \in Seq(Byte) /\ p \in 0..Len(s)
  BY <1>1, RestIs DEF Reads
<1>5. Derives(<<c>> \o t, s, p)
  BY <1>1
<1>6. c \in Calls /\ t \in Seq(Calls) /\ p + n \in 0..Len(s)
  BY <1>1, <1>3
<1>7. \A m \in 0..Len(s) : Path(calls, s, p + n, m) => m \in CallEnd(c, s, p)
  OBVIOUS
<1> HIDE DEF s, c, t, p
<1>8. Derives(calls \o t, s, p + n)
  BY <1>4, <1>5, <1>6, <1>7, DerivesLess
<1>9. calls \o t \in Seq(Calls)
  BY <1>6
<1>10. Derives(todo', input.body, Pos + n)
  BY <1>2, <1>8 DEF s, t, p
<1>11. Derives(todo, input.body, Pos)'
  BY <1>2, <1>3, <1>10 DEF Derives
<1>12. todo' \in Seq(Calls)
  BY <1>2, <1>9 DEF t
<1> QED
  BY <1>2, <1>3, <1>11, <1>12 DEF Inv, Outcomes

LEMMA Kept ==
    ASSUME fields \in Seq(Field), NEW value \in Seq(Byte), Keep(value),
           todo[1] \in Calls, todo[1].op # "value"
    PROVE  fields' \in Seq(Field)
<1>1. todo[1].key \in Keys \union {NoKey}
  BY DEF Calls
<1>2. CASE todo[1].key = NoKey
  BY <1>2 DEF Keep
<1>3. CASE todo[1].key # NoKey
  <2> DEFINE f == [key |-> todo[1].key, value |-> value]
  <2>1. f \in Field
    BY <1>1, <1>3 DEF Field
  <2>2. fields' = Append(fields, f)
    BY <1>3 DEF Keep
  <2> HIDE DEF f
  <2> QED
    BY <2>1, <2>2
<1> QED
  BY <1>2, <1>3

LEMMA Cut ==
    ASSUME NEW s \in Seq(Byte), NEW m \in Nat, NEW n \in Nat, m <= n, n <= Len(s)
    PROVE  SubSeq(s, m + 1, n) \in Seq(Byte)
BY CutProperties

-----------------------------------------------------------------------------
(* The calls that read a value.                                            *)

LEMMA ParseStringKeeps ==
    ASSUME Inv, parseAsString
    PROVE  Inv'
<1>1. CASE End("bad")
  BY <1>1, Stops DEF Outcomes
<1>2. CASE ~End("bad")
  <2> DEFINE ops == {"string", "onMetaData"}
  <2>1. Pending(ops) /\ ops \in SUBSET Ops
    BY DEF parseAsString, Ops
  <2>2. /\ Type = String /\ TextThere(2)
        /\ Go(3 + TextLength(2), <<>>) /\ Keep(Text(2))
    BY <1>2 DEF parseAsString
  <2>3. Reads /\ todo[1] \in Calls /\ todo[1].op \in ops /\ fields \in Seq(Field)
    BY <2>1, Current DEF Inv
  <2> DEFINE s == input.body
             p == Pos
             n == 3 + TextLength(2)
  <2>4. TextLength(2) \in Nat /\ 2 + 1 + TextLength(2) <= Len(rest)
        /\ TextEnd(s, p + 2 - 1) = {p + 2 + 1 + TextLength(2)} /\ Text(2) \in Seq(Byte)
    BY <2>2, <2>3, TextRead
  <2>5. /\ p \in 0..Len(s) /\ p \in Nat /\ p + Len(rest) = Len(s)
        /\ Len(rest) \in Nat /\ Len(s) \in Nat /\ At(s, p) = String
    BY <2>2, <2>3, RestIs
  <2>6. fields' \in Seq(Field)
    BY <2>2, <2>3, <2>4, Kept
  <2>7. n \in Nat /\ n <= Len(rest) /\ p + n \in 0..Len(s) /\ p + 2 - 1 = p + 1
        /\ p + 2 + 1 + TextLength(2) = p + n
    BY <2>4, <2>5
  <2>8. p + n \in CallEnd(todo[1], s, p)
    <3>1. CallEnd(todo[1], s, p) = StringEnd(s, p)
      BY <2>3 DEF CallEnd
    <3>2. StringEnd(s, p) = TextEnd(s, p + 1)
      BY <2>5 DEF StringEnd
    <3> QED
      BY <3>1, <3>2, <2>4, <2>7
  <2>9. \A m \in 0..Len(s) : Path(<<>>, s, p + n, m) => m \in CallEnd(todo[1], s, p)
    BY <2>7, <2>8, PathNone
  <2>10. Go(n, <<>>) /\ <<>> \in Seq(Calls)
    BY <2>2
  <2> HIDE DEF n, ops
  <2> QED
    BY <2>1, <2>6, <2>7, <2>9, <2>10, Goes DEF s, p
<1> QED
  BY <1>1, <1>2

LEMMA ParseNumberKeeps ==
    ASSUME Inv, parseAsNumber
    PROVE  Inv'
<1>1. CASE End("bad")
  BY <1>1, Stops DEF Outcomes
<1>2. CASE ~End("bad")
  <2> DEFINE ops == {"number", "one"}
             n == 1 + NumSize
  <2>1. Pending(ops) /\ ops \in SUBSET Ops
    BY DEF parseAsNumber, Ops
  <2>2. /\ Type = Number /\ ~(Len(rest) < n)
        /\ Go(n, <<>>) /\ Keep(SubSeq(rest, 2, n))
    BY <1>2 DEF parseAsNumber
  <2>3. Reads /\ todo[1] \in Calls /\ todo[1].op \in ops /\ fields \in Seq(Field)
    BY <2>1, Current DEF Inv
  <2> DEFINE s == input.body
             p == Pos
  <2>4. n \in Nat /\ 1 <= n /\ NumSize \in Nat
    BY CommandsAssumption DEF CommandsAssumption
  <2>5. /\ p \in 0..Len(s) /\ p \in Nat /\ p + Len(rest) = Len(s)
        /\ Len(rest) \in Nat /\ Len(s) \in Nat /\ At(s, p) = Number
    BY <2>2, <2>3, RestIs
  <2>6. fields' \in Seq(Field)
    <3>1. rest \in Seq(Byte) /\ n <= Len(rest) /\ 1 + 1 = 2
      BY <2>2, <2>3, <2>4, <2>5 DEF Reads
    <3>2. SubSeq(rest, 1 + 1, n) \in Seq(Byte)
      <4> HIDE DEF n
      <4> QED
        BY <2>4, <3>1, Cut
    <3> QED
      BY <2>2, <2>3, <3>1, <3>2, Kept
  <2>7. n <= Len(rest) /\ p + n \in 0..Len(s) /\ p + 1 + NumSize = p + n
    BY <2>2, <2>4, <2>5
  <2>8. p + n \in CallEnd(todo[1], s, p)
    <3>1. CallEnd(todo[1], s, p) = NumberEnd(s, p)
      BY <2>3 DEF CallEnd
    <3>2. NumberEnd(s, p) = Inside(s, p + 1 + NumSize)
      BY <2>5 DEF NumberEnd
    <3> QED
      BY <3>1, <3>2, <2>5, <2>7 DEF Inside
  <2>9. \A m \in 0..Len(s) : Path(<<>>, s, p + n, m) => m \in CallEnd(todo[1], s, p)
    BY <2>7, <2>8, PathNone
  <2>10. Go(n, <<>>) /\ <<>> \in Seq(Calls)
    BY <2>2
  <2> HIDE DEF n, ops
  <2> QED
    BY <2>1, <2>4, <2>6, <2>7, <2>9, <2>10, Goes DEF s, p
<1> QED
  BY <1>1, <1>2

LEMMA ParseBoolKeeps ==
    ASSUME Inv, parseAsBool
    PROVE  Inv'
<1>1. CASE End("bad")
  BY <1>1, Stops DEF Outcomes
<1>2. CASE ~End("bad")
  <2> DEFINE ops == {"bool"}
             b == IF rest[2] = 0 THEN 0 ELSE 1
  <2>1. Pending(ops) /\ ops \in SUBSET Ops
    BY DEF parseAsBool, Ops
  <2>2. /\ Type = Bool /\ ~(Len(rest) < 2)
        /\ Go(2, <<>>) /\ Keep(<<b>>)
    BY <1>2 DEF parseAsBool
  <2>3. Reads /\ todo[1] \in Calls /\ todo[1].op = "bool" /\ fields \in Seq(Field)
    BY <2>1, Current DEF Inv
  <2> DEFINE s == input.body
             p == Pos
  <2>5. /\ p \in 0..Len(s) /\ p \in Nat /\ p + Len(rest) = Len(s)
        /\ Len(rest) \in Nat /\ Len(s) \in Nat /\ At(s, p) = Bool
    BY <2>2, <2>3, RestIs
  <2>6. fields' \in Seq(Field)
    <3>1. b \in Byte
      BY DEF Byte
    <3> HIDE DEF b
    <3>2. <<b>> \in Seq(Byte)
      BY <3>1
    <3> QED
      BY <2>2, <2>3, <3>2, Kept
  <2>7. 2 <= Len(rest) /\ p + 2 \in 0..Len(s)
    BY <2>2, <2>5
  <2>8. p + 2 \in CallEnd(todo[1], s, p)
    <3>1. CallEnd(todo[1], s, p) = BoolEnd(s, p)
      BY <2>3 DEF CallEnd
    <3>2. BoolEnd(s, p) = Inside(s, p + 2)
      BY <2>5 DEF BoolEnd
    <3> QED
      BY <3>1, <3>2, <2>7 DEF Inside
  <2>9. \A m \in 0..Len(s) : Path(<<>>, s, p + 2, m) => m \in CallEnd(todo[1], s, p)
    BY <2>7, <2>8, PathNone
  <2>10. Go(2, <<>>) /\ <<>> \in Seq(Calls) /\ 2 \in Nat
    BY <2>2
  <2> HIDE DEF ops
  <2> QED
    BY <2>1, <2>6, <2>7, <2>9, <2>10, Goes DEF s, p
<1> QED
  BY <1>1, <1>2

LEMMA ParseNullKeeps ==
    ASSUME Inv, parseNull
    PROVE  Inv'
<1>1. CASE End("bad")
  BY <1>1, Stops DEF Outcomes
<1>2. CASE ~End("bad")
  <2> DEFINE ops == {"null", "undefined"}
             type == IF todo[1].op = "null" THEN Null ELSE Undefined
  <2>1. Pending(ops) /\ ops \in SUBSET Ops
    BY DEF parseNull, Ops
  <2>2. Type = type /\ Go(1, <<>>) /\ fields' = fields
    BY <1>2 DEF parseNull
  <2>3. Reads /\ todo[1] \in Calls /\ todo[1].op \in ops /\ fields \in Seq(Field)
    BY <2>1, Current DEF Inv
  <2> DEFINE s == input.body
             p == Pos
  <2>5. /\ p \in 0..Len(s) /\ p \in Nat /\ p + Len(rest) = Len(s)
        /\ Len(rest) \in Nat /\ Len(s) \in Nat /\ At(s, p) = type
    BY <2>2, <2>3, RestIs
  <2>7. 1 <= Len(rest) /\ p + 1 \in 0..Len(s)
    <3>1. p < Len(s)
      BY <2>5 DEF At, Null, Undefined
    <3> QED
      BY <2>5, <3>1
  <2>8. p + 1 \in CallEnd(todo[1], s, p)
    <3>1. CallEnd(todo[1], s, p) = MarkEnd(s, p, type)
      BY <2>3 DEF CallEnd
    <3> QED
      BY <3>1, <2>5 DEF MarkEnd
  <2>9. \A m \in 0..Len(s) : Path(<<>>, s, p + 1, m) => m \in CallEnd(todo[1], s, p)
    BY <2>7, <2>8, PathNone
  <2>10. Go(1, <<>>) /\ <<>> \in Seq(Calls) /\ 1 \in Nat /\ fields' \in Seq(Field)
    BY <2>2, <2>3
  <2> HIDE DEF ops
  <2> QED
    BY <2>1, <2>7, <2>9, <2>10, Goes DEF s, p
<1> QED
  BY <1>1, <1>2

LEMMA NullOrObjectKeeps ==
    ASSUME Inv, nullOrObject
    PROVE  Inv'
<1>1. CASE End("bad")
  BY <1>1, Stops DEF Outcomes
<1>2. CASE ~End("bad")
  <2> DEFINE ops == {"nullOrObject"}
             calls == CASE Type = Null -> <<Parse("null")>>
                        [] Type = Object -> <<Parse("skipObject")>>
                        [] OTHER -> <<>>
  <2>1. Pending(ops) /\ ops \in SUBSET Ops
    BY DEF nullOrObject, Ops
  <2>2. Go(0, calls) /\ fields' = fields
    BY <1>2 DEF nullOrObject
  <2>3. Reads /\ todo[1] \in Calls /\ todo[1].op = "nullOrObject" /\ fields \in Seq(Field)
    BY <2>1, Current DEF Inv
  <2> DEFINE s == input.body
             p == Pos
  <2>4. /\ p \in 0..Len(s) /\ p \in Nat /\ Len(rest) \in Nat /\ p + 0 = p
    BY <2>3, RestIs
  <2>5. CallEnd(todo[1], s, p) = {p} \union MarkEnd(s, p, Null) \union ClosedEnd(s, p)
    BY <2>3 DEF CallEnd
  <2> HIDE DEF s, p
  <2>6. /\ calls \in Seq(Calls)
        /\ \A m \in 0..Len(s) : Path(calls, s, p, m) => m \in CallEnd(todo[1], s, p)
    <3> DEFINE null == Parse("null")
               object == Parse("skipObject")
    <3>1. null \in Calls /\ object \in Calls
      BY DEF Parse, Call, Calls, Ops, NoKey
    <3>2. CallEnd(null, s, p) = MarkEnd(s, p, Null) /\ CallEnd(object, s, p) = ClosedEnd(s, p)
      BY DEF Parse, Call, CallEnd
    <3>3. CASE Type = Null
      <4>1. calls = <<null>>
        BY <3>3 DEF Null, Object
      <4> HIDE DEF null, calls
      <4> QED
        BY <2>4, <2>5, <3>1, <3>2, <4>1, PathOne
    <3>4. CASE Type = Object
      <4>1. calls = <<object>>
        BY <3>4 DEF Null, Object
      <4> HIDE DEF object, calls
      <4> QED
        BY <2>4, <2>5, <3>1, <3>2, <4>1, PathOne
    <3>5. CASE Type # Null /\ Type # Object
      <4>1. calls = <<>>
        BY <3>5
      <4> HIDE DEF calls
      <4> QED
        BY <2>4, <2>5, <4>1, PathNone
    <3> QED
      BY <3>3, <3>4, <3>5
  <2>7. 0 \in Nat /\ 0 <= Len(rest) /\ fields' \in Seq(Field)
    BY <2>2, <2>3, <2>4
  <2> HIDE DEF ops, calls
  <2> QED
    BY <2>1, <2>2, <2>4, <2>6, <2>7, Goes DEF s, p
<1> QED
  BY <1>1, <1>2

-----------------------------------------------------------------------------
(* Objects.                                                                *)

LEMMA StartObjectKeeps ==
    ASSUME Inv, startObject
    PROVE  Inv'
<1> DEFINE ops == {"object", "objectOrArray", "skipObject"}
           op == todo[1].op
           size == IF Type = EcmaArray THEN 5 ELSE 1
           types == {Object} \union IF op = "objectOrArray" THEN {EcmaArray} ELSE {}
           key == Call("key", NoKey, op # "skipObject")
<1>1. CASE End("bad")
  BY <1>1, Stops DEF Outcomes
<1>2. CASE ~End("bad")
  <2>1. Pending(ops) /\ ops \in SUBSET Ops
    BY DEF startObject, Ops
  <2>2. Type \in types /\ ~(Len(rest) < size) /\ Go(size, <<key>>) /\ fields' = fields
    BY <1>2 DEF startObject
  <2>3. Reads /\ todo[1] \in Calls /\ op \in ops /\ fields \in Seq(Field)
    BY <2>1, Current DEF Inv
  <2> DEFINE s == input.body
             p == Pos
  <2>4. /\ p \in 0..Len(s) /\ p \in Nat /\ p + Len(rest) = Len(s)
        /\ Len(rest) \in Nat /\ Len(s) \in Nat /\ At(s, p) = Type
    BY <2>3, RestIs
  <2>5. size \in Nat /\ size <= Len(rest) /\ p + size \in 0..Len(s) /\ p + size <= Len(s)
    <3>1. size \in {1, 5}
      OBVIOUS
    <3> HIDE DEF size
    <3> QED
      BY <2>2, <2>4, <3>1
  <2>6. /\ key \in Calls
        /\ CallEnd(key, s, p + size) = Ends(s)[Place(op # "skipObject", "key", p + size)]
    BY DEF Call, Calls, Ops, NoKey, CallEnd
  <2>7. Ends(s)[Place(op # "skipObject", "key", p + size)] \subseteq CallEnd(todo[1], s, p)
    <3>1. CASE Type = Object
      <4>1. size = 1
        BY <3>1 DEF Object, EcmaArray
      <4>2. CASE op = "skipObject"
        <5>1. CallEnd(todo[1], s, p) = ClosedEnd(s, p)
          BY <4>2 DEF CallEnd
        <5>2. ClosedEnd(s, p) = Ends(s)[Place(FALSE, "key", p + 1)]
          BY <2>4, <3>1 DEF ClosedEnd
        <5>3. (op # "skipObject") = FALSE
          BY <4>2
        <5> QED
          BY <4>1, <5>1, <5>2, <5>3
      <4>3. CASE op # "skipObject"
        <5>1. OpenEnd(s, p) \subseteq CallEnd(todo[1], s, p)
          BY <2>3, <4>3 DEF CallEnd
        <5>2. OpenEnd(s, p) = Ends(s)[Place(TRUE, "key", p + 1)]
          BY <2>4, <3>1 DEF OpenEnd
        <5>3. (op # "skipObject") = TRUE
          BY <4>3
        <5> QED
          BY <4>1, <5>1, <5>2, <5>3
      <4> QED
        BY <4>2, <4>3
    <3>2. CASE Type # Object
      <4>1. Type = EcmaArray /\ op = "objectOrArray" /\ size = 5
        BY <2>2, <3>2
      <4>2. ArrayEnd(s, p) \subseteq CallEnd(todo[1], s, p)
        BY <4>1 DEF CallEnd
      <4>3. ArrayEnd(s, p) = Ends(s)[Place(TRUE, "key", p + 5)]
        BY <2>4, <2>5, <4>1 DEF ArrayEnd
      <4>4. (op # "skipObject") = TRUE
        BY <4>1
      <4> QED
        BY <4>1, <4>2, <4>3, <4>4
    <3> QED
      BY <3>1, <3>2
  <2> HIDE DEF key, size, s, p, ops
  <2>8. \A m \in 0..Len(s) : Path(<<key>>, s, p + size, m) => m \in CallEnd(todo[1], s, p)
    BY <2>5, <2>6, <2>7, PathOne
  <2>9. <<key>> \in Seq(Calls) /\ fields' \in Seq(Field)
    BY <2>2, <2>3, <2>6
  <2> QED
    BY <2>1, <2>2, <2>5, <2>8, <2>9, Goes DEF s, p
<1> QED
  BY <1>1, <1>2

\* A path along two calls.
LEMMA PathTwo ==
    ASSUME NEW s \in Seq(Byte), NEW c \in Calls, NEW d \in Calls, NEW i \in 0..Len(s),
           NEW j \in 0..Len(s), Path(<<c, d>>, s, i, j)
    PROVE  \E m \in 0..Len(s) : m \in CallEnd(c, s, i) /\ j \in CallEnd(d, s, m)
<1> DEFINE calls == <<c, d>>
<1>1. /\ calls \in Seq(Calls) /\ calls # <<>> /\ calls[1] = c
      /\ Tail(calls) = <<d>> /\ Tail(calls) \in Seq(Calls)
  OBVIOUS
<1> HIDE DEF calls
<1>2. calls = <<calls[1]>> \o Tail(calls)
  BY <1>1
<1>3. PICK m \in 0..Len(s) : m \in CallEnd(c, s, i) /\ Path(<<d>>, s, m, j)
  BY <1>1, <1>2, PathFirst DEF calls
<1>4. j \in CallEnd(d, s, m)
  BY <1>3, PathOne
<1> QED
  BY <1>3, <1>4

\* How an object may go on from a place in it.
LEMMA PropertyEnd ==
    ASSUME NEW s \in Seq(Byte), NEW i \in 0..Len(s), NEW c \in Calls, c.op \in {"key", "value"}
    PROVE  /\ CallEnd(c, s, i) = Ends(s)[Place(c.top, c.op, i)]
           /\ c.top /\ i = Len(s) => i \in CallEnd(c, s, i)
           /\ i # Len(s) => EndMark(s, i) \subseteq CallEnd(c, s, i)
           /\ c.op = "key" => \A j \in TextEnd(s, i) :
                 Ends(s)[Place(c.top, "value", j)] \subseteq CallEnd(c, s, i)
           /\ c.op = "value" => \A j \in ValueEnd(s, Ends(s), i) :
                 Ends(s)[Place(c.top, "key", j)] \subseteq CallEnd(c, s, i)
<1> DEFINE p == Place(c.top, c.op, i)
<1>1. c.top \in BOOLEAN /\ c.op \in {"key", "value"}
  BY DEF Calls
<1>2. p \in Places(s) /\ p.open = c.top /\ p.turn = c.op /\ p.at = i
  <2> DEFINE open == c.top
             turn == c.op
  <2>1. open \in BOOLEAN /\ turn \in {"key", "value"}
    BY <1>1
  <2> HIDE DEF open, turn
  <2>2. /\ Place(open, turn, i) \in Places(s) /\ Place(open, turn, i).open = open
        /\ Place(open, turn, i).turn = turn /\ Place(open, turn, i).at = i
    BY <2>1, PlaceIs
  <2> QED
    BY <2>2 DEF open, turn
<1>3. CallEnd(c, s, i) = Ends(s)[p]
  BY <1>1 DEF CallEnd
<1> HIDE DEF p
<1>4. Ends(s)[p] = Beyond(s, Ends(s), p)
  BY <1>2, EndsUnfold
<1> DEFINE e == Ends(s)
<1> HIDE DEF e
<1>5. e[p] = (IF p.open /\ p.at = Len(s) THEN {p.at} ELSE EndMark(s, p.at))
             \union IF p.turn = "key"
                      THEN UNION {e[Place(p.open, "value", j)] : j \in TextEnd(s, p.at)}
                      ELSE UNION {e[Place(p.open, "key", j)] : j \in ValueEnd(s, e, p.at)}
  BY <1>4, Zenon DEF Beyond, e
<1>6. c.top /\ i = Len(s) => i \in e[p]
  <2>1. p.open /\ p.at = Len(s) => p.at \in e[p]
    BY <1>5
  <2> QED
    BY <1>2, <2>1
<1>7. i # Len(s) => EndMark(s, i) \subseteq e[p]
  <2>1. p.at # Len(s) => EndMark(s, p.at) \subseteq e[p]
    BY <1>5
  <2> QED
    BY <1>2, <2>1
<1>8. c.op = "key" => \A j \in TextEnd(s, i) : e[Place(c.top, "value", j)] \subseteq e[p]
  <2>1. p.turn = "key" =>
          \A j \in TextEnd(s, p.at) : e[Place(p.open, "value", j)] \subseteq e[p]
    BY <1>5
  <2> QED
    BY <1>2, <2>1, Zenon
<1>9. c.op = "value" => \A j \in ValueEnd(s, e, i) : e[Place(c.top, "key", j)] \subseteq e[p]
  <2>1. p.turn # "key" =>
          \A j \in ValueEnd(s, e, p.at) : e[Place(p.open, "key", j)] \subseteq e[p]
    <3> HAVE p.turn # "key"
    <3>1. UNION {e[Place(p.open, "key", j)] : j \in ValueEnd(s, e, p.at)} \subseteq e[p]
      BY <1>5
    <3> QED
      BY <3>1
  <2>2. c.op = "value" => p.turn # "key"
    BY <1>2
  <2> QED
    BY <1>2, <2>1, <2>2, Zenon
<1> QED
  BY <1>3, <1>6, <1>7, <1>8, <1>9 DEF e, p

\* The end of an object is found where the grammar has it.
LEMMA NextTypeIs ==
    ASSUME Reads, rest # <<>>, NextType = ObjectEnd, ~(Len(rest) < 3)
    PROVE  EndMark(input.body, Pos) = {Pos + 3} /\ Pos # Len(input.body)
<1> DEFINE s == input.body
           p == Pos
<1>1. /\ p \in 0..Len(s) /\ p \in Nat /\ p + Len(rest) = Len(s)
      /\ Len(rest) \in Nat /\ Len(s) \in Nat
      /\ \A k \in 1..Len(rest) : rest[k] = s[p + k]
      /\ rest \in Seq(Byte) /\ s \in Seq(Byte)
  BY RestIs DEF Reads
<1> HIDE DEF s, p
<1>2. /\ p + 3 <= Len(s) /\ p # Len(s)
      /\ 1 \in 1..Len(rest) /\ 2 \in 1..Len(rest) /\ 3 \in 1..Len(rest)
  BY <1>1
<1>3. rest[1] = s[p + 1] /\ rest[2] = s[p + 2] /\ rest[3] = s[p + 3]
  BY <1>1, <1>2
<1>4. s[p + 1] = ObjectEnd \/ SubSeq(s, p + 1, p + 3) = <<0, 0, ObjectEnd>>
  <2>1. CASE Type # 0
    BY <1>3, <2>1 DEF NextType, Type
  <2>2. CASE Type = 0
    <3>1. rest[1] = 0 /\ SubSeq(rest, 2, 3) = <<0, ObjectEnd>>
      BY <2>2 DEF NextType, Type, Sliced, ObjectEnd, Number
    <3>2. SubSeq(rest, 2, 3)[1] = rest[2] /\ SubSeq(rest, 2, 3)[2] = rest[3]
      <4>1. \A k \in 1..3 - 1 : SubSeq(rest, 1 + 1, 3)[k] = rest[1 + k]
        BY <1>1, <1>2, CutProperties
      <4>2. 1 \in 1..3 - 1 /\ 2 \in 1..3 - 1 /\ 1 + 1 = 2 /\ 1 + 2 = 3
        OBVIOUS
      <4> QED
        BY <4>1, <4>2
    <3>3. s[p + 1] = 0 /\ s[p + 2] = 0 /\ s[p + 3] = ObjectEnd
      <4>1. <<0, ObjectEnd>>[1] = 0 /\ <<0, ObjectEnd>>[2] = ObjectEnd
        OBVIOUS
      <4>2. rest[2] = 0 /\ rest[3] = ObjectEnd
        BY <3>1, <3>2, <4>1, Zenon
      <4> QED
        BY <1>3, <3>1, <4>2
    <3> DEFINE u == SubSeq(s, p + 1, p + 3)
    <3>4. u \in Seq(Byte) /\ Len(u) = (p + 3) - p /\ \A k \in 1..(p + 3) - p : u[k] = s[p + k]
      BY <1>1, <1>2, CutProperties
    <3>5. (p + 3) - p = 3
      BY <1>1
    <3> HIDE DEF u
    <3>6. Len(u) = 3 /\ u[1] = 0 /\ u[2] = 0 /\ u[3] = ObjectEnd
      BY <3>3, <3>4, <3>5
    <3>7. u = <<0, 0, ObjectEnd>>
      <4> DEFINE v == <<0, 0, ObjectEnd>>
      <4>1. v \in Seq(Byte) /\ Len(v) = 3 /\ v[1] = 0 /\ v[2] = 0 /\ v[3] = ObjectEnd
        BY DEF ObjectEnd, Byte
      <4> HIDE DEF v
      <4>2. \A k \in 1..Len(u) : u[k] = v[k]
        BY <3>6, <4>1
      <4> QED
        BY <3>4, <3>6, <4>1, <4>2, SeqEqual DEF v
    <3> QED
      BY <3>7 DEF u
  <2> QED
    BY <2>1, <2>2
<1> QED
  BY <1>2, <1>4 DEF EndMark, s, p

\* A value is skipped, or kept, as what it is.
LEMMA ValueCall ==
    ASSUME NEW s \in Seq(Byte), NEW i \in 0..Len(s), NEW c \in Calls,
           c.op \in {"string", "number", "bool", "skipObject", "null", "undefined"}
    PROVE  CallEnd(c, s, i) \subseteq ValueEnd(s, Ends(s), i)
<1>1. CASE c.op = "string"
  BY <1>1, Zenon DEF CallEnd, ValueEnd
<1>2. CASE c.op = "number"
  BY <1>2 DEF CallEnd, ValueEnd
<1>3. CASE c.op = "bool"
  BY <1>3 DEF CallEnd, ValueEnd
<1>4. CASE c.op = "null"
  BY <1>4 DEF CallEnd, ValueEnd
<1>5. CASE c.op = "undefined"
  BY <1>5 DEF CallEnd, ValueEnd
<1>6. CASE c.op = "skipObject"
  <2>1. CallEnd(c, s, i) = ClosedEnd(s, i)
    BY <1>6 DEF CallEnd
  <2> QED
    BY <2>1 DEF ClosedEnd, ValueEnd
<1> QED
  BY <1>1, <1>2, <1>3, <1>4, <1>5, <1>6

LEMMA WantedIs ==
    ASSUME NEW key, Wanted(key, Type) # "any"
    PROVE  key \in Keys /\ Wanted(key, Type) \in {"string", "number", "bool"}
BY DEF Wanted, Keys

LEMMA SkipIs ==
    ASSUME Type \in Skippable
    PROVE  SkipCall(Type) \in {"string", "number", "bool", "skipObject", "null", "undefined"}
BY DEF Skippable, SkipCall, Number, Bool, String, Object, Null, Undefined

\* The calls for a value, and for the rest of the object behind it.
LEMMA TurnKeeps ==
    ASSUME Inv, NEW ops \in SUBSET Ops, Pending(ops), todo[1].op = "value",
           NEW c \in Calls,
           c.op \in {"string", "number", "bool", "skipObject", "null", "undefined"},
           Go(0, <<c, Turn(todo[1].top)>>), fields' = fields
    PROVE  Inv'
<1> DEFINE s == input.body
           p == Pos
           d == Turn(todo[1].top)
<1>1. Reads /\ todo[1] \in Calls /\ fields \in Seq(Field)
  BY Current DEF Inv
<1>2. s \in Seq(Byte) /\ p \in 0..Len(s) /\ Len(rest) \in Nat /\ p + 0 = p
  <2>1. s \in Seq(Byte) /\ p \in Nat /\ p \in 0..Len(s) /\ Len(rest) \in Nat
    BY <1>1, RestIs DEF Reads
  <2> HIDE DEF p
  <2> QED
    BY <2>1
<1>3. d \in Calls /\ d.op = "key" /\ d.top = todo[1].top
  BY <1>1 DEF Turn, Call, Calls, Ops, NoKey
<1> HIDE DEF s, p, d
<1>4. ASSUME NEW m \in 0..Len(s), Path(<<c, d>>, s, p, m)
      PROVE  m \in CallEnd(todo[1], s, p)
  <2>1. PICK k \in 0..Len(s) : k \in CallEnd(c, s, p) /\ m \in CallEnd(d, s, k)
    BY <1>2, <1>3, <1>4, PathTwo
  <2>2. k \in ValueEnd(s, Ends(s), p)
    BY <1>2, <2>1, ValueCall
  <2>3. CallEnd(d, s, k) = Ends(s)[Place(d.top, d.op, k)]
    BY <1>2, <1>3, PropertyEnd
  <2>4. Ends(s)[Place(todo[1].top, "key", k)] \subseteq CallEnd(todo[1], s, p)
    BY <1>1, <1>2, <2>2, PropertyEnd
  <2> QED
    BY <1>3, <2>1, <2>3, <2>4
<1>5. <<c, d>> \in Seq(Calls) /\ 0 \in Nat /\ 0 <= Len(rest) /\ Go(0, <<c, d>>)
  BY <1>2, <1>3 DEF d
<1>6. fields' \in Seq(Field)
  BY <1>1
<1> QED
  BY <1>2, <1>4, <1>5, <1>6, Goes DEF s, p

LEMMA PropertyKeeps ==
    ASSUME Inv, property
    PROVE  Inv'
<1> DEFINE ops == {"key", "value"}
           top == todo[1].top
           s == input.body
           p == Pos
<1>1. Pending(ops) /\ ops \in SUBSET Ops
  BY DEF property, Ops
<1>2. /\ Reads /\ todo[1] \in Calls /\ todo[1].op \in ops /\ fields \in Seq(Field)
      /\ outcome \in Outcomes
  BY <1>1, Current DEF Inv
<1>3. /\ s \in Seq(Byte) /\ p \in 0..Len(s) /\ p \in Nat /\ p + Len(rest) = Len(s) /\ p + 0 = p
      /\ Len(rest) \in Nat /\ Len(s) \in Nat
  <2>1. /\ s \in Seq(Byte) /\ p \in 0..Len(s) /\ p \in Nat /\ p + Len(rest) = Len(s)
        /\ Len(rest) \in Nat /\ Len(s) \in Nat
    BY <1>2, RestIs DEF Reads
  <2> HIDE DEF p
  <2> QED
    BY <2>1
<1>4. CASE End("bad") \/ End("terminated")
  BY <1>4, Stops DEF Outcomes
<1>5. CASE rest = <<>> /\ ~(End("bad") \/ End("terminated"))
  <2>1. top /\ Go(0, <<>>) /\ fields' = fields
    BY <1>5 DEF property, MayFinish
  <2>2. p = Len(s) /\ 0 <= Len(rest)
    BY <1>3, <1>5
  <2>3. p \in CallEnd(todo[1], s, p)
    <3> HIDE DEF s, p
    <3> QED
      BY <1>2, <1>3, <2>1, <2>2, PropertyEnd
  <2>4. \A m \in 0..Len(s) : Path(<<>>, s, p + 0, m) => m \in CallEnd(todo[1], s, p)
    <3> HIDE DEF s, p
    <3> QED
      BY <1>3, <2>3, PathNone
  <2>5. <<>> \in Seq(Calls) /\ fields' \in Seq(Field) /\ 0 \in Nat
    BY <1>2, <2>1
  <2> HIDE DEF ops
  <2> QED
    BY <1>1, <2>1, <2>2, <2>4, <2>5, Goes DEF s, p
<1>6. CASE rest # <<>> /\ NextType = ObjectEnd /\ ~(End("bad") \/ End("terminated"))
  <2>1. ~(Len(rest) < 3) /\ Go(3, <<>>) /\ fields' = fields
    BY <1>6 DEF property, Sliced, ObjectEnd
  <2>2. EndMark(s, p) = {p + 3} /\ p # Len(s)
    BY <1>2, <1>6, <2>1, NextTypeIs
  <2>3. 3 <= Len(rest) /\ p + 3 \in 0..Len(s)
    BY <1>3, <2>1
  <2>4. p + 3 \in CallEnd(todo[1], s, p)
    <3> HIDE DEF s, p
    <3> QED
      BY <1>2, <1>3, <2>2, PropertyEnd
  <2>5. \A m \in 0..Len(s) : Path(<<>>, s, p + 3, m) => m \in CallEnd(todo[1], s, p)
    <3> HIDE DEF s, p
    <3> QED
      BY <2>3, <2>4, PathNone
  <2>6. <<>> \in Seq(Calls) /\ fields' \in Seq(Field) /\ 3 \in Nat
    BY <1>2, <2>1
  <2> HIDE DEF ops
  <2> QED
    BY <1>1, <2>1, <2>3, <2>5, <2>6, Goes DEF s, p
<1>7. CASE /\ rest # <<>> /\ NextType \notin {Sliced, ObjectEnd} /\ todo[1].op = "key"
           /\ ~(End("bad") \/ End("terminated"))
  <2> DEFINE n == 2 + TextLength(1)
             c == Call("value", AsName(Text(1)), top)
  <2>1. TextThere(1) /\ Go(n, <<c>>) /\ fields' = fields
    BY <1>7 DEF property, parseKey
  <2>2. /\ TextLength(1) \in Nat /\ 1 + 1 + TextLength(1) <= Len(rest)
        /\ TextEnd(s, p + 1 - 1) = {p + 1 + 1 + TextLength(1)} /\ Text(1) \in Seq(Byte)
    BY <1>2, <2>1, TextRead
  <2>3. /\ n \in Nat /\ n <= Len(rest) /\ p + n \in 0..Len(s) /\ p + 1 - 1 = p
        /\ p + 1 + 1 + TextLength(1) = p + n
    BY <1>3, <2>2
  <2>4. c \in Calls /\ c.op = "value" /\ c.top = top
    <3>1. AsName(Text(1)) \in Int /\ top \in BOOLEAN
      BY <1>2, <2>2, NameIs DEF Calls
    <3> QED
      BY <3>1 DEF Call, Calls, Ops
  <2> HIDE DEF n, c, s, p
  <2>5. p + n \in TextEnd(s, p)
    BY <2>2, <2>3
  <2>6. Ends(s)[Place(top, "value", p + n)] \subseteq CallEnd(todo[1], s, p)
    BY <1>2, <1>3, <1>7, <2>5, PropertyEnd
  <2>7. CallEnd(c, s, p + n) = Ends(s)[Place(top, "value", p + n)]
    <3>1. CallEnd(c, s, p + n) = Ends(s)[Place(c.top, c.op, p + n)]
      BY <1>3, <2>3, <2>4, PropertyEnd
    <3> QED
      BY <2>4, <3>1
  <2>8. \A m \in 0..Len(s) : Path(<<c>>, s, p + n, m) => m \in CallEnd(todo[1], s, p)
    BY <2>3, <2>6, <2>7, PathOne
  <2>9. <<c>> \in Seq(Calls) /\ fields' \in Seq(Field)
    BY <1>2, <2>1, <2>4
  <2> HIDE DEF ops
  <2> QED
    BY <1>1, <2>1, <2>3, <2>8, <2>9, Goes DEF s, p
<1>8. CASE /\ rest # <<>> /\ NextType \notin {Sliced, ObjectEnd} /\ todo[1].op = "value"
           /\ ~(End("bad") \/ End("terminated"))
  <2> DEFINE key == todo[1].key
             op == IF top THEN Wanted(key, Type) ELSE "any"
  <2>1. parseValue(key, top)
    BY <1>8 DEF property
  <2>2. CASE op # "any"
    <3> DEFINE c == Arg(op, key)
    <3>1. Go(0, <<c, Turn(top)>>) /\ fields' = fields
      BY <2>1, <2>2 DEF parseValue
    <3>2. key \in Keys /\ op \in {"string", "number", "bool"}
      BY <2>2, WantedIs
    <3> HIDE DEF op
    <3>3. c \in Calls /\ c.op = op
      BY <3>2 DEF Arg, Call, Calls, Ops, Keys, Name, Flag, Rate, Codec
    <3> HIDE DEF c, ops
    <3> QED
      BY <1>1, <1>8, <3>1, <3>2, <3>3, TurnKeeps
  <2>3. CASE op = "any"
    <3> DEFINE c == Parse(SkipCall(Type))
    <3>1. Type \in Skippable /\ Go(0, <<c, Turn(top)>>) /\ fields' = fields
      BY <1>8, <2>1, <2>3 DEF parseValue
    <3>2. SkipCall(Type) \in {"string", "number", "bool", "skipObject", "null", "undefined"}
      BY <3>1, SkipIs
    <3>3. c \in Calls /\ c.op = SkipCall(Type)
      BY <3>2 DEF Parse, Call, Calls, Ops, NoKey
    <3> HIDE DEF c, ops
    <3> QED
      BY <1>1, <1>8, <3>1, <3>2, <3>3, TurnKeeps
  <2> QED
    BY <2>2, <2>3
<1>9. rest # <<>> /\ NextType = Sliced => End("terminated")
  BY DEF property, Sliced, ObjectEnd
<1> QED
  BY <1>2, <1>4, <1>5, <1>6, <1>7, <1>8, <1>9

-----------------------------------------------------------------------------
(* The name of the body, and the calls it asks for.                        *)

LEMMA PathThree ==
    ASSUME NEW s \in Seq(Byte), NEW a \in Calls, NEW b \in Calls, NEW c \in Calls,
           NEW i \in 0..Len(s), NEW j \in 0..Len(s), Path(<<a, b, c>>, s, i, j)
    PROVE  \E k, m \in 0..Len(s) :
              k \in CallEnd(a, s, i) /\ m \in CallEnd(b, s, k) /\ j \in CallEnd(c, s, m)
<1> DEFINE calls == <<a, b, c>>
<1>1. /\ calls \in Seq(Calls) /\ calls # <<>> /\ calls[1] = a
      /\ Tail(calls) = <<b, c>> /\ Tail(calls) \in Seq(Calls)
  OBVIOUS
<1> HIDE DEF calls
<1>2. calls = <<calls[1]>> \o Tail(calls)
  BY <1>1
<1>3. PICK k \in 0..Len(s) : k \in CallEnd(a, s, i) /\ Path(<<b, c>>, s, k, j)
  BY <1>1, <1>2, PathFirst DEF calls
<1>4. PICK m \in 0..Len(s) : m \in CallEnd(b, s, k) /\ j \in CallEnd(c, s, m)
  BY <1>3, PathTwo
<1> QED
  BY <1>3, <1>4

LEMMA PathFour ==
    ASSUME NEW s \in Seq(Byte), NEW a \in Calls, NEW b \in Calls, NEW c \in Calls, NEW d \in Calls,
           NEW i \in 0..Len(s), NEW j \in 0..Len(s), Path(<<a, b, c, d>>, s, i, j)
    PROVE  \E k, m, n \in 0..Len(s) :
              /\ k \in CallEnd(a, s, i) /\ m \in CallEnd(b, s, k)
              /\ n \in CallEnd(c, s, m) /\ j \in CallEnd(d, s, n)
<1> DEFINE calls == <<a, b, c, d>>
<1>1. /\ calls \in Seq(Calls) /\ calls # <<>> /\ calls[1] = a
      /\ Tail(calls) = <<b, c, d>> /\ Tail(calls) \in Seq(Calls)
  OBVIOUS
<1> HIDE DEF calls
<1>2. calls = <<calls[1]>> \o Tail(calls)
  BY <1>1
<1>3. PICK k \in 0..Len(s) : k \in CallEnd(a, s, i) /\ Path(<<b, c, d>>, s, k, j)
  BY <1>1, <1>2, PathFirst DEF calls
<1>4. PICK m, n \in 0..Len(s) :
             m \in CallEnd(b, s, k) /\ n \in CallEnd(c, s, m) /\ j \in CallEnd(d, s, n)
  BY <1>3, PathThree
<1> QED
  BY <1>3, <1>4

LEMMA ThenHas ==
    ASSUME NEW s, NEW starts, NEW what, NEW i \in starts, NEW j \in After(what, s, i)
    PROVE  j \in Then(starts, what, s)
BY DEF Then

LEMMA CallAfter ==
    ASSUME NEW s, NEW i, NEW c \in Calls
    PROVE  /\ c.op \in {"string", "onMetaData"} => CallEnd(c, s, i) = After("string", s, i)
           /\ c.op \in {"number", "one"} => CallEnd(c, s, i) = After("number", s, i)
           /\ c.op = "null" => CallEnd(c, s, i) = After("null", s, i)
           /\ c.op = "nullOrObject" => CallEnd(c, s, i) = After("skipped", s, i)
           /\ c.op = "object" => CallEnd(c, s, i) = After("object", s, i)
           /\ c.op = "objectOrArray" => CallEnd(c, s, i) = After("objectOrArray", s, i)
BY DEF CallEnd, After

LEMMA ProgramCalls ==
    /\ \A op \in Ops : Parse(op).op = op
    /\ \A op \in Ops : op # "value" => Parse(op) \in Calls
    /\ \A op \in Ops, key \in 1..3 :
          Arg(op, key).op = op /\ (op # "value" => Arg(op, key) \in Calls)
BY DEF Parse, Arg, Call, Calls, NoKey, Keys

\* The calls of a command read what has its form.
LEMMA ProgramDerives ==
    ASSUME NEW s \in Seq(Byte), NEW i \in 0..Len(s), i \in Then({0}, "string", s),
           NEW name \in {connect, releaseStream, FCPublish, createStream, publish, setDataFrame},
           name = NameOf(s)
    PROVE  Program(name) \in Seq(Calls) /\ Derives(Program(name), s, i)
<1> DEFINE named == Then({0}, "string", s)
           numbered == Then(named, "number", s)
           number == Arg("number", 1)
           one == Parse("one")
           object == Parse("object")
           nullOrObject2 == Parse("nullOrObject")
           null == Parse("null")
           second == Arg("string", 2)
           third == Arg("string", 3)
           meta == Parse("onMetaData")
           array == Parse("objectOrArray")
<1>1. /\ number \in Calls /\ number.op = "number"
      /\ one \in Calls /\ one.op = "one"
      /\ object \in Calls /\ object.op = "object"
      /\ nullOrObject2 \in Calls /\ nullOrObject2.op = "nullOrObject"
      /\ null \in Calls /\ null.op = "null"
      /\ second \in Calls /\ second.op = "string"
      /\ third \in Calls /\ third.op = "string"
      /\ meta \in Calls /\ meta.op = "onMetaData"
      /\ array \in Calls /\ array.op = "objectOrArray"
  <2>1. \A op \in {"one", "object", "nullOrObject", "null", "onMetaData", "objectOrArray"} :
           op \in Ops /\ op # "value"
    BY DEF Ops
  <2>2. \A op \in {"number", "string"} : op \in Ops /\ op # "value"
    BY DEF Ops
  <2>3. one \in Calls /\ one.op = "one" /\ object \in Calls /\ object.op = "object"
    BY <2>1, ProgramCalls
  <2>4. /\ nullOrObject2 \in Calls /\ nullOrObject2.op = "nullOrObject"
        /\ null \in Calls /\ null.op = "null"
    BY <2>1, ProgramCalls
  <2>5. /\ meta \in Calls /\ meta.op = "onMetaData"
        /\ array \in Calls /\ array.op = "objectOrArray"
    BY <2>1, ProgramCalls
  <2>6. number \in Calls /\ number.op = "number"
    BY <2>2, ProgramCalls
  <2>7. second \in Calls /\ second.op = "string" /\ third \in Calls /\ third.op = "string"
    BY <2>2, ProgramCalls
  <2> HIDE DEF number, one, object, nullOrObject2, null, second, third, meta, array
  <2> QED
    BY <2>3, <2>4, <2>5, <2>6, <2>7
<1>2. i \in named
  OBVIOUS
<1> HIDE DEF named, numbered, number, one, object, nullOrObject2, null, second, third, meta, array
<1>3. CASE name = connect
  <2>1. Program(name) = <<one, object>>
    BY <1>3 DEF Program, connect, releaseStream, FCPublish, createStream, publish,
                setDataFrame, one, object
  <2>2. Form(name, s) = Then(numbered, "object", s)
    BY <1>3 DEF Form, connect, releaseStream, FCPublish, createStream, publish,
                setDataFrame, numbered, named
  <2>3. ASSUME NEW j \in 0..Len(s), Path(<<one, object>>, s, i, j) PROVE j \in Form(name, s)
    <3>1. PICK k \in 0..Len(s) : k \in CallEnd(one, s, i) /\ j \in CallEnd(object, s, k)
      BY <1>1, <2>3, PathTwo
    <3>2. k \in After("number", s, i) /\ j \in After("object", s, k)
      BY <1>1, <3>1, CallAfter
    <3>3. k \in numbered
      BY <1>2, <3>2, ThenHas DEF numbered
    <3> QED
      BY <2>2, <3>2, <3>3, ThenHas
  <2>4. <<one, object>> \in Seq(Calls)
    BY <1>1
  <2> QED
    BY <2>1, <2>3, <2>4 DEF Derives
<1>4. CASE name = setDataFrame
  <2> DEFINE twice == Then(named, "string", s)
  <2>1. Program(name) = <<meta, array>>
    BY <1>4 DEF Program, connect, releaseStream, FCPublish, createStream, publish,
                setDataFrame, meta, array
  <2>2. Form(name, s) = Then(twice, "objectOrArray", s)
    BY <1>4 DEF Form, connect, releaseStream, FCPublish, createStream, publish,
                setDataFrame, named
  <2>3. ASSUME NEW j \in 0..Len(s), Path(<<meta, array>>, s, i, j) PROVE j \in Form(name, s)
    <3>1. PICK k \in 0..Len(s) : k \in CallEnd(meta, s, i) /\ j \in CallEnd(array, s, k)
      BY <1>1, <2>3, PathTwo
    <3>2. k \in After("string", s, i) /\ j \in After("objectOrArray", s, k)
      BY <1>1, <3>1, CallAfter
    <3>3. k \in twice
      BY <1>2, <3>2, ThenHas
    <3> HIDE DEF twice
    <3> QED
      BY <2>2, <3>2, <3>3, ThenHas
  <2>4. <<meta, array>> \in Seq(Calls)
    BY <1>1
  <2> QED
    BY <2>1, <2>3, <2>4 DEF Derives
<1>5. CASE name = createStream
  <2>1. Program(name) = <<number, nullOrObject2>>
    BY <1>5 DEF Program, connect, releaseStream, FCPublish, createStream, publish,
                setDataFrame, number, nullOrObject2
  <2>2. Form(name, s) = Then(numbered, "skipped", s)
    BY <1>5 DEF Form, connect, releaseStream, FCPublish, createStream, publish,
                setDataFrame, numbered, named
  <2>3. ASSUME NEW j \in 0..Len(s), Path(<<number, nullOrObject2>>, s, i, j)
        PROVE  j \in Form(name, s)
    <3>1. PICK k \in 0..Len(s) : k \in CallEnd(number, s, i) /\ j \in CallEnd(nullOrObject2, s, k)
      BY <1>1, <2>3, PathTwo
    <3>2. k \in After("number", s, i) /\ j \in After("skipped", s, k)
      BY <1>1, <3>1, CallAfter
    <3>3. k \in numbered
      BY <1>2, <3>2, ThenHas DEF numbered
    <3> QED
      BY <2>2, <3>2, <3>3, ThenHas
  <2>4. <<number, nullOrObject2>> \in Seq(Calls)
    BY <1>1
  <2> QED
    BY <2>1, <2>3, <2>4 DEF Derives
<1>6. CASE name \in {releaseStream, FCPublish}
  <2> DEFINE skipped == Then(numbered, "skipped", s)
  <2>1. Program(name) = <<number, nullOrObject2, second>>
    BY <1>6 DEF Program, connect, releaseStream, FCPublish, createStream, publish,
                setDataFrame, number, nullOrObject2, second
  <2>2. Form(name, s) = Then(skipped, "string", s)
    BY <1>6 DEF Form, connect, releaseStream, FCPublish, createStream, publish,
                setDataFrame, numbered, named
  <2>3. ASSUME NEW j \in 0..Len(s), Path(<<number, nullOrObject2, second>>, s, i, j)
        PROVE  j \in Form(name, s)
    <3>1. PICK k, m \in 0..Len(s) :
                /\ k \in CallEnd(number, s, i) /\ m \in CallEnd(nullOrObject2, s, k)
                /\ j \in CallEnd(second, s, m)
      BY <1>1, <2>3, PathThree
    <3>2. k \in After("number", s, i) /\ m \in After("skipped", s, k) /\ j \in After("string", s, m)
      BY <1>1, <3>1, CallAfter
    <3>3. k \in numbered
      BY <1>2, <3>2, ThenHas DEF numbered
    <3>4. m \in skipped
      BY <3>2, <3>3, ThenHas
    <3> HIDE DEF skipped
    <3> QED
      BY <2>2, <3>2, <3>4, ThenHas
  <2>4. <<number, nullOrObject2, second>> \in Seq(Calls)
    BY <1>1
  <2> QED
    BY <2>1, <2>3, <2>4 DEF Derives
<1>7. CASE name = publish
  <2> DEFINE nulled == Then(numbered, "null", s)
             once == Then(nulled, "string", s)
  <2>1. Program(name) = <<number, null, second, third>>
    BY <1>7 DEF Program, connect, releaseStream, FCPublish, createStream, publish,
                setDataFrame, number, null, second, third
  <2>2. Form(name, s) = Then(once, "string", s)
    BY <1>7 DEF Form, connect, releaseStream, FCPublish, createStream, publish,
                setDataFrame, numbered, named
  <2>3. ASSUME NEW j \in 0..Len(s), Path(<<number, null, second, third>>, s, i, j)
        PROVE  j \in Form(name, s)
    <3>1. PICK k, m, n \in 0..Len(s) :
                /\ k \in CallEnd(number, s, i) /\ m \in CallEnd(null, s, k)
                /\ n \in CallEnd(second, s, m) /\ j \in CallEnd(third, s, n)
      BY <1>1, <2>3, PathFour
    <3>2. /\ k \in After("number", s, i) /\ m \in After("null", s, k)
          /\ n \in After("string", s, m) /\ j \in After("string", s, n)
      BY <1>1, <3>1, CallAfter
    <3>3. k \in numbered
      BY <1>2, <3>2, ThenHas DEF numbered
    <3>4. m \in nulled
      BY <3>2, <3>3, ThenHas
    <3>5. n \in once
      <4> HIDE DEF nulled
      <4> QED
        BY <3>2, <3>4, ThenHas
    <3> HIDE DEF once
    <3> QED
      BY <2>2, <3>2, <3>5, ThenHas
  <2>4. <<number, null, second, third>> \in Seq(Calls)
    BY <1>1
  <2> QED
    BY <2>1, <2>3, <2>4 DEF Derives
<1> QED
  BY <1>3, <1>4, <1>5, <1>6, <1>7

LEMMA PeekNameKeeps ==
    ASSUME Inv, peekName
    PROVE  Inv'
<1> DEFINE s == input.body
           n == 3 + TextLength(2)
           name == AsName(Text(2))
<1>1. CASE End("bad") \/ End("ignored") \/ End("unsupported")
  BY <1>1, Stops DEF Outcomes
<1>2. CASE ~(End("bad") \/ End("ignored") \/ End("unsupported"))
  <2>1. /\ Type = String /\ TextThere(2) /\ Known(name)
        /\ Go(n, Program(name)) /\ fields' = fields
    BY <1>2 DEF peekName
  <2>2. todo = <<Parse("name")>> /\ rest = s
    <3>1. todo # <<>> /\ todo[1].op = "name"
      BY DEF peekName, Pending
    <3>2. ~(todo \in Seq(Calls))
      <4> SUFFICES ASSUME todo \in Seq(Calls) PROVE FALSE
        OBVIOUS
      <4>1. todo[1] \in Calls
        BY <3>1
      <4> QED
        BY <3>1, <4>1 DEF Calls, Ops
    <3> QED
      BY <3>2 DEF Inv
  <2>3. Reads /\ fields \in Seq(Field) /\ outcome = "running"
    BY DEF Inv, peekName, Pending
  <2>4. /\ s \in Seq(Byte) /\ Len(s) \in Nat /\ Pos = 0 /\ At(s, 0) = String
    <3>1. s \in Seq(Byte) /\ Len(s) \in Nat
      BY <2>3 DEF Reads
    <3>2. Pos = 0
      BY <2>2, <3>1 DEF Pos
    <3> QED
      BY <2>1, <2>3, <3>1, <3>2, RestIs
  <2>5. /\ TextLength(2) \in Nat /\ 2 + 1 + TextLength(2) <= Len(s)
        /\ TextEnd(s, 0 + 2 - 1) = {0 + 2 + 1 + TextLength(2)} /\ Text(2) \in Seq(Byte)
    BY <2>1, <2>2, <2>3, <2>4, TextRead
  <2>6. n \in Nat /\ n \in 0..Len(s) /\ n <= Len(rest) /\ 0 + 2 - 1 = 1 /\ 0 + 2 + 1 + TextLength(2) = n
    BY <2>2, <2>4, <2>5
  <2>7. n \in Then({0}, "string", s)
    <3>1. n \in TextEnd(s, 1)
      BY <2>5, <2>6
    <3>2. n \in After("string", s, 0)
      BY <2>4, <3>1 DEF After, StringEnd
    <3> QED
      BY <3>2, ThenHas
  <2>8. name = NameOf(s)
    <3>1. TextLength(2) = 256 * s[2] + s[3]
      BY <2>2 DEF TextLength
    <3>2. 2 + 1 + TextLength(2) = 3 + TextLength(2) /\ 2 + 2 = 4
      BY <2>5
    <3>3. 3 + 256 * s[2] + s[3] = 3 + TextLength(2)
      <4> DEFINE a == s[2]
                 b == s[3]
      <4>1. a \in 0..255 /\ b \in 0..255
        <5>1. 2 \in 1..Len(s) /\ 3 \in 1..Len(s)
          BY <2>4, <2>5
        <5> QED
          BY <2>4, <5>1, ElementOfSeq DEF Byte
      <4>2. TextLength(2) = 256 * a + b
        BY <3>1
      <4> HIDE DEF a, b
      <4>3. 3 + 256 * a + b = 3 + (256 * a + b)
        BY <4>1
      <4> QED
        BY <4>2, <4>3 DEF a, b
    <3> QED
      BY <2>2, <3>2, <3>3 DEF Text, NameOf
  <2>9. name \in {connect, releaseStream, FCPublish, createStream, publish, setDataFrame}
    BY <2>1 DEF Known
  <2> DEFINE calls == Program(name)
  <2>10. calls \in Seq(Calls) /\ Derives(calls, s, n)
    <3> HIDE DEF name, n, s
    <3> QED
      BY <2>4, <2>6, <2>7, <2>8, <2>9, ProgramDerives
  <2>11. /\ input' = input /\ rest' = SubSeq(rest, n + 1, Len(rest))
         /\ todo' = calls \o Tail(todo) /\ outcome' = outcome
    BY <2>1 DEF Go
  <2>12. todo' = calls
    <3>1. Tail(todo) = <<>>
      BY <2>2
    <3> HIDE DEF calls
    <3> QED
      BY <2>10, <2>11, <3>1, ConcatEmptySeq
  <2> HIDE DEF calls, n
  <2>13. Reads' /\ Pos' = n
    <3>1. Reads' /\ Pos' = Pos + n
      BY <2>3, <2>6, <2>11, ReadsOn
    <3> QED
      BY <2>4, <2>6, <3>1
  <2>14. Derives(todo, input.body, Pos)'
    BY <2>10, <2>11, <2>12, <2>13 DEF Derives
  <2> QED
    BY <2>1, <2>3, <2>10, <2>11, <2>12, <2>13, <2>14 DEF Inv, Outcomes
<1> QED
  BY <1>1, <1>2

-----------------------------------------------------------------------------
(* The theorems.                                                           *)

LEMMA StepInv ==
    ASSUME Inv, [Next]_vars
    PROVE  Inv'
<1>1. CASE done
  BY <1>1, Stops DEF done, Outcomes
<1>2. CASE UNCHANGED vars
  BY <1>2 DEF vars, Inv, Reads, Pos, Derives
<1>3. CASE over
  BY <1>2, <1>3 DEF over
<1> QED
  BY <1>1, <1>2, <1>3, PeekNameKeeps, ParseStringKeeps, ParseNumberKeeps, ParseBoolKeeps,
     ParseNullKeeps, NullOrObjectKeeps, StartObjectKeeps, PropertyKeeps DEF Next

\* Inv holds of every behaviour, for every set of bodies and size of numbers.
THEOREM InvHolds == Spec => []Inv
<1>1. Init => Inv
  BY InitInv
<1>2. Inv /\ [Next]_vars => Inv'
  BY StepInv
<1> QED
  BY <1>1, <1>2, PTL DEF Spec

\* Whatever arrives, the parser stays inside the body: what is unread is what
\* is left of it, and what is kept are bytes for keys that it knows.
THEOREM TypeCorrect == Spec => []TypeOK
<1>1. Inv => TypeOK
  BY InvTyped
<1> QED
  BY <1>1, InvHolds, PTL

\* Whatever is accepted has the form of the command it is taken for, and is
\* read to an end of it, however deep its objects are nested
\* (rtmpparser.cpp:382-966, amf0.cpp:1-175).
THEOREM AcceptedForm == Spec => []AcceptedHasForm
<1>1. Inv => AcceptedHasForm
  BY InvForm
<1> QED
  BY <1>1, InvHolds, PTL
=============================================================================
