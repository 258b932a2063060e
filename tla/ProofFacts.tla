----------------------------- MODULE ProofFacts -----------------------------
(***************************************************************************)
(* Facts about data that the proofs share, beyond the library's theorems:  *)
(* induction over the numbers, and with it functions that are defined by   *)
(* recursion; cutting a sequence in two and joining its parts.             *)
(***************************************************************************)
EXTENDS Integers, Sequences, SequenceTheorems, WellFoundedInduction, TLAPS

-----------------------------------------------------------------------------
(* Induction.                                                              *)

\* Every set of numbers that is not empty has a least one.
LEMMA LeastNumber ==
    ASSUME NEW T, T \subseteq Nat, T # {}
    PROVE  \E x \in T : \A y \in T : x <= y
<1> DEFINE R == OpToRel(<, Nat)
<1>1. IsWellFoundedOn(R, Nat)
  BY NatLessThanWellFounded
<1>2. \A x, y \in Nat : <<y, x>> \in R <=> y < x
  BY DEF OpToRel
<1> HIDE DEF R
<1>3. PICK x \in T : \A y \in T : ~(<<y, x>> \in R)
  BY <1>1, WFMin
<1>4. \A y \in T : x <= y
  <2> TAKE y \in T
  <2>1. x \in Nat /\ y \in Nat
    OBVIOUS
  <2>2. ~(y < x)
    BY <1>2, <1>3, <2>1
  <2> QED
    BY <2>1, <2>2
<1> QED
  BY <1>4

\* Induction, over the set of the numbers of which something is so.
LEMMA Induction ==
    ASSUME NEW T, 0 \in T, \A n \in Nat : n \in T => n + 1 \in T
    PROVE  Nat \subseteq T
<1> SUFFICES ASSUME Nat \ T # {} PROVE FALSE
  OBVIOUS
<1>1. PICK x \in Nat \ T : \A y \in Nat \ T : x <= y
  BY LeastNumber
<1>2. x # 0 /\ x - 1 \in Nat /\ x = (x - 1) + 1
  BY <1>1
<1>3. x - 1 \in T
  BY <1>1, <1>2
<1> QED
  BY <1>1, <1>2, <1>3

\* g is a at 0, and then what f makes of the number and the value before.
Iterates(g, f, a, n, S) ==
    /\ g \in [0..n -> S]
    /\ g[0] = a
    /\ \A i \in 1..n : g[i] = f[<<i, g[i - 1]>>]

\* There is a function that is defined like that.
LEMMA Iterated ==
    ASSUME NEW S, NEW a \in S, NEW f \in [Nat \X S -> S], NEW n \in Nat
    PROVE  \E g : Iterates(g, f, a, n, S)
<1> DEFINE Exists(m) == \E g \in [0..m -> S] :
                            g[0] = a /\ \A i \in 1..m : g[i] = f[<<i, g[i - 1]>>]
           T == {m \in Nat : Exists(m)}
<1>1. 0 \in T
  <2> DEFINE g == [i \in 0..0 |-> a]
  <2>1. g \in [0..0 -> S] /\ g[0] = a /\ \A i \in 1..0 : g[i] = f[<<i, g[i - 1]>>]
    OBVIOUS
  <2> QED
    BY <2>1
<1>2. \A m \in Nat : m \in T => m + 1 \in T
  <2> TAKE m \in Nat
  <2> HAVE m \in T
  <2>1. PICK g \in [0..m -> S] : g[0] = a /\ \A i \in 1..m : g[i] = f[<<i, g[i - 1]>>]
    OBVIOUS
  <2> DEFINE v == f[<<m + 1, g[m]>>]
             h == [i \in 0..m + 1 |-> IF i = m + 1 THEN v ELSE g[i]]
  <2>2. v \in S
    <3>1. g[m] \in S /\ m + 1 \in Nat
      BY <2>1
    <3> QED
      BY <3>1
  <2>3. /\ h[m + 1] = v
        /\ \A i \in 0..m : h[i] = g[i]
    OBVIOUS
  <2>4. h \in [0..m + 1 -> S]
    <3>1. \A i \in 0..m + 1 : i = m + 1 \/ i \in 0..m
      OBVIOUS
    <3> QED
      BY <2>2, <3>1
  <2> HIDE DEF h, v
  <2>5. \A i \in 1..m + 1 : h[i] = f[<<i, h[i - 1]>>]
    <3> TAKE i \in 1..m + 1
    <3>1. CASE i = m + 1
      <4>1. h[i - 1] = g[m]
        BY <2>3, <3>1
      <4> QED
        BY <2>3, <3>1, <4>1 DEF v
    <3>2. CASE i # m + 1
      <4>1. i \in 1..m /\ i \in 0..m /\ i - 1 \in 0..m
        BY <3>2
      <4> QED
        BY <2>1, <2>3, <4>1
    <3> QED
      BY <3>1, <3>2
  <2>6. h[0] = a
    BY <2>1, <2>3
  <2>7. Exists(m + 1)
    BY <2>4, <2>5, <2>6
  <2> QED
    BY <2>7
<1> HIDE DEF Exists
<1>3. n \in T
  BY <1>1, <1>2, Induction
<1> QED
  BY <1>3 DEF Exists, Iterates

-----------------------------------------------------------------------------
(* Cuts.                                                                   *)

\* What a cut of a sequence is: its length and its elements.
LEMMA CutProperties ==
    ASSUME NEW S, NEW s \in Seq(S), NEW m \in Nat, NEW n \in Nat, m <= n, n <= Len(s)
    PROVE  /\ SubSeq(s, m + 1, n) \in Seq(S)
           /\ Len(SubSeq(s, m + 1, n)) = n - m
           /\ \A i \in 1..n - m : SubSeq(s, m + 1, n)[i] = s[m + i]
BY SubSeqProperties

\* Appending does not disturb what remains after a cut.
LEMMA CutAppend ==
    ASSUME NEW S, NEW s \in Seq(S), NEW t \in Seq(S), NEW m \in Nat, m <= Len(s)
    PROVE  SubSeq(s \o t, m + 1, Len(s \o t)) = SubSeq(s, m + 1, Len(s)) \o t
<1> DEFINE u == s \o t
           v == SubSeq(s, m + 1, Len(s))
<1>1. /\ u \in Seq(S) /\ Len(u) = Len(s) + Len(t)
      /\ \A i \in 1..Len(s) + Len(t) : u[i] = IF i <= Len(s) THEN s[i] ELSE t[i - Len(s)]
  BY ConcatProperties
<1>2. /\ v \in Seq(S) /\ Len(v) = Len(s) - m
      /\ \A i \in 1..Len(s) - m : v[i] = s[m + i]
  BY CutProperties
<1>3. /\ v \o t \in Seq(S) /\ Len(v \o t) = Len(s) - m + Len(t)
      /\ \A i \in 1..Len(v) + Len(t) : (v \o t)[i] = IF i <= Len(v) THEN v[i] ELSE t[i - Len(v)]
  BY <1>2, ConcatProperties
<1>4. Len(s) \in Nat /\ Len(t) \in Nat
  OBVIOUS
<1> HIDE DEF u, v
<1> DEFINE w == SubSeq(u, m + 1, Len(u))
<1>5. /\ w \in Seq(S) /\ Len(w) = Len(s) - m + Len(t)
      /\ \A i \in 1..Len(s) - m + Len(t) : w[i] = u[m + i]
  BY <1>1, <1>4, CutProperties
<1> HIDE DEF w
<1>6. \A i \in 1..Len(w) : w[i] = (v \o t)[i]
  <2> SUFFICES ASSUME NEW i \in 1..Len(s) - m + Len(t) PROVE w[i] = (v \o t)[i]
    BY <1>5
  <2>1. CASE i <= Len(s) - m
    BY <1>1, <1>2, <1>3, <1>4, <1>5, <2>1
  <2>2. CASE ~(i <= Len(s) - m)
    BY <1>1, <1>2, <1>3, <1>4, <1>5, <2>2, SMTT(30)
  <2> QED
    BY <2>1, <2>2
<1>7. w = v \o t
  BY <1>3, <1>5, <1>6, SeqEqual
<1> QED
  BY <1>7 DEF u, v, w

\* Two adjacent cuts, put together, are one.
LEMMA CutJoin ==
    ASSUME NEW S, NEW s \in Seq(S), NEW m \in Nat, NEW n \in Nat, NEW k \in Nat,
           m <= n, n <= k, k <= Len(s)
    PROVE  SubSeq(s, m + 1, n) \o SubSeq(s, n + 1, k) = SubSeq(s, m + 1, k)
<1>1. m + 1 \in 1..Len(s) + 1 /\ n \in (m + 1) - 1..Len(s) /\ k \in n..Len(s)
  OBVIOUS
<1> QED
  BY <1>1, ConcatAdjacentSubSeq

\* What is cut from the rest of a sequence is cut from the sequence.
LEMMA CutCut ==
    ASSUME NEW S, NEW s \in Seq(S), NEW m \in Nat, NEW n \in Nat, m + n <= Len(s),
           NEW u, u = SubSeq(s, m + 1, Len(s))
    PROVE  /\ SubSeq(u, 1, n) = SubSeq(s, m + 1, m + n)
           /\ SubSeq(u, n + 1, Len(u)) = SubSeq(s, m + n + 1, Len(s))
<1>1. /\ u \in Seq(S) /\ Len(u) = Len(s) - m
      /\ \A i \in 1..Len(s) - m : u[i] = s[m + i]
  BY CutProperties
<1>2. SubSeq(u, 1, n) = SubSeq(s, m + 1, m + n)
  <2> DEFINE a == SubSeq(u, 1, n)
             b == SubSeq(s, m + 1, m + n)
  <2>1. 0 + 1 = 1 /\ (m + n) - m = n /\ m <= m + n
    OBVIOUS
  <2>2. /\ a \in Seq(S) /\ Len(a) = n
        /\ \A i \in 1..n : a[i] = u[i]
    <3>1. /\ SubSeq(u, 0 + 1, n) \in Seq(S) /\ Len(SubSeq(u, 0 + 1, n)) = n - 0
          /\ \A i \in 1..n - 0 : SubSeq(u, 0 + 1, n)[i] = u[0 + i]
      BY <1>1, CutProperties
    <3> QED
      BY <3>1
  <2>3. /\ b \in Seq(S) /\ Len(b) = n
        /\ \A i \in 1..n : b[i] = s[m + i]
    <3>1. /\ SubSeq(s, m + 1, m + n) \in Seq(S)
          /\ Len(SubSeq(s, m + 1, m + n)) = (m + n) - m
          /\ \A i \in 1..(m + n) - m : SubSeq(s, m + 1, m + n)[i] = s[m + i]
      BY <2>1, CutProperties
    <3> QED
      BY <2>1, <3>1
  <2> HIDE DEF a, b
  <2>4. \A i \in 1..Len(a) : a[i] = b[i]
    <3> SUFFICES ASSUME NEW i \in 1..n PROVE a[i] = b[i]
      BY <2>2
    <3>1. i \in 1..Len(s) - m
      OBVIOUS
    <3> QED
      BY <1>1, <2>2, <2>3, <3>1
  <2>5. a = b
    BY <2>2, <2>3, <2>4, SeqEqual
  <2> QED
    BY <2>5 DEF a, b
<1>3. SubSeq(u, n + 1, Len(u)) = SubSeq(s, m + n + 1, Len(s))
  <2> DEFINE a == SubSeq(u, n + 1, Len(u))
             b == SubSeq(s, (m + n) + 1, Len(s))
  <2>1. /\ a \in Seq(S) /\ Len(a) = Len(u) - n
        /\ \A i \in 1..Len(u) - n : a[i] = u[n + i]
    BY <1>1, CutProperties
  <2>2. /\ b \in Seq(S) /\ Len(b) = Len(s) - (m + n)
        /\ \A i \in 1..Len(s) - (m + n) : b[i] = s[(m + n) + i]
    BY CutProperties
  <2> HIDE DEF a, b
  <2>3. \A i \in 1..Len(a) : a[i] = b[i]
    BY <1>1, <2>1, <2>2, SMTT(30)
  <2>4. Len(a) = Len(b) /\ a \in Seq(S) /\ b \in Seq(S)
    BY <1>1, <2>1, <2>2
  <2>5. a = b
    BY <2>3, <2>4, SeqEqual
  <2> QED
    BY <2>5 DEF a, b
<1> QED
  BY <1>2, <1>3

\* Moving the front of one sequence to the end of another changes nothing
\* of the two together.
LEMMA CutMove ==
    ASSUME NEW S, NEW s \in Seq(S), NEW t \in Seq(S), NEW k \in Nat, k <= Len(t)
    PROVE  /\ (s \o SubSeq(t, 1, k)) \o SubSeq(t, k + 1, Len(t)) = s \o t
           /\ s \o SubSeq(t, 1, k) = SubSeq(s \o t, 1, Len(s) + k)
<1> DEFINE a == SubSeq(t, 1, k)
           b == SubSeq(t, k + 1, Len(t))
<1>1. a \in Seq(S) /\ Len(a) = k /\ \A i \in 1..k : a[i] = t[i]
  <2>1. SubSeq(t, 0 + 1, k) = a /\ k - 0 = k
    OBVIOUS
  <2>2. /\ SubSeq(t, 0 + 1, k) \in Seq(S) /\ Len(SubSeq(t, 0 + 1, k)) = k - 0
        /\ \A i \in 1..k - 0 : SubSeq(t, 0 + 1, k)[i] = t[0 + i]
    BY CutProperties
  <2> QED
    BY <2>1, <2>2
<1>2. b \in Seq(S)
  BY CutProperties
<1>3. a \o b = t
  <2> HIDE DEF a, b
  <2>1. /\ 0 \in Nat /\ Len(t) \in Nat /\ Len(t) <= Len(t) /\ 0 <= k
        /\ 0 + 1 = 1
    OBVIOUS
  <2>2. SubSeq(t, 0 + 1, k) \o SubSeq(t, k + 1, Len(t)) = SubSeq(t, 0 + 1, Len(t))
    BY <2>1, CutJoin
  <2>3. a \o b = SubSeq(t, 1, Len(t))
    BY <2>1, <2>2, Zenon DEF a, b
  <2> QED
    BY <2>3, SubSeqFull
<1> HIDE DEF a, b
<1>4. (s \o a) \o b = s \o t
  <2>1. (s \o a) \o b = s \o (a \o b)
    BY <1>1, <1>2, ConcatAssociative, SMTT(30)
  <2> QED
    BY <1>3, <2>1, Zenon
<1> DEFINE u == s \o t
           c == s \o a
           d == SubSeq(u, 0 + 1, Len(s) + k)
<1>5. /\ u \in Seq(S) /\ Len(u) = Len(s) + Len(t)
      /\ \A i \in 1..Len(s) + Len(t) : u[i] = IF i <= Len(s) THEN s[i] ELSE t[i - Len(s)]
  BY ConcatProperties
<1>6. /\ c \in Seq(S) /\ Len(c) = Len(s) + k
      /\ \A i \in 1..Len(s) + k : c[i] = IF i <= Len(s) THEN s[i] ELSE a[i - Len(s)]
  BY <1>1, ConcatProperties
<1> HIDE DEF u, c
<1>7. /\ d \in Seq(S) /\ Len(d) = (Len(s) + k) - 0
      /\ \A i \in 1..(Len(s) + k) - 0 : d[i] = u[0 + i]
  BY <1>5, CutProperties
<1> HIDE DEF d
<1>8. c = d
  <2>1. \A i \in 1..Len(c) : c[i] = d[i]
    <3> SUFFICES ASSUME NEW i \in 1..Len(s) + k PROVE c[i] = d[i]
      BY <1>6
    <3>1. d[i] = u[i] /\ i \in 1..Len(s) + Len(t)
      BY <1>7
    <3>2. CASE i <= Len(s)
      BY <1>5, <1>6, <3>1, <3>2
    <3>3. CASE ~(i <= Len(s))
      <4>1. i - Len(s) \in 1..k
        BY <3>3
      <4> QED
        BY <1>1, <1>5, <1>6, <3>1, <3>3, <4>1
    <3> QED
      BY <3>2, <3>3
  <2>2. Len(c) = Len(d)
    BY <1>6, <1>7
  <2> QED
    BY <1>6, <1>7, <2>1, <2>2, SeqEqual
<1>9. 0 + 1 = 1
  OBVIOUS
<1> QED
  BY <1>4, <1>8, <1>9, Zenon DEF a, b, c, d, u
=============================================================================
