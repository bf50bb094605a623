------------------------------- MODULE WireProofs -------------------------------
(***************************************************************************)
(* Proofs about Codec, FrameParser and Wire, for every instance: what is   *)
(* written is read back; the parser hands on the frames sent, whatever the *)
(* chunks; the server gets every content whole and understands it.         *)
(***************************************************************************)
EXTENDS Wire, SeqFilterProofs

-----------------------------------------------------------------------------
(* Functions defined by recursion over the naturals *)

\* f starts with z, and its i-th step is that of G.
Iterate(f, z, n, G) == f[0] = z /\ \A i \in 1 .. n : f[i] = G[i][f[i - 1]]

\* What steps of a function make of a value, by recursion: there is such a function.
LEMMA Iterates ==
  ASSUME NEW S, NEW z \in S, NEW n \in Nat, NEW G \in [1 .. n -> [S -> S]]
  PROVE  \E f \in [0 .. n -> S] : Iterate(f, z, n, G)
<1> DEFINE Upto(f, k) == f[0] = z /\ \A i \in 1 .. k : f[i] = G[i][f[i - 1]]
           Reached == {k \in Nat : k <= n => \E f \in [0 .. k -> S] : Upto(f, k)}
<1>1. 0 \in Reached
  <2> DEFINE f == [i \in 0 .. 0 |-> z]
  <2>1. f \in [0 .. 0 -> S] /\ Upto(f, 0)
    OBVIOUS
  <2> QED
    BY <2>1
<1>2. ASSUME NEW k \in Nat, k \in Reached PROVE k + 1 \in Reached
  <2> SUFFICES ASSUME k + 1 <= n PROVE \E f \in [0 .. k + 1 -> S] : Upto(f, k + 1)
    OBVIOUS
  <2>1. PICK f \in [0 .. k -> S] : Upto(f, k)
    BY <1>2
  <2> DEFINE g == [i \in 0 .. k + 1 |-> IF i <= k THEN f[i] ELSE G[k + 1][f[k]]]
  <2>2. k \in 0 .. k /\ k + 1 \in 1 .. n /\ G[k + 1] \in [S -> S] /\ f[k] \in S
    OBVIOUS
  <2>3. G[k + 1][f[k]] \in S
    BY <2>2
  <2>4. g \in [0 .. k + 1 -> S]
    BY <2>3
  <2>5. g[0] = z
    BY <2>1
  <2>6. ASSUME NEW i \in 1 .. k + 1 PROVE g[i] = G[i][g[i - 1]]
    <3>1. CASE i <= k
      BY <2>1, <3>1
    <3>2. CASE i = k + 1
      BY <2>2, <3>2
    <3> QED
      BY <3>1, <3>2
  <2> QED
    BY <2>4, <2>5, <2>6
<1> HIDE DEF Reached
<1>3. \A k \in Nat : k \in Reached
  BY <1>1, <1>2, NatInSet
<1> QED
  BY <1>3 DEF Reached, Iterate

-----------------------------------------------------------------------------
(* Powers of 2 *)

\* The function that doubles is defined everywhere.
LEMMA Pow2Unfolds == Pow2[0] = 1 /\ \A n \in Nat : Pow2[n + 1] = 2 * Pow2[n]
<1> DEFINE Is(p) == p = [n \in Nat |-> IF n = 0 THEN 1 ELSE 2 * p[n - 1]]
           Upto(f, n) == f \in [0 .. n -> Nat] /\ f[0] = 1 /\ \A i \in 1 .. n : f[i] = 2 * f[i - 1]
<1>1. ASSUME NEW n \in Nat PROVE \E f : Upto(f, n)
  <2> DEFINE S == Nat
             z == 1
             G == [i \in 1 .. n |-> [x \in S |-> 2 * x]]
  <2>1. G \in [1 .. n -> [S -> S]] /\ z \in S /\ \A i \in 1 .. n, x \in S : G[i][x] = 2 * x
    OBVIOUS
  <2> HIDE DEF G, z, S
  <2>2. PICK f \in [0 .. n -> S] : Iterate(f, z, n, G)
    BY <2>1, Iterates
  <2>3. ASSUME NEW i \in 1 .. n PROVE f[i] = 2 * f[i - 1]
    <3>1. i - 1 \in 0 .. n
      OBVIOUS
    <3> QED
      BY <2>1, <2>2, <3>1 DEF Iterate
  <2> QED
    BY <2>2, <2>3 DEF S, z, Iterate
<1> DEFINE A == [n \in Nat |-> CHOOSE f : Upto(f, n)]
<1>2. ASSUME NEW n \in Nat PROVE Upto(A[n], n)
  BY <1>1
<1> HIDE DEF A
<1>3. ASSUME NEW n \in Nat PROVE A[n + 1][n] = A[n][n]
  <2> DEFINE h == A[n]
             k == A[n + 1]
             Same == {i \in Nat : i <= n => h[i] = k[i]}
  <2>1. Upto(h, n)
    BY <1>2
  <2>2. Upto(k, n + 1)
    <3>1. n + 1 \in Nat
      OBVIOUS
    <3> HIDE DEF Upto
    <3> QED
      BY <1>2, <3>1
  <2> HIDE DEF h, k
  <2>3. 0 \in Same
    BY <2>1, <2>2
  <2>4. ASSUME NEW i \in Nat, i \in Same PROVE i + 1 \in Same
    <3>1. CASE i + 1 <= n
      <4>1. i + 1 \in 1 .. n /\ i + 1 \in 1 .. n + 1 /\ (i + 1) - 1 = i
        BY <3>1
      <4>2. h[i + 1] = 2 * h[i] /\ k[i + 1] = 2 * k[i]
        BY <2>1, <2>2, <4>1
      <4> QED
        BY <2>4, <4>2
    <3> QED
      BY <3>1
  <2> HIDE DEF Same
  <2>5. n \in Same
    BY <2>3, <2>4, NatInSet
  <2> QED
    BY <2>5 DEF Same, h, k
<1> DEFINE g == [n \in Nat |-> A[n][n]]
<1>4. g[0] = 1
  BY <1>2
<1>5. ASSUME NEW n \in Nat PROVE g[n + 1] = 2 * g[n]
  <2>1. A[n + 1][n + 1] = 2 * A[n + 1][(n + 1) - 1] /\ (n + 1) - 1 = n
    BY <1>2
  <2> QED
    BY <1>3, <2>1
<1>6. Is(g)
  <2>1. ASSUME NEW n \in Nat PROVE g[n] = IF n = 0 THEN 1 ELSE 2 * g[n - 1]
    <3> HIDE DEF g
    <3>1. CASE n # 0
      <4>1. n - 1 \in Nat /\ (n - 1) + 1 = n
        BY <3>1
      <4> QED
        BY <1>5, <3>1, <4>1
    <3> QED
      BY <1>4, <3>1
  <2> QED
    BY <2>1
<1>7. Pow2 = CHOOSE p : Is(p)
  BY DEF Pow2
<1> HIDE DEF g
<1>8. Is(Pow2)
  <2> HIDE DEF Is
  <2> QED BY <1>6, <1>7
<1> QED
  BY <1>8

\* They are positive.
LEMMA Pow2Type == \A n \in Nat : Pow2[n] \in Nat \ {0}
<1> DEFINE G == {n \in Nat : Pow2[n] \in Nat \ {0}}
<1>1. 0 \in G /\ \A n \in Nat : n \in G => n + 1 \in G
  BY Pow2Unfolds
<1> HIDE DEF G
<1>2. \A n \in Nat : n \in G
  BY <1>1, NatInSet
<1> QED
  BY <1>2 DEF G

\* They turn sums into products.
LEMMA Pow2Sum ==
  ASSUME NEW a \in Nat, NEW b \in Nat
  PROVE  Pow2[a + b] = Pow2[a] * Pow2[b]
<1> DEFINE G == {n \in Nat : Pow2[a + n] = Pow2[a] * Pow2[n]}
<1>1. 0 \in G
  BY Pow2Unfolds, Pow2Type
<1>2. ASSUME NEW n \in Nat, n \in G PROVE n + 1 \in G
  <2>1. a + (n + 1) = (a + n) + 1 /\ a + n \in Nat
    OBVIOUS
  <2>2. Pow2[a + (n + 1)] = 2 * Pow2[a + n] /\ Pow2[n + 1] = 2 * Pow2[n]
    BY <2>1, Pow2Unfolds
  <2>3. Pow2[a] \in Nat /\ Pow2[n] \in Nat
    BY Pow2Type
  <2>4. Pow2[a + n] = Pow2[a] * Pow2[n]
    BY <1>2
  <2> DEFINE x == Pow2[a]
             y == Pow2[n]
  <2> HIDE DEF x, y
  <2>5. x \in Nat /\ y \in Nat => 2 * (x * y) = x * (2 * y)
    OBVIOUS
  <2> QED
    BY <2>2, <2>3, <2>4, <2>5 DEF x, y
<1> HIDE DEF G
<1>3. \A n \in Nat : n \in G
  BY <1>1, <1>2, NatInSet
<1> QED
  BY <1>3 DEF G

\* What a word of four octets holds, in terms of the number of values of an octet.
LEMMA Powers ==
  /\ Base \in Nat /\ Base >= 8 /\ Octet = 0 .. Base - 1 /\ FrameEnd \in Octet
  /\ WordBits \in Nat /\ WordBits - 1 \in Nat
  /\ Weight(0) = 1 /\ Weight(1) = Base /\ Weight(2) = Base * Base
  /\ Weight(3) = Base * (Base * Base)
  /\ Pow2[WordBits] = Base * (Base * (Base * Base))
  /\ Pow2[WordBits] = 2 * Pow2[WordBits - 1] /\ Pow2[WordBits - 1] \in Nat
  /\ \A p \in Nat : Weight(p) \in Nat \ {0}
<1> DEFINE B == ByteBits
<1>1. B \in Nat /\ B >= 3
  BY CodecAssumption
<1> HIDE DEF B
<1>2. Pow2[B * 0] = 1 /\ Pow2[B * 1] = Pow2[B]
  <2>1. B * 0 = 0 /\ B * 1 = B
    BY <1>1
  <2> QED
    BY <2>1, Pow2Unfolds
<1>3. Pow2[B * 2] = Pow2[B] * Pow2[B]
  <2>1. B * 2 = B + B
    BY <1>1
  <2> QED
    BY <1>1, <2>1, Pow2Sum
<1>4. Pow2[B * 3] = Pow2[B] * (Pow2[B] * Pow2[B])
  <2>1. B * 3 = B + (B * 2) /\ B * 2 \in Nat
    BY <1>1
  <2> QED
    BY <1>1, <1>3, <2>1, Pow2Sum
<1>5. Pow2[4 * B] = Pow2[B] * (Pow2[B] * (Pow2[B] * Pow2[B]))
  <2>1. 4 * B = B + (B * 3) /\ B * 3 \in Nat
    BY <1>1
  <2> QED
    BY <1>1, <1>4, <2>1, Pow2Sum
<1>6. 4 * B \in Nat /\ 4 * B - 1 \in Nat /\ (4 * B - 1) + 1 = 4 * B
  BY <1>1
<1>7. Pow2[4 * B] = 2 * Pow2[4 * B - 1]
  BY <1>6, Pow2Unfolds
<1>8. Pow2[B] \in Nat /\ Pow2[B] >= 8
  <2>1. B - 3 \in Nat /\ (B - 3) + 3 = B
    BY <1>1
  <2>2. Pow2[3] = 8
    <3>1. Pow2[0 + 1] = 2 /\ Pow2[1 + 1] = 2 * Pow2[1] /\ Pow2[2 + 1] = 2 * Pow2[2]
      BY Pow2Unfolds
    <3> QED
      BY <3>1
  <2>3. Pow2[B] = Pow2[B - 3] * 8
    BY <2>1, <2>2, Pow2Sum
  <2> QED
    BY <2>1, <2>3, Pow2Type
<1>9. ASSUME NEW p \in Nat PROVE Pow2[B * p] \in Nat \ {0}
  <2>1. B * p \in Nat
    BY <1>1
  <2> QED
    BY <2>1, Pow2Type
<1> QED
  BY <1>2, <1>3, <1>4, <1>5, <1>6, <1>7, <1>8, <1>9, Pow2Type, CodecAssumption
     DEF B, Base, Octet, WordBits, Weight

\* The same, one by one.
LEMMA OctetType == Base \in Nat /\ Base >= 8 /\ Octet = 0 .. Base - 1 /\ FrameEnd \in Octet
BY Powers

\* A word is 4 octets, and half a word is where ToInt32 turns negative.
LEMMA WordType ==
  /\ WordBits \in Nat /\ WordBits - 1 \in Nat
  /\ Pow2[WordBits] = 2 * Pow2[WordBits - 1]
  /\ Pow2[WordBits - 1] \in Nat \ {0} /\ Pow2[WordBits] \in Nat \ {0}
<1>1. WordBits \in Nat /\ WordBits - 1 \in Nat /\ Pow2[WordBits] = 2 * Pow2[WordBits - 1]
  BY Powers
<1> QED
  BY <1>1, Pow2Type

\* What an octet weighs is positive.
LEMMA WeightType == \A p \in Nat : Weight(p) \in Nat \ {0}
BY Powers

-----------------------------------------------------------------------------
(* Cutting sequences *)

\* What is dropped from a sequence, and what is left.
LEMMA DropType ==
  ASSUME NEW S, NEW b \in Seq(S), NEW n \in Nat
  PROVE  /\ Drop(b, n) \in Seq(S)
         /\ Len(Drop(b, n)) = IF n <= Len(b) THEN Len(b) - n ELSE 0
         /\ \A i \in 1 .. Len(b) - n : Drop(b, n)[i] = b[n + i]
<1>1. Len(b) \in Nat /\ \A i \in n + 1 .. Len(b) : b[i] \in S
  OBVIOUS
<1>2. /\ SubSeq(b, n + 1, Len(b)) \in Seq(S)
      /\ Len(SubSeq(b, n + 1, Len(b))) = IF n + 1 <= Len(b) THEN Len(b) - (n + 1) + 1 ELSE 0
      /\ \A i \in 1 .. Len(b) - (n + 1) + 1 : SubSeq(b, n + 1, Len(b))[i] = b[(n + 1) + i - 1]
  BY <1>1, SubSeqProperties
<1>3. \A i \in 1 .. Len(b) - n : SubSeq(b, n + 1, Len(b))[i] = b[n + i]
  BY <1>1, <1>2
<1> QED
  BY <1>1, <1>2, <1>3 DEF Drop

\* What is taken of it.
LEMMA TakeType ==
  ASSUME NEW S, NEW b \in Seq(S), NEW n \in Nat
  PROVE  /\ Take(b, n) \in Seq(S)
         /\ Len(Take(b, n)) = IF n <= Len(b) THEN n ELSE Len(b)
         /\ \A i \in 1 .. n : i <= Len(b) => Take(b, n)[i] = b[i]
<1>1. CASE n < Len(b)
  <2>1. Len(b) \in Nat /\ \A i \in 1 .. n : b[i] \in S
    BY <1>1
  <2>2. /\ SubSeq(b, 1, n) \in Seq(S)
        /\ Len(SubSeq(b, 1, n)) = IF 1 <= n THEN n - 1 + 1 ELSE 0
        /\ \A i \in 1 .. n - 1 + 1 : SubSeq(b, 1, n)[i] = b[1 + i - 1]
    BY <2>1, SubSeqProperties
  <2>3. \A i \in 1 .. n : SubSeq(b, 1, n)[i] = b[i]
    BY <2>2
  <2> QED
    BY <1>1, <2>2, <2>3 DEF Take
<1>2. CASE ~(n < Len(b))
  BY <1>2 DEF Take
<1> QED
  BY <1>1, <1>2

\* The two halves of a joined sequence.
LEMMA CutJoined ==
  ASSUME NEW S, NEW x \in Seq(S), NEW t \in Seq(S)
  PROVE  Take(x \o t, Len(x)) = x /\ Drop(x \o t, Len(x)) = t
<1> DEFINE b == x \o t
<1>1. /\ b \in Seq(S) /\ Len(b) = Len(x) + Len(t) /\ Len(x) \in Nat /\ Len(t) \in Nat
      /\ \A i \in 1 .. Len(x) + Len(t) : b[i] = IF i <= Len(x) THEN x[i] ELSE t[i - Len(x)]
  BY ConcatProperties
<1> HIDE DEF b
<1> DEFINE k == Len(x)
           p == Take(b, k)
           q == Drop(b, k)
<1>0. k = Len(x) /\ k \in Nat
  BY <1>1
<1> HIDE DEF k
<1>2. p \in Seq(S) /\ Len(p) = Len(x) /\ \A i \in 1 .. Len(x) : p[i] = x[i]
  <2>1. /\ p \in Seq(S) /\ Len(p) = IF k <= Len(b) THEN k ELSE Len(b)
        /\ \A i \in 1 .. k : i <= Len(b) => p[i] = b[i]
    BY <1>0, <1>1, TakeType
  <2> HIDE DEF p
  <2>2. k <= Len(b) /\ Len(p) = Len(x)
    BY <1>0, <1>1, <2>1
  <2>3. ASSUME NEW i \in 1 .. Len(x) PROVE p[i] = x[i]
    <3>1. i \in 1 .. k /\ i <= Len(b) /\ i \in 1 .. Len(x) + Len(t) /\ i <= Len(x)
      BY <1>0, <1>1
    <3> QED
      BY <1>1, <2>1, <3>1
  <2> QED
    BY <2>1, <2>2, <2>3
<1>3. q \in Seq(S) /\ Len(q) = Len(t) /\ \A i \in 1 .. Len(t) : q[i] = t[i]
  <2>0. /\ q \in Seq(S) /\ Len(q) = IF k <= Len(b) THEN Len(b) - k ELSE 0
        /\ \A i \in 1 .. Len(b) - k : q[i] = b[k + i]
    BY <1>0, <1>1, DropType
  <2> HIDE DEF q
  <2>1. q \in Seq(S) /\ Len(q) = Len(t) /\ \A i \in 1 .. Len(b) - Len(x) : q[i] = b[Len(x) + i]
    BY <1>0, <1>1, <2>0
  <2>2. ASSUME NEW i \in 1 .. Len(t) PROVE q[i] = t[i]
    <3>1. q[i] = b[Len(x) + i]
      BY <1>1, <2>1
    <3>2. Len(x) + i \in 1 .. Len(x) + Len(t) /\ ~(Len(x) + i <= Len(x)) /\ (Len(x) + i) - Len(x) = i
      BY <1>1
    <3> QED
      BY <1>1, <3>1, <3>2
  <2> QED
    BY <2>1, <2>2
<1> HIDE DEF p, q
<1>4. p = x
  BY <1>2, SeqEqual
<1>5. q = t
  BY <1>3, SeqEqual
<1> QED
  BY <1>4, <1>5 DEF p, q, b, k

\* A cut sequence is joined again.
LEMMA JoinCut ==
  ASSUME NEW S, NEW b \in Seq(S), NEW n \in Nat
  PROVE  Take(b, n) \o Drop(b, n) = b
<1> DEFINE p == Take(b, n)
           q == Drop(b, n)
<1>1. /\ p \in Seq(S) /\ Len(p) = IF n <= Len(b) THEN n ELSE Len(b)
      /\ \A i \in 1 .. n : i <= Len(b) => p[i] = b[i]
  BY TakeType
<1>2. /\ q \in Seq(S) /\ Len(q) = IF n <= Len(b) THEN Len(b) - n ELSE 0
      /\ \A i \in 1 .. Len(b) - n : q[i] = b[n + i]
  BY DropType
<1> HIDE DEF p, q
<1> DEFINE c == p \o q
<1>3. /\ c \in Seq(S) /\ Len(c) = Len(p) + Len(q)
      /\ \A i \in 1 .. Len(p) + Len(q) : c[i] = IF i <= Len(p) THEN p[i] ELSE q[i - Len(p)]
  BY <1>1, <1>2, ConcatProperties
<1> HIDE DEF c
<1>4. Len(c) = Len(b) /\ Len(b) \in Nat
  BY <1>1, <1>2, <1>3
<1>5. ASSUME NEW i \in 1 .. Len(b) PROVE c[i] = b[i]
  <2>1. CASE i <= n
    BY <1>1, <1>2, <1>3, <2>1
  <2>2. CASE ~(i <= n)
    <3>1. Len(p) = n /\ i - n \in 1 .. Len(b) - n /\ n + (i - n) = i
      BY <1>1, <2>2
    <3>2. c[i] = q[i - n]
      BY <1>1, <1>2, <1>3, <2>2, <3>1
    <3> QED
      BY <1>2, <3>1, <3>2
  <2> QED
    BY <2>1, <2>2
<1> QED
  BY <1>3, <1>4, <1>5, SeqEqual DEF c, p, q

\* A joined sequence is cut in one way only.
LEMMA CutsAgree ==
  ASSUME NEW S, NEW x \in Seq(S), NEW t \in Seq(S), NEW y \in Seq(S), NEW u \in Seq(S),
         x \o t = y \o u, Len(x) = Len(y)
  PROVE  x = y /\ t = u
<1>1. Take(x \o t, Len(x)) = x /\ Drop(x \o t, Len(x)) = t
  BY CutJoined
<1>2. Take(y \o u, Len(y)) = y /\ Drop(y \o u, Len(y)) = u
  BY CutJoined
<1> QED
  BY <1>1, <1>2

\* Beyond the first half of a joined sequence only the second one is cut.
LEMMA DropJoined ==
  ASSUME NEW S, NEW x \in Seq(S), NEW t \in Seq(S), NEW n \in Nat
  PROVE  Drop(x \o t, Len(x) + n) = Drop(t, n)
<1> DEFINE b == x \o t
<1>1. /\ b \in Seq(S) /\ Len(b) = Len(x) + Len(t) /\ Len(x) \in Nat /\ Len(t) \in Nat
      /\ \A i \in 1 .. Len(x) + Len(t) : b[i] = IF i <= Len(x) THEN x[i] ELSE t[i - Len(x)]
  BY ConcatProperties
<1> HIDE DEF b
<1> DEFINE k == Len(x) + n
           p == Drop(b, k)
           q == Drop(t, n)
<1>0. k = Len(x) + n /\ k \in Nat
  BY <1>1
<1> HIDE DEF k
<1>2. k \in Nat /\ p \in Seq(S) /\ Len(p) = (IF k <= Len(b) THEN Len(b) - k ELSE 0)
      /\ \A i \in 1 .. Len(b) - k : p[i] = b[k + i]
  BY <1>0, <1>1, DropType
<1>3. q \in Seq(S) /\ Len(q) = (IF n <= Len(t) THEN Len(t) - n ELSE 0)
      /\ \A i \in 1 .. Len(t) - n : q[i] = t[n + i]
  BY <1>1, DropType
<1> HIDE DEF p, q
<1>4. Len(p) = Len(q)
  BY <1>0, <1>1, <1>2, <1>3
<1>5. ASSUME NEW i \in 1 .. Len(p) PROVE p[i] = q[i]
  <2>1. i \in 1 .. Len(b) - k /\ i \in 1 .. Len(t) - n
    BY <1>0, <1>1, <1>2, <1>3, <1>4
  <2>2. k + i \in 1 .. Len(x) + Len(t) /\ ~(k + i <= Len(x)) /\ (k + i) - Len(x) = n + i
    BY <1>0, <1>1, <2>1
  <2>3. b[k + i] = t[n + i]
    BY <1>1, <2>2
  <2> QED
    BY <1>2, <1>3, <2>1, <2>3
<1> QED
  BY <1>2, <1>3, <1>4, <1>5, SeqEqual DEF p, q, b, k

\* Dropping twice is dropping once.
LEMMA DropTwice ==
  ASSUME NEW S, NEW b \in Seq(S), NEW m \in Nat, NEW n \in Nat
  PROVE  Drop(Drop(b, m), n) = Drop(b, m + n)
<1> DEFINE c == Drop(b, m)
           p == Drop(c, n)
           q == Drop(b, m + n)
<1>1. c \in Seq(S) /\ Len(c) = (IF m <= Len(b) THEN Len(b) - m ELSE 0)
      /\ \A i \in 1 .. Len(b) - m : c[i] = b[m + i]
  BY DropType
<1> HIDE DEF c
<1>2. p \in Seq(S) /\ Len(p) = (IF n <= Len(c) THEN Len(c) - n ELSE 0)
      /\ \A i \in 1 .. Len(c) - n : p[i] = c[n + i]
  BY <1>1, DropType
<1>3. m + n \in Nat
  OBVIOUS
<1>4. q \in Seq(S) /\ Len(q) = (IF m + n <= Len(b) THEN Len(b) - (m + n) ELSE 0)
      /\ \A i \in 1 .. Len(b) - (m + n) : q[i] = b[(m + n) + i]
  BY <1>3, DropType
<1> HIDE DEF p, q
<1>5. Len(p) = Len(q) /\ Len(b) \in Nat
  BY <1>1, <1>2, <1>4
<1>6. ASSUME NEW i \in 1 .. Len(p) PROVE p[i] = q[i]
  <2>1. i \in 1 .. Len(c) - n /\ n + i \in 1 .. Len(b) - m /\ i \in 1 .. Len(b) - (m + n)
        /\ m + (n + i) = (m + n) + i
    BY <1>1, <1>2, <1>4, <1>5
  <2> QED
    BY <1>1, <1>2, <1>4, <2>1
<1> QED
  BY <1>2, <1>4, <1>5, <1>6, SeqEqual DEF p, q, c

\* A sequence with one more element in front.
LEMMA InFront ==
  ASSUME NEW S, NEW e \in S, NEW u \in Seq(S)
  PROVE  /\ <<e>> \o u \in Seq(S) /\ Len(<<e>> \o u) = 1 + Len(u) /\ (<<e>> \o u)[1] = e
         /\ \A j \in 1 .. Len(u) : (<<e>> \o u)[j + 1] = u[j]
         /\ Head(<<e>> \o u) = e /\ Tail(<<e>> \o u) = u /\ <<e>> \o u # <<>>
<1> DEFINE x == <<e>>
           z == x \o u
<1>1. x \in Seq(S) /\ Len(x) = 1 /\ x[1] = e
  OBVIOUS
<1> HIDE DEF x
<1>2. /\ z \in Seq(S) /\ Len(z) = 1 + Len(u) /\ Len(u) \in Nat
      /\ \A i \in 1 .. 1 + Len(u) : z[i] = IF i <= 1 THEN x[i] ELSE u[i - 1]
  <2>1. /\ x \o u \in Seq(S)
        /\ Len(x \o u) = Len(x) + Len(u)
        /\ \A i \in 1 .. Len(x) + Len(u) :
             (x \o u)[i] = IF i <= Len(x) THEN x[i] ELSE u[i - Len(x)]
    BY <1>1, ConcatProperties
  <2>2. Len(u) \in Nat
    OBVIOUS
  <2> HIDE DEF z
  <2>3. z = x \o u
    BY DEF z
  <2> QED
    BY <1>1, <2>1, <2>2, <2>3
<1> HIDE DEF z
<1>3. z[1] = e /\ \A j \in 1 .. Len(u) : z[j + 1] = u[j]
  BY <1>1, <1>2
<1>4. z # <<>> /\ Head(z) = e
  BY <1>2, <1>3
<1>5. Tail(z) = u
  <2> DEFINE y == Tail(z)
  <2>1. y \in Seq(S) /\ Len(y) = Len(u) /\ \A j \in 1 .. Len(u) : y[j] = z[j + 1]
    BY <1>2, <1>4
  <2> HIDE DEF y
  <2>2. y = u
    BY <1>3, <2>1, SeqEqual
  <2> QED
    BY <2>2 DEF y
<1> QED
  BY <1>2, <1>3, <1>4, <1>5 DEF z, x

\* The beginnings of a sequence.
LEMMA TakeNext ==
  ASSUME NEW S, NEW s \in Seq(S)
  PROVE  /\ Take(s, 0) = <<>> /\ Take(s, Len(s)) = s
         /\ \A i \in Nat : i < Len(s) => Append(Take(s, i), s[i + 1]) = Take(s, i + 1)
<1> DEFINE n == Len(s)
<1>1. n \in Nat
  OBVIOUS
<1>2. Take(s, 0) = <<>>
  BY DEF Take
<1>3. Take(s, n) = s
  BY DEF Take
<1> HIDE DEF n
<1>4. ASSUME NEW i \in Nat, i < n PROVE Append(Take(s, i), s[i + 1]) = Take(s, i + 1)
  <2> DEFINE p == Take(s, i)
             q == Take(s, i + 1)
             k == i + 1
             e == s[k]
  <2>1. p \in Seq(S) /\ Len(p) = i /\ \A j \in 1 .. i : p[j] = s[j]
    <3>1. p \in Seq(S) /\ Len(p) = (IF i <= Len(s) THEN i ELSE Len(s))
          /\ \A j \in 1 .. i : j <= Len(s) => p[j] = s[j]
      BY TakeType
    <3> HIDE DEF p
    <3> QED
      BY <1>1, <1>4, <3>1 DEF n
  <2>a. k \in Nat /\ k <= n /\ k \in 1 .. n
    BY <1>1, <1>4
  <2>2. q \in Seq(S) /\ Len(q) = k /\ \A j \in 1 .. k : q[j] = s[j]
    <3> HIDE DEF k
    <3> DEFINE w == Take(s, k)
    <3>1. w \in Seq(S) /\ Len(w) = (IF k <= Len(s) THEN k ELSE Len(s))
          /\ \A j \in 1 .. k : j <= Len(s) => w[j] = s[j]
      BY <2>a, TakeType
    <3> HIDE DEF w
    <3>2. w \in Seq(S) /\ Len(w) = k /\ \A j \in 1 .. k : w[j] = s[j]
      BY <1>1, <2>a, <3>1 DEF n
    <3> QED
      BY <3>2 DEF w, k
  <2>3. e \in S
    BY <2>a DEF n
  <2> HIDE DEF p, q, e
  <2> DEFINE r == Append(p, e)
  <2>4. r \in Seq(S) /\ Len(r) = i + 1 /\ r[i + 1] = e /\ \A j \in 1 .. i : r[j] = p[j]
    BY <2>1, <2>3
  <2> HIDE DEF r
  <2>5. \A j \in 1 .. i + 1 : r[j] = q[j]
    BY <2>1, <2>2, <2>4 DEF e
  <2>6. r = q
    BY <2>2, <2>4, <2>5, SeqEqual
  <2> QED
    BY <2>6 DEF p, q, r, e
<1> QED
  BY <1>1, <1>2, <1>3, <1>4 DEF n

-----------------------------------------------------------------------------
(* Integers *)

\* What division leaves.
LEMMA Divide ==
  ASSUME NEW a \in Nat, NEW b \in Nat \ {0}
  PROVE  a = (b * (a \div b)) + (a % b) /\ a % b \in 0 .. b - 1 /\ a \div b \in Nat
OBVIOUS

\* To divide by a product is to divide twice.
LEMMA DivideTwice ==
  ASSUME NEW a \in Nat, NEW b \in Nat \ {0}, NEW c \in Nat \ {0}
  PROVE  a \div (b * c) = (a \div b) \div c
OBVIOUS

\* A quotient is small if the dividend is.
LEMMA SmallQuotient ==
  ASSUME NEW a \in Nat, NEW b \in Nat \ {0}, NEW c \in Nat, a < b * c
  PROVE  a \div b < c
OBVIOUS

\* A number less than the divisor is its own remainder.
LEMMA NoRemainder ==
  ASSUME NEW a \in Nat, NEW b \in Nat, a < b
  PROVE  a % b = a /\ a \div b = 0
OBVIOUS

\* The largest number that fits into an integer of some octets, and one more.
Room(size) == IF size = 1 THEN Base ELSE IF size = 2 THEN Weight(2) ELSE Pow2[WordBits]

\* How much there is room for.
LEMMA Sizes ==
  /\ \A reader : Limit(reader) \in Nat /\ Weight(2) < Limit(reader) /\ Base < Limit(reader)
                 /\ Pow2[WordBits - 1] <= Limit(reader) /\ Limit(reader) <= Pow2[WordBits]
  /\ \A size : Room(size) \in Nat /\ Base <= Room(size)
<1> DEFINE B == Base
<1>1. B \in Nat /\ B >= 8
  BY Powers
<1> HIDE DEF B
<1>2. B * B \in Nat /\ B * B >= 8 * B
  BY <1>1
<1> DEFINE C == B * B
<1>3. C \in Nat /\ C >= 64 /\ C >= B /\ B * (B * (B * B)) = C * C
  BY <1>1, <1>2
<1> HIDE DEF C
<1>4. C * C \in Nat /\ C * C >= 64 * C
  BY <1>3
<1>5. Weight(2) = C /\ Base = B /\ Pow2[WordBits] = C * C
  BY <1>3, Powers DEF B, C
<1> DEFINE H == Pow2[WordBits - 1]
<1>6. H \in Nat /\ C * C = 2 * H
  BY <1>5, WordType
<1> DEFINE D == C * C
<1>7. D \in Nat /\ D >= 64 * C /\ D = 2 * H
  BY <1>4, <1>6
<1> HIDE DEF D, H
<1>8. C < H /\ B < H /\ H <= D /\ B <= D /\ C < D /\ B < D
  BY <1>1, <1>3, <1>6, <1>7
<1>9. ASSUME NEW reader
      PROVE  /\ Limit(reader) \in Nat /\ Weight(2) < Limit(reader) /\ Base < Limit(reader)
             /\ Pow2[WordBits - 1] <= Limit(reader) /\ Limit(reader) <= Pow2[WordBits]
  <2>1. Limit(reader) = H \/ Limit(reader) = D
    BY <1>5 DEF Limit, H, D
  <2>2. Pow2[WordBits] = D /\ Pow2[WordBits - 1] = H
    BY <1>5 DEF H, D
  <2> QED
    BY <1>1, <1>3, <1>5, <1>6, <1>7, <1>8, <2>1, <2>2
<1>10. ASSUME NEW size
       PROVE  Room(size) \in Nat /\ Base <= Room(size)
  <2>1. Room(size) = B \/ Room(size) = C \/ Room(size) = D
    BY <1>5 DEF Room, D
  <2> QED
    BY <1>1, <1>3, <1>5, <1>7, <1>8, <2>1
<1> QED
  BY <1>9, <1>10

\* An octet has the same weight for both readers, unless it reaches the sign.
LEMMA PlaceValue ==
  ASSUME NEW reader, NEW octet \in Nat, NEW p \in 0 .. 3, octet * Weight(p) < Limit(reader)
  PROVE  AtPlace(reader, octet, p) = octet * Weight(p)
<1>1. CASE reader # "client"
  BY <1>1 DEF AtPlace
<1>2. CASE reader = "client"
  <2> DEFINE k == ByteBits * p
             v == octet * Weight(p)
  <2>1. k \in Nat /\ k < WordBits
    <3>1. ByteBits \in Nat /\ ByteBits >= 3
      BY CodecAssumption
    <3> QED
      BY <3>1 DEF WordBits
  <2>2. k % WordBits = k
    BY <2>1, WordType, NoRemainder
  <2>3. ShiftLeft(octet, k) = ToWord(v)
    BY <2>2 DEF ShiftLeft, Weight
  <2>4. v \in Nat /\ v < Pow2[WordBits - 1]
    <3>1. Weight(p) \in Nat
      BY WeightType
    <3> QED
      BY <1>2, <3>1 DEF Limit
  <2> HIDE DEF v, k
  <2> DEFINE M == Pow2[WordBits]
  <2>5. v % M = v
    <3>1. M \in Nat /\ v < M
      BY <2>4, WordType
    <3> HIDE DEF M
    <3> QED
      BY <2>4, <3>1, NoRemainder
  <2>6. ToWord(v) = v
    BY <2>4, <2>5 DEF ToWord, M
  <2> QED
    BY <1>2, <2>3, <2>6 DEF AtPlace, v, k
<1> QED
  BY <1>1, <1>2

\* An octet that is 0 has no weight.
LEMMA PlaceOfZero ==
  ASSUME NEW reader, NEW p \in Nat
  PROVE  AtPlace(reader, 0, p) = 0
<1>1. Weight(p) \in Nat
  BY WeightType
<1>2. CASE reader # "client"
  BY <1>1, <1>2 DEF AtPlace
<1>3. CASE reader = "client"
  <2> DEFINE k == (ByteBits * p) % WordBits
  <2>1. k \in Nat
    <3>1. ByteBits * p \in Nat /\ WordBits \in Nat \ {0}
      BY CodecAssumption DEF WordBits
    <3> QED
      BY <3>1
  <2>2. 0 * Pow2[k] = 0
    BY <2>1, Pow2Type
  <2>3. ToWord(0) = 0
    <3>1. 0 % Pow2[WordBits] = 0 /\ 0 < Pow2[WordBits - 1]
      BY WordType
    <3> QED
      BY <3>1 DEF ToWord
  <2> QED
    BY <1>3, <2>2, <2>3 DEF AtPlace, ShiftLeft
<1> QED
  BY <1>2, <1>3

\* What the octets of a number weigh at their places.
Weighed(reader, b, n, P) == \A i \in 1 .. n : AtPlace(reader, b[i], n - i) = P[i]

SumOf(s, n, P) ==
  \E h : h[0] = 0 /\ (\A i \in 1 .. n : h[i] = h[i - 1] + P[i]) /\ s = h[n]

\* The sum of the weighed octets.
LEMMA NumberSums ==
  ASSUME NEW reader, NEW b, NEW n \in Nat, Len(b) = n, NEW P \in [1 .. n -> Int],
         Weighed(reader, b, n, P)
  PROVE  SumOf(Number(reader, b), n, P)
<1> DEFINE Is(f) == f = [i \in 0 .. Len(b) |-> IF i = 0 THEN 0
                                  ELSE f[i - 1] + AtPlace(reader, b[i], Len(b) - i)]
<1> DEFINE S == Int
           z == 0
           G == [i \in 1 .. n |-> [x \in S |-> x + P[i]]]
<1>1. G \in [1 .. n -> [S -> S]] /\ z \in S /\ \A i \in 1 .. n, x \in S : G[i][x] = x + P[i]
  OBVIOUS
<1> HIDE DEF G, z, S
<1>2. PICK f \in [0 .. n -> S] : Iterate(f, z, n, G)
  BY <1>1, Iterates
<1>0. \A i \in 1 .. n : AtPlace(reader, b[i], n - i) = P[i]
  BY DEF Weighed
<1>3. ASSUME NEW i \in 0 .. n
      PROVE  f[i] = IF i = 0 THEN 0 ELSE f[i - 1] + AtPlace(reader, b[i], Len(b) - i)
  <2>1. CASE i # 0
    <3>1. i - 1 \in 0 .. n /\ i \in 1 .. n
      BY <2>1
    <3>2. f[i] = G[i][f[i - 1]] /\ f[i - 1] \in S
      BY <1>2, <3>1 DEF Iterate
    <3> QED
      BY <1>0, <1>1, <2>1, <3>1, <3>2
  <2>2. CASE i = 0
    BY <1>2, <2>2 DEF Iterate, z
  <2> QED
    BY <2>1, <2>2
<1>4. Is(f)
  BY <1>2, <1>3
<1> DEFINE h == CHOOSE g : Is(g)
<1>5. Is(h)
  <2> HIDE DEF Is
  <2> QED BY <1>4
<1>6. Number(reader, b) = h[n]
  BY DEF Number
<1> HIDE DEF h
<1>7. h[0] = 0 /\ \A i \in 1 .. n : h[i] = h[i - 1] + P[i]
  BY <1>0, <1>5
<1> QED
  BY <1>6, <1>7 DEF SumOf

\* An integer is a sequence of octets.
LEMMA SerializeIntType ==
  ASSUME NEW size \in {1, 2, 4, 8}, NEW n \in Nat
  PROVE  /\ SerializeInt(size, n) \in Seq(Octet) /\ Len(SerializeInt(size, n)) = size
         /\ \A i \in 1 .. size : SerializeInt(size, n)[i] =
              IF size - i >= 4 THEN 0 ELSE (n \div Weight(size - i)) % Base
<1>1. ASSUME NEW i \in 1 .. size
      PROVE  (IF size - i >= 4 THEN 0 ELSE (n \div Weight(size - i)) % Base) \in Octet
  <2>1. size - i \in Nat
    OBVIOUS
  <2>2. Weight(size - i) \in Nat \ {0} /\ Base \in Nat \ {0} /\ 0 \in Octet /\ Octet = 0 .. Base - 1
    BY <2>1, OctetType, WeightType
  <2> DEFINE q == n \div Weight(size - i)
  <2>3. q \in Nat
    BY <2>2
  <2> HIDE DEF q
  <2>4. q % Base \in Octet
    BY <2>2, <2>3
  <2> QED
    BY <2>2, <2>4 DEF q
<1> QED
  BY <1>1 DEF SerializeInt

\* The four octets of a number, by the place of each.
LEMMA Digits ==
  ASSUME NEW n \in Nat, n < Pow2[WordBits]
  PROVE  /\ \A p \in 0 .. 3 : (n \div Weight(p)) % Base \in Octet
         /\ n = (((n \div Weight(3)) % Base) * Weight(3)) + (((n \div Weight(2)) % Base) * Weight(2))
                + (((n \div Weight(1)) % Base) * Weight(1)) + (((n \div Weight(0)) % Base) * Weight(0))
         /\ n < Weight(2) => (n \div Weight(3)) % Base = 0 /\ (n \div Weight(2)) % Base = 0
         /\ n < Base => (n \div Weight(1)) % Base = 0
<1> DEFINE B == Base
<1>1. /\ B \in Nat /\ B >= 8 /\ Octet = 0 .. B - 1 /\ Weight(0) = 1 /\ Weight(1) = B
      /\ Weight(2) = B * B /\ Weight(3) = B * (B * B) /\ n < B * (B * (B * B))
  BY Powers
<1> HIDE DEF B
<1> DEFINE a == n \div B
           b == a \div B
           c == b \div B
<1>0. B \in Nat \ {0}
  BY <1>1
<1>2. n = (B * a) + (n % B) /\ n % B \in 0 .. B - 1 /\ a \in Nat /\ a < B * (B * B)
  <2> DEFINE M == B * (B * B)
  <2>1. M \in Nat /\ n < B * M
    BY <1>1
  <2> HIDE DEF M
  <2>2. a < M
    BY <1>0, <2>1, SmallQuotient
  <2>3. n = (B * a) + (n % B) /\ n % B \in 0 .. B - 1 /\ a \in Nat
    BY <1>0, Divide
  <2> QED
    BY <2>2, <2>3 DEF M
<1> HIDE DEF a
<1>3. a = (B * b) + (a % B) /\ a % B \in 0 .. B - 1 /\ b \in Nat /\ b < B * B
  <2> DEFINE M == B * B
  <2>1. M \in Nat /\ a < B * M
    BY <1>0, <1>2
  <2> HIDE DEF M
  <2>2. b < M
    BY <1>0, <1>2, <2>1, SmallQuotient
  <2>3. a = (B * b) + (a % B) /\ a % B \in 0 .. B - 1 /\ b \in Nat
    BY <1>0, <1>2, Divide
  <2> QED
    BY <2>2, <2>3 DEF M
<1> HIDE DEF b
<1>4. b = (B * c) + (b % B) /\ b % B \in 0 .. B - 1 /\ c \in Nat /\ c < B
  BY <1>0, <1>3, Divide, SmallQuotient
<1> HIDE DEF c
<1>5. c % B = c
  BY <1>1, <1>4, NoRemainder
<1>6. n \div (B * B) = b
  BY <1>1, DivideTwice DEF a, b
<1>7. n \div (B * (B * B)) = c
  <2>1. B * (B * B) = (B * B) * B /\ B * B \in Nat \ {0}
    BY <1>1
  <2>2. n \div ((B * B) * B) = (n \div (B * B)) \div B
    BY <1>1, <2>1, DivideTwice
  <2> QED
    BY <1>6, <2>1, <2>2 DEF c
<1>8. n \div 1 = n
  OBVIOUS
<1> DEFINE d0 == n % B
           d1 == a % B
           d2 == b % B
<1>9. d0 \in 0 .. B - 1 /\ d1 \in 0 .. B - 1 /\ d2 \in 0 .. B - 1
      /\ n = (B * a) + d0 /\ a = (B * b) + d1 /\ b = (B * c) + d2
  BY <1>2, <1>3, <1>4
<1> HIDE DEF d0, d1, d2
<1>10. n = (c * (B * (B * B))) + (d2 * (B * B)) + (d1 * B) + (d0 * 1)
  <2>1. c \in Int /\ d2 \in Int /\ d1 \in Int /\ d0 \in Int /\ B \in Int
    BY <1>0, <1>4, <1>9
  <2>2. n = (B * ((B * ((B * c) + d2)) + d1)) + d0
    BY <1>9
  <2> QED
    BY <2>1, <2>2
<1>11. n < B * B => b = 0
  <2> DEFINE M == B * B
  <2>1. M \in Nat /\ n \div M = b
    BY <1>1, <1>6
  <2> HIDE DEF M
  <2>2. n < M => b = 0
    BY <2>1, NoRemainder
  <2> QED
    BY <2>2 DEF M
<1>12. n < B => a = 0
  BY <1>1, NoRemainder DEF a
<1>13. b = 0 => c = 0 /\ d2 = 0
  BY <1>1, <1>4, <1>9
<1>14. a = 0 => d1 = 0
  BY <1>1, <1>3, <1>9
<1>15. /\ (n \div Weight(3)) % Base = c /\ (n \div Weight(2)) % Base = d2
       /\ (n \div Weight(1)) % Base = d1 /\ (n \div Weight(0)) % Base = d0
  BY <1>1, <1>5, <1>6, <1>7, <1>8 DEF B, a, d0, d1, d2
<1>16. n = (c * Weight(3)) + (d2 * Weight(2)) + (d1 * Weight(1)) + (d0 * Weight(0))
  BY <1>1, <1>10
<1>17. n < Weight(2) => c = 0 /\ d2 = 0
  BY <1>1, <1>11, <1>13
<1>18. n < Base => d1 = 0
  BY <1>12, <1>14 DEF B
<1>19. ASSUME NEW p \in 0 .. 3 PROVE (n \div Weight(p)) % Base \in Octet
  <2>1. c \in Octet /\ d2 \in Octet /\ d1 \in Octet /\ d0 \in Octet
    BY <1>0, <1>4, <1>9, OctetType DEF B
  <2>2. p = 0 \/ p = 1 \/ p = 2 \/ p = 3
    OBVIOUS
  <2> HIDE DEF B
  <2>3. CASE p = 0
    BY <2>1, <2>3, <1>15
  <2>4. CASE p = 1
    BY <2>1, <2>4, <1>15
  <2>5. CASE p = 2
    BY <2>1, <2>5, <1>15
  <2>6. CASE p = 3
    BY <2>1, <2>6, <1>15
  <2> QED
    BY <2>2, <2>3, <2>4, <2>5, <2>6
<1> QED
  BY <1>15, <1>16, <1>17, <1>18, <1>19

\* What the octet at a place adds to a number.
Term(n, p) == IF p >= 4 THEN 0 ELSE ((n \div Weight(p)) % Base) * Weight(p)

\* The terms of a number sum up to it.
LEMMA Terms ==
  ASSUME NEW n \in Nat, n < Pow2[WordBits]
  PROVE  /\ \A p \in Nat : Term(n, p) \in Nat /\ Term(n, p) <= n
         /\ n = Term(n, 3) + Term(n, 2) + Term(n, 1) + Term(n, 0)
         /\ n < Weight(2) => Term(n, 3) = 0 /\ Term(n, 2) = 0
         /\ n < Base => Term(n, 3) = 0 /\ Term(n, 2) = 0 /\ Term(n, 1) = 0
<1> DEFINE d3 == (n \div Weight(3)) % Base
           d2 == (n \div Weight(2)) % Base
           d1 == (n \div Weight(1)) % Base
           d0 == (n \div Weight(0)) % Base
           t3 == d3 * Weight(3)
           t2 == d2 * Weight(2)
           t1 == d1 * Weight(1)
           t0 == d0 * Weight(0)
<1>1. /\ \A p \in 0 .. 3 : (n \div Weight(p)) % Base \in Octet
      /\ n = t3 + t2 + t1 + t0
      /\ n < Weight(2) => d3 = 0 /\ d2 = 0
      /\ n < Base => d1 = 0
  BY Digits
<1>2. d3 \in Nat /\ d2 \in Nat /\ d1 \in Nat /\ d0 \in Nat
  <2>1. 3 \in 0 .. 3 /\ 2 \in 0 .. 3 /\ 1 \in 0 .. 3 /\ 0 \in 0 .. 3
    OBVIOUS
  <2>2. Octet \subseteq Nat
    BY OctetType
  <2> QED
    BY <1>1, <2>1, <2>2
<1> HIDE DEF d3, d2, d1, d0
<1>3. t3 \in Nat /\ t2 \in Nat /\ t1 \in Nat /\ t0 \in Nat
      /\ (d3 = 0 => t3 = 0) /\ (d2 = 0 => t2 = 0) /\ (d1 = 0 => t1 = 0)
  <2>1. Weight(3) \in Nat /\ Weight(2) \in Nat /\ Weight(1) \in Nat /\ Weight(0) \in Nat
    BY WeightType
  <2> QED
    BY <1>2, <2>1
<1>4. Term(n, 3) = t3 /\ Term(n, 2) = t2 /\ Term(n, 1) = t1 /\ Term(n, 0) = t0
  BY DEF Term, t3, t2, t1, t0, d3, d2, d1, d0
<1>5. n < Base => n < Weight(2)
  <2>1. Room(2) = Weight(2) /\ Room(2) \in Nat /\ Base <= Room(2) /\ Base \in Nat
    BY Sizes, OctetType DEF Room
  <2> QED
    BY <2>1
<1> HIDE DEF t3, t2, t1, t0
<1>6. ASSUME NEW p \in Nat PROVE Term(n, p) \in Nat /\ Term(n, p) <= n
  <2>1. p = 0 \/ p = 1 \/ p = 2 \/ p = 3 \/ p >= 4
    OBVIOUS
  <2>2. CASE p >= 4
    <3>1. Term(n, p) = 0
      BY <2>2 DEF Term
    <3> QED
      BY <3>1
  <2>3. CASE p \in {0, 1, 2, 3}
    BY <1>1, <1>3, <1>4, <2>3
  <2> QED
    BY <2>1, <2>2, <2>3
<1> QED
  BY <1>1, <1>3, <1>4, <1>5, <1>6

\* An integer that fits is read as it was written (parser.js, serializer.js).
LEMMA Exact ==
  ASSUME NEW reader, NEW size \in {1, 2, 4, 8}, NEW n \in Nat, n < Room(size), n < Limit(reader)
  PROVE  Number(reader, SerializeInt(size, n)) = n
<1> DEFINE b == SerializeInt(size, n)
           P == [i \in 1 .. size |-> Term(n, size - i)]
<1>1. n < Pow2[WordBits]
  <2>1. Limit(reader) \in Nat /\ Limit(reader) <= Pow2[WordBits] /\ Pow2[WordBits] \in Nat
    BY Sizes, WordType
  <2> QED
    BY <2>1
<1>2. /\ \A p \in Nat : Term(n, p) \in Nat /\ Term(n, p) <= n
      /\ n = Term(n, 3) + Term(n, 2) + Term(n, 1) + Term(n, 0)
      /\ n < Weight(2) => Term(n, 3) = 0 /\ Term(n, 2) = 0
      /\ n < Base => Term(n, 3) = 0 /\ Term(n, 2) = 0 /\ Term(n, 1) = 0
  BY <1>1, Terms
<1>3. /\ Len(b) = size /\ size \in Nat
      /\ \A i \in 1 .. size : b[i] = IF size - i >= 4 THEN 0 ELSE (n \div Weight(size - i)) % Base
  <2>1. size \in Nat
    OBVIOUS
  <2>2. /\ Len(b) = size
        /\ \A i \in 1 .. size : b[i] = IF size - i >= 4 THEN 0 ELSE (n \div Weight(size - i)) % Base
    BY SerializeIntType
  <2> HIDE DEF b
  <2> QED
    BY <2>1, <2>2
<1> HIDE DEF b
<1>4. ASSUME NEW i \in 1 .. size PROVE AtPlace(reader, b[i], size - i) = Term(n, size - i)
  <2> DEFINE p == size - i
             d == (n \div Weight(p)) % Base
  <2>1. p \in Nat
    BY <1>3
  <2>2. CASE p >= 4
    BY <1>3, <2>1, <2>2, PlaceOfZero DEF Term
  <2>3. CASE ~ (p >= 4)
    <3>1. p \in 0 .. 3
      BY <2>1, <2>3
    <3>2. b[i] = d /\ Term(n, p) = d * Weight(p)
      BY <1>3, <2>3 DEF Term
    <3>3. d \in Nat
      <4>1. d \in Octet
        BY <1>1, <3>1, Digits
      <4> QED
        BY <4>1, OctetType
    <3>4. Term(n, p) < Limit(reader)
      <4>1. Term(n, p) \in Nat /\ Term(n, p) <= n /\ Limit(reader) \in Nat
        BY <1>2, <2>1, Sizes
      <4> QED
        BY <4>1
    <3> HIDE DEF d, p
    <3>5. AtPlace(reader, d, p) = d * Weight(p)
      BY <3>1, <3>2, <3>3, <3>4, PlaceValue
    <3> QED
      BY <3>2, <3>5 DEF p
  <2> QED
    BY <2>2, <2>3
<1>5. P \in [1 .. size -> Int] /\ \A i \in 1 .. size : P[i] = Term(n, size - i)
  BY <1>2, <1>3
<1> HIDE DEF P
<1>6. PICK h : /\ h[0] = 0 /\ \A i \in 1 .. size : h[i] = h[i - 1] + P[i]
               /\ Number(reader, b) = h[size]
  <2>1. size \in Nat /\ Len(b) = size /\ P \in [1 .. size -> Int]
    BY <1>3, <1>5
  <2>2. Weighed(reader, b, size, P)
    BY <1>4, <1>5 DEF Weighed
  <2>3. SumOf(Number(reader, b), size, P)
    BY <2>1, <2>2, NumberSums
  <2> QED
    BY <2>3 DEF SumOf
<1>7. h[0] = 0 /\ \A i \in 1 .. size : h[i] = h[i - 1] + Term(n, size - i)
  BY <1>5, <1>6
<1>8. Term(n, 3) \in Nat /\ Term(n, 2) \in Nat /\ Term(n, 1) \in Nat /\ Term(n, 0) \in Nat
  BY <1>2
<1>9. CASE size = 1
  <2>1. h[1] = h[0] + Term(n, 0)
    BY <1>7, <1>9
  <2>2. n < Base
    BY <1>9 DEF Room
  <2> QED
    BY <1>2, <1>6, <1>7, <1>8, <1>9, <2>1, <2>2 DEF b
<1>10. CASE size = 2
  <2>1. h[1] = h[0] + Term(n, 1)
    BY <1>7, <1>10
  <2>2. h[2] = h[1] + Term(n, 0)
    BY <1>7, <1>10
  <2>3. n < Weight(2)
    BY <1>10 DEF Room
  <2> QED
    BY <1>2, <1>6, <1>7, <1>8, <1>10, <2>1, <2>2, <2>3 DEF b
<1>11. CASE size = 4
  <2>1. h[1] = h[0] + Term(n, 3)
    BY <1>7, <1>11
  <2>2. h[2] = h[1] + Term(n, 2)
    BY <1>7, <1>11
  <2>3. h[3] = h[2] + Term(n, 1)
    BY <1>7, <1>11
  <2>4. h[4] = h[3] + Term(n, 0)
    BY <1>7, <1>11
  <2> QED
    BY <1>2, <1>6, <1>7, <1>8, <1>11, <2>1, <2>2, <2>3, <2>4 DEF b
<1>12. CASE size = 8
  <2>0. Term(n, 7) = 0 /\ Term(n, 6) = 0 /\ Term(n, 5) = 0 /\ Term(n, 4) = 0
    BY DEF Term
  <2>1. h[1] = h[0] + Term(n, 7) /\ h[2] = h[1] + Term(n, 6)
    BY <1>7, <1>12
  <2>2. h[3] = h[2] + Term(n, 5) /\ h[4] = h[3] + Term(n, 4)
    BY <1>7, <1>12
  <2>3. h[5] = h[4] + Term(n, 3) /\ h[6] = h[5] + Term(n, 2)
    BY <1>7, <1>12
  <2>4. h[7] = h[6] + Term(n, 1) /\ h[8] = h[7] + Term(n, 0)
    BY <1>7, <1>12
  <2> QED
    BY <1>2, <1>6, <1>7, <1>8, <1>12, <2>0, <2>1, <2>2, <2>3, <2>4 DEF b
<1> QED
  BY <1>9, <1>10, <1>11, <1>12

\* What was read, and what is left.
Back(value, t) == [value |-> value, rest |-> t]

\* A sequence cut where it was joined, by the length of its beginning.
LEMMA CutAt ==
  ASSUME NEW S, NEW x \in Seq(S), NEW t \in Seq(S), NEW n, Len(x) = n
  PROVE  Take(x \o t, n) = x /\ Drop(x \o t, n) = t
BY CutJoined

\* A number small enough for the reader fits into four octets.
LEMMA FitsLong ==
  ASSUME NEW reader, NEW n \in Nat, n < Limit(reader)
  PROVE  n < Room(4) /\ n < Room(8)
<1>1. Room(4) = Pow2[WordBits] /\ Room(8) = Pow2[WordBits]
  BY DEF Room
<1>2. Limit(reader) \in Nat /\ Limit(reader) <= Pow2[WordBits] /\ Pow2[WordBits] \in Nat
  BY Sizes, WordType
<1> QED
  BY <1>1, <1>2

\* An integer followed by anything is read back.
LEMMA IntBack ==
  ASSUME NEW reader, NEW size \in {1, 2, 4, 8}, NEW n \in Nat, n < Room(size), n < Limit(reader),
         NEW t \in Seq(Octet)
  PROVE  ReadInt(reader, size, SerializeInt(size, n) \o t) = Back(n, t)
<1> DEFINE x == SerializeInt(size, n)
<1>1. x \in Seq(Octet) /\ Len(x) = size
  BY SerializeIntType
<1>2. Number(reader, x) = n
  BY Exact
<1> HIDE DEF x
<1>3. Take(x \o t, size) = x /\ Drop(x \o t, size) = t
  BY <1>1, CutAt
<1> QED
  BY <1>2, <1>3 DEF ReadInt, Read, Back, x

\* So is a string, written after its length.
LEMMA StringBack ==
  ASSUME NEW reader, NEW size \in {1, 2, 4, 8}, NEW s \in Seq(Octet),
         Len(s) < Room(size), Len(s) < Limit(reader), NEW t \in Seq(Octet)
  PROVE  ReadString(reader, size, (SerializeInt(size, Len(s)) \o s) \o t) = Back(s, t)
<1> DEFINE n == Len(s)
           x == SerializeInt(size, n)
           b == (x \o s) \o t
           st == s \o t
<1>1. n \in Nat
  OBVIOUS
<1>2. x \in Seq(Octet) /\ Len(x) = size
  BY <1>1, SerializeIntType
<1>3. Number(reader, x) = n
  BY <1>1, Exact
<1> HIDE DEF x
<1>4. b = x \o st /\ st \in Seq(Octet)
  BY <1>2
<1>5. Take(st, n) = s /\ Drop(st, n) = t
  BY CutAt
<1>6. Take(x \o st, size) = x /\ Drop(x \o st, size) = st
  <2> HIDE DEF st
  <2> QED
    BY <1>2, <1>4, CutAt
<1>7. Drop(x \o st, size + n) = Drop(st, n)
  <2> HIDE DEF st, n
  <2> QED
    BY <1>1, <1>2, <1>4, DropJoined
<1> HIDE DEF b, st, n
<1>8. ReadString(reader, size, b) = Back(s, t)
  BY <1>3, <1>4, <1>5, <1>6, <1>7 DEF ReadString, Read, Back
<1> QED
  BY <1>8 DEF b, x, n

\* What such a string is written as.
LEMMA TextType ==
  ASSUME NEW size \in {1, 2, 4, 8}, NEW s \in Seq(Octet)
  PROVE  SerializeInt(size, Len(s)) \o s \in Seq(Octet)
         /\ Len(SerializeInt(size, Len(s)) \o s) = size + Len(s)
<1> DEFINE n == Len(s)
           x == SerializeInt(size, n)
<1>0. n \in Nat
  OBVIOUS
<1> HIDE DEF n
<1>1. x \in Seq(Octet) /\ Len(x) = size
  BY <1>0, SerializeIntType
<1> HIDE DEF x
<1>2. x \o s \in Seq(Octet) /\ Len(x \o s) = size + Len(s)
  BY <1>1
<1> QED
  BY <1>2 DEF x, n

-----------------------------------------------------------------------------
(* Fields *)

\* A step of SerializeFields.
WriteStep(fields, args, acc, i) ==
  LET f    == fields[i]
      bits == acc.bits + IF args[f.name] THEN Pow2[acc.index] ELSE 0
  IN  CASE f.name \notin DOMAIN args -> acc
        [] f.name \in DOMAIN args /\ f.domain # "bit" ->
             [acc EXCEPT !.bytes = @ \o SerializeField(f.domain, args[f.name])]
        [] f.name \in DOMAIN args /\ f.domain = "bit" /\ ~LastBit(fields, i) ->
             [acc EXCEPT !.bits = bits, !.index = @ + 1]
        [] OTHER -> [bytes |-> Append(acc.bytes, bits), bits |-> 0, index |-> 0]

WriteStart == [bytes |-> <<>>, bits |-> 0, index |-> 0]

Writes(w, fields, args) ==
  w[0] = WriteStart /\ \A i \in 1 .. Len(fields) : w[i] = WriteStep(fields, args, w[i - 1], i)

\* A step of ReadFields.
ParseStep(reader, fields, acc, i) ==
  LET f == fields[i]
      r == IF f.domain = "bit"
           THEN Read((acc.rest[1] \div Pow2[acc.index]) % 2 = 1,
                     acc.rest, IF LastBit(fields, i) THEN 1 ELSE 0)
           ELSE ReadField(reader, f.domain, acc.rest)
  IN  [args  |-> With(f.name, r.value, acc.args), rest |-> r.rest,
       index |-> IF f.domain = "bit" /\ ~LastBit(fields, i) THEN acc.index + 1 ELSE 0]

ParseStart(b) == [args |-> <<>>, rest |-> b, index |-> 0]

Parses(p, reader, fields, b) ==
  p[0] = ParseStart(b) /\ \A i \in 1 .. Len(fields) : p[i] = ParseStep(reader, fields, p[i - 1], i)

\* The fields are written one by one.
LEMMA WritesExists ==
  ASSUME NEW fields, NEW args, Len(fields) \in Nat
  PROVE  \E w : Writes(w, fields, args) /\ SerializeFields(fields, args) = w[Len(fields)].bytes
<1> DEFINE Step(h, i) == IF i = 0 THEN WriteStart ELSE WriteStep(fields, args, h[i - 1], i)
           Is(h, n) == h = [i \in 0 .. n |-> Step(h, i)]
           Reached == {n \in Nat : \E f : Is(f, n)}
<1>1. 0 \in Reached
  <2> DEFINE z == [i \in 0 .. 0 |-> WriteStart]
  <2>1. Is(z, 0)
    OBVIOUS
  <2> QED
    BY <2>1
<1>2. ASSUME NEW n \in Nat, n \in Reached PROVE n + 1 \in Reached
  <2>1. PICK f : Is(f, n)
    BY <1>2
  <2> DEFINE g == [i \in 0 .. n + 1 |-> IF i = n + 1 THEN Step(f, n + 1) ELSE f[i]]
  <2>2. ASSUME NEW i \in 0 .. n + 1 PROVE g[i] = Step(g, i)
    <3>1. CASE i = n + 1
      BY <3>1
    <3>2. CASE i \in 0 .. n
      <4>1. f[i] = Step(f, i)
        BY <2>1, <3>2
      <4>2. i # 0 => i - 1 \in 0 .. n
        BY <3>2
      <4> QED
        BY <3>2, <4>1, <4>2
    <3> QED
      BY <3>1, <3>2
  <2>3. Is(g, n + 1)
    BY <2>2
  <2> HIDE DEF g, Step
  <2> QED
    BY <2>3
<1>3. Len(fields) \in Reached
  <2> HIDE DEF Reached
  <2> QED
    BY <1>1, <1>2, NatInSet
<1> DEFINE h == CHOOSE f : Is(f, Len(fields))
<1>4. Is(h, Len(fields))
  <2> HIDE DEF Is
  <2> QED
    BY <1>3
<1>5. SerializeFields(fields, args) = h[Len(fields)].bytes
  BY DEF SerializeFields, WriteStep, WriteStart
<1> HIDE DEF h
<1>6. Writes(h, fields, args)
  BY <1>4 DEF Writes
<1> QED
  BY <1>5, <1>6

\* They are read one by one.
LEMMA ParsesExists ==
  ASSUME NEW reader, NEW fields, NEW b, Len(fields) \in Nat
  PROVE  \E p : Parses(p, reader, fields, b) /\ ReadFields(reader, fields, b) = p[Len(fields)]
<1> DEFINE Step(h, i) == IF i = 0 THEN ParseStart(b) ELSE ParseStep(reader, fields, h[i - 1], i)
           Is(h, n) == h = [i \in 0 .. n |-> Step(h, i)]
           Reached == {n \in Nat : \E f : Is(f, n)}
<1>1. 0 \in Reached
  <2> DEFINE z == [i \in 0 .. 0 |-> ParseStart(b)]
  <2>1. Is(z, 0)
    OBVIOUS
  <2> QED
    BY <2>1
<1>2. ASSUME NEW n \in Nat, n \in Reached PROVE n + 1 \in Reached
  <2>1. PICK f : Is(f, n)
    BY <1>2
  <2> DEFINE g == [i \in 0 .. n + 1 |-> IF i = n + 1 THEN Step(f, n + 1) ELSE f[i]]
  <2>2. ASSUME NEW i \in 0 .. n + 1 PROVE g[i] = Step(g, i)
    <3>1. CASE i = n + 1
      BY <3>1
    <3>2. CASE i \in 0 .. n
      <4>1. f[i] = Step(f, i)
        BY <2>1, <3>2
      <4>2. i # 0 => i - 1 \in 0 .. n
        BY <3>2
      <4> QED
        BY <3>2, <4>1, <4>2
    <3> QED
      BY <3>1, <3>2
  <2>3. Is(g, n + 1)
    BY <2>2
  <2> HIDE DEF g, Step
  <2> QED
    BY <2>3
<1>3. Len(fields) \in Reached
  <2> HIDE DEF Reached
  <2> QED
    BY <1>1, <1>2, NatInSet
<1> DEFINE h == CHOOSE f : Is(f, Len(fields))
<1>4. Is(h, Len(fields))
  <2> HIDE DEF Is
  <2> QED
    BY <1>3
<1>5. ReadFields(reader, fields, b) = h[Len(fields)]
  BY DEF ReadFields, ParseStep, ParseStart
<1> HIDE DEF h
<1>6. Parses(h, reader, fields, b)
  BY <1>4 DEF Parses
<1> QED
  BY <1>5, <1>6

-----------------------------------------------------------------------------
(* Sequences joined *)

\* J joins the sequences of s one after the other.
Joins(J, s) == J[0] = <<>> /\ \A i \in 1 .. Len(s) : J[i] = J[i - 1] \o s[i]

\* What FlattenSeq computes.
LEMMA FlattenJoins ==
  ASSUME NEW X, NEW s \in Seq(Seq(X))
  PROVE  \E J : Joins(J, s) /\ FlattenSeq(s) = J[Len(s)]
<1> DEFINE n == Len(s)
           S == Seq(X)
           z == <<>>
           G == [i \in 1 .. n |-> [x \in S |-> x \o s[i]]]
           Is(f) == f = [i \in 1 .. n |-> IF i = 1 THEN s[i] ELSE f[i - 1] \o s[i]]
<1>1. n \in Nat /\ \A i \in 1 .. n : s[i] \in Seq(X)
  OBVIOUS
<1>2. CASE n = 0
  <2>1. s = <<>> /\ FlattenSeq(s) = s
    BY <1>2 DEF FlattenSeq
  <2> DEFINE J == [i \in 0 .. 0 |-> <<>>]
  <2>2. J[0] = <<>>
    OBVIOUS
  <2>3. Joins(J, s)
    <3> HIDE DEF J
    <3> QED
      BY <1>2, <2>2 DEF Joins
  <2> QED
    BY <1>2, <2>1, <2>2, <2>3
<1>3. CASE n # 0
  <2>1. G \in [1 .. n -> [S -> S]] /\ z \in S /\ \A i \in 1 .. n, x \in S : G[i][x] = x \o s[i]
    <3>1. \A i \in 1 .. n, x \in S : x \o s[i] \in S
      BY <1>1
    <3> HIDE DEF S
    <3>2. \A i \in 1 .. n : [x \in S |-> x \o s[i]] \in [S -> S]
      BY <3>1
    <3>3. z \in S
      BY DEF S
    <3> QED
      BY <3>2, <3>3
  <2> HIDE DEF G, z, S, n
  <2>2. PICK f \in [0 .. n -> S] : Iterate(f, z, n, G)
    BY <1>1, <2>1, Iterates
  <2> DEFINE g == [i \in 1 .. n |-> f[i]]
  <2>3. ASSUME NEW i \in 1 .. n PROVE g[i] = IF i = 1 THEN s[i] ELSE g[i - 1] \o s[i]
    <3>1. f[i] = G[i][f[i - 1]] /\ i - 1 \in 0 .. n /\ f[i - 1] \in S
      BY <1>1, <2>2 DEF Iterate
    <3>2. f[i] = f[i - 1] \o s[i]
      BY <2>1, <3>1
    <3>3. CASE i = 1
      <4>1. f[0] = <<>> /\ s[1] \in Seq(X)
        BY <1>1, <2>2, <3>3 DEF Iterate, z
      <4>2. <<>> \o s[1] = s[1]
        BY <4>1
      <4>3. f[1] = f[0] \o s[1]
        <5>1. i - 1 = 0
          BY <3>3
        <5> HIDE DEF g
        <5> QED
          BY <3>2, <3>3, <5>1
      <4>4. g[1] = f[1]
        BY <3>3
      <4> HIDE DEF g
      <4> QED
        BY <3>3, <4>1, <4>2, <4>3, <4>4
    <3>4. CASE i # 1
      <4>1. i - 1 \in 1 .. n
        BY <1>1, <3>4
      <4> QED
        BY <3>2, <3>4, <4>1
    <3> QED
      BY <3>3, <3>4
  <2>4. Is(g)
    BY <2>3
  <2> HIDE DEF g
  <2> DEFINE h == CHOOSE k : Is(k)
  <2>5. Is(h)
    <3> HIDE DEF Is
    <3> QED BY <2>4
  <2>6. FlattenSeq(s) = h[n]
    BY <1>3 DEF FlattenSeq, n
  <2> HIDE DEF h
  <2> DEFINE J == [i \in 0 .. n |-> IF i = 0 THEN <<>> ELSE h[i]]
  <2>7. J[0] = <<>> /\ J[n] = h[n]
    BY <1>1, <1>3
  <2>8. ASSUME NEW i \in 1 .. n PROVE J[i] = J[i - 1] \o s[i]
    <3>0. J[i] = h[i]
      <4>1. i \in 0 .. n /\ i # 0
        BY <1>1
      <4> QED
        BY <4>1
    <3>1. h[i] = IF i = 1 THEN s[i] ELSE h[i - 1] \o s[i]
      BY <2>5
    <3>2. CASE i = 1
      <4>1. <<>> \o s[1] = s[1]
        <5>1. s[1] \in Seq(X)
          BY <1>1, <3>2
        <5> QED
          BY <5>1
      <4> HIDE DEF J
      <4>2. J[i - 1] = <<>> /\ h[i] = s[1] /\ s[i] = s[1]
        BY <2>7, <3>1, <3>2
      <4> QED
        BY <3>0, <4>1, <4>2
    <3>3. CASE i # 1
      <4>1. J[i - 1] = h[i - 1]
        BY <1>1, <3>3
      <4> QED
        BY <3>0, <3>1, <3>3, <4>1
    <3> QED
      BY <3>2, <3>3
  <2> HIDE DEF J
  <2>9. Joins(J, s)
    BY <2>7, <2>8 DEF Joins, n
  <2> QED
    BY <2>6, <2>7, <2>9 DEF n
<1> QED
  BY <1>2, <1>3

\* The joined sequences are one over the same set, as far as they are joined.
LEMMA JoinsType ==
  ASSUME NEW X, NEW s \in Seq(Seq(X)), NEW J, Joins(J, s)
  PROVE  \A i \in 0 .. Len(s) : J[i] \in Seq(X)
<1> DEFINE G == {k \in Nat : k <= Len(s) => J[k] \in Seq(X)}
<1>1. 0 \in G
  <2>1. J[0] = <<>> /\ <<>> \in Seq(X)
    BY DEF Joins
  <2> QED
    BY <2>1
<1>2. ASSUME NEW k \in Nat, k \in G PROVE k + 1 \in G
  <2> SUFFICES ASSUME k + 1 <= Len(s) PROVE J[k + 1] \in Seq(X)
    OBVIOUS
  <2>1. J[k] \in Seq(X) /\ k + 1 \in 1 .. Len(s) /\ s[k + 1] \in Seq(X) /\ (k + 1) - 1 = k
    BY <1>2
  <2>2. J[k + 1] = J[k] \o s[k + 1]
    BY <2>1 DEF Joins
  <2> QED
    BY <2>1, <2>2
<1> HIDE DEF G
<1>3. \A k \in Nat : k \in G
  BY <1>1, <1>2, NatInSet
<1> QED
  BY <1>3 DEF G

\* Nothing joined is nothing.
LEMMA FlattenEmpty == FlattenSeq(<<>>) = <<>>
BY DEF FlattenSeq

\* What is joined is a sequence over the same set.
LEMMA FlattenType ==
  ASSUME NEW X, NEW s \in Seq(Seq(X))
  PROVE  FlattenSeq(s) \in Seq(X)
<1>1. PICK J : Joins(J, s) /\ FlattenSeq(s) = J[Len(s)]
  BY FlattenJoins
<1>2. Len(s) \in 0 .. Len(s)
  OBVIOUS
<1> QED
  BY <1>1, <1>2, JoinsType

\* One more sequence is joined at the end.
LEMMA FlattenAppend ==
  ASSUME NEW X, NEW s \in Seq(Seq(X)), NEW e \in Seq(X)
  PROVE  FlattenSeq(Append(s, e)) = FlattenSeq(s) \o e
<1> DEFINE t == Append(s, e)
           n == Len(s)
<1>1. t \in Seq(Seq(X)) /\ Len(t) = n + 1 /\ n \in Nat /\ t[n + 1] = e
      /\ \A i \in 1 .. n : t[i] = s[i]
  OBVIOUS
<1>2. PICK J : Joins(J, s) /\ FlattenSeq(s) = J[n]
  BY FlattenJoins
<1> HIDE DEF t
<1>3. PICK E : Joins(E, t) /\ FlattenSeq(t) = E[Len(t)]
  BY <1>1, FlattenJoins
<1> DEFINE G == {k \in Nat : k <= n => E[k] = J[k]}
<1>4. 0 \in G
  BY <1>2, <1>3 DEF Joins
<1>5. ASSUME NEW k \in Nat, k \in G PROVE k + 1 \in G
  <2> SUFFICES ASSUME k + 1 <= n PROVE E[k + 1] = J[k + 1]
    OBVIOUS
  <2>1. E[k] = J[k] /\ k + 1 \in 1 .. n /\ k + 1 \in 1 .. Len(t) /\ (k + 1) - 1 = k /\ t[k + 1] = s[k + 1]
    BY <1>1, <1>5
  <2>2. J[k + 1] = J[k] \o s[k + 1]
    BY <1>2, <2>1 DEF Joins
  <2>3. E[k + 1] = E[k] \o t[k + 1]
    BY <1>3, <2>1 DEF Joins
  <2> QED
    BY <2>1, <2>2, <2>3
<1> HIDE DEF G
<1>6. n \in G
  BY <1>1, <1>4, <1>5, NatInSet
<1>7. E[n + 1] = E[n] \o e
  <2>1. n + 1 \in 1 .. Len(t) /\ (n + 1) - 1 = n
    BY <1>1
  <2> HIDE DEF n
  <2>2. E[n + 1] = E[(n + 1) - 1] \o t[n + 1]
    BY <1>3, <2>1 DEF Joins
  <2> QED
    BY <1>1, <2>1, <2>2
<1>8. E[n] = J[n]
  BY <1>1, <1>6 DEF G
<1> QED
  BY <1>1, <1>2, <1>3, <1>7, <1>8 DEF t

\* What is joined of two parts is joined of the whole.
LEMMA FlattenConcat ==
  ASSUME NEW X, NEW s \in Seq(Seq(X)), NEW u \in Seq(Seq(X))
  PROVE  FlattenSeq(s \o u) = FlattenSeq(s) \o FlattenSeq(u)
<1> DEFINE G == {t \in Seq(Seq(X)) : FlattenSeq(s \o t) = FlattenSeq(s) \o FlattenSeq(t)}
<1>0. \A t \in Seq(Seq(X)) : FlattenSeq(t) \in Seq(X)
  BY FlattenType
<1>1. <<>> \in G
  <2>1. s \o <<>> = s /\ FlattenSeq(s) \o <<>> = FlattenSeq(s) /\ <<>> \in Seq(Seq(X))
    BY <1>0
  <2> QED
    BY <2>1, FlattenEmpty
<1>2. ASSUME NEW t \in Seq(Seq(X)), t \in G, NEW e \in Seq(X) PROVE Append(t, e) \in G
  <2>1. s \o Append(t, e) = Append(s \o t, e) /\ s \o t \in Seq(Seq(X))
    OBVIOUS
  <2>2. FlattenSeq(Append(s \o t, e)) = FlattenSeq(s \o t) \o e
    BY <2>1, FlattenAppend
  <2>3. FlattenSeq(Append(t, e)) = FlattenSeq(t) \o e
    BY FlattenAppend
  <2>4. (FlattenSeq(s) \o FlattenSeq(t)) \o e = FlattenSeq(s) \o (FlattenSeq(t) \o e)
    <3> DEFINE a == FlattenSeq(s)
               c == FlattenSeq(t)
    <3>1. a \in Seq(X) /\ c \in Seq(X)
      BY <1>0
    <3> HIDE DEF a, c
    <3>2. (a \o c) \o e = a \o (c \o e)
      BY SMTT(20), <3>1
    <3> QED
      BY <3>2 DEF a, c
  <2>5. FlattenSeq(s \o t) = FlattenSeq(s) \o FlattenSeq(t)
    BY <1>2
  <2>6. FlattenSeq(s \o Append(t, e)) = FlattenSeq(s) \o FlattenSeq(Append(t, e))
    BY <2>1, <2>2, <2>3, <2>4, <2>5
  <2>7. Append(t, e) \in Seq(Seq(X))
    OBVIOUS
  <2> QED
    BY <2>6, <2>7
<1> HIDE DEF G
<1>3. u \in G
  BY <1>1, <1>2, SeqInSet
<1> QED
  BY <1>3 DEF G

\* What is joined of a first sequence and others.
LEMMA FlattenFirst ==
  ASSUME NEW X, NEW e \in Seq(X), NEW u \in Seq(Seq(X))
  PROVE  FlattenSeq(<<e>> \o u) = e \o FlattenSeq(u)
<1> DEFINE S == Seq(X)
<1> HIDE DEF S
<1>0. e \in S
  BY DEF S
<1>1. <<e>> \in Seq(S) /\ <<>> \in Seq(S) /\ Append(<<>>, e) = <<e>>
  BY <1>0
<1> USE DEF S
<1>2. FlattenSeq(<<e>>) = <<>> \o e
  <2>1. FlattenSeq(Append(<<>>, e)) = FlattenSeq(<<>>) \o e
    BY <1>1, FlattenAppend
  <2> QED
    BY <1>1, <2>1, FlattenEmpty
<1>3. FlattenSeq(<<e>> \o u) = FlattenSeq(<<e>>) \o FlattenSeq(u)
  BY <1>1, FlattenConcat
<1>4. <<>> \o e = e
  OBVIOUS
<1> QED
  BY <1>2, <1>3, <1>4

-----------------------------------------------------------------------------
(* Values and tables *)

Types == {"string", "int", "double", "bool", "bytes"}

\* A type is known by its code.
LEMMA TypeOfCode ==
  ASSUME NEW type \in Types
  PROVE  /\ TypeCode[type] \in Octet
         /\ (CHOOSE t \in DOMAIN TypeCode : TypeCode[t] = TypeCode[type]) = type
<1>1. DOMAIN TypeCode = Types
  BY DEF TypeCode, Types
<1>2. /\ TypeCode["string"] = 1 /\ TypeCode["int"] = 2 /\ TypeCode["double"] = 3
      /\ TypeCode["bool"] = 4 /\ TypeCode["bytes"] = 5
  BY DEF TypeCode
<1>3. \A t, u \in Types : TypeCode[t] = TypeCode[u] => t = u
  BY <1>2 DEF Types
<1>4. TypeCode[type] \in 1 .. 5
  BY <1>2 DEF Types
<1>5. TypeCode[type] \in Octet
  BY <1>4, OctetType
<1> QED
  BY <1>1, <1>3, <1>5

\* What a value is written as, after its type.
Written(value) ==
  CASE value.type \in {"string", "bytes"} -> SerializeLongString(value.v)
    [] value.type = "int"    -> SerializeInt(4, value.v)
    [] value.type = "double" -> value.v
    [] value.type = "bool"   -> SerializeInt(1, IF value.v THEN 1 ELSE 0)

\* The fields of a value, by its type.
LEMMA ValueType ==
  ASSUME NEW value \in Value
  PROVE  /\ value = [type |-> value.type, v |-> value.v] /\ value.type \in Types
         /\ value.type \in {"string", "bytes"} => value.v \in Seq(Octet)
         /\ value.type = "int" => value.v \in Nat
         /\ value.type = "double" => value.v \in Seq(Octet) /\ Len(value.v) = 8
         /\ value.type = "bool" => value.v \in BOOLEAN
BY DEF Value, Types

\* It is a sequence of octets.
LEMMA WrittenType ==
  ASSUME NEW value \in Value
  PROVE  /\ Written(value) \in Seq(Octet)
         /\ SerializeValue(value) = <<TypeCode[value.type]>> \o Written(value)
         /\ SerializeValue(value) \in Seq(Octet) /\ Len(SerializeValue(value)) >= 1
<1>1. value.type \in Types /\ TypeCode[value.type] \in Octet
  BY ValueType, TypeOfCode
<1>2. Written(value) \in Seq(Octet)
  <2>1. CASE value.type \in {"string", "bytes"}
    <3>1. value.v \in Seq(Octet)
      BY <2>1, ValueType
    <3>2. SerializeInt(4, Len(value.v)) \o value.v \in Seq(Octet)
      BY <3>1, TextType
    <3> QED
      BY <2>1, <3>2 DEF Written, SerializeLongString
  <2>2. CASE value.type = "int"
    <3>1. value.v \in Nat
      BY <2>2, ValueType
    <3>2. SerializeInt(4, value.v) \in Seq(Octet)
      BY <3>1, SerializeIntType
    <3> QED
      BY <2>2, <3>2 DEF Written
  <2>3. CASE value.type = "double"
    BY <2>3, ValueType DEF Written
  <2>4. CASE value.type = "bool"
    <3> DEFINE n == IF value.v THEN 1 ELSE 0
    <3>1. n \in Nat
      OBVIOUS
    <3> HIDE DEF n
    <3>2. SerializeInt(1, n) \in Seq(Octet)
      BY <3>1, SerializeIntType
    <3> QED
      BY <2>4, <3>2 DEF Written, n
  <2> QED
    BY <1>1, <2>1, <2>2, <2>3, <2>4 DEF Types
<1>3. SerializeValue(value) = <<TypeCode[value.type]>> \o Written(value)
  BY DEF SerializeValue, Written
<1> DEFINE c == TypeCode[value.type]
           w == Written(value)
<1> HIDE DEF c, w
<1>4. c \in Octet /\ w \in Seq(Octet)
  BY <1>1, <1>2 DEF c, w
<1>5. <<c>> \in Seq(Octet) /\ Len(<<c>>) = 1
  BY <1>4
<1>6. <<c>> \o w \in Seq(Octet) /\ Len(<<c>> \o w) = 1 + Len(w) /\ Len(w) \in Nat
  BY <1>4, <1>5
<1> QED
  BY <1>2, <1>3, <1>6 DEF c, w

\* A value is read back (parser.js:202-269, serializer.js:137-184).
LEMMA ValueBack ==
  ASSUME NEW reader, NEW value, ValueFits(reader, value), NEW t \in Seq(Octet)
  PROVE  ReadValue(reader, SerializeValue(value) \o t) = Back(value, t)
<1> DEFINE c == TypeCode[value.type]
           w == Written(value)
           wt == w \o t
           b == SerializeValue(value) \o t
<1>1. value \in Value /\ value.type \in Types
  BY ValueType DEF ValueFits
<1>2. c \in Octet /\ w \in Seq(Octet) /\ SerializeValue(value) = <<c>> \o w
  BY <1>1, WrittenType, TypeOfCode
<1>a. (CHOOSE u \in DOMAIN TypeCode : TypeCode[u] = c) = value.type
  BY <1>1, TypeOfCode
<1> HIDE DEF c, w
<1>3. b = <<c>> \o wt /\ wt \in Seq(Octet) /\ <<c>> \in Seq(Octet)
  BY <1>2
<1> HIDE DEF b, wt
<1>4. b[1] = c /\ Tail(b) = wt /\ b \in Seq(Octet) /\ Len(b) = 1 + Len(wt)
      /\ \A i \in 1 .. Len(wt) : b[i + 1] = wt[i]
  BY <1>3
<1> DEFINE r == CASE value.type \in {"string", "bytes"} -> ReadString(reader, 4, Tail(b))
                  [] value.type = "int"    -> ReadInt(reader, 4, Tail(b))
                  [] value.type = "double" -> Read(Take(Tail(b), 8), b, 9)
                  [] value.type = "bool"   -> Read(b[2] > 0, b, 2)
<1>5. ReadValue(reader, b) = [r EXCEPT !.value = [type |-> value.type, v |-> @]]
  BY <1>4, <1>a DEF ReadValue
<1>6. r = Back(value.v, t)
  <2>1. CASE value.type \in {"string", "bytes"}
    <3>1. value.v \in Seq(Octet) /\ Len(value.v) < Limit(reader)
      BY <1>1, <2>1, ValueType DEF ValueFits
    <3>2. Len(value.v) < Room(4)
      <4>1. Len(value.v) \in Nat
        BY <3>1
      <4> QED
        BY <3>1, <4>1, FitsLong
    <3>3. ReadString(reader, 4, (SerializeInt(4, Len(value.v)) \o value.v) \o t) = Back(value.v, t)
      BY <3>1, <3>2, StringBack
    <3>4. w = SerializeInt(4, Len(value.v)) \o value.v
      BY <2>1 DEF w, Written, SerializeLongString
    <3> QED
      BY <1>4, <2>1, <3>3, <3>4 DEF wt
  <2>2. CASE value.type = "int"
    <3>1. value.v \in Nat /\ value.v < Limit(reader)
      BY <1>1, <2>2, ValueType DEF ValueFits
    <3>2. value.v < Room(4)
      BY <3>1, FitsLong
    <3>3. ReadInt(reader, 4, SerializeInt(4, value.v) \o t) = Back(value.v, t)
      BY <3>1, <3>2, IntBack
    <3> QED
      BY <1>4, <2>2, <3>3 DEF wt, w, Written
  <2>3. CASE value.type = "double"
    <3>1. w = value.v /\ Len(w) = 8
      BY <1>1, <2>3, ValueType DEF w, Written
    <3>2. Take(wt, 8) = w /\ Drop(wt, 8) = t
      BY <1>2, <3>1, CutAt DEF wt
    <3>3. Drop(b, 9) = Drop(wt, 8)
      <4> DEFINE x == <<c>>
      <4>0. b = x \o wt
        BY <1>3
      <4>1. x \in Seq(Octet) /\ Len(x) = 1 /\ wt \in Seq(Octet)
        BY <1>3
      <4> HIDE DEF x
      <4> DEFINE far == 9
                 near == 8
      <4>2. near \in Nat /\ far = Len(x) + near
        BY <4>1
      <4> HIDE DEF far, near
      <4>3. Drop(x \o wt, Len(x) + near) = Drop(wt, near)
        BY <4>1, <4>2, DropJoined
      <4> QED
        BY <4>0, <4>2, <4>3 DEF far, near
    <3>4. Drop(b, 9) = t
      BY <3>2, <3>3
    <3> QED
      BY <1>4, <2>3, <3>1, <3>2, <3>4 DEF Read, Back
  <2>4. CASE value.type = "bool"
    <3> DEFINE n == IF value.v THEN 1 ELSE 0
    <3>1. n \in Nat /\ n <= 1
      OBVIOUS
    <3>2. w = SerializeInt(1, n)
      BY <2>4 DEF w, Written
    <3> HIDE DEF n
    <3>3. Len(w) = 1 /\ w[1] = (n \div Weight(0)) % Base
      <4> DEFINE x == SerializeInt(1, n)
                 d == (n \div Weight(0)) % Base
      <4>1. Len(x) = 1 /\ \A i \in 1 .. 1 : x[i] = IF 1 - i >= 4 THEN 0 ELSE (n \div Weight(1 - i)) % Base
        BY <3>1, SerializeIntType
      <4>2. x[1] = (n \div Weight(1 - 1)) % Base
        BY <4>1
      <4> HIDE DEF x
      <4>3. 1 - 1 = 0
        OBVIOUS
      <4> QED
        BY <3>2, <4>1, <4>2, <4>3 DEF x
    <3>4. w[1] = n
      <4>1. Weight(0) = 1
        BY Powers
      <4>2. n \div 1 = n /\ n < Base
        BY <3>1, OctetType
      <4>3. n % Base = n
        BY <3>1, <4>2, OctetType, NoRemainder
      <4> QED
        BY <3>3, <4>1, <4>2, <4>3
    <3>5. wt[1] = w[1] /\ Len(wt) >= 1 /\ Drop(wt, 1) = t
      <4>1. Drop(wt, 1) = t
        BY <1>2, <3>3, CutAt DEF wt
      <4>2. wt[1] = w[1] /\ Len(wt) >= 1
        BY <1>2, <3>3 DEF wt
      <4> QED
        BY <4>1, <4>2
    <3>6. Drop(b, 2) = Drop(wt, 1)
      <4> DEFINE x == <<c>>
      <4>0. b = x \o wt
        BY <1>3
      <4>1. x \in Seq(Octet) /\ Len(x) = 1 /\ wt \in Seq(Octet)
        BY <1>3
      <4> HIDE DEF x
      <4> DEFINE far == 2
                 near == 1
      <4>2. near \in Nat /\ far = Len(x) + near
        BY <4>1
      <4> HIDE DEF far, near
      <4>3. Drop(x \o wt, Len(x) + near) = Drop(wt, near)
        BY <4>1, <4>2, DropJoined
      <4> QED
        BY <4>0, <4>2, <4>3 DEF far, near
    <3>7. b[2] = n /\ Drop(b, 2) = t
      <4>1. 1 \in 1 .. Len(wt) /\ 1 + 1 = 2
        BY <1>3, <3>5
      <4> QED
        BY <1>4, <3>4, <3>5, <3>6, <4>1
    <3>8. (b[2] > 0) = value.v
      <4>1. value.v \in BOOLEAN
        BY <1>1, <2>4, ValueType
      <4> QED
        BY <3>7, <4>1 DEF n
    <3> QED
      BY <2>4, <3>7, <3>8 DEF Read, Back
  <2> QED
    BY <1>1, <2>1, <2>2, <2>3, <2>4 DEF Types
<1> HIDE DEF r
<1>7. value = [type |-> value.type, v |-> value.v]
  BY <1>1, ValueType
<1> QED
  BY <1>5, <1>6, <1>7 DEF b, Back

\* The first sequence joined, and the others.
LEMMA FlattenDrop ==
  ASSUME NEW X, NEW s \in Seq(Seq(X)), NEW i \in Nat, i < Len(s)
  PROVE  FlattenSeq(Drop(s, i)) = s[i + 1] \o FlattenSeq(Drop(s, i + 1))
<1> DEFINE S == Seq(X)
           d == Drop(s, i)
           u == Drop(s, i + 1)
           e == s[i + 1]
<1>1. Len(s) \in Nat /\ i + 1 \in 1 .. Len(s) /\ i + 1 \in Nat /\ i + 1 <= Len(s)
  OBVIOUS
<1>2. e \in S
  BY <1>1
<1> HIDE DEF S
<1>3. s \in Seq(S)
  BY DEF S
<1>4. /\ d \in Seq(S) /\ Len(d) = Len(s) - i
      /\ \A j \in 1 .. Len(s) - i : d[j] = s[i + j]
  BY <1>1, <1>3, DropType
<1>5. /\ u \in Seq(S) /\ Len(u) = Len(s) - (i + 1)
      /\ \A j \in 1 .. Len(s) - (i + 1) : u[j] = s[(i + 1) + j]
  BY <1>1, <1>3, DropType
<1> HIDE DEF d, u, e
<1> DEFINE z == <<e>> \o u
<1>6. /\ z \in Seq(S) /\ Len(z) = 1 + Len(u) /\ z[1] = e
      /\ \A j \in 1 .. Len(u) : z[j + 1] = u[j]
  BY <1>2, <1>5, InFront
<1> HIDE DEF z
<1>7. ASSUME NEW j \in 1 .. Len(d) PROVE d[j] = z[j]
  <2>1. CASE j = 1
    BY <1>1, <1>4, <1>6, <2>1 DEF e
  <2>2. CASE j # 1
    <3>1. j - 1 \in 1 .. Len(u) /\ (i + 1) + (j - 1) = i + j /\ (j - 1) + 1 = j /\ j \in 1 .. Len(s) - i
      BY <1>1, <1>4, <1>5, <2>2
    <3>2. u[j - 1] = s[(i + 1) + (j - 1)]
      BY <1>5, <3>1
    <3>3. z[(j - 1) + 1] = u[j - 1]
      BY <1>6, <3>1
    <3> QED
      BY <1>4, <3>1, <3>2, <3>3
  <2> QED
    BY <2>1, <2>2
<1>8. d = z
  <2>1. Len(d) = Len(z)
    BY <1>1, <1>4, <1>5, <1>6
  <2> QED
    BY <1>4, <1>6, <1>7, <2>1, SeqEqual
<1>9. FlattenSeq(<<e>> \o u) = e \o FlattenSeq(u)
  BY <1>2, <1>5, FlattenFirst DEF S
<1> QED
  BY <1>8, <1>9 DEF d, u, e, z

\* All of them, and none.
LEMMA FlattenEnds ==
  ASSUME NEW X, NEW s \in Seq(Seq(X))
  PROVE  FlattenSeq(Drop(s, 0)) = FlattenSeq(s) /\ FlattenSeq(Drop(s, Len(s))) = <<>>
<1> DEFINE S == Seq(X)
<1> HIDE DEF S
<1>1. s \in Seq(S)
  BY DEF S
<1>2. Drop(s, 0) = s /\ Drop(s, Len(s)) = <<>>
  <2>1. Len(s) \in Nat
    BY <1>1
  <2>2. SubSeq(s, 1, Len(s)) = s /\ SubSeq(s, Len(s) + 1, Len(s)) = <<>>
    BY <1>1, <2>1
  <2> QED
    BY <2>2 DEF Drop
<1> QED
  BY <1>2, FlattenEmpty

\* Sequences that are not empty make one that is as long as there are of them.
LEMMA FlattenLength ==
  ASSUME NEW X, NEW s \in Seq(Seq(X)), \A i \in 1 .. Len(s) : s[i] # <<>>
  PROVE  Len(FlattenSeq(s)) >= Len(s)
<1>1. PICK J : Joins(J, s) /\ FlattenSeq(s) = J[Len(s)]
  BY FlattenJoins
<1>2. \A i \in 0 .. Len(s) : J[i] \in Seq(X)
  BY <1>1, JoinsType
<1> DEFINE G == {k \in Nat : k <= Len(s) => Len(J[k]) >= k}
<1>3. 0 \in G
  <2>1. J[0] = <<>> /\ Len(<<>>) = 0
    BY <1>1 DEF Joins
  <2> QED
    BY <2>1
<1>4. ASSUME NEW k \in Nat, k \in G PROVE k + 1 \in G
  <2> SUFFICES ASSUME k + 1 <= Len(s) PROVE Len(J[k + 1]) >= k + 1
    OBVIOUS
  <2>1. k + 1 \in 1 .. Len(s) /\ (k + 1) - 1 = k /\ Len(J[k]) >= k /\ k \in 0 .. Len(s)
    BY <1>4
  <2>2. J[k + 1] = J[k] \o s[k + 1]
    BY <1>1, <2>1 DEF Joins
  <2> DEFINE x == J[k]
             y == s[k + 1]
  <2>3. x \in Seq(X) /\ y \in Seq(X) /\ y # <<>> /\ Len(x) >= k
    BY <1>2, <2>1
  <2> HIDE DEF x, y
  <2>4. Len(y) >= 1 /\ Len(x \o y) = Len(x) + Len(y) /\ Len(x) \in Nat /\ Len(y) \in Nat
    BY <2>3
  <2>5. Len(x \o y) >= k + 1
    BY <2>3, <2>4
  <2> QED
    BY <2>2, <2>5 DEF x, y
<1> HIDE DEF G
<1>5. Len(s) \in G
  <2>1. Len(s) \in Nat
    OBVIOUS
  <2> QED
    BY <1>3, <1>4, <2>1, NatInSet
<1> QED
  BY <1>1, <1>5 DEF G

-----------------------------------------------------------------------------
(* Tables *)

\* A step of ReadTable.
EntryStep(reader, end, before) ==
  LET key   == ReadString(reader, 1, before.rest)
      value == ReadValue(reader, key.rest)
  IN  IF Len(before.rest) <= end THEN before
      ELSE [value |-> Append(before.value, <<key.value, value.value>>), rest |-> value.rest]

EndOf(reader, b) == Len(b) - 4 - Number(reader, Take(b, 4))

ReadsEntries(e, reader, b) ==
  /\ e[0] = Read(<<>>, b, 4)
  /\ \A i \in 1 .. Len(b) : e[i] = EntryStep(reader, EndOf(reader, b), e[i - 1])

\* The entries are read one by one.
LEMMA EntriesExist ==
  ASSUME NEW reader, NEW b, Len(b) \in Nat
  PROVE  \E e : ReadsEntries(e, reader, b) /\ ReadTable(reader, b) = e[Len(b)]
<1> DEFINE Step(h, i) == IF i = 0 THEN Read(<<>>, b, 4) ELSE EntryStep(reader, EndOf(reader, b), h[i - 1])
           Is(h, n) == h = [i \in 0 .. n |-> Step(h, i)]
           Reached == {n \in Nat : \E f : Is(f, n)}
<1>1. 0 \in Reached
  <2> DEFINE z == [i \in 0 .. 0 |-> Read(<<>>, b, 4)]
  <2>1. Is(z, 0)
    OBVIOUS
  <2> HIDE DEF z, Step
  <2> QED
    BY <2>1
<1>2. ASSUME NEW n \in Nat, n \in Reached PROVE n + 1 \in Reached
  <2>1. PICK f : Is(f, n)
    BY <1>2
  <2> DEFINE g == [i \in 0 .. n + 1 |-> IF i = n + 1 THEN Step(f, n + 1) ELSE f[i]]
  <2>2. ASSUME NEW i \in 0 .. n + 1 PROVE g[i] = Step(g, i)
    <3>1. CASE i = n + 1
      BY <3>1
    <3>2. CASE i \in 0 .. n
      <4>1. f[i] = Step(f, i)
        BY <2>1, <3>2
      <4>2. i # 0 => i - 1 \in 0 .. n
        BY <3>2
      <4> QED
        BY <3>2, <4>1, <4>2
    <3> QED
      BY <3>1, <3>2
  <2>3. Is(g, n + 1)
    BY <2>2
  <2> HIDE DEF g, Step
  <2> QED
    BY <2>3
<1>3. Len(b) \in Reached
  <2> HIDE DEF Reached
  <2> QED
    BY <1>1, <1>2, NatInSet
<1> DEFINE h == CHOOSE f : Is(f, Len(b))
<1>4. Is(h, Len(b))
  <2> HIDE DEF Is
  <2> QED
    BY <1>3
<1>5. ReadTable(reader, b) = h[Len(b)]
  BY DEF ReadTable, EntryStep, EndOf
<1> HIDE DEF h
<1>6. ReadsEntries(h, reader, b)
  BY <1>4 DEF ReadsEntries
<1> QED
  BY <1>5, <1>6

\* An entry is a sequence of octets.
LEMMA EntryType ==
  ASSUME NEW e \in Text \X Value
  PROVE  Entry(e) \in Seq(Octet) /\ Entry(e) # <<>>
<1> DEFINE x == SerializeShortString(e[1])
           y == SerializeValue(e[2])
<1>1. x \in Seq(Octet)
  <2>1. e[1] \in Seq(Octet)
    BY DEF Text
  <2> QED
    BY <2>1, TextType DEF SerializeShortString
<1>2. y \in Seq(Octet) /\ Len(y) >= 1
  BY WrittenType
<1> HIDE DEF x, y
<1>3. x \o y \in Seq(Octet) /\ x \o y # <<>>
  <2>1. Len(x \o y) = Len(x) + Len(y) /\ Len(x) \in Nat /\ Len(y) \in Nat
    BY <1>1, <1>2
  <2>2. Len(x \o y) # 0
    BY <1>2, <2>1
  <2> QED
    BY <1>1, <1>2, <2>2
<1> QED
  BY <1>3 DEF Entry, x, y

\* It is read back.
LEMMA EntryBack ==
  ASSUME NEW reader, NEW e \in Text \X Value, ValueFits(reader, e[2]), NEW t \in Seq(Octet),
         NEW s, NEW end, ~ (Len(Entry(e) \o t) <= end)
  PROVE  EntryStep(reader, end, Back(s, Entry(e) \o t)) = Back(Append(s, e), t)
<1> DEFINE k == e[1]
           x == SerializeShortString(k)
           y == SerializeValue(e[2])
           yt == y \o t
<1>1. k \in Seq(Octet) /\ Len(k) < Base /\ e = <<k, e[2]>>
  BY DEF Text
<1>2. y \in Seq(Octet) /\ x \in Seq(Octet)
  BY <1>1, WrittenType, TextType DEF SerializeShortString
<1>3. Len(k) < Room(1) /\ Len(k) < Limit(reader)
  <2>1. Room(1) = Base /\ Base < Limit(reader) /\ Limit(reader) \in Nat /\ Base \in Nat
    BY Sizes, OctetType DEF Room
  <2>2. Len(k) \in Nat
    BY <1>1
  <2> HIDE DEF k
  <2> QED
    BY <1>1, <2>1, <2>2
<1>4. ReadValue(reader, yt) = Back(e[2], t)
  BY ValueBack
<1> HIDE DEF k, y
<1>5. yt \in Seq(Octet)
  BY <1>2
<1> HIDE DEF yt
<1>6. ReadString(reader, 1, x \o yt) = Back(k, yt)
  BY <1>1, <1>3, <1>5, StringBack DEF SerializeShortString
<1> HIDE DEF x
<1>7. Entry(e) \o t = x \o yt
  <2>1. (x \o y) \o t = x \o (y \o t)
    BY <1>2
  <2> QED
    BY <2>1 DEF Entry, x, y, yt, k
<1> DEFINE b == Entry(e) \o t
<1>8. ~ (Len(b) <= end)
  OBVIOUS
<1>9. ReadString(reader, 1, b) = Back(k, yt)
  BY <1>6, <1>7
<1> HIDE DEF b
<1>10. EntryStep(reader, end, Back(s, b)) = Back(Append(s, e), t)
  <2> DEFINE acc == Back(s, b)
  <2>1. acc.rest = b /\ acc.value = s
    BY DEF Back
  <2>2. Back(k, yt).value = k /\ Back(k, yt).rest = yt
        /\ Back(e[2], t).value = e[2] /\ Back(e[2], t).rest = t
    BY DEF Back
  <2>3. Back(Append(s, e), t) = [value |-> Append(s, <<k, e[2]>>), rest |-> t]
    BY <1>1 DEF Back
  <2> HIDE DEF acc
  <2>4. EntryStep(reader, end, acc) = [value |-> Append(s, <<k, e[2]>>), rest |-> t]
    BY <1>4, <1>8, <1>9, <2>1, <2>2 DEF EntryStep
  <2> QED
    BY <2>3, <2>4 DEF acc
<1> QED
  BY <1>10 DEF b

\* The entries of a table are sequences of octets.
LEMMA EntriesType ==
  ASSUME NEW table \in Table
  PROVE  /\ Entries(table) \in Seq(Seq(Octet)) /\ Len(Entries(table)) = Len(table)
         /\ \A i \in 1 .. Len(table) : Entries(table)[i] = Entry(table[i]) /\ Entries(table)[i] # <<>>
<1> DEFINE S == Seq(Octet)
           n == Len(table)
           s == Entries(table)
<1>1. n \in Nat /\ \A i \in 1 .. n : table[i] \in Text \X Value
  BY DEF Table
<1>2. \A i \in 1 .. n : Entry(table[i]) \in S /\ Entry(table[i]) # <<>>
  BY <1>1, EntryType
<1>3. s = [i \in 1 .. n |-> Entry(table[i])]
  BY DEF Entries
<1> HIDE DEF S, n, s
<1>4. s \in Seq(S) /\ Len(s) = n
  BY <1>1, <1>2, <1>3
<1>5. \A i \in 1 .. n : s[i] = Entry(table[i]) /\ s[i] # <<>>
  BY <1>2, <1>3
<1> QED
  BY <1>4, <1>5 DEF S, n, s

\* A table is read back (parser.js:271-280, serializer.js:186-207).
LEMMA TableBack ==
  ASSUME NEW reader, NEW table, TableFits(reader, table), NEW t \in Seq(Octet)
  PROVE  /\ SerializeTable(table) \in Seq(Octet)
         /\ ReadTable(reader, SerializeTable(table) \o t) = Back(table, t)
<1> DEFINE s == Entries(table)
           n == Len(table)
           f == FlattenSeq(s)
           x == SerializeInt(4, Len(f))
           b == (x \o f) \o t
           R(i) == FlattenSeq(Drop(s, i))
<1>1. table \in Table /\ n \in Nat /\ \A i \in 1 .. n : table[i] \in Text \X Value
                                                      /\ ValueFits(reader, table[i][2])
  BY DEF TableFits, Table
<1>2. /\ s \in Seq(Seq(Octet)) /\ Len(s) = n
      /\ \A i \in 1 .. n : s[i] = Entry(table[i]) /\ s[i] # <<>>
  BY <1>1, EntriesType
<1>3. f \in Seq(Octet) /\ Len(f) \in Nat /\ Len(f) >= n /\ Len(f) < Limit(reader)
  <2>1. f \in Seq(Octet)
    BY <1>2, FlattenType
  <2>2. Len(f) >= n
    BY <1>2, FlattenLength
  <2>3. Len(f) < Limit(reader)
    BY DEF TableFits
  <2> HIDE DEF f
  <2> QED
    BY <2>1, <2>2, <2>3
<1>a. SerializeTable(table) = x \o f
  BY DEF SerializeTable, SerializeLongString, Entries, Entry
<1>b. R(0) = f /\ R(n) = <<>>
  BY <1>2, FlattenEnds
<1>c. \A i \in Nat : i < n => R(i) = s[i + 1] \o R(i + 1)
  BY <1>2, FlattenDrop
<1>d. \A i \in Nat : R(i) \in Seq(Octet)
  <2> DEFINE S == Seq(Octet)
  <2> HIDE DEF S
  <2>1. s \in Seq(S)
    BY <1>2 DEF S
  <2>2. \A i \in Nat : Drop(s, i) \in Seq(S)
    BY <2>1, DropType
  <2> QED
    BY <2>2, FlattenType DEF S
<1> HIDE DEF n, f, s, R
<1>4. Len(f) < Room(4)
  BY <1>3, FitsLong
<1>5. x \in Seq(Octet) /\ Len(x) = 4
  BY <1>3, SerializeIntType
<1>6. Number(reader, x) = Len(f)
  BY <1>3, <1>4, Exact
<1> HIDE DEF x
<1> DEFINE ft == f \o t
<1>7. ft \in Seq(Octet) /\ Len(ft) = Len(f) + Len(t) /\ Len(t) \in Nat
  BY <1>3
<1>g. ft \in Seq(Octet)
  BY <1>7
<1>e. b = x \o ft
  BY <1>3, <1>5
<1> HIDE DEF b, ft
<1>8. b \in Seq(Octet) /\ Len(b) = 4 + Len(ft)
  <2>1. x \o ft \in Seq(Octet) /\ Len(x \o ft) = Len(x) + Len(ft)
    BY <1>5, <1>g, ConcatProperties
  <2> QED
    BY <1>5, <1>e, <2>1
<1>9. Take(b, 4) = x /\ Drop(b, 4) = ft
  <2>1. Take(x \o ft, 4) = x /\ Drop(x \o ft, 4) = ft
    BY <1>5, <1>7, CutAt
  <2> QED
    BY <1>e, <2>1
<1>10. EndOf(reader, b) = Len(t)
  BY <1>3, <1>6, <1>7, <1>8, <1>9 DEF EndOf
<1>11. PICK e : ReadsEntries(e, reader, b) /\ ReadTable(reader, b) = e[Len(b)]
  <2>1. Len(b) \in Nat
    BY <1>8
  <2> QED
    BY <2>1, EntriesExist
<1>12. e[0] = Back(<<>>, ft)
       /\ \A i \in 1 .. Len(b) : e[i] = EntryStep(reader, Len(t), e[i - 1])
  BY <1>9, <1>10, <1>11 DEF ReadsEntries, Read, Back
<1> DEFINE At(i) == IF i <= n THEN Back(Take(table, i), R(i) \o t) ELSE Back(table, t)
           G == {i \in Nat : i <= Len(b) => e[i] = At(i)}
<1>t. Take(table, 0) = <<>> /\ Take(table, n) = table
      /\ \A i \in Nat : i < n => Append(Take(table, i), table[i + 1]) = Take(table, i + 1)
  BY <1>1, TakeNext DEF Table, n
<1>13. 0 \in G
  <2>1. At(0) = Back(<<>>, ft)
    BY <1>1, <1>b, <1>t DEF ft
  <2> QED
    BY <1>12, <2>1
<1>14. ASSUME NEW i \in Nat, i \in G PROVE i + 1 \in G
  <2> SUFFICES ASSUME i + 1 <= Len(b) PROVE e[i + 1] = At(i + 1)
    OBVIOUS
  <2>1. i + 1 \in 1 .. Len(b) /\ (i + 1) - 1 = i /\ e[i] = At(i)
    BY <1>8, <1>14
  <2>2. e[i + 1] = EntryStep(reader, Len(t), At(i))
    BY <1>12, <2>1
  <2>3. CASE i < n
    <3> DEFINE a == table[i + 1]
               r == R(i + 1)
               rt == r \o t
               p == Take(table, i)
    <3>1. i + 1 \in 1 .. n /\ a \in Text \X Value /\ ValueFits(reader, a[2]) /\ s[i + 1] = Entry(a)
      BY <1>1, <1>2, <2>3
    <3>2. r \in Seq(Octet) /\ Entry(a) \in Seq(Octet) /\ Entry(a) # <<>> /\ R(i) = Entry(a) \o r
      <4>1. i + 1 \in Nat /\ R(i) = s[i + 1] \o R(i + 1) /\ R(i + 1) \in Seq(Octet)
        <5>1. i + 1 \in Nat
          OBVIOUS
        <5>2. R(i) = s[i + 1] \o R(i + 1)
          BY <1>c, <2>3
        <5>3. R(i + 1) \in Seq(Octet)
          BY <1>d, <5>1
        <5> QED
          BY <5>1, <5>2, <5>3
      <4>2. Entry(a) \in Seq(Octet) /\ Entry(a) # <<>>
        <5> HIDE DEF a
        <5> QED
          BY <3>1, EntryType
      <4> QED
        BY <3>1, <4>1, <4>2
    <3>3. rt \in Seq(Octet) /\ R(i) \o t = Entry(a) \o rt
      <4> DEFINE y == Entry(a)
      <4> HIDE DEF y, r
      <4>1. y \in Seq(Octet) /\ r \in Seq(Octet)
        BY <3>2 DEF y
      <4>2. (y \o r) \o t = y \o (r \o t) /\ r \o t \in Seq(Octet)
        BY <4>1
      <4> QED
        BY <3>2, <4>2 DEF y
    <3>4. ~ (Len(Entry(a) \o rt) <= Len(t))
      <4> DEFINE y == Entry(a)
      <4>1. y \in Seq(Octet) /\ y # <<>>
        BY <3>2
      <4> HIDE DEF y, r
      <4>2. Len(rt) = Len(r) + Len(t) /\ Len(r) \in Nat
        BY <3>2
      <4> HIDE DEF rt
      <4>3. Len(y \o rt) = Len(y) + Len(rt) /\ Len(y) >= 1 /\ Len(y) \in Nat
        BY <3>3, <4>1
      <4>4. ~ (Len(y \o rt) <= Len(t))
        BY <1>7, <4>2, <4>3
      <4> QED
        BY <4>4 DEF y
    <3>5. At(i) = Back(p, Entry(a) \o rt)
      <4>1. i <= n
        BY <1>1, <2>3
      <4>2. At(i) = Back(p, R(i) \o t)
        BY <4>1
      <4> HIDE DEF At, p, rt, a
      <4> QED
        BY <3>3, <4>2
    <3> HIDE DEF a, rt, p
    <3>6. EntryStep(reader, Len(t), Back(p, Entry(a) \o rt))
            = Back(Append(p, a), rt)
      BY <3>1, <3>3, <3>4, EntryBack
    <3>7. Append(p, a) = Take(table, i + 1) /\ i + 1 <= n
      BY <1>1, <1>t, <2>3 DEF p, a
    <3> QED
      BY <2>2, <3>5, <3>6, <3>7 DEF rt
  <2>4. CASE ~ (i < n)
    <3>1. At(i) = Back(table, t)
      <4>1. CASE i = n
        <5>1. <<>> \o t = t
          OBVIOUS
        <5> QED
          BY <1>1, <1>b, <1>t, <4>1, <5>1
      <4>2. CASE i # n
        BY <1>1, <2>4, <4>2
      <4> QED
        BY <4>1, <4>2
    <3>2. EntryStep(reader, Len(t), Back(table, t)) = Back(table, t)
      BY <1>7 DEF EntryStep, Back
    <3>3. At(i + 1) = Back(table, t)
      BY <1>1, <2>4
    <3> QED
      BY <2>2, <3>1, <3>2, <3>3
  <2> QED
    BY <2>3, <2>4
<1> HIDE DEF G
<1>15. Len(b) \in G
  <2>1. Len(b) \in Nat
    BY <1>8
  <2> QED
    BY <1>13, <1>14, <2>1, NatInSet
<1>16. e[Len(b)] = Back(table, t)
  <2>1. ~ (Len(b) <= n)
    BY <1>1, <1>3, <1>7, <1>8
  <2>2. e[Len(b)] = At(Len(b))
    BY <1>8, <1>15 DEF G
  <2> QED
    BY <2>1, <2>2
<1>17. x \o f \in Seq(Octet)
  BY <1>3, <1>5
<1> QED
  BY <1>11, <1>16, <1>17, <1>a DEF b, Back

-----------------------------------------------------------------------------
(* Fields one by one *)

Domains == {"octet", "short", "long", "timestamp", "longlong", "shortstr", "longstr", "table"}

\* A field is read back (parser.js:308-345, serializer.js:262-315).
LEMMA FieldBack ==
  ASSUME NEW reader, NEW domain \in Domains, NEW v, FieldFits(reader, domain, v),
         NEW t \in Seq(Octet)
  PROVE  /\ SerializeField(domain, v) \in Seq(Octet)
         /\ ReadField(reader, domain, SerializeField(domain, v) \o t) = Back(v, t)
<1>0. /\ Room(1) = Base /\ Room(2) = Weight(2) /\ Base \in Nat /\ Weight(2) \in Nat
      /\ Limit(reader) \in Nat /\ Base < Limit(reader) /\ Weight(2) < Limit(reader)
  BY Sizes, OctetType, WeightType DEF Room
<1>1. CASE domain = "octet"
  <2>1. v \in Nat /\ v < Room(1) /\ v < Limit(reader)
    BY <1>0, <1>1 DEF FieldFits
  <2>2. SerializeInt(1, v) \in Seq(Octet)
    BY <2>1, SerializeIntType
  <2>3. ReadInt(reader, 1, SerializeInt(1, v) \o t) = Back(v, t)
    BY <2>1, IntBack
  <2> QED
    BY <1>1, <2>2, <2>3 DEF SerializeField, ReadField
<1>2. CASE domain = "short"
  <2>1. v \in Nat /\ v < Room(2) /\ v < Limit(reader)
    BY <1>0, <1>2 DEF FieldFits
  <2>2. SerializeInt(2, v) \in Seq(Octet)
    BY <2>1, SerializeIntType
  <2>3. ReadInt(reader, 2, SerializeInt(2, v) \o t) = Back(v, t)
    BY <2>1, IntBack
  <2> QED
    BY <1>2, <2>2, <2>3 DEF SerializeField, ReadField
<1>3. CASE domain = "long"
  <2>1. v \in Nat /\ v < Limit(reader)
    BY <1>3 DEF FieldFits
  <2>2. SerializeInt(4, v) \in Seq(Octet)
    BY <2>1, SerializeIntType
  <2>3. v < Room(4)
    BY <2>1, FitsLong
  <2>4. ReadInt(reader, 4, SerializeInt(4, v) \o t) = Back(v, t)
    BY <2>1, <2>3, IntBack
  <2> QED
    BY <1>3, <2>2, <2>4 DEF SerializeField, ReadField
<1>4. CASE domain = "timestamp"
  <2>1. v \in Nat /\ v < Limit(reader)
    BY <1>4 DEF FieldFits
  <2>2. SerializeInt(8, v) \in Seq(Octet)
    BY <2>1, SerializeIntType
  <2>3. v < Room(8)
    BY <2>1, FitsLong
  <2>4. ReadInt(reader, 8, SerializeInt(8, v) \o t) = Back(v, t)
    BY <2>1, <2>3, IntBack
  <2> QED
    BY <1>4, <2>2, <2>4 DEF SerializeField, ReadField
<1>5. CASE domain = "longlong"
  <2>1. v \in Seq(Octet) /\ Len(v) = 8
    BY <1>5 DEF FieldFits
  <2>2. Take(v \o t, 8) = v /\ Drop(v \o t, 8) = t
    BY <2>1, CutAt
  <2> QED
    BY <1>5, <2>1, <2>2 DEF SerializeField, ReadField, Read, Back
<1>6. CASE domain = "shortstr"
  <2>1. v \in Seq(Octet) /\ Len(v) < Base /\ Len(v) \in Nat
    BY <1>6 DEF FieldFits, Text
  <2>2. Len(v) < Room(1) /\ Len(v) < Limit(reader)
    BY <1>0, <2>1
  <2>3. SerializeInt(1, Len(v)) \o v \in Seq(Octet)
    BY <2>1, TextType
  <2>4. ReadString(reader, 1, (SerializeInt(1, Len(v)) \o v) \o t) = Back(v, t)
    BY <2>1, <2>2, StringBack
  <2> QED
    BY <1>6, <2>3, <2>4 DEF SerializeField, ReadField, SerializeShortString
<1>7. CASE domain = "longstr"
  <2>1. v \in Seq(Octet) /\ Len(v) < Limit(reader) /\ Len(v) \in Nat
    BY <1>7 DEF FieldFits
  <2>2. Len(v) < Room(4)
    BY <2>1, FitsLong
  <2>3. SerializeInt(4, Len(v)) \o v \in Seq(Octet)
    BY <2>1, TextType
  <2>4. ReadString(reader, 4, (SerializeInt(4, Len(v)) \o v) \o t) = Back(v, t)
    BY <2>1, <2>2, StringBack
  <2> QED
    BY <1>7, <2>3, <2>4 DEF SerializeField, ReadField, SerializeLongString
<1>8. CASE domain = "table"
  <2>1. TableFits(reader, v)
    BY <1>8 DEF FieldFits
  <2>2. SerializeTable(v) \in Seq(Octet) /\ ReadTable(reader, SerializeTable(v) \o t) = Back(v, t)
    BY <2>1, TableBack
  <2> QED
    BY <1>8, <2>2 DEF SerializeField, ReadField
<1> QED
  BY <1>1, <1>2, <1>3, <1>4, <1>5, <1>6, <1>7, <1>8 DEF Domains

\* The states of the two recursions.
Writing(bytes_, bits, index) == [bytes |-> bytes_, bits |-> bits, index |-> index]
Parsing(args, rest, index)   == [args |-> args, rest |-> rest, index |-> index]

\* A field that is no bit is written after the others.
LEMMA WriteOne ==
  ASSUME NEW fields, NEW args, NEW i, NEW b, NEW bits, NEW index,
         fields[i].name \in DOMAIN args, fields[i].domain # "bit"
  PROVE  WriteStep(fields, args, Writing(b, bits, index), i)
           = Writing(b \o SerializeField(fields[i].domain, args[fields[i].name]), bits, index)
<1> DEFINE acc == Writing(b, bits, index)
           y == SerializeField(fields[i].domain, args[fields[i].name])
           z == b \o y
<1>1. WriteStep(fields, args, acc, i) = [acc EXCEPT !.bytes = @ \o y]
  <2> HIDE DEF acc
  <2> QED
    BY DEF WriteStep
<1> HIDE DEF y
<1>2. acc.bytes = b
  BY DEF Writing
<1>3. [acc EXCEPT !.bytes = @ \o y] = [acc EXCEPT !.bytes = z]
  <2> HIDE DEF acc
  <2> QED
    BY <1>2
<1> HIDE DEF z
<1>4. [acc EXCEPT !.bytes = z] = Writing(z, bits, index)
  BY DEF Writing
<1> QED
  BY <1>1, <1>3, <1>4 DEF z, y

\* The arguments with those names.
LEMMA OneMore ==
  ASSUME NEW args, NEW D, NEW name
  PROVE  With(name, args[name], Restrict(args, D)) = Restrict(args, D \cup {name})
<1> DEFINE g == Restrict(args, D)
<1>1. DOMAIN g = D /\ \A x \in D : g[x] = args[x]
  BY DEF Restrict
<1> HIDE DEF g
<1>2. With(name, args[name], g) = [x \in D \cup {name} |-> args[x]]
  <2>1. \A x \in {name} \cup D : (IF x = name THEN args[name] ELSE g[x]) = args[x]
    BY <1>1
  <2>2. With(name, args[name], g) = [x \in {name} \cup D |-> IF x = name THEN args[name] ELSE g[x]]
    BY <1>1 DEF With
  <2>3. {name} \cup D = D \cup {name}
    OBVIOUS
  <2> QED
    BY <2>1, <2>2, <2>3
<1> QED
  BY <1>2 DEF g, Restrict

-----------------------------------------------------------------------------
(* The arguments of the methods *)

\* The fields of basic.publish.
LEMMA PublishList ==
  /\ Len(PublishFields) = 5
  /\ PublishFields[1].name = "reserved1" /\ PublishFields[1].domain = "short"
  /\ PublishFields[2].name = "exchange" /\ PublishFields[2].domain = "shortstr"
  /\ PublishFields[3].name = "routingKey" /\ PublishFields[3].domain = "shortstr"
  /\ PublishFields[4].name = "mandatory" /\ PublishFields[4].domain = "bit"
  /\ PublishFields[5].name = "immediate" /\ PublishFields[5].domain = "bit"
BY DEF PublishFields, F

\* The fields of basic.deliver.
LEMMA DeliverList ==
  /\ Len(DeliverFields) = 5
  /\ DeliverFields[1].name = "consumerTag" /\ DeliverFields[1].domain = "shortstr"
  /\ DeliverFields[2].name = "deliveryTag" /\ DeliverFields[2].domain = "longlong"
  /\ DeliverFields[3].name = "redelivered" /\ DeliverFields[3].domain = "bit"
  /\ DeliverFields[4].name = "exchange" /\ DeliverFields[4].domain = "shortstr"
  /\ DeliverFields[5].name = "routingKey" /\ DeliverFields[5].domain = "shortstr"
BY DEF DeliverFields, F

\* Where the recursions start.
LEMMA Starts ==
  /\ WriteStart = Writing(<<>>, 0, 0)
  /\ \A b, args : ParseStart(b) = Parsing(Restrict(args, {}), b, 0)
<1>1. WriteStart = Writing(<<>>, 0, 0)
  BY DEF WriteStart, Writing
<1>2. ASSUME NEW b, NEW args PROVE ParseStart(b) = Parsing(Restrict(args, {}), b, 0)
  <2>1. Restrict(args, {}) = <<>>
    BY DEF Restrict
  <2> QED
    BY <2>1 DEF ParseStart, Parsing
<1> QED
  BY <1>1, <1>2

\* The powers of the bits.
LEMMA Bits == Pow2[0] = 1 /\ Pow2[1] = 2
<1>1. Pow2[0] = 1 /\ Pow2[0 + 1] = 2 * Pow2[0]
  BY Pow2Unfolds
<1> QED
  BY <1>1

\* A bit that is not the last of its octet is kept.
LEMMA WriteBit ==
  ASSUME NEW fields, NEW args, NEW i, NEW b, NEW bits, NEW index,
         fields[i].name \in DOMAIN args, fields[i].domain = "bit", ~LastBit(fields, i)
  PROVE  WriteStep(fields, args, Writing(b, bits, index), i)
           = Writing(b, bits + IF args[fields[i].name] THEN Pow2[index] ELSE 0, index + 1)
<1> DEFINE acc == Writing(b, bits, index)
           n == acc.bits + IF args[fields[i].name] THEN Pow2[acc.index] ELSE 0
<1>1. acc.bits = bits /\ acc.index = index
  BY DEF Writing
<1>2. WriteStep(fields, args, acc, i) = [acc EXCEPT !.bits = n, !.index = @ + 1]
  <2> HIDE DEF acc
  <2> QED
    BY DEF WriteStep
<1>3. n = bits + IF args[fields[i].name] THEN Pow2[index] ELSE 0
  <2> HIDE DEF acc
  <2> QED
    BY <1>1
<1> HIDE DEF n
<1>4. [acc EXCEPT !.bits = n, !.index = @ + 1] = Writing(b, n, index + 1)
  <2> DEFINE k == index + 1
  <2>1. [acc EXCEPT !.bits = n, !.index = @ + 1] = [acc EXCEPT !.bits = n, !.index = k]
    <3> HIDE DEF acc
    <3>1. [acc EXCEPT !.bits = n].index = index
      BY <1>1
    <3> QED
      BY <1>1, <3>1
  <2> HIDE DEF k
  <2>2. [acc EXCEPT !.bits = n, !.index = k] = Writing(b, n, k)
    <3>1. [acc EXCEPT !.bits = n] = Writing(b, n, index)
      BY DEF Writing
    <3> HIDE DEF acc
    <3>2. [Writing(b, n, index) EXCEPT !.index = k] = Writing(b, n, k)
      BY DEF Writing
    <3> QED
      BY <3>1, <3>2
  <2> QED
    BY <2>1, <2>2 DEF k
<1> QED
  BY <1>2, <1>3, <1>4 DEF acc

\* The last one ends the octet.
LEMMA WriteLastBit ==
  ASSUME NEW fields, NEW args, NEW i, NEW b, NEW bits, NEW index,
         fields[i].name \in DOMAIN args, fields[i].domain = "bit", LastBit(fields, i)
  PROVE  WriteStep(fields, args, Writing(b, bits, index), i)
           = Writing(Append(b, bits + IF args[fields[i].name] THEN Pow2[index] ELSE 0), 0, 0)
<1> DEFINE acc == Writing(b, bits, index)
           n == acc.bits + IF args[fields[i].name] THEN Pow2[acc.index] ELSE 0
<1>1. acc.bits = bits /\ acc.index = index /\ acc.bytes = b
  BY DEF Writing
<1>2. WriteStep(fields, args, acc, i) = [bytes |-> Append(acc.bytes, n), bits |-> 0, index |-> 0]
  <2> HIDE DEF acc
  <2> QED
    BY DEF WriteStep
<1>3. n = bits + IF args[fields[i].name] THEN Pow2[index] ELSE 0
  <2> HIDE DEF acc
  <2> QED
    BY <1>1
<1> HIDE DEF n
<1>4. [bytes |-> Append(acc.bytes, n), bits |-> 0, index |-> 0] = Writing(Append(b, n), 0, 0)
  <2> HIDE DEF acc
  <2> QED
    BY <1>1 DEF Writing
<1> QED
  BY <1>2, <1>3, <1>4 DEF acc

\* What the bit of an octet says.
BitIs(v, octet, index) == v = ((octet \div Pow2[index]) % 2 = 1)

\* The octet they share stays until the last of them has been read.
LEMMA ReadBit ==
  ASSUME NEW reader, NEW fields, NEW args, NEW i, NEW D, NEW octet \in Octet, NEW t \in Seq(Octet),
         NEW index \in Nat, fields[i].domain = "bit",
         BitIs(args[fields[i].name], octet, index)
  PROVE  ParseStep(reader, fields, Parsing(Restrict(args, D), <<octet>> \o t, index), i)
           = Parsing(Restrict(args, D \cup {fields[i].name}),
                     IF LastBit(fields, i) THEN t ELSE <<octet>> \o t,
                     IF LastBit(fields, i) THEN 0 ELSE index + 1)
<1> DEFINE name == fields[i].name
           b == <<octet>> \o t
           acc == Parsing(Restrict(args, D), b, index)
           n == IF LastBit(fields, i) THEN 1 ELSE 0
           r == Read((acc.rest[1] \div Pow2[acc.index]) % 2 = 1, acc.rest, n)
           v == args[name]
<1>1. acc.args = Restrict(args, D) /\ acc.rest = b /\ acc.index = index
  BY DEF Parsing
<1>2. b[1] = octet /\ b \in Seq(Octet)
  BY InFront
<1>3. Drop(b, 1) = t
  <2> DEFINE x == <<octet>>
  <2>1. x \in Seq(Octet) /\ Len(x) = 1
    OBVIOUS
  <2> HIDE DEF x
  <2>2. Drop(x \o t, Len(x)) = t
    BY <2>1, CutJoined
  <2> QED
    BY <2>1, <2>2 DEF x
<1>4. Drop(b, 0) = b
  <2> HIDE DEF b
  <2>1. SubSeq(b, 1, Len(b)) = b
    BY <1>2
  <2> QED
    BY <2>1 DEF Drop
<1>5. With(name, v, Restrict(args, D)) = Restrict(args, D \cup {name})
  <2> HIDE DEF name
  <2>1. With(name, args[name], Restrict(args, D)) = Restrict(args, D \cup {name})
    BY OneMore
  <2> QED
    BY <2>1
<1> HIDE DEF acc, b
<1>6. ParseStep(reader, fields, acc, i)
        = [args |-> With(name, r.value, acc.args), rest |-> r.rest,
           index |-> IF ~LastBit(fields, i) THEN acc.index + 1 ELSE 0]
  <2> DEFINE q == IF fields[i].domain = "bit" THEN r ELSE ReadField(reader, fields[i].domain, acc.rest)
  <2>1. q = r
    BY Zenon
  <2>2. ParseStep(reader, fields, acc, i)
          = [args |-> With(name, q.value, acc.args), rest |-> q.rest,
             index |-> IF fields[i].domain = "bit" /\ ~LastBit(fields, i) THEN acc.index + 1 ELSE 0]
    BY DEF ParseStep
  <2> HIDE DEF q, r
  <2> QED
    BY <2>1, <2>2
<1>7. r = [value |-> (octet \div Pow2[index]) % 2 = 1, rest |-> Drop(b, n)]
  BY <1>1, <1>2 DEF Read
<1>8. r.value = v /\ r.rest = Drop(b, n)
  <2>1. v = ((octet \div Pow2[index]) % 2 = 1)
    BY DEF BitIs
  <2> HIDE DEF r, n, v
  <2> QED
    BY <1>7, <2>1
<1> HIDE DEF r, v, name
<1>9. Drop(b, n) = IF LastBit(fields, i) THEN t ELSE b
  BY <1>3, <1>4
<1> QED
  BY <1>1, <1>5, <1>6, <1>8, <1>9 DEF Parsing, acc, b, name, v

\* The i-th field of args is next in b, and t follows.
ReadsNext(reader, fields, args, i, D, b, t) ==
  ParseStep(reader, fields, Parsing(Restrict(args, D), b, 0), i)
    = Parsing(Restrict(args, D \cup {fields[i].name}), t, 0)

WrittenNext(fields, args, i, b, t) ==
  b = SerializeField(fields[i].domain, args[fields[i].name]) \o t

\* A field that is next in the octets is the next to be read.
LEMMA NextRead ==
  ASSUME NEW reader, NEW fields, NEW args, NEW i, NEW D, NEW b, NEW t \in Seq(Octet),
         fields[i].domain \in Domains, FieldFits(reader, fields[i].domain, args[fields[i].name]),
         WrittenNext(fields, args, i, b, t)
  PROVE  ReadsNext(reader, fields, args, i, D, b, t)
<1> DEFINE d == fields[i].domain
           name == fields[i].name
           v == args[name]
           acc == Parsing(Restrict(args, D), b, 0)
<1>0. b = SerializeField(d, v) \o t
  BY DEF WrittenNext
<1>1. ReadField(reader, d, b) = Back(v, t)
  <2>1. ReadField(reader, d, SerializeField(d, v) \o t) = Back(v, t)
    BY FieldBack
  <2> QED
    BY <1>0, <2>1
<1>2. With(name, v, Restrict(args, D)) = Restrict(args, D \cup {name})
  <2> HIDE DEF name
  <2>1. With(name, args[name], Restrict(args, D)) = Restrict(args, D \cup {name})
    BY OneMore
  <2> QED
    BY <2>1
<1>3. d # "bit"
  BY DEF Domains
<1> HIDE DEF d, v, name
<1>4. acc.args = Restrict(args, D) /\ acc.rest = b /\ acc.index = 0
  BY DEF Parsing
<1> HIDE DEF acc
<1>5. ParseStep(reader, fields, acc, i)
        = [args |-> With(name, v, Restrict(args, D)), rest |-> t, index |-> 0]
  <2>1. Back(v, t).value = v /\ Back(v, t).rest = t
    BY DEF Back
  <2>2. fields[i].domain = d /\ fields[i].name = name
    BY DEF d, name
  <2> QED
    BY <1>1, <1>3, <1>4, <2>1, <2>2 DEF ParseStep
<1> QED
  BY <1>2, <1>5 DEF acc, d, name, v, Parsing, ReadsNext

\* The i-th field of args is a bit of the octet, at that index.
BitNext(reader, fields, args, i, D, octet, t, index) ==
  ParseStep(reader, fields, Parsing(Restrict(args, D), <<octet>> \o t, index), i)
    = Parsing(Restrict(args, D \cup {fields[i].name}),
              IF LastBit(fields, i) THEN t ELSE <<octet>> \o t,
              IF LastBit(fields, i) THEN 0 ELSE index + 1)

\* A bit that is next is the next to be read.
LEMMA NextBit ==
  ASSUME NEW reader, NEW fields, NEW args, NEW i, NEW D, NEW octet \in Octet, NEW t \in Seq(Octet),
         NEW index \in Nat, fields[i].domain = "bit",
         BitIs(args[fields[i].name], octet, index)
  PROVE  BitNext(reader, fields, args, i, D, octet, t, index)
BY ReadBit DEF BitNext

\* The arguments of a basic.publish, but for those that are the same for all.
Publishing(key, flag) ==
  [reserved1 |-> 0, exchange |-> <<>>, routingKey |-> key, mandatory |-> FALSE, immediate |-> flag]

Delivering(tag, key) ==
  [consumerTag |-> <<3>>, deliveryTag |-> tag, redelivered |-> TRUE,
   exchange |-> <<>>, routingKey |-> key]

\* Bits that fit their octet.
FlagOctet(flag) == IF flag THEN 2 ELSE 0

\* What they are written as.
LEMMA PublishWritten ==
  ASSUME NEW key \in Text, NEW flag \in BOOLEAN
  PROVE  SerializeFields(PublishFields, Publishing(key, flag))
           = ((SerializeField("short", 0) \o SerializeField("shortstr", <<>>))
              \o SerializeField("shortstr", key)) \o <<FlagOctet(flag)>>
<1> DEFINE fs == PublishFields
           args == Publishing(key, flag)
           b1 == SerializeField("short", 0)
           b2 == SerializeField("shortstr", <<>>)
           b3 == SerializeField("shortstr", key)
<1>1. /\ {"reserved1", "exchange", "routingKey", "mandatory", "immediate"} = DOMAIN args
      /\ args["reserved1"] = 0 /\ args["exchange"] = <<>> /\ args["routingKey"] = key
      /\ args["mandatory"] = FALSE /\ args["immediate"] = flag
  BY DEF Publishing
<1>2. Len(fs) = 5
  BY PublishList
<1> HIDE DEF args
<1>3. PICK w : Writes(w, fs, args) /\ SerializeFields(fs, args) = w[Len(fs)].bytes
  <2>1. Len(fs) \in Nat
    BY <1>2
  <2> HIDE DEF fs
  <2> QED
    BY <2>1, WritesExists
<1>4. /\ w[0] = Writing(<<>>, 0, 0) /\ w[1] = WriteStep(fs, args, w[0], 1)
      /\ w[2] = WriteStep(fs, args, w[1], 2) /\ w[3] = WriteStep(fs, args, w[2], 3)
      /\ w[4] = WriteStep(fs, args, w[3], 4) /\ w[5] = WriteStep(fs, args, w[4], 5)
  <2>1. w[0] = WriteStart /\ \A i \in 1 .. 5 : w[i] = WriteStep(fs, args, w[i - 1], i)
    BY <1>2, <1>3 DEF Writes
  <2>2. w[1] = WriteStep(fs, args, w[1 - 1], 1) /\ w[2] = WriteStep(fs, args, w[2 - 1], 2)
        /\ w[3] = WriteStep(fs, args, w[3 - 1], 3) /\ w[4] = WriteStep(fs, args, w[4 - 1], 4)
        /\ w[5] = WriteStep(fs, args, w[5 - 1], 5)
    BY <2>1
  <2> QED
    BY <2>1, <2>2, Starts
<1>a. <<>> \in Seq(Octet) /\ b1 \in Seq(Octet) /\ b2 \in Seq(Octet) /\ b3 \in Seq(Octet)
  <2>1. FieldFits("server", "short", 0) /\ FieldFits("server", "shortstr", <<>>)
        /\ FieldFits("server", "shortstr", key)
    <3>1. 0 < Weight(2) /\ <<>> \in Text
      BY WeightType, OctetType DEF Text
    <3> QED
      BY <3>1 DEF FieldFits
  <2>2. "short" \in Domains /\ "shortstr" \in Domains /\ <<>> \in Seq(Octet)
    BY DEF Domains
  <2> QED
    BY <2>1, <2>2, FieldBack
<1>b. ~LastBit(fs, 4) /\ LastBit(fs, 5)
  BY PublishList DEF LastBit
<1> DEFINE W(i, b) == WriteStep(fs, args, Writing(b, 0, 0), i)
<1>6. w[1] = Writing(b1, 0, 0)
  <2> DEFINE z == <<>>
  <2>1. z \o b1 = b1 /\ w[0] = Writing(z, 0, 0)
    BY <1>4, <1>a
  <2> HIDE DEF z
  <2>2. w[1] = Writing(z \o b1, 0, 0)
    BY <1>1, <1>4, <2>1, PublishList, WriteOne
  <2> QED
    BY <2>1, <2>2
<1>7. w[2] = Writing(b1 \o b2, 0, 0)
  BY <1>1, <1>4, <1>6, PublishList, WriteOne
<1> DEFINE b12 == b1 \o b2
<1>8. w[3] = Writing(b12 \o b3, 0, 0)
  BY <1>1, <1>4, <1>7, PublishList, WriteOne
<1> DEFINE b == b12 \o b3
<1> HIDE DEF b
<1>9. w[4] = Writing(b, 0, 1)
  <2>1. w[4] = Writing(b, 0 + IF args["mandatory"] THEN Pow2[0] ELSE 0, 0 + 1)
    BY <1>1, <1>4, <1>8, <1>b, PublishList, WriteBit DEF b
  <2>2. (0 + IF args["mandatory"] THEN Pow2[0] ELSE 0) = 0
    BY <1>1
  <2> QED
    BY <2>1, <2>2
<1>10. w[5] = Writing(Append(b, FlagOctet(flag)), 0, 0)
  <2>1. w[5] = Writing(Append(b, 0 + IF args["immediate"] THEN Pow2[1] ELSE 0), 0, 0)
    BY <1>1, <1>4, <1>9, <1>b, PublishList, WriteLastBit
  <2>2. (0 + IF args["immediate"] THEN Pow2[1] ELSE 0) = FlagOctet(flag)
    BY <1>1, Bits DEF FlagOctet
  <2> QED
    BY <2>1, <2>2
<1>11. w[5].bytes = Append(b, FlagOctet(flag))
  BY <1>10 DEF Writing
<1>12. b \in Seq(Octet)
  <2> HIDE DEF b1, b2, b3
  <2> QED
    BY <1>a DEF b
<1>13. Append(b, FlagOctet(flag)) = b \o <<FlagOctet(flag)>>
  BY <1>12
<1> QED
  BY <1>2, <1>3, <1>11, <1>13 DEF b, args

\* A sequence before two others.
LEMMA JoinTwice ==
  ASSUME NEW a \in Seq(Octet), NEW b \in Seq(Octet), NEW c \in Seq(Octet)
  PROVE  (a \o b) \o c = a \o (b \o c) /\ a \o b \in Seq(Octet)
OBVIOUS

\* What a reader may read of the arguments of the methods.
LEMMA ArgumentsFit ==
  ASSUME NEW reader, NEW key \in Text
  PROVE  /\ FieldFits(reader, "short", 0) /\ FieldFits(reader, "shortstr", <<>>)
         /\ FieldFits(reader, "shortstr", <<3>>) /\ FieldFits(reader, "shortstr", key)
         /\ "short" \in Domains /\ "shortstr" \in Domains /\ "longlong" \in Domains
<1>1. 0 < Weight(2) /\ <<>> \in Text
  BY WeightType, OctetType DEF Text
<1>2. <<3>> \in Text
  <2>1. 3 \in Octet /\ 1 < Base
    BY OctetType
  <2>2. <<3>> \in Seq(Octet) /\ Len(<<3>>) = 1
    BY <2>1
  <2> QED
    BY <2>1, <2>2 DEF Text
<1> QED
  BY <1>1, <1>2 DEF FieldFits, Domains

\* The arguments of a basic.publish are read back.
LEMMA PublishBack ==
  ASSUME NEW reader, NEW key \in Text, NEW flag \in BOOLEAN, NEW t \in Seq(Octet)
  PROVE  /\ SerializeFields(PublishFields, Publishing(key, flag)) \in Seq(Octet)
         /\ ReadFields(reader, PublishFields,
                       SerializeFields(PublishFields, Publishing(key, flag)) \o t)
              = Parsing(Publishing(key, flag), t, 0)
<1> DEFINE fs == PublishFields
           args == Publishing(key, flag)
           b1 == SerializeField("short", 0)
           b2 == SerializeField("shortstr", <<>>)
           b3 == SerializeField("shortstr", key)
           octet == FlagOctet(flag)
           x4 == <<octet>> \o t
           x3 == b3 \o x4
           x2 == b2 \o x3
           x1 == b1 \o x2
           b == SerializeFields(fs, args)
<1>1. /\ {"reserved1", "exchange", "routingKey", "mandatory", "immediate"} = DOMAIN args
      /\ args["reserved1"] = 0 /\ args["exchange"] = <<>> /\ args["routingKey"] = key
      /\ args["mandatory"] = FALSE /\ args["immediate"] = flag
  BY DEF Publishing
<1>a. args = [x \in DOMAIN args |-> args[x]]
  BY DEF Publishing
<1>2. b = ((b1 \o b2) \o b3) \o <<octet>>
  BY PublishWritten
<1> HIDE DEF args, b
<1>3. b1 \in Seq(Octet) /\ b2 \in Seq(Octet) /\ b3 \in Seq(Octet)
  <2>1. <<>> \in Seq(Octet)
    OBVIOUS
  <2> QED
    BY <2>1, ArgumentsFit, FieldBack
<1>4. octet \in Octet /\ <<octet>> \in Seq(Octet)
  <2>1. octet \in Octet
    BY OctetType DEF FlagOctet
  <2> HIDE DEF octet
  <2> QED
    BY <2>1
<1> HIDE DEF octet
<1>5. x4 \in Seq(Octet) /\ x3 \in Seq(Octet) /\ x2 \in Seq(Octet) /\ x1 \in Seq(Octet) /\ b \in Seq(Octet)
      /\ b \o t = x1
  <2> DEFINE o == <<octet>>
  <2>0. o \in Seq(Octet)
    BY <1>4
  <2> HIDE DEF b1, b2, b3, o
  <2>1. x4 \in Seq(Octet) /\ o \o t = x4
    BY <2>0 DEF o
  <2>2. x3 \in Seq(Octet)
    BY <1>3, <2>1
  <2>3. x2 \in Seq(Octet)
    <3> HIDE DEF x3
    <3> QED
      BY <1>3, <2>2
  <2>4. x1 \in Seq(Octet)
    <3> HIDE DEF x2
    <3> QED
      BY <1>3, <2>3
  <2>5. (((b1 \o b2) \o b3) \o o) \o t = b1 \o (b2 \o (b3 \o (o \o t)))
        /\ ((b1 \o b2) \o b3) \o o \in Seq(Octet)
    <3> DEFINE u == b1 \o b2
               v == u \o b3
               ot == o \o t
               r == b3 \o ot
    <3>1. u \in Seq(Octet) /\ ot \in Seq(Octet)
      BY <1>3, <2>0
    <3> HIDE DEF u, ot
    <3>2. v \in Seq(Octet) /\ r \in Seq(Octet)
      BY <1>3, <3>1
    <3>3. v \o ot = u \o r
      BY SMTT(20), <1>3, <3>1, JoinTwice
    <3> HIDE DEF v, r
    <3>4. (v \o o) \o t = v \o ot /\ v \o o \in Seq(Octet)
      <4>1. v \o o \in Seq(Octet)
        BY <2>0, <3>2
      <4>2. (v \o o) \o t = v \o (o \o t)
        BY <2>0, <3>2
      <4> QED
        BY <4>1, <4>2 DEF ot
    <3>5. u \o r = b1 \o (b2 \o r)
      BY SMTT(20), <1>3, <3>2, JoinTwice DEF u
    <3> QED
      BY <3>3, <3>4, <3>5 DEF u, v, r, ot
  <2> QED
    BY <1>2, <2>1, <2>2, <2>3, <2>4, <2>5 DEF o
<1> HIDE DEF b1, b2, b3, x1, x2, x3, x4
<1>6. Len(fs) = 5
  BY PublishList
<1>7. PICK p : Parses(p, reader, fs, x1) /\ ReadFields(reader, fs, x1) = p[Len(fs)]
  <2>1. Len(fs) \in Nat
    BY <1>6
  <2> HIDE DEF fs
  <2> QED
    BY <2>1, ParsesExists
<1>8. /\ p[0] = Parsing(Restrict(args, {}), x1, 0) /\ p[1] = ParseStep(reader, fs, p[0], 1)
      /\ p[2] = ParseStep(reader, fs, p[1], 2) /\ p[3] = ParseStep(reader, fs, p[2], 3)
      /\ p[4] = ParseStep(reader, fs, p[3], 4) /\ p[5] = ParseStep(reader, fs, p[4], 5)
  <2>1. p[0] = ParseStart(x1) /\ \A i \in 1 .. 5 : p[i] = ParseStep(reader, fs, p[i - 1], i)
    BY <1>6, <1>7 DEF Parses
  <2>2. p[1] = ParseStep(reader, fs, p[1 - 1], 1) /\ p[2] = ParseStep(reader, fs, p[2 - 1], 2)
        /\ p[3] = ParseStep(reader, fs, p[3 - 1], 3) /\ p[4] = ParseStep(reader, fs, p[4 - 1], 4)
        /\ p[5] = ParseStep(reader, fs, p[5 - 1], 5)
    BY <2>1
  <2>3. ParseStart(x1) = Parsing(Restrict(args, {}), x1, 0)
    BY Starts
  <2> QED
    BY <2>1, <2>2, <2>3
<1> DEFINE D1 == {} \cup {"reserved1"}
           D2 == D1 \cup {"exchange"}
           D3 == D2 \cup {"routingKey"}
           D4 == D3 \cup {"mandatory"}
           D5 == D4 \cup {"immediate"}
           D0 == {}
<1> HIDE DEF D0
<1>b. D1 = D0 \cup {"reserved1"}
  BY DEF D0
<1>c. p[0] = Parsing(Restrict(args, D0), x1, 0)
  BY <1>8 DEF D0
<1> HIDE DEF D1, D2, D3, D4
<1>9. p[1] = Parsing(Restrict(args, D1), x2, 0)
  <2>1. FieldFits(reader, fs[1].domain, args[fs[1].name]) /\ fs[1].domain \in Domains
    BY <1>1, PublishList, ArgumentsFit
  <2>2. WrittenNext(fs, args, 1, x1, x2)
    BY <1>1, PublishList DEF x1, b1, WrittenNext
  <2>3. ReadsNext(reader, fs, args, 1, D0, x1, x2)
    BY <1>5, <2>1, <2>2, NextRead
  <2>4. D0 \cup {fs[1].name} = D1
    BY <1>b, PublishList
  <2> QED
    BY <1>8, <1>c, <2>3, <2>4 DEF ReadsNext
<1>10. p[2] = Parsing(Restrict(args, D2), x3, 0)
  <2>1. FieldFits(reader, fs[2].domain, args[fs[2].name]) /\ fs[2].domain \in Domains
    BY <1>1, PublishList, ArgumentsFit
  <2>2. WrittenNext(fs, args, 2, x2, x3)
    BY <1>1, PublishList DEF x2, b2, WrittenNext
  <2>3. ReadsNext(reader, fs, args, 2, D1, x2, x3)
    BY <1>5, <2>1, <2>2, NextRead
  <2>4. D1 \cup {fs[2].name} = D2
    BY PublishList DEF D2
  <2> QED
    BY <1>8, <1>9, <2>3, <2>4 DEF ReadsNext
<1>11. p[3] = Parsing(Restrict(args, D3), x4, 0)
  <2>1. FieldFits(reader, fs[3].domain, args[fs[3].name]) /\ fs[3].domain \in Domains
    BY <1>1, PublishList, ArgumentsFit
  <2>2. WrittenNext(fs, args, 3, x3, x4)
    BY <1>1, PublishList DEF x3, b3, WrittenNext
  <2>3. ReadsNext(reader, fs, args, 3, D2, x3, x4)
    BY <1>5, <2>1, <2>2, NextRead
  <2>4. D2 \cup {fs[3].name} = D3
    BY PublishList DEF D3
  <2> QED
    BY <1>8, <1>10, <2>3, <2>4 DEF ReadsNext
<1>12. BitIs(args["mandatory"], octet, 0) /\ BitIs(args["immediate"], octet, 1)
  <2>1. ((octet \div 1) % 2 = 1) = FALSE /\ ((octet \div 2) % 2 = 1) = flag
    <3>1. CASE flag
      <4>1. octet = 2
        BY <3>1 DEF octet, FlagOctet
      <4>2. (octet \div 1) % 2 = 0 /\ (octet \div 2) % 2 = 1
        BY <4>1
      <4>3. flag = TRUE
        BY <3>1
      <4> DEFINE x == (octet \div 1) % 2
                 y == (octet \div 2) % 2
      <4>4. x = 0 /\ y = 1
        BY <4>2
      <4> HIDE DEF x, y
      <4>5. (x = 1) = FALSE /\ (y = 1) = TRUE
        BY <4>4
      <4> QED
        BY <4>3, <4>5 DEF x, y
    <3>2. CASE ~flag
      <4>1. octet = 0
        BY <3>2 DEF octet, FlagOctet
      <4>2. (octet \div 1) % 2 = 0 /\ (octet \div 2) % 2 = 0
        BY <4>1
      <4>3. flag = FALSE
        BY <3>2
      <4> DEFINE x == (octet \div 1) % 2
                 y == (octet \div 2) % 2
      <4>4. x = 0 /\ y = 0
        BY <4>2
      <4> HIDE DEF x, y
      <4>5. (x = 1) = FALSE /\ (y = 1) = FALSE
        BY <4>4
      <4> QED
        BY <4>3, <4>5 DEF x, y
    <3> QED
      BY <3>1, <3>2
  <2> QED
    BY <1>1, <2>1, Bits DEF BitIs
<1>d. ~LastBit(fs, 4) /\ LastBit(fs, 5)
  BY PublishList DEF LastBit
<1>13. p[4] = Parsing(Restrict(args, D4), x4, 1)
  <2>1. BitIs(args[fs[4].name], octet, 0) /\ fs[4].domain = "bit"
    BY <1>12, PublishList
  <2>2. BitNext(reader, fs, args, 4, D3, octet, t, 0)
    BY <1>4, <2>1, NextBit
  <2>3. D3 \cup {fs[4].name} = D4
    BY PublishList DEF D4
  <2>4. p[4] = Parsing(Restrict(args, D4), IF LastBit(fs, 4) THEN t ELSE x4,
                       IF LastBit(fs, 4) THEN 0 ELSE 0 + 1)
    BY <1>8, <1>11, <2>2, <2>3 DEF x4, BitNext
  <2>5. 0 + 1 = 1
    OBVIOUS
  <2> QED
    BY <1>d, <2>4, <2>5
<1>14. p[5] = Parsing(Restrict(args, D5), t, 0)
  <2>1. BitIs(args[fs[5].name], octet, 1) /\ fs[5].domain = "bit"
    BY <1>12, PublishList
  <2>2. BitNext(reader, fs, args, 5, D4, octet, t, 1)
    BY <1>4, <2>1, NextBit
  <2>3. D4 \cup {fs[5].name} = D5
    BY PublishList
  <2> QED
    BY <1>8, <1>13, <1>d, <2>2, <2>3 DEF x4, BitNext
<1>15. Restrict(args, D5) = args
  <2>1. D5 = DOMAIN args
    BY <1>1 DEF D1, D2, D3, D4
  <2> QED
    BY <1>a, <2>1 DEF Restrict
<1> QED
  BY <1>5, <1>6, <1>7, <1>14, <1>15 DEF b, args

\* What the arguments of a basic.deliver are written as.
LEMMA DeliverWritten ==
  ASSUME NEW key \in Text, NEW tag \in Seq(Octet), Len(tag) = 8
  PROVE  SerializeFields(DeliverFields, Delivering(tag, key))
           = (((SerializeField("shortstr", <<3>>) \o SerializeField("longlong", tag)) \o <<1>>)
              \o SerializeField("shortstr", <<>>)) \o SerializeField("shortstr", key)
<1> DEFINE fs == DeliverFields
           args == Delivering(tag, key)
           c3 == <<3>>
           b1 == SerializeField("shortstr", c3)
           b2 == SerializeField("longlong", tag)
           b3 == SerializeField("shortstr", <<>>)
           b4 == SerializeField("shortstr", key)
<1>1. /\ {"consumerTag", "deliveryTag", "redelivered", "exchange", "routingKey"} = DOMAIN args
      /\ args["consumerTag"] = c3 /\ args["deliveryTag"] = tag /\ args["redelivered"] = TRUE
      /\ args["exchange"] = <<>> /\ args["routingKey"] = key
  BY DEF Delivering
<1>2. Len(fs) = 5
  BY DeliverList
<1>z. FieldFits("server", "shortstr", c3)
  BY ArgumentsFit
<1> HIDE DEF args, c3
<1>3. PICK w : Writes(w, fs, args) /\ SerializeFields(fs, args) = w[Len(fs)].bytes
  <2>1. Len(fs) \in Nat
    BY <1>2
  <2> HIDE DEF fs
  <2> QED
    BY <2>1, WritesExists
<1>4. /\ w[0] = Writing(<<>>, 0, 0) /\ w[1] = WriteStep(fs, args, w[0], 1)
      /\ w[2] = WriteStep(fs, args, w[1], 2) /\ w[3] = WriteStep(fs, args, w[2], 3)
      /\ w[4] = WriteStep(fs, args, w[3], 4) /\ w[5] = WriteStep(fs, args, w[4], 5)
  <2>1. w[0] = WriteStart /\ \A i \in 1 .. 5 : w[i] = WriteStep(fs, args, w[i - 1], i)
    BY <1>2, <1>3 DEF Writes
  <2>2. w[1] = WriteStep(fs, args, w[1 - 1], 1) /\ w[2] = WriteStep(fs, args, w[2 - 1], 2)
        /\ w[3] = WriteStep(fs, args, w[3 - 1], 3) /\ w[4] = WriteStep(fs, args, w[4 - 1], 4)
        /\ w[5] = WriteStep(fs, args, w[5 - 1], 5)
    BY <2>1
  <2> QED
    BY <2>1, <2>2, Starts
<1>a. <<>> \in Seq(Octet) /\ b1 \in Seq(Octet) /\ b2 \in Seq(Octet) /\ b3 \in Seq(Octet)
  <2>1. FieldFits("server", "longlong", tag)
    BY DEF FieldFits
  <2>2. <<>> \in Seq(Octet)
    OBVIOUS
  <2> QED
    BY <1>z, <2>1, <2>2, ArgumentsFit, FieldBack
<1>b. LastBit(fs, 3)
  <2>1. fs[3 + 1].domain # "bit"
    BY DeliverList
  <2> QED
    BY <2>1 DEF LastBit
<1>5. w[1] = Writing(b1, 0, 0)
  <2> DEFINE z == <<>>
  <2>1. z \o b1 = b1 /\ w[0] = Writing(z, 0, 0)
    BY <1>4, <1>a
  <2> HIDE DEF z
  <2>2. w[1] = Writing(z \o b1, 0, 0)
    BY <1>1, <1>4, <2>1, DeliverList, WriteOne
  <2> QED
    BY <2>1, <2>2
<1>6. w[2] = Writing(b1 \o b2, 0, 0)
  BY <1>1, <1>4, <1>5, DeliverList, WriteOne
<1> DEFINE b12 == b1 \o b2
<1>c. b12 \in Seq(Octet)
  <2> HIDE DEF b1, b2
  <2> QED
    BY <1>a
<1> DEFINE c == b12 \o <<1>>
<1>7. w[3] = Writing(c, 0, 0)
  <2> HIDE DEF b12
  <2>1. w[3] = Writing(Append(b12, 0 + IF args["redelivered"] THEN Pow2[0] ELSE 0), 0, 0)
    BY <1>1, <1>4, <1>6, <1>b, DeliverList, WriteLastBit DEF b12
  <2>2. (0 + IF args["redelivered"] THEN Pow2[0] ELSE 0) = 1
    BY <1>1, Bits
  <2>3. Append(b12, 1) = b12 \o <<1>>
    BY <1>c
  <2> QED
    BY <2>1, <2>2, <2>3
<1> HIDE DEF c
<1>8. w[4] = Writing(c \o b3, 0, 0)
  BY SMTT(20), <1>1, <1>4, <1>7, DeliverList, WriteOne
<1> DEFINE d == c \o b3
<1>9. w[5] = Writing(d \o b4, 0, 0)
  BY <1>1, <1>4, <1>8, DeliverList, WriteOne
<1>10. w[5].bytes = d \o b4
  BY <1>9 DEF Writing
<1> QED
  BY <1>2, <1>3, <1>10 DEF c, args, c3

\* Octets one after another.
LEMMA Joined ==
  ASSUME NEW a \in Seq(Octet), NEW b \in Seq(Octet)
  PROVE  a \o b \in Seq(Octet) /\ Len(a \o b) = Len(a) + Len(b)
OBVIOUS

\* How long they are.
LEMMA DeliverType ==
  ASSUME NEW key \in Text, NEW tag \in Seq(Octet), Len(tag) = 8
  PROVE  /\ SerializeFields(DeliverFields, Delivering(tag, key)) \in Seq(Octet)
         /\ Len(SerializeFields(DeliverFields, Delivering(tag, key))) = 13 + Len(key)
<1> DEFINE b1 == SerializeField("shortstr", <<3>>)
           b3 == SerializeField("shortstr", <<>>)
           b4 == SerializeField("shortstr", key)
           o == <<1>>
<1>1. SerializeFields(DeliverFields, Delivering(tag, key)) = (((b1 \o tag) \o o) \o b3) \o b4
  <2>1. SerializeField("longlong", tag) = tag
    BY DEF SerializeField
  <2> QED
    BY <2>1, DeliverWritten
<1>2. /\ b1 \in Seq(Octet) /\ Len(b1) = 2 /\ b3 \in Seq(Octet) /\ Len(b3) = 1
      /\ b4 \in Seq(Octet) /\ Len(b4) = 1 + Len(key)
  <2> DEFINE c3 == <<3>>
             c0 == <<>>
  <2>1. c3 \in Seq(Octet) /\ Len(c3) = 1 /\ c0 \in Seq(Octet) /\ Len(c0) = 0
        /\ key \in Seq(Octet) /\ Len(key) \in Nat
    BY OctetType DEF Text
  <2>2. ASSUME NEW s \in Seq(Octet)
        PROVE  SerializeField("shortstr", s) \in Seq(Octet)
               /\ Len(SerializeField("shortstr", s)) = 1 + Len(s)
    <3>1. SerializeField("shortstr", s) = SerializeInt(1, Len(s)) \o s
      BY DEF SerializeField, SerializeShortString
    <3> QED
      BY <3>1, TextType
  <2> HIDE DEF c3, c0
  <2>3. SerializeField("shortstr", c3) \in Seq(Octet) /\ Len(SerializeField("shortstr", c3)) = 1 + 1
        /\ SerializeField("shortstr", c0) \in Seq(Octet) /\ Len(SerializeField("shortstr", c0)) = 1 + 0
        /\ b4 \in Seq(Octet) /\ Len(b4) = 1 + Len(key)
    BY <2>1, <2>2
  <2> QED
    BY <2>3 DEF c3, c0
<1>3. o \in Seq(Octet) /\ Len(o) = 1
  BY OctetType
<1> HIDE DEF b1, b3, b4, o
<1> DEFINE x == b1 \o tag
           y == x \o o
           z == y \o b3
<1>4. x \in Seq(Octet) /\ Len(x) = Len(b1) + Len(tag)
  BY <1>2, Joined
<1> HIDE DEF x
<1>5. y \in Seq(Octet) /\ Len(y) = Len(x) + Len(o)
  BY <1>3, <1>4, Joined
<1> HIDE DEF y
<1>6. z \in Seq(Octet) /\ Len(z) = Len(y) + Len(b3)
  BY <1>2, <1>5, Joined
<1> HIDE DEF z
<1>7. z \o b4 \in Seq(Octet) /\ Len(z \o b4) = Len(z) + Len(b4)
  BY <1>2, <1>6, Joined
<1>8. Len(z) + Len(b4) = 13 + Len(key)
  <2>1. Len(key) \in Nat
    BY DEF Text
  <2> QED
    BY <1>2, <1>3, <1>4, <1>5, <1>6, <2>1
<1> QED
  BY <1>1, <1>7, <1>8 DEF x, y, z

\* The arguments of a basic.deliver are read back.
LEMMA DeliverBack ==
  ASSUME NEW reader, NEW key \in Text, NEW tag \in Seq(Octet), Len(tag) = 8, NEW t \in Seq(Octet)
  PROVE  ReadFields(reader, DeliverFields,
                    SerializeFields(DeliverFields, Delivering(tag, key)) \o t)
           = Parsing(Delivering(tag, key), t, 0)
<1> DEFINE fs == DeliverFields
           args == Delivering(tag, key)
           c3 == <<3>>
           b1 == SerializeField("shortstr", c3)
           b2 == SerializeField("longlong", tag)
           o  == <<1>>
           b4 == SerializeField("shortstr", <<>>)
           b5 == SerializeField("shortstr", key)
           x5 == b5 \o t
           x4 == b4 \o x5
           x3 == o \o x4
           x2 == b2 \o x3
           x1 == b1 \o x2
           b == SerializeFields(fs, args)
<1>1. /\ {"consumerTag", "deliveryTag", "redelivered", "exchange", "routingKey"} = DOMAIN args
      /\ args["consumerTag"] = c3 /\ args["deliveryTag"] = tag /\ args["redelivered"] = TRUE
      /\ args["exchange"] = <<>> /\ args["routingKey"] = key
  BY DEF Delivering
<1>a. args = [x \in DOMAIN args |-> args[x]]
  BY DEF Delivering
<1>2. b = (((b1 \o b2) \o o) \o b4) \o b5
  BY DeliverWritten
<1>z. /\ FieldFits(reader, "shortstr", c3) /\ FieldFits(reader, "longlong", tag)
      /\ FieldFits(reader, "shortstr", <<>>) /\ FieldFits(reader, "shortstr", key)
      /\ "shortstr" \in Domains /\ "longlong" \in Domains
  <2>1. FieldFits(reader, "longlong", tag)
    BY DEF FieldFits
  <2> QED
    BY <2>1, ArgumentsFit
<1> HIDE DEF args, b, c3
<1>3. b1 \in Seq(Octet) /\ b2 \in Seq(Octet) /\ b4 \in Seq(Octet) /\ b5 \in Seq(Octet)
  <2>1. <<>> \in Seq(Octet)
    OBVIOUS
  <2> QED
    BY <1>z, <2>1, FieldBack
<1>4. 1 \in Octet /\ o \in Seq(Octet)
  <2>1. 1 \in Octet
    BY OctetType
  <2> QED
    BY <2>1
<1> HIDE DEF b1, b2, b4, b5, o
<1>5. x5 \in Seq(Octet) /\ x4 \in Seq(Octet) /\ x3 \in Seq(Octet) /\ x2 \in Seq(Octet)
      /\ x1 \in Seq(Octet) /\ b \o t = x1
  <2>1. x5 \in Seq(Octet)
    BY <1>3
  <2> HIDE DEF x5
  <2>2. x4 \in Seq(Octet)
    BY <1>3, <2>1
  <2> HIDE DEF x4
  <2>3. x3 \in Seq(Octet)
    BY <1>4, <2>2
  <2> HIDE DEF x3
  <2>4. x2 \in Seq(Octet)
    BY <1>3, <2>3
  <2> HIDE DEF x2
  <2>5. x1 \in Seq(Octet)
    BY <1>3, <2>4
  <2> DEFINE u == b1 \o b2
             v == u \o o
             w == v \o b4
  <2>6. u \in Seq(Octet) /\ u \o x3 = x1
    <3>1. u \in Seq(Octet)
      BY <1>3
    <3>2. u \o x3 = b1 \o (b2 \o x3)
      BY SMTT(20), <1>3, <2>3
    <3> QED
      BY <3>1, <3>2 DEF x1, x2
  <2> HIDE DEF u, x1
  <2>7. v \in Seq(Octet) /\ v \o x4 = u \o x3
    BY <1>4, <2>2, <2>6, JoinTwice DEF x3
  <2> HIDE DEF v
  <2>8. w \in Seq(Octet) /\ w \o x5 = v \o x4
    <3>1. v \in Seq(Octet) /\ b4 \in Seq(Octet) /\ x5 \in Seq(Octet)
      BY <1>3, <2>1, <2>7
    <3>2. (v \o b4) \o x5 = v \o (b4 \o x5) /\ v \o b4 \in Seq(Octet)
      BY <3>1
    <3> QED
      BY <3>2 DEF x4
  <2> HIDE DEF w
  <2>9. (w \o b5) \o t = w \o x5
    <3>1. w \in Seq(Octet) /\ b5 \in Seq(Octet)
      BY <1>3, <2>8
    <3>2. (w \o b5) \o t = w \o (b5 \o t)
      BY <3>1
    <3> QED
      BY <3>2 DEF x5
  <2>10. b \o t = (w \o b5) \o t
    BY <1>2 DEF u, v, w
  <2> QED
    BY <2>1, <2>2, <2>3, <2>4, <2>5, <2>6, <2>7, <2>8, <2>9, <2>10
<1> HIDE DEF x1, x2, x3, x4, x5
<1>6. Len(fs) = 5
  BY DeliverList
<1>7. PICK p : Parses(p, reader, fs, x1) /\ ReadFields(reader, fs, x1) = p[Len(fs)]
  <2>1. Len(fs) \in Nat
    BY <1>6
  <2> HIDE DEF fs
  <2> QED
    BY <2>1, ParsesExists
<1>8. /\ p[0] = Parsing(Restrict(args, {}), x1, 0) /\ p[1] = ParseStep(reader, fs, p[0], 1)
      /\ p[2] = ParseStep(reader, fs, p[1], 2) /\ p[3] = ParseStep(reader, fs, p[2], 3)
      /\ p[4] = ParseStep(reader, fs, p[3], 4) /\ p[5] = ParseStep(reader, fs, p[4], 5)
  <2>1. p[0] = ParseStart(x1) /\ \A i \in 1 .. 5 : p[i] = ParseStep(reader, fs, p[i - 1], i)
    BY <1>6, <1>7 DEF Parses
  <2>2. p[1] = ParseStep(reader, fs, p[1 - 1], 1) /\ p[2] = ParseStep(reader, fs, p[2 - 1], 2)
        /\ p[3] = ParseStep(reader, fs, p[3 - 1], 3) /\ p[4] = ParseStep(reader, fs, p[4 - 1], 4)
        /\ p[5] = ParseStep(reader, fs, p[5 - 1], 5)
    BY <2>1
  <2>3. ParseStart(x1) = Parsing(Restrict(args, {}), x1, 0)
    BY Starts
  <2> QED
    BY <2>1, <2>2, <2>3
<1> DEFINE D0 == {}
           D1 == D0 \cup {"consumerTag"}
           D2 == D1 \cup {"deliveryTag"}
           D3 == D2 \cup {"redelivered"}
           D4 == D3 \cup {"exchange"}
           D5 == D4 \cup {"routingKey"}
<1>c. p[0] = Parsing(Restrict(args, D0), x1, 0)
  BY <1>8
<1>15. Restrict(args, D5) = args
  <2>1. D5 = DOMAIN args
    BY <1>1
  <2> QED
    BY <1>a, <2>1 DEF Restrict
<1> HIDE DEF D0, D1, D2, D3, D4, D5
<1>9. p[1] = Parsing(Restrict(args, D1), x2, 0)
  <2>1. FieldFits(reader, fs[1].domain, args[fs[1].name]) /\ fs[1].domain \in Domains
    BY <1>1, <1>z, DeliverList
  <2>2. WrittenNext(fs, args, 1, x1, x2)
    BY <1>1, DeliverList DEF x1, b1, WrittenNext
  <2>3. ReadsNext(reader, fs, args, 1, D0, x1, x2)
    BY <1>5, <2>1, <2>2, NextRead
  <2>4. D0 \cup {fs[1].name} = D1
    BY DeliverList DEF D1
  <2> QED
    BY <1>8, <1>c, <2>3, <2>4 DEF ReadsNext
<1>10. p[2] = Parsing(Restrict(args, D2), x3, 0)
  <2>1. FieldFits(reader, fs[2].domain, args[fs[2].name]) /\ fs[2].domain \in Domains
    BY <1>1, <1>z, DeliverList
  <2>2. WrittenNext(fs, args, 2, x2, x3)
    BY <1>1, DeliverList DEF x2, b2, WrittenNext
  <2>3. ReadsNext(reader, fs, args, 2, D1, x2, x3)
    BY <1>5, <2>1, <2>2, NextRead
  <2>4. D1 \cup {fs[2].name} = D2
    BY DeliverList DEF D2
  <2> QED
    BY <1>8, <1>9, <2>3, <2>4 DEF ReadsNext
<1>d. LastBit(fs, 3)
  <2>1. fs[3 + 1].domain # "bit"
    BY DeliverList
  <2> QED
    BY <2>1 DEF LastBit
<1>11. p[3] = Parsing(Restrict(args, D3), x4, 0)
  <2> DEFINE e == 1
  <2>0. BitIs(args["redelivered"], e, 0) /\ e \in Octet /\ 0 \in Nat
    <3>1. (1 \div 1) % 2 = 1
      OBVIOUS
    <3>2. args["redelivered"] = ((1 \div 1) % 2 = 1)
      BY <1>1, <3>1
    <3> QED
      BY <1>4, <3>2, Bits DEF BitIs
  <2> HIDE DEF e
  <2>1. BitIs(args[fs[3].name], e, 0) /\ fs[3].domain = "bit"
    BY <2>0, DeliverList
  <2>2. BitNext(reader, fs, args, 3, D2, e, x4, 0)
    BY <1>5, <2>0, <2>1, NextBit
  <2>3. D2 \cup {fs[3].name} = D3
    BY DeliverList DEF D3
  <2>4. x3 = <<e>> \o x4
    BY DEF x3, o, e
  <2>5. p[3] = Parsing(Restrict(args, D3), IF LastBit(fs, 3) THEN x4 ELSE <<e>> \o x4,
                       IF LastBit(fs, 3) THEN 0 ELSE 0 + 1)
    BY <1>8, <1>10, <2>2, <2>3, <2>4 DEF BitNext
  <2> QED
    BY <1>d, <2>5
<1>12. p[4] = Parsing(Restrict(args, D4), x5, 0)
  <2>1. FieldFits(reader, fs[4].domain, args[fs[4].name]) /\ fs[4].domain \in Domains
    BY <1>1, <1>z, DeliverList
  <2>2. WrittenNext(fs, args, 4, x4, x5)
    BY <1>1, DeliverList DEF x4, b4, WrittenNext
  <2>3. ReadsNext(reader, fs, args, 4, D3, x4, x5)
    BY <1>5, <2>1, <2>2, NextRead
  <2>4. D3 \cup {fs[4].name} = D4
    BY DeliverList DEF D4
  <2> QED
    BY <1>8, <1>11, <2>3, <2>4 DEF ReadsNext
<1>13. p[5] = Parsing(Restrict(args, D5), t, 0)
  <2>1. FieldFits(reader, fs[5].domain, args[fs[5].name]) /\ fs[5].domain \in Domains
    BY <1>1, <1>z, DeliverList
  <2>2. WrittenNext(fs, args, 5, x5, t)
    BY <1>1, DeliverList DEF x5, b5, WrittenNext
  <2>3. ReadsNext(reader, fs, args, 5, D4, x5, t)
    BY <1>5, <2>1, <2>2, NextRead
  <2>4. D4 \cup {fs[5].name} = D5
    BY DeliverList DEF D5
  <2> QED
    BY <1>8, <1>12, <2>3, <2>4 DEF ReadsNext
<1> QED
  BY <1>5, <1>6, <1>7, <1>13, <1>15 DEF b, args

-----------------------------------------------------------------------------
(* Frames *)

\* Sequences with the same elements.
LEMMA SameSeq ==
  ASSUME NEW S, NEW a \in Seq(S), NEW b \in Seq(S), Len(a) = Len(b),
         \A i \in 1 .. Len(a) : a[i] = b[i]
  PROVE  a = b
OBVIOUS

\* Where the elements of two sequences go.
LEMMA Parts ==
  ASSUME NEW S, NEW a \in Seq(S), NEW b \in Seq(S)
  PROVE  /\ a \o b \in Seq(S) /\ Len(a \o b) = Len(a) + Len(b)
         /\ \A i \in 1 .. Len(a) : (a \o b)[i] = a[i]
         /\ \A i \in 1 .. Len(b) : (a \o b)[Len(a) + i] = b[i]
OBVIOUS

\* The part in the middle.
LEMMA Middle ==
  ASSUME NEW a \in Seq(Octet), NEW b \in Seq(Octet), NEW c \in Seq(Octet)
  PROVE  SubSeq((a \o b) \o c, Len(a) + 1, Len(a) + Len(b)) = b
<1> DEFINE x == a \o b
           y == x \o c
<1>1. x \in Seq(Octet) /\ Len(x) = Len(a) + Len(b) /\ \A i \in 1 .. Len(b) : x[Len(a) + i] = b[i]
  OBVIOUS
<1> HIDE DEF x
<1>a. x \in Seq(Octet)
  BY <1>1
<1>2. y \in Seq(Octet) /\ Len(y) = Len(x) + Len(c) /\ \A i \in 1 .. Len(x) : y[i] = x[i]
  BY <1>a, Parts
<1> HIDE DEF y
<1> DEFINE z == SubSeq(y, Len(a) + 1, Len(a) + Len(b))
<1>3. z \in Seq(Octet) /\ Len(z) = Len(b) /\ \A i \in 1 .. Len(b) : z[i] = y[Len(a) + i]
  BY <1>1, <1>2
<1>4. \A i \in 1 .. Len(b) : z[i] = b[i]
  <2> TAKE i \in 1 .. Len(b)
  <2>1. Len(a) + i \in 1 .. Len(x)
    BY <1>1
  <2> QED
    BY <1>1, <1>2, <1>3, <2>1
<1> HIDE DEF z
<1>5. z = b
  BY <1>3, <1>4, SameSeq
<1> QED
  BY <1>5 DEF x, y, z

\* The first octets of a frame.
Prefix7(f) ==
  (<<f.frame.type>> \o SerializeInt(2, Channel)) \o SerializeInt(4, Len(f.frame.payload))

\* Its end marker.
Marker(f) == IF f.flaw = "end" THEN (FrameEnd + 1) % Base ELSE FrameEnd

\* What the server sends: the flaw says what is wrong with the frame.
Message == {f \in [frame : [type : Octet, channel : {Channel}, payload : Seq(Octet)], flaw : Flaws] :
              /\ Len(f.frame.payload) < Limit("client")
              /\ f.flaw = "type" <=> f.frame.type \notin FrameTypes
              /\ f.flaw = "size" <=> Len(f.frame.payload) > MaxFrame}

\* The parts of a message.
LEMMA MessageType ==
  ASSUME NEW f \in Message
  PROVE  /\ f.frame.type \in Octet /\ f.frame.channel = Channel /\ f.frame.payload \in Seq(Octet)
         /\ f.flaw \in Flaws /\ Len(f.frame.payload) \in Nat /\ Len(f.frame.payload) < Limit("client")
         /\ f.flaw = "type" <=> f.frame.type \notin FrameTypes
         /\ f.flaw = "size" <=> Len(f.frame.payload) > MaxFrame
BY DEF Message

\* The number of the channel fits into a short, for either reader.
LEMMA ChannelType == Channel \in Nat /\ Channel < Room(2) /\ \A reader : Channel < Limit(reader)
<1>1. Base \in Nat /\ Base >= 8
  BY OctetType
<1>2. /\ \A reader : Limit(reader) \in Nat /\ Base < Limit(reader)
      /\ Room(2) \in Nat /\ Base <= Room(2)
  BY Sizes
<1> QED
  BY <1>1, <1>2 DEF Channel

\* The octets of a header, and what the parser makes of them.
LEMMA PrefixRead ==
  ASSUME NEW f \in Message
  PROVE  /\ Prefix7(f) \in Seq(Octet) /\ Len(Prefix7(f)) = 7 /\ Prefix7(f)[1] = f.frame.type
         /\ ParseInt(SubSeq(Prefix7(f), 2, 3)) = Channel
         /\ ParseInt(SubSeq(Prefix7(f), 4, 7)) = Len(f.frame.payload)
<1> DEFINE n == Len(f.frame.payload)
           c == SerializeInt(2, Channel)
           s == SerializeInt(4, n)
           e == f.frame.type
           o == <<e>>
<1>1. n \in Nat /\ n < Limit("client") /\ e \in Octet
  BY MessageType
<1> HIDE DEF n, e
<1>2. c \in Seq(Octet) /\ Len(c) = 2
  BY ChannelType, SerializeIntType
<1>3. s \in Seq(Octet) /\ Len(s) = 4
  BY <1>1, SerializeIntType
<1>4. ParseInt(c) = Channel
  BY ChannelType, Exact DEF ParseInt
<1>5. ParseInt(s) = n
  <2>1. n < Room(4)
    BY <1>1, FitsLong
  <2> QED
    BY <1>1, <2>1, Exact DEF ParseInt
<1>6. o \in Seq(Octet) /\ Len(o) = 1 /\ o[1] = e
  BY <1>1
<1> HIDE DEF c, s, o
<1> DEFINE x == o \o c
           y == x \o s
<1>7. x \in Seq(Octet) /\ Len(x) = Len(o) + Len(c)
  BY <1>2, <1>6, Joined
<1>b. y \in Seq(Octet) /\ Len(y) = Len(x) + Len(s) /\ y[1] = e
  <2>1. x[1] = e
    <3>1. c \in Seq(Octet) /\ o \in Seq(Octet)
      BY <1>2, <1>6
    <3>2. \A i \in 1 .. Len(o) : x[i] = o[i]
      BY <3>1, Parts
    <3> QED
      BY <1>6, <3>2
  <2> HIDE DEF x
  <2>2. y \in Seq(Octet) /\ Len(y) = Len(x) + Len(s)
    BY <1>3, <1>7, Joined
  <2>3. 1 \in 1 .. Len(x)
    BY <1>2, <1>6, <1>7
  <2>4. y[1] = x[1]
    BY <1>3, <1>7, <2>3
  <2> QED
    BY <2>1, <2>2, <2>4
<1>9. SubSeq(y, 2, 3) = c
  <2>1. SubSeq(y, Len(o) + 1, Len(o) + Len(c)) = c
    BY <1>2, <1>3, <1>6, Middle
  <2>2. Len(o) + 1 = 2 /\ Len(o) + Len(c) = 3
    BY <1>2, <1>6
  <2> HIDE DEF y
  <2> QED
    BY <2>1, <2>2
<1>10. SubSeq(y, 4, 7) = s
  <2> HIDE DEF x
  <2>1. Drop(y, 3) = s
    <3>1. Len(x) = 3
      BY <1>2, <1>6, <1>7
    <3> QED
      BY <1>3, <1>7, <3>1, CutAt
  <2>2. Len(y) = 7
    BY <1>2, <1>3, <1>6, <1>7, <1>b
  <2> HIDE DEF y
  <2>3. Drop(y, 3) = SubSeq(y, 3 + 1, 7)
    BY <2>2 DEF Drop
  <2> QED
    BY <2>1, <2>3
<1>8. Len(y) = 7
  BY <1>2, <1>3, <1>6, <1>7, <1>b
<1> HIDE DEF x, y
<1>11. Prefix7(f) = y
  BY DEF Prefix7, n, c, s, e, o, x, y
<1> QED
  BY <1>4, <1>5, <1>8, <1>9, <1>10, <1>11, <1>b DEF n, e

\* The last octet of a message is the end marker, but for the one flaw.
LEMMA MarkerType ==
  ASSUME NEW f \in Message
  PROVE  Marker(f) \in Octet /\ (Marker(f) = FrameEnd <=> f.flaw # "end")
<1>1. Base \in Nat /\ Base >= 8 /\ FrameEnd \in 0 .. Base - 1 /\ Octet = 0 .. Base - 1
  BY OctetType
<1>2. (FrameEnd + 1) % Base \in 0 .. Base - 1 /\ (FrameEnd + 1) % Base # FrameEnd
  <2>1. CASE FrameEnd + 1 = Base
    <3>1. Base % Base = 0
      BY <1>1
    <3> QED
      BY <1>1, <2>1, <3>1
  <2>2. CASE FrameEnd + 1 # Base
    <3>1. FrameEnd + 1 \in Nat /\ FrameEnd + 1 < Base
      BY <1>1, <2>2
    <3>2. (FrameEnd + 1) % Base = FrameEnd + 1
      BY <1>1, <3>1, NoRemainder
    <3> QED
      BY <1>1, <3>1, <3>2
  <2> QED
    BY <2>1, <2>2
<1> QED
  BY <1>1, <1>2 DEF Marker

\* A frame is its header, its payload, and its end marker.
LEMMA OctetsOfFrame ==
  ASSUME NEW f \in Message
  PROVE  /\ Octets(f) = Prefix7(f) \o (f.frame.payload \o <<Marker(f)>>)
         /\ Octets(f) \in Seq(Octet)
<1> DEFINE p == f.frame.payload
           h == Prefix7(f)
           x == h \o p
           o == <<FrameEnd>>
           m == <<Marker(f)>>
<1>1. h \in Seq(Octet) /\ p \in Seq(Octet)
  BY PrefixRead, MessageType
<1>2. FrameEnd \in Octet /\ Marker(f) \in Octet /\ (FrameEnd + 1) % Base \in Octet
  <2>1. Base \in Nat /\ Base >= 8 /\ FrameEnd \in 0 .. Base - 1 /\ Octet = 0 .. Base - 1
    BY OctetType
  <2>2. (FrameEnd + 1) % Base \in 0 .. Base - 1
    BY <2>1
  <2> QED
    BY <2>1, <2>2, MarkerType
<1>3. Frame(f.frame.type, Channel, f.frame.payload) = x \o o
  BY DEF Frame, Prefix7
<1> HIDE DEF h, p
<1>4. x \in Seq(Octet)
  BY <1>1
<1> HIDE DEF x
<1>5. Front(x \o o) = x
  <2>1. x \o o \in Seq(Octet) /\ Len(x \o o) = Len(x) + 1 /\ \A i \in 1 .. Len(x) : (x \o o)[i] = x[i]
    BY <1>2, <1>4
  <2> DEFINE y == x \o o
  <2> HIDE DEF y
  <2>2. SubSeq(y, 1, Len(x)) = x
    BY <1>4, <2>1 DEF y
  <2>3. Len(y) - 1 = Len(x)
    BY <1>4, <2>1 DEF y
  <2>4. Front(y) = SubSeq(y, 1, Len(y) - 1)
    BY DEF Front
  <2> QED
    BY <2>2, <2>3, <2>4 DEF y
<1>6. Octets(f) = x \o m
  <2>1. CASE f.flaw = "end"
    <3>1. Octets(f) = Append(Front(x \o o), (FrameEnd + 1) % Base)
      BY <1>3, <2>1 DEF Octets
    <3>2. Append(x, Marker(f)) = x \o m
      BY <1>2, <1>4
    <3> QED
      BY <1>5, <2>1, <3>1, <3>2 DEF Marker
  <2>2. CASE f.flaw # "end"
    BY <1>3, <2>2 DEF Octets, Marker
  <2> QED
    BY <2>1, <2>2
<1>7. m \in Seq(Octet)
  BY <1>2
<1> HIDE DEF m
<1>8. x \o m = h \o (p \o m)
  BY <1>1, <1>7, JoinTwice DEF x
<1>9. x \o m \in Seq(Octet)
  BY <1>4, <1>7
<1> QED
  BY <1>6, <1>8, <1>9 DEF h, p, m

\* The octets of the frames after the first n.
Pending(s, n) == FlattenSeq([i \in 1 .. Len(s) - n |-> Octets(s[n + i])])

\* The octets of the messages not yet parsed.
LEMMA PendingType ==
  ASSUME NEW s \in Seq(Message), NEW n \in 0 .. Len(s)
  PROVE  Pending(s, n) \in Seq(Octet)
<1> DEFINE r == [i \in 1 .. Len(s) - n |-> Octets(s[n + i])]
<1>1. \A i \in 1 .. Len(s) - n : Octets(s[n + i]) \in Seq(Octet)
  <2>1. ASSUME NEW i \in 1 .. Len(s) - n PROVE s[n + i] \in Message
    OBVIOUS
  <2> QED
    BY <2>1, OctetsOfFrame
<1>2. r \in Seq(Seq(Octet))
  BY <1>1
<1> QED
  BY <1>2, FlattenType DEF Pending

\* Once all messages are parsed there are none.
LEMMA NothingPending ==
  ASSUME NEW s \in Seq(Message)
  PROVE  Pending(s, Len(s)) = <<>>
<1>1. [i \in 1 .. Len(s) - Len(s) |-> Octets(s[Len(s) + i])] = <<>>
  OBVIOUS
<1> QED
  BY <1>1, FlattenEmpty DEF Pending

\* The next of them comes first.
LEMMA PendingNext ==
  ASSUME NEW s \in Seq(Message), NEW n \in 0 .. Len(s), n < Len(s)
  PROVE  Pending(s, n) = Octets(s[n + 1]) \o Pending(s, n + 1)
<1> DEFINE r(k) == [i \in 1 .. Len(s) - k |-> Octets(s[k + i])]
           e == Octets(s[n + 1])
           u == r(n + 1)
<1>1. \A k \in 1 .. Len(s) : Octets(s[k]) \in Seq(Octet)
  <2>1. \A k \in 1 .. Len(s) : s[k] \in Message
    OBVIOUS
  <2> QED
    BY <2>1, OctetsOfFrame
<1>2. e \in Seq(Octet)
  BY <1>1
<1>3. u \in Seq(Seq(Octet)) /\ Len(u) = Len(s) - (n + 1) /\ \A i \in 1 .. Len(u) : u[i] = Octets(s[n + 1 + i])
  <2>1. \A i \in 1 .. Len(s) - (n + 1) : n + 1 + i \in 1 .. Len(s)
    OBVIOUS
  <2>2. \A i \in 1 .. Len(s) - (n + 1) : Octets(s[n + 1 + i]) \in Seq(Octet)
    BY <1>1, <2>1
  <2> QED
    BY <2>2
<1>4. r(n) \in Seq(Seq(Octet)) /\ Len(r(n)) = Len(s) - n /\ \A i \in 1 .. Len(s) - n : r(n)[i] = Octets(s[n + i])
  <2>1. \A i \in 1 .. Len(s) - n : n + i \in 1 .. Len(s)
    OBVIOUS
  <2>2. \A i \in 1 .. Len(s) - n : Octets(s[n + i]) \in Seq(Octet)
    BY <1>1, <2>1
  <2> QED
    BY <2>2
<1> DEFINE q == r(n)
<1>5. q = <<e>> \o u
  <2> DEFINE v == <<e>> \o u
  <2>1. q[1] = e
    BY <1>4
  <2>2. \A i \in 1 .. Len(u) : q[i + 1] = u[i]
    <3> TAKE i \in 1 .. Len(u)
    <3>1. i + 1 \in 1 .. Len(s) - n /\ n + (i + 1) = n + 1 + i
      BY <1>3
    <3> QED
      BY <1>3, <1>4, <3>1
  <2> HIDE DEF q, u, e
  <2>3. /\ v \in Seq(Seq(Octet)) /\ Len(v) = 1 + Len(u) /\ v[1] = e
        /\ \A j \in 1 .. Len(u) : v[j + 1] = u[j]
    BY <1>2, <1>3, InFront
  <2>4. q \in Seq(Seq(Octet)) /\ Len(q) = 1 + Len(u) /\ Len(u) \in Nat
    BY <1>3, <1>4 DEF q
  <2> HIDE DEF v
  <2>5. \A j \in 1 .. Len(q) : q[j] = v[j]
    <3> TAKE j \in 1 .. Len(q)
    <3>1. CASE j = 1
      BY <2>1, <2>3, <3>1
    <3>2. CASE j # 1
      <4>1. j - 1 \in 1 .. Len(u) /\ (j - 1) + 1 = j
        BY <2>4, <3>2
      <4>2. q[(j - 1) + 1] = v[(j - 1) + 1]
        BY <2>2, <2>3, <4>1
      <4> QED
        BY <4>1, <4>2
    <3> QED
      BY <3>1, <3>2
  <2> QED
    BY <2>3, <2>4, <2>5 DEF v
<1>6. FlattenSeq(<<e>> \o u) = e \o FlattenSeq(u)
  <2> HIDE DEF e, u
  <2> QED
    BY <1>2, <1>3, FlattenFirst
<1>7. FlattenSeq(q) = e \o FlattenSeq(u)
  BY <1>5, <1>6
<1> QED
  BY <1>7 DEF Pending

\* More frames come last.
LEMMA PendingMore ==
  ASSUME NEW s \in Seq(Message), NEW u \in Seq(Message), NEW n \in 0 .. Len(s)
  PROVE  Pending(s \o u, n) = Pending(s, n) \o FlattenSeq([i \in 1 .. Len(u) |-> Octets(u[i])])
<1> DEFINE x == [i \in 1 .. Len(s) - n |-> Octets(s[n + i])]
           y == [i \in 1 .. Len(u) |-> Octets(u[i])]
           z == [i \in 1 .. Len(s \o u) - n |-> Octets((s \o u)[n + i])]
<1>1. x \in Seq(Seq(Octet)) /\ Len(x) = Len(s) - n
  <2>1. \A i \in 1 .. Len(s) - n : s[n + i] \in Message
    OBVIOUS
  <2>2. \A i \in 1 .. Len(s) - n : Octets(s[n + i]) \in Seq(Octet)
    BY <2>1, OctetsOfFrame
  <2> QED
    BY <2>2
<1>2. y \in Seq(Seq(Octet)) /\ Len(y) = Len(u)
  <2>0. \A i \in 1 .. Len(u) : u[i] \in Message
    OBVIOUS
  <2>1. \A i \in 1 .. Len(u) : Octets(u[i]) \in Seq(Octet)
    BY <2>0, OctetsOfFrame
  <2> QED
    BY <2>1
<1>3. z = x \o y
  <2> DEFINE j == s \o u
  <2>1. /\ Len(j) = Len(s) + Len(u) /\ j \in Seq(Message)
        /\ \A i \in 1 .. Len(s) : j[i] = s[i]
        /\ \A i \in 1 .. Len(u) : j[Len(s) + i] = u[i]
    OBVIOUS
  <2> HIDE DEF j
  <2>2. \A i \in 1 .. Len(j) - n : Octets(j[n + i]) \in Seq(Octet)
    <3>1. \A i \in 1 .. Len(j) - n : j[n + i] \in Message
      BY <2>1
    <3> QED
      BY <3>1, OctetsOfFrame
  <2>3. z \in Seq(Seq(Octet)) /\ Len(z) = Len(j) - n /\ \A i \in 1 .. Len(z) : z[i] = Octets(j[n + i])
    <3>1. Len(j) - n \in Nat
      BY <2>1
    <3> DEFINE m == Len(j) - n
               q == [i \in 1 .. m |-> Octets(j[n + i])]
    <3>2. q = z
      BY DEF j
    <3> HIDE DEF z, m
    <3>3. q \in Seq(Seq(Octet)) /\ Len(q) = m /\ \A i \in 1 .. m : q[i] = Octets(j[n + i])
      BY <2>2, <3>1 DEF m
    <3> QED
      BY <3>2, <3>3 DEF m
  <2>4. \A i \in 1 .. Len(x) : z[i] = x[i]
    BY <1>1, <2>1, <2>3
  <2>5. \A i \in 1 .. Len(y) : z[Len(x) + i] = y[i]
    <3> TAKE i \in 1 .. Len(y)
    <3>1. n + (Len(x) + i) = Len(s) + i /\ Len(x) + i \in 1 .. Len(z) /\ i \in 1 .. Len(u)
      BY <1>1, <1>2, <2>1, <2>3
    <3> QED
      BY <2>1, <2>3, <3>1
  <2> HIDE DEF x, y, z
  <2>6. Len(z) = Len(x) + Len(y)
    BY <1>1, <1>2, <2>1, <2>3
  <2> DEFINE v == x \o y
  <2>7. v \in Seq(Seq(Octet)) /\ Len(v) = Len(x) + Len(y)
        /\ (\A i \in 1 .. Len(x) : v[i] = x[i]) /\ (\A i \in 1 .. Len(y) : v[Len(x) + i] = y[i])
    <3>1. x \in Seq(Seq(Octet)) /\ y \in Seq(Seq(Octet))
      BY <1>1, <1>2
    <3> DEFINE S == Seq(Octet)
    <3> HIDE DEF S
    <3>2. x \in Seq(S) /\ y \in Seq(S)
      BY <3>1 DEF S
    <3>3. v \in Seq(S) /\ Len(v) = Len(x) + Len(y)
          /\ (\A i \in 1 .. Len(x) : v[i] = x[i]) /\ (\A i \in 1 .. Len(y) : v[Len(x) + i] = y[i])
      BY <3>2, Parts
    <3> QED
      BY <3>3 DEF S
  <2> HIDE DEF v
  <2>8. \A i \in 1 .. Len(z) : z[i] = v[i]
    <3> TAKE i \in 1 .. Len(z)
    <3>1. Len(x) \in Nat /\ Len(y) \in Nat
      BY <1>1, <1>2
    <3>2. CASE i <= Len(x)
      BY <2>4, <2>7, <3>1, <3>2
    <3>3. CASE i > Len(x)
      <4>1. i - Len(x) \in 1 .. Len(y) /\ Len(x) + (i - Len(x)) = i
        BY <2>6, <3>1, <3>3
      <4>2. z[Len(x) + (i - Len(x))] = v[Len(x) + (i - Len(x))]
        BY <2>5, <2>7, <4>1
      <4> QED
        BY <4>1, <4>2
    <3> QED
      BY <3>1, <3>2, <3>3
  <2> QED
    <3>1. z = v
      BY <2>3, <2>6, <2>7, <2>8, SameSeq
    <3> QED
      BY <3>1 DEF v
<1> HIDE DEF x, y
<1>4. FlattenSeq(x \o y) = FlattenSeq(x) \o FlattenSeq(y)
  BY <1>1, <1>2, FlattenConcat
<1> QED
  BY <1>3, <1>4 DEF Pending, x, y

\* The first n octets of d go to x, and the others stay before s.
Shifts(x, d, s, n) ==
  /\ (x \o Take(d, n)) \o (Drop(d, n) \o s) = x \o (d \o s)
  /\ x \o Take(d, n) \in Seq(Octet) /\ Drop(d, n) \in Seq(Octet)
  /\ Drop(d, n) \o s \in Seq(Octet)
  /\ Len(x \o Take(d, n)) = Len(x) + (IF n <= Len(d) THEN n ELSE Len(d))
  /\ Len(d) <= n => Drop(d, n) = <<>>
  /\ Len(d) > n => Drop(d, n) # <<>>

\* A chunk is taken from the front of what is unread.
LEMMA Shift ==
  ASSUME NEW x \in Seq(Octet), NEW d \in Seq(Octet), NEW s \in Seq(Octet), NEW n \in Nat
  PROVE  Shifts(x, d, s, n)
<1> DEFINE t == Take(d, n)
           r == Drop(d, n)
<1>1. t \in Seq(Octet) /\ Len(t) = IF n <= Len(d) THEN n ELSE Len(d)
  BY TakeType
<1>2. r \in Seq(Octet) /\ Len(r) = IF n <= Len(d) THEN Len(d) - n ELSE 0
  BY DropType
<1>3. t \o r = d
  BY JoinCut
<1> HIDE DEF t, r
<1>4. x \o t \in Seq(Octet) /\ Len(x \o t) = Len(x) + Len(t)
  BY <1>1, Joined
<1>5. r \o s \in Seq(Octet)
  BY <1>2, Joined
<1>6. t \o (r \o s) = d \o s
  <2>1. (t \o r) \o s = t \o (r \o s)
    BY SMTT(20), <1>1, <1>2, JoinTwice
  <2> QED
    BY <1>3, <2>1
<1> DEFINE rs == r \o s
<1>7. (x \o t) \o rs = x \o (t \o rs)
  <2> HIDE DEF rs
  <2> QED
    <3>1. t \in Seq(Octet) /\ rs \in Seq(Octet)
      BY <1>1, <1>5 DEF rs
    <3> QED
      BY <3>1, JoinTwice
<1>8. /\ Len(d) <= n => r = <<>>
      /\ Len(d) > n => r # <<>>
  BY <1>2
<1> QED
  BY <1>1, <1>2, <1>4, <1>5, <1>6, <1>7, <1>8 DEF t, r, Shifts

-----------------------------------------------------------------------------
(* The parser *)

\* The parser still has octets to read, or will have.
Live == attached \/ executing

Unread == data \o stream

\* The frame it reads.
Current == sent[parsed + 1]

Buffers ==
  /\ sent \in Seq(Message) /\ stream \in Seq(Octet) /\ data \in Seq(Octet)
  /\ frameHeader \in Seq(Octet) /\ Len(frameHeader) < HeaderSize
  /\ frameBuffer \in Seq(Octet) /\ frame.size \in Nat /\ Len(frameBuffer) <= frame.size
  /\ parsed \in 0 .. Len(sent)

Switches ==
  /\ parse \in {"header", "frame", "frameEnd", "none"}
  /\ executing \in BOOLEAN /\ failed \in BOOLEAN /\ attached \in BOOLEAN
  /\ data # <<>> => executing
  /\ ~attached => failed
  /\ parse = "none" => ~attached /\ ~executing

Typed == Buffers /\ Switches

\* What was read of a header and what is unread are the frames to come.
AtHeader == parse = "header" /\ Live => frameHeader \o Unread = Pending(sent, parsed)

\* The header of a frame has been understood.
InsideFrame ==
  parse \in {"frame", "frameEnd"} =>
    /\ parsed < Len(sent)
    /\ frame = [type |-> Current.frame.type, channel |-> Channel,
                size |-> Len(Current.frame.payload)]
    /\ Current.flaw = "size" => failed
    /\ frameHeader = <<>>

AtFrame ==
  parse = "frame" /\ Live =>
    frameBuffer \o Unread
      = Current.frame.payload \o (<<Marker(Current)>> \o Pending(sent, parsed + 1))

AtEnd ==
  parse = "frameEnd" =>
    /\ frameBuffer = Current.frame.payload
    /\ executing => data # <<>>
    /\ Live => Unread = <<Marker(Current)>> \o Pending(sent, parsed + 1)

\* Unless an error was raised every frame was handed on, and none was flawed.
HandedOn ==
  ~failed => /\ handed = [i \in 1 .. parsed |-> sent[i].frame]
             /\ \A i \in 1 .. parsed : sent[i].flaw = "none"

ParserInv == Typed /\ AtHeader /\ InsideFrame /\ AtFrame /\ AtEnd /\ HandedOn

\* The parser starts between two frames, with nothing sent.
LEMMA ParserStarts == ParserInit => ParserInv
<1> SUFFICES ASSUME ParserInit PROVE ParserInv
  OBVIOUS
<1>1. Typed
  <2>1. <<>> \in Seq(Message) /\ <<>> \in Seq(Octet) /\ Len(<<>>) = 0
    OBVIOUS
  <2> QED
    <3>1. Buffers
      <4>1. sent = <<>> /\ stream = <<>> /\ data = <<>> /\ frameHeader = <<>> /\ frameBuffer = <<>>
            /\ frame.size = 0 /\ parsed = 0
        BY DEF ParserInit
      <4> DEFINE e == <<>>
      <4> HIDE DEF e
      <4>2. e \in Seq(Message) /\ e \in Seq(Octet) /\ Len(e) = 0
        BY <2>1 DEF e
      <4>3. sent = e /\ stream = e /\ data = e /\ frameHeader = e /\ frameBuffer = e
        BY <4>1 DEF e
      <4> QED
        BY <4>1, <4>2, <4>3 DEF Buffers, HeaderSize
    <3>2. Switches
      BY DEF ParserInit, Switches
    <3> QED
      BY <3>1, <3>2 DEF Typed
<1>2. AtHeader
  <2>1. sent \in Seq(Message) /\ Len(sent) = 0 /\ parsed = 0 /\ sent = <<>>
    BY DEF ParserInit
  <2>2. Pending(sent, parsed) = <<>>
    BY <2>1, NothingPending
  <2> QED
    BY <2>2 DEF ParserInit, AtHeader, Unread
<1>3. InsideFrame /\ AtFrame /\ AtEnd
  BY DEF ParserInit, InsideFrame, AtFrame, AtEnd
<1>4. HandedOn
  BY DEF ParserInit, HandedOn
<1> QED
  BY <1>1, <1>2, <1>3, <1>4 DEF ParserInv

\* What the parser does not see leaves its invariant alone.
LEMMA ParserIdle == ASSUME ParserInv, UNCHANGED parserVars PROVE ParserInv'
BY DEF ParserInv, parserVars, bytes, callbacks, Typed, Buffers, Switches, AtHeader, InsideFrame, AtFrame, AtEnd,
       HandedOn, Live, Unread, Current

\* A chunk of any length moves octets from the stream into the chunk in hand.
LEMMA DataKeeps == ASSUME ParserInv, NEW n \in Nat \ {0}, Data(n) PROVE ParserInv'
<1>1. /\ ~executing /\ n <= Len(stream) /\ stream' = Drop(stream, n)
      /\ UNCHANGED <<sent, parse, frameHeader, frame, frameBuffer, parsed, handed, failed, attached>>
  BY DEF Data, callbacks
<1>2. /\ Typed /\ data = <<>>
  BY <1>1 DEF ParserInv, Typed, Buffers, Switches
<1>3. stream \in Seq(Octet)
  BY <1>2 DEF Typed, Buffers, Switches
<1>4. Drop(stream, n) \in Seq(Octet) /\ Take(stream, n) \in Seq(Octet)
      /\ Take(stream, n) \o Drop(stream, n) = stream /\ Take(stream, n) # <<>>
  <2>1. Drop(stream, n) \in Seq(Octet)
    BY <1>3, DropType
  <2>2. Take(stream, n) \in Seq(Octet) /\ Len(Take(stream, n)) = n
    BY <1>1, <1>3, TakeType
  <2> QED
    BY <1>3, <2>1, <2>2, JoinCut
<1>5. CASE attached
  <2>1. data' = Take(stream, n) /\ executing' = TRUE
    BY <1>5 DEF Data
  <2>2. Unread' = Unread
    <3>1. Unread = stream
      BY <1>2, <1>3 DEF Unread
    <3> QED
      BY <1>1, <1>4, <2>1, <3>1 DEF Unread
  <2>3. Live /\ Live'
    BY <1>1, <1>5 DEF Live
  <2>4. Typed'
    BY <1>1, <1>2, <1>4, <1>5, <2>1 DEF Typed, Buffers, Switches
  <2>5. AtHeader' /\ InsideFrame' /\ AtFrame'
    BY <1>1, <2>2, <2>3 DEF ParserInv, AtHeader, InsideFrame, AtFrame, Current
  <2>6. AtEnd'
    BY <1>1, <1>4, <2>1, <2>2, <2>3 DEF ParserInv, AtEnd, Current
  <2>7. HandedOn'
    BY <1>1 DEF ParserInv, HandedOn
  <2> QED
    BY <2>4, <2>5, <2>6, <2>7 DEF ParserInv
<1>6. CASE ~attached
  <2>1. data' = data /\ executing' = executing /\ ~Live'
    BY <1>1, <1>6 DEF Data, Live
  <2>4. Typed'
    BY <1>1, <1>2, <1>4, <2>1 DEF Typed, Buffers, Switches
  <2>5. AtHeader' /\ InsideFrame' /\ AtFrame' /\ AtEnd'
    BY <1>1, <2>1 DEF ParserInv, AtHeader, InsideFrame, AtFrame, AtEnd, Current
  <2>7. HandedOn'
    BY <1>1 DEF ParserInv, HandedOn
  <2> QED
    BY <2>4, <2>5, <2>7 DEF ParserInv
<1> QED
  BY <1>5, <1>6

\* What a complete header says.
LEMMA HeaderRead ==
  ASSUME ParserInv, In("header"), Len(data) >= HeaderSize - Len(frameHeader)
  PROVE  LET needed == HeaderSize - Len(frameHeader)
             octets == frameHeader \o Take(data, needed)
         IN  /\ parsed < Len(sent) /\ Current \in Message
             /\ octets[1] = Current.frame.type
             /\ ParseInt(SubSeq(octets, 2, 3)) = Channel
             /\ ParseInt(SubSeq(octets, 4, 7)) = Len(Current.frame.payload)
             /\ Drop(data, needed) \o stream
                  = Current.frame.payload \o (<<Marker(Current)>> \o Pending(sent, parsed + 1))
<1> DEFINE needed == HeaderSize - Len(frameHeader)
           octets == frameHeader \o Take(data, needed)
           rest == Drop(data, needed) \o stream
<1>1. /\ Typed /\ executing /\ parse = "header" /\ Live
      /\ frameHeader \in Seq(Octet) /\ Len(frameHeader) < 7 /\ data \in Seq(Octet)
      /\ stream \in Seq(Octet) /\ needed = 7 - Len(frameHeader) /\ needed \in Nat
      /\ needed <= Len(data) /\ sent \in Seq(Message) /\ parsed \in 0 .. Len(sent)
  BY DEF ParserInv, Typed, Buffers, Switches, In, Live, HeaderSize
<1>2. frameHeader \o (data \o stream) = Pending(sent, parsed)
  BY <1>1 DEF ParserInv, AtHeader, Unread
<1> HIDE DEF needed
<1>3. /\ octets \in Seq(Octet) /\ Len(octets) = 7 /\ rest \in Seq(Octet)
      /\ octets \o rest = Pending(sent, parsed)
  <2>1. /\ (frameHeader \o Take(data, needed)) \o (Drop(data, needed) \o stream)
             = frameHeader \o (data \o stream)
        /\ octets \in Seq(Octet) /\ rest \in Seq(Octet)
        /\ Len(octets) = Len(frameHeader) + (IF needed <= Len(data) THEN needed ELSE Len(data))
    <3>1. Shifts(frameHeader, data, stream, needed)
      BY <1>1, Shift
    <3> QED
      BY <3>1 DEF Shifts
  <2> HIDE DEF octets, rest
  <2>2. Len(octets) = 7
    BY <1>1, <2>1
  <2> QED
    BY <1>2, <2>1, <2>2 DEF octets, rest
<1> HIDE DEF octets, rest
<1>4. parsed < Len(sent)
  <2> SUFFICES ASSUME parsed = Len(sent) PROVE FALSE
    BY <1>1
  <2>1. Pending(sent, parsed) = <<>>
    BY <1>1, NothingPending
  <2>2. Len(octets \o rest) = Len(octets) + Len(rest)
    BY <1>3, Joined
  <2> QED
    BY <1>3, <2>1, <2>2
<1> DEFINE f == Current
           p == f.frame.payload
           m == <<Marker(f)>>
           h == Prefix7(f)
           next == Pending(sent, parsed + 1)
<1>5. f \in Message
  BY <1>1, <1>4 DEF Current
<1>6. /\ h \in Seq(Octet) /\ Len(h) = 7 /\ h[1] = f.frame.type
      /\ ParseInt(SubSeq(h, 2, 3)) = Channel /\ ParseInt(SubSeq(h, 4, 7)) = Len(p)
  BY <1>5, PrefixRead
<1>7. p \in Seq(Octet) /\ m \in Seq(Octet) /\ next \in Seq(Octet)
  <2>1. next \in Seq(Octet)
    BY <1>1, <1>4, PendingType
  <2>2. Marker(f) \in Octet
    BY <1>5, MarkerType
  <2> QED
    BY <1>5, <2>1, <2>2, MessageType
<1>8. Pending(sent, parsed) = (h \o (p \o m)) \o next
  <2>1. Pending(sent, parsed) = Octets(f) \o next
    BY <1>1, <1>4, PendingNext DEF Current
  <2>2. Octets(f) = h \o (p \o m)
    BY <1>5, OctetsOfFrame
  <2> QED
    BY <2>1, <2>2
<1> HIDE DEF f, p, m, h, next
<1>9. (h \o (p \o m)) \o next = h \o (p \o (m \o next)) /\ p \o (m \o next) \in Seq(Octet)
  <2> DEFINE pm == p \o m
             mn == m \o next
             pmn == p \o mn
  <2>1. pm \in Seq(Octet) /\ mn \in Seq(Octet)
    BY <1>7, Joined
  <2>2. pm \o next = p \o (m \o next)
    BY <1>7, JoinTwice
  <2> HIDE DEF pm, mn
  <2>3. pmn \in Seq(Octet)
    BY <1>7, <2>1, Joined
  <2>4. (h \o pm) \o next = h \o (pm \o next)
    BY <1>6, <1>7, <2>1, JoinTwice
  <2> QED
    BY <2>2, <2>3, <2>4 DEF pm, mn
<1>10. octets = h /\ rest = p \o (m \o next)
  <2> DEFINE r == p \o (m \o next)
  <2>1. r \in Seq(Octet) /\ octets \o rest = h \o r
    BY <1>3, <1>8, <1>9
  <2> HIDE DEF r
  <2>2. octets = h /\ rest = r
    BY <1>3, <1>6, <2>1, CutsAgree
  <2> QED
    BY <2>2 DEF r
<1> QED
  BY <1>4, <1>5, <1>6, <1>10 DEF f, p, m, h, next, octets, rest, needed

\* header() collects seven octets, over any number of chunks (parser.js:49-70).
LEMMA HeaderKeeps == ASSUME ParserInv, Header PROVE ParserInv'
<1> DEFINE needed == HeaderSize - Len(frameHeader)
           octets == frameHeader \o Take(data, needed)
           size   == ParseInt(SubSeq(octets, 4, 7))
<1>1. /\ Typed /\ executing /\ parse = "header" /\ Live /\ In("header")
      /\ frameHeader \in Seq(Octet) /\ Len(frameHeader) < 7 /\ data \in Seq(Octet)
      /\ stream \in Seq(Octet) /\ needed = 7 - Len(frameHeader) /\ needed \in Nat
      /\ sent' = sent /\ stream' = stream /\ parsed' = parsed /\ handed' = handed
  BY DEF Header, ParserInv, Typed, Buffers, Switches, In, Live, HeaderSize, bytes, callbacks
<1>2. CASE Len(data) < needed
  <2>1. /\ parse' = "header" /\ executing' = FALSE /\ data' = <<>> /\ frameHeader' = octets
        /\ UNCHANGED <<frame, frameBuffer, handed, failed, attached>>
    BY <1>2 DEF Header, Return, callbacks
  <2>2. /\ (frameHeader \o Take(data, needed)) \o (Drop(data, needed) \o stream)
             = frameHeader \o (data \o stream)
        /\ octets \in Seq(Octet) /\ Drop(data, needed) = <<>>
        /\ Len(octets) = Len(frameHeader) + (IF needed <= Len(data) THEN needed ELSE Len(data))
    <3> HIDE DEF needed
    <3>1. Len(data) <= needed
      BY <1>1, <1>2
    <3>2. Shifts(frameHeader, data, stream, needed)
      BY <1>1, Shift
    <3> QED
      BY <3>1, <3>2 DEF Shifts
  <2> HIDE DEF octets
  <2>3. Len(octets) < 7
    <3>1. Len(frameHeader) \in Nat /\ Len(data) \in Nat
      BY <1>1
    <3> QED
      BY <1>1, <1>2, <2>2, <3>1
  <2>4. Typed'
    <3> DEFINE e == <<>>
    <3>1. e \in Seq(Octet) /\ data' = e
      BY <2>1
    <3> HIDE DEF e
    <3>2. Buffers'
      BY <1>1, <2>1, <2>2, <2>3, <3>1 DEF Typed, Buffers, HeaderSize
    <3>3. Switches'
      BY <1>1, <2>1 DEF Typed, Switches
    <3> QED
      BY <3>2, <3>3 DEF Typed
  <2>5. AtHeader'
    <3>1. frameHeader \o Unread = Pending(sent, parsed)
      BY <1>1 DEF ParserInv, AtHeader
    <3>2. octets \o (<<>> \o stream) = frameHeader \o Unread
      BY <2>2 DEF octets, Unread
    <3> QED
      BY <1>1, <2>1, <3>1, <3>2 DEF AtHeader, Unread
  <2>6. InsideFrame' /\ AtFrame' /\ AtEnd'
    BY <2>1 DEF InsideFrame, AtFrame, AtEnd
  <2>7. HandedOn'
    BY <1>1, <2>1 DEF ParserInv, HandedOn
  <2> QED
    BY <2>4, <2>5, <2>6, <2>7 DEF ParserInv
<1>3. CASE ~(Len(data) < needed)
  <2>1. /\ parse' = "frame" /\ executing' = TRUE /\ data' = Drop(data, needed) /\ frameHeader' = <<>>
        /\ frame' = [type |-> octets[1], size |-> size, channel |-> ParseInt(SubSeq(octets, 2, 3))]
        /\ frameBuffer' = <<>>
        /\ IF size > MaxFrame THEN OnError ELSE UNCHANGED <<failed, attached>>
    BY <1>3 DEF Header, Call
  <2>2. /\ parsed < Len(sent) /\ Current \in Message
        /\ octets[1] = Current.frame.type
        /\ ParseInt(SubSeq(octets, 2, 3)) = Channel
        /\ size = Len(Current.frame.payload)
        /\ Drop(data, needed) \o stream
             = Current.frame.payload \o (<<Marker(Current)>> \o Pending(sent, parsed + 1))
    <3>1. Len(data) >= HeaderSize - Len(frameHeader)
      BY <1>1, <1>3
    <3> QED
      BY <1>1, <3>1, HeaderRead
  <2>3. size \in Nat /\ (Current.flaw = "size" => size > MaxFrame)
    BY <2>2, MessageType
  <2>4. Drop(data, needed) \in Seq(Octet)
    BY <1>1, DropType
  <2> HIDE DEF octets, size, needed
  <2>5. frame' = [type |-> Current.frame.type, channel |-> Channel,
                  size |-> Len(Current.frame.payload)] /\ frame'.size \in Nat
    BY <2>1, <2>2, <2>3
  <2>6. /\ failed' \in BOOLEAN /\ attached' \in BOOLEAN /\ (~attached' => failed')
        /\ Current.flaw = "size" => failed'
        /\ failed => failed'
    BY <1>1, <2>1, <2>3 DEF Typed, Switches, OnError
  <2>7. Typed'
    <3> DEFINE e == <<>>
    <3>1. e \in Seq(Octet) /\ Len(e) = 0 /\ frameHeader' = e /\ frameBuffer' = e
      BY <2>1
    <3> HIDE DEF e
    <3>2. Buffers'
      BY <1>1, <2>1, <2>4, <2>5, <3>1 DEF Typed, Buffers, HeaderSize
    <3>3. parse' = "frame" /\ executing' = TRUE
      BY <2>1
    <3>4. Switches'
      BY <2>6, <3>3 DEF Switches
    <3> QED
      BY <3>2, <3>4 DEF Typed
  <2>8. Current' = Current /\ Unread' = Drop(data, needed) \o stream
    BY <1>1, <2>1 DEF Current, Unread
  <2>9. AtHeader' /\ AtEnd'
    BY <2>1 DEF AtHeader, AtEnd
  <2>10. InsideFrame'
    BY <1>1, <2>1, <2>2, <2>5, <2>6, <2>8 DEF InsideFrame
  <2>11. AtFrame'
    <3> DEFINE u == Drop(data, needed) \o stream
    <3>1. u \in Seq(Octet)
      BY <1>1, <2>4, Joined
    <3> HIDE DEF u
    <3>2. <<>> \o u = u
      BY <3>1
    <3>3. frameBuffer' \o Unread' = u
      BY <2>1, <2>8, <3>2 DEF u
    <3> QED
      BY <1>1, <2>2, <2>8, <3>3 DEF AtFrame, u
  <2>12. HandedOn'
    BY <1>1, <2>6 DEF ParserInv, HandedOn
  <2> QED
    BY <2>7, <2>9, <2>10, <2>11, <2>12 DEF ParserInv
<1> QED
  BY <1>2, <1>3

\* frame() collects as many octets as the header announced (parser.js:72-87).
LEMMA PayloadKeeps == ASSUME ParserInv, Payload PROVE ParserInv'
<1> DEFINE needed == frame.size - Len(frameBuffer)
           next == Pending(sent, parsed + 1)
           m == <<Marker(Current)>>
           p == Current.frame.payload
           u == m \o next
           taken == frameBuffer \o Take(data, needed)
           rest == Drop(data, needed) \o stream
<1>1. /\ Typed /\ executing = TRUE /\ parse = "frame" /\ Live
      /\ frameBuffer \in Seq(Octet) /\ data \in Seq(Octet) /\ stream \in Seq(Octet)
      /\ frame.size \in Nat /\ Len(frameBuffer) <= frame.size
      /\ sent \in Seq(Message) /\ parsed \in 0 .. Len(sent)
      /\ UNCHANGED <<sent, stream, parsed, frameHeader, frame, handed, failed, attached>>
      /\ frameBuffer' = taken
  BY DEF Payload, ParserInv, Typed, Buffers, Switches, In, Live, bytes, callbacks
<1>2. needed \in Nat
  BY <1>1
<1>3. /\ parsed < Len(sent) /\ Current \in Message /\ frame.size = Len(p)
      /\ (Current.flaw = "size" => failed) /\ frameHeader = <<>>
      /\ frame = [type |-> Current.frame.type, channel |-> Channel, size |-> Len(p)]
      /\ Current' = Current /\ next' = next
  BY <1>1 DEF ParserInv, InsideFrame, Current
<1>4. p \in Seq(Octet) /\ u \in Seq(Octet)
  <2>1. next \in Seq(Octet)
    BY <1>1, <1>3, PendingType
  <2>2. Marker(Current) \in Octet
    BY <1>3, MarkerType
  <2>3. m \in Seq(Octet)
    BY <2>2
  <2>4. p \in Seq(Octet)
    BY <1>3, MessageType
  <2> QED
    BY <2>1, <2>3, <2>4, Joined
<1>5. frameBuffer \o (data \o stream) = p \o u
  BY <1>1 DEF ParserInv, AtFrame, Unread
<1> DEFINE size == frame.size
<1> HIDE DEF needed, p, u
<1>6. Shifts(frameBuffer, data, stream, needed)
  BY <1>1, <1>2, Shift
<1>7. /\ taken \o rest = p \o u
      /\ taken \in Seq(Octet) /\ Drop(data, needed) \in Seq(Octet) /\ rest \in Seq(Octet)
      /\ Len(taken) = Len(frameBuffer) + (IF needed <= Len(data) THEN needed ELSE Len(data))
      /\ Len(data) <= needed => Drop(data, needed) = <<>>
      /\ Len(data) > needed => Drop(data, needed) # <<>>
  BY <1>5, <1>6 DEF Shifts
<1> HIDE DEF taken, rest
<1>8. Len(data) >= needed => taken = p /\ rest = u
  <2> SUFFICES ASSUME Len(data) >= needed PROVE taken = p /\ rest = u
    OBVIOUS
  <2>1. Len(taken) = Len(p)
    <3>1. Len(frameBuffer) \in Nat /\ Len(data) \in Nat
      BY <1>1
    <3> QED
      BY <1>1, <1>2, <1>3, <1>7, <3>1 DEF needed
  <2> QED
    BY <1>4, <1>7, <2>1, CutsAgree
<1>9. Len(taken) <= frame.size
  <2>1. Len(frameBuffer) \in Nat /\ Len(data) \in Nat
    BY <1>1
  <2>2. needed = frame.size - Len(frameBuffer) /\ frame.size \in Nat
    BY <1>1 DEF needed
  <2>3. Len(taken) = Len(frameBuffer) + (IF needed <= Len(data) THEN needed ELSE Len(data))
    BY <1>7
  <2> QED
    BY <1>2, <2>1, <2>2, <2>3
<1>10. /\ data' \in Seq(Octet) /\ data' = Drop(data, needed) /\ executing' \in BOOLEAN
       /\ parse' \in {"frame", "frameEnd"}
       /\ data' # <<>> => executing'
       /\ parse' = "frame" => ~executing' /\ Len(data) < needed
       /\ parse' = "frameEnd" => (Len(data) >= needed /\ (executing' => data' # <<>>))
  <2>0. Len(data) \in Nat
    BY <1>1
  <2>1. CASE Len(data) > needed
    <3>1. parse' = "frameEnd" /\ executing' = TRUE /\ data' = Drop(data, needed)
      BY <2>1 DEF Payload, Call, needed
    <3> QED
      BY <1>2, <1>7, <2>0, <2>1, <3>1
  <2>2. CASE Len(data) = needed
    <3>1. parse' = "frameEnd" /\ executing' = FALSE /\ data' = <<>>
      BY <1>2, <2>0, <2>2 DEF Payload, Return, needed
    <3>2. Drop(data, needed) = <<>> /\ Len(data) >= needed
      BY <1>2, <1>7, <2>0, <2>2
    <3> QED
      BY <1>7, <3>1, <3>2
  <2>3. CASE Len(data) < needed
    <3>1. parse' = "frame" /\ executing' = FALSE /\ data' = <<>>
      BY <1>2, <2>0, <2>3 DEF Payload, Return, needed
    <3>2. Drop(data, needed) = <<>>
      BY <1>2, <1>7, <2>0, <2>3
    <3> QED
      BY <1>7, <2>3, <3>1, <3>2
  <2> QED
    BY <1>2, <2>0, <2>1, <2>2, <2>3
<1>11. Typed'
  <2>1. Buffers'
    BY <1>1, <1>7, <1>9, <1>10 DEF Typed, Buffers
  <2>2. Switches'
    BY <1>1, <1>10 DEF Typed, Switches
  <2> QED
    BY <2>1, <2>2 DEF Typed
<1>12. AtHeader'
  BY <1>10 DEF AtHeader
<1>13. InsideFrame'
  BY <1>1, <1>3 DEF InsideFrame, p
<1>14. Unread' = rest
  BY <1>1, <1>10 DEF Unread, rest
<1>15. AtFrame'
  BY <1>1, <1>3, <1>7, <1>14 DEF AtFrame, u, p
<1>16. AtEnd'
  BY <1>1, <1>3, <1>8, <1>10, <1>14 DEF AtEnd, u, p
<1>17. HandedOn'
  BY <1>1 DEF ParserInv, HandedOn
<1> QED
  BY <1>11, <1>12, <1>13, <1>15, <1>16, <1>17 DEF ParserInv

\* What the end of a frame says.
LEMMA EndRead ==
  ASSUME ParserInv, In("frameEnd")
  PROVE  /\ parsed < Len(sent) /\ Current \in Message
         /\ Head(data) = Marker(Current) /\ Received = Current.frame
         /\ (Current.flaw = "size" => failed)
         /\ Tail(data) \in Seq(Octet) /\ Tail(data) \o stream = Pending(sent, parsed + 1)
<1> DEFINE next == Pending(sent, parsed + 1)
           e == Marker(Current)
<1>1. /\ executing /\ parse = "frameEnd" /\ Live /\ data \in Seq(Octet) /\ data # <<>>
      /\ stream \in Seq(Octet) /\ sent \in Seq(Message) /\ parsed \in 0 .. Len(sent)
      /\ parsed < Len(sent) /\ Current \in Message
      /\ frame = [type |-> Current.frame.type, channel |-> Channel,
                  size |-> Len(Current.frame.payload)]
      /\ (Current.flaw = "size" => failed) /\ frameBuffer = Current.frame.payload
      /\ data \o stream = <<e>> \o next
  <2>1. Typed /\ InsideFrame /\ AtEnd
    BY DEF ParserInv
  <2>2. executing /\ parse = "frameEnd" /\ Live
    BY DEF In, Live
  <2>3. /\ stream \in Seq(Octet) /\ sent \in Seq(Message) /\ parsed \in 0 .. Len(sent)
        /\ data \in Seq(Octet)
    BY <2>1 DEF Typed, Buffers
  <2>4. /\ parsed < Len(sent) /\ (Current.flaw = "size" => failed)
        /\ frame = [type |-> Current.frame.type, channel |-> Channel,
                    size |-> Len(Current.frame.payload)]
    BY <2>1, <2>2 DEF InsideFrame
  <2>5. frameBuffer = Current.frame.payload /\ data # <<>> /\ data \o stream = <<e>> \o next
    BY <2>1, <2>2 DEF AtEnd, Unread
  <2>6. Current \in Message
    BY <2>3, <2>4 DEF Current
  <2> QED
    BY <2>2, <2>3, <2>4, <2>5, <2>6
<1>2. e \in Octet /\ next \in Seq(Octet)
  BY <1>1, MarkerType, PendingType
<1>3. Received = Current.frame
  <2>1. Current.frame \in [type : Octet, channel : {Channel}, payload : Seq(Octet)]
    BY <1>1 DEF Message
  <2>2. Received = [type |-> Current.frame.type, channel |-> Channel, payload |-> Current.frame.payload]
    BY <1>1 DEF Received
  <2> QED
    BY <2>1, <2>2
<1> DEFINE h == Head(data)
           r == Tail(data)
<1>4. h \in Octet /\ r \in Seq(Octet) /\ data = <<h>> \o r
  BY <1>1
<1> HIDE DEF e, next, h, r
<1> DEFINE x == <<h>>
           y == <<e>>
           z == r \o stream
<1>5. x \in Seq(Octet) /\ y \in Seq(Octet) /\ Len(x) = 1 /\ Len(y) = 1
  BY <1>2, <1>4
<1>6. z \in Seq(Octet)
  BY <1>1, <1>4, Joined
<1>7. data \o stream = x \o z
  <2> HIDE DEF x
  <2>1. (x \o r) \o stream = x \o (r \o stream)
    <3>1. x \in Seq(Octet) /\ r \in Seq(Octet) /\ stream \in Seq(Octet)
      BY <1>1, <1>4, <1>5
    <3> QED
      BY <3>1, JoinTwice
  <2> QED
    BY <1>4, <2>1 DEF x
<1>8. x = y /\ z = next
  <2> HIDE DEF x, y, z
  <2>1. x \o z = y \o next
    BY <1>1, <1>7 DEF y
  <2>2. Len(x) = Len(y)
    BY <1>5
  <2> QED
    BY <1>2, <1>5, <1>6, <2>1, <2>2, CutsAgree
<1>9. h = e
  <2>1. <<h>>[1] = <<e>>[1]
    BY <1>8
  <2> QED
    BY <2>1
<1> QED
  BY <1>1, <1>3, <1>4, <1>8, <1>9 DEF e, next, h, r

\* frameEnd() takes the end marker, and hands on the frame (parser.js:89-121).
LEMMA EndKeeps == ASSUME ParserInv, EndOfFrame PROVE ParserInv'
<1>1. /\ In("frameEnd") /\ UNCHANGED <<sent, stream, frameHeader, frame, frameBuffer>>
      /\ executing = TRUE /\ parse = "frameEnd" /\ Typed /\ HandedOn
      /\ sent \in Seq(Message) /\ stream \in Seq(Octet) /\ parsed \in 0 .. Len(sent)
  BY DEF EndOfFrame, In, bytes, ParserInv, Typed, Buffers, Switches
<1>2. /\ parsed < Len(sent) /\ Current \in Message
      /\ Head(data) = Marker(Current) /\ Received = Current.frame
      /\ (Current.flaw = "size" => failed)
      /\ Tail(data) \in Seq(Octet) /\ Tail(data) \o stream = Pending(sent, parsed + 1)
  BY <1>1, EndRead
<1>3. CASE Head(data) = FrameEnd
  <2>1. /\ parse' = "header" /\ executing' = TRUE /\ data' = Tail(data) /\ parsed' = parsed + 1
        /\ IF frame.type \in FrameTypes
           THEN handed' = Append(handed, Received) /\ UNCHANGED <<failed, attached>>
           ELSE OnError /\ UNCHANGED handed
    BY <1>3 DEF EndOfFrame, Call
  <2>2. /\ failed' \in BOOLEAN /\ attached' \in BOOLEAN /\ (~attached' => failed')
        /\ (failed => failed')
    BY <1>1, <2>1 DEF Typed, Switches, OnError
  <2>3. Typed'
    <3>1. Buffers'
      <4>1. frameHeader \in Seq(Octet) /\ Len(frameHeader) < HeaderSize
            /\ frameBuffer \in Seq(Octet) /\ frame.size \in Nat /\ Len(frameBuffer) <= frame.size
        BY <1>1 DEF Typed, Buffers
      <4>2. parsed' \in 0 .. Len(sent)
        BY <1>1, <1>2, <2>1
      <4> QED
        BY <1>1, <1>2, <2>1, <4>1, <4>2 DEF Buffers
    <3>2. parse' = "header" /\ executing' = TRUE
      BY <2>1
    <3>3. Switches'
      BY <2>2, <3>2 DEF Switches
    <3> QED
      BY <3>1, <3>3 DEF Typed
  <2>4. AtHeader'
    <3> DEFINE u == Tail(data) \o stream
    <3>1. frameHeader' = <<>> /\ u \in Seq(Octet) /\ Unread' = u
      BY <1>1, <1>2, <2>1, Joined DEF ParserInv, InsideFrame, Unread
    <3> HIDE DEF u
    <3>2. <<>> \o u = u
      BY <3>1
    <3>3. Pending(sent, parsed + 1) = Pending(sent, parsed)'
      BY <1>1, <2>1
    <3> QED
      BY <1>2, <3>1, <3>2, <3>3 DEF AtHeader, u
  <2>5. InsideFrame' /\ AtFrame' /\ AtEnd'
    BY <2>1 DEF InsideFrame, AtFrame, AtEnd
  <2>6. HandedOn'
    <3> SUFFICES ASSUME ~failed'
                 PROVE  /\ handed' = [i \in 1 .. parsed' |-> sent'[i].frame]
                        /\ \A i \in 1 .. parsed' : sent'[i].flaw = "none"
      BY DEF HandedOn
    <3>1. ~failed /\ frame.type \in FrameTypes /\ handed' = Append(handed, Current.frame)
      BY <1>2, <2>1, <2>2 DEF OnError
    <3>2. handed = [i \in 1 .. parsed |-> sent[i].frame] /\ \A i \in 1 .. parsed : sent[i].flaw = "none"
      BY <1>1, <3>1 DEF HandedOn
    <3>3. Current.flaw = "none"
      <4>1. frame.type = Current.frame.type
        BY <1>1 DEF ParserInv, InsideFrame
      <4>2. /\ Current.flaw \in {"none", "type", "size", "end"}
            /\ (Current.flaw = "type" <=> Current.frame.type \notin FrameTypes)
        BY <1>2, MessageType DEF Flaws
      <4>3. Current.flaw # "end"
        BY <1>2, <1>3, MarkerType
      <4> QED
        BY <1>2, <3>1, <4>1, <4>2, <4>3
    <3>4. Append(handed, Current.frame) = [i \in 1 .. parsed + 1 |-> sent[i].frame]
      <4> DEFINE g == [i \in 1 .. parsed |-> sent[i].frame]
                 k == [i \in 1 .. parsed + 1 |-> sent[i].frame]
                 M == [type : Octet, channel : {Channel}, payload : Seq(Octet)]
      <4>1. \A i \in 1 .. parsed + 1 : sent[i].frame \in M
        <5>1. \A i \in 1 .. parsed + 1 : sent[i] \in Message
          BY <1>1, <1>2
        <5> QED
          BY <5>1 DEF Message
      <4> HIDE DEF M
      <4>2. g \in Seq(M) /\ k \in Seq(M) /\ Len(g) = parsed /\ Len(k) = parsed + 1
            /\ Current.frame \in M
        BY <1>1, <4>1 DEF Current
      <4>3. Append(g, Current.frame) \in Seq(M) /\ Len(Append(g, Current.frame)) = parsed + 1
            /\ \A i \in 1 .. parsed + 1 : Append(g, Current.frame)[i] = k[i]
        BY <1>1, <4>2 DEF Current
      <4> HIDE DEF k, g
      <4>4. Append(g, Current.frame) = k
        BY <4>2, <4>3, SameSeq
      <4> QED
        BY <3>2, <4>4 DEF g, k
    <3> QED
      BY <1>1, <2>1, <3>1, <3>2, <3>3, <3>4 DEF Current
  <2> QED
    BY <2>3, <2>4, <2>5, <2>6 DEF ParserInv
<1>4. CASE Head(data) # FrameEnd
  <2>1. /\ parse' = "none" /\ executing' = FALSE /\ data' = <<>> /\ failed' = TRUE /\ attached' = FALSE
        /\ UNCHANGED <<parsed, handed>>
    BY <1>4 DEF EndOfFrame, Return, OnError
  <2>2. Typed'
    <3>1. Buffers'
      <4> DEFINE e == <<>>
      <4>1. e \in Seq(Octet) /\ data' = e
        BY <2>1
      <4> HIDE DEF e
      <4> QED
        BY <1>1, <2>1, <4>1 DEF Typed, Buffers
    <3>3. Switches'
      BY <2>1 DEF Switches
    <3> QED
      BY <3>1, <3>3 DEF Typed
  <2>3. AtHeader' /\ InsideFrame' /\ AtFrame' /\ AtEnd' /\ HandedOn'
    BY <2>1 DEF AtHeader, InsideFrame, AtFrame, AtEnd, HandedOn
  <2> QED
    BY <2>2, <2>3 DEF ParserInv
<1> QED
  BY <1>3, <1>4

\* The server sends some more frames.
Sending ==
  /\ \E frames \in Seq(Message) : Write(frames)
  /\ UNCHANGED <<data, parse, executing, frameHeader, frame, frameBuffer, parsed, callbacks>>

\* What the server writes comes after all that is pending.
LEMMA SendingKeeps == ASSUME ParserInv, Sending PROVE ParserInv'
<1>1. PICK frames \in Seq(Message) : Write(frames)
  BY DEF Sending
<1> DEFINE w == FlattenSeq([i \in 1 .. Len(frames) |-> Octets(frames[i])])
<1>2. /\ sent' = sent \o frames /\ stream' = stream \o w
      /\ UNCHANGED <<data, parse, executing, frameHeader, frame, frameBuffer, parsed, handed, failed,
                     attached>>
      /\ Typed /\ sent \in Seq(Message) /\ stream \in Seq(Octet) /\ data \in Seq(Octet)
      /\ parsed \in 0 .. Len(sent)
  BY <1>1 DEF Sending, Write, ParserInv, Typed, Buffers, callbacks
<1>3. w \in Seq(Octet)
  <2> DEFINE q == [i \in 1 .. Len(frames) |-> Octets(frames[i])]
  <2>1. \A i \in 1 .. Len(frames) : frames[i] \in Message
    OBVIOUS
  <2>2. \A i \in 1 .. Len(frames) : Octets(frames[i]) \in Seq(Octet)
    BY <2>1, OctetsOfFrame
  <2>3. q \in Seq(Seq(Octet))
    BY <2>2
  <2> QED
    BY <2>3, FlattenType
<1>4. \A k \in 0 .. Len(sent) : Pending(sent', k) = Pending(sent, k) \o w
  BY <1>2, PendingMore
<1>5. /\ sent' \in Seq(Message) /\ Len(sent') >= Len(sent)
      /\ \A i \in 1 .. Len(sent) : sent'[i] = sent[i]
  BY <1>2
<1> HIDE DEF w
<1>6. Unread' = Unread \o w /\ Unread \in Seq(Octet) /\ stream' \in Seq(Octet)
  <2>1. (data \o stream) \o w = data \o (stream \o w)
    BY <1>2, <1>3, JoinTwice
  <2>2. data \o stream \in Seq(Octet) /\ stream \o w \in Seq(Octet)
    BY <1>2, <1>3, Joined
  <2> QED
    BY <1>2, <2>1, <2>2 DEF Unread
<1>7. Live' = Live
  BY <1>2 DEF Live
<1>8. Typed'
  <2>1. Buffers'
    BY <1>2, <1>5, <1>6 DEF Typed, Buffers
  <2>2. Switches'
    BY <1>2 DEF Typed, Switches
  <2> QED
    BY <2>1, <2>2 DEF Typed
<1>9. AtHeader'
  <2> SUFFICES ASSUME parse = "header", Live
               PROVE  frameHeader \o Unread' = Pending(sent', parsed)
    BY <1>2, <1>7 DEF AtHeader
  <2>1. frameHeader \o Unread = Pending(sent, parsed)
    BY DEF ParserInv, AtHeader
  <2>2. frameHeader \in Seq(Octet)
    BY <1>2 DEF Typed, Buffers
  <2>3. (frameHeader \o Unread) \o w = frameHeader \o (Unread \o w)
    BY <1>3, <1>6, <2>2, JoinTwice
  <2> QED
    BY <1>2, <1>4, <1>6, <2>1, <2>3
<1>10. InsideFrame'
  BY <1>2, <1>5 DEF ParserInv, InsideFrame, Current
<1>11. parse \in {"frame", "frameEnd"} =>
         /\ parsed < Len(sent) /\ Current \in Message /\ Current' = Current
         /\ parsed + 1 \in 0 .. Len(sent)
  BY <1>2, <1>5 DEF ParserInv, InsideFrame, Current
<1>12. AtFrame'
  <2> SUFFICES ASSUME parse = "frame", Live
               PROVE  frameBuffer \o Unread'
                        = Current.frame.payload \o (<<Marker(Current)>> \o Pending(sent', parsed + 1))
    BY <1>2, <1>7, <1>11 DEF AtFrame
  <2> DEFINE p == Current.frame.payload
             m == <<Marker(Current)>>
             next == Pending(sent, parsed + 1)
             mn == m \o next
  <2>1. frameBuffer \o Unread = p \o mn
    BY DEF ParserInv, AtFrame
  <2>2. frameBuffer \in Seq(Octet)
    BY <1>2 DEF Typed, Buffers
  <2>3. p \in Seq(Octet) /\ m \in Seq(Octet) /\ next \in Seq(Octet)
    <3>1. Marker(Current) \in Octet
      BY <1>11, MarkerType
    <3> QED
      BY <1>2, <1>11, <3>1, MessageType, PendingType
  <2>4. Pending(sent', parsed + 1) = next \o w
    BY <1>4, <1>11
  <2> HIDE DEF p, m, next
  <2>5. mn \in Seq(Octet)
    BY <2>3, Joined
  <2>6. mn \o w = m \o (next \o w)
    BY <1>3, <2>3, JoinTwice
  <2> HIDE DEF mn
  <2>7. (frameBuffer \o Unread) \o w = frameBuffer \o (Unread \o w)
    BY <1>3, <1>6, <2>2, JoinTwice
  <2>8. (p \o mn) \o w = p \o (mn \o w)
    BY SMTT(20), <1>3, <2>3, <2>5, JoinTwice
  <2> QED
    BY <1>6, <2>1, <2>4, <2>6, <2>7, <2>8 DEF p, m
<1>13. AtEnd'
  <2> SUFFICES ASSUME parse = "frameEnd"
               PROVE  /\ frameBuffer = Current.frame.payload
                      /\ executing => data # <<>>
                      /\ Live => Unread' = <<Marker(Current)>> \o Pending(sent', parsed + 1)
    BY <1>2, <1>7, <1>11 DEF AtEnd
  <2> DEFINE m == <<Marker(Current)>>
             next == Pending(sent, parsed + 1)
  <2>1. /\ frameBuffer = Current.frame.payload
        /\ executing => data # <<>>
        /\ Live => Unread = m \o next
    BY DEF ParserInv, AtEnd
  <2>2. m \in Seq(Octet) /\ next \in Seq(Octet)
    <3>1. Marker(Current) \in Octet
      BY <1>11, MarkerType
    <3> QED
      BY <1>2, <1>11, <3>1, PendingType
  <2>3. Pending(sent', parsed + 1) = next \o w
    BY <1>4, <1>11
  <2> HIDE DEF m, next
  <2>4. (m \o next) \o w = m \o (next \o w)
    BY <1>3, <2>2, JoinTwice
  <2> QED
    BY <1>6, <2>1, <2>3, <2>4 DEF m
<1>14. HandedOn'
  <2> SUFFICES ASSUME ~failed
               PROVE  /\ handed = [i \in 1 .. parsed |-> sent'[i].frame]
                      /\ \A i \in 1 .. parsed : sent'[i].flaw = "none"
    BY <1>2 DEF HandedOn
  <2>1. /\ handed = [i \in 1 .. parsed |-> sent[i].frame]
        /\ \A i \in 1 .. parsed : sent[i].flaw = "none"
    BY DEF ParserInv, HandedOn
  <2>2. \A i \in 1 .. parsed : sent'[i] = sent[i]
    BY <1>2, <1>5
  <2> QED
    BY <2>1, <2>2
<1> QED
  BY <1>8, <1>9, <1>10, <1>12, <1>13, <1>14 DEF ParserInv

-----------------------------------------------------------------------------
(* The parser implements the reader of frames *)

\* Of a chunk that comes in, the reader of frames sees nothing.
LEMMA StreamData ==
  ASSUME ParserInv, NEW n \in Nat \ {0}, Data(n)
  PROVE  UNCHANGED Stream!vars
BY DEF Data, Stream!vars, callbacks

\* header() is a step of the reader of frames only when it fails.
LEMMA StreamHeader == ASSUME ParserInv, Header PROVE [Stream!Next]_(Stream!vars)
<1> DEFINE needed == HeaderSize - Len(frameHeader)
           octets == frameHeader \o Take(data, needed)
           size   == ParseInt(SubSeq(octets, 4, 7))
<1>1. /\ executing = TRUE /\ parse = "header" /\ In("header") /\ (~attached => failed)
      /\ attached \in BOOLEAN
      /\ sent' = sent /\ parsed' = parsed /\ handed' = handed
  BY DEF Header, In, ParserInv, Typed, Switches, bytes, callbacks
<1>2. CASE Len(data) < needed
  <2>1. executing' = FALSE /\ attached' = attached /\ failed' = failed
    BY <1>2 DEF Header, Return, callbacks
  <2>2. CASE attached
    BY <1>1, <2>1, <2>2 DEF Stream!vars
  <2>3. CASE ~attached
    <3>1. Stream!Stop
      BY <1>1, <2>1, <2>3 DEF Stream!Stop
    <3> QED
      BY <3>1 DEF Stream!Next
  <2> QED
    BY <2>2, <2>3
<1>3. CASE ~(Len(data) < needed)
  <2>1. executing' = TRUE /\ (IF size > MaxFrame THEN OnError ELSE UNCHANGED <<failed, attached>>)
    BY <1>3 DEF Header, Call
  <2>2. parsed < Len(sent) /\ Current \in Message /\ size = Len(Current.frame.payload)
    <3>1. Len(data) >= HeaderSize - Len(frameHeader)
      <4>1. Len(data) \in Nat /\ Len(frameHeader) \in Nat
        BY DEF ParserInv, Typed, Buffers
      <4> QED
        BY <1>3, <4>1 DEF HeaderSize
    <3> QED
      BY <1>1, <3>1, HeaderRead
  <2>3. CASE size > MaxFrame
    <3>1. Current.flaw = "size" /\ failed' = TRUE
      BY <2>1, <2>2, <2>3, MessageType DEF OnError
    <3>2. Stream!Fail
      BY <1>1, <2>1, <2>2, <3>1 DEF Stream!Fail, Stream!Upcoming, Current
    <3> QED
      BY <3>2 DEF Stream!Next
  <2>4. CASE ~(size > MaxFrame)
    BY <1>1, <2>1, <2>4 DEF Stream!vars
  <2> QED
    BY <2>3, <2>4
<1> QED
  BY <1>2, <1>3

\* Of the payload, the reader of frames sees nothing.
LEMMA StreamPayload == ASSUME ParserInv, Payload PROVE [Stream!Next]_(Stream!vars)
<1>1. /\ executing = TRUE /\ (~attached => failed) /\ attached \in BOOLEAN
      /\ sent' = sent /\ parsed' = parsed /\ handed' = handed /\ attached' = attached /\ failed' = failed
  BY DEF Payload, In, ParserInv, Typed, Switches, bytes, callbacks
<1>2. executing' = TRUE \/ executing' = FALSE
  <2> DEFINE needed == frame.size - Len(frameBuffer)
  <2> QED
    BY DEF Payload, Call, Return
<1>3. CASE executing' = TRUE \/ attached
  BY <1>1, <1>3 DEF Stream!vars
<1>4. CASE executing' = FALSE /\ ~attached
  <2>1. Stream!Stop
    BY <1>1, <1>4 DEF Stream!Stop
  <2> QED
    BY <2>1 DEF Stream!Next
<1> QED
  BY <1>2, <1>3, <1>4

\* frameEnd() passes the next frame, or fails at one with a flaw.
LEMMA StreamEnd == ASSUME ParserInv, EndOfFrame PROVE [Stream!Next]_(Stream!vars)
<1>1. In("frameEnd") /\ executing = TRUE /\ sent' = sent
  BY DEF EndOfFrame, In, bytes, ParserInv, Typed, Switches
<1>2. /\ parsed < Len(sent) /\ Current \in Message
      /\ Head(data) = Marker(Current) /\ Received = Current.frame
  BY <1>1, EndRead
<1>3. CASE Head(data) = FrameEnd
  <2>1. /\ executing' = TRUE /\ parsed' = parsed + 1
        /\ IF frame.type \in FrameTypes
           THEN handed' = Append(handed, Received) /\ UNCHANGED <<failed, attached>>
           ELSE OnError /\ UNCHANGED handed
    BY <1>3 DEF EndOfFrame, Call
  <2>2. frame.type = Current.frame.type /\ (Current.flaw = "type" <=> Current.frame.type \notin FrameTypes)
    <3>1. Received.type = frame.type
      BY DEF Received
    <3> QED
      BY <1>2, <3>1, MessageType
  <2>3. CASE frame.type \in FrameTypes
    <3>1. Stream!HandOn
      BY <1>1, <1>2, <2>1, <2>2, <2>3 DEF Stream!HandOn, Stream!Pass, Stream!Upcoming, Current
    <3> QED
      BY <3>1 DEF Stream!Next
  <2>4. CASE frame.type \notin FrameTypes
    <3>1. Stream!Refuse
      BY <1>1, <1>2, <2>1, <2>2, <2>4
         DEF Stream!Refuse, Stream!Pass, Stream!Upcoming, Current, OnError
    <3> QED
      BY <3>1 DEF Stream!Next
  <2> QED
    BY <2>3, <2>4
<1>4. CASE Head(data) # FrameEnd
  <2>1. /\ executing' = FALSE /\ failed' = TRUE /\ attached' = FALSE /\ UNCHANGED <<parsed, handed>>
    BY <1>4 DEF EndOfFrame, Return, OnError
  <2>2. Current.flaw # "none"
    BY <1>2, <1>4, MarkerType
  <2>3. Stream!Fail
    BY <1>1, <1>2, <2>1, <2>2 DEF Stream!Fail, Stream!Upcoming, Current
  <2> QED
    BY <2>3 DEF Stream!Next
<1> QED
  BY <1>3, <1>4

\* What the server writes is a step of the reader of frames.
LEMMA StreamSending == ASSUME ParserInv, Sending PROVE [Stream!Next]_(Stream!vars)
<1>1. PICK frames \in Seq(Message) : Write(frames)
  BY DEF Sending
<1>2. /\ sent' = sent \o frames /\ sent \in Seq(Message)
      /\ UNCHANGED <<executing, parsed, handed, failed, attached>>
  BY <1>1 DEF Sending, Write, callbacks, ParserInv, Typed, Buffers
<1>3. Stream!IsPrefix(sent, sent')
  <2> DEFINE u == sent'
  <2>1. u \in Seq(Message) /\ Len(sent) <= Len(u) /\ \A i \in 1 .. Len(sent) : u[i] = sent[i]
    BY <1>2
  <2> HIDE DEF u
  <2>2. SubSeq(sent, 1, Len(sent)) = SubSeq(u, 1, Len(sent))
    BY <1>2, <2>1
  <2> QED
    BY <2>1, <2>2 DEF Stream!IsPrefix, u
<1>4. Stream!Send
  BY <1>2, <1>3 DEF Stream!Send
<1> QED
  BY <1>4 DEF Stream!Next

-----------------------------------------------------------------------------
(* The header of a content *)

Names == {"contentType", "headers", "priority", "messageId", "timestamp"}

\* The properties of the class.
LEMMA BasicList ==
  /\ Len(BasicFields) = 5 /\ DOMAIN BasicFields = 1 .. 5
  /\ BasicFields[1].name = "contentType" /\ BasicFields[1].domain = "shortstr"
  /\ BasicFields[2].name = "headers" /\ BasicFields[2].domain = "table"
  /\ BasicFields[3].name = "priority" /\ BasicFields[3].domain = "octet"
  /\ BasicFields[4].name = "messageId" /\ BasicFields[4].domain = "shortstr"
  /\ BasicFields[5].name = "timestamp" /\ BasicFields[5].domain = "timestamp"
BY DEF BasicFields, F

\* The names of the properties.
LEMMA NamesList == {BasicFields[i].name : i \in DOMAIN BasicFields} = Names
<1>1. DOMAIN BasicFields = {1, 2, 3, 4, 5}
  BY BasicList
<1> DEFINE n(i) == BasicFields[i].name
<1>2. n(1) = "contentType" /\ n(2) = "headers" /\ n(3) = "priority" /\ n(4) = "messageId"
      /\ n(5) = "timestamp"
  BY BasicList
<1>3. {n(i) : i \in {1, 2, 3, 4, 5}} = {n(1), n(2), n(3), n(4), n(5)}
  <2> HIDE DEF n
  <2> QED
    OBVIOUS
<1> QED
  BY <1>1, <1>2, <1>3 DEF Names

\* Each property of q has a value of its domain.
Proper(q) ==
  /\ DOMAIN q \subseteq Names
  /\ \A i \in 1 .. 5 : BasicFields[i].name \in DOMAIN q =>
       q[BasicFields[i].name] \in Arguments(BasicFields[i].domain)

\* A content that publish() takes.
Taken(c) == c \in Contents /\ Matches(c.properties)

\* The parts of a content.
LEMMA ContentType ==
  ASSUME NEW c \in Contents
  PROVE  /\ c.routingKey \in Text /\ c.immediate \in BOOLEAN
         /\ c.body \in Seq(Octet) /\ Len(c.body) < Pow2[WordBits - 1]
         /\ Proper(c.properties)
         /\ (Matches(c.properties) => Len(SendHeader(Channel, Len(c.body), c.properties)) <= MaxFrame)
<1>1. /\ c.routingKey \in Text /\ c.immediate \in BOOLEAN
      /\ c.body \in Seq(Octet) /\ Len(c.body) < Pow2[WordBits - 1]
      /\ (Matches(c.properties) => Len(SendHeader(Channel, Len(c.body), c.properties)) <= MaxFrame)
  BY ContentAssumption
<1>2. DOMAIN c.properties \subseteq {BasicFields[i].name : i \in DOMAIN BasicFields}
  BY ContentAssumption
<1>3. \A i \in DOMAIN BasicFields : BasicFields[i].name \in DOMAIN c.properties =>
        c.properties[BasicFields[i].name] \in Arguments(BasicFields[i].domain)
  BY ContentAssumption
<1> QED
  BY <1>1, <1>2, <1>3, NamesList, BasicList DEF Proper

\* The default fits too.
LEMMA DefaultProper ==
  ASSUME NEW q, Proper(q)
  PROVE  /\ Proper(WithDefaults(q)) /\ "contentType" \in DOMAIN WithDefaults(q)
         /\ \A n \in DOMAIN q : n \in DOMAIN WithDefaults(q) /\ WithDefaults(q)[n] = q[n]
         /\ DOMAIN WithDefaults(q) = DOMAIN q \cup {"contentType"}
<1>1. CASE "contentType" \in DOMAIN q
  BY <1>1 DEF WithDefaults
<1>2. CASE "contentType" \notin DOMAIN q
  <2> DEFINE w == With("contentType", <<1>>, q)
  <2>1. WithDefaults(q) = w
    BY <1>2 DEF WithDefaults
  <2>2. DOMAIN w = {"contentType"} \cup DOMAIN q /\ w["contentType"] = <<1>>
        /\ \A n \in DOMAIN q : w[n] = q[n]
    BY <1>2 DEF With
  <2>3. <<1>> \in Seq(Octet)
    BY OctetType
  <2> HIDE DEF w
  <2>4. Proper(w)
    <3>1. DOMAIN w \subseteq Names
      BY <2>2 DEF Proper, Names
    <3>2. ASSUME NEW i \in 1 .. 5, BasicFields[i].name \in DOMAIN w
          PROVE  w[BasicFields[i].name] \in Arguments(BasicFields[i].domain)
      <4>1. CASE BasicFields[i].name = "contentType"
        <5>1. i = 1
          BY <4>1, BasicList
        <5>2. Arguments("shortstr") = Seq(Octet)
          BY DEF Arguments
        <5> QED
          BY <2>2, <2>3, <4>1, <5>1, <5>2, BasicList
      <4>2. CASE BasicFields[i].name # "contentType"
        BY <2>2, <3>2, <4>2 DEF Proper
      <4> QED
        BY <4>1, <4>2
    <3> QED
      BY <3>1, <3>2 DEF Proper
  <2> QED
    BY <2>1, <2>2, <2>4
<1> QED
  BY <1>1, <1>2

\* What is set of a property.
Sets(q, i) == BasicFields[i].name \in DOMAIN q
              /\ Truthy(BasicFields[i], q[BasicFields[i].name])

SetFlag(q, i) == IF Sets(q, i) THEN Flag(i) ELSE 0

Adds(f, q) == f[0] = 0 /\ \A i \in 1 .. 5 : f[i] = f[i - 1] + SetFlag(q, i)

\* The sums that make up the flags of a header.
LEMMA AddsExists ==
  ASSUME NEW q
  PROVE  \E f : Adds(f, q) /\ FlagsOf(q) = f[5]
<1> DEFINE Step(h, i) == IF i = 0 THEN 0 ELSE h[i - 1] + SetFlag(q, i)
           Is(h, n) == h = [i \in 0 .. n |-> Step(h, i)]
           Reached == {n \in Nat : \E f : Is(f, n)}
<1>1. 0 \in Reached
  <2> DEFINE z == [i \in 0 .. 0 |-> 0]
  <2>1. Is(z, 0)
    OBVIOUS
  <2> QED
    BY <2>1
<1>2. ASSUME NEW n \in Nat, n \in Reached PROVE n + 1 \in Reached
  <2>1. PICK f : Is(f, n)
    BY <1>2
  <2> DEFINE g == [i \in 0 .. n + 1 |-> IF i = n + 1 THEN Step(f, n + 1) ELSE f[i]]
  <2>2. ASSUME NEW i \in 0 .. n + 1 PROVE g[i] = Step(g, i)
    <3>1. CASE i = n + 1
      BY <3>1
    <3>2. CASE i \in 0 .. n
      <4>1. f[i] = Step(f, i)
        BY <2>1, <3>2
      <4>2. i # 0 => i - 1 \in 0 .. n
        BY <3>2
      <4> QED
        BY <3>2, <4>1, <4>2
    <3> QED
      BY <3>1, <3>2
  <2>3. Is(g, n + 1)
    BY <2>2
  <2> HIDE DEF g, Step
  <2> QED
    BY <2>3
<1>3. 5 \in Reached
  <2> HIDE DEF Reached
  <2> QED
    BY <1>1, <1>2, NatInSet
<1> DEFINE h == CHOOSE f : Is(f, 5)
<1>4. Is(h, 5)
  <2> HIDE DEF Is
  <2> QED
    BY <1>3
<1>5. FlagsOf(q) = h[5]
  <2>1. Len(BasicFields) = 5
    BY BasicList
  <2> QED
    BY <2>1, Zenon DEF FlagsOf, SetFlag, Sets
<1> HIDE DEF h
<1>6. Adds(h, q)
  BY <1>4 DEF Adds
<1> QED
  BY <1>5, <1>6

\* A flag is a positive number.
LEMMA FlagType == \A i \in 1 .. 5 : Flag(i) \in Nat \ {0}
<1>1. \A i \in 1 .. 5 : 2 * ByteBits - i \in Nat
  BY CodecAssumption
<1> QED
  BY <1>1, Pow2Type DEF Flag

\* The flags of a header are the sum of those that are set.
LEMMA FlagsSum ==
  ASSUME NEW q
  PROVE  /\ FlagsOf(q) = (((SetFlag(q, 1) + SetFlag(q, 2)) + SetFlag(q, 3)) + SetFlag(q, 4)) + SetFlag(q, 5)
         /\ FlagsOf(q) \in Nat
<1>1. PICK f : Adds(f, q) /\ FlagsOf(q) = f[5]
  BY AddsExists
<1>2. \A i \in 1 .. 5 : SetFlag(q, i) \in Nat
  BY FlagType DEF SetFlag
<1>3. f[0] = 0 /\ \A i \in 1 .. 5 : f[i] = f[i - 1] + SetFlag(q, i)
  BY <1>1 DEF Adds
<1>4. f[1] = f[1 - 1] + SetFlag(q, 1) /\ f[2] = f[2 - 1] + SetFlag(q, 2)
      /\ f[3] = f[3 - 1] + SetFlag(q, 3) /\ f[4] = f[4 - 1] + SetFlag(q, 4)
      /\ f[5] = f[5 - 1] + SetFlag(q, 5)
  BY <1>3
<1>5. SetFlag(q, 1) \in Nat /\ SetFlag(q, 2) \in Nat /\ SetFlag(q, 3) \in Nat /\ SetFlag(q, 4) \in Nat
      /\ SetFlag(q, 5) \in Nat
  BY <1>2
<1> QED
  BY <1>1, <1>3, <1>4, <1>5

\* A table is octets.
LEMMA TableType == ASSUME NEW table \in Table PROVE SerializeTable(table) \in Seq(Octet)
<1> DEFINE n == FlattenSeq(Entries(table))
<1>1. n \in Seq(Octet)
  <2>1. Entries(table) \in Seq(Seq(Octet))
    BY EntriesType
  <2> QED
    BY <2>1, FlattenType
<1>2. SerializeTable(table) = SerializeInt(4, Len(n)) \o n
  BY DEF SerializeTable, SerializeLongString, Entries, Entry
<1> HIDE DEF n
<1> QED
  BY <1>1, <1>2, TextType

\* What the header has of a property.
Piece(q, i) ==
  IF BasicFields[i].name \in DOMAIN q
  THEN SerializeField(BasicFields[i].domain, q[BasicFields[i].name]) ELSE <<>>

\* What is written of a property are octets.
LEMMA PieceType ==
  ASSUME NEW q, Proper(q), NEW i \in 1 .. 5
  PROVE  Piece(q, i) \in Seq(Octet)
<1> DEFINE d == BasicFields[i].domain
           v == q[BasicFields[i].name]
<1>1. CASE BasicFields[i].name \notin DOMAIN q
  <2>1. Piece(q, i) = <<>>
    BY <1>1 DEF Piece
  <2> QED
    BY <2>1
<1>2. CASE BasicFields[i].name \in DOMAIN q
  <2>1. d \in {"shortstr", "table", "octet", "timestamp"}
    <3>1. i = 1 \/ i = 2 \/ i = 3 \/ i = 4 \/ i = 5
      OBVIOUS
    <3> QED
      BY <3>1, BasicList
  <2>2. v \in Arguments(d)
    BY <1>2 DEF Proper
  <2>3. Piece(q, i) = SerializeField(d, v)
    BY <1>2 DEF Piece
  <2> HIDE DEF d, v
  <2>4. CASE d = "shortstr"
    <3>1. v \in Seq(Octet)
      BY <2>2, <2>4 DEF Arguments
    <3>2. SerializeField(d, v) = SerializeInt(1, Len(v)) \o v
      BY <2>4 DEF SerializeField, SerializeShortString
    <3> QED
      BY <2>3, <3>1, <3>2, TextType
  <2>5. CASE d = "table"
    <3>1. v \in Table /\ SerializeField(d, v) = SerializeTable(v)
      BY <2>2, <2>5 DEF Arguments, SerializeField
    <3> QED
      BY <2>3, <3>1, TableType
  <2>6. CASE d = "octet"
    <3>1. v \in Nat /\ SerializeField(d, v) = SerializeInt(1, v)
      BY <2>2, <2>6 DEF Arguments, SerializeField
    <3> QED
      BY <2>3, <3>1, SerializeIntType
  <2>7. CASE d = "timestamp"
    <3>1. v \in Nat /\ SerializeField(d, v) = SerializeInt(8, v)
      BY <2>2, <2>7 DEF Arguments, SerializeField
    <3> QED
      BY <2>3, <3>1, SerializeIntType
  <2> QED
    BY <2>1, <2>4, <2>5, <2>6, <2>7
<1> QED
  BY <1>1, <1>2

\* The properties are written one after another.
LEMMA WritePiece ==
  ASSUME NEW q, Proper(q), NEW i \in 1 .. 5, NEW b \in Seq(Octet)
  PROVE  WriteStep(BasicFields, q, Writing(b, 0, 0), i) = Writing(b \o Piece(q, i), 0, 0)
<1>1. CASE BasicFields[i].name \notin DOMAIN q
  <2>1. Piece(q, i) = <<>>
    BY <1>1 DEF Piece
  <2>2. WriteStep(BasicFields, q, Writing(b, 0, 0), i) = Writing(b, 0, 0)
    <3> DEFINE acc == Writing(b, 0, 0)
    <3> HIDE DEF acc
    <3>1. WriteStep(BasicFields, q, acc, i) = acc
      BY <1>1 DEF WriteStep
    <3> QED
      BY <3>1 DEF acc
  <2>3. b \o <<>> = b
    OBVIOUS
  <2> QED
    BY <2>1, <2>2, <2>3
<1>2. CASE BasicFields[i].name \in DOMAIN q
  <2>1. BasicFields[i].domain # "bit"
    <3>1. i = 1 \/ i = 2 \/ i = 3 \/ i = 4 \/ i = 5
      OBVIOUS
    <3> QED
      BY <3>1, BasicList
  <2>2. Piece(q, i) = SerializeField(BasicFields[i].domain, q[BasicFields[i].name])
    BY <1>2 DEF Piece
  <2>3. WriteStep(BasicFields, q, Writing(b, 0, 0), i)
          = Writing(b \o SerializeField(BasicFields[i].domain, q[BasicFields[i].name]), 0, 0)
    BY <1>2, <2>1, WriteOne
  <2> QED
    BY <2>2, <2>3
<1> QED
  BY <1>1, <1>2

\* The properties of a header, one after the other.
LEMMA HeaderWritten ==
  ASSUME NEW q, Proper(q)
  PROVE  /\ SerializeFields(BasicFields, q)
              = (((Piece(q, 1) \o Piece(q, 2)) \o Piece(q, 3)) \o Piece(q, 4)) \o Piece(q, 5)
         /\ SerializeFields(BasicFields, q) \in Seq(Octet)
<1> DEFINE fs == BasicFields
           p1 == Piece(q, 1)
           p2 == Piece(q, 2)
           p3 == Piece(q, 3)
           p4 == Piece(q, 4)
           p5 == Piece(q, 5)
           b2 == p1 \o p2
           b3 == b2 \o p3
           b4 == b3 \o p4
           b5 == b4 \o p5
<1>1. PICK w : Writes(w, fs, q) /\ SerializeFields(fs, q) = w[5].bytes
  <2>1. Len(fs) = 5 /\ Len(fs) \in Nat
    BY BasicList
  <2> HIDE DEF fs
  <2> QED
    BY <2>1, WritesExists
<1>2. /\ w[0] = Writing(<<>>, 0, 0) /\ w[1] = WriteStep(fs, q, w[0], 1)
      /\ w[2] = WriteStep(fs, q, w[1], 2) /\ w[3] = WriteStep(fs, q, w[2], 3)
      /\ w[4] = WriteStep(fs, q, w[3], 4) /\ w[5] = WriteStep(fs, q, w[4], 5)
  <2>1. w[0] = WriteStart /\ \A i \in 1 .. 5 : w[i] = WriteStep(fs, q, w[i - 1], i)
    BY <1>1, BasicList DEF Writes
  <2>2. w[1] = WriteStep(fs, q, w[1 - 1], 1) /\ w[2] = WriteStep(fs, q, w[2 - 1], 2)
        /\ w[3] = WriteStep(fs, q, w[3 - 1], 3) /\ w[4] = WriteStep(fs, q, w[4 - 1], 4)
        /\ w[5] = WriteStep(fs, q, w[5 - 1], 5)
    BY <2>1
  <2> QED
    BY <2>1, <2>2, Starts
<1>3. p1 \in Seq(Octet) /\ p2 \in Seq(Octet) /\ p3 \in Seq(Octet) /\ p4 \in Seq(Octet) /\ p5 \in Seq(Octet)
  BY PieceType
<1>4. w[1] = Writing(p1, 0, 0)
  <2> DEFINE z == <<>>
  <2>1. z \in Seq(Octet) /\ z \o p1 = p1 /\ w[0] = Writing(z, 0, 0)
    BY <1>2, <1>3
  <2> HIDE DEF z
  <2>2. w[1] = Writing(z \o Piece(q, 1), 0, 0)
    BY <1>2, <2>1, WritePiece
  <2> QED
    BY <2>1, <2>2
<1>5. w[2] = Writing(b2, 0, 0)
  BY <1>2, <1>3, <1>4, WritePiece
<1>6. b2 \in Seq(Octet)
  <2> HIDE DEF p1, p2
  <2> QED
    BY <1>3, Joined
<1> HIDE DEF b2
<1>7. w[3] = Writing(b3, 0, 0)
  BY <1>2, <1>6, <1>5, WritePiece
<1>8. b3 \in Seq(Octet)
  <2> HIDE DEF p3
  <2> QED
    BY <1>3, <1>6, Joined
<1> HIDE DEF b3
<1>9. w[4] = Writing(b4, 0, 0)
  BY <1>2, <1>7, <1>8, WritePiece
<1>10. b4 \in Seq(Octet)
  <2> HIDE DEF p4
  <2> QED
    BY <1>3, <1>8, Joined
<1> HIDE DEF b4
<1>11. w[5] = Writing(b5, 0, 0)
  BY <1>2, <1>9, <1>10, WritePiece
<1>12. b5 \in Seq(Octet)
  <2> HIDE DEF p5
  <2> QED
    BY <1>3, <1>10, Joined
<1>13. w[5].bytes = b5
  BY <1>11 DEF Writing
<1> QED
  BY <1>1, <1>12, <1>13 DEF b2, b3, b4

\* The class, the weight, the size of the body, the flags: and then the properties.
LEMMA HeaderParts ==
  ASSUME NEW q, Proper(q), NEW size \in Nat
  PROVE  /\ HeaderPayload(size, q)
              = (SerializeInt(2, 60) \o SerializeInt(2, 0))
                  \o (SerializeInt(8, size)
                       \o (SerializeInt(2, FlagsOf(q)) \o SerializeFields(BasicFields, q)))
         /\ HeaderPayload(size, q) \in Seq(Octet)
         /\ SerializeInt(2, 60) \o SerializeInt(2, 0) \in Seq(Octet)
         /\ Len(SerializeInt(2, 60) \o SerializeInt(2, 0)) = 4
         /\ SerializeInt(8, size) \in Seq(Octet) /\ Len(SerializeInt(8, size)) = 8
         /\ SerializeInt(2, FlagsOf(q)) \in Seq(Octet) /\ Len(SerializeInt(2, FlagsOf(q))) = 2
         /\ SerializeFields(BasicFields, q) \in Seq(Octet)
<1> DEFINE a == SerializeInt(2, 60)
           b == SerializeInt(2, 0)
           s == SerializeInt(8, size)
           g == SerializeInt(2, FlagsOf(q))
           p == SerializeFields(BasicFields, q)
           ab == a \o b
           abs == ab \o s
           absg == abs \o g
           gp == g \o p
           sgp == s \o gp
<1>1. a \in Seq(Octet) /\ Len(a) = 2 /\ b \in Seq(Octet) /\ Len(b) = 2
  BY SerializeIntType
<1>2. s \in Seq(Octet) /\ Len(s) = 8
  BY SerializeIntType
<1>3. g \in Seq(Octet) /\ Len(g) = 2
  BY FlagsSum, SerializeIntType
<1>4. p \in Seq(Octet)
  BY HeaderWritten
<1>5. HeaderPayload(size, q) = absg \o p
  BY DEF HeaderPayload
<1> HIDE DEF a, b, s, g, p
<1>6. ab \in Seq(Octet) /\ Len(ab) = Len(a) + Len(b)
  BY <1>1, Joined
<1> HIDE DEF ab
<1>7. abs \in Seq(Octet) /\ gp \in Seq(Octet)
  BY <1>2, <1>3, <1>4, <1>6, Joined
<1>8. absg \o p = abs \o gp
  <2> HIDE DEF abs
  <2> QED
    BY <1>3, <1>4, <1>7, JoinTwice
<1> HIDE DEF gp
<1>9. abs \o gp = ab \o sgp
  BY <1>2, <1>6, <1>7, JoinTwice
<1>10. abs \o gp \in Seq(Octet)
  <2> HIDE DEF abs
  <2> QED
    BY <1>7, Joined
<1>11. Len(ab) = 4
  BY <1>1, <1>6
<1> QED
  BY <1>2, <1>3, <1>4, <1>5, <1>6, <1>8, <1>9, <1>10, <1>11 DEF a, b, s, g, p, ab, gp

\* The size of the body is read back.
LEMMA SizeBack ==
  ASSUME NEW reader, NEW q, Proper(q), NEW size \in Nat, size < Pow2[WordBits - 1]
  PROVE  ReadSize(reader, HeaderPayload(size, q)) = size
<1> DEFINE ab == SerializeInt(2, 60) \o SerializeInt(2, 0)
           s == SerializeInt(8, size)
           gp == SerializeInt(2, FlagsOf(q)) \o SerializeFields(BasicFields, q)
           sgp == s \o gp
<1>1. /\ HeaderPayload(size, q) = ab \o sgp
      /\ ab \in Seq(Octet) /\ Len(ab) = 4 /\ s \in Seq(Octet) /\ Len(s) = 8 /\ gp \in Seq(Octet)
  <2>1. SerializeInt(2, FlagsOf(q)) \in Seq(Octet) /\ SerializeFields(BasicFields, q) \in Seq(Octet)
    BY HeaderParts
  <2>2. gp \in Seq(Octet)
    BY <2>1, Joined
  <2> QED
    BY <2>2, HeaderParts
<1>2. Number(reader, s) = size
  <2>1. size < Limit(reader)
    BY Sizes, WordType
  <2>2. size < Room(8)
    BY <2>1, FitsLong
  <2> QED
    BY <2>1, <2>2, Exact
<1> HIDE DEF ab, s, gp
<1>3. sgp \in Seq(Octet)
  BY <1>1, Joined
<1>4. Take(sgp, 8) = s
  BY <1>1, CutAt
<1> HIDE DEF sgp
<1>5. Drop(ab \o sgp, 4) = sgp
  BY <1>1, <1>3, CutAt
<1> QED
  BY <1>1, <1>2, <1>4, <1>5 DEF ReadSize

-----------------------------------------------------------------------------
(* The frames of a content *)

\* The elements of two sequences of octets.
LEMMA JoinedParts ==
  ASSUME NEW a \in Seq(Octet), NEW b \in Seq(Octet)
  PROVE  /\ \A i \in 1 .. Len(a) : (a \o b)[i] = a[i]
         /\ \A i \in 1 .. Len(b) : (a \o b)[Len(a) + i] = b[i]
BY Parts

\* A frame of the wire: its type is its first octet, its payload comes after the header.
LEMMA FrameShape ==
  ASSUME NEW type \in Octet, NEW p \in Seq(Octet)
  PROVE  /\ Frame(type, Channel, p) \in Seq(Octet)
         /\ Frame(type, Channel, p)[1] = type
         /\ Len(Frame(type, Channel, p)) = 8 + Len(p)
         /\ SubSeq(Frame(type, Channel, p), 8, Len(Frame(type, Channel, p)) - 1) = p
<1> DEFINE o == <<type>>
           c == SerializeInt(2, Channel)
           s == SerializeInt(4, Len(p))
           e == <<FrameEnd>>
           x == o \o c
           y == x \o s
           z == y \o p
           f == z \o e
<1>1. o \in Seq(Octet) /\ Len(o) = 1 /\ o[1] = type
  OBVIOUS
<1>2. c \in Seq(Octet) /\ Len(c) = 2
  BY ChannelType, SerializeIntType
<1>3. s \in Seq(Octet) /\ Len(s) = 4
  <2>1. Len(p) \in Nat
    OBVIOUS
  <2> QED
    BY <2>1, SerializeIntType
<1>4. e \in Seq(Octet) /\ Len(e) = 1
  BY CodecAssumption
<1>5. f = Frame(type, Channel, p)
  BY DEF Frame
<1>0. p \in Seq(Octet) /\ Len(p) \in Nat
  OBVIOUS
<1> HIDE DEF o, c, s, e
<1>6. x \in Seq(Octet) /\ Len(x) = 3 /\ x[1] = type
  <2>1. Len(o \o c) = Len(o) + Len(c) /\ x \in Seq(Octet)
    BY <1>1, <1>2, Joined
  <2>2. 1 \in 1 .. Len(o)
    BY <1>1
  <2>3. x[1] = o[1]
    <3>1. o \in Seq(Octet) /\ c \in Seq(Octet)
      BY <1>1, <1>2
    <3> QED
      BY <2>2, <3>1, JoinedParts
  <2> QED
    BY <1>1, <1>2, <2>1, <2>3
<1> HIDE DEF x
<1>7. y \in Seq(Octet) /\ Len(y) = 7 /\ y[1] = type
  <2>1. Len(x \o s) = Len(x) + Len(s) /\ y \in Seq(Octet)
    BY <1>3, <1>6, Joined
  <2>2. 1 \in 1 .. Len(x)
    BY <1>6
  <2>3. y[1] = x[1]
    <3>1. x \in Seq(Octet) /\ s \in Seq(Octet)
      BY <1>3, <1>6
    <3> QED
      BY <2>2, <3>1, JoinedParts
  <2> QED
    BY <1>3, <1>6, <2>1, <2>3
<1> HIDE DEF y
<1>8. z \in Seq(Octet) /\ Len(z) = 7 + Len(p) /\ z[1] = type
  <2>1. Len(y \o p) = Len(y) + Len(p) /\ z \in Seq(Octet)
    BY <1>0, <1>7, Joined
  <2>2. 1 \in 1 .. Len(y)
    BY <1>7
  <2>3. z[1] = y[1]
    <3>1. y \in Seq(Octet) /\ p \in Seq(Octet)
      BY <1>0, <1>7
    <3> QED
      BY <2>2, <3>1, JoinedParts
  <2> QED
    BY <1>7, <2>1, <2>3
<1>9. SubSeq(f, 8, 7 + Len(p)) = p
  <2>1. SubSeq((y \o p) \o e, Len(y) + 1, Len(y) + Len(p)) = p
    BY <1>0, <1>4, <1>7, Middle
  <2>2. Len(y) + 1 = 8 /\ Len(y) + Len(p) = 7 + Len(p)
    BY <1>0, <1>7
  <2> QED
    BY <2>1, <2>2
<1> HIDE DEF z
<1>10. f \in Seq(Octet) /\ Len(f) = 8 + Len(p) /\ f[1] = type
  <2>1. Len(z \o e) = Len(z) + Len(e) /\ f \in Seq(Octet)
    BY <1>4, <1>8, Joined
  <2>2. 1 \in 1 .. Len(z)
    BY <1>0, <1>8
  <2>3. f[1] = z[1]
    <3>1. z \in Seq(Octet) /\ e \in Seq(Octet)
      BY <1>4, <1>8
    <3> QED
      BY <2>2, <3>1, JoinedParts
  <2> QED
    BY <1>0, <1>4, <1>8, <2>1, <2>3
<1> HIDE DEF f
<1> QED
  <2>1. Len(f) - 1 = 7 + Len(p)
    BY <1>0, <1>10
  <2> QED
    BY <1>5, <1>9, <1>10, <2>1

\* What a body frame holds at the most.
Largest == MaxFrame - 8

\* What publish() writes of a content, and what the server makes of it.
MethodOf(c)    == MethodPayload(60, 40, PublishFields, PublishArgs(c))
HeaderOf(c)    == HeaderPayload(Len(c.body), WithDefaults(c.properties))
HeaderFrame(c) == SendHeader(Channel, Len(c.body), c.properties)
Whole(c)       == [method |-> MethodOf(c), header |-> HeaderOf(c), body |-> c.body]

Count(c) == (Len(c.body) + Largest - 1) \div Largest

PartOf(c, i) == Take(Drop(c.body, (i - 1) * Largest), Largest)

\* The frames of its body after the first j.
PartsFrom(c, j) == [i \in 1 .. Count(c) - j |-> Frame(BODY, Channel, PartOf(c, j + i))]

FramesOf(c) == <<SendMethod(c), HeaderFrame(c)>> \o SendBody(Channel, c.body, MaxFrame)

Bytes == Seq(Octet)

\* The largest part of a body, and what else fits into a frame.
LEMMA LargestType ==
  /\ Largest \in Nat \ {0} /\ MaxFrame \in Nat /\ MaxFrame < Limit("client")
  /\ MaxFrame + 1 < Limit("client") /\ Base + 16 <= MaxFrame
<1>1. Limit("client") = Pow2[WordBits - 1]
  BY DEF Limit
<1>2. Pow2[WordBits - 1] \in Nat
  BY WordType
<1> QED
  BY <1>1, <1>2, ParserAssumption, ContentAssumption DEF Largest

\* The types of frames are octets.
LEMMA TypesOfFrames == METHOD \in Octet /\ HEADER \in Octet /\ BODY \in Octet
BY OctetType DEF METHOD, HEADER, BODY

\* How many pieces a number is cut into.
LEMMA Pieces ==
  ASSUME NEW n \in Nat, NEW m \in Nat \ {0}, NEW k \in Nat
  PROVE  /\ (n + m - 1) \div m \in Nat
         /\ (k < (n + m - 1) \div m => k * m < n)
         /\ (k >= (n + m - 1) \div m => k * m >= n)
<1> DEFINE a == n + m - 1
           q == a \div m
           r == a % m
           km == k * m
           mq == m * q
<1>1. a \in Nat
  OBVIOUS
<1>2. a = mq + r /\ r \in 0 .. m - 1 /\ q \in Nat
  BY <1>1, Divide
<1>3. km \in Nat /\ mq \in Nat
  <2> HIDE DEF q
  <2> QED
    BY <1>2
<1>4. k < q => km + m <= mq
  <2> HIDE DEF q
  <2> SUFFICES ASSUME k < q PROVE km + m <= mq
    OBVIOUS
  <2>1. q - (k + 1) \in Nat
    BY <1>2
  <2>2. m * (q - (k + 1)) >= 0
    BY <2>1
  <2>3. m * (q - (k + 1)) = mq - (km + m)
    BY <1>2
  <2> QED
    BY <1>3, <2>2, <2>3
<1>5. k >= q => km >= mq
  <2> HIDE DEF q
  <2> SUFFICES ASSUME k >= q PROVE km >= mq
    OBVIOUS
  <2>1. k - q \in Nat
    BY <1>2
  <2>2. m * (k - q) >= 0
    BY <2>1
  <2>3. m * (k - q) = km - mq
    BY <1>2
  <2> QED
    BY <1>3, <2>2, <2>3
<1>6. q \in Nat /\ r \in 0 .. m - 1 /\ n + m - 1 = mq + r
  BY <1>2
<1> HIDE DEF q, r, km, mq
<1>7. (k < q => km < n) /\ (k >= q => km >= n)
  BY <1>3, <1>4, <1>5, <1>6
<1> QED
  BY <1>6, <1>7 DEF q, km

\* A sequence is cut in two places.
LEMMA TakeMore ==
  ASSUME NEW b \in Seq(Octet), NEW p \in Nat, NEW m \in Nat
  PROVE  Take(b, p) \o Take(Drop(b, p), m) = Take(b, p + m)
<1> DEFINE d == Drop(b, p)
           u == Take(b, p)
           v == Take(d, m)
           w == Take(b, p + m)
           x == u \o v
<1>0. Len(b) \in Nat /\ p + m \in Nat
  OBVIOUS
<1>1. /\ d \in Seq(Octet) /\ Len(d) = IF p <= Len(b) THEN Len(b) - p ELSE 0
      /\ \A i \in 1 .. Len(b) - p : d[i] = b[p + i]
  BY DropType
<1>2. /\ u \in Seq(Octet) /\ Len(u) = (IF p <= Len(b) THEN p ELSE Len(b))
      /\ \A i \in 1 .. p : i <= Len(b) => u[i] = b[i]
  BY TakeType
<1>3. /\ w \in Seq(Octet) /\ Len(w) = (IF p + m <= Len(b) THEN p + m ELSE Len(b))
      /\ \A i \in 1 .. p + m : i <= Len(b) => w[i] = b[i]
  BY <1>0, TakeType
<1> HIDE DEF d
<1>4. /\ v \in Seq(Octet) /\ Len(v) = (IF m <= Len(d) THEN m ELSE Len(d))
      /\ \A i \in 1 .. m : i <= Len(d) => v[i] = d[i]
  BY <1>1, TakeType
<1> HIDE DEF u, v, w
<1>5. /\ x \in Seq(Octet) /\ Len(x) = Len(u) + Len(v)
      /\ \A i \in 1 .. Len(u) : x[i] = u[i]
      /\ \A i \in 1 .. Len(v) : x[Len(u) + i] = v[i]
  <2>1. u \in Seq(Octet) /\ v \in Seq(Octet)
    BY <1>2, <1>4
  <2> QED
    BY <2>1, Joined, JoinedParts
<1> HIDE DEF x
<1>6. Len(x) = Len(w)
  <2>1. /\ Len(x) = Len(u) + Len(v) /\ Len(v) = (IF m <= Len(d) THEN m ELSE Len(d))
        /\ Len(d) = IF p <= Len(b) THEN Len(b) - p ELSE 0
    BY <1>1, <1>4, <1>5
  <2>2. /\ Len(u) = (IF p <= Len(b) THEN p ELSE Len(b))
        /\ Len(w) = (IF p + m <= Len(b) THEN p + m ELSE Len(b))
    BY <1>2, <1>3
  <2> DEFINE lb == Len(b)
             ld == Len(d)
             lu == Len(u)
             lv == Len(v)
             lw == Len(w)
             lx == Len(x)
  <2> HIDE DEF lb, ld, lu, lv, lw, lx
  <2>3. /\ lx = lu + lv /\ lv = (IF m <= ld THEN m ELSE ld) /\ ld = (IF p <= lb THEN lb - p ELSE 0)
        /\ lu = (IF p <= lb THEN p ELSE lb) /\ lw = (IF p + m <= lb THEN p + m ELSE lb) /\ lb \in Nat
    BY <1>0, <2>1, <2>2 DEF lb, ld, lu, lv, lw, lx
  <2>4. lx = lw
    BY <2>3
  <2> QED
    BY <2>4 DEF lw, lx
<1>7. \A i \in 1 .. Len(x) : x[i] = w[i]
  <2> TAKE i \in 1 .. Len(x)
  <2>1. i <= Len(b) /\ i \in 1 .. p + m /\ w[i] = b[i]
    BY <1>0, <1>3, <1>6
  <2>2. CASE i <= Len(u)
    <3>1. i \in 1 .. Len(u) /\ i \in 1 .. p
      BY <1>0, <1>2, <2>2
    <3> QED
      BY <1>2, <1>5, <2>1, <3>1
  <2>3. CASE i > Len(u)
    <3>1. Len(u) = p /\ i - p \in 1 .. Len(v) /\ i - p \in 1 .. Len(b) - p /\ i - p \in 1 .. m
          /\ i - p <= Len(d) /\ p + (i - p) = i
      BY <1>0, <1>1, <1>2, <1>4, <1>5, <2>1, <2>3
    <3>2. x[Len(u) + (i - p)] = v[i - p] /\ v[i - p] = d[i - p] /\ d[i - p] = b[p + (i - p)]
      BY <1>1, <1>4, <1>5, <3>1
    <3> QED
      BY <2>1, <3>1, <3>2
  <2> QED
    BY <1>2, <2>2, <2>3
<1>8. x = w
  BY <1>3, <1>5, <1>6, <1>7, SameSeq
<1> QED
  BY <1>8 DEF x, u, v, w, d

\* A frame of a type with a payload.
Carries(f, type, payload) ==
  f \in Bytes /\ f[1] = type /\ SubSeq(f, 8, Len(f) - 1) = payload

\* A frame carries its type and its payload.
LEMMA FrameCarries ==
  ASSUME NEW type \in Octet, NEW p \in Seq(Octet)
  PROVE  Carries(Frame(type, Channel, p), type, p)
BY FrameShape DEF Carries, Bytes

\* The arguments of basic.publish.
LEMMA PublishArgsOf == ASSUME NEW c PROVE PublishArgs(c) = Publishing(c.routingKey, c.immediate)
BY DEF PublishArgs, Publishing

\* What is read of a method that was written.
LEMMA MethodBack ==
  ASSUME NEW a \in Seq(Octet), Len(a) = 2, NEW b \in Seq(Octet), Len(b) = 2, NEW s \in Seq(Octet)
  PROVE  (a \o b) \o s \in Seq(Octet) /\ Drop((a \o b) \o s, 4) = s
         /\ Len((a \o b) \o s) = 4 + Len(s)
<1> DEFINE ab == a \o b
<1>1. ab \in Seq(Octet) /\ Len(ab) = 4
  <2>1. ab \in Seq(Octet) /\ Len(ab) = Len(a) + Len(b)
    BY Joined
  <2> QED
    BY <2>1
<1> HIDE DEF ab
<1>2. ab \o s \in Seq(Octet) /\ Len(ab \o s) = 4 + Len(s)
  BY <1>1, Joined
<1>3. Drop(ab \o s, 4) = s
  BY <1>1, CutAt
<1> QED
  BY <1>2, <1>3 DEF ab

\* Two numbers of a class and a method.
LEMMA Codes ==
  ASSUME NEW n \in {0, 40, 60}
  PROVE  SerializeInt(2, n) \in Seq(Octet) /\ Len(SerializeInt(2, n)) = 2
<1>1. n \in Nat
  OBVIOUS
<1> QED
  BY <1>1, SerializeIntType

\* The method of a content is read as it was given (exchange.js:247-255).
LEMMA MethodType ==
  ASSUME NEW c \in Contents
  PROVE  /\ MethodOf(c) \in Seq(Octet)
         /\ \A reader : ReadMethod(reader, PublishFields, MethodOf(c)) = PublishArgs(c)
<1> DEFINE a == SerializeInt(2, 60)
           b == SerializeInt(2, 40)
           args == Publishing(c.routingKey, c.immediate)
           s == SerializeFields(PublishFields, args)
<1>1. a \in Seq(Octet) /\ Len(a) = 2 /\ b \in Seq(Octet) /\ Len(b) = 2
  BY Codes
<1>2. c.routingKey \in Text /\ c.immediate \in BOOLEAN /\ <<>> \in Seq(Octet)
  BY ContentType
<1> DEFINE e == <<>>
<1> HIDE DEF e
<1>3. e \in Seq(Octet)
  BY DEF e
<1>4. /\ s \in Seq(Octet)
      /\ \A reader : ReadFields(reader, PublishFields, s \o e) = Parsing(args, e, 0)
  <2> DEFINE key == c.routingKey
             flag == c.immediate
  <2>1. key \in Text /\ flag \in BOOLEAN
    BY <1>2
  <2> HIDE DEF key, flag
  <2>2. /\ SerializeFields(PublishFields, Publishing(key, flag)) \in Seq(Octet)
        /\ \A reader : ReadFields(reader, PublishFields,
                                  SerializeFields(PublishFields, Publishing(key, flag)) \o e)
                         = Parsing(Publishing(key, flag), e, 0)
    BY <1>3, <2>1, PublishBack
  <2> QED
    BY <2>2 DEF key, flag
<1>5. MethodOf(c) = (a \o b) \o s
  BY PublishArgsOf DEF MethodOf, MethodPayload
<1> HIDE DEF a, b, s
<1>6. s \o e = s
  BY <1>4 DEF e
<1>7. MethodOf(c) \in Seq(Octet) /\ Drop(MethodOf(c), 4) = s
  BY <1>1, <1>4, <1>5, MethodBack
<1>8. \A reader : ReadMethod(reader, PublishFields, MethodOf(c)) = Parsing(args, e, 0).args
  BY <1>4, <1>6, <1>7 DEF ReadMethod
<1>9. Parsing(args, e, 0).args = PublishArgs(c)
  <2>1. Parsing(args, e, 0).args = args
    BY DEF Parsing
  <2> QED
    BY <2>1, PublishArgsOf
<1> QED
  BY <1>7, <1>8, <1>9

\* The header of a content fits into a frame, and tells the size of the body.
LEMMA HeaderType ==
  ASSUME NEW c, Taken(c)
  PROVE  /\ HeaderOf(c) \in Seq(Octet) /\ Len(HeaderOf(c)) + 8 <= MaxFrame
         /\ \A reader : ReadSize(reader, HeaderOf(c)) = Len(c.body)
         /\ HeaderFrame(c) = Frame(HEADER, Channel, HeaderOf(c))
         /\ Len(c.body) \in Nat /\ c.body \in Seq(Octet)
<1> DEFINE q == WithDefaults(c.properties)
           n == Len(c.body)
<1>1. /\ c.body \in Seq(Octet) /\ n \in Nat /\ n < Pow2[WordBits - 1] /\ Proper(c.properties)
      /\ Len(SendHeader(Channel, n, c.properties)) <= MaxFrame
  BY ContentType DEF Taken
<1>2. Proper(q)
  BY <1>1, DefaultProper
<1>3. HeaderFrame(c) = Frame(HEADER, Channel, HeaderOf(c))
  BY DEF HeaderFrame, SendHeader, HeaderOf
<1>4. SendHeader(Channel, n, c.properties) = HeaderFrame(c)
  BY DEF HeaderFrame
<1>5. HeaderOf(c) = HeaderPayload(n, q)
  BY DEF HeaderOf
<1> HIDE DEF q, n
<1>6. HeaderPayload(n, q) \in Seq(Octet)
  BY <1>1, <1>2, HeaderParts
<1>7. \A reader : ReadSize(reader, HeaderPayload(n, q)) = n
  BY <1>1, <1>2, SizeBack
<1>8. Len(HeaderFrame(c)) = 8 + Len(HeaderOf(c))
  <2> DEFINE h == HeaderOf(c)
             t == HEADER
  <2>1. h \in Seq(Octet) /\ HeaderFrame(c) = Frame(t, Channel, h)
    BY <1>3, <1>5, <1>6
  <2>2. t \in Octet
    BY TypesOfFrames
  <2> HIDE DEF h, t
  <2>3. Len(Frame(t, Channel, h)) = 8 + Len(h)
    BY <2>1, <2>2, FrameShape
  <2> QED
    BY <2>1, <2>3 DEF h
<1>9. Len(HeaderOf(c)) + 8 <= MaxFrame
  BY <1>1, <1>4, <1>5, <1>6, <1>8
<1> QED
  BY <1>1, <1>3, <1>5, <1>6, <1>7, <1>9 DEF n

\* The pieces of a body.
LEMMA PartsType ==
  ASSUME NEW c, Taken(c)
  PROVE  /\ Count(c) \in Nat
         /\ \A i \in Nat \ {0} : PartOf(c, i) \in Seq(Octet)
         /\ \A i \in Nat \ {0} : Frame(BODY, Channel, PartOf(c, i)) \in Bytes
         /\ \A j \in Nat : PartsFrom(c, j) \in Seq(Bytes)
<1>1. c.body \in Seq(Octet) /\ Len(c.body) \in Nat
  BY HeaderType
<1>2. Count(c) \in Nat
  BY <1>1, LargestType, Pieces DEF Count
<1>3. \A i \in Nat \ {0} : PartOf(c, i) \in Seq(Octet)
  <2> TAKE i \in Nat \ {0}
  <2> DEFINE m == Largest
             k == (i - 1) * m
             d == Drop(c.body, k)
  <2>1. m \in Nat \ {0}
    BY LargestType
  <2>2. k \in Nat
    <3>1. i - 1 \in Nat
      OBVIOUS
    <3> HIDE DEF m
    <3> QED
      BY <2>1, <3>1
  <2> HIDE DEF k
  <2>3. d \in Seq(Octet)
    BY <1>1, <2>2, DropType
  <2> HIDE DEF d
  <2>4. Take(d, m) \in Seq(Octet)
    BY <2>1, <2>3, TakeType
  <2> QED
    BY <2>4 DEF PartOf, d, k
<1>4. \A i \in Nat \ {0} : Frame(BODY, Channel, PartOf(c, i)) \in Bytes
  BY <1>3, TypesOfFrames, FrameShape DEF Bytes
<1>5. \A j \in Nat : PartsFrom(c, j) \in Seq(Bytes)
  <2> TAKE j \in Nat
  <2>1. \A i \in 1 .. Count(c) - j : j + i \in Nat \ {0}
    OBVIOUS
  <2>2. \A i \in 1 .. Count(c) - j : Frame(BODY, Channel, PartOf(c, j + i)) \in Bytes
    BY <1>4, <2>1
  <2>3. CASE j <= Count(c)
    <3> DEFINE k == Count(c) - j
    <3>1. k \in Nat
      BY <1>2, <2>3
    <3> HIDE DEF k
    <3>2. [i \in 1 .. k |-> Frame(BODY, Channel, PartOf(c, j + i))] \in Seq(Bytes)
      BY <2>2, <3>1 DEF k
    <3> QED
      BY <3>2 DEF PartsFrom, k
  <2>4. CASE j > Count(c)
    <3>1. 1 .. Count(c) - j = {}
      BY <1>2, <2>4
    <3>2. [i \in 1 .. Count(c) - j |-> Frame(BODY, Channel, PartOf(c, j + i))] = <<>>
      BY <3>1
    <3> DEFINE p == PartsFrom(c, j)
    <3>3. p = <<>>
      BY <3>2 DEF PartsFrom
    <3> HIDE DEF p
    <3>4. p \in Seq(Bytes)
      BY <3>3
    <3> QED
      BY <3>4 DEF p
  <2> QED
    BY <1>2, <2>3, <2>4
<1> QED
  BY <1>2, <1>3, <1>4, <1>5

\* The next of the body's frames comes first; after the last there are none.
LEMMA PartsNext ==
  ASSUME NEW c, Taken(c), NEW j \in Nat
  PROVE  /\ j < Count(c) => PartsFrom(c, j) = <<Frame(BODY, Channel, PartOf(c, j + 1))>>
                                                \o PartsFrom(c, j + 1)
         /\ j = Count(c) => PartsFrom(c, j) = <<>>
<1> DEFINE e == Frame(BODY, Channel, PartOf(c, j + 1))
           u == PartsFrom(c, j + 1)
           q == PartsFrom(c, j)
           v == <<e>> \o u
           n == Count(c)
<1>1. n \in Nat /\ e \in Bytes /\ u \in Seq(Bytes) /\ q \in Seq(Bytes)
  <2>1. j + 1 \in Nat \ {0}
    OBVIOUS
  <2> QED
    BY <2>1, PartsType
<1>2. CASE j < n
  <2>1. Len(u) = n - (j + 1) /\ \A i \in 1 .. n - (j + 1) : u[i] = Frame(BODY, Channel, PartOf(c, (j + 1) + i))
    BY <1>1, <1>2 DEF PartsFrom
  <2>2. Len(q) = n - j /\ \A i \in 1 .. n - j : q[i] = Frame(BODY, Channel, PartOf(c, j + i))
    BY <1>1, <1>2 DEF PartsFrom
  <2>3. q[1] = e
    BY <1>1, <1>2, <2>2
  <2>4. \A i \in 1 .. Len(u) : q[i + 1] = u[i]
    <3> TAKE i \in 1 .. Len(u)
    <3>1. i + 1 \in 1 .. n - j /\ j + (i + 1) = (j + 1) + i /\ i \in 1 .. n - (j + 1)
      BY <1>1, <1>2, <2>1
    <3> QED
      BY <2>1, <2>2, <3>1
  <2> HIDE DEF q, u, e
  <2>5. /\ v \in Seq(Bytes) /\ Len(v) = 1 + Len(u) /\ v[1] = e
        /\ \A i \in 1 .. Len(u) : v[i + 1] = u[i]
    BY <1>1, InFront
  <2> HIDE DEF v
  <2>6. Len(q) = Len(v) /\ Len(u) \in Nat
    BY <1>1, <1>2, <2>1, <2>2, <2>5
  <2>7. \A i \in 1 .. Len(q) : q[i] = v[i]
    <3> TAKE i \in 1 .. Len(q)
    <3>1. CASE i = 1
      BY <2>3, <2>5, <3>1
    <3>2. CASE i # 1
      <4>1. i - 1 \in 1 .. Len(u) /\ (i - 1) + 1 = i
        BY <2>5, <2>6, <3>2
      <4>2. q[(i - 1) + 1] = v[(i - 1) + 1]
        BY <2>4, <2>5, <4>1
      <4> QED
        BY <4>1, <4>2
    <3> QED
      BY <3>1, <3>2
  <2>8. q = v
    BY <1>1, <2>5, <2>6, <2>7, SameSeq
  <2> QED
    BY <1>2, <2>8 DEF q, v, u, e
<1>3. CASE j = n
  <2>1. 1 .. n - j = {}
    BY <1>1, <1>3
  <2>2. q = <<>>
    BY <2>1 DEF PartsFrom
  <2> QED
    BY <1>3, <2>2
<1>4. CASE j > n
  BY <1>1, <1>4
<1> QED
  BY <1>1, <1>2, <1>3, <1>4

\* What has been read of a body once j of its frames are.
SoFar(c, j) == Take(c.body, j * Largest)

\* With the next part there is more of the body, and with the last one all of it.
LEMMA SoFarNext ==
  ASSUME NEW c, Taken(c), NEW j \in Nat
  PROVE  /\ SoFar(c, 0) = <<>>
         /\ SoFar(c, j) \in Seq(Octet)
         /\ SoFar(c, j) \o PartOf(c, j + 1) = SoFar(c, j + 1)
         /\ j < Count(c) => Len(SoFar(c, j)) # Len(c.body)
         /\ j >= Count(c) => SoFar(c, j) = c.body
<1> DEFINE b == c.body
           m == Largest
           n == Len(b)
           jm == j * m
           kl == (j + 1) * m
<1>1. b \in Seq(Octet) /\ n \in Nat /\ m \in Nat \ {0}
  BY HeaderType, LargestType
<1>2. jm \in Nat /\ kl = jm + m /\ ((j + 1) - 1) * m = jm /\ 0 * m = 0
  <2> HIDE DEF m
  <2>1. (j + 1) - 1 = j
    OBVIOUS
  <2> QED
    BY <1>1, <2>1
<1>3. (j < Count(c) => jm < n) /\ (j >= Count(c) => jm >= n)
  <2> HIDE DEF m, n
  <2> QED
    BY <1>1, Pieces DEF Count, m, n
<1>4. PartOf(c, j + 1) = Take(Drop(b, jm), m)
  BY <1>2 DEF PartOf
<1>5. SoFar(c, j) = Take(b, jm) /\ SoFar(c, j + 1) = Take(b, kl) /\ SoFar(c, 0) = Take(b, 0)
  BY <1>2 DEF SoFar
<1> HIDE DEF jm, kl, m, b
<1>6. Take(b, 0) = <<>> /\ Take(b, Len(b)) = b
  BY <1>1, TakeNext
<1>7. /\ Take(b, jm) \in Seq(Octet) /\ Len(Take(b, jm)) = IF jm <= Len(b) THEN jm ELSE Len(b)
  BY <1>1, <1>2, TakeType
<1>8. Take(b, jm) \o Take(Drop(b, jm), m) = Take(b, jm + m)
  <2>1. m \in Nat
    BY <1>1
  <2> QED
    BY <1>1, <1>2, <2>1, TakeMore
<1>9. jm >= n => Take(b, jm) = b
  BY <1>1, <1>2 DEF Take
<1>10. jm < n => Len(Take(b, jm)) # n
  BY <1>1, <1>2, <1>7
<1> QED
  BY <1>2, <1>3, <1>4, <1>5, <1>6, <1>7, <1>8, <1>9, <1>10 DEF b

\* A content that publish() takes.
LEMMA GoodTaken == ASSUME NEW c \in Good PROVE Taken(c) /\ c \in Contents
BY DEF Good, Taken

\* Sequences are joined in any order.
LEMMA JoinAny ==
  ASSUME NEW S, NEW a \in Seq(S), NEW b \in Seq(S), NEW c \in Seq(S)
  PROVE  (a \o b) \o c = a \o (b \o c) /\ a \o b \in Seq(S) /\ b \o c \in Seq(S)
OBVIOUS

\* So are the frames of a wire.
LEMMA JoinFrames ==
  ASSUME NEW a \in Seq(Bytes), NEW b \in Seq(Bytes), NEW c \in Seq(Bytes)
  PROVE  (a \o b) \o c = a \o (b \o c) /\ a \o b \in Seq(Bytes) /\ b \o c \in Seq(Bytes)
<1> DEFINE S == Bytes
<1> HIDE DEF S
<1>1. a \in Seq(S) /\ b \in Seq(S) /\ c \in Seq(S)
  BY DEF S
<1>2. (a \o b) \o c = a \o (b \o c) /\ a \o b \in Seq(S) /\ b \o c \in Seq(S)
  BY <1>1, JoinAny
<1> QED
  BY <1>2 DEF S

\* Two elements in front of a sequence.
LEMMA JoinPair ==
  ASSUME NEW S, NEW a \in S, NEW b \in S, NEW p \in Seq(S)
  PROVE  <<a, b>> \o p = <<a>> \o (<<b>> \o p) /\ <<a>> \o (<<b>> \o p) \in Seq(S)
<1> DEFINE x == <<a>>
           y == <<b>>
           w == <<a, b>>
           v == x \o y
<1>0. x \in Seq(S) /\ y \in Seq(S) /\ Len(x) = 1 /\ Len(y) = 1 /\ x[1] = a /\ y[1] = b
  OBVIOUS
<1>a. w \in Seq(S) /\ Len(w) = 2 /\ w[1] = a /\ w[2] = b
  OBVIOUS
<1> HIDE DEF x, y, w
<1>b. v \in Seq(S) /\ Len(v) = 2 /\ v[1] = a /\ v[2] = b
  <2>1. x \in Seq(S) /\ y \in Seq(S)
    BY <1>0
  <2>2. /\ v \in Seq(S) /\ Len(v) = Len(x) + Len(y)
        /\ (\A i \in 1 .. Len(x) : v[i] = x[i]) /\ (\A i \in 1 .. Len(y) : v[Len(x) + i] = y[i])
    BY <2>1, Parts
  <2> HIDE DEF v
  <2>3. 1 \in 1 .. Len(x) /\ 1 \in 1 .. Len(y) /\ Len(x) + 1 = 2 /\ Len(x) + Len(y) = 2
    BY <1>0
  <2>4. v[1] = x[1] /\ v[Len(x) + 1] = y[1]
    BY <2>2, <2>3
  <2> QED
    BY <1>0, <2>2, <2>3, <2>4
<1> HIDE DEF v
<1>c. v = w
  <2>1. \A i \in 1 .. Len(v) : v[i] = w[i]
    BY <1>a, <1>b
  <2> QED
    BY <1>a, <1>b, <2>1, SameSeq
<1>1. x \in Seq(S) /\ y \in Seq(S) /\ x \o y = <<a, b>>
  BY <1>0, <1>c DEF v, w
<1>2. (x \o y) \o p = x \o (y \o p)
  <2>1. x \in Seq(S) /\ y \in Seq(S)
    BY <1>1
  <2> QED
    BY <2>1, JoinAny
<1>3. y \o p \in Seq(S)
  BY <1>1, JoinAny
<1>4. x \o (y \o p) \in Seq(S)
  BY <1>1, <1>3, JoinAny
<1> QED
  BY <1>1, <1>2, <1>4 DEF x, y

\* The frames of a content, one by one.
LEMMA FramesShape ==
  ASSUME NEW c \in Good
  PROVE  /\ FramesOf(c) = <<SendMethod(c)>> \o (<<HeaderFrame(c)>> \o PartsFrom(c, 0))
         /\ FramesOf(c) \in Seq(Bytes)
         /\ Carries(SendMethod(c), METHOD, MethodOf(c))
         /\ Carries(HeaderFrame(c), HEADER, HeaderOf(c))
         /\ \A i \in Nat \ {0} : Carries(Frame(BODY, Channel, PartOf(c, i)), BODY, PartOf(c, i))
<1>1. Taken(c) /\ c \in Contents
  BY GoodTaken
<1>2. Carries(SendMethod(c), METHOD, MethodOf(c))
  <2>1. SendMethod(c) = Frame(METHOD, Channel, MethodOf(c))
    BY DEF SendMethod, MethodOf
  <2> QED
    BY <1>1, <2>1, MethodType, TypesOfFrames, FrameCarries
<1>3. Carries(HeaderFrame(c), HEADER, HeaderOf(c))
  <2>1. HeaderFrame(c) = Frame(HEADER, Channel, HeaderOf(c)) /\ HeaderOf(c) \in Seq(Octet)
    BY <1>1, HeaderType
  <2> QED
    BY <2>1, TypesOfFrames, FrameCarries
<1>4. \A i \in Nat \ {0} : Carries(Frame(BODY, Channel, PartOf(c, i)), BODY, PartOf(c, i))
  <2> TAKE i \in Nat \ {0}
  <2>1. PartOf(c, i) \in Seq(Octet)
    BY <1>1, PartsType
  <2> QED
    BY <2>1, TypesOfFrames, FrameCarries
<1>5. SendBody(Channel, c.body, MaxFrame) = PartsFrom(c, 0)
  <2>1. Count(c) \in Nat
    BY <1>1, PartsType
  <2>2. Count(c) - 0 = Count(c) /\ \A i \in 1 .. Count(c) : 0 + i = i
    BY <2>1
  <2>3. SendBody(Channel, c.body, MaxFrame) = [i \in 1 .. Count(c) |-> Frame(BODY, Channel, PartOf(c, i))]
    BY DEF SendBody, Count, Largest, PartOf
  <2> DEFINE n == Count(c)
  <2>4. PartsFrom(c, 0) = [i \in 1 .. n - 0 |-> Frame(BODY, Channel, PartOf(c, 0 + i))]
    BY DEF PartsFrom
  <2> HIDE DEF n
  <2>5. [i \in 1 .. n - 0 |-> Frame(BODY, Channel, PartOf(c, 0 + i))]
          = [i \in 1 .. n |-> Frame(BODY, Channel, PartOf(c, i))]
    BY <2>2 DEF n
  <2> QED
    BY <2>3, <2>4, <2>5 DEF n
<1>6. SendMethod(c) \in Bytes /\ HeaderFrame(c) \in Bytes /\ PartsFrom(c, 0) \in Seq(Bytes)
  BY <1>1, <1>2, <1>3, PartsType DEF Carries
<1> QED
  <2> DEFINE a == SendMethod(c)
             b == HeaderFrame(c)
             p == PartsFrom(c, 0)
  <2>1. a \in Bytes /\ b \in Bytes /\ p \in Seq(Bytes)
    BY <1>6
  <2>2. FramesOf(c) = <<a, b>> \o p
    BY <1>5 DEF FramesOf
  <2> HIDE DEF a, b, p
  <2>3. <<a, b>> \o p = <<a>> \o (<<b>> \o p) /\ <<a>> \o (<<b>> \o p) \in Seq(Bytes)
    BY <2>1, JoinPair
  <2> QED
    BY <1>2, <1>3, <1>4, <2>2, <2>3 DEF a, b, p

\* The frames of the contents of due.
Frameses(due) == [i \in 1 .. Len(due) |-> FramesOf(due[i])]
Coming(due) == FlattenSeq(Frameses(due))

\* The frames of the contents that are due.
LEMMA ComingType ==
  ASSUME NEW due \in Seq(Good)
  PROVE  /\ Frameses(due) \in Seq(Seq(Bytes)) /\ Len(Frameses(due)) = Len(due)
         /\ \A i \in 1 .. Len(due) : Frameses(due)[i] = FramesOf(due[i])
         /\ Coming(due) \in Seq(Bytes)
<1>1. \A i \in 1 .. Len(due) : due[i] \in Good
  OBVIOUS
<1>2. \A i \in 1 .. Len(due) : FramesOf(due[i]) \in Seq(Bytes)
  BY <1>1, FramesShape
<1>3. /\ Frameses(due) \in Seq(Seq(Bytes)) /\ Len(Frameses(due)) = Len(due)
      /\ \A i \in 1 .. Len(due) : Frameses(due)[i] = FramesOf(due[i])
  BY <1>2 DEF Frameses
<1>4. Coming(due) \in Seq(Bytes)
  BY <1>3, FlattenType DEF Coming
<1> QED
  BY <1>3, <1>4

\* With no content due there are no frames.
LEMMA ComingNone == Coming(<<>>) = <<>>
<1>1. Frameses(<<>>) = <<>>
  BY DEF Frameses
<1> QED
  BY <1>1, FlattenEmpty DEF Coming

\* One more content is due.
LEMMA ComingMore ==
  ASSUME NEW due \in Seq(Good), NEW c \in Good
  PROVE  Coming(Append(due, c)) = Coming(due) \o FramesOf(c)
<1> DEFINE d == Append(due, c)
           s == Frameses(due)
           t == Frameses(d)
           e == FramesOf(c)
           n == Len(due)
           v == Append(s, e)
<1>1. d \in Seq(Good) /\ Len(d) = n + 1 /\ n \in Nat /\ d[n + 1] = c /\ \A i \in 1 .. n : d[i] = due[i]
  OBVIOUS
<1>2. /\ s \in Seq(Seq(Bytes)) /\ Len(s) = n /\ \A i \in 1 .. n : s[i] = FramesOf(due[i])
  BY ComingType
<1> HIDE DEF d
<1>3. /\ t \in Seq(Seq(Bytes)) /\ Len(t) = n + 1 /\ \A i \in 1 .. n + 1 : t[i] = FramesOf(d[i])
  BY <1>1, ComingType
<1>4. e \in Seq(Bytes)
  BY FramesShape
<1> HIDE DEF s, t, n
<1>5. /\ v \in Seq(Seq(Bytes)) /\ Len(v) = n + 1 /\ v[n + 1] = e /\ \A i \in 1 .. n : v[i] = s[i]
  <2> DEFINE S == Seq(Bytes)
  <2> HIDE DEF S, e
  <2>1. s \in Seq(S) /\ e \in S
    BY <1>2, <1>4 DEF S
  <2>2. /\ v \in Seq(S) /\ Len(v) = Len(s) + 1 /\ v[Len(s) + 1] = e /\ \A i \in 1 .. Len(s) : v[i] = s[i]
    BY <2>1
  <2> QED
    BY <1>2, <2>2 DEF S
<1> HIDE DEF v
<1>6. \A i \in 1 .. Len(t) : t[i] = v[i]
  <2> TAKE i \in 1 .. Len(t)
  <2>1. CASE i = n + 1
    <3>1. t[n + 1] = FramesOf(d[n + 1])
      BY <1>1, <1>3 DEF n
    <3> QED
      BY <1>1, <1>5, <2>1, <3>1 DEF n
  <2>2. CASE i # n + 1
    <3>1. i \in 1 .. n /\ i \in 1 .. n + 1
      BY <1>1, <1>3, <2>2 DEF n
    <3>2. t[i] = FramesOf(d[i]) /\ v[i] = s[i] /\ s[i] = FramesOf(due[i]) /\ d[i] = due[i]
      BY <1>1, <1>2, <1>3, <1>5, <3>1 DEF n
    <3> QED
      BY <3>2
  <2> QED
    BY <2>1, <2>2
<1>7. t = v
  BY <1>3, <1>5, <1>6, SameSeq
<1>8. FlattenSeq(Append(s, e)) = FlattenSeq(s) \o e
  <2> HIDE DEF e
  <2> QED
    BY <1>2, <1>4, FlattenAppend
<1> QED
  BY <1>7, <1>8 DEF t, v, s, d, Coming

\* The next content that is due.
LEMMA ComingNext ==
  ASSUME NEW due \in Seq(Good), due # <<>>
  PROVE  /\ due[1] \in Good /\ Tail(due) \in Seq(Good) /\ Len(Tail(due)) = Len(due) - 1
         /\ \A i \in 1 .. Len(due) - 1 : Tail(due)[i] = due[i + 1]
         /\ Len(due) >= 1
         /\ Coming(due) = FramesOf(due[1]) \o Coming(Tail(due))
<1> DEFINE d == Tail(due)
           s == Frameses(due)
           t == Frameses(d)
           e == FramesOf(due[1])
           n == Len(due)
           v == <<e>> \o t
<1>1. /\ d \in Seq(Good) /\ Len(d) = n - 1 /\ n \in Nat /\ n >= 1 /\ due[1] \in Good
      /\ \A i \in 1 .. n - 1 : d[i] = due[i + 1]
  OBVIOUS
<1>2. /\ s \in Seq(Seq(Bytes)) /\ Len(s) = n /\ \A i \in 1 .. n : s[i] = FramesOf(due[i])
  BY ComingType
<1> HIDE DEF d
<1>3. /\ t \in Seq(Seq(Bytes)) /\ Len(t) = n - 1 /\ \A i \in 1 .. n - 1 : t[i] = FramesOf(d[i])
  BY <1>1, ComingType
<1>4. e \in Seq(Bytes)
  BY <1>1, FramesShape
<1>a. s[1] = e
  BY <1>1, <1>2
<1> HIDE DEF s, t, n, e
<1>5. /\ v \in Seq(Seq(Bytes)) /\ Len(v) = 1 + Len(t) /\ v[1] = e /\ \A i \in 1 .. Len(t) : v[i + 1] = t[i]
  BY <1>3, <1>4, InFront
<1> HIDE DEF v
<1>6. \A i \in 1 .. Len(s) : s[i] = v[i]
  <2> TAKE i \in 1 .. Len(s)
  <2>1. CASE i = 1
    BY <1>5, <1>a, <2>1
  <2>2. CASE i # 1
    <3>1. i - 1 \in 1 .. n - 1 /\ i - 1 \in 1 .. Len(t) /\ (i - 1) + 1 = i /\ i \in 1 .. n
      BY <1>1, <1>2, <1>3, <2>2 DEF n
    <3>2. v[(i - 1) + 1] = t[i - 1] /\ t[i - 1] = FramesOf(d[i - 1]) /\ d[i - 1] = due[(i - 1) + 1]
      BY <1>1, <1>3, <1>5, <3>1 DEF n
    <3>3. s[i] = FramesOf(due[i])
      BY <1>2, <3>1
    <3> QED
      BY <3>1, <3>2, <3>3
  <2> QED
    BY <2>1, <2>2
<1>7. s = v
  <2>1. Len(s) = Len(v)
    BY <1>1, <1>2, <1>3, <1>5 DEF n
  <2> QED
    BY <1>2, <1>5, <1>6, <2>1, SameSeq
<1>8. FlattenSeq(<<e>> \o t) = e \o FlattenSeq(t)
  BY <1>3, <1>4, FlattenFirst
<1>9. Coming(due) = e \o Coming(d)
  BY <1>7, <1>8 DEF v, s, t, Coming
<1> QED
  BY <1>1, <1>9 DEF d, e, n

-----------------------------------------------------------------------------
(* The server *)

\* The content the server is reading.
Now == given[Len(understood) + 1]

AwaitsMethod(front, k) == k = 0 /\ expecting = METHOD /\ front = <<>>

AwaitsHeader(front, k) ==
  /\ k = 1 /\ expecting = HEADER /\ Len(understood) < Len(given)
  /\ reading = [method |-> MethodOf(Now), header |-> <<>>, body |-> <<>>]
  /\ front = <<HeaderFrame(Now)>> \o PartsFrom(Now, 0)

AwaitsBody(front, k, j) ==
  /\ k = 1 /\ expecting = BODY /\ Len(understood) < Len(given) /\ j < Count(Now)
  /\ reading = [method |-> MethodOf(Now), header |-> HeaderOf(Now), body |-> SoFar(Now, j)]
  /\ front = PartsFrom(Now, j)

\* What the server is to read next, of the content it is reading.
Progress(front, k) ==
  AwaitsMethod(front, k) \/ AwaitsHeader(front, k) \/ \E j \in Nat : AwaitsBody(front, k, j)

\* The method of a content whose header was never written, and perhaps another method.
Breaks(tail) ==
  /\ Len(tail) >= 1 /\ tail[1][1] = METHOD
  /\ Len(tail) >= 2 => tail[2][1] = METHOD

\* The contents after that, up to the first publish() that threw.
Later(k, due, tail) ==
  /\ Len(understood) + k + Len(due) <= Len(given)
  /\ \A i \in 1 .. Len(due) : given[Len(understood) + k + i] = due[i]
  /\ (~threw => tail = <<>> /\ Len(understood) + k + Len(due) = Len(given))
  /\ (threw => Breaks(tail))

Owes(k, front, due, tail) ==
  toServer = front \o (Coming(due) \o tail) /\ Progress(front, k) /\ Later(k, due, tail)

Going ==
  \E k \in {0, 1}, front \in Seq(Bytes), due \in Seq(Good), tail \in Seq(Bytes) :
    Owes(k, front, due, tail)

\* A method without a content has been read: no header follows.
Stuck == threw /\ expecting = HEADER /\ (Len(toServer) >= 1 => toServer[1][1] = METHOD)

ReadContent == [method : Bytes, header : Bytes, body : Bytes]

ServerTyped ==
  /\ given \in Seq(Good) /\ calls \in 0 .. MaxContents /\ Len(given) <= calls
  /\ threw \in BOOLEAN /\ refused \in BOOLEAN /\ expecting \in {METHOD, HEADER, BODY}
  /\ toServer \in Seq(Bytes)
  /\ understood \in Seq(ReadContent) /\ Len(understood) <= Len(given)

\* What was understood is what was given.
AllWhole == \A i \in 1 .. Len(understood) : understood[i] = Whole(given[i])

ServerInv ==
  /\ ServerTyped /\ AllWhole
  /\ refused => threw
  /\ ~refused => Stuck \/ Going

\* The server starts with nothing to read, and awaits a method.
LEMMA ServerStarts == Init => ServerInv
<1> SUFFICES ASSUME Init PROVE ServerInv
  OBVIOUS
<1> DEFINE e == <<>>
<1>1. /\ given = e /\ calls = 0 /\ threw = FALSE /\ toServer = e /\ expecting = METHOD
      /\ understood = e /\ refused = FALSE
  BY DEF Init
<1>2. e \in Seq(Good) /\ e \in Seq(Bytes) /\ e \in Seq(ReadContent) /\ Len(e) = 0
  OBVIOUS
<1>3. Coming(e) = e /\ e \o (e \o e) = e
  BY ComingNone
<1> HIDE DEF e
<1>4. ServerTyped
  <2>1. 0 \in 0 .. MaxContents
    BY ContentAssumption
  <2>2. given \in Seq(Good) /\ toServer \in Seq(Bytes) /\ understood \in Seq(ReadContent)
    BY <1>1, <1>2
  <2>3. threw \in BOOLEAN /\ refused \in BOOLEAN /\ expecting \in {METHOD, HEADER, BODY}
    BY <1>1
  <2>4. calls \in 0 .. MaxContents /\ Len(given) = 0 /\ Len(understood) = 0 /\ calls = 0
    BY <1>1, <1>2, <2>1
  <2>5. Len(given) <= calls /\ Len(understood) <= Len(given)
    BY <2>4
  <2> QED
    BY <2>2, <2>3, <2>4, <2>5 DEF ServerTyped
<1>5. AllWhole
  BY <1>1, <1>2 DEF AllWhole
<1>6. Owes(0, e, e, e)
  <2>1. Progress(e, 0)
    BY <1>1 DEF Progress, AwaitsMethod, e
  <2>2. Later(0, e, e)
    BY <1>1, <1>2 DEF Later, e
  <2> QED
    BY <1>1, <1>3, <2>1, <2>2 DEF Owes
<1>7. Going
  BY <1>2, <1>6 DEF Going
<1> QED
  BY <1>1, <1>4, <1>5, <1>7 DEF ServerInv

\* A step of the parser leaves the server alone.
LEMMA ServerIdle ==
  ASSUME ServerInv, UNCHANGED <<client, toServer, server>> PROVE ServerInv'
<1>1. /\ given' = given /\ calls' = calls /\ threw' = threw /\ toServer' = toServer
      /\ expecting' = expecting /\ reading' = reading /\ understood' = understood /\ refused' = refused
  BY DEF client, server
<1>2. ServerTyped' /\ AllWhole'
  BY <1>1 DEF ServerInv, ServerTyped, AllWhole
<1>3. Stuck' <=> Stuck
  BY <1>1 DEF Stuck
<1>4. \A k, front, due, tail : Owes(k, front, due, tail) => Owes(k, front, due, tail)'
  BY <1>1 DEF Owes, Progress, Later, AwaitsMethod, AwaitsHeader, AwaitsBody, Now
<1>5. Going => Going'
  BY <1>4 DEF Going
<1> QED
  BY <1>1, <1>2, <1>3, <1>5 DEF ServerInv

\* Progress is about the contents given so far.
LEMMA ProgressKeeps ==
  ASSUME ServerTyped, NEW k \in {0, 1}, NEW front, Progress(front, k), NEW c,
         given' = Append(given, c) \/ given' = given, UNCHANGED server
  PROVE  Progress(front, k)'
<1>1. /\ expecting' = expecting /\ reading' = reading /\ understood' = understood
      /\ given \in Seq(Good) /\ Len(understood) \in Nat
  BY DEF server, ServerTyped
<1>2. Len(given') >= Len(given)
  BY <1>1
<1>3. Len(understood) < Len(given) => Now' = Now /\ Len(understood) < Len(given')
  <2> DEFINE n == Len(understood) + 1
  <2> SUFFICES ASSUME Len(understood) < Len(given) PROVE Now' = Now
    BY <1>1, <1>2
  <2>1. n \in 1 .. Len(given)
    BY <1>1
  <2>2. given'[n] = given[n]
    BY <1>1, <2>1
  <2> QED
    BY <1>1, <2>2 DEF Now
<1>4. CASE AwaitsMethod(front, k)
  BY <1>1, <1>4 DEF AwaitsMethod, Progress
<1>5. CASE AwaitsHeader(front, k)
  BY <1>1, <1>3, <1>5 DEF AwaitsHeader, Progress
<1>6. CASE \E j \in Nat : AwaitsBody(front, k, j)
  <2>1. PICK j \in Nat : AwaitsBody(front, k, j)
    BY <1>6
  <2>2. AwaitsBody(front, k, j)'
    BY <1>1, <1>3, <2>1 DEF AwaitsBody
  <2> QED
    BY <2>2 DEF Progress
<1> QED
  BY <1>4, <1>5, <1>6 DEF Progress

\* A tail that breaks the framing goes on breaking it.
LEMMA BreaksMore ==
  ASSUME NEW tail \in Seq(Bytes), Breaks(tail), NEW more \in Seq(Bytes), Len(more) >= 1,
         more[1][1] = METHOD
  PROVE  Breaks(tail \o more)
<1> DEFINE t == tail \o more
<1>1. /\ t \in Seq(Bytes) /\ Len(t) = Len(tail) + Len(more)
      /\ (\A i \in 1 .. Len(tail) : t[i] = tail[i]) /\ (\A i \in 1 .. Len(more) : t[Len(tail) + i] = more[i])
  BY Parts
<1>2. Len(tail) \in Nat /\ Len(more) \in Nat /\ Len(tail) >= 1
  BY DEF Breaks
<1> HIDE DEF t
<1>3. t[1] = tail[1] /\ Len(t) >= 2
  BY <1>1, <1>2
<1>4. t[2][1] = METHOD
  <2>1. CASE Len(tail) >= 2
    BY <1>1, <1>2, <2>1 DEF Breaks
  <2>2. CASE Len(tail) = 1
    <3>1. t[Len(tail) + 1] = more[1]
      BY <1>1, <1>2
    <3> QED
      BY <2>2, <3>1
  <2>3. Len(tail) >= 2 \/ Len(tail) = 1
    <3> DEFINE n == Len(tail)
    <3>1. n \in Nat /\ n >= 1
      BY <1>2
    <3> HIDE DEF n
    <3>2. n >= 2 \/ n = 1
      BY <3>1
    <3> QED
      BY <3>2 DEF n
  <2> QED
    BY <2>1, <2>2, <2>3
<1>5. Breaks(t)
  BY <1>3, <1>4 DEF Breaks
<1> QED
  BY <1>5 DEF t

\* Nothing joined at the end.
LEMMA NoTail ==
  ASSUME NEW S, NEW b \in Seq(S)
  PROVE  b \o <<>> = b
OBVIOUS

\* publish() writes a method first.
LEMMA MethodFirst ==
  /\ \A c \in Good : FramesOf(c) \in Seq(Bytes) /\ Len(FramesOf(c)) >= 1 /\ FramesOf(c)[1][1] = METHOD
  /\ \A c \in Contents : SendMethod(c) \in Bytes /\ SendMethod(c)[1] = METHOD
<1>1. ASSUME NEW c \in Good
      PROVE  FramesOf(c) \in Seq(Bytes) /\ Len(FramesOf(c)) >= 1 /\ FramesOf(c)[1][1] = METHOD
  <2> DEFINE u == <<HeaderFrame(c)>> \o PartsFrom(c, 0)
             e == SendMethod(c)
             h == HeaderFrame(c)
  <2>1. FramesOf(c) = <<e>> \o u /\ e \in Bytes /\ e[1] = METHOD /\ h \in Bytes
    BY FramesShape DEF Carries
  <2>2. PartsFrom(c, 0) \in Seq(Bytes)
    <3>1. 0 \in Nat /\ Taken(c)
      BY GoodTaken
    <3> QED
      BY <3>1, PartsType
  <2> HIDE DEF e, h
  <2>3. u \in Seq(Bytes)
    BY <2>1, <2>2, InFront DEF h
  <2> HIDE DEF u
  <2>4. <<e>> \o u \in Seq(Bytes) /\ Len(<<e>> \o u) = 1 + Len(u) /\ (<<e>> \o u)[1] = e
    BY <2>1, <2>3, InFront
  <2>5. Len(u) \in Nat
    BY <2>3
  <2> QED
    BY <2>1, <2>4, <2>5
<1>2. ASSUME NEW c \in Contents PROVE SendMethod(c) \in Bytes /\ SendMethod(c)[1] = METHOD
  <2>1. SendMethod(c) = Frame(METHOD, Channel, MethodOf(c))
    BY DEF SendMethod, MethodOf
  <2> QED
    BY <2>1, MethodType, TypesOfFrames, FrameCarries DEF Carries
<1> QED
  BY <1>1, <1>2

\* A method that waits goes on waiting.
LEMMA StillFirst ==
  ASSUME NEW q \in Seq(Bytes), Len(q) >= 1 => q[1][1] = METHOD,
         NEW more \in Seq(Bytes), Len(more) >= 1, more[1][1] = METHOD
  PROVE  q \o more \in Seq(Bytes) /\ (q \o more)[1][1] = METHOD
<1> DEFINE t == q \o more
<1>1. /\ t \in Seq(Bytes) /\ Len(t) = Len(q) + Len(more)
      /\ (\A i \in 1 .. Len(q) : t[i] = q[i]) /\ (\A i \in 1 .. Len(more) : t[Len(q) + i] = more[i])
  BY Parts
<1> HIDE DEF t
<1> DEFINE n == Len(q)
           m == Len(more)
<1>2. n \in Nat /\ m \in Nat /\ m >= 1
  OBVIOUS
<1>3. CASE n >= 1
  <2> HIDE DEF n
  <2>1. 1 \in 1 .. n
    BY <1>2, <1>3
  <2> QED
    BY <1>1, <1>3, <2>1 DEF n, t
<1>4. CASE n = 0
  <2> HIDE DEF m
  <2>1. 1 \in 1 .. m
    BY <1>2
  <2>2. t[0 + 1] = more[1]
    BY <1>1, <1>4, <2>1 DEF m
  <2>3. 0 + 1 = 1
    OBVIOUS
  <2> QED
    BY <1>1, <2>2, <2>3 DEF t
<1>5. n >= 1 \/ n = 0
  <2> HIDE DEF n
  <2> QED
    BY <1>2
<1> QED
  BY <1>3, <1>4, <1>5

\* What publish() writes keeps the types.
LEMMA TypedMore ==
  ASSUME ServerTyped, NEW more \in Seq(Bytes), toServer' = toServer \o more,
         calls' = calls + 1, calls < MaxContents, threw' \in BOOLEAN, UNCHANGED server,
         (\E c \in Good : given' = Append(given, c)) \/ given' = given
  PROVE  ServerTyped'
<1>1. /\ expecting' = expecting /\ understood' = understood /\ refused' = refused
      /\ given \in Seq(Good) /\ Len(given) \in Nat /\ Len(understood) \in Nat
      /\ Len(given) <= calls /\ calls \in 0 .. MaxContents /\ Len(understood) <= Len(given)
      /\ toServer \in Seq(Bytes) /\ refused \in BOOLEAN /\ expecting \in {METHOD, HEADER, BODY}
      /\ understood \in Seq(ReadContent)
  BY DEF server, ServerTyped
<1>2. given' \in Seq(Good) /\ (Len(given') = Len(given) + 1 \/ Len(given') = Len(given))
  <2>1. CASE given' = given
    BY <1>1, <2>1
  <2>2. CASE \E c \in Good : given' = Append(given, c)
    <3>1. PICK c \in Good : given' = Append(given, c)
      BY <2>2
    <3>2. Append(given, c) \in Seq(Good) /\ Len(Append(given, c)) = Len(given) + 1
      BY <1>1
    <3> QED
      BY <3>1, <3>2
  <2> QED
    BY <2>1, <2>2
<1>3. toServer' \in Seq(Bytes)
  <2>1. toServer \o more \in Seq(Bytes)
    BY <1>1, JoinFrames
  <2> QED
    BY <2>1
<1>4. MaxContents \in Nat
  BY ContentAssumption
<1>5. calls' \in 0 .. MaxContents /\ Len(given') <= calls' /\ Len(understood) <= Len(given')
  BY <1>1, <1>2, <1>4
<1> QED
  BY <1>1, <1>2, <1>3, <1>5 DEF ServerTyped

\* What was understood stays whole when more is given.
LEMMA WholeKeeps ==
  ASSUME ServerTyped, AllWhole, understood' = understood, NEW c,
         given' = Append(given, c) \/ given' = given
  PROVE  AllWhole'
<1>1. given \in Seq(Good) /\ Len(understood) \in Nat /\ Len(understood) <= Len(given)
  BY DEF ServerTyped
<1>2. \A i \in 1 .. Len(understood) : given'[i] = given[i]
  BY <1>1
<1> QED
  BY <1>2 DEF AllWhole

\* A content is published.
LEMMA PublishTaken ==
  ASSUME ServerInv, NEW c \in Contents, Publish(c), Matches(c.properties)
  PROVE  ServerInv'
<1> DEFINE more == FramesOf(c)
<1>0. /\ ServerTyped /\ AllWhole /\ (refused => threw) /\ (~refused => Stuck \/ Going)
      /\ toServer \in Seq(Bytes) /\ threw \in BOOLEAN /\ Len(understood) \in Nat
      /\ given \in Seq(Good)
  BY DEF ServerInv, ServerTyped
<1>1. /\ calls' = calls + 1 /\ calls < MaxContents /\ given' = Append(given, c) /\ threw' = threw
      /\ UNCHANGED server
      /\ expecting' = expecting /\ reading' = reading /\ understood' = understood /\ refused' = refused
  BY DEF Publish, server
<1>2. c \in Good /\ more \in Seq(Bytes) /\ Len(more) >= 1 /\ more[1][1] = METHOD
  <2>1. c \in Good
    BY DEF Good
  <2> QED
    BY <2>1, MethodFirst
<1>3. toServer' = toServer \o more
  <2> DEFINE p == <<SendMethod(c), HeaderFrame(c)>>
             b == SendBody(Channel, c.body, MaxFrame)
             a == SendMethod(c)
             h == HeaderFrame(c)
  <2>1. toServer' = toServer \o p \o b
    BY DEF Publish, HeaderFrame
  <2>2. a \in Bytes /\ h \in Bytes
    BY <1>2, FramesShape DEF Carries
  <2>3. p \in Seq(Bytes)
    <3> HIDE DEF a, h
    <3>1. <<a, h>> \in Seq(Bytes)
      BY <2>2
    <3> QED
      BY <3>1 DEF a, h
  <2>4. b \in Seq(Bytes)
    <3>1. Taken(c) /\ Count(c) \in Nat /\ \A i \in Nat \ {0} : Frame(BODY, Channel, PartOf(c, i)) \in Bytes
      BY <1>2, GoodTaken, PartsType
    <3>2. b = [i \in 1 .. Count(c) |-> Frame(BODY, Channel, PartOf(c, i))]
      BY DEF SendBody, Count, Largest, PartOf
    <3>3. \A i \in 1 .. Count(c) : Frame(BODY, Channel, PartOf(c, i)) \in Bytes
      BY <3>1
    <3> DEFINE n == Count(c)
    <3> HIDE DEF n
    <3>4. [i \in 1 .. n |-> Frame(BODY, Channel, PartOf(c, i))] \in Seq(Bytes)
      BY <3>1, <3>3 DEF n
    <3> QED
      BY <3>2, <3>4 DEF n
  <2>5. more = p \o b
    BY DEF FramesOf
  <2> HIDE DEF p, b
  <2>6. (toServer \o p) \o b = toServer \o (p \o b)
    BY <1>0, <2>3, <2>4, JoinFrames
  <2> QED
    BY <2>1, <2>5, <2>6
<1> HIDE DEF more
<1>4. ServerTyped'
  BY <1>0, <1>1, <1>2, <1>3, TypedMore
<1>5. AllWhole'
  BY <1>0, <1>1, WholeKeeps
<1>6. ASSUME Stuck PROVE Stuck'
  <2>1. (toServer \o more)[1][1] = METHOD
    BY <1>0, <1>2, <1>6, StillFirst DEF Stuck
  <2> QED
    BY <1>1, <1>3, <1>6, <2>1 DEF Stuck
<1>7. ASSUME Going PROVE Going'
  <2>1. PICK k \in {0, 1}, front \in Seq(Bytes), due \in Seq(Good), tail \in Seq(Bytes) :
               Owes(k, front, due, tail)
    BY <1>7 DEF Going
  <2>2. Progress(front, k)'
    BY <1>0, <1>1, <2>1, ProgressKeeps DEF Owes
  <2>3. Coming(due) \in Seq(Bytes)
    BY ComingType
  <2>4. toServer = front \o (Coming(due) \o tail) /\ Later(k, due, tail)
    BY <2>1 DEF Owes
  <2>a. /\ Len(given') = Len(given) + 1 /\ Len(given) \in Nat /\ given'[Len(given) + 1] = c
        /\ \A i \in 1 .. Len(given) : given'[i] = given[i]
    BY <1>0, <1>1
  <2>b. Len(due) \in Nat
    OBVIOUS
  <2>5. CASE ~threw
    <3> DEFINE e == <<>>
               d == Append(due, c)
               u == Coming(due)
               v == Coming(d)
    <3>1. tail = e /\ Len(understood) + k + Len(due) = Len(given)
      BY <2>4, <2>5 DEF Later
    <3>2. d \in Seq(Good) /\ Len(d) = Len(due) + 1 /\ d[Len(due) + 1] = c /\ \A i \in 1 .. Len(due) : d[i] = due[i]
      BY <1>2
    <3>3. v = u \o more
      BY <1>2, ComingMore DEF more
    <3>4. u \o e = u /\ v \o e = v
      <4>1. v \in Seq(Bytes) /\ u \in Seq(Bytes)
        BY <2>3, <3>2, ComingType
      <4> HIDE DEF u, v, d
      <4> QED
        BY <4>1, NoTail
    <3>5. toServer' = front \o (v \o e)
      <4>1. u \in Seq(Bytes)
        BY <2>3
      <4> HIDE DEF u, v, d
      <4>2. (front \o u) \o more = front \o (u \o more)
        <5>1. front \in Seq(Bytes) /\ u \in Seq(Bytes) /\ more \in Seq(Bytes)
          BY <1>2, <4>1
        <5> QED
          BY <5>1, JoinFrames
      <4>3. toServer = front \o u
        BY <2>4, <3>1, <3>4 DEF u
      <4> QED
        BY <1>3, <3>3, <3>4, <4>2, <4>3
    <3>6. Later(k, d, e)'
      <4> HIDE DEF d
      <4>1. Len(understood) + k + Len(d) = Len(given')
        <5> DEFINE n == Len(understood)
                   g == Len(given)
                   l == Len(due)
                   h == Len(d)
                   r == Len(given')
        <5>1. n \in Nat /\ k \in Nat /\ l \in Nat /\ n + k + l = g /\ h = l + 1 /\ r = g + 1
          BY <1>0, <2>a, <2>b, <3>1, <3>2
        <5> HIDE DEF n, g, l, h, r
        <5>2. n + k + h = r
          BY <5>1
        <5> QED
          BY <5>2 DEF n, h, r
      <4>2. \A i \in 1 .. Len(d) : given'[Len(understood) + k + i] = d[i]
        <5> TAKE i \in 1 .. Len(d)
        <5>1. CASE i = Len(due) + 1
          <6>1. Len(understood) + k + i = Len(given) + 1
            <7> DEFINE n == Len(understood)
                       g == Len(given)
                       l == Len(due)
            <7>1. n \in Nat /\ k \in Nat /\ l \in Nat /\ n + k + l = g /\ i = l + 1
              BY <1>0, <2>b, <3>1, <5>1
            <7> HIDE DEF n, g, l
            <7>2. n + k + i = g + 1
              BY <7>1
            <7> QED
              BY <7>2 DEF n, g
          <6> QED
            BY <2>a, <3>2, <5>1, <6>1
        <5>2. CASE i # Len(due) + 1
          <6>1. i \in 1 .. Len(due)
            BY <2>b, <3>2, <5>2
          <6>2. Len(understood) + k + i \in 1 .. Len(given)
            BY <1>0, <2>a, <2>b, <3>1, <6>1
          <6>3. given[Len(understood) + k + i] = due[i]
            BY <2>4, <6>1 DEF Later
          <6> QED
            BY <2>a, <3>2, <6>1, <6>2, <6>3
        <5> QED
          BY <5>1, <5>2
      <4>3. Len(understood) + k + Len(d) <= Len(given')
        BY <2>a, <4>1
      <4> QED
        BY <1>1, <2>5, <4>1, <4>2, <4>3 DEF Later
    <3>7. Owes(k, front, d, e)'
      BY <2>2, <3>5, <3>6 DEF Owes
    <3>8. e \in Seq(Bytes)
      OBVIOUS
    <3> HIDE DEF d, e
    <3> QED
      BY <3>2, <3>7, <3>8 DEF Going
  <2>6. CASE threw
    <3> DEFINE t == tail \o more
               u == Coming(due)
    <3>1. Breaks(tail)
      BY <2>4, <2>6 DEF Later
    <3>2. Breaks(t)
      BY <1>2, <3>1, BreaksMore
    <3>3. t \in Seq(Bytes)
      BY <1>2, JoinFrames
    <3>4. toServer' = front \o (u \o t)
      <4>1. u \in Seq(Bytes)
        BY <2>3
      <4>2. toServer = front \o (u \o tail)
        BY <2>4
      <4> HIDE DEF u
      <4>3. (front \o (u \o tail)) \o more = front \o (u \o (tail \o more))
        <5> DEFINE ut == u \o tail
        <5>1. more \in Seq(Bytes)
          BY <1>2
        <5>2. ut \o more = u \o (tail \o more) /\ ut \in Seq(Bytes)
          BY <4>1, <5>1, JoinFrames
        <5>3. ut \in Seq(Bytes)
          BY <5>2
        <5> HIDE DEF ut
        <5>4. (front \o ut) \o more = front \o (ut \o more)
          BY SMTT(20), <5>1, <5>3, JoinFrames
        <5> QED
          BY <5>2, <5>4 DEF ut
      <4> QED
        BY <1>3, <4>2, <4>3
    <3>5. Later(k, due, t)'
      <4>1. \A i \in 1 .. Len(due) : given'[Len(understood) + k + i] = due[i]
        <5> TAKE i \in 1 .. Len(due)
        <5>1. Len(understood) + k + i \in 1 .. Len(given)
          <6>1. Len(understood) + k + Len(due) <= Len(given)
            BY <2>4 DEF Later
          <6> QED
            BY <1>0, <2>a, <2>b, <6>1
        <5>2. given[Len(understood) + k + i] = due[i]
          BY <2>4 DEF Later
        <5> QED
          BY <2>a, <5>1, <5>2
      <4>2. Len(understood) + k + Len(due) <= Len(given')
        <5>1. Len(understood) + k + Len(due) <= Len(given)
          BY <2>4 DEF Later
        <5> QED
          BY <1>0, <2>a, <2>b, <5>1
      <4> HIDE DEF t
      <4> QED
        BY <1>1, <2>6, <3>2, <4>1, <4>2 DEF Later
    <3>6. Owes(k, front, due, t)'
      BY <2>2, <3>4, <3>5 DEF Owes
    <3> HIDE DEF t
    <3> QED
      BY <3>3, <3>6 DEF Going
  <2> QED
    BY <1>0, <2>5, <2>6
<1> QED
  BY <1>0, <1>1, <1>4, <1>5, <1>6, <1>7 DEF ServerInv

\* publish() throws, and its method is written.
LEMMA PublishThrows ==
  ASSUME ServerInv, NEW c \in Contents, Publish(c), ~Matches(c.properties)
  PROVE  ServerInv'
<1> DEFINE m == SendMethod(c)
           more == <<m>>
<1>0. /\ ServerTyped /\ AllWhole /\ (refused => threw) /\ (~refused => Stuck \/ Going)
      /\ toServer \in Seq(Bytes) /\ threw \in BOOLEAN /\ Len(understood) \in Nat
      /\ given \in Seq(Good)
  BY DEF ServerInv, ServerTyped
<1>1. /\ calls' = calls + 1 /\ calls < MaxContents /\ given' = given /\ threw' = TRUE
      /\ UNCHANGED server /\ toServer' = Append(toServer, m)
      /\ expecting' = expecting /\ reading' = reading /\ understood' = understood /\ refused' = refused
  BY DEF Publish, server
<1>2. m \in Bytes /\ m[1] = METHOD
  BY MethodFirst
<1> HIDE DEF m
<1>3. more \in Seq(Bytes) /\ Len(more) = 1 /\ more[1] = m
  BY <1>2
<1>4. toServer' = toServer \o more
  BY <1>0, <1>1, <1>2
<1> HIDE DEF more
<1>5. Len(more) >= 1 /\ more[1][1] = METHOD
  BY <1>2, <1>3
<1>6. ServerTyped'
  <2>1. threw' \in BOOLEAN
    BY <1>1
  <2> QED
    BY <1>0, <1>1, <1>3, <1>4, <2>1, TypedMore
<1>7. AllWhole'
  BY <1>0, <1>1, WholeKeeps
<1>8. ASSUME Stuck PROVE Stuck'
  <2>1. (toServer \o more)[1][1] = METHOD
    BY <1>0, <1>3, <1>5, <1>8, StillFirst DEF Stuck
  <2> QED
    BY <1>1, <1>4, <1>8, <2>1 DEF Stuck
<1>9. ASSUME Going PROVE Going'
  <2>1. PICK k \in {0, 1}, front \in Seq(Bytes), due \in Seq(Good), tail \in Seq(Bytes) :
               Owes(k, front, due, tail)
    BY <1>9 DEF Going
  <2>2. Progress(front, k)'
    BY <1>0, <1>1, <2>1, ProgressKeeps DEF Owes
  <2>3. Coming(due) \in Seq(Bytes)
    BY ComingType
  <2>4. toServer = front \o (Coming(due) \o tail) /\ Later(k, due, tail)
    BY <2>1 DEF Owes
  <2> DEFINE t == tail \o more
             u == Coming(due)
  <2>5. Breaks(t)
    <3>1. CASE threw
      <4>1. Breaks(tail)
        BY <2>4, <3>1 DEF Later
      <4> QED
        BY <1>3, <1>5, <4>1, BreaksMore
    <3>2. CASE ~threw
      <4>1. tail = <<>>
        BY <2>4, <3>2 DEF Later
      <4>2. t = more
        BY <1>3, <4>1
      <4> QED
        BY SMTT(20), <1>3, <1>5, <4>2 DEF Breaks
    <3> QED
      BY <3>1, <3>2
  <2>6. t \in Seq(Bytes)
    BY <1>3, JoinFrames
  <2>7. toServer' = front \o (u \o t)
    <3>1. u \in Seq(Bytes)
      BY <2>3
    <3>2. toServer = front \o (u \o tail)
      BY <2>4
    <3> HIDE DEF u
    <3>3. (front \o (u \o tail)) \o more = front \o (u \o (tail \o more))
      <4> DEFINE ut == u \o tail
      <4>1. more \in Seq(Bytes)
        BY <1>3
      <4>2. ut \o more = u \o (tail \o more) /\ ut \in Seq(Bytes)
        BY <3>1, <4>1, JoinFrames
      <4>3. ut \in Seq(Bytes)
        BY <4>2
      <4> HIDE DEF ut
      <4>4. (front \o ut) \o more = front \o (ut \o more)
        BY SMTT(20), <4>1, <4>3, JoinFrames
      <4> QED
        BY <4>2, <4>4 DEF ut
    <3> QED
      BY <1>4, <3>2, <3>3
  <2>8. Later(k, due, t)'
    <3> HIDE DEF t
    <3> QED
      BY <1>1, <2>4, <2>5 DEF Later
  <2>9. Owes(k, front, due, t)'
    BY <2>2, <2>7, <2>8 DEF Owes
  <2> HIDE DEF t
  <2> QED
    BY <2>6, <2>9 DEF Going
<1> QED
  BY <1>0, <1>1, <1>6, <1>7, <1>8, <1>9 DEF ServerInv

\* What the server hands on is sent in frames that fit.
LEMMA Whole4Message ==
  ASSUME NEW type \in {METHOD, HEADER, BODY}, NEW p \in Seq(Octet), Len(p) <= MaxFrame
  PROVE  Sent(type, p, "none") \in Message
<1> DEFINE f == Sent(type, p, "none")
<1>1. f = [frame |-> [type |-> type, channel |-> Channel, payload |-> p], flaw |-> "none"]
  BY DEF Sent
<1>2. /\ type \in Octet /\ type \in FrameTypes /\ "none" \in Flaws
  BY TypesOfFrames DEF FrameTypes, Flaws
<1>3. Len(p) \in Nat /\ Len(p) < Limit("client") /\ ~(Len(p) > MaxFrame)
  <2>1. Len(p) \in Nat
    OBVIOUS
  <2>2. Limit("client") \in Nat
    BY Sizes
  <2> QED
    BY <2>1, <2>2, LargestType
<1>4. f \in [frame : [type : Octet, channel : {Channel}, payload : Seq(Octet)], flaw : Flaws]
  BY <1>1, <1>2
<1>5. f.frame.payload = p /\ f.frame.type = type /\ f.flaw = "none"
  BY <1>1
<1> HIDE DEF f
<1>6. f \in Message
  BY <1>2, <1>3, <1>4, <1>5 DEF Message
<1> QED
  BY <1>6 DEF f

\* The tag of a delivery.
TagOf(n) == [i \in 1 .. 8 |-> IF i = 8 THEN n ELSE 0]

\* A tag of a delivery is eight octets.
LEMMA TagType == ASSUME NEW n \in Octet PROVE TagOf(n) \in Seq(Octet) /\ Len(TagOf(n)) = 8
<1>1. 0 \in Octet
  BY OctetType
<1>2. \A i \in 1 .. 8 : (IF i = 8 THEN n ELSE 0) \in Octet
  BY <1>1
<1> QED
  BY <1>2 DEF TagOf

\* The frames of a delivery: the method of the n-th, and the parts of the body.
DeliverOf(c, n) == MethodPayload(60, 60, DeliverFields, Delivering(TagOf(n), c.routingKey))

Half == MaxFrame \div 2

PartsBack(c) ==
  [i \in 1 .. (Len(c.body) + Half - 1) \div Half |->
    Sent(BODY, Take(Drop(c.body, (i - 1) * Half), Half), "none")]

\* What the server hands on are messages.
LEMMA DeliveryType ==
  ASSUME NEW c \in Good, Len(understood) \in Nat, Len(understood) < MaxContents
  PROVE  /\ Delivery(Whole(c)) \in Seq(Message)
         /\ Delivery(Whole(c)) = <<Sent(METHOD, DeliverOf(c, Len(understood) + 1), "none"),
                                   Sent(HEADER, HeaderOf(c), "none")>> \o PartsBack(c)
         /\ Sent(METHOD, DeliverOf(c, Len(understood) + 1), "none") \in Message
         /\ Sent(HEADER, HeaderOf(c), "none") \in Message
         /\ PartsBack(c) \in Seq(Message)
<1> DEFINE w == Whole(c)
           key == ReadMethod("server", PublishFields, w.method).routingKey
           tag == TagOf(Len(understood) + 1)
           args == Delivering(tag, key)
           a == SerializeInt(2, 60)
           s == SerializeFields(DeliverFields, args)
           p == MethodPayload(60, 60, DeliverFields, args)
           half == MaxFrame \div 2
           n == (Len(w.body) + half - 1) \div half
           q(i) == Take(Drop(w.body, (i - 1) * half), half)
           m1 == Sent(METHOD, p, "none")
           m2 == Sent(HEADER, w.header, "none")
           ms == [i \in 1 .. n |-> Sent(BODY, q(i), "none")]
<1>1. Taken(c) /\ c \in Contents
  BY GoodTaken
<1>2. w.method = MethodOf(c) /\ w.header = HeaderOf(c) /\ w.body = c.body
  BY DEF Whole
<1>3. key = c.routingKey /\ key \in Text /\ key \in Seq(Octet) /\ Len(key) < Base
  <2>1. ReadMethod("server", PublishFields, MethodOf(c)) = PublishArgs(c)
    BY <1>1, MethodType
  <2>2. PublishArgs(c).routingKey = c.routingKey
    BY DEF PublishArgs
  <2> QED
    BY <1>1, <1>2, <2>1, <2>2, ContentType DEF Text
<1>4. tag \in Seq(Octet) /\ Len(tag) = 8
  <2> DEFINE k == Len(understood) + 1
  <2>1. k \in Octet
    <3>1. Base \in Nat /\ MaxContents \in Nat /\ MaxContents < Base
      BY OctetType, ContentAssumption
    <3> QED
      BY <3>1 DEF Octet
  <2> HIDE DEF k
  <2>2. TagOf(k) \in Seq(Octet) /\ Len(TagOf(k)) = 8
    BY <2>1, TagType
  <2> QED
    BY <2>2 DEF k
<1>5. Delivery(w) = <<m1, m2>> \o ms
  BY DEF Delivery, Delivering, TagOf
<1>a. p = DeliverOf(c, Len(understood) + 1)
  <2> DEFINE k == c.routingKey
  <2>1. args = Delivering(tag, k)
    BY <1>3
  <2> QED
    BY <2>1 DEF DeliverOf
<1>b. ms = PartsBack(c)
  BY <1>2 DEF PartsBack, Half
<1> HIDE DEF key, tag
<1>6. s \in Seq(Octet) /\ Len(s) = 13 + Len(key)
  BY <1>3, <1>4, DeliverType
<1>7. p = (a \o a) \o s
  BY DEF MethodPayload
<1>8. a \in Seq(Octet) /\ Len(a) = 2
  BY Codes
<1> HIDE DEF a, s, p
<1>9. p \in Seq(Octet) /\ Len(p) = 4 + Len(s)
  BY <1>6, <1>7, <1>8, MethodBack
<1>10. Len(p) <= MaxFrame
  <2>1. Len(key) \in Nat /\ Base \in Nat
    BY <1>3, OctetType
  <2> QED
    BY <1>3, <1>6, <1>9, <2>1, LargestType
<1>11. m1 \in Message
  BY <1>9, <1>10, Whole4Message
<1>12. m2 \in Message
  <2>1. w.header \in Seq(Octet) /\ Len(w.header) <= MaxFrame
    <3>1. HeaderOf(c) \in Seq(Octet) /\ Len(HeaderOf(c)) + 8 <= MaxFrame
      BY <1>1, HeaderType
    <3>2. Len(HeaderOf(c)) \in Nat
      BY <3>1
    <3> QED
      BY <1>2, <3>1, <3>2, LargestType
  <2> QED
    BY <2>1, Whole4Message
<1>13. half \in Nat \ {0} /\ half <= MaxFrame
  <2>1. MaxFrame \in Nat /\ MaxFrame > 8
    BY ParserAssumption
  <2> QED
    BY <2>1
<1>14. w.body \in Seq(Octet) /\ Len(w.body) \in Nat
  BY <1>1, <1>2, HeaderType
<1> HIDE DEF half, w
<1>15. n \in Nat
  BY <1>13, <1>14, Pieces
<1>16. \A i \in Nat \ {0} : q(i) \in Seq(Octet) /\ Len(q(i)) <= MaxFrame
  <2> TAKE i \in Nat \ {0}
  <2> DEFINE k == (i - 1) * half
             d == Drop(w.body, k)
             x == Take(d, half)
  <2>1. k \in Nat
    <3>1. i - 1 \in Nat
      OBVIOUS
    <3> QED
      BY <1>13, <3>1
  <2> HIDE DEF k
  <2>2. d \in Seq(Octet)
    BY <1>14, <2>1, DropType
  <2> HIDE DEF d
  <2>3. x \in Seq(Octet) /\ Len(x) = (IF half <= Len(d) THEN half ELSE Len(d))
    BY <1>13, <2>2, TakeType
  <2>4. Len(x) <= half /\ Len(x) \in Nat
    <3>1. Len(d) \in Nat
      BY <2>2
    <3> QED
      BY <1>13, <2>3, <3>1
  <2> HIDE DEF x
  <2>5. Len(x) <= MaxFrame
    BY <1>13, <2>4, LargestType
  <2> QED
    BY <2>3, <2>5 DEF x, d, k
<1> HIDE DEF n, q
<1>17. \A i \in 1 .. n : Sent(BODY, q(i), "none") \in Message
  <2> TAKE i \in 1 .. n
  <2>1. q(i) \in Seq(Octet) /\ Len(q(i)) <= MaxFrame
    BY <1>15, <1>16
  <2> DEFINE x == q(i)
  <2> HIDE DEF x
  <2>2. Sent(BODY, x, "none") \in Message
    BY <2>1, Whole4Message DEF x
  <2> QED
    BY <2>2 DEF x
<1>18. ms \in Seq(Message)
  BY <1>15, <1>17
<1> HIDE DEF m1, m2, ms
<1>19. <<m1, m2>> \in Seq(Message)
  BY <1>11, <1>12
<1> DEFINE mm == <<m1, m2>>
<1>20. mm \o ms \in Seq(Message)
  <2>1. mm \in Seq(Message)
    BY <1>19
  <2> HIDE DEF mm
  <2> QED
    BY <1>18, <2>1, JoinAny
<1>21. m1 = Sent(METHOD, DeliverOf(c, Len(understood) + 1), "none")
  BY <1>a DEF m1
<1>22. m2 = Sent(HEADER, HeaderOf(c), "none")
  BY <1>2 DEF m2
<1>23. Delivery(w) \in Seq(Message) /\ Delivery(w) = <<m1, m2>> \o ms
  BY <1>5, <1>20
<1> QED
  BY <1>b, <1>11, <1>12, <1>18, <1>21, <1>22, <1>23 DEF w

\* The server writes to the client, or leaves it alone.
LEMMA ServerWrites ==
  ASSUME ServerReads
  PROVE  /\ UNCHANGED <<data, parse, executing, frameHeader, frame, frameBuffer, parsed, callbacks>>
         /\ given' = given /\ calls' = calls /\ threw' = threw
BY DEF ServerReads, client

\* It gets another frame than the expected one.
LEMMA ReadsUnexpected ==
  ASSUME ServerReads, Head(toServer)[1] # expecting
  PROVE  /\ refused' = TRUE /\ toServer' = Tail(toServer) /\ understood' = understood
         /\ bytes' = bytes /\ expecting' = expecting
BY DEF ServerReads

\* What the server has of a content with one frame more.
ReadOf(f, payload) ==
  CASE f[1] = METHOD -> [method |-> payload, header |-> <<>>, body |-> <<>>]
    [] f[1] = HEADER -> [reading EXCEPT !.header = payload]
    [] f[1] = BODY   -> [reading EXCEPT !.body = @ \o payload]

\* What it does with it.
Reads(f, read, complete) ==
  /\ toServer' = Tail(toServer)
  /\ IF f[1] # expecting
     THEN refused' = TRUE /\ UNCHANGED <<expecting, reading, understood, bytes>>
     ELSE /\ reading' = read
          /\ expecting' = CASE f[1] = METHOD -> HEADER
                            [] complete      -> METHOD
                            [] OTHER         -> BODY
          /\ IF complete
             THEN understood' = Append(understood, read) /\ Write(Delivery(read))
             ELSE UNCHANGED <<understood, bytes>>
          /\ UNCHANGED refused

\* What the server does with the next frame.
LEMMA ReadsSo ==
  ASSUME ServerReads, NEW f, f = Head(toServer), NEW p, p = SubSeq(f, 8, Len(f) - 1),
         NEW r, r = ReadOf(f, p)
  PROVE  Reads(f, r, f[1] # METHOD /\ Len(r.body) = ReadSize("server", r.header))
BY DEF ServerReads, Reads, ReadOf

\* It reads a method it expects.
LEMMA ReadsMethod ==
  ASSUME ServerReads, NEW p, Carries(Head(toServer), METHOD, p), expecting = METHOD
  PROVE  /\ toServer' = Tail(toServer) /\ expecting' = HEADER
         /\ reading' = [method |-> p, header |-> <<>>, body |-> <<>>]
         /\ understood' = understood /\ bytes' = bytes /\ refused' = refused
<1> DEFINE f == Head(toServer)
           r == [method |-> p, header |-> <<>>, body |-> <<>>]
           complete == f[1] # METHOD /\ Len(r.body) = ReadSize("server", r.header)
<1>1. f[1] = METHOD /\ p = SubSeq(f, 8, Len(f) - 1)
  BY DEF Carries
<1> HIDE DEF f
<1>2. r = ReadOf(f, p)
  BY <1>1 DEF ReadOf, METHOD, HEADER, BODY
<1> HIDE DEF r
<1>3. Reads(f, r, complete)
  BY <1>1, <1>2, ReadsSo DEF f
<1>4. ~complete
  BY <1>1
<1> HIDE DEF complete
<1>5. /\ toServer' = Tail(toServer) /\ expecting' = HEADER /\ reading' = r
      /\ understood' = understood /\ bytes' = bytes /\ refused' = refused
  BY <1>1, <1>3, <1>4 DEF Reads, METHOD
<1> QED
  BY <1>5 DEF r

\* A frame of a content completes it, or it does not.
ReadsOn(r) ==
  /\ toServer' = Tail(toServer) /\ reading' = r /\ refused' = refused
  /\ Len(r.body) = ReadSize("server", r.header) =>
       expecting' = METHOD /\ understood' = Append(understood, r) /\ Write(Delivery(r))
  /\ Len(r.body) # ReadSize("server", r.header) =>
       expecting' = BODY /\ understood' = understood /\ bytes' = bytes

\* It reads a header or a part of a body it expects.
LEMMA ReadsPart ==
  ASSUME ServerReads, NEW type \in {HEADER, BODY}, NEW p, Carries(Head(toServer), type, p),
         expecting = type, NEW r, r = ReadOf(Head(toServer), p)
  PROVE  ReadsOn(r)
<1> DEFINE f == Head(toServer)
           complete == f[1] # METHOD /\ Len(r.body) = ReadSize("server", r.header)
<1>1. f[1] = type /\ f[1] = expecting /\ p = SubSeq(f, 8, Len(f) - 1) /\ f[1] # METHOD
  BY DEF Carries, METHOD, HEADER, BODY
<1> HIDE DEF f
<1>3. Reads(f, r, complete)
  BY <1>1, ReadsSo DEF f
<1>4. complete <=> Len(r.body) = ReadSize("server", r.header)
  BY <1>1
<1> HIDE DEF complete
<1>5. toServer' = Tail(toServer) /\ reading' = r /\ refused' = refused
  BY <1>1, <1>3 DEF Reads
<1>6. CASE complete
  BY <1>1, <1>3, <1>4, <1>5, <1>6 DEF Reads, ReadsOn
<1>7. CASE ~complete
  <2>1. understood' = understood /\ bytes' = bytes /\ expecting' = BODY
    BY <1>1, <1>3, <1>7 DEF Reads
  <2> QED
    BY <1>4, <1>5, <1>7, <2>1 DEF ReadsOn
<1> QED
  BY <1>6, <1>7

\* It reads a header, after the method.
LEMMA ReadsHeader ==
  ASSUME ServerReads, NEW p, Carries(Head(toServer), HEADER, p), expecting = HEADER,
         NEW m, NEW b, reading = [method |-> m, header |-> <<>>, body |-> b]
  PROVE  ReadsOn([method |-> m, header |-> p, body |-> b])
<1> DEFINE f == Head(toServer)
           r == [method |-> m, header |-> p, body |-> b]
<1>1. f[1] = HEADER
  BY DEF Carries
<1> HIDE DEF f
<1>2. [reading EXCEPT !.header = p] = r
  OBVIOUS
<1> HIDE DEF r
<1>3. r = ReadOf(f, p)
  BY <1>1, <1>2 DEF ReadOf, METHOD, HEADER, BODY
<1>4. ReadsOn(r)
  BY <1>3, ReadsPart DEF f
<1> QED
  BY <1>4 DEF r

\* It reads a part of the body, after the header.
LEMMA ReadsBody ==
  ASSUME ServerReads, NEW p, Carries(Head(toServer), BODY, p), expecting = BODY,
         NEW m, NEW h, NEW b, reading = [method |-> m, header |-> h, body |-> b]
  PROVE  ReadsOn([method |-> m, header |-> h, body |-> b \o p])
<1> DEFINE f == Head(toServer)
           r == [method |-> m, header |-> h, body |-> b \o p]
<1>1. f[1] = BODY
  BY DEF Carries
<1> HIDE DEF f
<1>2. [reading EXCEPT !.body = @ \o p] = r
  <2> DEFINE q == b \o p
  <2>1. reading.body = b
    OBVIOUS
  <2> HIDE DEF q
  <2>2. [reading EXCEPT !.body = q] = [method |-> m, header |-> h, body |-> q]
    OBVIOUS
  <2>3. [reading EXCEPT !.body = reading.body \o p] = [reading EXCEPT !.body = q]
    BY <2>1 DEF q
  <2> QED
    BY <2>2, <2>3 DEF q
<1> HIDE DEF r
<1>3. r = ReadOf(f, p)
  BY <1>1, <1>2 DEF ReadOf, METHOD, HEADER, BODY
<1>4. ReadsOn(r)
  BY <1>3, ReadsPart DEF f
<1> QED
  BY <1>4 DEF r

\* A step of the server writes what the parser can read, or nothing.
Writes4Client == bytes' = bytes \/ \E frames \in Seq(Message) : Write(frames)

\* The content the server reads is one that was given.
LEMMA NowType ==
  ASSUME ServerTyped, Len(understood) < Len(given)
  PROVE  /\ Now \in Good /\ Taken(Now) /\ Whole(Now) \in ReadContent
         /\ Len(understood) \in Nat /\ Len(understood) < MaxContents
<1>1. /\ given \in Seq(Good) /\ Len(understood) \in Nat /\ Len(given) <= calls /\ calls \in 0 .. MaxContents
  BY DEF ServerTyped
<1>2. Len(given) \in Nat /\ Len(understood) + 1 \in 1 .. Len(given)
  BY <1>1
<1>3. Now \in Good
  BY <1>1, <1>2 DEF Now
<1>4. Taken(Now) /\ Now \in Contents
  BY <1>3, GoodTaken
<1>5. MethodOf(Now) \in Bytes /\ HeaderOf(Now) \in Bytes /\ Now.body \in Bytes
  BY <1>4, MethodType, HeaderType DEF Bytes
<1>6. Whole(Now) \in ReadContent
  BY <1>5 DEF Whole, ReadContent
<1>7. Len(understood) < MaxContents
  <2>1. MaxContents \in Nat
    BY ContentAssumption
  <2> QED
    BY <1>1, <1>2, <2>1
<1> QED
  BY <1>1, <1>3, <1>4, <1>6, <1>7

\* The first of the frames is read.
LEMMA FirstRead ==
  ASSUME NEW e \in Bytes, NEW u \in Seq(Bytes), toServer = <<e>> \o u
  PROVE  toServer \in Seq(Bytes) /\ Head(toServer) = e /\ Tail(toServer) = u
BY InFront

\* The server has read all of the content, or the next of its frames comes.
LEMMA AfterPart ==
  ASSUME ServerTyped, AllWhole, ~refused, given' = given, calls' = calls, threw' = threw,
         Len(understood) < Len(given), NEW j \in Nat, j <= Count(Now),
         ReadsOn([method |-> MethodOf(Now), header |-> HeaderOf(Now), body |-> SoFar(Now, j)]),
         NEW e \in Bytes, NEW due \in Seq(Good), NEW tail \in Seq(Bytes), Later(1, due, tail),
         toServer = <<e>> \o (PartsFrom(Now, j) \o (Coming(due) \o tail))
  PROVE  ServerInv' /\ Writes4Client
<1> DEFINE r == [method |-> MethodOf(Now), header |-> HeaderOf(Now), body |-> SoFar(Now, j)]
           n == Len(understood)
           u == Coming(due) \o tail
           front == PartsFrom(Now, j)
<1>1. /\ Now \in Good /\ Taken(Now) /\ Whole(Now) \in ReadContent /\ n \in Nat /\ n < MaxContents
  BY NowType
<1>2. /\ given \in Seq(Good) /\ understood \in Seq(ReadContent) /\ Len(given) \in Nat
      /\ threw \in BOOLEAN /\ refused \in BOOLEAN
      /\ calls \in 0 .. MaxContents /\ Len(given) <= calls
  BY DEF ServerTyped
<1>3. u \in Seq(Bytes) /\ front \in Seq(Bytes)
  <2>1. Coming(due) \in Seq(Bytes)
    BY ComingType
  <2> QED
    BY <1>1, <2>1, JoinFrames, PartsType
<1>4. front \o u \in Seq(Bytes)
  <2> HIDE DEF front, u
  <2> QED
    BY <1>3, JoinFrames
<1>5. Tail(toServer) = front \o u
  <2> DEFINE w == front \o u
  <2>1. toServer = <<e>> \o w /\ w \in Seq(Bytes)
    BY <1>4
  <2> HIDE DEF w
  <2>2. Tail(toServer) = w
    BY <2>1, FirstRead
  <2> QED
    BY <2>2 DEF w
<1>6. toServer' = front \o u /\ reading' = r /\ refused' = refused
  BY <1>5 DEF ReadsOn
<1>7. r.body = SoFar(Now, j) /\ ReadSize("server", r.header) = Len(Now.body)
  BY <1>1, HeaderType
<1> HIDE DEF u, front
<1>8. CASE j = Count(Now)
  <2>1. r = Whole(Now)
    <3>1. SoFar(Now, j) = Now.body
      <4>1. j >= Count(Now)
        BY <1>8
      <4> QED
        BY <1>1, <4>1, SoFarNext
    <3> QED
      BY <3>1 DEF Whole
  <2>2. Len(r.body) = ReadSize("server", r.header)
    BY <1>7, <2>1 DEF Whole
  <2>3. expecting' = METHOD /\ understood' = Append(understood, Whole(Now)) /\ Write(Delivery(Whole(Now)))
    BY <2>1, <2>2 DEF ReadsOn
  <2>4. /\ understood' \in Seq(ReadContent) /\ Len(understood') = n + 1
        /\ understood'[n + 1] = Whole(Now)
        /\ \A i \in 1 .. n : understood'[i] = understood[i]
    BY <1>1, <1>2, <2>3
  <2>5. ServerTyped'
    <3>1. toServer' \in Seq(Bytes)
      BY <1>4, <1>6
    <3>2. n + 1 <= Len(given)
      BY <1>1, <1>2
    <3> QED
      BY <1>2, <1>6, <2>3, <2>4, <3>1, <3>2 DEF ServerTyped
  <2>6. AllWhole'
    <3> SUFFICES ASSUME NEW i \in 1 .. n + 1 PROVE understood'[i] = Whole(given[i])
      BY <2>4 DEF AllWhole
    <3>1. CASE i = n + 1
      BY <2>4, <3>1 DEF Now
    <3>2. CASE i # n + 1
      <4>1. i \in 1 .. n
        BY <1>1, <3>2
      <4> QED
        BY <2>4, <4>1 DEF AllWhole
    <3> QED
      BY <3>1, <3>2
  <2>7. Going'
    <3> DEFINE z == <<>>
    <3>1. z \in Seq(Bytes)
      OBVIOUS
    <3>2. toServer' = z \o (Coming(due) \o tail)
      <4>1. front = z
        BY <1>1, <1>8, PartsNext DEF front
      <4> QED
        BY <1>6, <4>1 DEF u
    <3>3. Progress(z, 0)'
      BY <2>3 DEF Progress, AwaitsMethod
    <3> HIDE DEF z
    <3>4. Later(0, due, tail)'
      <4>1. Len(due) \in Nat /\ Len(understood) + 1 = Len(understood')
        BY <2>4
      <4>2. Len(understood') + 0 = Len(understood) + 1
        BY <1>1, <4>1
      <4> QED
        BY <4>2 DEF Later
    <3>5. Owes(0, z, due, tail)'
      BY <3>2, <3>3, <3>4 DEF Owes
    <3> QED
      BY <3>1, <3>5 DEF Going
  <2>8. Delivery(Whole(Now)) \in Seq(Message)
    BY <1>1, DeliveryType
  <2>9. Writes4Client
    BY <2>3, <2>8 DEF Writes4Client
  <2> QED
    BY <1>6, <2>5, <2>6, <2>7, <2>9 DEF ServerInv
<1>9. CASE j < Count(Now)
  <2>1. Len(r.body) # ReadSize("server", r.header)
    BY <1>1, <1>7, <1>9, SoFarNext
  <2>2. expecting' = BODY /\ understood' = understood /\ bytes' = bytes
    BY <2>1 DEF ReadsOn
  <2>3. ServerTyped'
    <3>1. toServer' \in Seq(Bytes)
      BY <1>4, <1>6
    <3> QED
      BY <1>2, <1>6, <2>2, <3>1 DEF ServerTyped
  <2>4. AllWhole'
    BY <2>2 DEF AllWhole
  <2>5. Now' = Now
    BY <2>2 DEF Now
  <2>a. PICK x : x = front
    OBVIOUS
  <2>6. AwaitsBody(x, 1, j)'
    BY <1>6, <1>9, <2>2, <2>5, <2>a DEF AwaitsBody, front
  <2>7. Later(1, due, tail)'
    BY <2>2 DEF Later
  <2>8. Owes(1, x, due, tail)'
    <3>1. Progress(x, 1)'
      BY <2>6 DEF Progress
    <3>2. toServer' = x \o (Coming(due) \o tail)
      BY <1>6, <2>a DEF u
    <3> QED
      BY <2>7, <3>1, <3>2 DEF Owes
  <2>9. Going'
    <3>1. x \in Seq(Bytes) /\ 1 \in {0, 1}
      BY <1>3, <2>a
    <3> QED
      BY <2>8, <3>1 DEF Going
  <2> QED
    BY <1>6, <2>2, <2>3, <2>4, <2>9 DEF ServerInv, Writes4Client
<1>10. Count(Now) \in Nat
  BY <1>1, PartsType
<1> QED
  BY <1>8, <1>9, <1>10

\* Another frame than the expected one.
LEMMA KeepsRefused ==
  ASSUME ServerInv, threw, ServerReads, Head(toServer)[1] # expecting
  PROVE  ServerInv' /\ Writes4Client
<1>1. /\ refused' = TRUE /\ toServer' = Tail(toServer) /\ understood' = understood
      /\ bytes' = bytes /\ expecting' = expecting
  BY ReadsUnexpected
<1>2. given' = given /\ calls' = calls /\ threw' = threw
  BY ServerWrites
<1>3. ServerTyped'
  <2>1. toServer \in Seq(Bytes) /\ toServer # <<>>
    BY DEF ServerInv, ServerTyped, ServerReads
  <2>2. Tail(toServer) \in Seq(Bytes)
    BY <2>1
  <2> QED
    BY <1>1, <1>2, <2>2 DEF ServerInv, ServerTyped
<1>4. AllWhole'
  BY <1>1, <1>2 DEF ServerInv, AllWhole
<1> QED
  BY <1>1, <1>2, <1>3, <1>4 DEF ServerInv, Writes4Client

\* The method of a content, or one whose content never came.
LEMMA KeepsMethod ==
  ASSUME ServerInv, ServerReads, NEW due \in Seq(Good), NEW tail \in Seq(Bytes),
         Owes(0, <<>>, due, tail), expecting = METHOD
  PROVE  ServerInv' /\ Writes4Client
<1> DEFINE n == Len(understood)
<1>1. /\ ServerTyped /\ AllWhole /\ given \in Seq(Good) /\ n \in Nat /\ Len(given) \in Nat
      /\ toServer \in Seq(Bytes) /\ toServer # <<>> /\ ~refused /\ threw \in BOOLEAN
  BY DEF ServerInv, ServerTyped, ServerReads
<1>2. given' = given /\ calls' = calls /\ threw' = threw
  BY ServerWrites
<1>3. Later(0, due, tail) /\ toServer = Coming(due) \o tail
  <2> DEFINE w == Coming(due) \o tail
             z == <<>>
  <2>1. Later(0, due, tail) /\ toServer = z \o w
    BY DEF Owes
  <2>2. w \in Seq(Bytes)
    BY ComingType, JoinFrames
  <2> HIDE DEF w
  <2>3. z \o w = w
    BY <2>2
  <2> QED
    BY <2>1, <2>3 DEF w
<1>4. /\ n + 0 + Len(due) <= Len(given) /\ Len(due) \in Nat
      /\ \A i \in 1 .. Len(due) : given[n + 0 + i] = due[i]
      /\ ~threw => tail = <<>> /\ n + 0 + Len(due) = Len(given)
      /\ threw => Breaks(tail)
  BY <1>3 DEF Later
<1>5. ASSUME expecting' = HEADER, understood' = understood, refused' = refused, toServer' = Tail(toServer)
      PROVE  ServerTyped' /\ AllWhole'
  <2>1. Tail(toServer) \in Seq(Bytes)
    BY <1>1
  <2>2. ServerTyped'
    BY <1>1, <1>2, <1>5, <2>1 DEF ServerTyped
  <2>3. AllWhole'
    BY <1>1, <1>2, <1>5 DEF AllWhole
  <2> QED
    BY <2>2, <2>3
<1>6. CASE due = <<>>
  <2>1. Coming(due) = <<>>
    BY <1>6, ComingNone
  <2>2. toServer = tail
    BY <1>3, <2>1
  <2>3. threw /\ Breaks(tail)
    BY <1>1, <1>4, <2>2
  <2>4. Head(toServer) = tail[1] /\ tail[1] \in Bytes /\ tail[1][1] = METHOD
    BY <1>1, <2>2, <2>3 DEF Breaks
  <2> DEFINE p == SubSeq(Head(toServer), 8, Len(Head(toServer)) - 1)
  <2>5. Carries(Head(toServer), METHOD, p)
    BY <2>4 DEF Carries
  <2> HIDE DEF p
  <2>6. /\ toServer' = Tail(toServer) /\ expecting' = HEADER
        /\ understood' = understood /\ bytes' = bytes /\ refused' = refused
    BY <2>5, ReadsMethod
  <2>7. Stuck'
    <3> DEFINE t == Tail(toServer)
    <3>1. Len(t) >= 1 => Len(tail) >= 2 /\ t[1] = tail[2]
      BY <1>1, <2>2
    <3> QED
      BY <1>2, <2>3, <2>6, <3>1 DEF Stuck, Breaks
  <2> QED
    BY <1>1, <1>5, <2>6, <2>7 DEF ServerInv, Writes4Client
<1>7. CASE due # <<>>
  <2> DEFINE c == due[1]
             d == Tail(due)
             u == Coming(d)
             sm == SendMethod(c)
             front == <<HeaderFrame(c)>> \o PartsFrom(c, 0)
             ut == u \o tail
  <2>1. /\ c \in Good /\ d \in Seq(Good) /\ Len(d) = Len(due) - 1 /\ Len(due) >= 1
        /\ \A i \in 1 .. Len(due) - 1 : d[i] = due[i + 1]
        /\ Coming(due) = FramesOf(c) \o u
    BY <1>7, ComingNext
  <2>2. /\ FramesOf(c) = <<sm>> \o front /\ FramesOf(c) \in Seq(Bytes)
        /\ Carries(sm, METHOD, MethodOf(c)) /\ Carries(HeaderFrame(c), HEADER, HeaderOf(c))
    BY <2>1, FramesShape
  <2>3. front \in Seq(Bytes) /\ u \in Seq(Bytes)
    <3>1. PartsFrom(c, 0) \in Seq(Bytes) /\ HeaderFrame(c) \in Bytes
      <4>1. 0 \in Nat /\ Taken(c)
        BY <2>1, GoodTaken
      <4> QED
        BY <2>2, <4>1, PartsType DEF Carries
    <3> DEFINE h == HeaderFrame(c)
               p == PartsFrom(c, 0)
    <3>2. h \in Bytes /\ p \in Seq(Bytes)
      BY <3>1
    <3> HIDE DEF h, p
    <3>3. <<h>> \o p \in Seq(Bytes)
      BY <3>2, InFront
    <3>4. Coming(d) \in Seq(Bytes)
      BY <2>1, ComingType
    <3> QED
      BY <3>3, <3>4 DEF h, p
  <2> HIDE DEF sm, front, u
  <2>4. ut \in Seq(Bytes) /\ front \o ut \in Seq(Bytes)
    <3>1. ut \in Seq(Bytes)
      BY <2>3, JoinFrames
    <3> HIDE DEF ut
    <3> QED
      BY <2>3, <3>1, JoinFrames
  <2>5. toServer = <<sm>> \o (front \o ut)
    <3> DEFINE x == <<sm>>
               f == FramesOf(c)
    <3>1. sm \in Bytes
      BY <2>2 DEF Carries
    <3>2. x \in Seq(Bytes)
      BY <3>1
    <3>3. toServer = (f \o u) \o tail /\ f = x \o front /\ f \in Seq(Bytes)
      BY <1>3, <2>1, <2>2
    <3> HIDE DEF x, f
    <3>4. (f \o u) \o tail = f \o (u \o tail)
      BY <2>3, <3>3, JoinFrames
    <3> HIDE DEF ut
    <3>5. (x \o front) \o ut = x \o (front \o ut)
      BY SMTT(20), <2>3, <2>4, <3>2, JoinFrames
    <3> QED
      BY <3>3, <3>4, <3>5 DEF ut, x
  <2>6. Head(toServer) = sm /\ Tail(toServer) = front \o ut
    <3> DEFINE w == front \o ut
    <3>1. w \in Seq(Bytes) /\ toServer = <<sm>> \o w /\ sm \in Bytes
      BY <2>2, <2>4, <2>5 DEF Carries
    <3> HIDE DEF w
    <3>2. Head(toServer) = sm /\ Tail(toServer) = w
      BY <3>1, FirstRead
    <3> QED
      BY <3>2 DEF w
  <2>7. /\ toServer' = Tail(toServer) /\ expecting' = HEADER
        /\ reading' = [method |-> MethodOf(c), header |-> <<>>, body |-> <<>>]
        /\ understood' = understood /\ bytes' = bytes /\ refused' = refused
    BY <2>2, <2>6, ReadsMethod
  <2>8. n < Len(given) /\ Now = c /\ Now' = c
    <3>1. given[n + 0 + 1] = due[1]
      BY <1>4, <2>1
    <3>2. n + 0 + 1 = n + 1
      BY <1>1
    <3>3. n < Len(given)
      BY <1>1, <1>4, <2>1
    <3> QED
      BY <1>2, <2>7, <3>1, <3>2, <3>3 DEF Now
  <2>9. AwaitsHeader(front, 1)'
    BY <1>2, <2>7, <2>8 DEF AwaitsHeader, front
  <2>10. Later(1, d, tail)'
    <3>1. n + 1 + Len(d) = n + 0 + Len(due)
      <4> DEFINE k == Len(due)
                 l == Len(d)
      <4>1. k \in Nat /\ l = k - 1 /\ n \in Nat
        BY <1>1, <1>4, <2>1
      <4> HIDE DEF k, l, n
      <4>2. n + 1 + l = n + 0 + k
        BY <4>1
      <4> QED
        BY <4>2 DEF k, l
    <3>2. \A i \in 1 .. Len(d) : given[n + 1 + i] = d[i]
      <4> TAKE i \in 1 .. Len(d)
      <4>1. i + 1 \in 1 .. Len(due) /\ i \in 1 .. Len(due) - 1 /\ n + 0 + (i + 1) = n + 1 + i
        BY <1>1, <1>4, <2>1
      <4>2. given[n + 0 + (i + 1)] = due[i + 1]
        BY <1>4, <4>1
      <4> QED
        BY <2>1, <4>1, <4>2
    <3> HIDE DEF d
    <3>3. n + 1 + Len(d) <= Len(given)
      BY <1>4, <3>1
    <3> QED
      BY <1>2, <1>4, <2>7, <3>1, <3>2, <3>3 DEF Later
  <2>11. Owes(1, front, d, tail)'
    BY <2>6, <2>7, <2>9, <2>10 DEF Owes, Progress, u
  <2>12. Going'
    <3> HIDE DEF d
    <3> QED
      BY <2>1, <2>3, <2>11 DEF Going
  <2> QED
    BY <1>1, <1>5, <2>7, <2>12 DEF ServerInv, Writes4Client
<1> QED
  BY <1>6, <1>7

\* The header of a content.
LEMMA KeepsHeader ==
  ASSUME ServerInv, ServerReads, NEW front, NEW due \in Seq(Good), NEW tail \in Seq(Bytes),
         Owes(1, front, due, tail), AwaitsHeader(front, 1)
  PROVE  ServerInv' /\ Writes4Client
<1> DEFINE u == Coming(due) \o tail
           h == HeaderFrame(Now)
           p == PartsFrom(Now, 0)
<1>1. /\ ServerTyped /\ AllWhole /\ ~refused /\ given' = given /\ calls' = calls /\ threw' = threw
      /\ Len(understood) < Len(given) /\ expecting = HEADER
      /\ reading = [method |-> MethodOf(Now), header |-> <<>>, body |-> <<>>]
      /\ Later(1, due, tail) /\ toServer = (<<h>> \o p) \o u
  BY ServerWrites DEF ServerInv, ServerReads, AwaitsHeader, Owes
<1>2. Now \in Good /\ Taken(Now) /\ Count(Now) \in Nat /\ p \in Seq(Bytes)
  BY <1>1, NowType, PartsType
<1>3. Carries(h, HEADER, HeaderOf(Now)) /\ h \in Bytes
  BY <1>2, FramesShape DEF Carries
<1>4. u \in Seq(Bytes)
  BY ComingType, JoinFrames
<1>5. toServer = <<h>> \o (p \o u) /\ Head(toServer) = h
  <2> DEFINE x == <<h>>
             pu == p \o u
  <2> HIDE DEF h, p, u
  <2>1. x \in Seq(Bytes)
    BY <1>3
  <2> HIDE DEF x
  <2>2. (x \o p) \o u = x \o (p \o u)
    BY <1>2, <1>4, <2>1, JoinFrames
  <2>3. pu \in Seq(Bytes)
    BY <1>2, <1>4, JoinFrames
  <2>4. toServer = x \o pu
    BY <1>1, <2>2 DEF x
  <2> HIDE DEF pu
  <2>5. Head(toServer) = h
    BY <1>3, <2>3, <2>4, FirstRead DEF x
  <2> QED
    BY <2>4, <2>5 DEF x, pu
<1>6. ReadsOn([method |-> MethodOf(Now), header |-> HeaderOf(Now), body |-> <<>>])
  <2> DEFINE m == MethodOf(Now)
             o == HeaderOf(Now)
             z == <<>>
  <2>1. Carries(Head(toServer), HEADER, o) /\ reading = [method |-> m, header |-> <<>>, body |-> z]
    BY <1>1, <1>3, <1>5
  <2> HIDE DEF m, o, z
  <2>2. ReadsOn([method |-> m, header |-> o, body |-> z])
    BY <1>1, <2>1, ReadsHeader
  <2> QED
    BY <2>2 DEF m, o, z
<1>7. SoFar(Now, 0) = <<>>
  BY <1>2, SoFarNext
<1>8. ReadsOn([method |-> MethodOf(Now), header |-> HeaderOf(Now), body |-> SoFar(Now, 0)])
  BY <1>6, <1>7
<1>9. 0 \in Nat /\ 0 <= Count(Now)
  BY <1>2
<1>10. toServer = <<h>> \o (PartsFrom(Now, 0) \o (Coming(due) \o tail))
  BY <1>5
<1> HIDE DEF h
<1> QED
  BY <1>1, <1>3, <1>8, <1>9, <1>10, AfterPart

\* A frame of its body.
LEMMA KeepsBody ==
  ASSUME ServerInv, ServerReads, NEW front, NEW due \in Seq(Good), NEW tail \in Seq(Bytes),
         Owes(1, front, due, tail), NEW j \in Nat, AwaitsBody(front, 1, j)
  PROVE  ServerInv' /\ Writes4Client
<1> DEFINE u == Coming(due) \o tail
           i == j + 1
           part == PartOf(Now, i)
           h == Frame(BODY, Channel, part)
           p == PartsFrom(Now, i)
<1>1. /\ ServerTyped /\ AllWhole /\ ~refused /\ given' = given /\ calls' = calls /\ threw' = threw
      /\ Len(understood) < Len(given) /\ expecting = BODY /\ j < Count(Now)
      /\ reading = [method |-> MethodOf(Now), header |-> HeaderOf(Now), body |-> SoFar(Now, j)]
      /\ Later(1, due, tail) /\ toServer = PartsFrom(Now, j) \o u
  BY ServerWrites DEF ServerInv, ServerReads, AwaitsBody, Owes
<1>0. i \in Nat /\ i \in Nat \ {0}
  OBVIOUS
<1>2. Now \in Good /\ Taken(Now) /\ Count(Now) \in Nat /\ p \in Seq(Bytes)
  <2> HIDE DEF i
  <2> QED
    BY <1>0, <1>1, NowType, PartsType
<1>3. Carries(h, BODY, part) /\ h \in Bytes
  <2> HIDE DEF i
  <2> QED
    BY <1>0, <1>2, FramesShape DEF Carries
<1>4. u \in Seq(Bytes)
  BY ComingType, JoinFrames
<1>a. PartsFrom(Now, j) = <<h>> \o p
  BY <1>1, <1>2, PartsNext
<1>5. toServer = <<h>> \o (p \o u) /\ Head(toServer) = h
  <2> DEFINE x == <<h>>
             pu == p \o u
  <2> HIDE DEF h, p, u
  <2>1. x \in Seq(Bytes)
    BY <1>3
  <2> HIDE DEF x
  <2>2. (x \o p) \o u = x \o (p \o u)
    BY <1>2, <1>4, <2>1, JoinFrames
  <2>3. pu \in Seq(Bytes)
    BY <1>2, <1>4, JoinFrames
  <2>4. toServer = x \o pu
    BY <1>1, <1>a, <2>2 DEF x
  <2> HIDE DEF pu
  <2>5. Head(toServer) = h
    BY <1>3, <2>3, <2>4, FirstRead DEF x
  <2> QED
    BY <2>4, <2>5 DEF x, pu
<1>6. ReadsOn([method |-> MethodOf(Now), header |-> HeaderOf(Now), body |-> SoFar(Now, j) \o part])
  <2> DEFINE m == MethodOf(Now)
             o == HeaderOf(Now)
             z == SoFar(Now, j)
  <2>1. Carries(Head(toServer), BODY, part) /\ reading = [method |-> m, header |-> o, body |-> z]
    BY <1>1, <1>3, <1>5
  <2> HIDE DEF m, o, z, part
  <2>2. ReadsOn([method |-> m, header |-> o, body |-> z \o part])
    BY <1>1, <2>1, ReadsBody
  <2> QED
    BY <2>2 DEF m, o, z, part
<1>7. SoFar(Now, j) \o part = SoFar(Now, i)
  BY <1>2, SoFarNext
<1>8. ReadsOn([method |-> MethodOf(Now), header |-> HeaderOf(Now), body |-> SoFar(Now, i)])
  BY <1>6, <1>7
<1>9. i <= Count(Now)
  BY <1>1, <1>2
<1>10. toServer = <<h>> \o (PartsFrom(Now, i) \o (Coming(due) \o tail))
  BY <1>5
<1> HIDE DEF h, i
<1> QED
  BY <1>0, <1>1, <1>3, <1>8, <1>9, <1>10, AfterPart

\* Whatever the server reads, it stays in step with what is published.
LEMMA KeepsReading == ASSUME ServerInv, ServerReads PROVE ServerInv' /\ Writes4Client
<1>1. ~refused /\ (Stuck \/ Going) /\ toServer # <<>> /\ toServer \in Seq(Bytes)
  BY DEF ServerInv, ServerReads, ServerTyped
<1>2. CASE Stuck
  <2>1. Len(toServer) >= 1 /\ Head(toServer) = toServer[1]
    BY <1>1
  <2>2. threw /\ Head(toServer)[1] # expecting
    BY <1>2, <2>1 DEF Stuck, METHOD, HEADER
  <2> QED
    BY <2>2, KeepsRefused
<1>3. CASE Going
  <2>1. PICK k \in {0, 1}, front \in Seq(Bytes), due \in Seq(Good), tail \in Seq(Bytes) :
               Owes(k, front, due, tail)
    BY <1>3 DEF Going
  <2>2. CASE AwaitsMethod(front, k)
    <3>1. k = 0 /\ front = <<>> /\ expecting = METHOD
      BY <2>2 DEF AwaitsMethod
    <3> QED
      BY <2>1, <3>1, KeepsMethod
  <2>3. CASE AwaitsHeader(front, k)
    <3>1. k = 1
      BY <2>3 DEF AwaitsHeader
    <3> QED
      BY <2>1, <2>3, <3>1, KeepsHeader
  <2>4. CASE \E j \in Nat : AwaitsBody(front, k, j)
    <3>1. PICK j \in Nat : AwaitsBody(front, k, j)
      BY <2>4
    <3>2. k = 1
      BY <3>1 DEF AwaitsBody
    <3> QED
      BY <2>1, <3>1, <3>2, KeepsBody
  <2> QED
    BY <2>1, <2>2, <2>3, <2>4 DEF Owes, Progress
<1> QED
  BY <1>1, <1>2, <1>3

-----------------------------------------------------------------------------
(* All together *)

\* The frames that are no content's.
LEMMA OtherMessage ==
  ASSUME NEW type, NEW size, NEW flaw,
         \/ type = Heartbeat /\ size = 0 /\ flaw = "none"
         \/ type = Heartbeat + 1 /\ size = 1 /\ flaw = "type"
         \/ type = BODY /\ size = MaxFrame + 1 /\ flaw = "size"
         \/ type = BODY /\ size = 2 /\ flaw = "end"
  PROVE  Sent(type, [i \in 1 .. size |-> FrameEnd], flaw) \in Message
<1> DEFINE p == [i \in 1 .. size |-> FrameEnd]
           f == Sent(type, p, flaw)
<1>1. /\ Heartbeat \in Octet /\ Heartbeat + 1 \in Octet /\ Heartbeat \in Nat /\ Heartbeat + 1 # Heartbeat
      /\ Heartbeat + 1 \notin {METHOD, HEADER, BODY} /\ FrameEnd \in Octet
  <2>1. Octet \subseteq Nat
    <3>1. Base \in Nat
      BY OctetType
    <3> QED
      BY <3>1 DEF Octet
  <2>2. /\ Heartbeat \in Octet /\ Heartbeat + 1 \in Octet
        /\ Heartbeat + 1 \notin {METHOD, HEADER, BODY} /\ FrameEnd \in Octet
    BY ParserAssumption, CodecAssumption
  <2> QED
    BY <2>1, <2>2
<1>2. MaxFrame \in Nat /\ MaxFrame > 8 /\ MaxFrame + 1 < Limit("client")
  BY ParserAssumption, LargestType
<1>3. Limit("client") \in Nat
  BY Sizes
<1>4. size \in Nat /\ size < Limit("client") /\ (size > MaxFrame <=> flaw = "size")
  <2>1. CASE type = Heartbeat /\ size = 0 /\ flaw = "none"
    BY <1>2, <1>3, <2>1
  <2>2. CASE type = Heartbeat + 1 /\ size = 1 /\ flaw = "type"
    BY <1>2, <1>3, <2>2
  <2>3. CASE type = BODY /\ size = MaxFrame + 1 /\ flaw = "size"
    BY <1>2, <1>3, <2>3
  <2>4. CASE type = BODY /\ size = 2 /\ flaw = "end"
    BY <1>2, <1>3, <2>4
  <2> QED
    BY <2>1, <2>2, <2>3, <2>4
<1>5. type \in Octet /\ flaw \in Flaws /\ (flaw = "type" <=> type \notin FrameTypes)
  BY <1>1, TypesOfFrames DEF Flaws, FrameTypes
<1>6. p \in Seq(Octet) /\ Len(p) = size
  BY <1>1, <1>4
<1> HIDE DEF p
<1>7. f = [frame |-> [type |-> type, channel |-> Channel, payload |-> p], flaw |-> flaw]
  BY DEF Sent
<1>8. f \in [frame : [type : Octet, channel : {Channel}, payload : Seq(Octet)], flaw : Flaws]
  BY <1>5, <1>6, <1>7
<1>9. f.frame.payload = p /\ f.frame.type = type /\ f.flaw = flaw
  BY <1>7
<1> HIDE DEF f
<1>10. f \in Message
  BY <1>4, <1>5, <1>6, <1>8, <1>9 DEF Message
<1> QED
  BY <1>10 DEF f, p

\* What else the server sends is a message.
LEMMA ServerSendsMessage ==
  ASSUME ServerSends
  PROVE  Sending /\ UNCHANGED <<client, toServer, server>>
<1>1. PICK type, size, flaw :
             /\ \/ type = Heartbeat /\ size = 0 /\ flaw = "none"
                \/ type = Heartbeat + 1 /\ size = 1 /\ flaw = "type"
                \/ type = BODY /\ size = MaxFrame + 1 /\ flaw = "size"
                \/ type = BODY /\ size = 2 /\ flaw = "end"
             /\ SendOther(type, size, flaw)
  BY DEF ServerSends
<1> DEFINE m == Sent(type, [i \in 1 .. size |-> FrameEnd], flaw)
<1>2. m \in Message
  BY <1>1, OtherMessage
<1>3. /\ Write(<<m>>)
      /\ UNCHANGED <<client, toServer, server, data, parse, executing, frameHeader, frame,
                     frameBuffer, parsed, callbacks>>
  BY <1>1 DEF SendOther
<1> HIDE DEF m
<1>4. <<m>> \in Seq(Message)
  BY <1>2
<1>5. \E frames \in Seq(Message) : Write(frames)
  BY <1>3, <1>4
<1> QED
  BY <1>3, <1>5 DEF Sending

WireInv == ParserInv /\ ServerInv

\* A step of the specification, seen by the parser and by the server.
LEMMA StepKeeps == ASSUME WireInv, [Next]_vars PROVE WireInv' /\ [Stream!Next]_(Stream!vars)
<1>1. ParserInv /\ ServerInv
  BY DEF WireInv
<1>2. ASSUME NEW c \in Contents, Publish(c) PROVE WireInv' /\ [Stream!Next]_(Stream!vars)
  <2>1. UNCHANGED parserVars
    BY <1>2 DEF Publish
  <2>2. ParserInv'
    BY <1>1, <2>1, ParserIdle
  <2>3. ServerInv'
    BY <1>1, <1>2, PublishTaken, PublishThrows
  <2>4. UNCHANGED Stream!vars
    BY <2>1 DEF parserVars, bytes, callbacks, Stream!vars
  <2> QED
    BY <2>2, <2>3, <2>4 DEF WireInv
<1>3. ASSUME ServerReads PROVE WireInv' /\ [Stream!Next]_(Stream!vars)
  <2>1. ServerInv' /\ Writes4Client
    BY <1>1, <1>3, KeepsReading
  <2>2. UNCHANGED <<data, parse, executing, frameHeader, frame, frameBuffer, parsed, callbacks>>
    BY <1>3, ServerWrites
  <2>3. CASE bytes' = bytes
    <3>1. UNCHANGED parserVars
      BY <2>2, <2>3 DEF parserVars
    <3>2. ParserInv'
      BY <1>1, <3>1, ParserIdle
    <3>3. UNCHANGED Stream!vars
      BY <3>1 DEF parserVars, bytes, callbacks, Stream!vars
    <3> QED
      BY <2>1, <3>2, <3>3 DEF WireInv
  <2>4. CASE \E frames \in Seq(Message) : Write(frames)
    <3>1. Sending
      BY <2>2, <2>4 DEF Sending
    <3> QED
      BY <1>1, <2>1, <3>1, SendingKeeps, StreamSending DEF WireInv
  <2> QED
    BY <2>1, <2>3, <2>4 DEF Writes4Client
<1>4. ASSUME ServerSends PROVE WireInv' /\ [Stream!Next]_(Stream!vars)
  <2>1. Sending /\ UNCHANGED <<client, toServer, server>>
    BY <1>4, ServerSendsMessage
  <2>2. ServerInv'
    BY <1>1, <2>1, ServerIdle
  <2> QED
    BY <1>1, <2>1, <2>2, SendingKeeps, StreamSending DEF WireInv
<1>5. ASSUME ParserStep PROVE WireInv' /\ [Stream!Next]_(Stream!vars)
  <2>1. UNCHANGED <<client, toServer, server>>
    BY <1>5 DEF ParserStep
  <2>2. ServerInv'
    BY <1>1, <2>1, ServerIdle
  <2>3. ASSUME NEW n \in Chunks, Data(n) PROVE ParserInv' /\ [Stream!Next]_(Stream!vars)
    <3>1. n \in Nat \ {0}
      BY ParserAssumption
    <3>2. ParserInv'
      BY <1>1, <2>3, <3>1, DataKeeps
    <3>3. UNCHANGED Stream!vars
      BY <1>1, <2>3, <3>1, StreamData
    <3> QED
      BY <3>2, <3>3
  <2>4. ASSUME Execute PROVE ParserInv' /\ [Stream!Next]_(Stream!vars)
    <3>1. CASE Header
      BY <1>1, <3>1, HeaderKeeps, StreamHeader
    <3>2. CASE Payload
      BY <1>1, <3>2, PayloadKeeps, StreamPayload
    <3>3. CASE EndOfFrame
      BY <1>1, <3>3, EndKeeps, StreamEnd
    <3> QED
      BY <2>4, <3>1, <3>2, <3>3 DEF Execute
  <2> QED
    BY <1>5, <2>2, <2>3, <2>4 DEF ParserStep, WireInv
<1>6. ASSUME UNCHANGED vars PROVE WireInv' /\ [Stream!Next]_(Stream!vars)
  <2>1. UNCHANGED parserVars /\ UNCHANGED <<client, toServer, server>>
    BY <1>6 DEF vars
  <2>2. ParserInv'
    BY <1>1, <2>1, ParserIdle
  <2>3. ServerInv'
    BY <1>1, <2>1, ServerIdle
  <2>4. UNCHANGED Stream!vars
    BY <2>1 DEF parserVars, bytes, callbacks, Stream!vars
  <2> QED
    BY <2>2, <2>3, <2>4 DEF WireInv
<1> QED
  BY <1>2, <1>3, <1>4, <1>5, <1>6 DEF Next

\* Parser, octets, frames and contents agree, for any contents, chunks and flaws:
\* what the parser holds and what is still to come are the octets of the frames not
\* yet handed on (parser.js:36-139), and what the server has read and what is still
\* on its way are the frames of the contents given (exchange.js:247-268).
THEOREM WireInvariant == Spec => []WireInv
<1>1. Init => WireInv
  <2>1. Init => ParserInv
    BY ParserStarts DEF Init
  <2> QED
    BY <2>1, ServerStarts DEF WireInv
<1>2. WireInv /\ [Next]_vars => WireInv'
  BY StepKeeps
<1> QED
  BY <1>1, <1>2, PTL DEF Spec

\* The server never gets a frame it does not expect, but after a publish() that threw
\* when its method was already written (exchange.js:255-263).
THEOREM FramingIsKept == Spec => []FramingKept
<1>1. WireInv => FramingKept
  BY DEF WireInv, ServerInv, FramingKept
<1> QED
  BY <1>1, WireInvariant, PTL

\* The parser implements the reader of frames: in any chunks, each frame is handed on
\* once and in order, and an error means a frame with a flaw (parser.js:36-139).
THEOREM ParserImplementsStream == Spec => ImplementsFrameStream
<1>1. Init => Stream!Init
  BY DEF Init, ParserInit, Stream!Init
<1>2. WireInv /\ [Next]_vars => [Stream!Next]_(Stream!vars)
  BY StepKeeps
<1> QED
  BY <1>1, <1>2, WireInvariant, PTL DEF Spec, ImplementsFrameStream, Stream!Spec

\* Every variable keeps its type; the parser's buffers hold no more than the frame
\* they collect (parser.js:49-87).
THEOREM WireTyped == Spec => []TypeOK
<1>1. ASSUME WireInv PROVE TypeOK
  <2>1. /\ sent \in Seq(Message) /\ stream \in Seq(Octet) /\ Len(frameHeader) < HeaderSize
        /\ Len(frameBuffer) <= frame.size /\ parsed \in 0 .. Len(sent)
    BY <1>1 DEF WireInv, ParserInv, Typed, Buffers
  <2>2. Switches
    BY <1>1 DEF WireInv, ParserInv, Typed
  <2>3. ServerTyped
    BY <1>1 DEF WireInv, ServerInv
  <2>4. \A i \in 1 .. Len(sent) : sent[i].flaw \in Flaws
    <3>1. \A i \in 1 .. Len(sent) : sent[i] \in Message
      BY <2>1
    <3> QED
      BY <3>1, MessageType
  <2>5. {stream[i] : i \in 1 .. Len(stream)} \subseteq Octet
    BY <2>1
  <2>6. parsed <= Len(sent)
    BY <2>1
  <2>7. ParserTypeOK
    BY <2>1, <2>2, <2>4, <2>5, <2>6 DEF ParserTypeOK, Switches
  <2>8. given \in Seq(Contents)
    <3>1. given \in Seq(Good)
      BY <2>3 DEF ServerTyped
    <3>2. \A i \in 1 .. Len(given) : given[i] \in Contents
      <4>1. \A i \in 1 .. Len(given) : given[i] \in Good
        BY <3>1
      <4> QED
        BY <4>1, GoodTaken
    <3> QED
      BY <3>1, <3>2
  <2> QED
    BY <2>3, <2>7, <2>8 DEF TypeOK, ServerTyped
<1> QED
  BY <1>1, WireInvariant, PTL

-----------------------------------------------------------------------------
(* The flags of a header *)

\* A number made of five bits: each is found where it was put.
LEMMA FiveBits ==
  ASSUME NEW a \in {0, 1}, NEW b \in {0, 1}, NEW c \in {0, 1}, NEW d \in {0, 1}, NEW e \in {0, 1},
         NEW n, n = 16 * a + 8 * b + 4 * c + 2 * d + e
  PROVE  /\ n \in 0 .. 31
         /\ (n \div 16) % 2 = a /\ (n \div 8) % 2 = b /\ (n \div 4) % 2 = c
         /\ (n \div 2) % 2 = d /\ n % 2 = e
<1>1. CASE a = 0 /\ b = 0
  BY <1>1
<1>2. CASE a = 0 /\ b = 1
  BY <1>2
<1>3. CASE a = 1 /\ b = 0
  BY <1>3
<1>4. CASE a = 1 /\ b = 1
  BY <1>4
<1> QED
  BY <1>1, <1>2, <1>3, <1>4

\* The weights of the five flags, and of the short they are written into.
LEMMA FlagWeights ==
  /\ Flag(5) \in Nat \ {0} /\ Flag(4) = Flag(5) * 2 /\ Flag(3) = Flag(5) * 4
  /\ Flag(2) = Flag(5) * 8 /\ Flag(1) = Flag(5) * 16 /\ Weight(2) = Flag(5) * 32
<1> DEFINE m == 2 * ByteBits - 5
<1>1. m \in Nat
  BY CodecAssumption
<1>2. /\ 2 * ByteBits - 4 = m + 1 /\ 2 * ByteBits - 3 = m + 2 /\ 2 * ByteBits - 2 = m + 3
      /\ 2 * ByteBits - 1 = m + 4 /\ ByteBits * 2 = m + 5
  BY CodecAssumption
<1>3. Flag(5) = Pow2[m] /\ Flag(4) = Pow2[m + 1] /\ Flag(3) = Pow2[m + 2] /\ Flag(2) = Pow2[m + 3]
      /\ Flag(1) = Pow2[m + 4] /\ Weight(2) = Pow2[m + 5]
  BY <1>2 DEF Flag, Weight
<1> HIDE DEF m
<1>4. \A k \in Nat : Pow2[k] \in Nat \ {0} /\ Pow2[k + 1] = 2 * Pow2[k]
  BY Pow2Type, Pow2Unfolds
<1>5. m + 1 \in Nat /\ m + 2 \in Nat /\ m + 3 \in Nat /\ m + 4 \in Nat
      /\ (m + 1) + 1 = m + 2 /\ (m + 2) + 1 = m + 3 /\ (m + 3) + 1 = m + 4 /\ (m + 4) + 1 = m + 5
  BY <1>1
<1>6. /\ Pow2[m] \in Nat \ {0} /\ Pow2[m + 1] = 2 * Pow2[m] /\ Pow2[m + 2] = 2 * Pow2[m + 1]
      /\ Pow2[m + 3] = 2 * Pow2[m + 2] /\ Pow2[m + 4] = 2 * Pow2[m + 3]
      /\ Pow2[m + 5] = 2 * Pow2[m + 4]
  BY <1>1, <1>4, <1>5
<1> QED
  BY <1>3, <1>6

\* What is left of a multiple.
LEMMA MultipleOf ==
  ASSUME NEW k \in Nat \ {0}, NEW n \in Nat
  PROVE  (k * n) \div k = n
OBVIOUS

\* Whether a property is announced by those flags.
Announces(flags, i) == (flags \div Flag(i)) % 2 = 1

\* The flags fit into their short, and announce what is set (connection.js:809-814).
LEMMA FlagsBack ==
  ASSUME NEW q
  PROVE  /\ FlagsOf(q) < Weight(2)
         /\ \A i \in 1 .. 5 : Announces(FlagsOf(q), i) <=> Sets(q, i)
<1> DEFINE Bit(i) == IF Sets(q, i) THEN 1 ELSE 0
           a == Bit(1)
           b == Bit(2)
           c == Bit(3)
           d == Bit(4)
           e == Bit(5)
           k == Flag(5)
           n == 16 * a + 8 * b + 4 * c + 2 * d + e
           x == FlagsOf(q)
<1>1. a \in {0, 1} /\ b \in {0, 1} /\ c \in {0, 1} /\ d \in {0, 1} /\ e \in {0, 1}
  OBVIOUS
<1>2. /\ SetFlag(q, 1) = (k * 16) * a /\ SetFlag(q, 2) = (k * 8) * b /\ SetFlag(q, 3) = (k * 4) * c
      /\ SetFlag(q, 4) = (k * 2) * d /\ SetFlag(q, 5) = k * e
  BY FlagWeights DEF SetFlag
<1>3. x = ((((k * 16) * a + (k * 8) * b) + (k * 4) * c) + (k * 2) * d) + k * e
  BY <1>2, FlagsSum
<1>4. k \in Nat \ {0}
  BY FlagWeights
<1>5. a = 1 <=> Sets(q, 1)
  OBVIOUS
<1>6. b = 1 <=> Sets(q, 2)
  OBVIOUS
<1>7. c = 1 <=> Sets(q, 3)
  OBVIOUS
<1>8. d = 1 <=> Sets(q, 4)
  OBVIOUS
<1>9. e = 1 <=> Sets(q, 5)
  OBVIOUS
<1> HIDE DEF a, b, c, d, e, Bit
<1>10. n \in 0 .. 31 /\ (n \div 16) % 2 = a /\ (n \div 8) % 2 = b /\ (n \div 4) % 2 = c
       /\ (n \div 2) % 2 = d /\ n % 2 = e
  BY <1>1, FiveBits
<1>11. x = k * n
  <2> HIDE DEF x, k
  <2>1. a \in Nat /\ b \in Nat /\ c \in Nat /\ d \in Nat /\ e \in Nat
    BY <1>1
  <2>2. k \in Int
    BY <1>4
  <2>3. /\ (k * 16) * a = k * (16 * a) /\ (k * 8) * b = k * (8 * b) /\ (k * 4) * c = k * (4 * c)
        /\ (k * 2) * d = k * (2 * d)
    BY <2>1, <2>2
  <2> DEFINE a16 == 16 * a
             b8  == 8 * b
             c4  == 4 * c
             d2  == 2 * d
  <2>4. a16 \in Int /\ b8 \in Int /\ c4 \in Int /\ d2 \in Int /\ e \in Int
    BY <2>1
  <2>5. x = (((k * a16 + k * b8) + k * c4) + k * d2) + k * e
    BY <1>3, <2>3
  <2>6. n = (((a16 + b8) + c4) + d2) + e
    OBVIOUS
  <2> HIDE DEF a16, b8, c4, d2, n
  <2>7. k * ((((a16 + b8) + c4) + d2) + e) = (((k * a16 + k * b8) + k * c4) + k * d2) + k * e
    BY <2>2, <2>4
  <2> QED
    BY <2>5, <2>6, <2>7
<1> HIDE DEF n, x, k
<1>12. x \div k = n /\ x \in Nat
  BY <1>4, <1>10, <1>11, MultipleOf
<1>13. x \div (k * 2) = n \div 2 /\ x \div (k * 4) = n \div 4 /\ x \div (k * 8) = n \div 8
       /\ x \div (k * 16) = n \div 16
  <2>1. \A w \in Nat \ {0} : x \div (k * w) = (x \div k) \div w
    BY <1>4, <1>12, DivideTwice
  <2> QED
    BY <1>12, <2>1
<1>14. x < k * 32
  BY <1>4, <1>10, <1>11
<1>15. /\ (x \div (k * 16)) % 2 = a /\ (x \div (k * 8)) % 2 = b /\ (x \div (k * 4)) % 2 = c
       /\ (x \div (k * 2)) % 2 = d /\ (x \div k) % 2 = e
  BY <1>10, <1>12, <1>13
<1>16. /\ (x \div Flag(1)) % 2 = a /\ (x \div Flag(2)) % 2 = b /\ (x \div Flag(3)) % 2 = c
       /\ (x \div Flag(4)) % 2 = d /\ (x \div Flag(5)) % 2 = e
  BY <1>15, FlagWeights DEF k
<1>17. FlagsOf(q) < Weight(2)
  BY <1>14, FlagWeights DEF x, k
<1>18. /\ Announces(x, 1) <=> Sets(q, 1)
       /\ Announces(x, 2) <=> Sets(q, 2)
       /\ Announces(x, 3) <=> Sets(q, 3)
       /\ Announces(x, 4) <=> Sets(q, 4)
       /\ Announces(x, 5) <=> Sets(q, 5)
  BY <1>5, <1>6, <1>7, <1>8, <1>9, <1>16 DEF Announces
<1>19. \A i \in 1 .. 5 : i = 1 \/ i = 2 \/ i = 3 \/ i = 4 \/ i = 5
  OBVIOUS
<1>20. \A i \in 1 .. 5 : Announces(x, i) <=> Sets(q, i)
  BY <1>18, <1>19
<1> QED
  BY <1>17, <1>20 DEF x

-----------------------------------------------------------------------------
(* Fields that are no bits, one more at a time *)

\* What reading a field adds.
ReadAlso(reader, f, acc) ==
  Parsing(With(f.name, ReadField(reader, f.domain, acc.rest).value, acc.args),
          ReadField(reader, f.domain, acc.rest).rest, 0)

\* A field that is no bit is read so, whatever its place.
LEMMA ParseAlso ==
  ASSUME NEW reader, NEW fields, NEW acc, NEW i, fields[i].domain # "bit"
  PROVE  ParseStep(reader, fields, acc, i) = ReadAlso(reader, fields[i], acc)
BY DEF ParseStep, ReadAlso, Parsing

\* A field after others is read after them.
LEMMA ReadAppend ==
  ASSUME NEW reader, NEW S, \A f \in S : f.domain # "bit", NEW fs \in Seq(S), NEW f \in S, NEW b
  PROVE  ReadFields(reader, Append(fs, f), b) = ReadAlso(reader, f, ReadFields(reader, fs, b))
<1> DEFINE n == Len(fs)
           gs == Append(fs, f)
<1>1. n \in Nat /\ Len(gs) = n + 1 /\ gs[n + 1] = f /\ \A i \in 1 .. n : gs[i] = fs[i] /\ fs[i] \in S
  OBVIOUS
<1> HIDE DEF n, gs
<1>2. PICK p : Parses(p, reader, fs, b) /\ ReadFields(reader, fs, b) = p[n]
  BY <1>1, ParsesExists DEF n
<1>3. PICK r : Parses(r, reader, gs, b) /\ ReadFields(reader, gs, b) = r[n + 1]
  BY <1>1, ParsesExists
<1> DEFINE G == {k \in Nat : k <= n => p[k] = r[k]}
<1>4. 0 \in G
  BY <1>2, <1>3 DEF Parses
<1>5. ASSUME NEW k \in Nat, k \in G PROVE k + 1 \in G
  <2> SUFFICES ASSUME k + 1 <= n PROVE p[k + 1] = r[k + 1]
    OBVIOUS
  <2>1. p[k] = r[k] /\ k + 1 \in 1 .. n /\ k + 1 \in 1 .. n + 1 /\ (k + 1) - 1 = k
    BY <1>1, <1>5
  <2>2. p[k + 1] = ParseStep(reader, fs, p[k], k + 1)
    BY <1>2, <2>1 DEF Parses, n
  <2>3. r[k + 1] = ParseStep(reader, gs, r[k], k + 1)
    BY <1>1, <1>3, <2>1 DEF Parses
  <2>4. gs[k + 1] = fs[k + 1] /\ fs[k + 1].domain # "bit"
    BY <1>1, <2>1
  <2>5. p[k + 1] = ReadAlso(reader, fs[k + 1], p[k])
    BY <2>2, <2>4, ParseAlso
  <2>6. r[k + 1] = ReadAlso(reader, gs[k + 1], r[k])
    BY <2>3, <2>4, ParseAlso
  <2> QED
    BY <2>1, <2>4, <2>5, <2>6
<1>6. n \in G
  <2> HIDE DEF G
  <2> QED
    BY <1>1, <1>4, <1>5, NatInSet
<1>7. p[n] = r[n]
  BY <1>1, <1>6
<1>8. r[n + 1] = ParseStep(reader, gs, r[n], n + 1)
  <2>1. n + 1 \in 1 .. n + 1 /\ (n + 1) - 1 = n
    BY <1>1
  <2> QED
    BY <1>1, <1>3, <2>1 DEF Parses
<1>9. r[n + 1] = ReadAlso(reader, f, r[n])
  BY <1>1, <1>8, ParseAlso
<1> QED
  BY <1>2, <1>3, <1>7, <1>9 DEF gs

\* Reading nothing.
LEMMA ReadNone ==
  ASSUME NEW reader, NEW b
  PROVE  ReadFields(reader, <<>>, b) = Parsing(<<>>, b, 0)
<1>1. Len(<<>>) = 0 /\ Len(<<>>) \in Nat
  OBVIOUS
<1>2. PICK p : Parses(p, reader, <<>>, b) /\ ReadFields(reader, <<>>, b) = p[0]
  BY <1>1, ParsesExists
<1> QED
  BY <1>2 DEF Parses, ParseStart, Parsing

-----------------------------------------------------------------------------
(* The properties of a header are read back *)

BasicField == {BasicFields[i] : i \in 1 .. 5}

\* What is announced, by the flags read.
Announced(flags) == {BasicFields[i] : i \in {j \in 1 .. 5 : Announces(flags, j)}}

\* The properties have different names, and none is a bit.
LEMMA BasicApart ==
  /\ \A i, j \in 1 .. 5 : BasicFields[i] = BasicFields[j] => i = j
  /\ \A i \in 1 .. 5 : BasicFields[i].domain \in Domains /\ BasicFields[i].domain # "bit"
  /\ \A f \in BasicField : f.domain # "bit"
<1>1. \A i \in 1 .. 5 : i = 1 \/ i = 2 \/ i = 3 \/ i = 4 \/ i = 5
  OBVIOUS
<1>2. \A i, j \in 1 .. 5 : BasicFields[i].name = BasicFields[j].name => i = j
  BY <1>1, BasicList
<1>3. \A i, j \in 1 .. 5 : BasicFields[i] = BasicFields[j] => i = j
  BY <1>2
<1>4. \A i \in 1 .. 5 : BasicFields[i].domain \in {"shortstr", "table", "octet", "timestamp"}
  BY <1>1, BasicList
<1>5. \A i \in 1 .. 5 : BasicFields[i].domain \in Domains /\ BasicFields[i].domain # "bit"
  BY <1>4 DEF Domains
<1> QED
  BY <1>3, <1>5 DEF BasicField

\* A property is announced if it was given: none is lost, none is taken for another.
LEMMA AnnouncedSo ==
  ASSUME NEW reader, NEW q, Survives(reader, q), NEW i \in 1 .. 5
  PROVE  BasicFields[i] \in Announced(FlagsOf(q)) <=> BasicFields[i].name \in DOMAIN q
<1>1. BasicFields[i] \in Announced(FlagsOf(q)) <=> Announces(FlagsOf(q), i)
  BY BasicApart DEF Announced
<1>2. Announces(FlagsOf(q), i) <=> Sets(q, i)
  BY FlagsBack
<1>3. Sets(q, i) <=> BasicFields[i].name \in DOMAIN q
  BY BasicList DEF Sets, Survives
<1> QED
  BY <1>1, <1>2, <1>3

\* Arguments read so far, and the octets left.
ReadTo(reader, fs, q, D, b, t) == ReadFields(reader, fs, b) = Parsing(Restrict(q, D), t, 0)

\* One more property.
LEMMA ReadPiece ==
  ASSUME NEW reader, NEW q, Proper(q), Survives(reader, q), NEW P, NEW i \in 1 .. 5,
         BasicFields[i] \in P <=> BasicFields[i].name \in DOMAIN q,
         NEW fs \in Seq(BasicField), NEW b, NEW t \in Seq(Octet), NEW D,
         ReadTo(reader, Filter(fs, P), q, D, b, Piece(q, i) \o t)
  PROVE  ReadTo(reader, Filter(Append(fs, BasicFields[i]), P), q,
                D \cup ({BasicFields[i].name} \cap DOMAIN q), b, t)
<1> DEFINE f == BasicFields[i]
           name == f.name
           d == f.domain
           v == q[name]
           gs == Filter(fs, P)
           hs == Filter(Append(fs, f), P)
<1>1. f \in BasicField
  BY DEF BasicField
<1>2. gs \in Seq(BasicField)
  BY FilterType
<1>3. hs = IF f \in P THEN Append(gs, f) ELSE gs
  <2> HIDE DEF f
  <2> QED
    BY <1>1, FilterAppend
<1>4. CASE name \notin DOMAIN q
  <2>1. Piece(q, i) = <<>>
    BY <1>4 DEF Piece
  <2>2. <<>> \o t = t
    OBVIOUS
  <2>3. hs = gs
    BY <1>3, <1>4
  <2>4. D \cup ({name} \cap DOMAIN q) = D
    BY <1>4
  <2> QED
    BY <2>1, <2>2, <2>3, <2>4
<1>5. CASE name \in DOMAIN q
  <2>1. Piece(q, i) = SerializeField(d, v)
    BY <1>5 DEF Piece
  <2>2. hs = Append(gs, f)
    BY <1>3, <1>5
  <2>3. D \cup ({name} \cap DOMAIN q) = D \cup {name}
    BY <1>5
  <2>4. d \in Domains /\ FieldFits(reader, d, v)
    BY <1>5, BasicApart, BasicList DEF Survives
  <2>5. ReadField(reader, d, SerializeField(d, v) \o t) = Back(v, t)
    <3> HIDE DEF d, v
    <3> QED
      BY <2>4, FieldBack
  <2> DEFINE x == Piece(q, i) \o t
             acc == Parsing(Restrict(q, D), x, 0)
  <2>6. ReadField(reader, d, x) = Back(v, t)
    BY <2>1, <2>5
  <2>7. ReadFields(reader, gs, b) = acc
    BY DEF ReadTo
  <2>8. ReadFields(reader, Append(gs, f), b) = ReadAlso(reader, f, acc)
    <3>1. \A g \in BasicField : g.domain # "bit"
      BY BasicApart
    <3> HIDE DEF f, gs, acc
    <3>2. ReadFields(reader, Append(gs, f), b) = ReadAlso(reader, f, ReadFields(reader, gs, b))
      BY <1>1, <1>2, <3>1, ReadAppend
    <3> QED
      BY <2>7, <3>2
  <2> HIDE DEF x
  <2>9. acc.rest = x /\ acc.args = Restrict(q, D)
    BY DEF Parsing
  <2> HIDE DEF acc
  <2>10. Back(v, t).value = v /\ Back(v, t).rest = t
    BY DEF Back
  <2>11. ReadAlso(reader, f, acc) = Parsing(With(name, v, Restrict(q, D)), t, 0)
    <3> HIDE DEF v
    <3> QED
      BY <2>6, <2>9, <2>10 DEF ReadAlso
  <2>12. With(name, v, Restrict(q, D)) = Restrict(q, D \cup {name})
    <3> HIDE DEF name
    <3> QED
      BY OneMore
  <2> QED
    BY <2>2, <2>3, <2>8, <2>11, <2>12 DEF ReadTo
<1> QED
  BY <1>4, <1>5

\* The k-th of six.
Nth(k, r0, r1, r2, r3, r4, r5) ==
  CASE k = 0 -> r0 [] k = 1 -> r1 [] k = 2 -> r2 [] k = 3 -> r3 [] k = 4 -> r4 [] k = 5 -> r5

\* That it is.
LEMMA NthSo ==
  ASSUME NEW r0, NEW r1, NEW r2, NEW r3, NEW r4, NEW r5
  PROVE  /\ Nth(0, r0, r1, r2, r3, r4, r5) = r0 /\ Nth(1, r0, r1, r2, r3, r4, r5) = r1
         /\ Nth(2, r0, r1, r2, r3, r4, r5) = r2 /\ Nth(3, r0, r1, r2, r3, r4, r5) = r3
         /\ Nth(4, r0, r1, r2, r3, r4, r5) = r4 /\ Nth(5, r0, r1, r2, r3, r4, r5) = r5
BY DEF Nth

\* What is left of the header after its first k properties.
Rest(q, k) ==
  Nth(k, Piece(q, 1) \o (Piece(q, 2) \o (Piece(q, 3) \o (Piece(q, 4) \o Piece(q, 5)))),
      Piece(q, 2) \o (Piece(q, 3) \o (Piece(q, 4) \o Piece(q, 5))),
      Piece(q, 3) \o (Piece(q, 4) \o Piece(q, 5)),
      Piece(q, 4) \o Piece(q, 5), Piece(q, 5), <<>>)

\* The header is the first property and what is left after it, and so on.
LEMMA RestsSo ==
  ASSUME NEW q, Proper(q)
  PROVE  /\ SerializeFields(BasicFields, q) = Rest(q, 0) /\ Rest(q, 5) = <<>>
         /\ \A k \in 0 .. 5 : Rest(q, k) \in Seq(Octet)
         /\ \A k \in 1 .. 5 : Rest(q, k - 1) = Piece(q, k) \o Rest(q, k)
<1> DEFINE p1 == Piece(q, 1)
           p2 == Piece(q, 2)
           p3 == Piece(q, 3)
           p4 == Piece(q, 4)
           p5 == Piece(q, 5)
           r3 == p4 \o p5
           r2 == p3 \o r3
           r1 == p2 \o r2
           r0 == p1 \o r1
           l2 == p1 \o p2
           l3 == l2 \o p3
           l4 == l3 \o p4
           r(k) == Rest(q, k)
<1>1. p1 \in Seq(Octet) /\ p2 \in Seq(Octet) /\ p3 \in Seq(Octet) /\ p4 \in Seq(Octet)
      /\ p5 \in Seq(Octet)
  BY PieceType
<1>2. SerializeFields(BasicFields, q) = l4 \o p5
  BY HeaderWritten
<1>3. r(0) = r0 /\ r(1) = r1 /\ r(2) = r2 /\ r(3) = r3 /\ r(4) = p5 /\ r(5) = <<>>
  <2> DEFINE e == <<>>
  <2>1. \A k : r(k) = Nth(k, r0, r1, r2, r3, p5, e)
    BY DEF Rest
  <2> HIDE DEF r, r0, r1, r2, r3, p5, e
  <2>2. r(0) = r0 /\ r(1) = r1 /\ r(2) = r2 /\ r(3) = r3 /\ r(4) = p5 /\ r(5) = e
    BY <2>1, NthSo
  <2> QED
    BY <2>2 DEF e
<1> HIDE DEF p1, p2, p3, p4, p5, r
<1>4. r3 \in Seq(Octet)
  BY <1>1, Joined
<1>5. r2 \in Seq(Octet)
  <2> HIDE DEF r3
  <2> QED
    BY <1>1, <1>4, Joined
<1>6. r1 \in Seq(Octet)
  <2> HIDE DEF r2
  <2> QED
    BY <1>1, <1>5, Joined
<1>7. r0 \in Seq(Octet)
  <2> HIDE DEF r1
  <2> QED
    BY <1>1, <1>6, Joined
<1>8. l2 \in Seq(Octet)
  BY <1>1, Joined
<1>9. l3 \in Seq(Octet)
  <2> HIDE DEF l2
  <2> QED
    BY <1>1, <1>8, Joined
<1>10. l4 \o p5 = l3 \o r3
  <2> HIDE DEF l3
  <2> QED
    BY <1>1, <1>9, JoinTwice
<1>11. l3 \o r3 = l2 \o r2
  <2> HIDE DEF l2, r3
  <2>1. l2 \in Seq(Octet) /\ p3 \in Seq(Octet) /\ r3 \in Seq(Octet)
    BY <1>1, <1>4, <1>8
  <2>2. (l2 \o p3) \o r3 = l2 \o (p3 \o r3)
    BY <2>1
  <2> QED
    BY <2>2
<1>12. l2 \o r2 = r0
  <2> HIDE DEF r2
  <2> QED
    BY SMTT(20), <1>1, <1>5, JoinTwice
<1>13. <<>> \in Seq(Octet) /\ p5 = p5 \o <<>>
  BY <1>1
<1>14. r(0) = p1 \o r(1) /\ r(1) = p2 \o r(2) /\ r(2) = p3 \o r(3) /\ r(3) = p4 \o r(4)
       /\ r(4) = p5 \o r(5)
  BY <1>3, <1>13
<1>15. \A k \in 1 .. 5 : k = 1 \/ k = 2 \/ k = 3 \/ k = 4 \/ k = 5
  OBVIOUS
<1>16. \A k \in 0 .. 5 : k = 0 \/ k \in 1 .. 5
  OBVIOUS
<1>17. \A k \in 0 .. 5 : r(k) \in Seq(Octet)
  <2> HIDE DEF r0, r1, r2, r3
  <2> QED
    BY <1>1, <1>3, <1>4, <1>5, <1>6, <1>7, <1>13, <1>15, <1>16
<1>18. ASSUME NEW k \in 1 .. 5 PROVE r(k - 1) = Piece(q, k) \o r(k)
  <2>1. CASE k = 1
    <3>1. k - 1 = 0
      BY <2>1
    <3>2. r(k - 1) = r(0) /\ r(k) = r(1) /\ Piece(q, k) = p1
      BY <2>1, <3>1 DEF p1
    <3> QED
      BY <1>14, <3>2
  <2>2. CASE k = 2
    <3>1. k - 1 = 1
      BY <2>2
    <3>2. r(k - 1) = r(1) /\ r(k) = r(2) /\ Piece(q, k) = p2
      BY <2>2, <3>1 DEF p2
    <3> QED
      BY <1>14, <3>2
  <2>3. CASE k = 3
    <3>1. k - 1 = 2
      BY <2>3
    <3>2. r(k - 1) = r(2) /\ r(k) = r(3) /\ Piece(q, k) = p3
      BY <2>3, <3>1 DEF p3
    <3> QED
      BY <1>14, <3>2
  <2>4. CASE k = 4
    <3>1. k - 1 = 3
      BY <2>4
    <3>2. r(k - 1) = r(3) /\ r(k) = r(4) /\ Piece(q, k) = p4
      BY <2>4, <3>1 DEF p4
    <3> QED
      BY <1>14, <3>2
  <2>5. CASE k = 5
    <3>1. k - 1 = 4
      BY <2>5
    <3>2. r(k - 1) = r(4) /\ r(k) = r(5) /\ Piece(q, k) = p5
      BY <2>5, <3>1 DEF p5
    <3> QED
      BY <1>14, <3>2
  <2> QED
    BY <1>15, <2>1, <2>2, <2>3, <2>4, <2>5
<1>19. SerializeFields(BasicFields, q) = r(0)
  BY <1>2, <1>3, <1>10, <1>11, <1>12
<1> QED
  BY <1>3, <1>17, <1>18, <1>19 DEF r

\* Five elements in a row.
LEMMA FiveInRow ==
  ASSUME NEW S, NEW s \in Seq(S), Len(s) = 5
  PROVE  s = Append(Append(Append(Append(Append(<<>>, s[1]), s[2]), s[3]), s[4]), s[5])
<1> DEFINE t == Append(Append(Append(Append(Append(<<>>, s[1]), s[2]), s[3]), s[4]), s[5])
<1>1. s[1] \in S /\ s[2] \in S /\ s[3] \in S /\ s[4] \in S /\ s[5] \in S
  BY SMTT(20)
<1>2. t \in Seq(S) /\ Len(t) = 5
  BY <1>1
<1>3. t[1] = s[1] /\ t[2] = s[2] /\ t[3] = s[3] /\ t[4] = s[4] /\ t[5] = s[5]
  BY <1>1
<1>4. \A i \in 1 .. 5 : i = 1 \/ i = 2 \/ i = 3 \/ i = 4 \/ i = 5
  OBVIOUS
<1> HIDE DEF t
<1>5. \A i \in 1 .. 5 : t[i] = s[i]
  BY <1>3, <1>4
<1>6. t = s
  BY <1>2, <1>5
<1> QED
  BY <1>6 DEF t

\* The properties announced are read as they were given, and nothing is left.
LEMMA PropertiesRead ==
  ASSUME NEW reader, NEW q, Proper(q), Survives(reader, q)
  PROVE  ReadFields(reader, Filter(BasicFields, Announced(FlagsOf(q))),
                    SerializeFields(BasicFields, q))
           = Parsing(Restrict(q, DOMAIN q), <<>>, 0)
<1> DEFINE P == Announced(FlagsOf(q))
           b == SerializeFields(BasicFields, q)
           s == BasicFields
           B(i) == BasicFields[i]
           N(i) == {BasicFields[i].name} \cap DOMAIN q
           f0 == <<>>
           f1 == Append(f0, B(1))
           f2 == Append(f1, B(2))
           f3 == Append(f2, B(3))
           f4 == Append(f3, B(4))
           f5 == Append(f4, B(5))
           D0 == {}
           D1 == D0 \cup N(1)
           D2 == D1 \cup N(2)
           D3 == D2 \cup N(3)
           D4 == D3 \cup N(4)
           D5 == D4 \cup N(5)
           Done(fs, D, k) == ReadTo(reader, Filter(fs, P), q, D, b, Rest(q, k))
<1>1. \A i \in 1 .. 5 : B(i) \in BasicField
  BY DEF BasicField
<1>2. s \in Seq(BasicField) /\ Len(s) = 5
  <2>1. Len(s) = 5 /\ DOMAIN s = 1 .. 5
    BY BasicList
  <2>2. s = [i \in 1 .. 5 |-> s[i]]
    BY DEF BasicFields
  <2> QED
    BY <1>1, <2>1, <2>2
<1>3. s = f5
  BY <1>2, FiveInRow
<1>4. \A i \in 1 .. 5 : B(i) \in P <=> BasicFields[i].name \in DOMAIN q
  BY AnnouncedSo
<1>5. /\ b = Rest(q, 0) /\ Rest(q, 5) = <<>>
      /\ \A k \in 0 .. 5 : Rest(q, k) \in Seq(Octet)
      /\ \A k \in 1 .. 5 : Rest(q, k - 1) = Piece(q, k) \o Rest(q, k)
  BY RestsSo
<1>6. Done(f0, D0, 0)
  <2>1. Filter(f0, P) = <<>>
    BY FilterEmpty
  <2>2. Restrict(q, {}) = <<>>
    BY DEF Restrict
  <2>3. ReadFields(reader, <<>>, b) = Parsing(<<>>, b, 0)
    BY ReadNone
  <2> QED
    BY <1>5, <2>1, <2>2, <2>3 DEF ReadTo
<1> HIDE DEF P, b
<1>7. ASSUME NEW fs \in Seq(BasicField), NEW D, NEW k \in 1 .. 5, Done(fs, D, k - 1)
      PROVE  Append(fs, B(k)) \in Seq(BasicField) /\ Done(Append(fs, B(k)), D \cup N(k), k)
  <2> DEFINE t == Rest(q, k)
  <2>0. k \in 0 .. 5
    OBVIOUS
  <2>1. t \in Seq(Octet) /\ Rest(q, k - 1) = Piece(q, k) \o t
    BY <1>5, <2>0
  <2>2. ReadTo(reader, Filter(fs, P), q, D, b, Piece(q, k) \o t)
    BY <1>7, <2>1
  <2>3. BasicFields[k] \in P <=> BasicFields[k].name \in DOMAIN q
    BY <1>4
  <2> HIDE DEF t
  <2>4. ReadTo(reader, Filter(Append(fs, BasicFields[k]), P), q,
               D \cup ({BasicFields[k].name} \cap DOMAIN q), b, t)
    BY <2>1, <2>2, <2>3, ReadPiece
  <2>5. B(k) \in BasicField
    BY <1>1
  <2> QED
    BY <2>4, <2>5 DEF t
<1> HIDE DEF Done, B, N
<1>8. f0 \in Seq(BasicField)
  OBVIOUS
<1> HIDE DEF f0, D0
<1>9. f1 \in Seq(BasicField) /\ Done(f1, D1, 1)
  <2>1. 1 \in 1 .. 5 /\ 1 - 1 = 0
    OBVIOUS
  <2> QED
    BY <1>6, <1>7, <1>8, <2>1
<1> HIDE DEF f1, D1
<1>10. f2 \in Seq(BasicField) /\ Done(f2, D2, 2)
  <2>1. 2 \in 1 .. 5 /\ 2 - 1 = 1
    OBVIOUS
  <2> QED
    BY <1>7, <1>9, <2>1
<1> HIDE DEF f2, D2
<1>11. f3 \in Seq(BasicField) /\ Done(f3, D3, 3)
  <2>1. 3 \in 1 .. 5 /\ 3 - 1 = 2
    OBVIOUS
  <2> QED
    BY <1>7, <1>10, <2>1
<1> HIDE DEF f3, D3
<1>12. f4 \in Seq(BasicField) /\ Done(f4, D4, 4)
  <2>1. 4 \in 1 .. 5 /\ 4 - 1 = 3
    OBVIOUS
  <2> QED
    BY <1>7, <1>11, <2>1
<1> HIDE DEF f4, D4
<1>13. Done(f5, D5, 5)
  <2>1. 5 \in 1 .. 5 /\ 5 - 1 = 4
    OBVIOUS
  <2> QED
    BY <1>7, <1>12, <2>1
<1>14. D5 = DOMAIN q
  <2>1. N(1) \cup N(2) \cup N(3) \cup N(4) \cup N(5) = Names \cap DOMAIN q
    BY BasicList DEF N, Names
  <2>2. D5 = N(1) \cup N(2) \cup N(3) \cup N(4) \cup N(5)
    BY DEF D0, D1, D2, D3, D4
  <2>3. DOMAIN q \subseteq Names
    BY DEF Proper
  <2> QED
    BY <2>1, <2>2, <2>3
<1>15. Done(s, DOMAIN q, 5)
  <2> HIDE DEF s, f5, D5
  <2> QED
    BY <1>3, <1>13, <1>14
<1> QED
  BY <1>5, <1>15 DEF Done, ReadTo, P, b

\* The header is read back: its properties, and to its end
\* (serializer.js:227-317, connection.js:783-837, parser.js:382-409).
LEMMA HeaderBack ==
  ASSUME NEW reader, NEW q, Proper(q), Survives(reader, q), q = [n \in DOMAIN q |-> q[n]],
         NEW size \in Nat
  PROVE  /\ ReadHeader(reader, HeaderPayload(size, q)).args = q
         /\ ReadHeader(reader, HeaderPayload(size, q)).rest = <<>>
<1> DEFINE ab == SerializeInt(2, 60) \o SerializeInt(2, 0)
           s == SerializeInt(8, size)
           g == SerializeInt(2, FlagsOf(q))
           p == SerializeFields(BasicFields, q)
           gp == g \o p
           sgp == s \o gp
           pay == HeaderPayload(size, q)
           n == Number(reader, Take(Drop(pay, 12), 2))
<1>1. /\ pay = ab \o sgp /\ ab \in Seq(Octet) /\ Len(ab) = 4 /\ s \in Seq(Octet) /\ Len(s) = 8
      /\ g \in Seq(Octet) /\ Len(g) = 2 /\ p \in Seq(Octet) /\ pay \in Seq(Octet)
  BY HeaderParts
<1>2. Number(reader, g) = FlagsOf(q)
  <2>1. FlagsOf(q) \in Nat /\ FlagsOf(q) < Weight(2)
    BY FlagsSum, FlagsBack
  <2>2. Room(2) = Weight(2) /\ Weight(2) < Limit(reader) /\ Limit(reader) \in Nat /\ Weight(2) \in Nat
    BY Sizes, WeightType DEF Room
  <2>3. FlagsOf(q) < Room(2) /\ FlagsOf(q) < Limit(reader)
    BY <2>1, <2>2
  <2> QED
    BY <2>1, <2>3, Exact
<1> HIDE DEF ab, s, g, p, pay
<1>3. gp \in Seq(Octet)
  BY <1>1, Joined
<1>4. Take(gp, 2) = g /\ Drop(gp, 2) = p
  BY <1>1, CutAt
<1> HIDE DEF gp
<1>5. sgp \in Seq(Octet)
  BY <1>1, <1>3, Joined
<1>6. Drop(sgp, 8) = gp
  BY <1>1, <1>3, CutAt
<1> HIDE DEF sgp
<1>7. Drop(pay, 4) = sgp
  BY <1>1, <1>5, CutAt
<1>8. Drop(pay, 12) = gp
  <2>1. \A k \in Nat : \A l \in Nat : Drop(Drop(pay, k), l) = Drop(pay, k + l)
    BY <1>1, DropTwice
  <2>2. 4 + 8 = 12
    OBVIOUS
  <2> QED
    BY <1>6, <1>7, <2>1, <2>2
<1>9. Drop(pay, 14) = p
  <2>1. \A k \in Nat : \A l \in Nat : Drop(Drop(pay, k), l) = Drop(pay, k + l)
    BY <1>1, DropTwice
  <2>2. 12 + 2 = 14
    OBVIOUS
  <2> QED
    BY <1>4, <1>8, <2>1, <2>2
<1>10. n = FlagsOf(q)
  BY <1>2, <1>4, <1>8
<1>11. ReadHeader(reader, pay) = ReadFields(reader, Filter(BasicFields, Announced(n)), p)
  <2>1. DOMAIN BasicFields = 1 .. 5
    BY BasicList
  <2>2. {BasicFields[i] : i \in {j \in DOMAIN BasicFields : (n \div Flag(j)) % 2 = 1}} = Announced(n)
    <3> HIDE DEF n
    <3> QED
      BY <2>1 DEF Announced, Announces
  <2>3. ReadHeader(reader, pay)
          = ReadFields(reader,
              Filter(BasicFields,
                {BasicFields[i] : i \in {j \in DOMAIN BasicFields : (n \div Flag(j)) % 2 = 1}}),
              Drop(pay, 14))
    BY DEF ReadHeader
  <2> HIDE DEF n
  <2> QED
    BY <1>9, <2>2, <2>3
<1> HIDE DEF n
<1>12. ReadHeader(reader, pay) = Parsing(Restrict(q, DOMAIN q), <<>>, 0)
  BY <1>10, <1>11, PropertiesRead DEF p
<1>13. Restrict(q, DOMAIN q) = q
  <2>1. Restrict(q, DOMAIN q) = [x \in DOMAIN q |-> q[x]]
    BY DEF Restrict
  <2> QED
    BY <2>1
<1> QED
  BY <1>12, <1>13 DEF Parsing, pay

\* The defaults leave the properties a function of their names.
LEMMA DefaultFunction ==
  ASSUME NEW q, q = [n \in DOMAIN q |-> q[n]]
  PROVE  WithDefaults(q) = [n \in DOMAIN WithDefaults(q) |-> WithDefaults(q)[n]]
<1>1. CASE "contentType" \in DOMAIN q
  BY <1>1 DEF WithDefaults
<1>2. CASE "contentType" \notin DOMAIN q
  <2> DEFINE one == <<1>>
             w == With("contentType", one, q)
  <2>1. WithDefaults(q) = w
    BY <1>2 DEF WithDefaults
  <2> HIDE DEF one
  <2>2. w = [n \in {"contentType"} \cup DOMAIN q |-> IF n = "contentType" THEN one ELSE q[n]]
    BY DEF With
  <2>3. w = [n \in DOMAIN w |-> w[n]]
    <3> HIDE DEF w
    <3> QED
      BY <2>2
  <2> QED
    BY <2>1, <2>3
<1> QED
  BY <1>1, <1>2

\* The header of a content is read as it was given.
LEMMA HeaderUnderstood ==
  ASSUME NEW c \in Good, NEW reader, Survives(reader, WithDefaults(c.properties))
  PROVE  /\ ReadHeader(reader, HeaderOf(c)).args = PropertiesOf(c)
         /\ ReadHeader(reader, HeaderOf(c)).rest = <<>>
<1> DEFINE q == WithDefaults(c.properties)
           n == Len(c.body)
<1>1. c \in Contents
  BY GoodTaken
<1>2. Proper(c.properties) /\ c.body \in Seq(Octet)
  BY <1>1, ContentType
<1>3. c.properties = [name \in DOMAIN c.properties |-> c.properties[name]]
  BY <1>1, ContentAssumption
<1>4. Proper(q)
  <2> DEFINE p == c.properties
  <2>1. Proper(p)
    BY <1>2
  <2> HIDE DEF p
  <2>2. Proper(WithDefaults(p))
    BY <2>1, DefaultProper
  <2> QED
    BY <2>2 DEF p
<1>5. q = [x \in DOMAIN q |-> q[x]]
  <2> DEFINE p == c.properties
  <2>1. p = [name \in DOMAIN p |-> p[name]]
    BY <1>3
  <2> HIDE DEF p
  <2>2. WithDefaults(p) = [x \in DOMAIN WithDefaults(p) |-> WithDefaults(p)[x]]
    BY <2>1, DefaultFunction
  <2> QED
    BY <2>2 DEF p
<1>6. n \in Nat
  BY <1>2
<1>7. Survives(reader, q)
  OBVIOUS
<1>8. HeaderOf(c) = HeaderPayload(n, q) /\ PropertiesOf(c) = q
  BY DEF HeaderOf, PropertiesOf
<1> HIDE DEF q, n
<1>9. /\ ReadHeader(reader, HeaderPayload(n, q)).args = q
      /\ ReadHeader(reader, HeaderPayload(n, q)).rest = <<>>
  BY <1>4, <1>5, <1>6, <1>7, HeaderBack
<1> QED
  BY <1>8, <1>9

\* A content the server gets whole is understood.
LEMMA WholeUnderstood ==
  ASSUME NEW c \in Good, Survives("server", WithDefaults(c.properties))
  PROVE  /\ ReadMethod("server", PublishFields, Whole(c).method) = PublishArgs(c)
         /\ ReadHeader("server", Whole(c).header).args = PropertiesOf(c)
         /\ ReadHeader("server", Whole(c).header).rest = <<>>
         /\ Whole(c).body = c.body
<1>1. c \in Contents
  BY GoodTaken
<1>2. Whole(c).method = MethodOf(c) /\ Whole(c).header = HeaderOf(c) /\ Whole(c).body = c.body
  BY DEF Whole
<1>3. /\ ReadHeader("server", HeaderOf(c)).args = PropertiesOf(c)
      /\ ReadHeader("server", HeaderOf(c)).rest = <<>>
  BY HeaderUnderstood
<1>4. ReadMethod("server", PublishFields, MethodOf(c)) = PublishArgs(c)
  BY <1>1, MethodType
<1> QED
  BY <1>2, <1>3, <1>4

\* What the server reads of the contents is what the application gave, if nothing
\* is lost on the way (serializer.js:227-317, connection.js:734-877).
THEOREM ContentsUnderstood == ASSUME NothingLost("server") PROVE Spec => []Understood
<1>1. ASSUME WireInv PROVE Understood
  <2>1. given \in Seq(Good) /\ Len(understood) <= Len(given) /\ AllWhole
        /\ understood \in Seq(ReadContent)
    BY <1>1 DEF WireInv, ServerInv, ServerTyped
  <2>2. ASSUME NEW i \in 1 .. Len(understood)
        PROVE  LET header == ReadHeader("server", understood[i].header)
               IN  /\ ReadMethod("server", PublishFields, understood[i].method)
                        = PublishArgs(given[i])
                   /\ header.args = PropertiesOf(given[i])
                   /\ header.rest = <<>>
                   /\ understood[i].body = given[i].body
    <3> DEFINE c == given[i]
    <3>1. i \in 1 .. Len(given)
      BY <2>1, <2>2
    <3>2. c \in Good /\ understood[i] = Whole(c)
      BY <2>1, <2>2, <3>1 DEF AllWhole
    <3> HIDE DEF c
    <3>3. Survives("server", WithDefaults(c.properties))
      BY <3>2 DEF NothingLost
    <3>4. /\ ReadMethod("server", PublishFields, Whole(c).method) = PublishArgs(c)
          /\ ReadHeader("server", Whole(c).header).args = PropertiesOf(c)
          /\ ReadHeader("server", Whole(c).header).rest = <<>>
          /\ Whole(c).body = c.body
      BY <3>2, <3>3, WholeUnderstood
    <3> QED
      BY <3>2, <3>4 DEF c
  <2> QED
    BY <2>2 DEF Understood
<1> QED
  BY <1>1, WireInvariant, PTL

-----------------------------------------------------------------------------
(* What the callbacks are given of the contents *)

\* A function of the first n numbers is a sequence.
LEMMA RowType ==
  ASSUME NEW S, NEW n \in Nat, NEW f, f = [i \in 1 .. n |-> f[i]], \A i \in 1 .. n : f[i] \in S
  PROVE  f \in Seq(S) /\ Len(f) = n
OBVIOUS

\* A body, cut.
PartsIn(b, h) == [i \in 1 .. (Len(b) + h - 1) \div h |-> Take(Drop(b, (i - 1) * h), h)]

\* A body cut into parts of any size is the parts joined.
LEMMA PartsJoined ==
  ASSUME NEW b \in Seq(Octet), NEW h \in Nat \ {0}
  PROVE  PartsIn(b, h) \in Seq(Seq(Octet)) /\ FlattenSeq(PartsIn(b, h)) = b
<1> DEFINE n == (Len(b) + h - 1) \div h
           s == PartsIn(b, h)
<1>0. s = [i \in 1 .. n |-> Take(Drop(b, (i - 1) * h), h)]
  BY DEF PartsIn
<1>1. Len(b) \in Nat
  OBVIOUS
<1>2. n \in Nat /\ n * h \in Nat /\ n * h >= Len(b)
  <2> DEFINE l == Len(b)
  <2> HIDE DEF l
  <2>1. l \in Nat
    BY <1>1 DEF l
  <2>2. n = (l + h - 1) \div h
    BY DEF l
  <2>3. n \in Nat
    BY <2>1, <2>2, Pieces
  <2>4. n * h >= l
    <3>1. \A k \in Nat : k >= (l + h - 1) \div h => k * h >= l
      BY <2>1, Pieces
    <3>2. \A k \in Nat : k >= n => k * h >= l
      BY <2>2, <3>1
    <3>3. n >= n
      BY <2>3
    <3> QED
      BY <2>3, <3>2, <3>3
  <2>5. n * h \in Nat
    BY <2>3
  <2> QED
    BY <2>3, <2>4, <2>5 DEF l
<1> HIDE DEF n, s
<1>3. \A k \in Nat : k * h \in Nat /\ (k + 1) * h = k * h + h /\ 0 * h = 0
  OBVIOUS
<1>4. \A k \in Nat : Take(Drop(b, k * h), h) \in Seq(Octet)
  <2> TAKE k \in Nat
  <2> DEFINE p == k * h
             d == Drop(b, p)
  <2>1. p \in Nat
    BY <1>3
  <2> HIDE DEF p
  <2>2. d \in Seq(Octet)
    BY <2>1, DropType
  <2> HIDE DEF d
  <2>3. Take(d, h) \in Seq(Octet)
    BY <2>2, TakeType
  <2> QED
    BY <2>3 DEF d, p
<1>5. \A i \in 1 .. n : i - 1 \in Nat /\ s[i] = Take(Drop(b, (i - 1) * h), h)
  BY <1>0, <1>2
<1>6. s \in Seq(Seq(Octet)) /\ Len(s) = n
  <2>1. \A i \in 1 .. n : s[i] \in Seq(Octet)
    BY <1>4, <1>5
  <2>2. s = [i \in 1 .. n |-> s[i]]
    BY <1>0
  <2> DEFINE S == Seq(Octet)
  <2> HIDE DEF S
  <2>3. \A i \in 1 .. n : s[i] \in S
    BY <2>1 DEF S
  <2>4. s \in Seq(S) /\ Len(s) = n
    <3>1. n \in Nat
      BY <1>2
    <3> QED
      BY <2>2, <2>3, <3>1, RowType
  <2> QED
    BY <2>4 DEF S
<1>7. PICK J : Joins(J, s) /\ FlattenSeq(s) = J[Len(s)]
  BY <1>6, FlattenJoins
<1> DEFINE G == {k \in Nat : k <= n => J[k] = Take(b, k * h)}
<1>8. 0 \in G
  <2>1. J[0] = <<>> /\ Take(b, 0) = <<>>
    BY <1>1, <1>7, TakeNext DEF Joins
  <2> QED
    BY <1>3, <2>1
<1>9. ASSUME NEW k \in Nat, k \in G PROVE k + 1 \in G
  <2> SUFFICES ASSUME k + 1 <= n PROVE J[k + 1] = Take(b, (k + 1) * h)
    OBVIOUS
  <2>1. J[k] = Take(b, k * h) /\ k + 1 \in 1 .. n /\ (k + 1) - 1 = k
    BY <1>2, <1>9
  <2>2. J[k + 1] = J[k] \o s[k + 1]
    BY <1>6, <1>7, <2>1 DEF Joins
  <2>3. s[k + 1] = Take(Drop(b, k * h), h)
    BY <1>5, <2>1
  <2> DEFINE p == k * h
  <2>4. p \in Nat /\ (k + 1) * h = p + h
    BY <1>3
  <2> HIDE DEF p
  <2>5. Take(b, p) \o Take(Drop(b, p), h) = Take(b, p + h)
    BY <2>4, TakeMore
  <2> QED
    BY <2>1, <2>2, <2>3, <2>4, <2>5 DEF p
<1>10. n \in G
  <2> HIDE DEF G
  <2> QED
    BY <1>2, <1>8, <1>9, NatInSet
<1>11. Take(b, n * h) = b
  <2> DEFINE p == n * h
  <2>1. p \in Nat /\ p >= Len(b)
    BY <1>2
  <2> HIDE DEF p
  <2>2. Take(b, p) = b
    BY <1>1, <2>1 DEF Take
  <2> QED
    BY <2>2 DEF p
<1> QED
  BY <1>2, <1>6, <1>7, <1>10, <1>11 DEF s

\* The messages of one type that are not flawed, in order.
Kind(T)      == {m \in Message : m.flaw = "none" /\ m.frame.type = T}
OfKind(s, T) == Filter(s, Kind(T))

PayloadsOf(s) == [i \in 1 .. Len(s) |-> s[i].frame.payload]
FramesIn(s)   == [i \in 1 .. Len(s) |-> s[i].frame]

\* The payloads of messages are octets; those of messages joined are joined.
LEMMA PayloadsType ==
  ASSUME NEW s \in Seq(Message)
  PROVE  PayloadsOf(s) \in Seq(Seq(Octet)) /\ FlattenSeq(PayloadsOf(s)) \in Seq(Octet)
         /\ Len(PayloadsOf(s)) = Len(s)
<1>1. \A i \in 1 .. Len(s) : s[i].frame.payload \in Seq(Octet)
  <2>1. \A i \in 1 .. Len(s) : s[i] \in Message
    OBVIOUS
  <2> QED
    BY <2>1, MessageType
<1>2. Len(s) \in Nat
  OBVIOUS
<1>3. PayloadsOf(s) \in Seq(Seq(Octet)) /\ Len(PayloadsOf(s)) = Len(s)
  BY <1>1, <1>2 DEF PayloadsOf
<1> QED
  BY <1>3, FlattenType

\* The payloads of messages joined, joined.
LEMMA PayloadsConcat ==
  ASSUME NEW s \in Seq(Message), NEW t \in Seq(Message)
  PROVE  FlattenSeq(PayloadsOf(s \o t)) = FlattenSeq(PayloadsOf(s)) \o FlattenSeq(PayloadsOf(t))
<1> DEFINE v == s \o t
           p == PayloadsOf(s)
           q == PayloadsOf(t)
           r == PayloadsOf(v)
           S == Seq(Octet)
<1>1. /\ v \in Seq(Message) /\ Len(v) = Len(s) + Len(t) /\ Len(s) \in Nat /\ Len(t) \in Nat
      /\ (\A i \in 1 .. Len(s) : v[i] = s[i]) /\ (\A i \in 1 .. Len(t) : v[Len(s) + i] = t[i])
  BY Parts
<1> HIDE DEF v
<1>2. p \in Seq(S) /\ q \in Seq(S) /\ r \in Seq(S) /\ Len(p) = Len(s) /\ Len(q) = Len(t)
      /\ Len(r) = Len(v)
  BY <1>1, PayloadsType
<1>3. (\A i \in 1 .. Len(s) : p[i] = s[i].frame.payload) /\ (\A i \in 1 .. Len(t) : q[i] = t[i].frame.payload)
      /\ (\A i \in 1 .. Len(v) : r[i] = v[i].frame.payload)
  BY DEF PayloadsOf
<1> HIDE DEF p, q, r, S
<1> DEFINE w == p \o q
<1>4. /\ w \in Seq(S) /\ Len(w) = Len(p) + Len(q)
      /\ (\A i \in 1 .. Len(p) : w[i] = p[i]) /\ (\A i \in 1 .. Len(q) : w[Len(p) + i] = q[i])
  <2>1. p \in Seq(S) /\ q \in Seq(S)
    BY <1>2
  <2> QED
    BY <2>1, Parts
<1> HIDE DEF w
<1>5. r = w
  <2>1. ASSUME NEW i \in 1 .. Len(r) PROVE r[i] = w[i]
    <3>1. CASE i <= Len(s)
      <4>1. i \in 1 .. Len(s) /\ i \in 1 .. Len(p) /\ i \in 1 .. Len(v)
        BY <1>1, <1>2, <3>1
      <4>2. r[i] = s[i].frame.payload /\ p[i] = s[i].frame.payload /\ w[i] = p[i]
        BY <1>1, <1>3, <1>4, <4>1
      <4> QED
        BY <4>2
    <3>2. CASE i > Len(s)
      <4>1. PICK j \in 1 .. Len(t) : i = Len(s) + j
        <5>1. i - Len(s) \in 1 .. Len(t) /\ i = Len(s) + (i - Len(s))
          BY <1>1, <1>2, <3>2
        <5> QED
          BY <5>1
      <4>2. i \in 1 .. Len(v) /\ j \in 1 .. Len(q) /\ Len(s) = Len(p)
        BY <1>1, <1>2, <4>1
      <4>3. v[i] = t[j]
        BY <1>1, <4>1
      <4>4. w[i] = q[j]
        BY <1>4, <4>1, <4>2
      <4>5. r[i] = v[i].frame.payload /\ q[j] = t[j].frame.payload
        BY <1>3, <4>2
      <4> QED
        BY <4>3, <4>4, <4>5
    <3> QED
      BY <1>1, <3>1, <3>2
  <2>2. Len(r) = Len(w)
    BY <1>1, <1>2, <1>4
  <2> QED
    BY <1>2, <1>4, <2>1, <2>2, SameSeq
<1>6. FlattenSeq(p \o q) = FlattenSeq(p) \o FlattenSeq(q)
  BY <1>2, FlattenConcat DEF S
<1> QED
  BY <1>5, <1>6 DEF w, p, q, r, v

\* Once the octets sent have all come in, no frame is held back (parser.js:72-121).
LEMMA AllHandedOn == ASSUME ParserInv PROVE NothingHeldBack
<1> SUFFICES ASSUME stream = <<>>, ~executing, ~failed
             PROVE  handed = [i \in 1 .. Len(sent) |-> sent[i].frame]
  BY DEF NothingHeldBack
<1>1. /\ Typed /\ AtHeader /\ InsideFrame /\ AtFrame /\ AtEnd /\ HandedOn
  BY DEF ParserInv
<1>2. /\ attached /\ Live /\ data = <<>> /\ parse \in {"header", "frame", "frameEnd"}
      /\ sent \in Seq(Message) /\ parsed \in 0 .. Len(sent)
  BY <1>1 DEF Typed, Buffers, Switches, Live
<1>3. Unread = <<>>
  <2>1. Unread = data \o stream
    BY DEF Unread
  <2> QED
    BY <1>2, <2>1
<1>4. parse = "header"
  <2>1. ASSUME parse \in {"frame", "frameEnd"} PROVE FALSE
    <3> DEFINE c == Current
               p == c.frame.payload
               rest == Pending(sent, parsed + 1)
               m == Marker(c)
    <3>1. parsed < Len(sent) /\ frame.size = Len(p)
      BY <1>1, <2>1 DEF InsideFrame
    <3>2. c \in Message
      BY <1>2, <3>1 DEF Current
    <3>3. parsed + 1 \in 0 .. Len(sent)
      BY <1>2, <3>1
    <3>4. rest \in Seq(Octet) /\ m \in Octet /\ p \in Seq(Octet)
      BY <1>2, <3>2, <3>3, PendingType, MarkerType, MessageType
    <3>5. /\ frameBuffer \in Seq(Octet) /\ Len(frameBuffer) <= frame.size
      BY <1>1 DEF Typed, Buffers
    <3>6. /\ parse = "frame" => frameBuffer \o Unread = p \o (<<m>> \o rest)
          /\ parse = "frameEnd" => Unread = <<m>> \o rest
      BY <1>1, <1>2 DEF AtFrame, AtEnd
    <3> HIDE DEF c, p, rest, m
    <3> DEFINE y == <<m>> \o rest
    <3>7. y \in Seq(Octet) /\ Len(y) = 1 + Len(rest) /\ y # <<>> /\ Len(rest) \in Nat
      BY <3>4, InFront
    <3> HIDE DEF y
    <3>8. CASE parse = "frameEnd"
      BY <1>3, <3>6, <3>7, <3>8 DEF y
    <3>9. CASE parse = "frame"
      <4>1. frameBuffer \o <<>> = p \o y
        BY <1>3, <3>6, <3>9 DEF y
      <4>2. frameBuffer \o <<>> = frameBuffer
        BY <3>5, NoTail
      <4>3. Len(p \o y) = Len(p) + Len(y)
        BY <3>4, <3>7, Joined
      <4>4. Len(p) \in Nat /\ Len(frameBuffer) \in Nat
        BY <3>4, <3>5
      <4>5. Len(frameBuffer) = Len(p) + Len(y)
        BY <4>1, <4>2, <4>3
      <4> QED
        BY <3>1, <3>5, <3>7, <4>4, <4>5
    <3> QED
      BY <2>1, <3>8, <3>9
  <2> QED
    BY <1>2, <2>1
<1>5. parsed = Len(sent)
  <2> SUFFICES ASSUME parsed < Len(sent) PROVE FALSE
    BY <1>2
  <2> DEFINE c == Current
             a == Prefix7(c)
             b == c.frame.payload \o <<Marker(c)>>
             rest == Pending(sent, parsed + 1)
  <2>1. c \in Message /\ parsed + 1 \in 0 .. Len(sent)
    BY <1>2 DEF Current
  <2>2. Pending(sent, parsed) = Octets(c) \o rest
    BY <1>2, PendingNext DEF Current
  <2>3. Octets(c) = a \o b /\ Octets(c) \in Seq(Octet) /\ a \in Seq(Octet) /\ Len(a) = 7
        /\ rest \in Seq(Octet)
    BY <1>2, <2>1, OctetsOfFrame, PrefixRead, PendingType
  <2>4. b \in Seq(Octet)
    <3> DEFINE p == c.frame.payload
               m == Marker(c)
    <3>1. p \in Seq(Octet) /\ m \in Octet
      BY <2>1, MessageType, MarkerType
    <3> HIDE DEF p, m
    <3>2. <<m>> \in Seq(Octet)
      BY <3>1
    <3>3. p \o <<m>> \in Seq(Octet)
      BY <3>1, <3>2, Joined
    <3> QED
      BY <3>3 DEF p, m
  <2>5. frameHeader \o <<>> = Pending(sent, parsed)
    BY <1>1, <1>2, <1>3, <1>4 DEF AtHeader
  <2>6. frameHeader \in Seq(Octet) /\ Len(frameHeader) < 7 /\ frameHeader \o <<>> = frameHeader
    BY <1>1, NoTail DEF Typed, Buffers, HeaderSize
  <2> DEFINE o == Octets(c)
  <2> HIDE DEF a, b, rest, o, c
  <2>7. Len(a \o b) = 7 + Len(b) /\ Len(b) \in Nat
    <3>1. a \in Seq(Octet) /\ b \in Seq(Octet)
      BY <2>3, <2>4
    <3>2. Len(a \o b) = Len(a) + Len(b)
      BY <3>1, Joined
    <3>3. Len(b) \in Nat
      BY <3>1
    <3> QED
      BY <2>3, <3>2, <3>3
  <2>8. o = a \o b /\ o \in Seq(Octet) /\ frameHeader = o \o rest
    BY <2>2, <2>3, <2>5, <2>6 DEF o
  <2>9. Len(o \o rest) = Len(o) + Len(rest) /\ Len(rest) \in Nat
    BY <2>3, <2>8, Joined
  <2>10. Len(frameHeader) = 7 + Len(b) + Len(rest)
    BY <2>7, <2>8, <2>9
  <2>11. Len(frameHeader) \in Nat
    BY <2>6
  <2> QED
    BY <2>6, <2>7, <2>9, <2>10, <2>11
<1>6. handed = [i \in 1 .. parsed |-> sent[i].frame]
  BY <1>1 DEF HandedOn
<1> QED
  BY <1>5, <1>6

\* The start of a sequence is a prefix of it.
LEMMA PrefixJoined ==
  ASSUME NEW x \in Seq(Octet), NEW y \in Seq(Octet)
  PROVE  IsPrefix(x, x \o y)
<1> DEFINE z == x \o y
<1>1. /\ z \in Seq(Octet) /\ Len(z) = Len(x) + Len(y) /\ Len(x) \in Nat /\ Len(y) \in Nat
      /\ (\A i \in 1 .. Len(x) : z[i] = x[i])
  BY Parts
<1> HIDE DEF z
<1>2. SubSeq(x, 1, Len(x)) = x
  OBVIOUS
<1>3. SubSeq(z, 1, Len(x)) \in Seq(Octet) /\ Len(SubSeq(z, 1, Len(x))) = Len(x)
      /\ \A i \in 1 .. Len(x) : SubSeq(z, 1, Len(x))[i] = z[i]
  BY <1>1
<1> DEFINE w == SubSeq(z, 1, Len(x))
<1> HIDE DEF w
<1>4. w \in Seq(Octet) /\ Len(w) = Len(x) /\ \A i \in 1 .. Len(w) : w[i] = x[i]
  BY <1>1, <1>3 DEF w
<1>5. w = x
  BY <1>4, SameSeq
<1> QED
  BY <1>1, <1>2, <1>5 DEF IsPrefix, z, w

\* Of messages without a flaw, the frames of one type are those of its kind.
Whatever(T) == [type : {T}, channel : {Channel}, payload : Seq(Octet)]

\* Of messages without a flaw, what the callbacks have of a type are the frames of
\* that kind.
LEMMA FramesOfKind ==
  ASSUME NEW T, NEW s \in Seq(Message), \A i \in 1 .. Len(s) : s[i].flaw = "none"
  PROVE  Filter(FramesIn(s), Whatever(T)) = FramesIn(OfKind(s, T))
<1> DEFINE Clean == {m \in Message : m.flaw = "none"}
           P == Whatever(T)
           K == Kind(T)
           R == {m.frame : m \in Message}
           G == {t \in Seq(Clean) : Filter(FramesIn(t), P) = FramesIn(Filter(t, K))}
<1>1. s \in Seq(Clean)
  <2>1. \A i \in 1 .. Len(s) : s[i] \in Clean
    OBVIOUS
  <2> HIDE DEF Clean
  <2> QED
    BY <2>1, SeqOver
<1>2. \A m \in Clean : m.frame \in P <=> m \in K
  <2> TAKE m \in Clean
  <2>1. m \in Message /\ m.flaw = "none"
    OBVIOUS
  <2>2. m.frame \in [type : Octet, channel : {Channel}, payload : Seq(Octet)]
    BY <2>1 DEF Message
  <2> QED
    BY <2>1, <2>2 DEF Whatever, Kind
<1>3. FramesIn(<<>>) = <<>>
  BY DEF FramesIn
<1>4. \A t \in Seq(Clean) : FramesIn(t) \in Seq(R) /\ Len(FramesIn(t)) = Len(t)
  <2> TAKE t \in Seq(Clean)
  <2>1. \A i \in 1 .. Len(t) : t[i].frame \in R
    OBVIOUS
  <2>2. Len(t) \in Nat
    OBVIOUS
  <2> HIDE DEF R, Clean
  <2> QED
    BY <2>1, <2>2 DEF FramesIn
<1>5. ASSUME NEW t \in Seq(Clean), NEW m \in Clean
      PROVE  FramesIn(Append(t, m)) = Append(FramesIn(t), m.frame)
  <2> HIDE DEF Clean
  <2> DEFINE v == Append(t, m)
             f == FramesIn(t)
             g == FramesIn(v)
             h == Append(f, m.frame)
  <2>1. /\ v \in Seq(Clean) /\ Len(v) = Len(t) + 1 /\ Len(t) \in Nat
        /\ (\A i \in 1 .. Len(t) : v[i] = t[i]) /\ v[Len(t) + 1] = m
    BY <1>5
  <2>2. /\ f \in Seq(R) /\ Len(f) = Len(t) /\ g \in Seq(R) /\ Len(g) = Len(v) /\ m.frame \in R
    BY <1>4, <1>5, <2>1 DEF Clean
  <2>3. (\A i \in 1 .. Len(t) : f[i] = t[i].frame) /\ (\A i \in 1 .. Len(v) : g[i] = v[i].frame)
    BY DEF FramesIn
  <2> HIDE DEF v, f, g, R
  <2>4. /\ h \in Seq(R) /\ Len(h) = Len(f) + 1 /\ h[Len(f) + 1] = m.frame
        /\ (\A i \in 1 .. Len(f) : h[i] = f[i])
    BY <2>2
  <2> HIDE DEF h
  <2>5. ASSUME NEW i \in 1 .. Len(g) PROVE g[i] = h[i]
    <3>1. CASE i \in 1 .. Len(t)
      <4>1. i \in 1 .. Len(v) /\ i \in 1 .. Len(f)
        BY <2>1, <2>2, <3>1
      <4>2. g[i] = v[i].frame /\ v[i] = t[i] /\ f[i] = t[i].frame /\ h[i] = f[i]
        BY <2>1, <2>3, <2>4, <3>1, <4>1
      <4> QED
        BY <4>2
    <3>2. CASE i \notin 1 .. Len(t)
      <4>1. i = Len(t) + 1 /\ i = Len(f) + 1 /\ i \in 1 .. Len(v)
        BY <2>1, <2>2, <3>2
      <4>2. g[i] = v[i].frame /\ v[i] = m /\ h[i] = m.frame
        BY <2>1, <2>3, <2>4, <4>1
      <4> QED
        BY <4>2
    <3> QED
      BY <3>1, <3>2
  <2>6. g = h
    BY <2>1, <2>2, <2>4, <2>5, SameSeq
  <2> QED
    BY <2>6 DEF g, h, v, f
<1>6. <<>> \in G
  BY <1>3, FilterEmpty
<1>7. ASSUME NEW t \in Seq(Clean), t \in G, NEW m \in Clean PROVE Append(t, m) \in G
  <2> DEFINE f == FramesIn(t)
             e == m.frame
  <2>1. f \in Seq(R) /\ e \in R /\ FramesIn(Append(t, m)) = Append(f, e)
    BY <1>4, <1>5, <1>7
  <2>2. Filter(f, P) = FramesIn(Filter(t, K)) /\ (e \in P <=> m \in K)
    BY <1>2, <1>7
  <2>3. Append(t, m) \in Seq(Clean)
    BY <1>7
  <2> HIDE DEF Clean, f, e, P, K, R
  <2>4. Filter(Append(f, e), P) = IF e \in P THEN Append(Filter(f, P), e) ELSE Filter(f, P)
    BY <2>1, FilterAppend
  <2>5. Filter(Append(t, m), K) = IF m \in K THEN Append(Filter(t, K), m) ELSE Filter(t, K)
    BY <1>7, FilterAppend
  <2>6. Filter(t, K) \in Seq(Clean)
    BY <1>7, FilterType
  <2>7. FramesIn(Append(Filter(t, K), m)) = Append(FramesIn(Filter(t, K)), e)
    BY <1>5, <1>7, <2>6 DEF e
  <2>8. Filter(FramesIn(Append(t, m)), P) = FramesIn(Filter(Append(t, m), K))
    <3>1. CASE m \in K
      BY <2>1, <2>2, <2>4, <2>5, <2>7, <3>1
    <3>2. CASE m \notin K
      BY <2>1, <2>2, <2>4, <2>5, <3>2
    <3> QED
      BY <3>1, <3>2
  <2> QED
    BY <2>3, <2>8
<1>8. s \in G
  <2> HIDE DEF Clean, G
  <2> QED
    BY <1>1, <1>6, <1>7, SeqInSet
<1> QED
  BY <1>8 DEF OfKind

\* What the first n contents are sent back as.
Methods(g, n) == [i \in 1 .. n |-> Sent(METHOD, DeliverOf(g[i], i), "none")]
Headers(g, n) == [i \in 1 .. n |-> Sent(HEADER, HeaderOf(g[i]), "none")]
BodiesOf(g, n) == [i \in 1 .. n |-> g[i].body]

\* The messages s echo the first n of the contents g.
Echo(s, g, n) ==
  /\ OfKind(s, METHOD) = Methods(g, n)
  /\ OfKind(s, HEADER) = Headers(g, n)
  /\ FlattenSeq(PayloadsOf(OfKind(s, BODY))) = FlattenSeq(BodiesOf(g, n))

\* A row of n + 1 is one of n and one more.
LEMMA RowNext ==
  ASSUME NEW S, NEW n \in Nat, NEW f, NEW h, f = [i \in 1 .. n |-> f[i]],
         h = [i \in 1 .. n + 1 |-> h[i]], \A i \in 1 .. n : h[i] = f[i],
         \A i \in 1 .. n + 1 : h[i] \in S
  PROVE  h = Append(f, h[n + 1]) /\ f \in Seq(S)
<1>1. \A i \in 1 .. n : f[i] \in S
  OBVIOUS
<1>2. f \in Seq(S) /\ Len(f) = n
  BY <1>1, RowType
<1>3. n + 1 \in Nat
  OBVIOUS
<1>4. h \in Seq(S) /\ Len(h) = n + 1
  BY <1>3, RowType
<1> DEFINE a == Append(f, h[n + 1])
<1>5. h[n + 1] \in S
  OBVIOUS
<1>6. a \in Seq(S) /\ Len(a) = n + 1 /\ a[n + 1] = h[n + 1] /\ \A i \in 1 .. n : a[i] = f[i]
  BY <1>2, <1>5
<1> HIDE DEF a
<1>7. \A i \in 1 .. Len(h) : h[i] = a[i]
  <2>1. \A i \in 1 .. n + 1 : i \in 1 .. n \/ i = n + 1
    OBVIOUS
  <2> QED
    BY <1>4, <1>6, <2>1
<1>8. h = a
  BY <1>4, <1>6, <1>7, SameSeq
<1> QED
  BY <1>2, <1>8 DEF a

\* Contents that agree up to the n-th are echoed alike.
LEMMA EchoSame ==
  ASSUME NEW s, NEW g, NEW h, NEW n \in Nat, \A i \in 1 .. n : h[i] = g[i], Echo(s, g, n)
  PROVE  Echo(s, h, n)
<1>1. Methods(h, n) = Methods(g, n) /\ Headers(h, n) = Headers(g, n) /\ BodiesOf(h, n) = BodiesOf(g, n)
  BY DEF Methods, Headers, BodiesOf
<1> QED
  BY <1>1 DEF Echo

\* The kinds of messages are apart.
LEMMA KindsApart ==
  \A m : /\ m \in Kind(METHOD) => m \notin Kind(HEADER) /\ m \notin Kind(BODY)
         /\ m \in Kind(HEADER) => m \notin Kind(METHOD) /\ m \notin Kind(BODY)
         /\ m \in Kind(BODY) => m \notin Kind(METHOD) /\ m \notin Kind(HEADER)
BY DEF Kind, METHOD, HEADER, BODY

\* A message of one kind.
LEMMA KindOf ==
  ASSUME NEW type \in {METHOD, HEADER, BODY}, NEW p, Sent(type, p, "none") \in Message
  PROVE  Sent(type, p, "none") \in Kind(type)
BY DEF Kind, Sent

\* What a sequence of two messages has of a kind.
LEMMA PairFiltered ==
  ASSUME NEW S, NEW P, NEW a \in S, NEW b \in S
  PROVE  /\ <<a, b>> \in Seq(S)
         /\ a \in P /\ b \notin P => Filter(<<a, b>>, P) = <<a>>
         /\ a \notin P /\ b \in P => Filter(<<a, b>>, P) = <<b>>
         /\ a \notin P /\ b \notin P => Filter(<<a, b>>, P) = <<>>
<1> DEFINE none == <<>>
           one == Append(none, a)
           two == Append(one, b)
<1>1. none \in Seq(S) /\ one \in Seq(S) /\ two = <<a, b>> /\ <<a, b>> \in Seq(S)
  <2>1. one = <<a>> /\ <<a>> \in Seq(S) /\ none \in Seq(S)
    OBVIOUS
  <2>2. Append(<<a>>, b) = <<a, b>> /\ <<a, b>> \in Seq(S)
    <3> DEFINE x == <<a>>
               y == Append(x, b)
               z == <<a, b>>
    <3>1. x \in Seq(S) /\ Len(x) = 1 /\ x[1] = a
      OBVIOUS
    <3>2. z \in Seq(S) /\ Len(z) = 2 /\ z[1] = a /\ z[2] = b
      OBVIOUS
    <3> HIDE DEF x, z
    <3>a. y \in Seq(S) /\ Len(y) = Len(x) + 1 /\ y[Len(x) + 1] = b
          /\ \A i \in 1 .. Len(x) : y[i] = x[i]
      BY <3>1
    <3>b. 1 \in 1 .. Len(x)
      BY <3>1
    <3>3. y \in Seq(S) /\ Len(y) = 2 /\ y[1] = a /\ y[2] = b
      <4> HIDE DEF y
      <4> QED
        BY <3>1, <3>a, <3>b
    <3> HIDE DEF y
    <3>4. \A i \in 1 .. Len(y) : y[i] = z[i]
      BY <3>2, <3>3
    <3>5. y = z
      BY <3>2, <3>3, <3>4, SameSeq
    <3> QED
      BY <3>2, <3>5 DEF x, y, z
  <2> QED
    BY <2>1, <2>2
<1>2. Filter(none, P) = none
  BY FilterEmpty
<1> HIDE DEF none, two
<1>3. Filter(one, P) = IF a \in P THEN Append(Filter(none, P), a) ELSE Filter(none, P)
  BY <1>1, FilterAppend
<1> HIDE DEF one
<1>4. Filter(two, P) = IF b \in P THEN Append(Filter(one, P), b) ELSE Filter(one, P)
  <2>1. one \in Seq(S) /\ b \in S
    BY <1>1
  <2>2. Filter(Append(one, b), P) = IF b \in P THEN Append(Filter(one, P), b) ELSE Filter(one, P)
    BY <2>1, FilterAppend
  <2> QED
    BY <2>2 DEF two
<1>5. Append(none, a) = <<a>> /\ Append(none, b) = <<b>> /\ none = <<>>
  BY DEF none
<1> QED
  BY <1>1, <1>2, <1>3, <1>4, <1>5

\* What a delivery has of each kind.
Delivers(s, a, b, ms) ==
  /\ s \in Seq(Message)
  /\ OfKind(s, METHOD) = <<a>> /\ OfKind(s, HEADER) = <<b>> /\ OfKind(s, BODY) = ms

\* A method, a header and the parts of a body are a delivery.
LEMMA DeliveryKinds ==
  ASSUME NEW a \in Kind(METHOD), NEW b \in Kind(HEADER), NEW ms \in Seq(Message),
         \A i \in 1 .. Len(ms) : ms[i] \in Kind(BODY)
  PROVE  Delivers(<<a, b>> \o ms, a, b, ms)
<1> DEFINE ab == <<a, b>>
           s == ab \o ms
           M == Kind(METHOD)
           H == Kind(HEADER)
           B == Kind(BODY)
<1>1. a \in Message /\ b \in Message
  BY DEF Kind
<1>2. ab \in Seq(Message)
  BY <1>1
<1>3. a \in M /\ b \in H /\ a \notin H /\ a \notin B /\ b \notin M /\ b \notin B
      /\ \A i \in 1 .. Len(ms) : ms[i] \notin M /\ ms[i] \notin H /\ ms[i] \in B
  BY KindsApart
<1> HIDE DEF M, H, B
<1>4. Filter(ab, M) = <<a>> /\ Filter(ab, H) = <<b>> /\ Filter(ab, B) = <<>>
  BY <1>1, <1>3, PairFiltered
<1>5. Filter(ms, M) = <<>> /\ Filter(ms, H) = <<>> /\ Filter(ms, B) = ms
  BY <1>3, FilterNone, FilterAll
<1> HIDE DEF ab
<1>6. s = ab \o ms
  OBVIOUS
<1> HIDE DEF s
<1>7. \A P : Filter(ab \o ms, P) = Filter(ab, P) \o Filter(ms, P)
  BY <1>2, FilterConcat
<1>8. s \in Seq(Message)
  BY <1>2, <1>6, Parts
<1>9. <<a>> \o <<>> = <<a>> /\ <<b>> \o <<>> = <<b>> /\ <<>> \o ms = ms
  OBVIOUS
<1>10. Filter(s, M) = <<a>> /\ Filter(s, H) = <<b>> /\ Filter(s, B) = ms
  BY <1>4, <1>5, <1>6, <1>7, <1>9
<1> QED
  BY <1>8, <1>10 DEF Delivers, OfKind, M, H, B, s, ab

\* Kinds of messages joined.
LEMMA KindsJoined ==
  ASSUME NEW s \in Seq(Message), NEW t \in Seq(Message), NEW T
  PROVE  OfKind(s \o t, T) = OfKind(s, T) \o OfKind(t, T) /\ OfKind(s, T) \in Seq(Message)
BY FilterConcat, FilterType DEF OfKind

\* A message of no kind changes no echo.
LEMMA EchoOther ==
  ASSUME NEW s \in Seq(Message), NEW g, NEW n, Echo(s, g, n), NEW m \in Message,
         m \notin Kind(METHOD), m \notin Kind(HEADER), m \notin Kind(BODY)
  PROVE  Echo(s \o <<m>>, g, n)
<1>1. \A T \in {METHOD, HEADER, BODY} : OfKind(s \o <<m>>, T) = OfKind(s, T)
  <2> TAKE T \in {METHOD, HEADER, BODY}
  <2> DEFINE P == Kind(T)
  <2>1. m \notin P
    OBVIOUS
  <2> HIDE DEF P
  <2>2. s \o <<m>> = Append(s, m)
    OBVIOUS
  <2>3. Filter(Append(s, m), P) = Filter(s, P)
    BY <2>1, FilterAppend
  <2> QED
    BY <2>2, <2>3 DEF P, OfKind
<1> QED
  BY <1>1 DEF Echo

\* The payload of a message sent.
LEMMA SentPayload == \A type, p, flaw : Sent(type, p, flaw).frame.payload = p
BY DEF Sent

\* One more content is delivered.
LEMMA EchoNext ==
  ASSUME NEW s \in Seq(Message), NEW g \in Seq(Good), NEW n \in Nat, n < Len(g), Echo(s, g, n),
         NEW c, c = g[n + 1], NEW a, a = Sent(METHOD, DeliverOf(c, n + 1), "none"),
         NEW b, b = Sent(HEADER, HeaderOf(c), "none"),
         a \in Message, b \in Message, PartsBack(c) \in Seq(Message)
  PROVE  Echo(s \o (<<a, b>> \o PartsBack(c)), g, n + 1)
<1> DEFINE ms == PartsBack(c)
           d == <<a, b>> \o ms
           t == s \o d
<1>1. c \in Good /\ c.body \in Seq(Octet) /\ Len(c.body) \in Nat
  <2>1. c \in Good
    OBVIOUS
  <2>2. Taken(c)
    BY <2>1, GoodTaken
  <2> QED
    BY <2>1, <2>2, HeaderType
<1>2. a \in Kind(METHOD) /\ b \in Kind(HEADER)
  BY KindOf
<1>3. Half \in Nat \ {0}
  <2>1. MaxFrame \in Nat /\ MaxFrame > 8
    BY ParserAssumption
  <2> QED
    BY <2>1 DEF Half
<1>4. /\ (Len(c.body) + Half - 1) \div Half \in Nat
      /\ \A i \in 1 .. Len(ms) : ms[i] = Sent(BODY, Take(Drop(c.body, (i - 1) * Half), Half), "none")
      /\ Len(ms) = (Len(c.body) + Half - 1) \div Half
  <2>1. (Len(c.body) + Half - 1) \div Half \in Nat
    <3> DEFINE l == Len(c.body)
    <3>1. l \in Nat
      BY <1>1
    <3> HIDE DEF l
    <3>2. (l + Half - 1) \div Half \in Nat
      BY <1>3, <3>1, Pieces
    <3> QED
      BY <3>2 DEF l
  <2> DEFINE k == (Len(c.body) + Half - 1) \div Half
  <2>2. k \in Nat
    BY <2>1
  <2>3. ms = [i \in 1 .. k |-> Sent(BODY, Take(Drop(c.body, (i - 1) * Half), Half), "none")]
    BY DEF PartsBack
  <2>4. DOMAIN ms = 1 .. k
    BY <2>3
  <2> HIDE DEF k, ms
  <2>5. Len(ms) = k
    BY <2>2, <2>4 DEF ms
  <2> QED
    BY <2>1, <2>3, <2>5 DEF k
<1>5. \A i \in 1 .. Len(ms) : ms[i] \in Kind(BODY)
  <2> TAKE i \in 1 .. Len(ms)
  <2> DEFINE p == Take(Drop(c.body, (i - 1) * Half), Half)
  <2>1. ms[i] = Sent(BODY, p, "none")
    BY <1>4
  <2>2. ms[i] \in Message
    OBVIOUS
  <2> HIDE DEF p, ms
  <2> QED
    BY <2>1, <2>2, KindOf
<1>6. d \in Seq(Message) /\ OfKind(d, METHOD) = <<a>> /\ OfKind(d, HEADER) = <<b>>
      /\ OfKind(d, BODY) = ms
  <2>1. ms \in Seq(Message)
    OBVIOUS
  <2> HIDE DEF ms
  <2>2. \A x \in Kind(METHOD), y \in Kind(HEADER) : Delivers(<<x, y>> \o ms, x, y, ms)
    BY <1>5, <2>1, DeliveryKinds
  <2>3. Delivers(<<a, b>> \o ms, a, b, ms)
    BY <1>2, <2>2
  <2> QED
    BY <2>3 DEF Delivers
<1> HIDE DEF d
<1>7. \A T : OfKind(t, T) = OfKind(s, T) \o OfKind(d, T) /\ OfKind(s, T) \in Seq(Message)
  BY <1>6, KindsJoined
<1> HIDE DEF t, ms
<1>8. OfKind(t, METHOD) = Methods(g, n + 1)
  <2> DEFINE f == Methods(g, n)
             h == Methods(g, n + 1)
             S == {Sent(METHOD, DeliverOf(g[i], i), "none") : i \in 1 .. n + 1}
  <2>1. f = [i \in 1 .. n |-> f[i]] /\ h = [i \in 1 .. n + 1 |-> h[i]]
        /\ (\A i \in 1 .. n : h[i] = f[i]) /\ (\A i \in 1 .. n + 1 : h[i] \in S)
        /\ h[n + 1] = a
    BY DEF Methods
  <2> HIDE DEF f, h, S
  <2>2. h = Append(f, h[n + 1]) /\ f \in Seq(S)
    BY <2>1, RowNext
  <2>3. f \o <<a>> = Append(f, a)
    BY <2>2
  <2>4. OfKind(s, METHOD) = f
    BY DEF Echo, f
  <2>5. OfKind(t, METHOD) = f \o <<a>>
    BY <1>6, <1>7, <2>4
  <2> QED
    BY <2>1, <2>2, <2>3, <2>5 DEF h
<1>9. OfKind(t, HEADER) = Headers(g, n + 1)
  <2> DEFINE f == Headers(g, n)
             h == Headers(g, n + 1)
             S == {Sent(HEADER, HeaderOf(g[i]), "none") : i \in 1 .. n + 1}
  <2>1. f = [i \in 1 .. n |-> f[i]] /\ h = [i \in 1 .. n + 1 |-> h[i]]
        /\ (\A i \in 1 .. n : h[i] = f[i]) /\ (\A i \in 1 .. n + 1 : h[i] \in S)
        /\ h[n + 1] = b
    BY DEF Headers
  <2> HIDE DEF f, h, S
  <2>2. h = Append(f, h[n + 1]) /\ f \in Seq(S)
    BY <2>1, RowNext
  <2>3. f \o <<b>> = Append(f, b)
    BY <2>2
  <2>4. OfKind(s, HEADER) = f
    BY DEF Echo, f
  <2>5. OfKind(t, HEADER) = f \o <<b>>
    BY <1>6, <1>7, <2>4
  <2> QED
    BY <2>1, <2>2, <2>3, <2>5 DEF h
<1>10. FlattenSeq(PayloadsOf(ms)) = c.body
  <2> DEFINE k == Len(ms)
             p == PayloadsOf(ms)
             q == PartsIn(c.body, Half)
  <2>1. p = [i \in 1 .. k |-> ms[i].frame.payload]
    BY DEF PayloadsOf
  <2>2. \A i \in 1 .. k : ms[i].frame.payload = Take(Drop(c.body, (i - 1) * Half), Half)
    BY <1>4, SentPayload
  <2>3. q = [i \in 1 .. k |-> Take(Drop(c.body, (i - 1) * Half), Half)]
    BY <1>4 DEF PartsIn
  <2>4. p = q
    BY <2>1, <2>2, <2>3
  <2>5. FlattenSeq(q) = c.body
    BY <1>1, <1>3, PartsJoined
  <2> QED
    BY <2>4, <2>5
<1>11. FlattenSeq(PayloadsOf(OfKind(t, BODY))) = FlattenSeq(BodiesOf(g, n + 1))
  <2> DEFINE f == BodiesOf(g, n)
             h == BodiesOf(g, n + 1)
             e == c.body
             S == Seq(Octet)
             u == OfKind(s, BODY)
  <2>1. \A i \in 1 .. n + 1 : g[i].body \in S
    <3> TAKE i \in 1 .. n + 1
    <3> DEFINE x == g[i]
    <3>1. x \in Good
      OBVIOUS
    <3> HIDE DEF x
    <3>2. x.body \in Seq(Octet)
      BY <3>1, GoodTaken, HeaderType
    <3> QED
      BY <3>2 DEF x
  <2>2. f = [i \in 1 .. n |-> f[i]] /\ h = [i \in 1 .. n + 1 |-> h[i]]
        /\ (\A i \in 1 .. n : h[i] = f[i]) /\ (\A i \in 1 .. n + 1 : h[i] \in S)
        /\ h[n + 1] = e
    BY <2>1 DEF BodiesOf
  <2>3. e \in Seq(Octet)
    BY <1>1
  <2>4. FlattenSeq(PayloadsOf(u)) = FlattenSeq(f)
    BY DEF Echo
  <2>5. OfKind(t, BODY) = u \o ms /\ u \in Seq(Message) /\ ms \in Seq(Message)
    BY <1>6, <1>7 DEF ms
  <2>6. FlattenSeq(PayloadsOf(ms)) = e
    BY <1>10
  <2> HIDE DEF f, h, S, u, e
  <2>7. h = Append(f, e) /\ f \in Seq(S)
    <3>1. h = Append(f, h[n + 1]) /\ f \in Seq(S)
      BY <2>2, RowNext
    <3> QED
      BY <2>2, <3>1
  <2>8. FlattenSeq(h) = FlattenSeq(f) \o e
    <3>1. f \in Seq(Seq(Octet))
      BY <2>7 DEF S
    <3>2. FlattenSeq(Append(f, e)) = FlattenSeq(f) \o e
      BY <2>3, <3>1, FlattenAppend
    <3> QED
      BY <2>7, <3>2
  <2>9. FlattenSeq(PayloadsOf(u \o ms)) = FlattenSeq(PayloadsOf(u)) \o FlattenSeq(PayloadsOf(ms))
    BY <2>5, PayloadsConcat
  <2> QED
    BY <2>4, <2>5, <2>6, <2>8, <2>9 DEF h
<1> QED
  BY <1>8, <1>9, <1>11 DEF Echo, t, d, ms

\* What the server has sent echoes what it understood.
EchoInv == Echo(sent, given, Len(understood))

\* Nothing is sent, and nothing understood.
LEMMA EchoStarts == Init => EchoInv
<1> SUFFICES ASSUME Init PROVE EchoInv
  OBVIOUS
<1>1. sent = <<>> /\ understood = <<>> /\ given = <<>>
  BY DEF Init, ParserInit
<1>2. Len(understood) = 0
  BY <1>1
<1>3. \A T : OfKind(sent, T) = <<>>
  BY <1>1, FilterEmpty DEF OfKind
<1>4. PayloadsOf(<<>>) = <<>>
  BY DEF PayloadsOf
<1>5. \A g : Methods(g, 0) = <<>> /\ Headers(g, 0) = <<>> /\ BodiesOf(g, 0) = <<>>
  BY DEF Methods, Headers, BodiesOf
<1> QED
  BY <1>2, <1>3, <1>4, <1>5 DEF EchoInv, Echo

\* The server reads on, or has a content whole and delivers it.
LEMMA ReadsOrDelivers ==
  ASSUME ServerReads
  PROVE  \/ understood' = understood /\ bytes' = bytes
         \/ \E r : understood' = Append(understood, r) /\ Write(Delivery(r))
<1>1. PICK f, p, r, whole : Reads(f, r, whole)
  <2>1. PICK f : f = Head(toServer)
    OBVIOUS
  <2>2. PICK p : p = SubSeq(f, 8, Len(f) - 1)
    OBVIOUS
  <2>3. PICK r : r = ReadOf(f, p)
    OBVIOUS
  <2>4. Reads(f, r, f[1] # METHOD /\ Len(r.body) = ReadSize("server", r.header))
    BY <2>1, <2>2, <2>3, ReadsSo
  <2> QED
    BY <2>4
<1>2. CASE f[1] # expecting
  BY <1>1, <1>2 DEF Reads
<1>3. CASE f[1] = expecting /\ whole
  BY <1>1, <1>3 DEF Reads
<1>4. CASE f[1] = expecting /\ ~whole
  BY <1>1, <1>4 DEF Reads
<1> QED
  BY <1>2, <1>3, <1>4

\* What was published before stays in its place.
LEMMA GivenStays ==
  ASSUME ServerTyped, NEW c, given' = given \/ given' = Append(given, c)
  PROVE  \A i \in 1 .. Len(understood) : given'[i] = given[i]
<1>1. given \in Seq(Good) /\ Len(understood) <= Len(given) /\ understood \in Seq(ReadContent)
  BY DEF ServerTyped
<1>2. \A i \in 1 .. Len(understood) : i \in 1 .. Len(given)
  BY <1>1
<1>3. \A i \in 1 .. Len(given) : Append(given, c)[i] = given[i]
  BY <1>1
<1> QED
  BY <1>2, <1>3

\* A step that sends nothing keeps the echo.
LEMMA EchoIdle ==
  ASSUME ServerTyped, EchoInv, NEW c, given' = given \/ given' = Append(given, c),
         sent' = sent, understood' = understood
  PROVE  EchoInv'
<1>1. \A i \in 1 .. Len(understood) : given'[i] = given[i]
  BY GivenStays
<1>2. Len(understood) \in Nat
  BY DEF ServerTyped
<1>3. Echo(sent, given, Len(understood))
  BY DEF EchoInv
<1>4. PICK h : h = given'
  OBVIOUS
<1>5. Echo(sent, h, Len(understood))
  <2> DEFINE n == Len(understood)
  <2>1. n \in Nat /\ Echo(sent, given, n) /\ \A i \in 1 .. n : h[i] = given[i]
    BY <1>1, <1>2, <1>3, <1>4
  <2> HIDE DEF n
  <2>2. Echo(sent, h, n)
    BY <2>1, EchoSame
  <2> QED
    BY <2>2 DEF n
<1>6. Echo(sent', given', Len(understood'))
  BY <1>4, <1>5
<1> QED
  BY <1>6 DEF EchoInv

\* A content read whole is sent back.
LEMMA EchoReads == ASSUME WireInv, EchoInv, ServerReads PROVE EchoInv'
<1>1. ServerInv /\ ServerTyped /\ sent \in Seq(Message)
  BY DEF WireInv, ServerInv, ParserInv, Typed, Buffers
<1>2. ServerInv' /\ given' = given
  <2>1. ServerInv'
    BY <1>1, KeepsReading
  <2> QED
    BY <2>1, ServerWrites
<1>3. CASE understood' = understood /\ bytes' = bytes
  <2>1. sent' = sent
    BY <1>3 DEF bytes
  <2> QED
    BY <1>1, <1>2, <1>3, <2>1, EchoIdle
<1>4. ASSUME NEW r, understood' = Append(understood, r), Write(Delivery(r)) PROVE EchoInv'
  <2> DEFINE n == Len(understood)
             c == given[n + 1]
             a == Sent(METHOD, DeliverOf(c, n + 1), "none")
             b == Sent(HEADER, HeaderOf(c), "none")
  <2>1. understood \in Seq(ReadContent) /\ n \in Nat /\ given \in Seq(Good) /\ calls \in Nat
        /\ calls <= MaxContents /\ Len(given) <= calls
    <3>1. MaxContents \in Nat
      BY ContentAssumption
    <3> QED
      BY <1>1, <3>1 DEF ServerTyped
  <2>2. understood' \in Seq(ReadContent) /\ Len(understood') <= Len(given)
        /\ \A i \in 1 .. Len(understood') : understood'[i] = Whole(given[i])
    BY <1>2 DEF ServerInv, ServerTyped, AllWhole
  <2>3. Len(understood') = n + 1 /\ understood'[n + 1] = r
    BY <1>4, <2>1
  <2>4. n < Len(given) /\ r = Whole(c) /\ n + 1 \in 1 .. Len(given)
    BY <2>1, <2>2, <2>3
  <2>5. n < MaxContents /\ c \in Good
    <3>1. MaxContents \in Nat /\ Len(given) \in Nat
      BY <2>1, ContentAssumption
    <3>2. n < MaxContents
      BY <2>1, <2>4, <3>1
    <3>3. c \in Good
      BY <2>1, <2>4
    <3> QED
      BY <3>2, <3>3
  <2>6. /\ Delivery(r) = <<a, b>> \o PartsBack(c) /\ a \in Message /\ b \in Message
        /\ PartsBack(c) \in Seq(Message)
    <3> HIDE DEF c
    <3>1. c \in Good /\ Len(understood) \in Nat /\ Len(understood) < MaxContents
      BY <2>1, <2>5
    <3>2. /\ Delivery(Whole(c)) = <<a, b>> \o PartsBack(c) /\ a \in Message /\ b \in Message
          /\ PartsBack(c) \in Seq(Message)
      BY <3>1, DeliveryType
    <3> QED
      BY <2>4, <3>2
  <2>7. sent' = sent \o (<<a, b>> \o PartsBack(c))
    BY <1>4, <2>6 DEF Write
  <2>8. Echo(sent, given, n)
    BY DEF EchoInv
  <2>9. Echo(sent \o (<<a, b>> \o PartsBack(c)), given, n + 1)
    BY <1>1, <2>1, <2>4, <2>6, <2>8, EchoNext
  <2>10. Echo(sent', given', Len(understood'))
    BY <1>2, <2>3, <2>7, <2>9
  <2> QED
    BY <2>10 DEF EchoInv
<1> QED
  BY <1>3, <1>4, ReadsOrDelivers

\* A heartbeat, or a frame with a flaw, is of no kind.
LEMMA EchoSends == ASSUME WireInv, EchoInv, ServerSends PROVE EchoInv'
<1>1. PICK type, size, flaw :
             /\ \/ type = Heartbeat /\ size = 0 /\ flaw = "none"
                \/ type = Heartbeat + 1 /\ size = 1 /\ flaw = "type"
                \/ type = BODY /\ size = MaxFrame + 1 /\ flaw = "size"
                \/ type = BODY /\ size = 2 /\ flaw = "end"
             /\ SendOther(type, size, flaw)
  BY DEF ServerSends
<1> DEFINE p == [i \in 1 .. size |-> FrameEnd]
           m == Sent(type, p, flaw)
<1>2. m \in Message
  BY <1>1, OtherMessage
<1>3. m.flaw = flaw /\ m.frame.type = type
  BY DEF Sent
<1>4. Heartbeat \notin {METHOD, HEADER, BODY}
  BY ParserAssumption
<1>5. Write(<<m>>) /\ UNCHANGED <<client, toServer, server>>
  BY <1>1 DEF SendOther
<1>6. m.flaw # "none" \/ m.frame.type = Heartbeat
  BY <1>1, <1>3
<1> HIDE DEF m
<1>7. m \notin Kind(METHOD) /\ m \notin Kind(HEADER) /\ m \notin Kind(BODY)
  BY <1>4, <1>6 DEF Kind
<1>8. sent' = sent \o <<m>> /\ given' = given /\ understood' = understood
  BY <1>5 DEF Write, client, server
<1>9. sent \in Seq(Message) /\ Echo(sent, given, Len(understood))
  BY DEF WireInv, ParserInv, Typed, Buffers, EchoInv
<1>10. Echo(sent \o <<m>>, given, Len(understood))
  BY <1>2, <1>7, <1>9, EchoOther
<1>11. Echo(sent', given', Len(understood'))
  BY <1>8, <1>10
<1> QED
  BY <1>11 DEF EchoInv

\* The parser sends nothing.
LEMMA ParsingSendsNothing == ASSUME ParserStep PROVE sent' = sent
<1>1. ASSUME NEW n \in Chunks, Data(n) PROVE sent' = sent
  BY <1>1 DEF Data
<1>2. ASSUME Execute PROVE sent' = sent
  BY <1>2 DEF Execute, Header, Payload, EndOfFrame, bytes
<1> QED
  BY <1>1, <1>2 DEF ParserStep

\* Every step keeps the echo.
LEMMA EchoKeeps == ASSUME WireInv, EchoInv, [Next]_vars PROVE EchoInv'
<1>1. ServerTyped
  BY DEF WireInv, ServerInv
<1>2. ASSUME NEW c \in Contents, Publish(c) PROVE EchoInv'
  <2>1. sent' = sent /\ understood' = understood /\ (given' = given \/ given' = Append(given, c))
    BY <1>2 DEF Publish, parserVars, bytes, server
  <2> QED
    BY <1>1, <2>1, EchoIdle
<1>3. ASSUME UNCHANGED <<sent, given, understood>> PROVE EchoInv'
  <2>1. sent' = sent /\ understood' = understood /\ given' = given
    BY <1>3
  <2> QED
    BY <1>1, <2>1, EchoIdle
<1>4. ASSUME ParserStep PROVE EchoInv'
  <2>1. UNCHANGED <<sent, given, understood>>
    BY <1>4, ParsingSendsNothing DEF ParserStep, client, server
  <2> QED
    BY <1>3, <2>1
<1>5. ASSUME UNCHANGED vars PROVE EchoInv'
  <2>1. UNCHANGED <<sent, given, understood>>
    BY <1>5 DEF vars, parserVars, bytes, client, server
  <2> QED
    BY <1>3, <2>1
<1> QED
  BY <1>2, <1>4, <1>5, EchoReads, EchoSends DEF Next

\* The client reads of a delivery the key that was given.
LEMMA KeyBack ==
  ASSUME NEW c \in Good, NEW n \in Octet
  PROVE  ReadMethod("client", DeliverFields, DeliverOf(c, n)).routingKey = c.routingKey
<1> DEFINE key == c.routingKey
           tag == TagOf(n)
           a == SerializeInt(2, 60)
           s == SerializeFields(DeliverFields, Delivering(tag, key))
           none == <<>>
<1>1. key \in Text
  BY GoodTaken, ContentType
<1>2. tag \in Seq(Octet) /\ Len(tag) = 8
  BY TagType
<1>3. DeliverOf(c, n) = (a \o a) \o s
  BY DEF DeliverOf, MethodPayload
<1>4. a \in Seq(Octet) /\ Len(a) = 2
  BY Codes
<1> HIDE DEF key, tag
<1>5. s \in Seq(Octet)
  BY <1>1, <1>2, DeliverType
<1>6. none \in Seq(Octet)
  OBVIOUS
<1> HIDE DEF none
<1>7. ReadFields("client", DeliverFields, s \o none) = Parsing(Delivering(tag, key), none, 0)
  BY <1>1, <1>2, <1>6, DeliverBack
<1> HIDE DEF s, a
<1>8. Drop((a \o a) \o s, 4) = s
  BY <1>4, <1>5, MethodBack
<1>9. s \o none = s
  BY <1>5, NoTail DEF none
<1>10. ReadMethod("client", DeliverFields, DeliverOf(c, n)) = Delivering(tag, key)
  BY <1>3, <1>7, <1>8, <1>9 DEF ReadMethod, Parsing
<1> QED
  BY <1>10 DEF Delivering, key

\* What the callbacks have had of a kind are the first messages of it.
LEMMA HandedOfKind ==
  ASSUME ParserInv, ~failed, NEW T
  PROVE  \E u, v \in Seq(Message) :
           /\ Handed(T) = FramesIn(u) /\ OfKind(sent, T) = u \o v
<1> DEFINE u == Take(sent, parsed)
           v == Drop(sent, parsed)
<1>1. /\ sent \in Seq(Message) /\ parsed \in 0 .. Len(sent) /\ parsed \in Nat
      /\ handed = [i \in 1 .. parsed |-> sent[i].frame]
      /\ \A i \in 1 .. parsed : sent[i].flaw = "none"
  BY DEF ParserInv, Typed, Buffers, HandedOn
<1>2. /\ u \in Seq(Message) /\ v \in Seq(Message) /\ Len(u) = parsed /\ u \o v = sent
      /\ \A i \in 1 .. parsed : u[i] = sent[i]
  <2> DEFINE n == parsed
             s == sent
  <2>1. n \in Nat /\ s \in Seq(Message) /\ n <= Len(s)
    BY <1>1
  <2> HIDE DEF n, s
  <2>2. /\ Take(s, n) \in Seq(Message)
        /\ Len(Take(s, n)) = IF n <= Len(s) THEN n ELSE Len(s)
        /\ \A i \in 1 .. n : i <= Len(s) => Take(s, n)[i] = s[i]
    BY <2>1, TakeType
  <2>3. Drop(s, n) \in Seq(Message)
    BY <2>1, DropType
  <2>4. Take(s, n) \o Drop(s, n) = s
    BY <2>1, JoinCut
  <2>5. Len(s) \in Nat /\ \A i \in 1 .. n : i <= Len(s)
    BY <2>1
  <2> QED
    BY <2>1, <2>2, <2>3, <2>4, <2>5 DEF n, s
<1> HIDE DEF u, v
<1>3. \A i \in 1 .. Len(u) : u[i].flaw = "none"
  BY <1>1, <1>2
<1>4. Filter(FramesIn(u), Whatever(T)) = FramesIn(OfKind(u, T))
  BY <1>2, <1>3, FramesOfKind
<1>5. handed = FramesIn(u)
  BY <1>1, <1>2 DEF FramesIn
<1>6. Handed(T) = FramesIn(OfKind(u, T))
  BY <1>4, <1>5 DEF Handed, Whatever
<1>7. OfKind(u, T) \in Seq(Message) /\ OfKind(v, T) \in Seq(Message)
      /\ OfKind(u \o v, T) = OfKind(u, T) \o OfKind(v, T)
  BY <1>2, KindsJoined
<1> QED
  BY <1>2, <1>6, <1>7

\* The i-th frame of a kind the callbacks have had is the i-th of it sent.
LEMMA HandedNth ==
  ASSUME ParserInv, ~failed, NEW T, NEW n \in Nat, NEW f, OfKind(sent, T) = [i \in 1 .. n |-> f[i]]
  PROVE  \A i \in 1 .. Len(Handed(T)) : i \in 1 .. n /\ Handed(T)[i] = f[i].frame
<1>1. PICK u \in Seq(Message), v \in Seq(Message) :
        Handed(T) = FramesIn(u) /\ OfKind(sent, T) = u \o v
  BY HandedOfKind
<1> DEFINE w == u \o v
<1>2. /\ w \in Seq(Message) /\ Len(w) = Len(u) + Len(v) /\ Len(u) \in Nat /\ Len(v) \in Nat
      /\ \A i \in 1 .. Len(u) : w[i] = u[i]
  BY <1>1, Parts
<1>3. w = [i \in 1 .. n |-> f[i]]
  BY <1>1
<1> HIDE DEF w
<1>4. Len(w) = n /\ \A i \in 1 .. n : w[i] = f[i]
  <2>1. DOMAIN w = 1 .. n
    BY <1>3
  <2>2. DOMAIN w = 1 .. Len(w) /\ Len(w) \in Nat
    BY <1>2
  <2>3. Len(w) = n
    BY <2>1, <2>2
  <2> QED
    BY <1>3, <2>3
<1>5. Len(FramesIn(u)) = Len(u) /\ \A i \in 1 .. Len(u) : FramesIn(u)[i] = u[i].frame
  BY <1>2 DEF FramesIn
<1>6. \A i \in 1 .. Len(u) : i \in 1 .. n /\ FramesIn(u)[i] = f[i].frame
  <2> TAKE i \in 1 .. Len(u)
  <2>1. i \in 1 .. n
    BY <1>2, <1>4
  <2> QED
    BY <1>2, <1>4, <1>5, <2>1
<1> QED
  BY <1>1, <1>5, <1>6

\* The bodies of the first contents, and all bodies.
LEMMA BodiesBegin ==
  ASSUME NEW g \in Seq(Good), NEW n \in Nat, n <= Len(g)
  PROVE  \E z \in Seq(Octet) :
           /\ FlattenSeq(BodiesOf(g, Len(g))) = FlattenSeq(BodiesOf(g, n)) \o z
           /\ FlattenSeq(BodiesOf(g, n)) \in Seq(Octet)
<1> DEFINE l == Len(g)
           b == BodiesOf(g, l)
           f == BodiesOf(g, n)
           S == Seq(Octet)
<1>1. l \in Nat /\ n <= l
  OBVIOUS
<1>2. \A i \in 1 .. l : g[i].body \in S
  <2> TAKE i \in 1 .. l
  <2> DEFINE x == g[i]
  <2>1. x \in Good
    OBVIOUS
  <2> HIDE DEF x
  <2>2. x.body \in Seq(Octet)
    BY <2>1, GoodTaken, HeaderType
  <2> QED
    BY <2>2 DEF x
<1> HIDE DEF S, l
<1>3. b \in Seq(S) /\ Len(b) = l /\ f \in Seq(S) /\ Len(f) = n /\ \A i \in 1 .. n : f[i] = b[i]
  BY <1>1, <1>2 DEF BodiesOf
<1> HIDE DEF b, f
<1> DEFINE t == Take(b, n)
           d == Drop(b, n)
<1>4. /\ t \in Seq(S) /\ Len(t) = (IF n <= Len(b) THEN n ELSE Len(b))
      /\ \A i \in 1 .. n : i <= Len(b) => t[i] = b[i]
  BY <1>3, TakeType
<1>5. d \in Seq(S) /\ t \o d = b
  BY <1>3, DropType, JoinCut
<1> HIDE DEF t, d
<1>6. t = f
  <2>1. Len(f) = Len(t) /\ \A i \in 1 .. Len(f) : f[i] = t[i]
    BY <1>1, <1>3, <1>4
  <2> QED
    BY <1>3, <1>4, <2>1, SameSeq
<1>7. FlattenSeq(f \o d) = FlattenSeq(f) \o FlattenSeq(d)
  BY <1>3, <1>5, FlattenConcat DEF S
<1>8. FlattenSeq(f) \in Seq(Octet) /\ FlattenSeq(d) \in Seq(Octet)
  BY <1>3, <1>5, FlattenType DEF S
<1>9. FlattenSeq(b) = FlattenSeq(f) \o FlattenSeq(d)
  BY <1>5, <1>6, <1>7
<1> DEFINE z == FlattenSeq(d)
<1> HIDE DEF z
<1>10. z \in Seq(Octet) /\ FlattenSeq(b) = FlattenSeq(f) \o z /\ FlattenSeq(f) \in Seq(Octet)
  BY <1>8, <1>9 DEF z
<1> QED
  BY <1>10 DEF b, f, l

\* The bodies' octets the callbacks have had are the first of those given.
LEMMA BodiesAgree ==
  ASSUME WireInv, EchoInv, ~failed
  PROVE  IsPrefix(Join(Handed(BODY)), Bodies(Len(given)))
<1> DEFINE n == Len(understood)
<1>1. /\ ParserInv /\ given \in Seq(Good) /\ n \in Nat /\ n <= Len(given) /\ Echo(sent, given, n)
  BY DEF WireInv, ServerInv, ServerTyped, EchoInv
<1> HIDE DEF n
<1>2. PICK u \in Seq(Message), v \in Seq(Message) :
        Handed(BODY) = FramesIn(u) /\ OfKind(sent, BODY) = u \o v
  BY <1>1, HandedOfKind
<1> DEFINE x == FlattenSeq(PayloadsOf(u))
           y == FlattenSeq(PayloadsOf(v))
           w == FlattenSeq(BodiesOf(given, n))
<1>3. x \in Seq(Octet) /\ y \in Seq(Octet)
  BY <1>2, PayloadsType
<1>4. FlattenSeq(PayloadsOf(u \o v)) = x \o y
  BY <1>2, PayloadsConcat
<1>5. x \o y = w
  BY <1>1, <1>2, <1>4 DEF Echo
<1>6. Join(Handed(BODY)) = x
  <2> DEFINE q == FramesIn(u)
  <2>1. Len(q) = Len(u) /\ \A i \in 1 .. Len(u) : q[i] = u[i].frame
    BY <1>2 DEF FramesIn
  <2> HIDE DEF q
  <2>2. [i \in 1 .. Len(q) |-> q[i].payload] = [i \in 1 .. Len(u) |-> u[i].frame.payload]
    BY <2>1
  <2>3. Join(q) = FlattenSeq(PayloadsOf(u))
    BY <2>2 DEF Join, PayloadsOf
  <2> QED
    BY <1>2, <2>3 DEF q
<1>7. Bodies(Len(given)) = FlattenSeq(BodiesOf(given, Len(given)))
  <2>1. DOMAIN given = 1 .. Len(given)
    BY <1>1
  <2>2. DOMAIN given \cap (1 .. Len(given)) = 1 .. Len(given)
    BY <2>1
  <2> QED
    BY <2>2 DEF Bodies, BodiesOf
<1>8. PICK z \in Seq(Octet) : FlattenSeq(BodiesOf(given, Len(given))) = w \o z
  BY <1>1, BodiesBegin
<1> HIDE DEF x, y, w
<1>9. (x \o y) \o z = x \o (y \o z) /\ y \o z \in Seq(Octet)
  BY <1>3, <1>8, JoinTwice, Joined
<1>10. Bodies(Len(given)) = x \o (y \o z)
  BY <1>5, <1>7, <1>8, <1>9
<1> DEFINE r == y \o z
<1> HIDE DEF r
<1>11. IsPrefix(x, x \o r)
  <2>1. r \in Seq(Octet)
    BY <1>9 DEF r
  <2> QED
    BY <1>3, <2>1, PrefixJoined
<1> QED
  BY <1>6, <1>10, <1>11 DEF r

\* The callbacks agree with what was given.
LEMMA AllAgree == ASSUME WireInv, EchoInv, NothingLost("client") PROVE CallbacksAgree
<1> SUFFICES ASSUME ~failed PROVE CallbacksAgree
  BY DEF CallbacksAgree
<1> DEFINE n == Len(understood)
<1>1. /\ ParserInv /\ given \in Seq(Good) /\ n \in Nat /\ n <= Len(given) /\ Echo(sent, given, n)
  BY DEF WireInv, ServerInv, ServerTyped, EchoInv
<1>2. \A i \in 1 .. n : i \in Octet /\ given[i] \in Good
  <2>1. calls \in 0 .. MaxContents /\ Len(given) <= calls /\ MaxContents \in Nat /\ MaxContents < Base
        /\ Base \in Nat /\ Octet = 0 .. Base - 1
    BY ContentAssumption, OctetType DEF WireInv, ServerInv, ServerTyped
  <2>2. Len(given) \in Nat
    BY <1>1
  <2>3. n < Base
    BY <1>1, <2>1, <2>2
  <2>4. \A i \in 1 .. n : i \in Octet
    BY <1>1, <2>1, <2>3
  <2>5. \A i \in 1 .. n : i \in 1 .. Len(given)
    BY <1>1
  <2> QED
    BY <1>1, <2>4, <2>5
<1> HIDE DEF n
<1>3. ASSUME NEW i \in 1 .. Len(Handed(METHOD))
      PROVE  ReadMethod("client", DeliverFields, Handed(METHOD)[i].payload).routingKey
               = given[i].routingKey
  <2> DEFINE f == [j \in 1 .. n |-> Sent(METHOD, DeliverOf(given[j], j), "none")]
  <2>1. OfKind(sent, METHOD) = f
    BY <1>1 DEF Echo, Methods
  <2>2. f = [j \in 1 .. n |-> f[j]]
    OBVIOUS
  <2>3. \A j \in 1 .. n : f[j].frame.payload = DeliverOf(given[j], j)
    BY SentPayload
  <2> HIDE DEF f
  <2>4. OfKind(sent, METHOD) = [j \in 1 .. n |-> f[j]]
    BY <2>1, <2>2
  <2>5. i \in 1 .. n /\ Handed(METHOD)[i] = f[i].frame
    BY <1>1, <1>3, <2>4, HandedNth
  <2>6. Handed(METHOD)[i].payload = DeliverOf(given[i], i)
    BY <2>3, <2>5
  <2> DEFINE c == given[i]
  <2>7. c \in Good /\ i \in Octet
    BY <1>2, <2>5
  <2> HIDE DEF c
  <2>8. ReadMethod("client", DeliverFields, DeliverOf(c, i)).routingKey = c.routingKey
    BY <2>7, KeyBack
  <2> QED
    BY <2>6, <2>8 DEF c
<1>4. ASSUME NEW i \in 1 .. Len(Handed(HEADER))
      PROVE  LET payload == Handed(HEADER)[i].payload
             IN  /\ ReadHeader("client", payload).args = PropertiesOf(given[i])
                 /\ ReadSize("client", payload) = Len(given[i].body)
  <2> DEFINE f == [j \in 1 .. n |-> Sent(HEADER, HeaderOf(given[j]), "none")]
  <2>1. OfKind(sent, HEADER) = f
    BY <1>1 DEF Echo, Headers
  <2>2. f = [j \in 1 .. n |-> f[j]]
    OBVIOUS
  <2>3. \A j \in 1 .. n : f[j].frame.payload = HeaderOf(given[j])
    BY SentPayload
  <2> HIDE DEF f
  <2>4. OfKind(sent, HEADER) = [j \in 1 .. n |-> f[j]]
    BY <2>1, <2>2
  <2>5. i \in 1 .. n /\ Handed(HEADER)[i] = f[i].frame
    BY <1>1, <1>4, <2>4, HandedNth
  <2>6. Handed(HEADER)[i].payload = HeaderOf(given[i])
    BY <2>3, <2>5
  <2> DEFINE c == given[i]
  <2>7. c \in Good
    BY <1>2, <2>5
  <2> HIDE DEF c
  <2>8. Survives("client", WithDefaults(c.properties))
    BY <2>7 DEF NothingLost
  <2>9. ReadHeader("client", HeaderOf(c)).args = PropertiesOf(c)
    BY <2>7, <2>8, HeaderUnderstood
  <2>10. ReadSize("client", HeaderOf(c)) = Len(c.body)
    BY <2>7, GoodTaken, HeaderType
  <2> QED
    BY <2>6, <2>9, <2>10 DEF c
<1>5. IsPrefix(Join(Handed(BODY)), Bodies(Len(given)))
  BY BodiesAgree
<1> QED
  BY <1>3, <1>4, <1>5 DEF CallbacksAgree

\* What the server has sent echoes, of the contents given, those it understood.
THEOREM ServerEchoes == Spec => [](WireInv /\ EchoInv)
<1>1. Init => WireInv /\ EchoInv
  BY ParserStarts, ServerStarts, EchoStarts DEF Init, WireInv
<1>2. ASSUME WireInv, EchoInv, [Next]_vars PROVE WireInv' /\ EchoInv'
  BY <1>2, StepKeeps, EchoKeeps
<1> QED
  BY <1>1, <1>2, PTL DEF Spec

\* The callbacks get of every content what was given, whatever the chunks were, if
\* nothing is lost on the way (parser.js:72-121, 282-409).
THEOREM CallbacksHear == ASSUME NothingLost("client") PROVE Spec => []HeardAsGiven
<1>1. ASSUME WireInv, EchoInv PROVE HeardAsGiven
  <2>1. ParserInv
    BY <1>1 DEF WireInv
  <2> QED
    BY <1>1, <2>1, AllAgree, AllHandedOn DEF HeardAsGiven
<1> QED
  BY <1>1, ServerEchoes, PTL

===============================================================================
