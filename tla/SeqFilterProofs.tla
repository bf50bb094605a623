---------------------------- MODULE SeqFilterProofs ----------------------------
(***************************************************************************)
(* What Filter does to the sequences a wire or a queue of tasks goes       *)
(* through: it grows at its end, loses its head or one of its members, and *)
(* is joined to another.  Induction is stated with sets in place of        *)
(* predicates, which keeps it within first-order logic.                    *)
(***************************************************************************)
EXTENDS SeqFilter, SequenceTheorems, WellFoundedInduction, TLAPS

-----------------------------------------------------------------------------
(* Induction *)

\* A nonempty set of naturals has a least element.
LEMMA NatMin ==
  ASSUME NEW T \in SUBSET Nat, T # {}
  PROVE  \E m \in T : \A n \in T : m <= n
<1>1. IsWellFoundedOn({p \in Nat \X Nat : p[1] < p[2]}, Nat)
  BY NatLessThanWellFounded DEF OpToRel
<1>2. PICK m \in T : \A n \in T : ~ (<<n, m>> \in {p \in Nat \X Nat : p[1] < p[2]})
  BY <1>1, WFMin
<1>3. \A n \in T : ~ (n < m)
  BY <1>2
<1> QED
  BY <1>3

\* Induction over the naturals: a set that holds 0 and the successor of each
\* natural it holds has them all.
LEMMA NatInSet ==
  ASSUME NEW G, 0 \in G, \A n \in Nat : n \in G => n + 1 \in G
  PROVE  \A n \in Nat : n \in G
<1> DEFINE Bad == Nat \ G
<1> SUFFICES ASSUME Bad # {} PROVE FALSE
  OBVIOUS
<1>1. PICK m \in Bad : \A n \in Bad : m <= n
  BY NatMin
<1>2. m \in Nat /\ m # 0
  OBVIOUS
<1>3. m - 1 \in Nat /\ m - 1 \notin Bad
  BY <1>1, <1>2
<1>4. (m - 1) + 1 = m
  BY <1>2
<1> QED
  BY <1>3, <1>4

\* Induction over sequences: a set that holds the empty sequence and every
\* extension of each sequence it holds has them all.
LEMMA SeqInSet ==
  ASSUME NEW S, NEW G,
         <<>> \in G,
         \A s \in Seq(S) : s \in G => \A e \in S : Append(s, e) \in G
  PROVE  \A s \in Seq(S) : s \in G
<1> DEFINE Lengths == {n \in Nat : \A s \in Seq(S) : Len(s) = n => s \in G}
<1>1. 0 \in Lengths
  OBVIOUS
<1>2. ASSUME NEW n \in Nat, n \in Lengths PROVE n + 1 \in Lengths
  <2> SUFFICES ASSUME NEW s \in Seq(S), Len(s) = n + 1 PROVE s \in G
    OBVIOUS
  <2>1. PICK t \in Seq(S), e \in S : s = Append(t, e)
    BY SequenceEmptyOrAppend
  <2>2. Len(t) = n
    BY <2>1
  <2> QED
    BY <1>2, <2>1, <2>2
<1>3. \A n \in Nat : n \in Lengths
  <2> HIDE DEF Lengths
  <2> QED BY <1>1, <1>2, NatInSet
<1> QED
  BY <1>3

-----------------------------------------------------------------------------
(* The function Filter is defined by *)

Scans(f, s, P) ==
  f = [i \in 0 .. Len(s) |->
        IF i = 0 THEN <<>>
        ELSE IF s[i] \in P THEN Append(f[i - 1], s[i]) ELSE f[i - 1]]

\* There is such a function.
LEMMA ScanExists ==
  ASSUME NEW s, NEW P, Len(s) \in Nat
  PROVE  \E f : Scans(f, s, P)
<1> DEFINE Step(h, i) == IF i = 0 THEN <<>>
                         ELSE IF s[i] \in P THEN Append(h[i - 1], s[i]) ELSE h[i - 1]
           Good == {n \in Nat : \E f : f = [i \in 0 .. n |-> Step(f, i)]}
<1>1. 0 \in Good
  <2> DEFINE z == [i \in 0 .. 0 |-> <<>>]
  <2>1. z = [i \in 0 .. 0 |-> Step(z, i)]
    OBVIOUS
  <2> QED
    BY <2>1
<1>2. ASSUME NEW n \in Nat, n \in Good PROVE n + 1 \in Good
  <2>1. PICK f : f = [i \in 0 .. n |-> Step(f, i)]
    BY <1>2
  <2> DEFINE g == [i \in 0 .. n + 1 |-> Step(f, i)]
  <2>2. ASSUME NEW i \in 0 .. n PROVE g[i] = f[i]
    <3> HIDE DEF Step
    <3> QED BY <2>1
  <2>3. ASSUME NEW i \in 0 .. n + 1 PROVE Step(f, i) = Step(g, i)
    <3> HIDE DEF g
    <3>1. CASE i = 0
      BY <3>1
    <3>2. CASE i # 0
      <4>1. g[i - 1] = f[i - 1]
        BY <2>2, <3>2
      <4> QED
        BY <4>1
    <3> QED
      BY <3>1, <3>2
  <2>4. g = [i \in 0 .. n + 1 |-> Step(g, i)]
    <3> HIDE DEF Step
    <3> QED BY <2>3
  <2> HIDE DEF g, Step
  <2> QED
    BY <2>4
<1>3. Len(s) \in Good
  <2> HIDE DEF Good
  <2> QED BY <1>1, <1>2, NatInSet
<1> QED
  BY <1>3 DEF Scans

\* Its first value.
LEMMA ScansBase ==
  ASSUME NEW s, NEW P, Len(s) \in Nat, NEW f, Scans(f, s, P)
  PROVE  f[0] = <<>>
<1> DEFINE Step(i) == IF i = 0 THEN <<>>
                      ELSE IF s[i] \in P THEN Append(f[i - 1], s[i]) ELSE f[i - 1]
<1>1. f = [i \in 0 .. Len(s) |-> Step(i)]
  BY DEF Scans
<1>2. f[0] = Step(0)
  <2> HIDE DEF Step
  <2> QED BY <1>1
<1> QED
  BY <1>2

\* Its values, one after the other.
LEMMA ScansStep ==
  ASSUME NEW s, NEW P, Len(s) \in Nat, NEW f, Scans(f, s, P), NEW n \in 0 .. Len(s) - 1
  PROVE  f[n + 1] = IF s[n + 1] \in P THEN Append(f[n], s[n + 1]) ELSE f[n]
<1> DEFINE Step(i) == IF i = 0 THEN <<>>
                      ELSE IF s[i] \in P THEN Append(f[i - 1], s[i]) ELSE f[i - 1]
<1>1. f = [i \in 0 .. Len(s) |-> Step(i)]
  BY DEF Scans
<1>2. n + 1 \in 0 .. Len(s) /\ n + 1 # 0 /\ (n + 1) - 1 = n
  OBVIOUS
<1>3. f[n + 1] = Step(n + 1)
  <2> HIDE DEF Step
  <2> QED BY <1>1, <1>2
<1> QED
  BY <1>2, <1>3

\* What Filter returns is the last value of such a function.
LEMMA FilterScans ==
  ASSUME NEW s, NEW P, Len(s) \in Nat
  PROVE  \E f : Scans(f, s, P) /\ Filter(s, P) = f[Len(s)]
<1>1. Filter(s, P) = (CHOOSE f : Scans(f, s, P))[Len(s)]
  BY DEF Filter, Scans
<1> QED
  BY <1>1, ScanExists

\* A longer sequence is scanned as its beginning is.
LEMMA ScansAgree ==
  ASSUME NEW S, NEW P, NEW s \in Seq(S), NEW t \in Seq(S), Len(s) <= Len(t),
         \A i \in 1 .. Len(s) : t[i] = s[i],
         NEW f, Scans(f, s, P), NEW g, Scans(g, t, P)
  PROVE  f[Len(s)] = g[Len(s)]
<1> DEFINE Good == {n \in Nat : n <= Len(s) => f[n] = g[n]}
<1>a. Len(s) \in Nat /\ Len(t) \in Nat
  OBVIOUS
<1>b. f[0] = <<>> /\ g[0] = <<>>
  <2>1. f[0] = <<>>
    BY <1>a, ScansBase
  <2>2. g[0] = <<>>
    BY <1>a, ScansBase
  <2> QED
    BY <2>1, <2>2
<1>1. 0 \in Good
  BY <1>b
<1>2. ASSUME NEW n \in Nat, n \in Good PROVE n + 1 \in Good
  <2> SUFFICES ASSUME n + 1 <= Len(s) PROVE f[n + 1] = g[n + 1]
    OBVIOUS
  <2>1. f[n] = g[n]
    BY <1>2, <1>a
  <2>2. t[n + 1] = s[n + 1]
    BY <1>a
  <2>3. f[n + 1] = IF s[n + 1] \in P THEN Append(f[n], s[n + 1]) ELSE f[n]
    BY <1>a, ScansStep
  <2>4. g[n + 1] = IF t[n + 1] \in P THEN Append(g[n], t[n + 1]) ELSE g[n]
    <3>1. n \in 0 .. Len(t) - 1
      BY <1>a
    <3> QED
      BY <3>1, <1>a, ScansStep
  <2> QED
    BY <2>1, <2>2, <2>3, <2>4
<1>3. Len(s) \in Good
  <2> HIDE DEF Good
  <2> QED BY <1>1, <1>2, <1>a, NatInSet
<1> QED
  BY <1>3, <1>a

-----------------------------------------------------------------------------
(* Filter on the sequences that are built by steps *)

\* The empty sequence.
LEMMA FilterEmpty ==
  ASSUME NEW P
  PROVE  Filter(<<>>, P) = <<>>
<1>1. Len(<<>>) = 0 /\ Len(<<>>) \in Nat
  OBVIOUS
<1>2. PICK f : Scans(f, <<>>, P) /\ Filter(<<>>, P) = f[Len(<<>>)]
  BY <1>1, FilterScans
<1>3. f[0] = <<>>
  BY <1>1, <1>2, ScansBase
<1> QED
  BY <1>1, <1>2, <1>3

\* One more element at the end.
LEMMA FilterAppend ==
  ASSUME NEW S, NEW P, NEW s \in Seq(S), NEW e \in S
  PROVE  Filter(Append(s, e), P) =
           IF e \in P THEN Append(Filter(s, P), e) ELSE Filter(s, P)
<1> DEFINE t == Append(s, e)
<1>1. /\ Len(s) \in Nat /\ t \in Seq(S) /\ Len(t) = Len(s) + 1
      /\ \A i \in 1 .. Len(s) : t[i] = s[i]
      /\ t[Len(s) + 1] = e
  OBVIOUS
<1> HIDE DEF t
<1>2. PICK f : Scans(f, s, P) /\ Filter(s, P) = f[Len(s)]
  BY <1>1, FilterScans
<1>3. PICK g : Scans(g, t, P) /\ Filter(t, P) = g[Len(t)]
  BY <1>1, FilterScans
<1>4. f[Len(s)] = g[Len(s)]
  BY <1>1, <1>2, <1>3, ScansAgree
<1>5. g[Len(s) + 1] = IF e \in P THEN Append(g[Len(s)], e) ELSE g[Len(s)]
  <2>1. Len(s) \in 0 .. Len(t) - 1
    BY <1>1
  <2> QED
    BY <1>1, <1>3, <2>1, ScansStep
<1>6. Filter(t, P) = IF e \in P THEN Append(Filter(s, P), e) ELSE Filter(s, P)
  BY <1>1, <1>2, <1>3, <1>4, <1>5
<1> QED
  BY <1>6 DEF t

\* What is left are elements of the sequence that belong to the set.
LEMMA FilterType ==
  ASSUME NEW S, NEW P, NEW s \in Seq(S)
  PROVE  /\ Filter(s, P) \in Seq(S)
         /\ \A i \in 1 .. Len(Filter(s, P)) : Filter(s, P)[i] \in P
<1> DEFINE Sound(u) == u \in Seq(S) /\ \A i \in 1 .. Len(u) : u[i] \in P
           G == {t \in Seq(S) : Sound(Filter(t, P))}
<1>0. ASSUME NEW u, Sound(u), NEW e \in S, e \in P PROVE Sound(Append(u, e))
  BY <1>0
<1>1. <<>> \in G
  <2>1. Sound(<<>>) /\ <<>> \in Seq(S)
    OBVIOUS
  <2> HIDE DEF Sound
  <2> QED BY <2>1, FilterEmpty
<1>2. ASSUME NEW t \in Seq(S), t \in G, NEW e \in S PROVE Append(t, e) \in G
  <2>1. Filter(Append(t, e), P) = IF e \in P THEN Append(Filter(t, P), e) ELSE Filter(t, P)
    BY FilterAppend
  <2>2. Append(t, e) \in Seq(S)
    OBVIOUS
  <2> HIDE DEF Sound
  <2> QED BY <1>0, <1>2, <2>1, <2>2
<1> HIDE DEF G
<1>3. s \in G
  BY <1>1, <1>2, SeqInSet
<1> QED
  BY <1>3 DEF G

\* Appending to the second of two joined sequences.
LEMMA ConcatAppend ==
  ASSUME NEW S, NEW s \in Seq(S), NEW t \in Seq(S), NEW e \in S
  PROVE  s \o Append(t, e) = Append(s \o t, e)
OBVIOUS

\* A sequence is one over any set its elements belong to.
LEMMA SeqOver ==
  ASSUME NEW S, NEW P, NEW s \in Seq(S), \A i \in 1 .. Len(s) : s[i] \in P
  PROVE  s \in Seq(P)
OBVIOUS

\* Two sequences joined.
LEMMA FilterConcat ==
  ASSUME NEW S, NEW P, NEW s \in Seq(S), NEW t \in Seq(S)
  PROVE  Filter(s \o t, P) = Filter(s, P) \o Filter(t, P)
<1> DEFINE G == {u \in Seq(S) : Filter(s \o u, P) = Filter(s, P) \o Filter(u, P)}
<1>0. \A u \in Seq(S) : Filter(u, P) \in Seq(S)
  BY FilterType
<1>1. <<>> \in G
  <2>1. s \o <<>> = s /\ Filter(s, P) \o <<>> = Filter(s, P) /\ <<>> \in Seq(S)
    BY <1>0, ConcatEmptySeq
  <2> QED
    BY <2>1, FilterEmpty
<1>2. ASSUME NEW u \in Seq(S), u \in G, NEW e \in S PROVE Append(u, e) \in G
  <2>1. s \o Append(u, e) = Append(s \o u, e) /\ s \o u \in Seq(S) /\ Append(u, e) \in Seq(S)
    OBVIOUS
  <2>2. Filter(Append(s \o u, e), P)
          = IF e \in P THEN Append(Filter(s \o u, P), e) ELSE Filter(s \o u, P)
    <3> DEFINE v == s \o u
    <3>1. v \in Seq(S)
      BY <2>1
    <3> HIDE DEF v
    <3>2. Filter(Append(v, e), P) = IF e \in P THEN Append(Filter(v, P), e) ELSE Filter(v, P)
      BY <3>1, FilterAppend
    <3> QED
      BY <3>2 DEF v
  <2>3. Filter(Append(u, e), P) = IF e \in P THEN Append(Filter(u, P), e) ELSE Filter(u, P)
    BY FilterAppend
  <2>4. Filter(s \o u, P) = Filter(s, P) \o Filter(u, P)
    BY <1>2
  <2>5. Append(Filter(s, P) \o Filter(u, P), e) = Filter(s, P) \o Append(Filter(u, P), e)
    <3> DEFINE a == Filter(s, P)
               b == Filter(u, P)
    <3>1. a \in Seq(S) /\ b \in Seq(S)
      BY <1>0
    <3> HIDE DEF a, b
    <3>2. a \o Append(b, e) = Append(a \o b, e)
      BY <3>1, ConcatAppend
    <3> QED
      BY <3>2 DEF a, b
  <2>6. Filter(s \o Append(u, e), P) = Filter(s, P) \o Filter(Append(u, e), P)
    BY <2>1, <2>2, <2>3, <2>4, <2>5
  <2> QED
    BY <2>1, <2>6
<1> HIDE DEF G
<1>3. t \in G
  BY <1>1, <1>2, SeqInSet
<1> QED
  BY <1>3 DEF G

\* Nothing is left exactly when no element belongs to the set.
LEMMA FilterNone ==
  ASSUME NEW S, NEW P, NEW s \in Seq(S)
  PROVE  Filter(s, P) = <<>> <=> \A i \in 1 .. Len(s) : s[i] \notin P
<1> DEFINE G == {t \in Seq(S) :
                   Filter(t, P) = <<>> <=> \A i \in 1 .. Len(t) : t[i] \notin P}
<1>1. <<>> \in G
  BY FilterEmpty
<1>2. ASSUME NEW t \in Seq(S), t \in G, NEW e \in S PROVE Append(t, e) \in G
  <2> DEFINE u == Append(t, e)
  <2>1. /\ u \in Seq(S) /\ Len(u) = Len(t) + 1 /\ u[Len(t) + 1] = e
        /\ \A i \in 1 .. Len(t) : u[i] = t[i]
    OBVIOUS
  <2>2. Filter(u, P) = IF e \in P THEN Append(Filter(t, P), e) ELSE Filter(t, P)
    BY FilterAppend
  <2>3. Filter(t, P) \in Seq(S)
    BY FilterType
  <2>4. e \in P => Filter(u, P) # <<>>
    BY <2>2, <2>3
  <2> HIDE DEF u
  <2>5. Filter(u, P) = <<>> <=> \A i \in 1 .. Len(u) : u[i] \notin P
    BY <1>2, <2>1, <2>2, <2>4
  <2> QED
    BY <2>1, <2>5 DEF u
<1> HIDE DEF G
<1>3. s \in G
  BY <1>1, <1>2, SeqInSet
<1> QED
  BY <1>3 DEF G

\* All is left when every element belongs to the set.
LEMMA FilterAll ==
  ASSUME NEW S, NEW P, NEW s \in Seq(S), \A i \in 1 .. Len(s) : s[i] \in P
  PROVE  Filter(s, P) = s
<1> DEFINE G == {t \in Seq(S) :
                   (\A i \in 1 .. Len(t) : t[i] \in P) => Filter(t, P) = t}
<1>1. <<>> \in G
  BY FilterEmpty
<1>2. ASSUME NEW t \in Seq(S), t \in G, NEW e \in S PROVE Append(t, e) \in G
  <2> DEFINE u == Append(t, e)
  <2>1. /\ u \in Seq(S) /\ Len(u) = Len(t) + 1 /\ u[Len(t) + 1] = e
        /\ \A i \in 1 .. Len(t) : u[i] = t[i]
    OBVIOUS
  <2>2. Filter(u, P) = IF e \in P THEN Append(Filter(t, P), e) ELSE Filter(t, P)
    BY FilterAppend
  <2>3. ASSUME \A i \in 1 .. Len(u) : u[i] \in P PROVE Filter(u, P) = u
    <3>1. e \in P /\ \A i \in 1 .. Len(t) : t[i] \in P
      <4> HIDE DEF u
      <4> QED BY SMTT(30), <2>1, <2>3
    <3> QED
      BY <1>2, <2>2, <3>1
  <2> QED
    BY <2>1, <2>3
<1> HIDE DEF G
<1>3. s \in G
  BY <1>1, <1>2, SeqInSet
<1> QED
  BY <1>3 DEF G

\* A sequence without its head.
LEMMA FilterTail ==
  ASSUME NEW S, NEW P, NEW s \in Seq(S), s # <<>>
  PROVE  Filter(s, P) = IF Head(s) \in P THEN <<Head(s)>> \o Filter(Tail(s), P)
                                         ELSE Filter(Tail(s), P)
<1>1. s = <<Head(s)>> \o Tail(s) /\ <<Head(s)>> \in Seq(S) /\ Tail(s) \in Seq(S)
  OBVIOUS
<1>2. Filter(<<Head(s)>>, P) = IF Head(s) \in P THEN <<Head(s)>> ELSE <<>>
  <2>1. <<>> \in Seq(S) /\ Head(s) \in S
    OBVIOUS
  <2>2. Filter(Append(<<>>, Head(s)), P)
          = IF Head(s) \in P THEN Append(Filter(<<>>, P), Head(s)) ELSE Filter(<<>>, P)
    <3> DEFINE h == Head(s)
               o == <<>>
    <3>1. h \in S /\ o \in Seq(S)
      BY <2>1
    <3> HIDE DEF h, o
    <3>2. Filter(Append(o, h), P) = IF h \in P THEN Append(Filter(o, P), h) ELSE Filter(o, P)
      BY <3>1, FilterAppend
    <3> QED
      BY <3>2 DEF h, o
  <2>3. Append(<<>>, Head(s)) = <<Head(s)>>
    OBVIOUS
  <2> QED
    BY <2>2, <2>3, FilterEmpty
<1>3. Filter(s, P) = Filter(<<Head(s)>>, P) \o Filter(Tail(s), P)
  BY <1>1, FilterConcat
<1>4. <<>> \o Filter(Tail(s), P) = Filter(Tail(s), P)
  <2>1. Filter(Tail(s), P) \in Seq(S)
    BY <1>1, FilterType
  <2> QED
    BY <2>1, ConcatEmptySeq
<1> QED
  BY <1>2, <1>3, <1>4

\* Every member of the set that the sequence has is left.
LEMMA FilterMembers ==
  ASSUME NEW S, NEW P, NEW s \in Seq(S), NEW i \in 1 .. Len(s), s[i] \in P
  PROVE  \E j \in 1 .. Len(Filter(s, P)) : Filter(s, P)[j] = s[i]
<1> DEFINE Found(u, e) == \E j \in 1 .. Len(u) : u[j] = e
           G == {t \in Seq(S) : \A k \in 1 .. Len(t) : t[k] \in P => Found(Filter(t, P), t[k])}
<1>0. ASSUME NEW u \in Seq(S), NEW e \in S
      PROVE  Found(Append(u, e), e) /\ \A x : Found(u, x) => Found(Append(u, e), x)
  <2>1. Len(Append(u, e)) = Len(u) + 1 /\ Append(u, e)[Len(u) + 1] = e
        /\ \A j \in 1 .. Len(u) : Append(u, e)[j] = u[j]
    BY AppendProperties
  <2>2. Len(u) \in Nat
    OBVIOUS
  <2> QED
    BY <2>1, <2>2
<1>1. <<>> \in G
  OBVIOUS
<1>2. ASSUME NEW t \in Seq(S), t \in G, NEW e \in S PROVE Append(t, e) \in G
  <2> DEFINE v == Append(t, e)
             f == Filter(t, P)
             g == Filter(v, P)
  <2>1. g = IF e \in P THEN Append(f, e) ELSE f
    BY FilterAppend
  <2>2. f \in Seq(S)
    BY FilterType
  <2>3. v \in Seq(S) /\ Len(v) = Len(t) + 1 /\ v[Len(t) + 1] = e /\ Len(t) \in Nat
        /\ \A j \in 1 .. Len(t) : v[j] = t[j]
    BY AppendProperties
  <2> HIDE DEF v, f, g
  <2>4. ASSUME NEW k \in 1 .. Len(v), v[k] \in P PROVE Found(g, v[k])
    <3> HIDE DEF Found
    <3>1. CASE k = Len(t) + 1
      BY <1>0, <2>1, <2>2, <2>3, <2>4, <3>1
    <3>2. CASE k # Len(t) + 1
      <4>1. k \in 1 .. Len(t) /\ v[k] = t[k]
        BY <2>3, <3>2
      <4>2. Found(f, t[k])
        BY <1>2, <2>4, <4>1 DEF f
      <4> QED
        BY <1>0, <2>1, <2>2, <4>1, <4>2
    <3> QED
      BY <3>1, <3>2
  <2> HIDE DEF Found
  <2> QED
    BY <2>3, <2>4 DEF v, g
<1> HIDE DEF G
<1>3. s \in G
  BY <1>1, <1>2, SeqInSet
<1> QED
  BY <1>3 DEF G

-----------------------------------------------------------------------------
(* Taking an element out *)

\* The parts of s before and behind its i-th element.
PartsAround(X, s, i) ==
  \E a \in Seq(X), c \in Seq(X) :
    /\ a = SubSeq(s, 1, i - 1) /\ c = SubSeq(s, i + 1, Len(s))
    /\ s = Append(a, s[i]) \o c
    /\ Len(a) = i - 1 /\ \A j \in 1..Len(a) : a[j] = s[j]
    /\ Len(c) = Len(s) - i /\ \A j \in 1..Len(c) : c[j] = s[i + j]

\* There are such parts.
LEMMA Around ==
  ASSUME NEW X, NEW s \in Seq(X), NEW i \in 1..Len(s)
  PROVE  PartsAround(X, s, i)
<1> DEFINE a == SubSeq(s, 1, i - 1)
           c == SubSeq(s, i + 1, Len(s))
           y == Append(a, s[i])
           z == y \o c
<1>1. Len(s) \in Nat /\ i \in Nat /\ s[i] \in X
  OBVIOUS
<1>2. a \in Seq(X) /\ Len(a) = i - 1 /\ \A j \in 1..(i - 1) : a[j] = s[j]
  BY <1>1
<1>3. /\ c \in Seq(X) /\ Len(c) = Len(s) - i
      /\ \A j \in 1..(Len(s) - i) : c[j] = s[i + j]
  BY <1>1
<1> HIDE DEF a, c
<1>4. /\ y \in Seq(X) /\ Len(y) = i
      /\ \A j \in 1..i : y[j] = s[j]
  BY <1>1, <1>2
<1> HIDE DEF y
<1>5. /\ z \in Seq(X) /\ Len(z) = Len(s)
      /\ \A j \in 1..Len(s) : z[j] = IF j <= i THEN y[j] ELSE c[j - i]
  <2>1. /\ z \in Seq(X) /\ Len(z) = Len(y) + Len(c)
        /\ \A j \in 1..Len(y) + Len(c) : z[j] = IF j <= Len(y) THEN y[j] ELSE c[j - Len(y)]
    BY <1>3, <1>4, ConcatProperties
  <2>2. Len(y) = i /\ Len(c) = Len(s) - i /\ Len(y) + Len(c) = Len(s)
    BY <1>1, <1>3, <1>4
  <2> HIDE DEF z
  <2> QED
    BY <2>1, <2>2
<1> HIDE DEF z
<1>6. ASSUME NEW j \in 1..Len(s) PROVE z[j] = s[j]
  <2>1. CASE j <= i
    BY <2>1, <1>1, <1>4, <1>5
  <2>2. CASE j > i
    <3>1. j - i \in 1..(Len(s) - i) /\ i + (j - i) = j
      BY <2>2, <1>1
    <3>2. z[j] = c[j - i]
      BY <2>2, <1>1, <1>5
    <3>3. c[j - i] = s[i + (j - i)]
      BY <3>1, <1>3
    <3> QED
      BY <3>1, <3>2, <3>3
  <2> QED
    BY <2>1, <2>2, <1>1
<1>7. z = s
  BY <1>5, <1>6, SeqEqual
<1> QED
  BY <1>2, <1>3, <1>7 DEF a, c, y, z, PartsAround
================================================================================
