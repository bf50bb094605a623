----------------------------- MODULE RegistryProofs -----------------------------
(***************************************************************************)
(* Proofs about Registry: how the numbers of channels are found, used and  *)
(* freed, for any number of connections, channels, limits and losses.      *)
(***************************************************************************)
EXTENDS Registry, SeqFilterProofs, FiniteSetTheorems

-----------------------------------------------------------------------------
(* The inductive invariant *)

Message == [m : {"open", "openOk", "close", "closeOk"}, n : Numbers]

\* The variables have their types, and nothing travels while a link is down.
Wired ==
  /\ channelMax \in Numbers /\ stuck \in BOOLEAN
  /\ link \in [Connections -> {"new", "up", "down"}]
  /\ channelCounter \in [Connections -> Numbers \cup {0}]
  /\ channels \in [Connections -> [Numbers -> Objects \cup {None}]]
  /\ tuned \in [Connections -> Limits \cup {0}]
  /\ srv \in [Connections -> [Numbers -> {"closed", "open", "closing"}]]
  /\ toServer \in [Connections -> Seq(Message)]
  /\ toClient \in [Connections -> Seq(Message)]
  /\ \A c \in Connections : link[c] # "up" => toServer[c] = <<>> /\ toClient[c] = <<>>

\* An exchange or queue that has a number belongs to that connection and has no
\* other; one that has none is new or closed.
Placed ==
  /\ state \in [Objects -> {"new", "undefined", "open", "closing", "closed"}]
  /\ \A c, d \in Connections : \A n, k \in Numbers :
       channels[c][n] # None /\ channels[c][n] = channels[d][k] => c = d /\ n = k
  /\ \A c \in Connections : \A n \in Numbers :
       channels[c][n] # None => Owner[channels[c][n]] = c /\ state[channels[c][n]] # "new"
  /\ closeCalled \subseteq {o \in Objects : state[o] # "new"}
  /\ \A o \in Objects : state[o] \notin {"new", "closed"} => \E n \in Numbers : channels[Owner[o]][n] = o

\* Publishes wait only for a default exchange that is not open.
Waiting ==
  /\ defaultExchange \in [Connections -> Objects \cup {None}]
  /\ deferred \in [Connections -> Seq(Nat)] /\ written \in [Connections -> Seq(Nat)]
  /\ \A c \in Connections :
       /\ defaultExchange[c] = None => deferred[c] = <<>> /\ written[c] = <<>>
       /\ defaultExchange[c] # None => /\ Owner[defaultExchange[c]] = c
                                       /\ state[defaultExchange[c]] # "new"
       /\ defaultExchange[c] # None /\ state[defaultExchange[c]] = "open" => deferred[c] = <<>>

\* The kinds of the methods on a wire that carry number n.
Kinds(n, wire) == [i \in 1 .. Len(Of(n, wire)) |-> Of(n, wire)[i].m]

\* The server's state of number n of connection c, and what travels that carries it:
\* to the server, and to the client.
View(c, n) == <<srv[c][n], Kinds(n, toServer[c]), Kinds(n, toClient[c])>>

\* Short sequences.
Nil            == <<>>
One(a)         == <<a>>
Two(a, b)      == <<a, b>>
Three(a, b, c) == <<a, b, c>>

\* Free,
Idle(s, out, in) ==
  \/ s = "closed"  /\ out = Nil            /\ in = Nil
  \/ s = "closing" /\ out = One("closeOk") /\ in = Nil

\* in use, and not asked to close,
Used(s, out, in) ==
  \/ s = "closed"  /\ out = One("open")            /\ in = Nil
  \/ s = "closing" /\ out = Two("closeOk", "open") /\ in = Nil
  \/ s = "open"    /\ out = Nil                    /\ in \in {One("openOk"), Nil}
  \/ s = "closing" /\ out = Nil                    /\ in \in {Two("openOk", "close"), One("close")}
  \/ s = "closing" /\ out = One("closeOk")         /\ in = Nil
  \/ s = "closed"  /\ out = Nil                    /\ in = Nil

\* the close of a close() on its way,
Asked(s, out, in) ==
  \/ s = "closed"  /\ out = Two("open", "close")              /\ in = Nil
  \/ s = "closing" /\ out = Three("closeOk", "open", "close") /\ in = Nil
  \/ s = "open"    /\ out = One("close")                      /\ in \in {One("openOk"), Nil}
  \/ s = "closing" /\ out = One("close") /\ in \in {Two("openOk", "close"), One("close")}
  \/ s = "closing" /\ out \in {Two("closeOk", "close"), Two("close", "closeOk")} /\ in = Nil
  \/ s = "closed"  /\ out = One("close")                      /\ in = Nil

\* or its answer.
Granted(s, out, in) ==
  \/ /\ s = "closing" /\ out = Nil
     /\ in \in {Three("openOk", "close", "closeOk"), Two("close", "closeOk")}
  \/ s = "closing" /\ out = One("closeOk") /\ in = One("closeOk")
  \/ s = "closed"  /\ out = Nil            /\ in \in {One("closeOk"), Two("openOk", "closeOk")}

Busy(s, out, in) == Used(s, out, in) \/ Asked(s, out, in) \/ Granted(s, out, in)

\* The states a number may be in when o has it and close() was called for those in C;
\* it is called once for each, maybe on an earlier connection.
Lives(C, o, s, out, in) == IF o = None THEN Idle(s, out, in)
                           ELSE IF o \in C THEN Busy(s, out, in) ELSE Used(s, out, in)

Alive ==
  \A c \in Connections : \A n \in Numbers :
    link[c] = "up" =>
      Lives(closeCalled, channels[c][n],
            srv[c][n], Kinds(n, toServer[c]), Kinds(n, toClient[c]))

IInv == Wired /\ Placed /\ Waiting /\ PublishedInOrder /\ Alive

-----------------------------------------------------------------------------
(* Short sequences *)

\* What Append gives.
LEMMA AppendIs ==
  ASSUME NEW S, NEW s \in Seq(S), NEW e \in S, NEW t \in Seq(S),
         Len(t) = Len(s) + 1, t[Len(s) + 1] = e, \A i \in 1 .. Len(s) : t[i] = s[i]
  PROVE  Append(s, e) = t
<1>1. \A i \in 1 .. Len(s) + 1 : Append(s, e)[i] = t[i]
  BY AppendProperties
<1>2. Append(s, e) \in Seq(S) /\ Len(Append(s, e)) = Len(t)
  BY AppendProperties
<1> DEFINE u == Append(s, e)
<1> HIDE DEF u
<1>3. u \in Seq(S) /\ Len(u) = Len(t) /\ \A i \in 1 .. Len(u) : u[i] = t[i]
  BY <1>1, <1>2 DEF u
<1>4. u = t
  BY <1>3, SeqEqual
<1> QED
  BY <1>4 DEF u

\* Appending to a sequence of at most two, and taking off one of at most three.
LEMMA Short ==
  /\ \A a : Append(Nil, a) = One(a)
  /\ \A a, b : Append(One(a), b) = Two(a, b)
  /\ \A a, b, c : Append(Two(a, b), c) = Three(a, b, c)
  /\ \A a : Tail(One(a)) = Nil /\ Head(One(a)) = a
  /\ \A a, b : Tail(Two(a, b)) = One(b) /\ Head(Two(a, b)) = a
  /\ \A a, b, c : Tail(Three(a, b, c)) = Two(b, c) /\ Head(Three(a, b, c)) = a
<1>1. \A a : Append(Nil, a) = One(a)
  BY DEF Nil, One
<1>2. ASSUME NEW a, NEW b PROVE Append(One(a), b) = Two(a, b)
  <2> DEFINE S == {a, b}
             s == <<a>>
             t == <<a, b>>
  <2>1. s \in Seq(S) /\ t \in Seq(S) /\ Len(s) = 1 /\ Len(t) = 2
    OBVIOUS
  <2>2. s[1] = a /\ t[1] = a /\ t[2] = b /\ b \in S
    OBVIOUS
  <2> HIDE DEF s, t, S
  <2>3. Len(t) = Len(s) + 1 /\ t[Len(s) + 1] = b /\ \A i \in 1 .. Len(s) : t[i] = s[i]
    BY <2>1, <2>2
  <2>4. Append(s, b) = t
    BY <2>1, <2>2, <2>3, AppendIs
  <2> QED
    BY <2>4 DEF One, Two, s, t
<1>3. ASSUME NEW a, NEW b, NEW c PROVE Append(Two(a, b), c) = Three(a, b, c)
  <2> DEFINE S == {a, b, c}
             s == <<a, b>>
             t == <<a, b, c>>
  <2>1. s \in Seq(S) /\ t \in Seq(S) /\ Len(s) = 2 /\ Len(t) = 3
    OBVIOUS
  <2>2. s[1] = a /\ s[2] = b /\ t[1] = a /\ t[2] = b /\ t[3] = c /\ c \in S
    OBVIOUS
  <2> HIDE DEF s, t, S
  <2>3. Len(t) = Len(s) + 1 /\ t[Len(s) + 1] = c /\ \A i \in 1 .. Len(s) : t[i] = s[i]
    BY <2>1, <2>2
  <2>4. Append(s, c) = t
    BY <2>1, <2>2, <2>3, AppendIs
  <2> QED
    BY <2>4 DEF Three, Two, s, t
<1>4. ASSUME NEW a PROVE Tail(One(a)) = Nil /\ Head(One(a)) = a
  BY DEF Nil, One
<1>5. ASSUME NEW a, NEW b PROVE Tail(Two(a, b)) = One(b) /\ Head(Two(a, b)) = a
  BY DEF One, Two
<1>6. ASSUME NEW a, NEW b, NEW c PROVE Tail(Three(a, b, c)) = Two(b, c) /\ Head(Three(a, b, c)) = a
  BY DEF Two, Three
<1> QED
  BY <1>1, <1>2, <1>3, <1>4, <1>5, <1>6

-----------------------------------------------------------------------------
(* What happens to a number *)

\* The server opens a channel.
LEMMA LifeOpens ==
  ASSUME NEW C, NEW o, NEW s, NEW out, NEW in, Lives(C, o, s, out, in),
         s = "closed", out # Nil, Head(out) = "open"
  PROVE  Lives(C, o, "open", Tail(out), Append(in, "openOk"))
BY Short DEF Lives, Idle, Used, Busy, Asked, Granted

\* It closes one that is open,
LEMMA LifeCloses ==
  ASSUME NEW C, NEW o, NEW s, NEW out, NEW in, Lives(C, o, s, out, in),
         s = "open", out # Nil, Head(out) = "close"
  PROVE  Lives(C, o, "closed", Tail(out), Append(in, "closeOk"))
BY Short DEF Lives, Idle, Used, Busy, Asked, Granted

\* or one that it was closing itself: the closes cross,
LEMMA LifeCrosses ==
  ASSUME NEW C, NEW o, NEW s, NEW out, NEW in, Lives(C, o, s, out, in),
         s = "closing", out # Nil, Head(out) = "close"
  PROVE  Lives(C, o, "closing", Tail(out), Append(in, "closeOk"))
<1>1. \/ out = One("close") /\ in = Two("openOk", "close")
      \/ out = One("close") /\ in = One("close")
      \/ out = Two("close", "closeOk") /\ in = Nil
  BY Short DEF Lives, Idle, Used, Busy, Asked, Granted
<1>2. Busy(s, out, in) /\ o # None /\ o \in C
  BY Short DEF Lives, Idle, Used, Busy, Asked, Granted
<1>3. \/ Tail(out) = Nil /\ Append(in, "closeOk") = Three("openOk", "close", "closeOk")
      \/ Tail(out) = Nil /\ Append(in, "closeOk") = Two("close", "closeOk")
      \/ Tail(out) = One("closeOk") /\ Append(in, "closeOk") = One("closeOk")
  <2>1. CASE out = One("close") /\ in = Two("openOk", "close")
    BY <2>1, Short
  <2>2. CASE out = One("close") /\ in = One("close")
    BY <2>2, Short
  <2>3. CASE out = Two("close", "closeOk") /\ in = Nil
    BY <2>3, Short
  <2> QED
    BY <1>1, <2>1, <2>2, <2>3
<1>4. Granted("closing", Tail(out), Append(in, "closeOk"))
  BY <1>3 DEF Granted
<1> QED
  BY <1>2, <1>4 DEF Lives, Busy

\* and is told that its close has arrived.
LEMMA LifeSettles ==
  ASSUME NEW C, NEW o, NEW s, NEW out, NEW in, Lives(C, o, s, out, in),
         s = "closing", out # Nil, Head(out) = "closeOk"
  PROVE  Lives(C, o, "closed", Tail(out), in)
<1>1. \/ out = One("closeOk")
      \/ in = Nil /\ out = Two("closeOk", "open") /\ o # None
      \/ in = Nil /\ out = Two("closeOk", "close") /\ o # None /\ o \in C
      \/ in = Nil /\ out = Three("closeOk", "open", "close") /\ o # None /\ o \in C
  BY Short DEF Lives, Idle, Used, Busy, Asked, Granted
<1>2. CASE out = One("closeOk")
  <2>1. Tail(out) = Nil
    BY <1>2, Short
  <2>2. in = Nil \/ (in = One("closeOk") /\ o # None /\ o \in C)
    BY <1>2, Short DEF Lives, Idle, Used, Busy, Asked, Granted
  <2> QED
    BY <2>1, <2>2 DEF Lives, Idle, Used, Busy, Asked, Granted
<1>3. CASE in = Nil /\ out = Two("closeOk", "open") /\ o # None
  <2>1. Tail(out) = One("open")
    BY <1>3, Short
  <2> QED
    BY <1>3, <2>1 DEF Lives, Used, Busy
<1>4. CASE in = Nil /\ out = Two("closeOk", "close") /\ o # None /\ o \in C
  <2>1. Tail(out) = One("close")
    BY <1>4, Short
  <2> QED
    BY <1>4, <2>1 DEF Lives, Busy, Asked
<1>5. CASE in = Nil /\ out = Three("closeOk", "open", "close") /\ o # None /\ o \in C
  <2>1. Tail(out) = Two("open", "close")
    BY <1>5, Short
  <2> QED
    BY <1>5, <2>1 DEF Lives, Busy, Asked
<1> QED
  BY <1>1, <1>2, <1>3, <1>4, <1>5

\* It closes one of its own accord.
LEMMA LifeEnds ==
  ASSUME NEW C, NEW o, NEW s, NEW out, NEW in, Lives(C, o, s, out, in),
         s = "open"
  PROVE  Lives(C, o, "closing", out, Append(in, "close"))
BY Short DEF Lives, Idle, Used, Busy, Asked, Granted

\* The client hears that the channel is open,
LEMMA LifeOpened ==
  ASSUME NEW C, NEW o, NEW s, NEW out, NEW in, Lives(C, o, s, out, in),
         in # Nil, Head(in) = "openOk"
  PROVE  Lives(C, o, s, out, Tail(in))
<1>1. /\ o # None
      /\ \/ s = "open"    /\ out = Nil /\ in = One("openOk")
         \/ s = "closing" /\ out = Nil /\ in = Two("openOk", "close")
         \/ o \in C /\ s = "open"    /\ out = One("close") /\ in = One("openOk")
         \/ o \in C /\ s = "closing" /\ out = One("close") /\ in = Two("openOk", "close")
         \/ o \in C /\ s = "closing" /\ out = Nil /\ in = Three("openOk", "close", "closeOk")
         \/ o \in C /\ s = "closed"  /\ out = Nil /\ in = Two("openOk", "closeOk")
  BY Short DEF Lives, Idle, Used, Busy, Asked, Granted
<1>2. /\ in = One("openOk") => Tail(in) = Nil
      /\ in = Two("openOk", "close") => Tail(in) = One("close")
      /\ in = Two("openOk", "closeOk") => Tail(in) = One("closeOk")
      /\ in = Three("openOk", "close", "closeOk") => Tail(in) = Two("close", "closeOk")
  BY Short
<1>3. CASE in \in {One("openOk"), Two("openOk", "close")} /\ out = Nil /\ s \in {"open", "closing"}
  <2>1. \/ s = "open" /\ Tail(in) = Nil
        \/ s = "closing" /\ Tail(in) = One("close")
    BY <1>1, <1>2, <1>3, Short
  <2>2. Used(s, out, Tail(in))
    BY <1>3, <2>1 DEF Used
  <2> QED
    BY <1>1, <2>2 DEF Lives, Busy
<1>4. CASE o \in C /\ out = One("close")
  <2>1. \/ s = "open" /\ Tail(in) = Nil
        \/ s = "closing" /\ Tail(in) = One("close")
    BY <1>1, <1>2, <1>4, Short
  <2>2. Asked(s, out, Tail(in))
    BY <1>4, <2>1 DEF Asked
  <2> QED
    BY <1>1, <1>4, <2>2 DEF Lives, Busy
<1>5. CASE o \in C /\ out = Nil /\ in \in {Three("openOk", "close", "closeOk"), Two("openOk", "closeOk")}
  <2>1. \/ s = "closing" /\ Tail(in) = Two("close", "closeOk")
        \/ s = "closed" /\ Tail(in) = One("closeOk")
    BY <1>1, <1>2, <1>5, Short
  <2>2. Granted(s, out, Tail(in))
    BY <1>5, <2>1 DEF Granted
  <2> QED
    BY <1>1, <1>5, <2>2 DEF Lives, Busy
<1> QED
  BY <1>1, <1>3, <1>4, <1>5

\* that the server closes it, which only happens to one in use,
LEMMA LifeAnswers ==
  ASSUME NEW C, NEW o, NEW s, NEW out, NEW in, Lives(C, o, s, out, in),
         in # Nil, Head(in) = "close"
  PROVE  o # None /\ Lives(C, o, s, Append(out, "closeOk"), Tail(in))
<1>1. /\ s = "closing"
      /\ \/ in = One("close") /\ out = Nil
         \/ in = One("close") /\ out = One("close") /\ o \in C
         \/ in = Two("close", "closeOk") /\ out = Nil /\ o \in C
  BY Short DEF Lives, Idle, Used, Busy, Asked, Granted
<1>2. o # None
  BY <1>1, Short DEF Lives, Idle
<1>3. \A a, b : Tail(One(a)) = Nil /\ Tail(Two(a, b)) = One(b)
  BY Short
<1>4. Append(Nil, "closeOk") = One("closeOk")
  BY Short
<1>5. CASE in = One("close") /\ out = Nil
  <2>1. Tail(in) = Nil /\ Append(out, "closeOk") = One("closeOk")
    BY <1>3, <1>4, <1>5
  <2> QED
    BY <1>1, <1>2, <2>1 DEF Lives, Busy, Used
<1>6. CASE in = One("close") /\ out = One("close") /\ o \in C
  <2>1. Tail(in) = Nil /\ Append(out, "closeOk") = Two("close", "closeOk")
    BY <1>6, Short
  <2> QED
    BY <1>1, <1>2, <1>6, <2>1 DEF Lives, Busy, Asked
<1>7. CASE in = Two("close", "closeOk") /\ out = Nil /\ o \in C
  <2>1. Tail(in) = One("closeOk") /\ Append(out, "closeOk") = One("closeOk")
    BY <1>3, <1>4, <1>7
  <2> QED
    BY <1>1, <1>2, <1>7, <2>1 DEF Lives, Busy, Granted
<1> QED
  BY <1>1, <1>5, <1>6, <1>7

\* and that it is closed.
LEMMA LifeFreed ==
  ASSUME NEW C, NEW o, NEW s, NEW out, NEW in, Lives(C, o, s, out, in),
         in # Nil, Head(in) = "closeOk"
  PROVE  o \in C /\ Idle(s, out, Tail(in))
<1>1. in = One("closeOk")
  BY Short DEF Lives, Idle, Used, Busy, Asked, Granted
<1>2. (s = "closing" /\ out = One("closeOk")) \/ (s = "closed" /\ out = Nil)
  BY <1>1, Short DEF Lives, Idle, Used, Busy, Asked, Granted
<1>3. Tail(in) = Nil /\ o \in C
  BY <1>1, Short DEF Lives, Idle, Used, Busy, Asked, Granted
<1> QED
  BY <1>2, <1>3 DEF Idle

\* A free number is given to an exchange or queue.
LEMMA LifeCreated ==
  ASSUME NEW s, NEW out, NEW in, Idle(s, out, in)
  PROVE  Used(s, Append(out, "open"), in)
<1>1. CASE s = "closed"
  <2>1. out = Nil /\ in = Nil
    BY <1>1 DEF Idle
  <2>2. Append(out, "open") = One("open")
    BY <2>1, Short
  <2> QED
    BY <1>1, <2>1, <2>2 DEF Used
<1>2. CASE s # "closed"
  <2>1. s = "closing" /\ out = One("closeOk") /\ in = Nil
    BY <1>2 DEF Idle
  <2>2. Append(out, "open") = Two("closeOk", "open")
    BY <2>1, Short
  <2> QED
    BY <2>1, <2>2 DEF Used
<1> QED
  BY <1>1, <1>2

\* Its close() is called.
LEMMA LifeAsked ==
  ASSUME NEW s, NEW out, NEW in, Used(s, out, in)
  PROVE  Busy(s, Append(out, "close"), in)
<1>1. \A a : Append(Nil, a) = One(a)
  BY Short
<1>2. \A a, b : Append(One(a), b) = Two(a, b)
  BY Short
<1>3. \A a, b, c : Append(Two(a, b), c) = Three(a, b, c)
  BY Short
<1>4. CASE out = Nil
  <2>1. Append(out, "close") = One("close")
    BY <1>1, <1>4
  <2> QED
    BY <1>4, <2>1, Short DEF Used, Busy, Asked
<1>5. CASE out = One("open") \/ out = One("closeOk")
  <2>1. \/ out = One("open") /\ Append(out, "close") = Two("open", "close")
        \/ out = One("closeOk") /\ Append(out, "close") = Two("closeOk", "close")
    BY <1>2, <1>5
  <2> QED
    BY <2>1, Short DEF Used, Busy, Asked
<1>6. CASE out = Two("closeOk", "open")
  <2>1. Append(out, "close") = Three("closeOk", "open", "close")
    BY <1>3, <1>6
  <2> QED
    BY <1>6, <2>1, Short DEF Used, Busy, Asked
<1> QED
  BY <1>4, <1>5, <1>6 DEF Used

\* Every number in use is opened on a new connection.
LEMMA LifeReopened ==
  ASSUME NEW C, NEW o, NEW out, out = IF o = None THEN Nil ELSE One("open")
  PROVE  Lives(C, o, "closed", out, Nil)
BY DEF Lives, Idle, Used, Busy

-----------------------------------------------------------------------------
(* The methods on a wire that carry a number *)

\* The kinds of the methods of a sequence.
Mapped(u) == [i \in 1 .. Len(u) |-> u[i].m]

\* One method more,
LEMMA MappedAppend ==
  ASSUME NEW S, NEW u \in Seq(S), NEW x \in S
  PROVE  Mapped(Append(u, x)) = Append(Mapped(u), x.m)
<1> DEFINE v == Append(u, x)
           T == {e.m : e \in S}
<1>1. v \in Seq(S) /\ Len(v) = Len(u) + 1 /\ v[Len(u) + 1] = x
      /\ \A i \in 1 .. Len(u) : v[i] = u[i]
  BY AppendProperties
<1> HIDE DEF v
<1>2. Mapped(u) \in Seq(T) /\ Len(Mapped(u)) = Len(u)
  BY DEF Mapped
<1>3. Mapped(v) \in Seq(T) /\ Len(Mapped(v)) = Len(v)
  BY <1>1 DEF Mapped
<1>4. /\ x.m \in T /\ Mapped(v)[Len(u) + 1] = x.m
      /\ \A i \in 1 .. Len(u) : Mapped(v)[i] = Mapped(u)[i]
  BY <1>1 DEF Mapped
<1> DEFINE p == Mapped(u)
           q == Mapped(v)
           y == x.m
<1>5. /\ p \in Seq(T) /\ q \in Seq(T) /\ y \in T /\ Len(q) = Len(p) + 1 /\ q[Len(p) + 1] = y
      /\ \A i \in 1 .. Len(p) : q[i] = p[i]
  BY <1>1, <1>2, <1>3, <1>4
<1> HIDE DEF p, q, y, T
<1>6. Append(p, y) = q
  BY <1>5, AppendIs
<1> QED
  BY <1>6 DEF p, q, y, v

\* or one in front.
LEMMA MappedFirst ==
  ASSUME NEW S, NEW u \in Seq(S), NEW x \in S
  PROVE  /\ Mapped(<<x>> \o u) # Nil
         /\ Head(Mapped(<<x>> \o u)) = x.m
         /\ Tail(Mapped(<<x>> \o u)) = Mapped(u)
<1> DEFINE v == <<x>> \o u
           T == {e.m : e \in S}
<1>1. v \in Seq(S) /\ Len(v) = Len(u) + 1 /\ v[1] = x
      /\ \A i \in 1 .. Len(u) : v[i + 1] = u[i]
  OBVIOUS
<1> HIDE DEF v
<1> DEFINE q == Mapped(v)
           p == Mapped(u)
<1>2. p \in Seq(T) /\ Len(p) = Len(u) /\ q \in Seq(T) /\ Len(q) = Len(v)
  BY <1>1 DEF Mapped
<1>3. q[1] = x.m /\ \A i \in 1 .. Len(u) : q[i + 1] = p[i]
  BY <1>1 DEF Mapped
<1>4. Len(u) \in Nat
  OBVIOUS
<1> HIDE DEF q, p, T
<1>5. q # Nil /\ Head(q) = x.m
  BY <1>1, <1>2, <1>3, <1>4 DEF Nil
<1> DEFINE t == Tail(q)
<1>6. t \in Seq(T) /\ Len(t) = Len(p) /\ \A i \in 1 .. Len(p) : t[i] = p[i]
  BY <1>1, <1>2, <1>3, <1>4
<1>7. t = p
  <2> HIDE DEF t
  <2> QED
    BY <1>2, <1>6, SeqEqual
<1> QED
  BY <1>5, <1>7 DEF q, p, v

\* Nothing on a wire,
LEMMA KindsEmpty ==
  ASSUME NEW n
  PROVE  Kinds(n, <<>>) = Nil
<1>1. Of(n, <<>>) = <<>>
  BY FilterEmpty DEF Of
<1> QED
  BY <1>1 DEF Kinds, Nil

\* a method more on it,
LEMMA KindsAppend ==
  ASSUME NEW n \in Numbers, NEW w \in Seq(Message), NEW x \in Message
  PROVE  Kinds(n, Append(w, x)) = IF x.n = n THEN Append(Kinds(n, w), x.m) ELSE Kinds(n, w)
<1> DEFINE P == [m : {"open", "openOk", "close", "closeOk"}, n : {n}]
<1>1. x \in P <=> x.n = n
  BY DEF Message
<1>2. Filter(Append(w, x), P) = IF x \in P THEN Append(Filter(w, P), x) ELSE Filter(w, P)
  <2> HIDE DEF P
  <2> QED
    BY FilterAppend
<1>3. Filter(w, P) \in Seq(Message)
  <2> HIDE DEF P
  <2> QED
    BY FilterType
<1>4. \A v : Kinds(n, v) = Mapped(Filter(v, P))
  BY DEF Kinds, Of, Mapped
<1> HIDE DEF P
<1> DEFINE u == Filter(w, P)
<1>5. u \in Seq(Message)
  BY <1>3
<1> HIDE DEF u
<1>6. Mapped(Append(u, x)) = Append(Mapped(u), x.m)
  BY <1>5, MappedAppend
<1> QED
  BY <1>1, <1>2, <1>4, <1>6 DEF u

\* and the first one taken off.
LEMMA KindsTail ==
  ASSUME NEW n \in Numbers, NEW w \in Seq(Message), w # <<>>
  PROVE  /\ Head(w) \in Message /\ Tail(w) \in Seq(Message)
         /\ Head(w).n = n => /\ Kinds(n, w) # Nil /\ Head(Kinds(n, w)) = Head(w).m
                             /\ Kinds(n, Tail(w)) = Tail(Kinds(n, w))
         /\ Head(w).n # n => Kinds(n, Tail(w)) = Kinds(n, w)
<1> DEFINE P == [m : {"open", "openOk", "close", "closeOk"}, n : {n}]
           x == Head(w)
           t == Tail(w)
<1>0. x \in Message /\ t \in Seq(Message)
  OBVIOUS
<1>1. x \in P <=> x.n = n
  <2> HIDE DEF x
  <2> QED
    BY <1>0 DEF Message
<1>2. Filter(w, P) = IF x \in P THEN <<x>> \o Filter(t, P) ELSE Filter(t, P)
  <2> HIDE DEF P
  <2> QED
    BY FilterTail
<1> HIDE DEF x, t
<1>3. Filter(t, P) \in Seq(Message)
  <2> HIDE DEF P
  <2> QED
    BY <1>0, FilterType
<1>4. \A v : Kinds(n, v) = Mapped(Filter(v, P))
  BY DEF Kinds, Of, Mapped
<1> HIDE DEF P
<1> DEFINE u == Filter(t, P)
<1>5. u \in Seq(Message)
  BY <1>3
<1> HIDE DEF u
<1>6. /\ Mapped(<<x>> \o u) # Nil /\ Head(Mapped(<<x>> \o u)) = x.m
      /\ Tail(Mapped(<<x>> \o u)) = Mapped(u)
  BY <1>0, <1>5, MappedFirst
<1>7. CASE x.n = n
  <2>1. Kinds(n, w) = Mapped(<<x>> \o u) /\ Kinds(n, t) = Mapped(u)
    BY <1>1, <1>2, <1>4, <1>7 DEF u
  <2> QED
    BY <1>0, <1>6, <1>7, <2>1 DEF x, t
<1>8. CASE x.n # n
  <2>1. Kinds(n, w) = Kinds(n, t)
    BY <1>1, <1>2, <1>4, <1>8
  <2> QED
    BY <1>0, <1>8, <2>1 DEF x, t
<1> QED
  BY <1>7, <1>8

\* The numbers of the channels in T, opened in their order.
LEMMA KindsOpens ==
  ASSUME NEW T \in SUBSET Numbers,
         NEW w, w = Filter([k \in Numbers |-> [m |-> "open", n |-> k]], [m : {"open"}, n : T])
  PROVE  /\ w \in Seq(Message)
         /\ \A n \in Numbers : Kinds(n, w) = IF n \in T THEN One("open") ELSE Nil
<1> DEFINE Q == [m : {"open"}, n : T]
           M(k) == [m |-> "open", n |-> k]
           g(j) == [k \in 1 .. j |-> M(k)]
           W(j) == Filter(g(j), Q)
<1>0. Highest \in Nat
  BY RegistryAssumption
<1>1. \A k \in Numbers : M(k) \in Message /\ M(k).m = "open" /\ M(k).n = k /\ (M(k) \in Q <=> k \in T)
  BY DEF Message
<1>2. ASSUME NEW j \in 0 .. Highest PROVE g(j) \in Seq(Message)
  BY <1>0, <1>1 DEF Numbers
<1>3. ASSUME NEW j \in 0 .. Highest PROVE W(j) \in Seq(Message)
  <2> DEFINE s == g(j)
  <2>1. s \in Seq(Message)
    BY <1>2
  <2> HIDE DEF s, Q
  <2>2. Filter(s, Q) \in Seq(Message)
    BY <2>1, FilterType
  <2> QED
    BY <2>2 DEF s
<1>4. g(0) = <<>> /\ W(0) = <<>>
  <2>1. g(0) = <<>>
    OBVIOUS
  <2> HIDE DEF g, Q
  <2> QED
    BY <2>1, FilterEmpty
<1>5. ASSUME NEW j \in 0 .. Highest - 1
      PROVE  W(j + 1) = IF j + 1 \in T THEN Append(W(j), M(j + 1)) ELSE W(j)
  <2> DEFINE s == g(j)
             e == M(j + 1)
  <2>1. j \in 0 .. Highest /\ j + 1 \in Numbers /\ j + 1 \in 0 .. Highest
    BY <1>0 DEF Numbers
  <2>2. s \in Seq(Message) /\ e \in Message /\ (e \in Q <=> j + 1 \in T) /\ Len(s) = j
    BY <1>1, <1>2, <2>1
  <2>3. g(j + 1) \in Seq(Message) /\ Len(g(j + 1)) = j + 1 /\ g(j + 1)[j + 1] = e
        /\ \A i \in 1 .. j : g(j + 1)[i] = s[i]
    <3>1. g(j + 1) \in Seq(Message)
      BY <1>2, <2>1
    <3> HIDE DEF M
    <3> QED
      BY <2>1, <3>1
  <2> DEFINE t == g(j + 1)
  <2>4. t \in Seq(Message) /\ Len(t) = Len(s) + 1 /\ t[Len(s) + 1] = e
        /\ \A i \in 1 .. Len(s) : t[i] = s[i]
    BY <2>2, <2>3
  <2> HIDE DEF s, e, t, Q
  <2>5. Append(s, e) = t
    BY <2>2, <2>4, AppendIs
  <2>6. Filter(t, Q) = IF e \in Q THEN Append(Filter(s, Q), e) ELSE Filter(s, Q)
    BY ZenonT(30), <2>2, <2>5, FilterAppend
  <2> QED
    BY <2>2, <2>6 DEF s, e, t
<1> DEFINE G == {j \in Nat : j <= Highest =>
                   \A n \in Numbers :
                     Kinds(n, W(j)) = IF n \in T /\ n <= j THEN One("open") ELSE Nil}
<1>6. 0 \in G
  <2>1. \A n \in Numbers : ~(n <= 0) /\ Kinds(n, W(0)) = Nil
    BY <1>4, KindsEmpty DEF Numbers
  <2> QED
    BY <2>1
<1>7. ASSUME NEW j \in Nat, j \in G PROVE j + 1 \in G
  <2> HIDE DEF W, M
  <2> SUFFICES ASSUME j + 1 <= Highest, NEW n \in Numbers
               PROVE  Kinds(n, W(j + 1)) = IF n \in T /\ n <= j + 1 THEN One("open") ELSE Nil
    OBVIOUS
  <2>1. j \in 0 .. Highest - 1 /\ j \in 0 .. Highest /\ j + 1 \in Numbers /\ n \in Int
    BY <1>0 DEF Numbers
  <2>2. Kinds(n, W(j)) = IF n \in T /\ n <= j THEN One("open") ELSE Nil
    BY <1>7, <2>1
  <2>3. W(j + 1) = IF j + 1 \in T THEN Append(W(j), M(j + 1)) ELSE W(j)
    BY <1>5, <2>1
  <2>4. W(j) \in Seq(Message)
    BY <1>3, <2>1
  <2>5. M(j + 1) \in Message /\ M(j + 1).m = "open" /\ M(j + 1).n = j + 1
    BY <1>1, <2>1
  <2> DEFINE u == W(j)
             v == W(j + 1)
             e == M(j + 1)
  <2> HIDE DEF u, v, e
  <2>6. Kinds(n, Append(u, e)) = IF e.n = n THEN Append(Kinds(n, u), e.m) ELSE Kinds(n, u)
    BY <2>4, <2>5, KindsAppend DEF u, e
  <2>7. /\ Kinds(n, u) = IF n \in T /\ n <= j THEN One("open") ELSE Nil
        /\ v = IF j + 1 \in T THEN Append(u, e) ELSE u
        /\ e.m = "open" /\ e.n = j + 1
    BY <2>2, <2>3, <2>5 DEF u, v, e
  <2>8. Kinds(n, v) = IF n \in T /\ n <= j + 1 THEN One("open") ELSE Nil
    <3>1. CASE n = j + 1
      <4>1. Kinds(n, u) = Nil
        BY <2>1, <2>7, <3>1
      <4>2. Append(Kinds(n, u), e.m) = One("open")
        BY <2>7, <4>1, Short
      <4> QED
        BY SMTT(30), <2>1, <2>6, <2>7, <3>1, <4>1, <4>2
    <3>2. CASE n # j + 1
      <4>1. Kinds(n, v) = Kinds(n, u)
        BY <2>6, <2>7, <3>2
      <4>2. n <= j <=> n <= j + 1
        BY <2>1, <3>2
      <4> QED
        BY <2>7, <4>1, <4>2
    <3> QED
      BY <3>1, <3>2
  <2> QED
    BY <2>8 DEF v
<1>8. Highest \in G
  <2> HIDE DEF G
  <2> QED
    BY <1>0, <1>6, <1>7, NatInSet
<1>9. w = W(Highest)
  BY DEF Numbers
<1>10. w \in Seq(Message)
  <2> HIDE DEF W
  <2> QED
    BY <1>0, <1>3, <1>9
<1>11. ASSUME NEW n \in Numbers PROVE Kinds(n, w) = IF n \in T THEN One("open") ELSE Nil
  <2> HIDE DEF W
  <2>1. n <= Highest
    BY <1>0 DEF Numbers
  <2> QED
    BY <1>0, <1>8, <1>9, <2>1
<1> QED
  BY <1>10, <1>11

-----------------------------------------------------------------------------
(* How generateChannelId finds a number *)

\* The numbers generateChannelId tries, one after the other.
Tries(c, id) ==
  id = [k \in 0 .. channelMax + 1 |->
         IF k = 0 THEN channelCounter[c] ELSE (id[k - 1] % channelMax) + 1]

\* There is such a function,
LEMMA TriesExist ==
  ASSUME NEW c, channelMax \in Nat
  PROVE  \E id : Tries(c, id)
<1> DEFINE Step(h, i) == IF i = 0 THEN channelCounter[c] ELSE (h[i - 1] % channelMax) + 1
           Good == {n \in Nat : \E f : f = [i \in 0 .. n |-> Step(f, i)]}
<1>1. 0 \in Good
  <2> DEFINE z == [i \in 0 .. 0 |-> channelCounter[c]]
  <2>1. z = [i \in 0 .. 0 |-> Step(z, i)]
    OBVIOUS
  <2> QED
    BY <2>1
<1>2. ASSUME NEW n \in Nat, n \in Good PROVE n + 1 \in Good
  <2>1. PICK f : f = [i \in 0 .. n |-> Step(f, i)]
    BY <1>2
  <2> DEFINE g == [i \in 0 .. n + 1 |-> Step(f, i)]
  <2>2. ASSUME NEW i \in 0 .. n PROVE g[i] = f[i]
    <3> HIDE DEF Step
    <3> QED BY <2>1
  <2>3. ASSUME NEW i \in 0 .. n + 1 PROVE Step(f, i) = Step(g, i)
    <3> HIDE DEF g
    <3>1. CASE i = 0
      BY <3>1
    <3>2. CASE i # 0
      <4>1. g[i - 1] = f[i - 1]
        BY <2>2, <3>2
      <4> QED
        BY <4>1
    <3> QED
      BY <3>1, <3>2
  <2>4. g = [i \in 0 .. n + 1 |-> Step(g, i)]
    <3> HIDE DEF Step
    <3> QED BY <2>3
  <2> HIDE DEF g, Step
  <2> QED
    BY <2>4
<1>3. channelMax + 1 \in Good
  <2>1. channelMax + 1 \in Nat
    OBVIOUS
  <2> HIDE DEF Good
  <2> QED BY <1>1, <1>2, <2>1, NatInSet
<1> QED
  BY <1>3 DEF Tries

\* and NextId is where it ends.
LEMMA NextIdIs ==
  ASSUME NEW c, channelMax \in Nat
  PROVE  \E id, ends :
           /\ Tries(c, id)
           /\ ends = {k \in 1 .. channelMax + 1 : id[k] \notin Tracked(c) \/ id[k] = channelCounter[c]}
           /\ NextId(c) = IF ends = {} THEN -1
                          ELSE IF id[Min(ends)] \in Tracked(c) THEN 0 ELSE id[Min(ends)]
<1> DEFINE id[k \in 0 .. channelMax + 1] ==
             IF k = 0 THEN channelCounter[c] ELSE (id[k - 1] % channelMax) + 1
           ends == {k \in 1 .. channelMax + 1 : id[k] \notin Tracked(c) \/ id[k] = channelCounter[c]}
<1>1. NextId(c) = IF ends = {} THEN -1
                  ELSE IF id[Min(ends)] \in Tracked(c) THEN 0 ELSE id[Min(ends)]
  BY DEF NextId
<1>2. Tries(c, id)
  BY TriesExist DEF Tries
<1> HIDE DEF id
<1> QED
  BY <1>1, <1>2

\* One step around.
LEMMA OneRound ==
  ASSUME NEW m \in Nat, m # 0, NEW x \in Nat
  PROVE  /\ x % m \in 0 .. m - 1
         /\ x < m => x % m = x
         /\ x = m => x % m = 0
OBVIOUS

\* A number that is given out is free.
LEMMA NextIdFree ==
  ASSUME NEW c, channelMax \in Nat, NextId(c) \in Numbers
  PROVE  NextId(c) \notin Tracked(c)
<1>1. -1 \notin Numbers /\ 0 \notin Numbers
  BY RegistryAssumption DEF Numbers
<1>2. NextId(c) = -1 \/ \E last : NextId(c) = IF last \in Tracked(c) THEN 0 ELSE last
  BY NextIdIs
<1> QED
  BY <1>1, <1>2

\* From the first number on they ascend, and start again at 1 after channelMax.
LEMMA TriesGoAround ==
  ASSUME NEW c, channelMax \in Nat, channelMax # 0, channelCounter[c] \in Nat,
         NEW id, Tries(c, id)
  PROVE  \A k \in 1 .. channelMax :
           id[k] = LET x == (channelCounter[c] % channelMax) + k
                   IN  IF x <= channelMax THEN x ELSE x - channelMax
<1> DEFINE m == channelMax
           a == channelCounter[c] % channelMax
           At(k) == IF a + k <= m THEN a + k ELSE a + k - m
           G == {k \in Nat : k + 1 <= m => id[k + 1] = At(k + 1)}
<1>1. a \in 0 .. m - 1 /\ m \in Nat
  BY OneRound
<1>2. /\ id[0] = channelCounter[c]
      /\ \A k \in 0 .. m : id[k + 1] = (id[k] % m) + 1
  <2> DEFINE Step(k) == IF k = 0 THEN channelCounter[c] ELSE (id[k - 1] % m) + 1
  <2>1. id = [k \in 0 .. m + 1 |-> Step(k)]
    BY DEF Tries
  <2>2. ASSUME NEW k \in 0 .. m + 1 PROVE id[k] = Step(k)
    <3> HIDE DEF Step
    <3> QED
      BY <2>1
  <2>3. id[0] = Step(0)
    BY <1>1, <2>2
  <2>4. ASSUME NEW k \in 0 .. m PROVE id[k + 1] = (id[k] % m) + 1
    <3>1. k + 1 \in 0 .. m + 1 /\ k + 1 # 0 /\ (k + 1) - 1 = k
      BY <1>1
    <3> QED
      BY <2>2, <3>1
  <2> QED
    BY <2>3, <2>4
<1> HIDE DEF a
<1>3. 0 \in G
  <2>1. id[0 + 1] = (id[0] % m) + 1
    BY <1>1, <1>2
  <2> QED
    BY <1>1, <1>2, <2>1 DEF a
<1>4. ASSUME NEW k \in Nat, k \in G PROVE k + 1 \in G
  <2> SUFFICES ASSUME (k + 1) + 1 <= m PROVE id[(k + 1) + 1] = At((k + 1) + 1)
    OBVIOUS
  <2> DEFINE y == id[k + 1]
  <2>1. y = At(k + 1) /\ id[(k + 1) + 1] = (y % m) + 1
    BY <1>1, <1>2, <1>4
  <2>2. y \in 1 .. m /\ (y = m <=> a + k + 1 = m)
    BY <1>1, <2>1
  <2> HIDE DEF y
  <2>3. y % m = IF y = m THEN 0 ELSE y
    <3>1. y \in Nat /\ (y < m \/ y = m) /\ m # 0
      BY <1>1, <2>2
    <3> HIDE DEF m
    <3>2. (y < m => y % m = y) /\ (y = m => y % m = 0)
      BY <1>1, <3>1, OneRound
    <3> QED
      BY <1>1, <3>1, <3>2
  <2> QED
    BY <1>1, <2>1, <2>2, <2>3
<1>5. \A k \in Nat : k \in G
  <2> HIDE DEF G
  <2> QED
    BY <1>3, <1>4, NatInSet
<1>6. ASSUME NEW k \in 1 .. m PROVE id[k] = At(k)
  <2>1. k - 1 \in Nat /\ (k - 1) + 1 = k /\ (k - 1) \in G
    BY <1>1, <1>5
  <2> HIDE DEF At
  <2> QED
    BY <2>1
<1> QED
  BY <1>6 DEF a

\* The first of a set of numbers.
LEMMA MinIs ==
  ASSUME NEW T \in SUBSET Nat, T # {}
  PROVE  Min(T) \in T /\ \A n \in T : Min(T) <= n
<1>1. \E m \in T : \A n \in T : m <= n
  BY NatMin
<1> QED
  BY <1>1 DEF Min

\* The search ends at a free number if there is one.
LEMMA NextIdFinds ==
  ASSUME NEW c, channelMax \in Nat, channelMax # 0, channelCounter[c] \in Nat
  PROVE  LET free == (1 .. channelMax) \ Tracked(c)
         IN  IF free = {} THEN NextId(c) \in {0, -1} ELSE NextId(c) \in free
<1> DEFINE m == channelMax
           from == channelCounter[c]
           a == from % m
           free == (1 .. m) \ Tracked(c)
<1>1. PICK id, ends :
        /\ Tries(c, id)
        /\ ends = {k \in 1 .. m + 1 : id[k] \notin Tracked(c) \/ id[k] = from}
        /\ NextId(c) = IF ends = {} THEN -1
                       ELSE IF id[Min(ends)] \in Tracked(c) THEN 0 ELSE id[Min(ends)]
  BY NextIdIs
<1>2. \A k \in 1 .. m : id[k] = IF a + k <= m THEN a + k ELSE a + k - m
  BY <1>1, TriesGoAround
<1>3. a \in 0 .. m - 1 /\ (from < m => a = from) /\ (from = m => a = 0) /\ from \in Nat /\ m \in Nat
  BY OneRound
<1>4. ends \in SUBSET Nat
  BY <1>1
<1>5. id[m + 1] \in 1 .. m
  <2> DEFINE Step(k) == IF k = 0 THEN from ELSE (id[k - 1] % m) + 1
  <2>1. id = [k \in 0 .. m + 1 |-> Step(k)]
    BY <1>1 DEF Tries
  <2>2. id[m + 1] = Step(m + 1)
    <3> HIDE DEF Step
    <3> QED
      BY <1>3, <2>1
  <2>3. id[m] \in Nat
    <3>1. m \in 1 .. m
      BY <1>3
    <3>2. id[m] = IF a + m <= m THEN a + m ELSE a + m - m
      BY <1>2, <3>1
    <3> HIDE DEF a
    <3> QED
      BY <1>3, <3>2
  <2> DEFINE y == id[m]
  <2>4. id[m + 1] = (y % m) + 1 /\ y \in Nat
    BY <1>3, <2>2, <2>3
  <2> HIDE DEF y
  <2> QED
    BY <1>3, <2>4, OneRound
<1> HIDE DEF a
<1>6. \A k \in 1 .. m + 1 : id[k] \in 1 .. m
  <2>1. ASSUME NEW k \in 1 .. m + 1 PROVE id[k] \in 1 .. m
    <3>1. CASE k = m + 1
      BY <1>5, <3>1
    <3>2. CASE k # m + 1
      <4>1. k \in 1 .. m
        BY <1>3, <3>2
      <4> QED
        BY <1>2, <1>3, <4>1
    <3> QED
      BY <3>1, <3>2
  <2> QED
    BY <2>1
<1>7. CASE free = {}
  <2>1. ASSUME ends # {} PROVE id[Min(ends)] \in Tracked(c)
    <3>1. Min(ends) \in 1 .. m + 1
      BY <1>1, <1>4, <2>1, MinIs
    <3> QED
      BY <1>6, <1>7, <3>1
  <2> QED
    BY <1>1, <1>7, <2>1
<1>8. CASE free # {}
  <2>1. PICK f \in 1 .. m : f \notin Tracked(c)
    BY <1>8
  <2>2. PICK k \in 1 .. m : id[k] = f
    <3> DEFINE j == IF f > a THEN f - a ELSE f - a + m
    <3>1. j \in 1 .. m
      BY <1>3, <2>1
    <3>2. id[j] = IF a + j <= m THEN a + j ELSE a + j - m
      BY <1>2, <3>1
    <3>3. id[j] = f
      BY <1>3, <2>1, <3>2
    <3> QED
      BY <3>1, <3>3
  <2>3. k \in ends
    BY <1>1, <1>3, <2>1, <2>2
  <2> DEFINE e == Min(ends)
  <2>4. e \in ends /\ e <= k
    BY <1>4, <2>3, MinIs
  <2> HIDE DEF e
  <2>5. e \in 1 .. m
    BY <1>1, <1>3, <2>4
  <2>6. id[e] \notin Tracked(c)
    <3> SUFFICES ASSUME id[e] \in Tracked(c) PROVE FALSE
      OBVIOUS
    <3>1. id[e] = from
      BY <1>1, <2>4
    <3>2. from \in 1 .. m
      BY <1>6, <2>5, <3>1
    <3>3. e = m
      <4>1. id[e] = IF a + e <= m THEN a + e ELSE a + e - m
        BY <1>2, <2>5
      <4>2. a = IF from = m THEN 0 ELSE from
        BY <1>3, <3>2
      <4> QED
        BY <1>3, <2>5, <3>1, <3>2, <4>1, <4>2
    <3>4. k = m
      BY <2>4, <3>3
    <3> QED
      BY <2>1, <2>2, <3>3, <3>4
  <2>7. id[e] \in 1 .. m
    BY <1>6, <2>5
  <2>8. NextId(c) = id[e]
    BY <1>1, <2>4, <2>6 DEF e
  <2> QED
    BY <1>8, <2>6, <2>7, <2>8
<1> QED
  BY <1>7, <1>8

-----------------------------------------------------------------------------
(* What the steps have in common *)

\* The types of what belongs to one connection.
LEMMA WiresOf ==
  ASSUME Wired, NEW c \in Connections
  PROVE  /\ link[c] \in {"new", "up", "down"}
         /\ toServer[c] \in Seq(Message) /\ toClient[c] \in Seq(Message)
         /\ channels[c] \in [Numbers -> Objects \cup {None}]
         /\ srv[c] \in [Numbers -> {"closed", "open", "closing"}]
         /\ link[c] # "up" => toServer[c] = <<>> /\ toClient[c] = <<>>
BY DEF Wired

\* The first method on a wire.
LEMMA HeadOf ==
  ASSUME NEW w \in Seq(Message), w # <<>>
  PROVE  /\ Head(w) \in Message /\ Tail(w) \in Seq(Message)
         /\ Head(w).n \in Numbers /\ Head(w).m \in {"open", "openOk", "close", "closeOk"}
<1> DEFINE x == Head(w)
<1>1. x \in Message /\ Tail(w) \in Seq(Message)
  OBVIOUS
<1> HIDE DEF x
<1>2. x.n \in Numbers /\ x.m \in {"open", "openOk", "close", "closeOk"}
  BY <1>1 DEF Message
<1> QED
  BY <1>1, <1>2 DEF x

\* The methods that are sent.
LEMMA MessageType ==
  ASSUME NEW m \in {"open", "openOk", "close", "closeOk"}, NEW n \in Numbers
  PROVE  [m |-> m, n |-> n] \in Message
BY DEF Message

\* A step that touches one connection keeps the lives of the others.
LEMMA AliveBy ==
  ASSUME Alive, Placed, NEW c \in Connections,
         \A n \in Numbers : link'[c] = "up" =>
           Lives(closeCalled', channels'[c][n],
                 srv'[c][n], Kinds(n, toServer'[c]), Kinds(n, toClient'[c])),
         \A d \in Connections \ {c} :
           /\ link'[d] = link[d] /\ channels'[d] = channels[d] /\ srv'[d] = srv[d]
           /\ toServer'[d] = toServer[d] /\ toClient'[d] = toClient[d],
         \A o \in closeCalled' \ closeCalled : Owner[o] = c, closeCalled \subseteq closeCalled'
  PROVE  Alive'
<1> SUFFICES ASSUME NEW d \in Connections, NEW n \in Numbers, link'[d] = "up"
             PROVE  Lives(closeCalled', channels'[d][n],
                          srv'[d][n], Kinds(n, toServer'[d]), Kinds(n, toClient'[d]))
  BY DEF Alive
<1>1. CASE d = c
  BY <1>1
<1>2. CASE d # c
  <2>1. Lives(closeCalled, channels[d][n], srv[d][n], Kinds(n, toServer[d]), Kinds(n, toClient[d]))
    BY <1>2 DEF Alive
  <2>2. channels[d][n] = None \/ (channels[d][n] \in closeCalled' <=> channels[d][n] \in closeCalled)
    BY <1>2 DEF Placed
  <2> DEFINE o == channels[d][n]
             s == srv[d][n]
             out == Kinds(n, toServer[d])
             in == Kinds(n, toClient[d])
  <2>3. Lives(closeCalled, o, s, out, in) /\ (o = None \/ (o \in closeCalled' <=> o \in closeCalled))
    BY <2>1, <2>2
  <2> HIDE DEF o, s, out, in
  <2>4. Lives(closeCalled', o, s, out, in)
    BY <2>3 DEF Lives
  <2> QED
    BY <1>2, <2>4 DEF o, s, out, in
<1> QED
  BY <1>1, <1>2

\* The exchanges and queues keep their numbers, and none becomes new.
LEMMA PlacedBy ==
  ASSUME Wired, Placed, UNCHANGED <<channels, closeCalled>>,
         state' \in [Objects -> {"new", "undefined", "open", "closing", "closed"}],
         \A o \in Objects :
           /\ state[o] # "new" => state'[o] # "new"
           /\ state'[o] \in {"new", "closed", state[o]}
              \/ \E n \in Numbers : channels[Owner[o]][n] = o
  PROVE  Placed'
<1>1. \A c, d \in Connections : \A n, k \in Numbers :
        channels'[c][n] # None /\ channels'[c][n] = channels'[d][k] => c = d /\ n = k
  BY DEF Placed
<1>2. ASSUME NEW c \in Connections, NEW n \in Numbers, channels'[c][n] # None
      PROVE  Owner[channels'[c][n]] = c /\ state'[channels'[c][n]] # "new"
  <2>1. channels[c][n] \in Objects
    BY <1>2, WiresOf
  <2> QED
    BY <1>2, <2>1 DEF Placed
<1>3. closeCalled' \subseteq {o \in Objects : state'[o] # "new"}
  BY DEF Placed
<1>4. ASSUME NEW o \in Objects, state'[o] \notin {"new", "closed"}
      PROVE  \E n \in Numbers : channels'[Owner[o]][n] = o
  BY <1>4 DEF Placed
<1> QED
  BY <1>1, <1>2, <1>3, <1>4 DEF Placed

\* No default exchange becomes open, and no publish is made.
LEMMA WaitingBy ==
  ASSUME Waiting, PublishedInOrder, UNCHANGED <<defaultExchange, deferred, written>>,
         \A o \in Objects : /\ state[o] # "new" => state'[o] # "new"
                            /\ state'[o] = "open" => state[o] = "open"
  PROVE  Waiting' /\ PublishedInOrder'
<1>1. PublishedInOrder'
  BY DEF PublishedInOrder
<1>2. ASSUME NEW c \in Connections
      PROVE  /\ defaultExchange'[c] = None => deferred'[c] = <<>> /\ written'[c] = <<>>
             /\ defaultExchange'[c] # None => /\ Owner[defaultExchange'[c]] = c
                                              /\ state'[defaultExchange'[c]] # "new"
             /\ defaultExchange'[c] # None /\ state'[defaultExchange'[c]] = "open"
                  => deferred'[c] = <<>>
  <2>1. defaultExchange[c] = None \/ defaultExchange[c] \in Objects
    BY DEF Waiting
  <2> QED
    BY <2>1 DEF Waiting
<1> QED
  BY <1>1, <1>2 DEF Waiting

\* The invariant, by its parts.
LEMMA Parts ==
  ASSUME IInv
  PROVE  Wired /\ Placed /\ Waiting /\ PublishedInOrder /\ Alive
BY DEF IInv

-----------------------------------------------------------------------------
(* The steps *)

\* A connection goes down: its channels are closed and its wires are empty.
LEMMA GoesDown ==
  ASSUME IInv, NEW c \in Connections, Down(c), stuck' \in BOOLEAN,
         UNCHANGED <<channelMax, channelCounter, channels, closeCalled, tuned, srv>>
  PROVE  /\ Wired' /\ Placed' /\ Alive'
         /\ \A o \in Objects : /\ state[o] # "new" => state'[o] # "new"
                               /\ state'[o] = "open" => state[o] = "open"
<1>1. /\ link' = [link EXCEPT ![c] = "down"]
      /\ toServer' = [toServer EXCEPT ![c] = <<>>]
      /\ toClient' = [toClient EXCEPT ![c] = <<>>]
  BY DEF Down
<1>2. Wired'
  <2>1. <<>> \in Seq(Message)
    OBVIOUS
  <2>2. link' \in [Connections -> {"new", "up", "down"}]
    BY <1>1, Parts DEF Wired
  <2>3. toServer' \in [Connections -> Seq(Message)] /\ toClient' \in [Connections -> Seq(Message)]
    BY <1>1, <2>1, Parts DEF Wired
  <2>4. \A d \in Connections : link'[d] # "up" => toServer'[d] = <<>> /\ toClient'[d] = <<>>
    BY <1>1, Parts DEF Wired
  <2> QED
    BY <2>2, <2>3, <2>4, Parts DEF Wired
<1>3. \A o \in Objects : state'[o] \in {"closed", state[o]} /\ (state'[o] = "closed" \/ state'[o] = state[o])
  BY DEF Down
<1>4. state' \in [Objects -> {"new", "undefined", "open", "closing", "closed"}]
  BY Parts DEF Down, Placed
<1>5. Placed'
  BY <1>3, <1>4, Parts, PlacedBy
<1>6. Alive'
  <2>1. link'[c] # "up"
    BY <1>1, Parts DEF Wired
  <2>2. \A d \in Connections \ {c} :
          /\ link'[d] = link[d] /\ channels'[d] = channels[d] /\ srv'[d] = srv[d]
          /\ toServer'[d] = toServer[d] /\ toClient'[d] = toClient[d]
    BY <1>1, Parts DEF Wired
  <2> QED
    BY <2>1, <2>2, Parts, AliveBy
<1> QED
  BY <1>2, <1>3, <1>5, <1>6

\* Everything else stays as it is.
LEMMA DownKeeps ==
  ASSUME IInv, NEW c \in Connections, Down(c), stuck' \in BOOLEAN,
         UNCHANGED <<channelMax, channelCounter, channels, defaultExchange, deferred, written,
                     closeCalled, tuned, srv>>
  PROVE  IInv'
<1>1. /\ Wired' /\ Placed' /\ Alive'
      /\ \A o \in Objects : /\ state[o] # "new" => state'[o] # "new"
                            /\ state'[o] = "open" => state[o] = "open"
  BY GoesDown
<1>2. Waiting' /\ PublishedInOrder'
  BY <1>1, Parts, WaitingBy
<1> QED
  BY <1>1, <1>2 DEF IInv

\* What connection c has becomes v.
Put(f, c, v) == [f EXCEPT ![c] = v]

\* Two wires carry the same of every number but n.
SameBut(n, w, v) == \A k \in Numbers : k # n => Kinds(k, w) = Kinds(k, v)

\* Only wires and the server's states change, on one connection that is up.
LEMMA ServedKeeps ==
  ASSUME IInv, NEW c \in Connections, link[c] = "up", NEW n \in Numbers,
         NEW to \in {"closed", "open", "closing"}, Turns(c, n, to),
         NEW out \in Seq(Message), NEW in \in Seq(Message),
         toServer' = Put(toServer, c, out), toClient' = Put(toClient, c, in),
         SameBut(n, out, toServer[c]), SameBut(n, in, toClient[c]),
         Lives(closeCalled, channels[c][n], to, Kinds(n, out), Kinds(n, in))
  PROVE  IInv'
<1>1. /\ srv' = [srv EXCEPT ![c][n] = to]
      /\ UNCHANGED <<channelMax, stuck, link, channelCounter, channels, defaultExchange,
                     deferred, written, state, closeCalled, tuned, losses>>
  BY DEF Turns
<1>0. toServer' = [toServer EXCEPT ![c] = out] /\ toClient' = [toClient EXCEPT ![c] = in]
  BY DEF Put
<1>2. Wired'
  <2>1. srv' \in [Connections -> [Numbers -> {"closed", "open", "closing"}]]
    BY <1>0, <1>1, Parts DEF Wired
  <2>2. toServer' \in [Connections -> Seq(Message)] /\ toClient' \in [Connections -> Seq(Message)]
    BY <1>0, Parts DEF Wired
  <2>3. \A d \in Connections : link'[d] # "up" => toServer'[d] = <<>> /\ toClient'[d] = <<>>
    BY <1>0, <1>1, Parts DEF Wired
  <2> QED
    BY <1>1, <2>1, <2>2, <2>3, Parts DEF Wired
<1>3. Placed'
  BY <1>1, Parts DEF Placed
<1>4. Waiting' /\ PublishedInOrder'
  BY <1>1, Parts, WaitingBy
<1>5. toServer'[c] = out /\ toClient'[c] = in
  BY <1>0, Parts DEF Wired
<1>6. ASSUME NEW k \in Numbers
      PROVE  Lives(closeCalled', channels'[c][k], srv'[c][k], Kinds(k, out), Kinds(k, in))
  <2>1. CASE k = n
    <3>1. srv'[c][n] = to
      BY <1>0, <1>1, Parts DEF Wired
    <3> QED
      BY <1>1, <2>1, <3>1
  <2>2. CASE k # n
    <3>1. srv'[c][k] = srv[c][k]
      BY <1>1, <2>2, Parts DEF Wired
    <3>2. Lives(closeCalled, channels[c][k], srv[c][k], Kinds(k, toServer[c]), Kinds(k, toClient[c]))
      BY Parts DEF Alive
    <3> QED
      BY <1>1, <2>2, <3>1, <3>2 DEF SameBut
  <2> QED
    BY <2>1, <2>2
<1>7. \A d \in Connections \ {c} :
        /\ link'[d] = link[d] /\ channels'[d] = channels[d] /\ srv'[d] = srv[d]
        /\ toServer'[d] = toServer[d] /\ toClient'[d] = toClient[d]
  BY <1>0, <1>1, Parts DEF Wired
<1>8. Alive'
  BY <1>1, <1>5, <1>6, <1>7, Parts, AliveBy
<1> QED
  BY <1>2, <1>3, <1>4, <1>8 DEF IInv

\* The server reads a method and says reply, or nothing.
LEMMA ReadKeeps ==
  ASSUME IInv, NEW c \in Connections, toServer[c] # <<>>,
         NEW n, n = Head(toServer[c]).n, NEW to \in {"closed", "open", "closing"},
         Turns(c, n, to), Served(c),
         NEW reply \in {"", "openOk", "closeOk"},
         IF reply = "" THEN UNCHANGED toClient ELSE Replies(c, reply, n),
         Lives(closeCalled, channels[c][n], to, Tail(Kinds(n, toServer[c])),
               IF reply = "" THEN Kinds(n, toClient[c]) ELSE Append(Kinds(n, toClient[c]), reply))
  PROVE  IInv'
<1> DEFINE w == toServer[c]
           v == toClient[c]
           x == Head(w)
           out == Tail(w)
           r == [m |-> reply, n |-> n]
           in == IF reply = "" THEN v ELSE Append(v, r)
<1>1. w \in Seq(Message) /\ w # <<>> /\ v \in Seq(Message) /\ link[c] = "up"
  BY Parts, WiresOf
<1>2. out \in Seq(Message) /\ x.n = n /\ n \in Numbers
  <2> HIDE DEF w
  <2>1. Head(w).n \in Numbers /\ Tail(w) \in Seq(Message)
    BY <1>1, HeadOf
  <2> QED
    BY <2>1 DEF w
<1>3. toServer' = Put(toServer, c, out) /\ toClient' = Put(toClient, c, in)
  <2>1. toClient' = Put(toClient, c, in)
    BY Parts DEF Replies, Wired, Put
  <2> QED
    BY <2>1 DEF Served, Put
<1>4. reply # "" => r \in Message /\ r.n = n /\ r.m = reply
  BY <1>2, MessageType
<1>5. in \in Seq(Message)
  <2>1. CASE reply = ""
    BY <1>1, <2>1
  <2>2. CASE reply # ""
    <3>0. v \in Seq(Message) /\ r \in Message
      BY <1>1, <1>4, <2>2
    <3> HIDE DEF r, v, w, x, out, in
    <3>1. Append(v, r) \in Seq(Message)
      BY <3>0, AppendProperties
    <3> QED
      BY <2>2, <3>1 DEF in
  <2> QED
    BY <2>1, <2>2
<1>6. \A k \in Numbers : Kinds(k, out) = IF k = n THEN Tail(Kinds(k, w)) ELSE Kinds(k, w)
  <2> HIDE DEF w
  <2>1. \A k \in Numbers : /\ Head(w).n = k => Kinds(k, Tail(w)) = Tail(Kinds(k, w))
                           /\ Head(w).n # k => Kinds(k, Tail(w)) = Kinds(k, w)
    BY <1>1, KindsTail
  <2> QED
    BY <1>2, <2>1
<1>7. \A k \in Numbers : Kinds(k, in) = IF k = n /\ reply # "" THEN Append(Kinds(k, v), reply) ELSE Kinds(k, v)
  <2>1. CASE reply = ""
    BY <2>1
  <2>2. CASE reply # ""
    <3> HIDE DEF r, v
    <3>1. \A k \in Numbers : Kinds(k, Append(v, r)) = IF r.n = k THEN Append(Kinds(k, v), r.m) ELSE Kinds(k, v)
      BY <1>1, <1>4, <2>2, KindsAppend
    <3> QED
      BY <1>4, <2>2, <3>1
  <2> QED
    BY <2>1, <2>2
<1> HIDE DEF out, in
<1>8. Lives(closeCalled, channels[c][n], to, Kinds(n, out), Kinds(n, in))
  <2>1. Kinds(n, out) = Tail(Kinds(n, toServer[c]))
    BY <1>2, <1>6
  <2>2. Kinds(n, in) = IF reply = "" THEN Kinds(n, toClient[c]) ELSE Append(Kinds(n, toClient[c]), reply)
    BY <1>2, <1>7
  <2> QED
    BY <2>1, <2>2
<1>9. SameBut(n, out, toServer[c]) /\ SameBut(n, in, toClient[c])
  BY <1>6, <1>7 DEF SameBut
<1> HIDE DEF w, v, x, r
<1> QED
  BY <1>1, <1>2, <1>3, <1>5, <1>8, <1>9, ServedKeeps

\* The first method on the wire to the server, and the life of its number.
LEMMA AtServer ==
  ASSUME IInv, NEW c \in Connections, toServer[c] # <<>>, NEW n, n = Head(toServer[c]).n
  PROVE  /\ n \in Numbers /\ srv[c][n] \in {"closed", "open", "closing"}
         /\ Lives(closeCalled, channels[c][n], srv[c][n],
                  Kinds(n, toServer[c]), Kinds(n, toClient[c]))
         /\ Kinds(n, toServer[c]) # Nil
         /\ Head(Kinds(n, toServer[c])) = Head(toServer[c]).m
<1> DEFINE w == toServer[c]
<1>1. w \in Seq(Message) /\ w # <<>> /\ link[c] = "up"
  BY Parts, WiresOf
<1> HIDE DEF w
<1>2. Head(w).n \in Numbers
  BY <1>1, HeadOf
<1>3. n = Head(w).n
  BY DEF w
<1>4. Kinds(n, w) # Nil /\ Head(Kinds(n, w)) = Head(w).m
  BY <1>1, <1>2, <1>3, KindsTail
<1>5. n \in Numbers
  BY <1>2, <1>3
<1> QED
  BY <1>1, <1>4, <1>5, Parts, WiresOf DEF Alive, w

\* What the server reads fits the state of the channel.
LEMMA SrvServesKeeps ==
  ASSUME IInv, NEW c \in Connections, SrvServes(c)
  PROVE  IInv'
<1>1. toServer[c] # <<>>
  BY DEF SrvServes, Reads
<1>2. PICK n : n = Head(toServer[c]).n
  OBVIOUS
<1> DEFINE o == channels[c][n]
           s == srv[c][n]
           out == Kinds(n, toServer[c])
           in == Kinds(n, toClient[c])
           m == Head(toServer[c]).m
<1>3. Lives(closeCalled, o, s, out, in) /\ out # Nil /\ Head(out) = m
  BY <1>1, <1>2, AtServer
<1>4. CASE m = "open" /\ s = "closed" /\ Served(c) /\ Turns(c, n, "open") /\ Replies(c, "openOk", n)
  <2> HIDE DEF o, s, out, in, m
  <2>1. Lives(closeCalled, o, "open", Tail(out), Append(in, "openOk"))
    BY <1>3, <1>4, LifeOpens
  <2> QED
    BY <1>1, <1>2, <1>4, <2>1, ReadKeeps DEF o, out, in
<1>5. CASE m = "close" /\ s = "open" /\ Served(c) /\ Turns(c, n, "closed") /\ Replies(c, "closeOk", n)
  <2> HIDE DEF o, s, out, in, m
  <2>1. Lives(closeCalled, o, "closed", Tail(out), Append(in, "closeOk"))
    BY <1>3, <1>5, LifeCloses
  <2> QED
    BY <1>1, <1>2, <1>5, <2>1, ReadKeeps DEF o, out, in
<1>6. CASE m = "close" /\ s = "closing" /\ Served(c) /\ Turns(c, n, "closing") /\ Replies(c, "closeOk", n)
  <2> HIDE DEF o, s, out, in, m
  <2>1. Lives(closeCalled, o, "closing", Tail(out), Append(in, "closeOk"))
    BY <1>3, <1>6, LifeCrosses
  <2> QED
    BY <1>1, <1>2, <1>6, <2>1, ReadKeeps DEF o, out, in
<1>7. CASE m = "closeOk" /\ s = "closing" /\ Served(c) /\ Turns(c, n, "closed") /\ UNCHANGED toClient
  <2> HIDE DEF o, s, out, in, m
  <2>1. Lives(closeCalled, o, "closed", Tail(out), in)
    BY <1>3, <1>7, LifeSettles
  <2> QED
    BY <1>1, <1>2, <1>7, <2>1, ReadKeeps DEF o, out, in
<1> QED
  BY <1>2, <1>4, <1>5, <1>6, <1>7 DEF SrvServes, Reads

\* The server closes a channel of its own accord.
LEMMA SrvClosesKeeps ==
  ASSUME IInv, NEW c \in Connections, SrvCloses(c)
  PROVE  IInv'
<1>1. PICK n \in Numbers : /\ link[c] = "up" /\ srv[c][n] = "open"
                           /\ Turns(c, n, "closing") /\ Replies(c, "close", n) /\ UNCHANGED toServer
  BY DEF SrvCloses
<1> DEFINE v == toClient[c]
           r == [m |-> "close", n |-> n]
           in == Append(v, r)
           out == toServer[c]
<1>2. v \in Seq(Message) /\ out \in Seq(Message) /\ r \in Message /\ r.n = n /\ r.m = "close"
  BY Parts, WiresOf, MessageType
<1>3. toServer' = Put(toServer, c, out) /\ toClient' = Put(toClient, c, in)
  BY <1>1, Parts DEF Replies, Wired, Put
<1> HIDE DEF v, r
<1>4. in \in Seq(Message)
  BY <1>2
<1>5. \A k \in Numbers : Kinds(k, in) = IF k = n THEN Append(Kinds(k, v), "close") ELSE Kinds(k, v)
  BY <1>2, KindsAppend
<1>6. Lives(closeCalled, channels[c][n], "open", Kinds(n, out), Kinds(n, v))
  BY <1>1, Parts DEF Alive, v
<1>7. Lives(closeCalled, channels[c][n], "closing", Kinds(n, out), Append(Kinds(n, v), "close"))
  <2> DEFINE o == channels[c][n]
             a == Kinds(n, out)
             b == Kinds(n, v)
  <2>1. Lives(closeCalled, o, "open", a, b)
    BY <1>6
  <2> HIDE DEF o, a, b
  <2>2. Lives(closeCalled, o, "closing", a, Append(b, "close"))
    BY <2>1, LifeEnds
  <2> QED
    BY <2>2 DEF o, a, b
<1> HIDE DEF in, out
<1>8. /\ SameBut(n, out, toServer[c]) /\ SameBut(n, in, toClient[c])
      /\ Lives(closeCalled, channels[c][n], "closing", Kinds(n, out), Kinds(n, in))
  BY <1>5, <1>7 DEF out, v, SameBut
<1> QED
  BY <1>1, <1>2, <1>3, <1>4, <1>8, ServedKeeps

\* It closes the connection.
LEMMA SrvRefusesKeeps ==
  ASSUME IInv, NEW c \in Connections, SrvRefuses(c)
  PROVE  IInv'
BY Parts, DownKeeps DEF SrvRefuses, Wired

\* The connection is lost.
LEMMA LoseKeeps ==
  ASSUME IInv, NEW c \in Connections, Lose(c)
  PROVE  IInv'
BY Parts, DownKeeps DEF Lose, Wired

-----------------------------------------------------------------------------
(* The steps of the client on one connection *)

\* What travels stays typed.
LEMMA WiredStep ==
  ASSUME Wired, NEW c \in Connections, link[c] = "up",
         NEW out \in Seq(Message), NEW in \in Seq(Message),
         toServer' = Put(toServer, c, out), toClient' = Put(toClient, c, in),
         UNCHANGED <<channelMax, stuck, link, tuned, srv>>,
         channelCounter' \in [Connections -> Numbers \cup {0}],
         channels' \in [Connections -> [Numbers -> Objects \cup {None}]]
  PROVE  Wired'
<1>1. toServer' = [toServer EXCEPT ![c] = out] /\ toClient' = [toClient EXCEPT ![c] = in]
  BY DEF Put
<1>2. toServer' \in [Connections -> Seq(Message)] /\ toClient' \in [Connections -> Seq(Message)]
  BY <1>1 DEF Wired
<1>3. \A d \in Connections : link'[d] # "up" => toServer'[d] = <<>> /\ toClient'[d] = <<>>
  BY <1>1 DEF Wired
<1> QED
  BY <1>2, <1>3 DEF Wired

\* Nobody but number n of connection c changes hands.
OnlyAt(c, n) ==
  \A d \in Connections : \A k \in Numbers : d # c \/ k # n => channels'[d][k] = channels[d][k]

\* The lives of the numbers, when a step touches number n of connection c.
LEMMA AliveStep ==
  ASSUME Wired, Placed, Alive, NEW c \in Connections, link[c] = "up", NEW n \in Numbers,
         NEW out, NEW in,
         toServer' = Put(toServer, c, out), toClient' = Put(toClient, c, in),
         SameBut(n, out, toServer[c]), SameBut(n, in, toClient[c]),
         UNCHANGED <<link, srv>>, OnlyAt(c, n),
         closeCalled' = closeCalled \/ (closeCalled' = closeCalled \cup {channels[c][n]} /\ channels[c][n] # None),
         Lives(closeCalled', channels'[c][n], srv[c][n], Kinds(n, out), Kinds(n, in))
  PROVE  Alive'
<1>1. toServer' = [toServer EXCEPT ![c] = out] /\ toClient' = [toClient EXCEPT ![c] = in]
  BY DEF Put
<1> SUFFICES ASSUME NEW d \in Connections, NEW k \in Numbers, link'[d] = "up"
             PROVE  Lives(closeCalled', channels'[d][k],
                          srv'[d][k], Kinds(k, toServer'[d]), Kinds(k, toClient'[d]))
  BY DEF Alive
<1>2. CASE d = c /\ k = n
  <2>1. toServer'[d] = out /\ toClient'[d] = in
    BY <1>1, <1>2 DEF Wired
  <2> QED
    BY <1>2, <2>1
<1>3. CASE d # c \/ k # n
  <2>1. channels'[d][k] = channels[d][k]
    BY <1>3 DEF OnlyAt
  <2>2. Kinds(k, toServer'[d]) = Kinds(k, toServer[d]) /\ Kinds(k, toClient'[d]) = Kinds(k, toClient[d])
    <3>1. CASE d # c
      BY <1>1, <3>1 DEF Wired
    <3>2. CASE d = c
      <4>1. toServer'[d] = out /\ toClient'[d] = in /\ k # n
        BY <1>1, <1>3, <3>2 DEF Wired
      <4> QED
        BY <3>2, <4>1 DEF SameBut
    <3> QED
      BY <3>1, <3>2
  <2>3. channels[d][k] = None \/ (channels[d][k] \in closeCalled' <=> channels[d][k] \in closeCalled)
    BY <1>3 DEF Placed
  <2> DEFINE o == channels[d][k]
             s == srv[d][k]
             a == Kinds(k, toServer[d])
             b == Kinds(k, toClient[d])
  <2>4. Lives(closeCalled, o, s, a, b) /\ (o = None \/ (o \in closeCalled' <=> o \in closeCalled))
    BY <2>3 DEF Alive
  <2> HIDE DEF o, s, a, b
  <2>5. Lives(closeCalled', o, s, a, b)
    BY <2>4 DEF Lives
  <2> QED
    BY <2>1, <2>2, <2>5 DEF o, s, a, b
<1> QED
  BY <1>2, <1>3

\* The first method on the wire to the client, and the life of its number.
LEMMA AtClient ==
  ASSUME IInv, NEW c \in Connections, toClient[c] # <<>>, NEW n, n = Head(toClient[c]).n
  PROVE  /\ n \in Numbers /\ link[c] = "up" /\ Tail(toClient[c]) \in Seq(Message)
         /\ Lives(closeCalled, channels[c][n], srv[c][n],
                  Kinds(n, toServer[c]), Kinds(n, toClient[c]))
         /\ Kinds(n, toClient[c]) # Nil
         /\ Head(Kinds(n, toClient[c])) = Head(toClient[c]).m
         /\ Kinds(n, Tail(toClient[c])) = Tail(Kinds(n, toClient[c]))
         /\ SameBut(n, Tail(toClient[c]), toClient[c])
         /\ channels[c][n] \in Objects \cup {None}
<1> DEFINE w == toClient[c]
<1>1. w \in Seq(Message) /\ w # <<>> /\ link[c] = "up"
  BY Parts, WiresOf
<1> HIDE DEF w
<1>2. Head(w).n \in Numbers /\ Tail(w) \in Seq(Message)
  BY <1>1, HeadOf
<1>3. n = Head(w).n
  BY DEF w
<1>4. /\ Kinds(n, w) # Nil /\ Head(Kinds(n, w)) = Head(w).m
      /\ Kinds(n, Tail(w)) = Tail(Kinds(n, w))
  BY <1>1, <1>2, <1>3, KindsTail
<1>5. SameBut(n, Tail(w), w)
  <2>1. ASSUME NEW k \in Numbers, k # n PROVE Kinds(k, Tail(w)) = Kinds(k, w)
    BY <1>1, <1>2, <1>3, <2>1, KindsTail
  <2> QED
    BY <2>1 DEF SameBut
<1>6. n \in Numbers
  BY <1>2, <1>3
<1>7. channels[c][n] \in Objects \cup {None}
  BY <1>6, Parts, WiresOf
<1> QED
  BY <1>1, <1>2, <1>4, <1>5, <1>6, <1>7, Parts DEF Alive, w

\* A wire on which nothing changes.
LEMMA SameWire ==
  ASSUME Wired, NEW c \in Connections, NEW n
  PROVE  /\ toServer = Put(toServer, c, toServer[c]) /\ SameBut(n, toServer[c], toServer[c])
         /\ toClient = Put(toClient, c, toClient[c]) /\ SameBut(n, toClient[c], toClient[c])
         /\ toServer[c] \in Seq(Message) /\ toClient[c] \in Seq(Message)
BY DEF Wired, Put, SameBut

\* A method is written to the server.
LEMMA SendKeeps ==
  ASSUME Wired, NEW c \in Connections, link[c] = "up", NEW n \in Numbers,
         NEW m \in {"open", "openOk", "close", "closeOk"}, Writes(c, <<[m |-> m, n |-> n]>>)
  PROVE  \E out \in Seq(Message) :
           /\ toServer' = Put(toServer, c, out)
           /\ SameBut(n, out, toServer[c])
           /\ Kinds(n, out) = Append(Kinds(n, toServer[c]), m)
<1> DEFINE w == toServer[c]
           r == [m |-> m, n |-> n]
           out == Append(w, r)
<1>1. w \in Seq(Message) /\ r \in Message /\ r.n = n /\ r.m = m
  BY WiresOf, MessageType
<1>2. toServer' = [toServer EXCEPT ![c] = w \o <<r>>]
  BY DEF Writes
<1> HIDE DEF w, r
<1>3. out = w \o <<r>> /\ out \in Seq(Message)
  BY <1>1, AppendIsConcat, AppendProperties
<1>4. Kinds(n, out) = Append(Kinds(n, w), m)
  BY <1>1, KindsAppend
<1>5. SameBut(n, out, w)
  <2>1. ASSUME NEW k \in Numbers, k # n PROVE Kinds(k, out) = Kinds(k, w)
    BY <1>1, <2>1, KindsAppend
  <2> HIDE DEF out
  <2> QED
    BY <2>1 DEF SameBut
<1>6. toServer' = Put(toServer, c, out)
  BY <1>2, <1>3 DEF Put
<1> HIDE DEF out
<1> QED
  BY <1>3, <1>4, <1>5, <1>6 DEF w

\* A method is taken off the wire to the client.
LEMMA TakenFrom ==
  ASSUME Wired, NEW c \in Connections, Consumed(c)
  PROVE  toClient' = Put(toClient, c, Tail(toClient[c]))
BY DEF Consumed, Put, Wired

\* close() of an exchange or queue that was not closed yet.
LEMMA CloseKeeps ==
  ASSUME IInv, NEW c \in Connections, NEW n \in Numbers, Close(c, n)
  PROVE  IInv'
<1> DEFINE o == channels[c][n]
<1>1. /\ o \notin closeCalled \cup {None}
      /\ state' = [state EXCEPT ![o] = "closing"]
      /\ closeCalled' = closeCalled \cup {o}
      /\ Writes(c, <<[m |-> "close", n |-> n]>>)
      /\ UNCHANGED <<channelMax, stuck, link, channelCounter, channels, defaultExchange,
                     deferred, written, tuned, srv, toClient, losses>>
  BY DEF Close
<1>2. o \in Objects /\ Owner[o] = c /\ state[o] # "new"
  BY <1>1, Parts, WiresOf DEF Placed
<1>3. Placed'
  <2>1. state' \in [Objects -> {"new", "undefined", "open", "closing", "closed"}]
    BY <1>1, Parts DEF Placed
  <2>2. \A p \in Objects : /\ state[p] # "new" => state'[p] # "new"
                           /\ p # o => state'[p] = state[p]
    BY <1>1, Parts DEF Placed
  <2>3. \A d \in Connections : \A k \in Numbers :
          channels[d][k] # None => state'[channels[d][k]] # "new"
    <3>1. \A d \in Connections : \A k \in Numbers : channels[d][k] \in Objects \cup {None}
      BY Parts, WiresOf
    <3> QED
      BY <2>2, <3>1, Parts DEF Placed
  <2>4. closeCalled' \subseteq {p \in Objects : state'[p] # "new"}
    BY <1>1, <1>2, <2>2, Parts DEF Placed
  <2>5. \A p \in Objects : state'[p] \notin {"new", "closed"} =>
           \E k \in Numbers : channels'[Owner[p]][k] = p
    <3>1. channels'[Owner[o]][n] = o
      BY <1>1, <1>2
    <3> HIDE DEF o
    <3> QED
      BY <1>1, <2>2, <3>1, Parts DEF Placed
  <2> QED
    BY <1>1, <2>1, <2>3, <2>4, <2>5, Parts DEF Placed
<1>4. Waiting' /\ PublishedInOrder'
  <2>1. \A p \in Objects : /\ state[p] # "new" => state'[p] # "new"
                           /\ state'[p] = "open" => state[p] = "open"
    BY <1>1, Parts DEF Placed
  <2> QED
    BY <1>1, <2>1, Parts, WaitingBy
<1>5. CASE link[c] = "up"
  <2>1. PICK out \in Seq(Message) :
          /\ toServer' = Put(toServer, c, out) /\ SameBut(n, out, toServer[c])
          /\ Kinds(n, out) = Append(Kinds(n, toServer[c]), "close")
    BY <1>1, <1>5, Parts, SendKeeps
  <2>2. /\ toClient' = Put(toClient, c, toClient[c]) /\ SameBut(n, toClient[c], toClient[c])
        /\ toClient[c] \in Seq(Message)
    BY <1>1, Parts, SameWire
  <2>3. Wired'
    <3>1. /\ channelCounter' \in [Connections -> Numbers \cup {0}]
          /\ channels' \in [Connections -> [Numbers -> Objects \cup {None}]]
      BY <1>1, Parts DEF Wired
    <3> QED
      BY <1>1, <1>5, <2>1, <2>2, <3>1, Parts, WiredStep
  <2>4. OnlyAt(c, n)
    BY <1>1 DEF OnlyAt
  <2>5. Lives(closeCalled', channels'[c][n], srv[c][n], Kinds(n, out), Kinds(n, toClient[c]))
    <3> DEFINE s == srv[c][n]
               a == Kinds(n, toServer[c])
               b == Kinds(n, toClient[c])
    <3>1. Lives(closeCalled, o, s, a, b) /\ Kinds(n, out) = Append(a, "close")
      BY <1>5, <2>1, Parts DEF Alive
    <3>2. channels'[c][n] = o /\ o \in closeCalled' /\ o # None /\ o \notin closeCalled
      BY <1>1
    <3> HIDE DEF o, s, a, b
    <3>3. Used(s, a, b)
      BY <3>1, <3>2 DEF Lives
    <3>4. Busy(s, Append(a, "close"), b)
      BY <3>3, LifeAsked
    <3>5. Lives(closeCalled', o, s, Append(a, "close"), b)
      BY <3>2, <3>4 DEF Lives
    <3> QED
      BY <3>1, <3>2, <3>5 DEF s, b
  <2>6. Alive'
    BY <1>1, <1>5, <2>1, <2>2, <2>4, <2>5, Parts, AliveStep
  <2> QED
    BY <1>3, <1>4, <2>3, <2>6 DEF IInv
<1>6. CASE link[c] # "up"
  <2>1. toServer' = toServer
    BY <1>1, <1>6 DEF Writes
  <2>2. Wired'
    BY <1>1, <2>1, Parts DEF Wired
  <2>3. Alive'
    <3>1. \A p \in closeCalled' \ closeCalled : Owner[p] = c
      BY <1>1, <1>2
    <3> QED
      BY <1>1, <1>6, <2>1, <3>1, Parts, AliveBy
  <2> QED
    BY <1>3, <1>4, <2>2, <2>3 DEF IInv
<1> QED
  BY <1>5, <1>6

\* The server has closed the channel: its number stays taken.
LEMMA OnChannelCloseKeeps ==
  ASSUME IInv, NEW c \in Connections, OnChannelClose(c)
  PROVE  IInv'
<1>1. PICK n : n = Head(toClient[c]).n
  OBVIOUS
<1> DEFINE o == channels[c][n]
<1>2. /\ toClient[c] # <<>> /\ Head(toClient[c]).m = "close" /\ Consumed(c)
      /\ IF o = None THEN UNCHANGED <<state, toServer>>
         ELSE /\ state' = [state EXCEPT ![o] = "closed"]
              /\ Writes(c, <<[m |-> "closeOk", n |-> n]>>)
      /\ UNCHANGED <<channelMax, stuck, link, channelCounter, channels, defaultExchange,
                     deferred, written, closeCalled, tuned, srv, losses>>
  BY <1>1 DEF OnChannelClose, Arrives
<1> DEFINE s == srv[c][n]
           a == Kinds(n, toServer[c])
           b == Kinds(n, toClient[c])
           in == Tail(toClient[c])
<1>3. /\ n \in Numbers /\ link[c] = "up" /\ in \in Seq(Message) /\ SameBut(n, in, toClient[c])
      /\ Lives(closeCalled, o, s, a, b) /\ b # Nil /\ Head(b) = "close"
      /\ Kinds(n, in) = Tail(b) /\ o \in Objects \cup {None}
  BY <1>1, <1>2, AtClient
<1>4. o # None /\ Lives(closeCalled, o, s, Append(a, "closeOk"), Tail(b))
  <2> HIDE DEF o, s, a, b
  <2> QED
    BY <1>3, LifeAnswers
<1>5. state' = [state EXCEPT ![o] = "closed"] /\ Writes(c, <<[m |-> "closeOk", n |-> n]>>)
  BY <1>2, <1>4
<1>6. PICK out \in Seq(Message) :
        /\ toServer' = Put(toServer, c, out) /\ SameBut(n, out, toServer[c])
        /\ Kinds(n, out) = Append(a, "closeOk")
  BY <1>3, <1>5, Parts, SendKeeps
<1>7. toClient' = Put(toClient, c, in)
  BY <1>2, Parts, TakenFrom
<1>8. Wired'
  <2>1. /\ channelCounter' \in [Connections -> Numbers \cup {0}]
        /\ channels' \in [Connections -> [Numbers -> Objects \cup {None}]]
    BY <1>2, Parts DEF Wired
  <2> HIDE DEF in
  <2> QED
    BY <1>2, <1>3, <1>6, <1>7, <2>1, Parts, WiredStep
<1>9. state[o] # "new"
  BY <1>3, <1>4, Parts DEF Placed
<1>10. \A p \in Objects : /\ state[p] # "new" => state'[p] # "new"
                          /\ state'[p] \in {"closed", state[p]}
                          /\ state'[p] = "open" => state[p] = "open"
  BY <1>5, <1>9, Parts DEF Placed
<1>11. Placed'
  <2>1. state' \in [Objects -> {"new", "undefined", "open", "closing", "closed"}]
    BY <1>5, Parts DEF Placed
  <2> QED
    BY <1>2, <1>10, <2>1, Parts, PlacedBy
<1>12. Waiting' /\ PublishedInOrder'
  BY <1>2, <1>10, Parts, WaitingBy
<1>13. Alive'
  <2>1. OnlyAt(c, n)
    BY <1>2 DEF OnlyAt
  <2>2. Lives(closeCalled', channels'[c][n], s, Kinds(n, out), Kinds(n, in))
    BY <1>2, <1>3, <1>4, <1>6
  <2> HIDE DEF in
  <2> QED
    BY <1>2, <1>3, <1>6, <1>7, <2>1, <2>2, Parts, AliveStep
<1> QED
  BY <1>8, <1>11, <1>12, <1>13 DEF IInv

\* The number is free again.
LEMMA OnChannelCloseOkKeeps ==
  ASSUME IInv, NEW c \in Connections, OnChannelCloseOk(c)
  PROVE  IInv'
<1>1. PICK n : n = Head(toClient[c]).n
  OBVIOUS
<1> DEFINE o == channels[c][n]
<1>2. /\ toClient[c] # <<>> /\ Head(toClient[c]).m = "closeOk" /\ Consumed(c)
      /\ channels' = [channels EXCEPT ![c][n] = None]
      /\ state' = IF o = None THEN state ELSE [state EXCEPT ![o] = "closed"]
      /\ UNCHANGED <<channelMax, stuck, link, channelCounter, defaultExchange, deferred,
                     written, closeCalled, tuned, srv, toServer, losses>>
  BY <1>1 DEF OnChannelCloseOk, Arrives, Receiver
<1> DEFINE s == srv[c][n]
           a == Kinds(n, toServer[c])
           b == Kinds(n, toClient[c])
           in == Tail(toClient[c])
<1>3. /\ n \in Numbers /\ link[c] = "up" /\ in \in Seq(Message) /\ SameBut(n, in, toClient[c])
      /\ Lives(closeCalled, o, s, a, b) /\ b # Nil /\ Head(b) = "closeOk"
      /\ Kinds(n, in) = Tail(b) /\ o \in Objects \cup {None}
  BY <1>1, <1>2, AtClient
<1>4. o \in closeCalled /\ Idle(s, a, Tail(b))
  <2> HIDE DEF o, s, a, b
  <2> QED
    BY <1>3, LifeFreed
<1>5. o \in Objects /\ o # None /\ state[o] # "new"
  BY <1>4, Parts, RegistryAssumption DEF Placed
<1>6. channels' \in [Connections -> [Numbers -> Objects \cup {None}]] /\ channels'[c][n] = None
      /\ OnlyAt(c, n)
  BY <1>2, <1>3, Parts DEF Wired, OnlyAt
<1>7. /\ toServer' = Put(toServer, c, toServer[c]) /\ SameBut(n, toServer[c], toServer[c])
      /\ toServer[c] \in Seq(Message) /\ toClient' = Put(toClient, c, in)
  BY <1>2, Parts, SameWire, TakenFrom
<1>8. Wired'
  <2>1. channelCounter' \in [Connections -> Numbers \cup {0}]
    BY <1>2, Parts DEF Wired
  <2> HIDE DEF in
  <2> QED
    BY <1>2, <1>3, <1>6, <1>7, <2>1, Parts, WiredStep
<1>9. state' = [state EXCEPT ![o] = "closed"]
  BY <1>2, <1>5
<1>10. \A p \in Objects : /\ state[p] # "new" => state'[p] # "new"
                          /\ state'[p] = "open" => state[p] = "open"
                          /\ p # o => state'[p] = state[p]
  BY <1>5, <1>9, Parts DEF Placed
<1>11. Placed'
  <2>1. state' \in [Objects -> {"new", "undefined", "open", "closing", "closed"}] /\ state'[o] = "closed"
    BY <1>5, <1>9, Parts DEF Placed
  <2>2. \A d \in Connections : \A k \in Numbers :
          channels'[d][k] # None => channels'[d][k] = channels[d][k] /\ (d # c \/ k # n)
    BY <1>6 DEF OnlyAt
  <2>3. \A d \in Connections : \A k \in Numbers : channels[d][k] \in Objects \cup {None}
    BY Parts, WiresOf
  <2>4. \A d, e \in Connections : \A j, k \in Numbers :
          channels'[d][j] # None /\ channels'[d][j] = channels'[e][k] => d = e /\ j = k
    BY <2>2, Parts DEF Placed
  <2>5. \A d \in Connections : \A k \in Numbers :
          channels'[d][k] # None => Owner[channels'[d][k]] = d /\ state'[channels'[d][k]] # "new"
    BY <1>10, <2>2, <2>3, Parts DEF Placed
  <2>6. closeCalled' \subseteq {p \in Objects : state'[p] # "new"}
    BY <1>2, <1>10, Parts DEF Placed
  <2>7. ASSUME NEW p \in Objects, state'[p] \notin {"new", "closed"}
        PROVE  \E k \in Numbers : channels'[Owner[p]][k] = p
    <3>1. p # o /\ state[p] \notin {"new", "closed"}
      BY <1>10, <2>1, <2>7
    <3>2. PICK k \in Numbers : channels[Owner[p]][k] = p
      BY <3>1, Parts DEF Placed
    <3>3. Owner[p] \in Connections
      BY RegistryAssumption
    <3>4. Owner[p] # c \/ k # n
      BY <3>1, <3>2
    <3> QED
      BY <1>6, <3>2, <3>3, <3>4 DEF OnlyAt
  <2> QED
    BY <2>1, <2>4, <2>5, <2>6, <2>7 DEF Placed
<1>12. Waiting' /\ PublishedInOrder'
  BY <1>2, <1>10, Parts, WaitingBy
<1>13. Alive'
  <2>1. Lives(closeCalled', channels'[c][n], s, Kinds(n, toServer[c]), Kinds(n, in))
    BY <1>3, <1>4, <1>6 DEF Lives
  <2> HIDE DEF in
  <2> QED
    BY <1>2, <1>3, <1>6, <1>7, <2>1, Parts, AliveStep
<1> QED
  BY <1>8, <1>11, <1>12, <1>13 DEF IInv

\* The exchange or queue opens; the default exchange runs what it kept.
LEMMA OnOpenOkKeeps ==
  ASSUME IInv, NEW c \in Connections, OnOpenOk(c)
  PROVE  IInv'
<1>1. PICK n : n = Head(toClient[c]).n
  OBVIOUS
<1> DEFINE o == channels[c][n]
<1>2. /\ toClient[c] # <<>> /\ Head(toClient[c]).m = "openOk" /\ Consumed(c)
      /\ state' = IF o = None THEN state ELSE [state EXCEPT ![o] = "open"]
      /\ IF o # None /\ o = defaultExchange[c]
         THEN /\ written' = [written EXCEPT ![c] = written[c] \o deferred[c]]
              /\ deferred' = [deferred EXCEPT ![c] = <<>>]
         ELSE UNCHANGED <<deferred, written>>
      /\ UNCHANGED <<channelMax, stuck, link, channelCounter, channels, defaultExchange,
                     closeCalled, tuned, srv, toServer, losses>>
  BY <1>1 DEF OnOpenOk, Arrives, Receiver
<1> DEFINE s == srv[c][n]
           a == Kinds(n, toServer[c])
           b == Kinds(n, toClient[c])
           in == Tail(toClient[c])
<1>3. /\ n \in Numbers /\ link[c] = "up" /\ in \in Seq(Message) /\ SameBut(n, in, toClient[c])
      /\ Lives(closeCalled, o, s, a, b) /\ b # Nil /\ Head(b) = "openOk"
      /\ Kinds(n, in) = Tail(b) /\ o \in Objects \cup {None}
  BY <1>1, <1>2, AtClient
<1>4. Lives(closeCalled, o, s, a, Tail(b))
  <2> HIDE DEF o, s, a, b
  <2> QED
    BY <1>3, LifeOpened
<1>5. o # None => Owner[o] = c /\ state[o] # "new"
  BY <1>3, Parts DEF Placed
<1>6. /\ toServer' = Put(toServer, c, toServer[c]) /\ SameBut(n, toServer[c], toServer[c])
      /\ toServer[c] \in Seq(Message) /\ toClient' = Put(toClient, c, in)
  BY <1>2, Parts, SameWire, TakenFrom
<1>7. Wired'
  <2>1. /\ channelCounter' \in [Connections -> Numbers \cup {0}]
        /\ channels' \in [Connections -> [Numbers -> Objects \cup {None}]]
    BY <1>2, Parts DEF Wired
  <2> HIDE DEF in
  <2> QED
    BY <1>2, <1>3, <1>6, <2>1, Parts, WiredStep
<1>8. \A p \in Objects : /\ state[p] # "new" => state'[p] # "new"
                         /\ p # o => state'[p] = state[p]
                         /\ p = o => Owner[p] = c /\ state'[p] = "open" /\ state[p] # "new"
  BY <1>2, <1>5, Parts, RegistryAssumption DEF Placed
<1>9. Placed'
  <2>1. state' \in [Objects -> {"new", "undefined", "open", "closing", "closed"}]
    BY <1>2, Parts DEF Placed
  <2>2. \A p \in Objects : state'[p] \in {"new", "closed", state[p]}
                           \/ \E k \in Numbers : channels[Owner[p]][k] = p
    BY <1>3, <1>8
  <2> QED
    BY <1>2, <1>8, <2>1, <2>2, Parts, PlacedBy
<1>10. Waiting' /\ PublishedInOrder'
  <2>1. /\ deferred \in [Connections -> Seq(Nat)] /\ written \in [Connections -> Seq(Nat)]
        /\ defaultExchange \in [Connections -> Objects \cup {None}]
        /\ \A d \in Connections : written[d] \in Seq(Nat) /\ deferred[d] \in Seq(Nat)
    BY Parts DEF Waiting
  <2>2. ASSUME o # None, o = defaultExchange[c]
        PROVE  Waiting' /\ PublishedInOrder'
    <3> DEFINE u == written[c]
               v == deferred[c]
               w == u \o v
    <3>1. u \in Seq(Nat) /\ v \in Seq(Nat)
      BY <2>1
    <3>2. written' = [written EXCEPT ![c] = w] /\ deferred' = [deferred EXCEPT ![c] = <<>>]
      BY <1>2, <2>2
    <3>3. w = [i \in 1 .. Len(u) + Len(v) |-> i]
      BY Parts DEF PublishedInOrder
    <3> HIDE DEF u, v
    <3>4. w \in Seq(Nat) /\ Len(w) = Len(u) + Len(v) /\ w \o <<>> = w /\ <<>> \in Seq(Nat)
      BY <3>1, ConcatProperties
    <3> HIDE DEF w
    <3>5. written' \in [Connections -> Seq(Nat)] /\ deferred' \in [Connections -> Seq(Nat)]
      BY <2>1, <3>2, <3>4
    <3>6. written'[c] = w /\ deferred'[c] = <<>>
      BY <2>1, <3>2
    <3>7. \A d \in Connections : d # c => written'[d] = written[d] /\ deferred'[d] = deferred[d]
      BY <2>1, <3>2
    <3>8. PublishedInOrder'
      <4>1. ASSUME NEW d \in Connections
            PROVE  written'[d] \o deferred'[d] = [i \in 1 .. Len(written'[d]) + Len(deferred'[d]) |-> i]
        <5>1. CASE d = c
          <6>1. Len(<<>>) = 0 /\ Len(w) \in Nat
            BY <3>4
          <6>2. Len(w) + Len(<<>>) = Len(w)
            BY <6>1
          <6> QED
            BY <3>3, <3>4, <3>6, <5>1, <6>2
        <5>2. CASE d # c
          BY <3>7, <5>2, Parts DEF PublishedInOrder
        <5> QED
          BY <5>1, <5>2
      <4> QED
        BY <4>1 DEF PublishedInOrder
    <3>9. Waiting'
      <4>1. ASSUME NEW d \in Connections
            PROVE  /\ defaultExchange'[d] = None => deferred'[d] = <<>> /\ written'[d] = <<>>
                   /\ defaultExchange'[d] # None => /\ Owner[defaultExchange'[d]] = d
                                                    /\ state'[defaultExchange'[d]] # "new"
                   /\ defaultExchange'[d] # None /\ state'[defaultExchange'[d]] = "open"
                        => deferred'[d] = <<>>
        <5>1. CASE d = c
          BY <1>2, <1>3, <1>8, <2>2, <3>6, <5>1
        <5>2. CASE d # c
          <6>1. defaultExchange[d] # o /\ defaultExchange[d] \in Objects \cup {None}
            BY <1>5, <2>1, <2>2, <5>2, Parts DEF Waiting
          <6> QED
            BY <1>2, <1>8, <3>7, <5>2, <6>1, Parts DEF Waiting
        <5> QED
          BY <5>1, <5>2
      <4> QED
        BY <1>2, <2>1, <3>5, <4>1 DEF Waiting
    <3> QED
      BY <3>8, <3>9
  <2>3. ASSUME o = None \/ o # defaultExchange[c]
        PROVE  Waiting' /\ PublishedInOrder'
    <3>1. UNCHANGED <<deferred, written, defaultExchange>>
      BY <1>2, <2>3
    <3>2. ASSUME NEW d \in Connections
          PROVE  /\ defaultExchange'[d] = None => deferred'[d] = <<>> /\ written'[d] = <<>>
                 /\ defaultExchange'[d] # None => /\ Owner[defaultExchange'[d]] = d
                                                  /\ state'[defaultExchange'[d]] # "new"
                 /\ defaultExchange'[d] # None /\ state'[defaultExchange'[d]] = "open"
                      => deferred'[d] = <<>>
      <4>1. CASE defaultExchange[d] = None
        BY <3>1, <4>1, Parts DEF Waiting
      <4>2. CASE defaultExchange[d] # None
        <5>1. defaultExchange[d] \in Objects /\ Owner[defaultExchange[d]] = d
          BY <2>1, <4>2, Parts DEF Waiting
        <5>2. defaultExchange[d] # o
          BY <1>5, <2>3, <4>2, <5>1
        <5> QED
          BY <1>8, <3>1, <4>2, <5>1, <5>2, Parts DEF Waiting
      <4> QED
        BY <4>1, <4>2
    <3>3. PublishedInOrder'
      BY <3>1, Parts DEF PublishedInOrder
    <3> QED
      BY <2>1, <3>1, <3>2, <3>3 DEF Waiting
  <2> QED
    BY <2>2, <2>3
<1>11. Alive'
  <2>1. OnlyAt(c, n)
    BY <1>2 DEF OnlyAt
  <2>2. Lives(closeCalled', channels'[c][n], s, Kinds(n, toServer[c]), Kinds(n, in))
    BY <1>2, <1>3, <1>4
  <2> HIDE DEF in
  <2> QED
    BY <1>2, <1>3, <1>6, <2>1, <2>2, Parts, AliveStep
<1> QED
  BY <1>7, <1>9, <1>10, <1>11 DEF IInv

\* An exchange or queue is created: it takes a free number, or the connection or
\* the process goes down. The publishes are the caller's.
LEMMA CreateKeeps ==
  ASSUME IInv, NEW c \in Connections, NEW o \in Objects, Create(c, o)
  PROVE  /\ Wired' /\ Placed' /\ Alive' /\ state[o] = "new" /\ Owner[o] = c
         /\ NextId(c) \in Numbers => state' = [state EXCEPT ![o] = "undefined"]
         /\ \A p \in Objects : /\ state[p] # "new" => state'[p] # "new"
                               /\ state'[p] = "open" => state[p] = "open"
<1> DEFINE n == NextId(c)
<1>1. /\ link[c] # "new" /\ state[o] = "new" /\ Owner[o] = c
      /\ UNCHANGED <<channelMax, closeCalled, tuned, srv, losses>>
  BY DEF Create
<1>2. ASSUME n \in Numbers, channelCounter' = [channelCounter EXCEPT ![c] = n],
             channels' = [channels EXCEPT ![c][n] = o],
             state' = [state EXCEPT ![o] = "undefined"],
             Writes(c, <<[m |-> "open", n |-> n]>>), UNCHANGED <<stuck, link, toClient>>
      PROVE  /\ Wired' /\ Placed' /\ Alive'
             /\ \A p \in Objects : /\ state[p] # "new" => state'[p] # "new"
                                   /\ state'[p] = "open" => state[p] = "open"
  <2>0. channelMax \in Nat
    BY Parts, RegistryAssumption DEF Wired, Numbers
  <2>1. channels[c][n] = None
    BY <1>2, <2>0, NextIdFree DEF Tracked
  <2> HIDE DEF n
  <2>2. \A p \in Objects : /\ state[p] # "new" => state'[p] # "new"
                           /\ state'[p] = "open" => state[p] = "open"
                           /\ p # o => state'[p] = state[p]
                           /\ state'[o] = "undefined"
    BY <1>1, <1>2, Parts DEF Placed
  <2>3. o # None /\ o \notin closeCalled
    BY <1>1, Parts, RegistryAssumption DEF Placed
  <2>4. \A d \in Connections : \A k \in Numbers :
          channels[d][k] \in Objects \cup {None} /\ channels[d][k] # o
    BY <1>1, <2>3, Parts, WiresOf DEF Placed
  <2>5. /\ channelCounter' \in [Connections -> Numbers \cup {0}]
        /\ channels' \in [Connections -> [Numbers -> Objects \cup {None}]]
        /\ channels'[c][n] = o /\ OnlyAt(c, n)
    BY <1>2, Parts DEF Wired, OnlyAt
  <2>6. \A d \in Connections : \A k \in Numbers :
          \/ channels'[d][k] = o /\ d = c /\ k = n
          \/ channels'[d][k] = channels[d][k] /\ (d # c \/ k # n)
    BY <2>5 DEF OnlyAt
  <2>7. Placed'
    <3>1. state' \in [Objects -> {"new", "undefined", "open", "closing", "closed"}]
      BY <1>2, Parts DEF Placed
    <3>2. ASSUME NEW d \in Connections, NEW e \in Connections, NEW j \in Numbers, NEW k \in Numbers,
                 channels'[d][j] # None, channels'[d][j] = channels'[e][k]
          PROVE  d = e /\ j = k
      <4>1. CASE channels'[d][j] = o
        <5>1. d = c /\ j = n
          BY <2>4, <2>6, <4>1
        <5>2. channels'[e][k] = o
          BY <3>2, <4>1
        <5>3. e = c /\ k = n
          BY <2>4, <2>6, <5>2
        <5> QED
          BY <5>1, <5>3
      <4>2. CASE channels'[d][j] # o
        BY <2>6, <3>2, <4>2, Parts DEF Placed
      <4> QED
        BY <4>1, <4>2
    <3>3. ASSUME NEW d \in Connections, NEW k \in Numbers, channels'[d][k] # None
          PROVE  Owner[channels'[d][k]] = d /\ state'[channels'[d][k]] # "new"
      BY <1>1, <2>2, <2>4, <2>6, <3>3, Parts DEF Placed
    <3>4. closeCalled' \subseteq {p \in Objects : state'[p] # "new"}
      BY <1>1, <2>2, Parts DEF Placed
    <3>5. ASSUME NEW p \in Objects, state'[p] \notin {"new", "closed"}
          PROVE  \E k \in Numbers : channels'[Owner[p]][k] = p
      <4>1. CASE p = o
        BY <1>1, <1>2, <2>5, <4>1
      <4>2. CASE p # o
        <5>1. PICK k \in Numbers : channels[Owner[p]][k] = p
          BY <2>2, <3>5, <4>2, Parts DEF Placed
        <5>2. Owner[p] \in Connections /\ p # None
          BY RegistryAssumption
        <5> QED
          BY <2>1, <2>6, <5>1, <5>2
      <4> QED
        BY <4>1, <4>2
    <3> QED
      BY <3>1, <3>2, <3>3, <3>4, <3>5 DEF Placed
  <2>8. CASE link[c] = "up"
    <3>1. PICK out \in Seq(Message) :
            /\ toServer' = Put(toServer, c, out) /\ SameBut(n, out, toServer[c])
            /\ Kinds(n, out) = Append(Kinds(n, toServer[c]), "open")
      BY <1>2, <2>8, Parts, SendKeeps
    <3>2. /\ toClient' = Put(toClient, c, toClient[c]) /\ SameBut(n, toClient[c], toClient[c])
          /\ toClient[c] \in Seq(Message)
      BY <1>2, Parts, SameWire
    <3>3. Wired'
      BY <1>1, <1>2, <2>5, <2>8, <3>1, <3>2, Parts, WiredStep
    <3>4. Lives(closeCalled', channels'[c][n], srv[c][n], Kinds(n, out), Kinds(n, toClient[c]))
      <4> DEFINE s == srv[c][n]
                 a == Kinds(n, toServer[c])
                 b == Kinds(n, toClient[c])
      <4>1. Idle(s, a, b) /\ Kinds(n, out) = Append(a, "open")
        BY <1>2, <2>1, <2>8, <3>1, Parts DEF Alive, Lives
      <4>2. channels'[c][n] = o /\ o \notin closeCalled' /\ o # None
        BY <1>1, <2>3, <2>5
      <4> HIDE DEF s, a, b
      <4>3. Used(s, Append(a, "open"), b)
        BY <4>1, LifeCreated
      <4>4. Lives(closeCalled', o, s, Append(a, "open"), b)
        BY <4>2, <4>3 DEF Lives
      <4> QED
        BY <4>1, <4>2, <4>4 DEF s, b
    <3>5. Alive'
      BY <1>1, <1>2, <2>5, <2>8, <3>1, <3>2, <3>4, Parts, AliveStep
    <3> QED
      BY <2>2, <2>7, <3>3, <3>5
  <2>9. CASE link[c] # "up"
    <3>1. toServer' = toServer
      BY <1>2, <2>9 DEF Writes
    <3>2. Wired'
      BY <1>1, <1>2, <2>5, <3>1, Parts DEF Wired
    <3>3. \A d \in Connections \ {c} : channels'[d] = channels[d]
      BY <1>2, Parts DEF Wired
    <3>4. Alive'
      BY <1>1, <1>2, <2>9, <3>1, <3>3, Parts, AliveBy
    <3> QED
      BY <2>2, <2>7, <3>2, <3>4
  <2> QED
    BY <2>8, <2>9
<1>3. ASSUME n \notin Numbers, Down(c), UNCHANGED <<stuck, channelCounter, channels>>
      PROVE  /\ Wired' /\ Placed' /\ Alive'
             /\ \A p \in Objects : /\ state[p] # "new" => state'[p] # "new"
                                   /\ state'[p] = "open" => state[p] = "open"
  BY <1>1, <1>3, Parts, GoesDown DEF Wired
<1>4. ASSUME n \notin Numbers, stuck' = TRUE, UNCHANGED <<link, channelCounter, channels, state, wires>>
      PROVE  /\ Wired' /\ Placed' /\ Alive'
             /\ \A p \in Objects : /\ state[p] # "new" => state'[p] # "new"
                                   /\ state'[p] = "open" => state[p] = "open"
  BY <1>1, <1>4, Parts DEF Wired, Placed, Alive, wires
<1>5. 0 \notin Numbers /\ -1 \notin Numbers
  BY RegistryAssumption DEF Numbers
<1> QED
  BY <1>1, <1>2, <1>3, <1>4, <1>5 DEF Create

\* exchange() or queue().
LEMMA CreateObjectKeeps ==
  ASSUME IInv, NEW c \in Connections, CreateObject(c)
  PROVE  IInv'
<1>1. PICK o \in Objects : Create(c, o)
  BY DEF CreateObject
<1>2. UNCHANGED <<defaultExchange, deferred, written>>
  BY DEF CreateObject
<1>3. /\ Wired' /\ Placed' /\ Alive'
      /\ \A p \in Objects : /\ state[p] # "new" => state'[p] # "new"
                            /\ state'[p] = "open" => state[p] = "open"
  BY <1>1, CreateKeeps
<1>4. Waiting' /\ PublishedInOrder'
  BY <1>2, <1>3, Parts, WaitingBy
<1> QED
  BY <1>3, <1>4 DEF IInv

\* The calls, in their order.
Counted(u, v) == u \o v = [i \in 1 .. Len(u) + Len(v) |-> i]

\* One call more, behind the others.
LEMMA NextCall ==
  ASSUME NEW u \in Seq(Nat), NEW v \in Seq(Nat), Counted(u, v),
         NEW k, k = Len(u) + Len(v) + 1
  PROVE  /\ Counted(u, Append(v, k))
         /\ v = <<>> => Counted(Append(u, k), v)
         /\ Append(u, k) \in Seq(Nat) /\ Append(v, k) \in Seq(Nat)
<1> DEFINE w == u \o v
           x == Append(w, k)
           y == [i \in 1 .. Len(u) + Len(v) + 1 |-> i]
<1>1. Len(u) \in Nat /\ Len(v) \in Nat /\ k \in Nat
  OBVIOUS
<1>2. w \in Seq(Nat) /\ Len(w) = Len(u) + Len(v)
  BY ConcatProperties
<1>3. \A i \in 1 .. Len(w) : w[i] = i
  BY <1>1, <1>2 DEF Counted
<1>4. y \in Seq(Nat) /\ Len(y) = Len(u) + Len(v) + 1 /\ y[Len(u) + Len(v) + 1] = Len(u) + Len(v) + 1
      /\ \A i \in 1 .. Len(u) + Len(v) : y[i] = i
  BY <1>1
<1>5. u \o Append(v, k) = x
  BY <1>1, ConcatAppend
<1> HIDE DEF w, y
<1>6. x = y
  BY <1>1, <1>2, <1>3, <1>4, AppendIs
<1> HIDE DEF x
<1>7. /\ Len(Append(v, k)) = Len(v) + 1 /\ Append(v, k) \in Seq(Nat)
      /\ Len(Append(u, k)) = Len(u) + 1 /\ Append(u, k) \in Seq(Nat)
  BY <1>1, AppendProperties
<1>8. Counted(u, Append(v, k))
  <2>1. u \o Append(v, k) = y /\ Len(u) + Len(Append(v, k)) = Len(u) + Len(v) + 1
    BY <1>1, <1>5, <1>6, <1>7
  <2> QED
    BY <2>1, Zenon DEF Counted, y
<1>9. ASSUME v = <<>> PROVE Counted(Append(u, k), v)
  <2>1. w = u /\ Len(v) = 0
    BY <1>9, ConcatProperties DEF w
  <2> DEFINE z == Append(u, k)
  <2>2. z \in Seq(Nat)
    BY <1>7
  <2> HIDE DEF z
  <2>3. z \o <<>> = z
    BY <2>2
  <2>4. Append(u, k) \o v = y
    BY <1>6, <1>9, <2>1, <2>3 DEF x, z
  <2>5. Len(Append(u, k)) + Len(v) = Len(u) + Len(v) + 1
    BY <1>1, <1>7, <2>1
  <2> QED
    BY <2>4, <2>5, Zenon DEF Counted, y
<1> QED
  BY <1>7, <1>8, <1>9

\* One connection has published, or keeps one publish more.
LEMMA CalledKeeps ==
  ASSUME Waiting, PublishedInOrder, NEW c \in Connections,
         NEW w \in Seq(Nat), NEW d \in Seq(Nat), NEW e \in Objects,
         written' = Put(written, c, w), deferred' = Put(deferred, c, d),
         defaultExchange' = Put(defaultExchange, c, e),
         Counted(w, d),
         Owner[e] = c, state'[e] # "new", state'[e] = "open" => d = <<>>,
         \A p \in Objects : /\ state[p] # "new" => state'[p] # "new"
                            /\ state'[p] = "open" => state[p] = "open"
  PROVE  Waiting' /\ PublishedInOrder'
<1>1. /\ written' = [written EXCEPT ![c] = w] /\ deferred' = [deferred EXCEPT ![c] = d]
      /\ defaultExchange' = [defaultExchange EXCEPT ![c] = e]
  BY DEF Put
<1>2. /\ written' \in [Connections -> Seq(Nat)] /\ deferred' \in [Connections -> Seq(Nat)]
      /\ defaultExchange' \in [Connections -> Objects \cup {None}]
      /\ written'[c] = w /\ deferred'[c] = d /\ defaultExchange'[c] = e
  BY <1>1 DEF Waiting
<1>3. \A b \in Connections : b # c => /\ written'[b] = written[b] /\ deferred'[b] = deferred[b]
                                      /\ defaultExchange'[b] = defaultExchange[b]
  BY <1>1 DEF Waiting
<1>4. ASSUME NEW b \in Connections
      PROVE  Counted(written'[b], deferred'[b])
  BY ZenonT(30), <1>2, <1>3 DEF PublishedInOrder, Counted
<1>5. ASSUME NEW b \in Connections
      PROVE  /\ defaultExchange'[b] = None => deferred'[b] = <<>> /\ written'[b] = <<>>
             /\ defaultExchange'[b] # None => /\ Owner[defaultExchange'[b]] = b
                                              /\ state'[defaultExchange'[b]] # "new"
             /\ defaultExchange'[b] # None /\ state'[defaultExchange'[b]] = "open"
                  => deferred'[b] = <<>>
  <2>1. CASE b = c
    BY <1>2, <2>1, RegistryAssumption
  <2>2. CASE b # c
    <3>1. defaultExchange[b] = None \/ defaultExchange[b] \in Objects
      BY DEF Waiting
    <3> QED
      BY <1>3, <2>2, <3>1 DEF Waiting
  <2> QED
    BY <2>1, <2>2
<1> QED
  BY <1>2, <1>4, <1>5 DEF Waiting, PublishedInOrder, Counted

\* connection.publish.
LEMMA PublishKeeps ==
  ASSUME IInv, NEW c \in Connections, Publish(c)
  PROVE  IInv'
<1> DEFINE o == defaultExchange[c]
           u == written[c]
           v == deferred[c]
           k == Len(u) + Len(v) + 1
<1>1. /\ u \in Seq(Nat) /\ v \in Seq(Nat) /\ o \in Objects \cup {None}
      /\ Counted(u, v)
      /\ o = None => v = <<>> /\ u = <<>>
      /\ o # None => Owner[o] = c /\ state[o] # "new"
      /\ o # None /\ state[o] = "open" => v = <<>>
      /\ written = Put(written, c, u) /\ deferred = Put(deferred, c, v)
      /\ defaultExchange = Put(defaultExchange, c, o)
  BY Parts DEF Waiting, PublishedInOrder, Put, Counted
<1>2. \/ /\ o = None
         /\ \E made \in Objects :
              /\ Create(c, made)
              /\ IF NextId(c) \in Numbers
                 THEN /\ defaultExchange' = Put(defaultExchange, c, made)
                      /\ deferred' = Put(deferred, c, Append(v, k))
                 ELSE UNCHANGED <<defaultExchange, deferred>>
         /\ UNCHANGED written
      \/ /\ o # None
         /\ IF state[o] = "open"
            THEN written' = Put(written, c, Append(u, k)) /\ UNCHANGED deferred
            ELSE deferred' = Put(deferred, c, Append(v, k)) /\ UNCHANGED written
         /\ UNCHANGED <<channelMax, stuck, link, channelCounter, channels, defaultExchange,
                        state, closeCalled, tuned, srv, wires, losses>>
  BY Parts DEF Publish, Put, Waiting
<1> HIDE DEF o, u, v
<1>3. /\ Counted(u, Append(v, k)) /\ (v = <<>> => Counted(Append(u, k), v))
      /\ Append(u, k) \in Seq(Nat) /\ Append(v, k) \in Seq(Nat)
  BY <1>1, NextCall
<1> DEFINE uu == Append(u, k)
           vv == Append(v, k)
<1> HIDE DEF k, uu, vv
<1>4. ASSUME o = None, UNCHANGED written, NEW made \in Objects, Create(c, made),
             IF NextId(c) \in Numbers
             THEN /\ defaultExchange' = Put(defaultExchange, c, made)
                  /\ deferred' = Put(deferred, c, vv)
             ELSE UNCHANGED <<defaultExchange, deferred>>
      PROVE  IInv'
  <2>1. /\ Wired' /\ Placed' /\ Alive' /\ state[made] = "new" /\ Owner[made] = c
        /\ NextId(c) \in Numbers => state' = [state EXCEPT ![made] = "undefined"]
        /\ \A p \in Objects : /\ state[p] # "new" => state'[p] # "new"
                              /\ state'[p] = "open" => state[p] = "open"
    BY <1>4, CreateKeeps
  <2>2. CASE NextId(c) \in Numbers
    <3>1. state'[made] = "undefined"
      BY <2>1, <2>2, Parts DEF Placed
    <3>2. Waiting' /\ PublishedInOrder'
      BY <1>1, <1>3, <1>4, <2>1, <2>2, <3>1, Parts, CalledKeeps DEF vv
    <3> QED
      BY <2>1, <3>2 DEF IInv
  <2>3. CASE NextId(c) \notin Numbers
    <3>1. Waiting' /\ PublishedInOrder'
      BY <1>4, <2>1, <2>3, Parts, WaitingBy
    <3> QED
      BY <2>1, <3>1 DEF IInv
  <2> QED
    BY <2>2, <2>3
<1>5. ASSUME o # None,
             IF state[o] = "open"
             THEN written' = Put(written, c, uu) /\ UNCHANGED deferred
             ELSE deferred' = Put(deferred, c, vv) /\ UNCHANGED written,
             UNCHANGED <<channelMax, stuck, link, channelCounter, channels, defaultExchange,
                         state, closeCalled, tuned, srv, wires, losses>>
      PROVE  IInv'
  <2>1. Wired' /\ Placed' /\ Alive'
    BY <1>5, Parts DEF Wired, Placed, Alive, wires
  <2>2. Waiting' /\ PublishedInOrder'
    <3>1. o \in Objects /\ Owner[o] = c /\ state'[o] = state[o] /\ state[o] # "new"
      BY <1>1, <1>5
    <3>2. \A p \in Objects : /\ state[p] # "new" => state'[p] # "new"
                             /\ state'[p] = "open" => state[p] = "open"
      BY <1>5
    <3>3. CASE state[o] = "open"
      <4>1. v = <<>> /\ written' = Put(written, c, uu) /\ deferred' = Put(deferred, c, v)
        BY <1>1, <1>5, <3>3
      <4> QED
        BY <1>1, <1>3, <1>5, <3>1, <3>2, <4>1, Parts, CalledKeeps DEF uu
    <3>4. CASE state[o] # "open"
      <4>1. deferred' = Put(deferred, c, vv) /\ written' = Put(written, c, u)
        BY <1>1, <1>5, <3>4
      <4> QED
        BY <1>1, <1>3, <1>5, <3>1, <3>2, <3>4, <4>1, Parts, CalledKeeps DEF vv
    <3> QED
      BY <3>3, <3>4
  <2> QED
    BY <2>1, <2>2 DEF IInv
<1> QED
  BY <1>2, <1>4, <1>5 DEF uu, vv

\* The connection comes up, and its numbers are opened.
LEMMA ConnectedKeeps ==
  ASSUME IInv, NEW c \in Connections, Connected(c)
  PROVE  IInv'
<1> DEFINE out == Filter([k \in Numbers |-> [m |-> "open", n |-> k]], [m : {"open"}, n : Tracked(c)])
<1>1. PICK limit \in Limits :
        /\ link[c] # "up"
        /\ link' = [link EXCEPT ![c] = "up"]
        /\ tuned' = [tuned EXCEPT ![c] = limit]
        /\ channelMax' = IF limit = 0 THEN channelMax ELSE limit
        /\ srv' = [srv EXCEPT ![c] = [n \in Numbers |-> "closed"]]
        /\ toServer' = [toServer EXCEPT ![c] = out]
        /\ UNCHANGED <<stuck, channelCounter, channels, defaultExchange, deferred, written,
                       state, closeCalled, toClient, losses>>
  BY DEF Connected
<1> DEFINE T == Tracked(c)
<1>2. out \in Seq(Message) /\ \A n \in Numbers : Kinds(n, out) = IF n \in T THEN One("open") ELSE Nil
  <2>1. T \in SUBSET Numbers
    BY DEF Tracked
  <2> HIDE DEF T
  <2>2. \A w : w = Filter([k \in Numbers |-> [m |-> "open", n |-> k]], [m : {"open"}, n : T]) =>
          /\ w \in Seq(Message)
          /\ \A n \in Numbers : Kinds(n, w) = IF n \in T THEN One("open") ELSE Nil
    BY <2>1, KindsOpens
  <2> QED
    BY <2>2 DEF T
<1> HIDE DEF out
<1>3. Wired'
  <2>1. channelMax' \in Numbers
    BY <1>1, Parts, RegistryAssumption DEF Wired, Numbers
  <2>2. srv' \in [Connections -> [Numbers -> {"closed", "open", "closing"}]]
    BY <1>1, Parts DEF Wired
  <2>3. /\ toServer' \in [Connections -> Seq(Message)]
        /\ tuned' \in [Connections -> Limits \cup {0}]
        /\ link' \in [Connections -> {"new", "up", "down"}]
    BY <1>1, <1>2, Parts DEF Wired
  <2>4. \A d \in Connections : link'[d] # "up" => toServer'[d] = <<>> /\ toClient'[d] = <<>>
    BY <1>1, Parts DEF Wired
  <2> QED
    BY <1>1, <2>1, <2>2, <2>3, <2>4, Parts DEF Wired
<1>4. Placed'
  BY <1>1, Parts DEF Placed
<1>5. Waiting' /\ PublishedInOrder'
  BY <1>1, Parts, WaitingBy
<1>6. Alive'
  <2>1. toServer'[c] = out /\ toClient'[c] = <<>> /\ \A n \in Numbers : srv'[c][n] = "closed"
    BY <1>1, Parts DEF Wired
  <2>2. ASSUME NEW n \in Numbers
        PROVE  Lives(closeCalled', channels'[c][n],
                     srv'[c][n], Kinds(n, toServer'[c]), Kinds(n, toClient'[c]))
    <3> DEFINE o == channels[c][n]
               a == Kinds(n, out)
    <3>1. a = IF o = None THEN Nil ELSE One("open")
      BY <1>2 DEF Tracked
    <3> HIDE DEF o, a
    <3>2. Lives(closeCalled, o, "closed", a, Nil)
      BY <3>1, LifeReopened
    <3>3. Kinds(n, <<>>) = Nil
      BY KindsEmpty
    <3> QED
      BY <1>1, <2>1, <3>2, <3>3 DEF o, a
  <2>3. \A d \in Connections \ {c} :
          /\ link'[d] = link[d] /\ channels'[d] = channels[d] /\ srv'[d] = srv[d]
          /\ toServer'[d] = toServer[d] /\ toClient'[d] = toClient[d]
    BY <1>1, Parts DEF Wired
  <2> QED
    BY <1>1, <2>2, <2>3, Parts, AliveBy
<1> QED
  BY <1>3, <1>4, <1>5, <1>6 DEF IInv

-----------------------------------------------------------------------------
(* Theorems *)

\* The invariant holds at the start,
LEMMA InitIInv == Init => IInv
<1> SUFFICES ASSUME Init PROVE IInv
  OBVIOUS
<1>1. <<>> \in Seq(Message) /\ <<>> \in Seq(Nat)
  OBVIOUS
<1>2. Wired
  BY <1>1, RegistryAssumption DEF Init, Wired
<1>3. Placed
  BY RegistryAssumption DEF Init, Placed
<1>4. Waiting
  BY <1>1 DEF Init, Waiting
<1>5. PublishedInOrder
  <2>1. <<>> \o <<>> = [i \in 1 .. Len(<<>>) + Len(<<>>) |-> i]
    OBVIOUS
  <2>2. \A c \in Connections : written[c] = <<>> /\ deferred[c] = <<>>
    BY DEF Init
  <2> QED
    BY <2>1, <2>2 DEF PublishedInOrder
<1>6. Alive
  BY DEF Init, Alive
<1> QED
  BY <1>2, <1>3, <1>4, <1>5, <1>6 DEF IInv

\* and every step keeps it.
LEMMA NextKeeps == IInv /\ [Next]_vars => IInv'
<1> SUFFICES ASSUME IInv, [Next]_vars PROVE IInv'
  OBVIOUS
<1>1. CASE Next
  <2>1. PICK c \in Connections :
          \/ CreateObject(c) \/ Publish(c) \/ \E n \in Numbers : Close(c, n)
          \/ OnOpenOk(c) \/ OnChannelClose(c) \/ OnChannelCloseOk(c)
          \/ Connected(c) \/ Lose(c)
          \/ SrvServes(c) \/ SrvRefuses(c) \/ SrvCloses(c)
    BY <1>1 DEF Next
  <2> QED
    BY <2>1, CreateObjectKeeps, PublishKeeps, CloseKeeps, OnOpenOkKeeps, OnChannelCloseKeeps,
       OnChannelCloseOkKeeps, ConnectedKeeps, LoseKeeps, SrvServesKeeps, SrvRefusesKeeps,
       SrvClosesKeeps
<1>2. CASE UNCHANGED vars
  <2>1. UNCHANGED <<channelMax, stuck, link, channelCounter, channels, defaultExchange, deferred,
                    written, state, closeCalled, tuned, srv, toServer, toClient>>
    BY <1>2 DEF vars, wires
  <2>2. Wired'
    BY <2>1, Parts DEF Wired
  <2>3. Placed'
    BY <2>1, Parts DEF Placed
  <2>4. Waiting' /\ PublishedInOrder'
    BY <2>1, Parts, WaitingBy
  <2>5. Alive'
    BY <2>1, Parts DEF Alive
  <2> QED
    BY <2>2, <2>3, <2>4, <2>5 DEF IInv
<1> QED
  BY <1>1, <1>2

\* The conjunction of the four parts holds in every state.
THEOREM InductiveInvariant == Spec => []IInv
BY InitIInv, NextKeeps, PTL DEF Spec

\* generateChannelId finds a free number whenever there is one, whatever numbers are
\* taken and wherever the counter stands.
THEOREM FreeNumberIsFound == Spec => []FindsFreeNumber
<1>1. IInv => FindsFreeNumber
  <2> SUFFICES ASSUME IInv, NEW c \in Connections
               PROVE  LET free == (1 .. channelMax) \ Tracked(c)
                      IN  IF free = {} THEN NextId(c) \in {0, -1} ELSE NextId(c) \in free
    BY DEF FindsFreeNumber
  <2>1. channelMax \in Nat /\ channelMax # 0 /\ channelCounter[c] \in Nat
    BY Parts, RegistryAssumption DEF Wired, Numbers
  <2> QED
    BY <2>1, NextIdFinds
<1> QED
  BY <1>1, InductiveInvariant, PTL

\* Each publish of connection.publish is written once, in order, or still waits.
THEOREM PublishesInOrder == Spec => []PublishedInOrder
<1>1. IInv => PublishedInOrder
  BY DEF IInv
<1> QED
  BY <1>1, InductiveInvariant, PTL

\* Every variable keeps its type, and an exchange or queue its one number.
THEOREM TypeCorrect == Spec => []TypeOK
<1>1. ASSUME IInv PROVE TypeOK
  <2>1. ASSUME NEW c \in Connections
        PROVE  /\ link[c] \in {"new", "up", "down"} /\ channelCounter[c] \in Numbers \cup {0}
               /\ Range(channels[c]) \subseteq Objects \cup {None}
               /\ \A n \in Numbers : srv[c][n] \in {"closed", "open", "closing"}
               /\ tuned[c] \in Limits \cup {0}
    <3>1. link[c] \in {"new", "up", "down"} /\ channelCounter[c] \in Numbers \cup {0}
          /\ tuned[c] \in Limits \cup {0}
      BY <1>1, Parts DEF Wired
    <3>2. /\ channels[c] \in [Numbers -> Objects \cup {None}]
          /\ srv[c] \in [Numbers -> {"closed", "open", "closing"}]
      BY <1>1, Parts, WiresOf
    <3> QED
      BY <3>1, <3>2 DEF Range
  <2>2. ASSUME NEW o \in Objects
        PROVE  Cardinality({p \in Connections \X Numbers : channels[p[1]][p[2]] = o}) <= 1
    <3> DEFINE S == {p \in Connections \X Numbers : channels[p[1]][p[2]] = o}
    <3>1. \A p, q \in S : p = q
      <4> SUFFICES ASSUME NEW p \in S, NEW q \in S PROVE p = q
        OBVIOUS
      <4>1. PICK c \in Connections, n \in Numbers : p = <<c, n>> /\ channels[c][n] = o
        OBVIOUS
      <4>2. PICK d \in Connections, k \in Numbers : q = <<d, k>> /\ channels[d][k] = o
        OBVIOUS
      <4>3. o # None
        BY RegistryAssumption
      <4> QED
        BY <1>1, <4>1, <4>2, <4>3, Parts DEF Placed
    <3> HIDE DEF S
    <3>2. S = {} \/ \E p : S = {p}
      BY <3>1
    <3>3. Cardinality(S) = 0 \/ Cardinality(S) = 1
      BY <3>2, FS_EmptySet, FS_Singleton
    <3> QED
      BY <3>3 DEF S
  <2>3. ASSUME NEW o \in Objects, state[o] \notin {"new", "closed"}
        PROVE  o \in Range(channels[Owner[o]])
    <3>1. PICK n \in Numbers : channels[Owner[o]][n] = o
      BY <1>1, <2>3, Parts DEF Placed
    <3>2. channels[Owner[o]] \in [Numbers -> Objects \cup {None}]
      BY <1>1, Parts, WiresOf, RegistryAssumption
    <3> QED
      BY <3>1, <3>2 DEF Range
  <2>4. channelMax \in Numbers /\ stuck \in BOOLEAN
        /\ state \in [Objects -> {"new", "undefined", "open", "closing", "closed"}]
    BY <1>1, Parts DEF Wired, Placed
  <2> QED
    BY <2>1, <2>2, <2>3, <2>4 DEF TypeOK
<1> QED
  BY <1>1, InductiveInvariant, PTL

\* The methods that carry a number, and their kinds.
LEMMA OfAndKinds ==
  ASSUME NEW n, NEW w \in Seq(Message)
  PROVE  /\ Of(n, w) \in Seq(Message) /\ Len(Of(n, w)) \in Nat
         /\ Len(Kinds(n, w)) = Len(Of(n, w))
         /\ \A i \in 1 .. Len(Of(n, w)) :
              /\ Of(n, w)[i].n = n /\ Of(n, w)[i].m = Kinds(n, w)[i]
              /\ Of(n, w)[i] = [m |-> Kinds(n, w)[i], n |-> n]
<1> DEFINE P == [m : {"open", "openOk", "close", "closeOk"}, n : {n}]
           u == Of(n, w)
<1>1. u = Filter(w, P)
  BY DEF Of
<1>2. u \in Seq(Message) /\ \A i \in 1 .. Len(u) : u[i] \in P
  <2> HIDE DEF P, u
  <2> QED
    BY <1>1, FilterType
<1> HIDE DEF u
<1>3. Len(u) \in Nat /\ Kinds(n, w) = [i \in 1 .. Len(u) |-> u[i].m]
  BY <1>2 DEF Kinds, u
<1> QED
  BY <1>2, <1>3 DEF u

\* What may be on the wire to the server when a number is free,
LEMMA OfFree ==
  ASSUME NEW n, NEW w \in Seq(Message)
  PROVE  /\ Kinds(n, w) = Nil => Of(n, w) = <<>>
         /\ \A m : Kinds(n, w) = One(m) => Of(n, w) = <<[m |-> m, n |-> n]>>
<1> DEFINE u == Of(n, w)
           k == Kinds(n, w)
<1>1. /\ u \in Seq(Message) /\ Len(u) \in Nat /\ Len(k) = Len(u)
      /\ \A i \in 1 .. Len(u) : u[i] = [m |-> k[i], n |-> n]
  BY OfAndKinds
<1> HIDE DEF u, k
<1>2. k = Nil => u = <<>>
  BY <1>1 DEF Nil
<1>3. ASSUME NEW m, k = One(m) PROVE u = <<[m |-> m, n |-> n]>>
  <2>1. Len(k) = 1 /\ k[1] = m
    BY <1>3 DEF One
  <2>2. Len(u) = 1 /\ u[1] = [m |-> m, n |-> n]
    BY <1>1, <2>1
  <2> QED
    BY <1>1, <2>2
<1> QED
  BY <1>2, <1>3 DEF u, k

\* and where an open may be.
LEMMA OpensOnce ==
  ASSUME NEW C, NEW o, NEW s, NEW out, NEW in, Lives(C, o, s, out, in),
         NEW i \in 1 .. Len(out), out[i] = "open"
  PROVE  (i = 1 /\ s = "closed") \/ (i = 2 /\ out[1] = "closeOk")
<1>1. \/ \E a \in {"close", "closeOk"} : out = One(a)
      \/ out = Nil
      \/ s = "closed" /\ (out = One("open") \/ out = Two("open", "close"))
      \/ out = Two("closeOk", "open") \/ out = Three("closeOk", "open", "close")
      \/ out = Two("closeOk", "close") \/ out = Two("close", "closeOk")
  BY DEF Lives, Idle, Used, Busy, Asked, Granted
<1>2. \A a : Len(One(a)) = 1 /\ One(a)[1] = a
  BY DEF One
<1>3. \A a, b : Len(Two(a, b)) = 2 /\ Two(a, b)[1] = a /\ Two(a, b)[2] = b
  BY DEF Two
<1>4. \A a, b, c : Len(Three(a, b, c)) = 3 /\ Three(a, b, c)[1] = a /\ Three(a, b, c)[2] = b
                   /\ Three(a, b, c)[3] = c
  BY DEF Three
<1>5. Len(Nil) = 0
  BY DEF Nil
<1> QED
  BY <1>1, <1>2, <1>3, <1>4, <1>5

\* A channel number has one user at a time, on both sides of the connection.
THEOREM NumbersAreExclusiveAlways == Spec => []NumbersAreExclusive
<1>1. ASSUME IInv PROVE FreeIsQuiet
  <2> SUFFICES ASSUME NEW c \in Connections, NEW n \in Numbers \ Tracked(c), link[c] = "up"
               PROVE  /\ Of(n, toClient[c]) = <<>>
                      /\ Of(n, toServer[c]) = IF srv[c][n] = "closing"
                                              THEN <<[m |-> "closeOk", n |-> n]>> ELSE <<>>
                      /\ srv[c][n] # "open"
    BY DEF FreeIsQuiet
  <2>1. Idle(srv[c][n], Kinds(n, toServer[c]), Kinds(n, toClient[c]))
    BY <1>1, Parts DEF Alive, Lives, Tracked
  <2>2. toServer[c] \in Seq(Message) /\ toClient[c] \in Seq(Message)
    BY <1>1, Parts, WiresOf
  <2> DEFINE w == toServer[c]
             v == toClient[c]
             s == srv[c][n]
  <2> HIDE DEF w, v, s
  <2>3. /\ Kinds(n, w) = Nil => Of(n, w) = <<>>
        /\ Kinds(n, w) = One("closeOk") => Of(n, w) = <<[m |-> "closeOk", n |-> n]>>
        /\ Kinds(n, v) = Nil => Of(n, v) = <<>>
    BY <2>2, OfFree DEF w, v
  <2>4. Idle(s, Kinds(n, w), Kinds(n, v))
    BY <2>1 DEF w, v, s
  <2>5. /\ Of(n, v) = <<>> /\ s # "open"
        /\ Of(n, w) = IF s = "closing" THEN <<[m |-> "closeOk", n |-> n]>> ELSE <<>>
    BY <2>3, <2>4 DEF Idle
  <2> QED
    BY <2>5 DEF w, v, s
<1>2. ASSUME IInv PROVE NeverOpenedTwice
  <2> SUFFICES ASSUME NEW c \in Connections, NEW n \in Numbers, link[c] = "up",
                      NEW i \in DOMAIN Of(n, toServer[c]), Of(n, toServer[c])[i].m = "open"
               PROVE  /\ \/ srv[c][n] = "closed"
                         \/ \E k \in 1 .. i : Of(n, toServer[c])[k].m # "open"
                      /\ i > 1 => Of(n, toServer[c])[i - 1].m # "open"
    BY DEF NeverOpenedTwice
  <2> DEFINE w == toServer[c]
             u == Of(n, w)
             out == Kinds(n, w)
             in == Kinds(n, toClient[c])
             o == channels[c][n]
             s == srv[c][n]
  <2>1. w \in Seq(Message) /\ Lives(closeCalled, o, s, out, in)
    BY <1>2, Parts, WiresOf DEF Alive
  <2>2. /\ u \in Seq(Message) /\ Len(u) \in Nat /\ Len(out) = Len(u)
        /\ \A j \in 1 .. Len(u) : u[j].m = out[j]
    <3> HIDE DEF w
    <3>1. /\ Of(n, w) \in Seq(Message) /\ Len(Of(n, w)) \in Nat
          /\ Len(Kinds(n, w)) = Len(Of(n, w))
          /\ \A j \in 1 .. Len(Of(n, w)) :
               /\ Of(n, w)[j].n = n /\ Of(n, w)[j].m = Kinds(n, w)[j]
               /\ Of(n, w)[j] = [m |-> Kinds(n, w)[j], n |-> n]
      BY <2>1, OfAndKinds, Zenon
    <3> QED
      BY <3>1
  <2>3. i \in 1 .. Len(u) /\ out[i] = "open"
    BY <2>2
  <2> HIDE DEF o, s, u, in, out, w
  <2>4. (i = 1 /\ s = "closed") \/ (i = 2 /\ out[1] = "closeOk")
    BY <2>1, <2>2, <2>3, OpensOnce
  <2>5. i = 2 => u[1].m = "closeOk"
    BY <2>2, <2>3, <2>4
  <2>6. s = "closed" \/ (1 \in 1 .. i /\ u[1].m # "open")
    BY <2>3, <2>4, <2>5
  <2>7. i > 1 => i - 1 = 1 /\ u[1].m # "open"
    BY <2>3, <2>4, <2>5
  <2> QED
    BY <2>6, <2>7 DEF u, w, s
<1> QED
  BY <1>1, <1>2, InductiveInvariant, PTL DEF NumbersAreExclusive
================================================================================
