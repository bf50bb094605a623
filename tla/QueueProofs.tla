------------------------------ MODULE QueueProofs ------------------------------
(***************************************************************************)
(* Proofs about Queue: as long as the application calls an open queue      *)
(* only, deliveries have listeners, each subscription has one consumer,    *)
(* and the bindings of the client and of the server agree, for any sets of *)
(* keys and subscriptions, any number of calls and losses, and any         *)
(* misfortunes.                                                            *)
(***************************************************************************)
EXTENDS Queue, SeqFilterProofs, FiniteSetTheorems

-----------------------------------------------------------------------------
(* Types, wires and tasks *)

\* The bindings to restore are finitely many, so that they can be written in a row.
FiniteBindings == IsFiniteSet({k \in Key : bindings[k] > 0})

TypeInv == TypeOK /\ FiniteBindings

Arg == Key \cup {None} \cup Nat

MethodName == { "channelOpen", "channelOpenOk", "declare", "declareOk", "bind", "bindOk",
             "unbind", "unbindOk", "consume", "consumeOk", "cancel", "cancelOk",
             "delete", "deleteOk", "close", "closeOk", "basicCancel" }

Message == [m : MethodName, arg : Arg]
Entry   == [op : {"consume", "cancel", "unbind", "delete"}, arg : Arg,
            sub : Sub \cup {None}, sent : BOOLEAN]
Item    == Message \cup Entry

\* The messages of one method on a wire, the tasks of one kind in the queue, and
\* what they are about, in order.
Named(m)   == [m : {m}, arg : Arg]
Queued(op) == [op : {op}, arg : Arg, sub : Sub \cup {None}, sent : BOOLEAN]

Args(s) == [i \in 1..Len(s) |-> s[i].arg]

Chosen(s, P)         == Args(Filter(s, P))
Carried(wire, m)     == Chosen(wire, Named(m))
Waiting(entries, op) == Chosen(entries, Queued(op))

Absent(wire, m)       == \A i \in 1..Len(wire) : wire[i].m # m
Carries(wire, m, a)   == \E i \in 1..Len(wire) : wire[i].m = m /\ wire[i].arg = a
Waits(entries, op, a) == \E i \in 1..Len(entries) : entries[i].op = op /\ entries[i].arg = a

\* All of them have been sent.
Sent(entries) == \A i \in 1..Len(entries) : entries[i].sent

\* A consumer is cancelled after it was asked for.
Ordered(wire) ==
  \A i, j \in 1..Len(wire) :
    wire[i].m = "consume" /\ wire[j].m = "cancel" /\ wire[i].arg = wire[j].arg => i < j

\* The server has the binding, or will.
Binds(out, bound, k) ==
  \/ k \in bound /\ ~Carries(out, "unbind", k)
  \/ \E i \in 1..Len(out) : /\ out[i].m = "bind" /\ out[i].arg = k
                            /\ \A j \in i..Len(out) : ~(out[j].m = "unbind" /\ out[j].arg = k)

-----------------------------------------------------------------------------
(* What is chosen of a sequence *)

\* What the elements of a sequence are about.
LEMMA ArgsOf ==
  ASSUME NEW s \in Seq(Item)
  PROVE  /\ Args(s) \in Seq(Arg)
         /\ Len(Args(s)) = Len(s)
         /\ \A i \in 1..Len(s) : Args(s)[i] = s[i].arg
BY DEF Args, Item, Message, Entry

\* One element more.
LEMMA ArgsAppend ==
  ASSUME NEW s \in Seq(Item), NEW e \in Item
  PROVE  Args(Append(s, e)) = Append(Args(s), e.arg)
BY DEF Args, Item, Message, Entry

\* Two sequences in a row.
LEMMA ArgsConcat ==
  ASSUME NEW s \in Seq(Item), NEW t \in Seq(Item)
  PROVE  Args(s \o t) = Args(s) \o Args(t)
BY DEF Args, Item, Message, Entry

\* What is chosen, and that it comes from the sequence.
LEMMA ChosenType ==
  ASSUME NEW s \in Seq(Item), NEW P
  PROVE  /\ Filter(s, P) \in Seq(Item)
         /\ Chosen(s, P) \in Seq(Arg)
         /\ Len(Chosen(s, P)) = Len(Filter(s, P))
         /\ \A i \in 1..Len(Chosen(s, P)) :
              \E x \in Item : x \in P /\ x.arg = Chosen(s, P)[i]
<1> DEFINE f == Filter(s, P)
<1>1. f \in Seq(Item) /\ \A i \in 1..Len(f) : f[i] \in P
  BY FilterType
<1> HIDE DEF f
<1>2. /\ Args(f) \in Seq(Arg) /\ Len(Args(f)) = Len(f)
      /\ \A i \in 1..Len(f) : Args(f)[i] = f[i].arg
  BY <1>1, ArgsOf
<1>3. \A i \in 1..Len(f) : f[i] \in Item
  BY <1>1
<1> QED
  BY <1>1, <1>2, <1>3 DEF Chosen, f

\* Nothing is chosen of nothing.
LEMMA ChosenEmpty ==
  ASSUME NEW P
  PROVE  Chosen(<<>>, P) = <<>>
BY FilterEmpty DEF Chosen, Args

\* One element more.
LEMMA ChosenAppend ==
  ASSUME NEW s \in Seq(Item), NEW e \in Item, NEW P
  PROVE  Chosen(Append(s, e), P) =
           IF e \in P THEN Append(Chosen(s, P), e.arg) ELSE Chosen(s, P)
<1> DEFINE f == Filter(s, P)
<1>1. f \in Seq(Item)
  BY ChosenType
<1>2. Filter(Append(s, e), P) = IF e \in P THEN Append(f, e) ELSE f
  BY FilterAppend
<1> HIDE DEF f
<1>3. Args(Append(f, e)) = Append(Args(f), e.arg)
  BY <1>1, ArgsAppend
<1> QED
  BY <1>2, <1>3 DEF Chosen, f

\* Two sequences in a row.
LEMMA ChosenConcat ==
  ASSUME NEW s \in Seq(Item), NEW t \in Seq(Item), NEW P
  PROVE  Chosen(s \o t, P) = Chosen(s, P) \o Chosen(t, P)
<1> DEFINE f == Filter(s, P)
           g == Filter(t, P)
<1>1. f \in Seq(Item) /\ g \in Seq(Item)
  BY ChosenType
<1>2. Filter(s \o t, P) = f \o g
  BY FilterConcat
<1> HIDE DEF f, g
<1>3. Args(f \o g) = Args(f) \o Args(g)
  BY <1>1, ArgsConcat
<1> QED
  BY <1>2, <1>3 DEF Chosen, f, g

\* A sequence without its head.
LEMMA ChosenTail ==
  ASSUME NEW s \in Seq(Item), s # <<>>, NEW P
  PROVE  Chosen(s, P) = IF Head(s) \in P THEN <<Head(s).arg>> \o Chosen(Tail(s), P)
                                         ELSE Chosen(Tail(s), P)
<1> DEFINE t == Tail(s)
           h == Head(s)
           o == <<h>>
           f == Filter(t, P)
<1>1. t \in Seq(Item) /\ h \in Item /\ o \in Seq(Item)
  OBVIOUS
<1>2. Filter(s, P) = IF h \in P THEN o \o f ELSE f
  BY FilterTail
<1>3. Args(o) = <<h.arg>>
  BY DEF Args
<1> HIDE DEF t, h, o
<1>4. f \in Seq(Item)
  BY <1>1, ChosenType
<1> HIDE DEF f
<1>5. Args(o \o f) = Args(o) \o Args(f)
  BY <1>1, <1>4, ArgsConcat
<1> QED
  BY <1>2, <1>3, <1>5 DEF Chosen, f, t, h

\* Nothing is chosen exactly when there is nothing to choose.
LEMMA ChosenNone ==
  ASSUME NEW s \in Seq(Item), NEW P
  PROVE  Chosen(s, P) = <<>> <=> \A i \in 1..Len(s) : s[i] \notin P
<1> DEFINE f == Filter(s, P)
<1>1. f \in Seq(Item)
  BY ChosenType
<1>2. f = <<>> <=> \A i \in 1..Len(s) : s[i] \notin P
  BY FilterNone
<1> HIDE DEF f
<1>3. Args(f) \in Seq(Arg) /\ Len(Args(f)) = Len(f)
  BY <1>1, ArgsOf
<1>4. Args(f) = <<>> <=> f = <<>>
  BY <1>1, <1>3
<1> QED
  BY <1>2, <1>4 DEF Chosen, f

\* What is about something is chosen with what it is about.
LEMMA ChosenMembers ==
  ASSUME NEW s \in Seq(Item), NEW P,
         NEW i \in 1..Len(s), s[i] \in P
  PROVE  \E j \in 1..Len(Chosen(s, P)) : Chosen(s, P)[j] = s[i].arg
<1> DEFINE f == Filter(s, P)
<1>1. f \in Seq(Item)
  BY ChosenType
<1>2. \E j \in 1..Len(f) : f[j] = s[i]
  BY FilterMembers
<1> HIDE DEF f
<1>3. Len(Args(f)) = Len(f) /\ \A j \in 1..Len(f) : Args(f)[j] = f[j].arg
  BY <1>1, ArgsOf
<1> QED
  BY <1>2, <1>3 DEF Chosen, f

\* w is s without its i-th element.
Lacks(w, s, i) == w = SubSeq(s, 1, i - 1) \o SubSeq(s, i + 1, Len(s))

\* A sequence without its i-th element.
LEMMA WithoutType ==
  ASSUME NEW s \in Seq(Item), NEW i \in 1..Len(s),
         NEW w, Lacks(w, s, i)
  PROVE  /\ w \in Seq(Item)
         /\ \A j \in 1..Len(w) : \E l \in 1..Len(s) : w[j] = s[l]
         /\ \A l \in 1..Len(s) : l # i => \E j \in 1..Len(w) : w[j] = s[l]
<1>1. PICK a \in Seq(Item), c \in Seq(Item) :
           /\ w = a \o c
           /\ Len(a) = i - 1 /\ \A j \in 1..Len(a) : a[j] = s[j]
           /\ Len(c) = Len(s) - i /\ \A j \in 1..Len(c) : c[j] = s[i + j]
  <2>1. PartsAround(Item, s, i)
    BY Around
  <2> QED
    BY <2>1, Zenon DEF PartsAround, Lacks
<1>2. w = a \o c
  BY <1>1
<1>3. /\ w \in Seq(Item) /\ Len(w) = Len(a) + Len(c)
      /\ \A j \in 1..Len(a) + Len(c) : w[j] = IF j <= Len(a) THEN a[j] ELSE c[j - Len(a)]
  BY <1>2, ConcatProperties
<1>4. /\ Len(s) \in Nat /\ i \in Nat /\ 1 <= i /\ i <= Len(s)
      /\ Len(a) = i - 1 /\ Len(c) = Len(s) - i /\ Len(w) = Len(s) - 1
  <2>1. Len(s) \in Nat
    OBVIOUS
  <2> QED
    BY <2>1, <1>1, <1>3
<1>5. \A j \in 1..Len(w) : w[j] = IF j < i THEN s[j] ELSE s[j + 1]
  <2> SUFFICES ASSUME NEW j \in 1..Len(w) PROVE w[j] = IF j < i THEN s[j] ELSE s[j + 1]
    OBVIOUS
  <2>1. CASE j < i
    <3>1. j \in 1..Len(a) /\ j \in 1..Len(a) + Len(c) /\ j <= Len(a)
      BY <2>1, <1>4
    <3> QED
      BY <2>1, <3>1, <1>1, <1>3
  <2>2. CASE ~(j < i)
    <3>1. /\ j - Len(a) \in 1..Len(c) /\ j \in 1..Len(a) + Len(c) /\ ~(j <= Len(a))
          /\ i + (j - Len(a)) = j + 1
      BY <2>2, <1>4
    <3>2. w[j] = c[j - Len(a)] /\ c[j - Len(a)] = s[i + (j - Len(a))]
      BY <3>1, <1>1, <1>3
    <3> QED
      BY <2>2, <3>1, <3>2
  <2> QED
    BY <2>1, <2>2
<1>6. ASSUME NEW j \in 1..Len(w) PROVE \E l \in 1..Len(s) : w[j] = s[l]
  <2>1. CASE j < i
    <3>1. j \in 1..Len(s) /\ w[j] = s[j]
      BY <2>1, <1>4, <1>5
    <3> QED
      BY <3>1
  <2>2. CASE ~(j < i)
    <3>1. j + 1 \in 1..Len(s) /\ w[j] = s[j + 1]
      BY <2>2, <1>4, <1>5
    <3> QED
      BY <3>1
  <2> QED
    BY <2>1, <2>2
<1>7. ASSUME NEW l \in 1..Len(s), l # i PROVE \E j \in 1..Len(w) : w[j] = s[l]
  <2>1. CASE l < i
    <3>1. l \in 1..Len(w) /\ w[l] = s[l]
      BY <2>1, <1>4, <1>5
    <3> QED
      BY <3>1
  <2>2. CASE ~(l < i)
    <3>1. l - 1 \in 1..Len(w) /\ ~(l - 1 < i) /\ (l - 1) + 1 = l
      BY <2>2, <1>4, <1>7
    <3>2. w[l - 1] = s[l]
      BY <3>1, <1>5
    <3> QED
      BY <3>1, <3>2
  <2> QED
    BY <2>1, <2>2
<1> QED
  BY <1>3, <1>6, <1>7

\* What is chosen of a sequence without its i-th element.
LEMMA ChosenWithout ==
  ASSUME NEW s \in Seq(Item), NEW i \in 1..Len(s), NEW P,
         NEW w, Lacks(w, s, i)
  PROVE  /\ s[i] \notin P => Chosen(w, P) = Chosen(s, P)
         /\ s[i] \in P /\ (\A j \in 1..(i - 1) : s[j] \notin P) =>
              Chosen(s, P) = <<s[i].arg>> \o Chosen(w, P)
<1> DEFINE e == s[i]
<1>1. PICK a \in Seq(Item), c \in Seq(Item) :
           /\ w = a \o c
           /\ s = Append(a, e) \o c
           /\ Len(a) = i - 1 /\ \A j \in 1..Len(a) : a[j] = s[j]
  <2>1. PartsAround(Item, s, i)
    BY Around
  <2> QED
    BY <2>1, Zenon DEF PartsAround, Lacks
<1>2. e \in Item /\ i - 1 \in Nat
  OBVIOUS
<1> HIDE DEF e
<1> DEFINE y == Append(a, e)
<1>3. w = a \o c
  BY <1>1
<1>4. y \in Seq(Item) /\ s = y \o c
  BY <1>1, <1>2
<1>5. Chosen(y, P) = IF e \in P THEN Append(Chosen(a, P), e.arg) ELSE Chosen(a, P)
  BY <1>2, ChosenAppend
<1> HIDE DEF y
<1>6. Chosen(y \o c, P) = Chosen(y, P) \o Chosen(c, P)
  BY <1>4, ChosenConcat
<1>7. Chosen(a \o c, P) = Chosen(a, P) \o Chosen(c, P)
  BY ChosenConcat
<1>8. e \notin P => Chosen(w, P) = Chosen(s, P)
  BY <1>3, <1>4, <1>5, <1>6, <1>7
<1>9. ASSUME e \in P, \A j \in 1..(i - 1) : s[j] \notin P
      PROVE  Chosen(s, P) = <<e.arg>> \o Chosen(w, P)
  <2>1. Chosen(a, P) = <<>>
    <3>1. \A j \in 1..Len(a) : a[j] \notin P
      BY <1>1, <1>9
    <3> QED
      BY <3>1, ChosenNone
  <2>2. Append(<<>>, e.arg) = <<e.arg>>
    OBVIOUS
  <2>3. Chosen(c, P) \in Seq(Arg)
    BY ChosenType
  <2>4. <<>> \o Chosen(c, P) = Chosen(c, P)
    BY <2>3, ConcatEmptySeq
  <2> QED
    BY <1>3, <1>4, <1>5, <1>6, <1>7, <1>9, <2>1, <2>2, <2>4
<1> QED
  BY <1>8, <1>9 DEF e

-----------------------------------------------------------------------------
(* Types, for the tags that have been given out *)

TaskOn(T) == [op : {"consume"}, arg : T, sub : Sub \cup {None}, sent : BOOLEAN]
               \cup [op : {"cancel"}, arg : T, sub : {None}, sent : BOOLEAN]
               \cup [op : {"unbind"}, arg : Key, sub : {None}, sent : BOOLEAN]
               \cup [op : {"delete"}, arg : {None}, sub : {None}, sent : BOOLEAN]

ToServerOn(T) == [m : {"channelOpen", "declare", "delete", "close", "closeOk"}, arg : {None}]
                   \cup [m : {"bind", "unbind"}, arg : Key]
                   \cup [m : {"consume", "cancel"}, arg : T]

ToClientOn(T) == [m : {"channelOpenOk", "declareOk", "bindOk", "unbindOk", "deleteOk",
                       "basicCancel", "close", "closeOk"}, arg : {None}]
                   \cup [m : {"consumeOk", "cancelOk"}, arg : T]

RecordOn(T) == [tag : T, sub : Sub, state : {"opening", "open", "closed"}]

Distinct(cons) == \A c, d \in cons : c.tag = d.tag => c = d

\* The part of TypeOK that depends on the tags, and the rest.
Typed(T, ts, out, in, cons, knw, bound) ==
  /\ ts \in Seq(TaskOn(T))
  /\ out \in Seq(ToServerOn(T))
  /\ in \in Seq(ToClientOn(T))
  /\ cons \subseteq RecordOn(T) /\ Distinct(cons)
  /\ knw \in [Sub -> {0} \cup T]
  /\ bound \subseteq T

Plain ==
  /\ options \in Options
  /\ state \in {"closed", "declare queue", "open", "closing"}
  /\ tracked \in BOOLEAN
  /\ registered \in BOOLEAN
  /\ bindings \in [Key -> Nat]
  /\ bindCallback \in Key \cup {None}
  /\ nextTag \in Nat \ {0}
  /\ link \in BOOLEAN
  /\ losses \in 0..MaxLosses
  /\ srv \in {"closed", "open", "refused"}
  /\ exists \in BOOLEAN
  /\ srvBindings \subseteq Key
  /\ calls \in 0..MaxCalls
  /\ wanted \subseteq Key
  /\ active \in [Sub -> {"idle", "asked", "stopped"}]
  /\ incidents \subseteq {"refuse", "close", "destroy", "deleted", "userReconnect",
                          "cancelLost", "unbindLost", "misdirected", "dropped"}

\* They are TypeOK.
LEMMA TypeParts ==
  TypeOK <=> Plain /\ Typed(Tag, tasks, toServer, toClient, consumers, known, srvConsumers)
BY DEF TypeOK, Plain, Typed, Tag, Task, TaskOn, ToServer, ToServerOn, ToClient, ToClientOn,
       RecordOn, Distinct

\* And in the next state.
LEMMA TypePartsNext ==
  TypeOK' <=> Plain' /\ Typed(1..(nextTag' - 1), tasks', toServer', toClient', consumers',
                              known', srvConsumers')
BY DEF TypeOK, Plain, Typed, Tag, Task, TaskOn, ToServer, ToServerOn, ToClient, ToClientOn,
       RecordOn, Distinct

\* What is typed by some tags is typed by more.
LEMMA TypesGrow ==
  ASSUME NEW T, NEW U, T \subseteq U
  PROVE  /\ TaskOn(T) \subseteq TaskOn(U) /\ ToServerOn(T) \subseteq ToServerOn(U)
         /\ ToClientOn(T) \subseteq ToClientOn(U) /\ RecordOn(T) \subseteq RecordOn(U)
         /\ \A s \in Seq(TaskOn(T)) : s \in Seq(TaskOn(U))
         /\ \A s \in Seq(ToServerOn(T)) : s \in Seq(ToServerOn(U))
         /\ \A s \in Seq(ToClientOn(T)) : s \in Seq(ToClientOn(U))
<1>1. /\ TaskOn(T) \subseteq TaskOn(U) /\ ToServerOn(T) \subseteq ToServerOn(U)
      /\ ToClientOn(T) \subseteq ToClientOn(U) /\ RecordOn(T) \subseteq RecordOn(U)
  BY DEF TaskOn, ToServerOn, ToClientOn, RecordOn
<1> QED
  BY <1>1

\* Messages and tasks are items.
LEMMA AreItems ==
  ASSUME NEW T, T \subseteq Nat
  PROVE  /\ TaskOn(T) \subseteq Entry /\ ToServerOn(T) \subseteq Message
         /\ ToClientOn(T) \subseteq Message
         /\ \A s \in Seq(TaskOn(T)) : s \in Seq(Entry) /\ s \in Seq(Item)
         /\ \A s \in Seq(ToServerOn(T)) : s \in Seq(Message) /\ s \in Seq(Item)
         /\ \A s \in Seq(ToClientOn(T)) : s \in Seq(Message) /\ s \in Seq(Item)
<1>1. TaskOn(T) \subseteq Entry
  BY DEF TaskOn, Entry, Arg
<1>2. ToServerOn(T) \subseteq Message /\ ToClientOn(T) \subseteq Message
  BY DEF ToServerOn, ToClientOn, Message, Arg, MethodName
<1>3. Entry \subseteq Item /\ Message \subseteq Item
  BY DEF Item
<1> QED
  BY <1>1, <1>2, <1>3

-----------------------------------------------------------------------------
(* Flushing *)

\* A task that has been sent, and its request.
LEMMA SentTask ==
  ASSUME NEW T, NEW e \in TaskOn(T)
  PROVE  /\ [e EXCEPT !.sent = TRUE] \in TaskOn(T)
         /\ [e EXCEPT !.sent = TRUE].op = e.op /\ [e EXCEPT !.sent = TRUE].arg = e.arg
         /\ [e EXCEPT !.sent = TRUE].sub = e.sub /\ [e EXCEPT !.sent = TRUE].sent
         /\ e.sent => [e EXCEPT !.sent = TRUE] = e
         /\ [m |-> e.op, arg |-> e.arg] \in ToServerOn(T)
BY DEF TaskOn, ToServerOn

\* Marking all tasks as sent.
LEMMA AllSentIs ==
  ASSUME NEW T, NEW s \in Seq(TaskOn(T))
  PROVE  /\ AllSent(s) \in Seq(TaskOn(T)) /\ Len(AllSent(s)) = Len(s)
         /\ \A i \in 1..Len(s) : /\ AllSent(s)[i].op = s[i].op /\ AllSent(s)[i].arg = s[i].arg
                                 /\ AllSent(s)[i].sub = s[i].sub /\ AllSent(s)[i].sent
                                 /\ s[i].sent => AllSent(s)[i] = s[i]
<1> DEFINE Mark(e) == [e EXCEPT !.sent = TRUE]
<1>1. ASSUME NEW e \in TaskOn(T)
      PROVE  /\ Mark(e) \in TaskOn(T) /\ Mark(e).op = e.op /\ Mark(e).arg = e.arg
             /\ Mark(e).sub = e.sub /\ Mark(e).sent /\ (e.sent => Mark(e) = e)
  BY SentTask
<1>2. AllSent(s) = [i \in 1..Len(s) |-> Mark(s[i])]
  BY DEF AllSent
<1> HIDE DEF Mark
<1>3. \A i \in 1..Len(s) : s[i] \in TaskOn(T) /\ AllSent(s)[i] = Mark(s[i])
  BY <1>2
<1>4. AllSent(s) \in Seq(TaskOn(T)) /\ Len(AllSent(s)) = Len(s)
  BY <1>1, <1>2
<1> QED
  BY <1>1, <1>3, <1>4

\* The requests of tasks.
LEMMA RequestsAre ==
  ASSUME NEW T, NEW s \in Seq(TaskOn(T))
  PROVE  /\ Requests(s) \in Seq(ToServerOn(T)) /\ Len(Requests(s)) = Len(s)
         /\ \A i \in 1..Len(s) : Requests(s)[i] = [m |-> s[i].op, arg |-> s[i].arg]
<1> DEFINE Ask(e) == [m |-> e.op, arg |-> e.arg]
<1>1. \A e \in TaskOn(T) : Ask(e) \in ToServerOn(T)
  BY SentTask
<1>2. Requests(s) = [i \in 1..Len(s) |-> Ask(s[i])]
  BY DEF Requests
<1> HIDE DEF Ask
<1>3. Requests(s) \in Seq(ToServerOn(T)) /\ Len(Requests(s)) = Len(s)
  BY <1>1, <1>2
<1>4. \A i \in 1..Len(s) : Requests(s)[i] = Ask(s[i])
  BY <1>2
<1> QED
  BY <1>3, <1>4 DEF Ask

\* The tasks that are not sent are tasks.
LEMMA UnsentType ==
  ASSUME NEW T, NEW s \in Seq(TaskOn(T))
  PROVE  Unsent(s) \in Seq(TaskOn(T))
BY FilterType DEF Unsent

\* Marking subscriptions as open.
LEMMA MarkOpenType ==
  ASSUME NEW T, NEW cons, cons \subseteq RecordOn(T), Distinct(cons), NEW s
  PROVE  /\ MarkOpen(cons, s) \subseteq RecordOn(T) /\ Distinct(MarkOpen(cons, s))
         /\ \A c \in MarkOpen(cons, s) : \E d \in cons : c.tag = d.tag /\ c.sub = d.sub
         /\ \A d \in cons : \E c \in MarkOpen(cons, s) : c.tag = d.tag /\ c.sub = d.sub
<1> DEFINE Mark(c) == [c EXCEPT !.state = IF c.tag \in DueTags(s) THEN "open" ELSE @]
<1>1. ASSUME NEW c \in RecordOn(T)
      PROVE  Mark(c) \in RecordOn(T) /\ Mark(c).tag = c.tag /\ Mark(c).sub = c.sub
  BY DEF RecordOn
<1>2. MarkOpen(cons, s) = {Mark(c) : c \in cons}
  BY DEF MarkOpen
<1> HIDE DEF Mark
<1> QED
  BY <1>1, <1>2 DEF Distinct

\* What is written has the type of messages.
LEMMA WriteType ==
  ASSUME NEW T, toServer \in Seq(ToServerOn(T)), NEW msgs \in Seq(ToServerOn(T)), Write(msgs)
  PROVE  toServer' \in Seq(ToServerOn(T))
BY DEF Write

\* A flush leaves everything in its domain, whatever is flushed.
LEMMA FlushTypes ==
  ASSUME NEW T, toServer \in Seq(ToServerOn(T)),
         NEW st, NEW reg \in BOOLEAN, NEW cons, cons \subseteq RecordOn(T), Distinct(cons),
         NEW entries \in Seq(TaskOn(T)), NEW before \in Seq(ToServerOn(T)),
         Flush(st, reg, cons, entries, before)
  PROVE  /\ tasks' \in Seq(TaskOn(T)) /\ toServer' \in Seq(ToServerOn(T))
         /\ consumers' \subseteq RecordOn(T) /\ Distinct(consumers')
         /\ registered' \in BOOLEAN
<1>1. CASE st = "open"
  <2> DEFINE asked == Requests(Unsent(entries))
  <2>1. /\ tasks' = AllSent(entries) /\ consumers' = MarkOpen(cons, entries)
        /\ registered' = (reg /\ ~Deletes(entries)) /\ Write(before \o asked)
    BY <1>1 DEF Flush
  <2>2. AllSent(entries) \in Seq(TaskOn(T))
    BY AllSentIs
  <2>3. MarkOpen(cons, entries) \subseteq RecordOn(T) /\ Distinct(MarkOpen(cons, entries))
    BY MarkOpenType
  <2>4. asked \in Seq(ToServerOn(T))
    BY UnsentType, RequestsAre
  <2> HIDE DEF asked
  <2>5. before \o asked \in Seq(ToServerOn(T))
    BY <2>4
  <2>6. toServer' \in Seq(ToServerOn(T))
    BY <2>1, <2>5, WriteType
  <2>7. registered' \in BOOLEAN
    BY <2>1
  <2> QED
    BY <2>1, <2>2, <2>3, <2>6, <2>7
<1>2. CASE st # "open"
  <2>1. /\ tasks' = entries /\ consumers' = cons /\ registered' = reg /\ Write(before)
    BY <1>2 DEF Flush
  <2>2. toServer' \in Seq(ToServerOn(T))
    BY <2>1, WriteType
  <2> QED
    BY <2>1, <2>2
<1> QED
  BY <1>1, <1>2

\* Pushing a task.
LEMMA PushTypes ==
  ASSUME NEW T, toServer \in Seq(ToServerOn(T)), tasks \in Seq(TaskOn(T)),
         registered \in BOOLEAN, NEW cons, cons \subseteq RecordOn(T), Distinct(cons),
         NEW task \in TaskOn(T), TaskPush(task, cons)
  PROVE  /\ tasks' \in Seq(TaskOn(T)) /\ toServer' \in Seq(ToServerOn(T))
         /\ consumers' \subseteq RecordOn(T) /\ Distinct(consumers')
         /\ registered' \in BOOLEAN
<1>1. Append(tasks, task) \in Seq(TaskOn(T)) /\ <<>> \in Seq(ToServerOn(T))
  OBVIOUS
<1> QED
  BY <1>1, FlushTypes DEF TaskPush

\* The messages that are written by themselves.
LEMMA MethodTypes ==
  ASSUME NEW T
  PROVE  /\ \A m \in {"channelOpen", "declare", "delete", "close", "closeOk"} :
              Method(m, None) \in Seq(ToServerOn(T))
         /\ \A m \in {"bind", "unbind"} : \A k \in Key : Method(m, k) \in Seq(ToServerOn(T))
         /\ \A m \in {"channelOpenOk", "declareOk", "bindOk", "unbindOk", "deleteOk",
                      "basicCancel", "close", "closeOk"} :
              Method(m, None) \in Seq(ToClientOn(T))
         /\ \A m \in {"consumeOk", "cancelOk"} : \A t \in T :
              Method(m, t) \in Seq(ToClientOn(T))
BY DEF Method, ToServerOn, ToClientOn

\* When the tags stay the same.
LEMMA SameTags ==
  ASSUME nextTag' = nextTag, Plain',
         Typed(Tag, tasks', toServer', toClient', consumers', known', srvConsumers')
  PROVE  TypeOK'
BY TypePartsNext DEF Tag

\* Nothing happens to the bindings.
LEMMA SameBindings ==
  ASSUME FiniteBindings, bindings' = bindings
  PROVE  FiniteBindings'
BY DEF FiniteBindings

-----------------------------------------------------------------------------
(* The calls of the application keep the types *)

\* Initially.
LEMMA InitTypes ==
  ASSUME Init
  PROVE  TypeInv
<1>1. TypeOK
  <2>1. Method("channelOpen", None) \in Seq(ToServerOn(Tag))
    BY MethodTypes
  <2>2. toServer \in Seq(ToServerOn(Tag)) /\ tasks \in Seq(TaskOn(Tag))
        /\ toClient \in Seq(ToClientOn(Tag))
    BY <2>1 DEF Init, Method
  <2>3. Typed(Tag, tasks, toServer, toClient, consumers, known, srvConsumers)
    BY <2>2 DEF Init, Typed, Distinct
  <2>4. Plain
    <3>1. options \in OptionRecords
      BY OptionsAssumption DEF Init
    <3>2. options.noDeclare \in BOOLEAN
      BY <3>1 DEF OptionRecords
    <3>3. exists \in BOOLEAN
      BY <3>2, Zenon DEF Init
    <3>4. losses \in 0..MaxLosses /\ calls \in 0..MaxCalls
      BY BoundsAssumption DEF Init
    <3>5. /\ options \in Options /\ bindings \in [Key -> Nat] /\ nextTag \in Nat \ {0}
          /\ state = "closed" /\ bindCallback \in Key \cup {None} /\ srv = "closed"
          /\ active \in [Sub -> {"idle", "asked", "stopped"}]
          /\ srvBindings = {} /\ wanted = {} /\ incidents = {}
      BY DEF Init
    <3>6. tracked \in BOOLEAN /\ registered \in BOOLEAN /\ link \in BOOLEAN
      BY DEF Init
    <3> QED
      BY <3>3, <3>4, <3>5, <3>6 DEF Plain
  <2> QED
    BY <2>3, <2>4, TypeParts
<1>2. FiniteBindings
  <2>1. {k \in Key : bindings[k] > 0} = {}
    BY DEF Init
  <2> QED
    BY <2>1, FS_EmptySet DEF FiniteBindings
<1> QED
  BY <1>1, <1>2 DEF TypeInv

\* The calls are counted.
LEMMA CallsType ==
  ASSUME calls \in 0..MaxCalls, Calls
  PROVE  calls' \in 0..MaxCalls
BY BoundsAssumption DEF Calls

\* bind().
LEMMA BindTypes ==
  ASSUME TypeInv, NEW k \in Key, NEW callback \in BOOLEAN, Bind(k, callback)
  PROVE  TypeInv'
<1>1. Plain /\ Typed(Tag, tasks, toServer, toClient, consumers, known, srvConsumers)
  BY TypeParts DEF TypeInv
<1>2. toServer' \in Seq(ToServerOn(Tag))
  <2>1. Method("bind", k) \in Seq(ToServerOn(Tag)) /\ toServer \in Seq(ToServerOn(Tag))
    BY <1>1, MethodTypes DEF Typed
  <2> QED
    BY <2>1, WriteType DEF Bind
<1>3. Typed(Tag, tasks', toServer', toClient', consumers', known', srvConsumers')
  BY <1>1, <1>2 DEF Bind, Typed, consumeVars, brokerVars
<1>4. Plain'
  <2>1. calls' \in 0..MaxCalls
    BY <1>1, CallsType DEF Bind, Plain
  <2>2. bindings' \in [Key -> Nat]
    <3>1. bindings \in [Key -> Nat]
      BY <1>1 DEF Plain
    <3>2. bindings' = [bindings EXCEPT ![k] = bindings[k] + 1]
      BY Zenon DEF Bind
    <3> QED
      BY <3>1, <3>2
  <2>4. bindCallback' \in Key \cup {None}
    <3>1. bindCallback' = k \/ bindCallback' = bindCallback
      BY Zenon DEF Bind
    <3> QED
      BY <1>1, <3>1 DEF Plain
  <2>3. wanted' \subseteq Key
    BY <1>1 DEF Bind, Plain
  <2> QED
    BY <1>1, <2>1, <2>2, <2>3, <2>4 DEF Bind, Plain, channelVars, consumeVars, linkVars, brokerVars
<1>5. TypeOK'
  BY <1>3, <1>4, SameTags DEF Bind, consumeVars
<1>6. FiniteBindings'
  <2> DEFINE B == {j \in Key : bindings[j] > 0}
             C == {j \in Key : bindings'[j] > 0}
  <2>1. C \subseteq B \cup {k}
    BY <1>1 DEF Bind, Plain
  <2>2. IsFiniteSet(B)
    BY DEF TypeInv, FiniteBindings
  <2> HIDE DEF B, C
  <2>3. IsFiniteSet(B \cup {k})
    BY <2>2, FS_AddElement
  <2>4. IsFiniteSet(C)
    BY <2>1, <2>3, FS_Subset
  <2> QED
    BY <2>4 DEF C, FiniteBindings
<1> QED
  BY <1>5, <1>6 DEF TypeInv

\* unbind().
LEMMA UnbindTypes ==
  ASSUME TypeInv, NEW k \in Key, Unbind(k)
  PROVE  TypeInv'
<1>1. Plain /\ Typed(Tag, tasks, toServer, toClient, consumers, known, srvConsumers)
  BY TypeParts DEF TypeInv
<1>2. /\ tasks' \in Seq(TaskOn(Tag)) /\ toServer' \in Seq(ToServerOn(Tag))
      /\ consumers' \subseteq RecordOn(Tag) /\ Distinct(consumers')
      /\ registered' \in BOOLEAN
  <2>1. NewTask("unbind", k, None) \in TaskOn(Tag)
    BY DEF NewTask, TaskOn
  <2> QED
    BY <1>1, <2>1, PushTypes DEF Unbind, Typed, Plain
<1>3. Typed(Tag, tasks', toServer', toClient', consumers', known', srvConsumers')
  BY <1>1, <1>2 DEF Unbind, Typed, brokerVars
<1>0. bindings' \in [Key -> Nat] /\ \A j \in Key : bindings'[j] > 0 => bindings[j] > 0
  <2>1. bindings \in [Key -> Nat]
    BY <1>1 DEF Plain
  <2>2. bindings' = [j \in Key |-> IF j = k THEN (IF bindings[k] = 0 THEN 0 ELSE bindings[k] - 1)
                                           ELSE bindings[j]]
    BY <2>1 DEF Unbind
  <2> QED
    BY <2>1, <2>2
<1>4. Plain'
  <2>1. calls' \in 0..MaxCalls
    BY <1>1, CallsType DEF Unbind, Plain
  <2>2. wanted' \subseteq Key
    BY <1>1 DEF Unbind, Plain
  <2> QED
    BY <1>0, <1>1, <1>2, <2>1, <2>2 DEF Unbind, Plain, linkVars, brokerVars
<1>5. TypeOK'
  BY <1>3, <1>4, SameTags DEF Unbind
<1>6. FiniteBindings'
  <2> DEFINE B == {j \in Key : bindings[j] > 0}
             C == {j \in Key : bindings'[j] > 0}
  <2>1. C \subseteq B
    BY <1>0
  <2>2. IsFiniteSet(B)
    BY DEF TypeInv, FiniteBindings
  <2> HIDE DEF B, C
  <2>3. IsFiniteSet(C)
    BY <2>1, <2>2, FS_Subset
  <2> QED
    BY <2>3 DEF C, FiniteBindings
<1> QED
  BY <1>5, <1>6 DEF TypeInv

\* subscribe().
LEMMA SubscribeTypes ==
  ASSUME TypeInv, NEW s \in Sub, Subscribe(s)
  PROVE  TypeInv'
<1> DEFINE T == 1..(nextTag' - 1)
           record == [tag |-> nextTag, sub |-> s, state |-> "opening"]
           cons == consumers \cup {record}
           task == NewTask("consume", nextTag, s)
<1>1. Plain /\ Typed(Tag, tasks, toServer, toClient, consumers, known, srvConsumers)
  BY TypeParts DEF TypeInv
<1>2. nextTag' = nextTag + 1 /\ nextTag \in Nat \ {0} /\ TaskPush(task, cons)
  BY <1>1 DEF Subscribe, Plain
<1>3. Tag \subseteq T /\ nextTag \in T /\ nextTag \notin Tag
  BY <1>2 DEF Tag
<1> HIDE DEF T
<1>4. record \in RecordOn(T) /\ task \in TaskOn(T)
  BY <1>3 DEF RecordOn, NewTask, TaskOn
<1>5. /\ TaskOn(Tag) \subseteq TaskOn(T) /\ ToServerOn(Tag) \subseteq ToServerOn(T)
      /\ ToClientOn(Tag) \subseteq ToClientOn(T) /\ RecordOn(Tag) \subseteq RecordOn(T)
      /\ \A w \in Seq(TaskOn(Tag)) : w \in Seq(TaskOn(T))
      /\ \A w \in Seq(ToServerOn(Tag)) : w \in Seq(ToServerOn(T))
      /\ \A w \in Seq(ToClientOn(Tag)) : w \in Seq(ToClientOn(T))
  BY <1>3, TypesGrow
<1>6. /\ tasks \in Seq(TaskOn(T)) /\ toServer \in Seq(ToServerOn(T))
      /\ toClient \in Seq(ToClientOn(T)) /\ consumers \subseteq RecordOn(T)
      /\ registered \in BOOLEAN
  BY <1>1, <1>5 DEF Typed, Plain
<1>7. cons \subseteq RecordOn(T) /\ Distinct(cons)
  <2>1. cons \subseteq RecordOn(T)
    BY <1>4, <1>6
  <2>2. \A c \in consumers : c.tag # record.tag
    BY <1>1, <1>3 DEF Typed, RecordOn
  <2>3. Distinct(consumers)
    BY <1>1 DEF Typed
  <2> QED
    BY <2>1, <2>2, <2>3 DEF Distinct
<1> HIDE DEF cons, task, record
<1>8. /\ tasks' \in Seq(TaskOn(T)) /\ toServer' \in Seq(ToServerOn(T))
      /\ consumers' \subseteq RecordOn(T) /\ Distinct(consumers')
      /\ registered' \in BOOLEAN
  BY <1>2, <1>4, <1>6, <1>7, PushTypes
<1>9. Typed(T, tasks', toServer', toClient', consumers', known', srvConsumers')
  <2>1. toClient' \in Seq(ToClientOn(T))
    BY <1>6 DEF Subscribe
  <2>2. known' \in [Sub -> {0} \cup T]
    BY <1>1, <1>3 DEF Subscribe, Typed
  <2>3. srvConsumers' \subseteq T
    BY <1>1, <1>3 DEF Subscribe, Typed, brokerVars
  <2> QED
    BY <1>8, <2>1, <2>2, <2>3 DEF Typed
<1>10. Plain'
  <2>1. calls' \in 0..MaxCalls
    BY <1>1, CallsType DEF Subscribe, Plain
  <2>2. active' \in [Sub -> {"idle", "asked", "stopped"}]
    <3>1. active \in [Sub -> {"idle", "asked", "stopped"}] /\ active' = [active EXCEPT ![s] = "asked"]
      BY <1>1 DEF Plain, Subscribe
    <3> QED
      BY <3>1
  <2>3. nextTag' \in Nat \ {0}
    BY <1>2
  <2> QED
    BY <1>1, <1>8, <2>1, <2>2, <2>3 DEF Subscribe, Plain, bindVars, linkVars, brokerVars
<1>11. TypeOK'
  BY <1>9, <1>10, TypePartsNext DEF T
<1>12. FiniteBindings'
  BY SameBindings DEF TypeInv, Subscribe, bindVars
<1> QED
  BY <1>11, <1>12 DEF TypeInv

\* Whatever flushes tasks, and gives out no tag.
LEMMA TypesAfterFlush ==
  ASSUME TypeInv,
         NEW st, NEW reg \in BOOLEAN, NEW cons, cons \subseteq RecordOn(Tag), Distinct(cons),
         NEW entries \in Seq(TaskOn(Tag)), NEW before \in Seq(ToServerOn(Tag)),
         Flush(st, reg, cons, entries, before),
         nextTag' = nextTag, bindings' = bindings, srvConsumers' = srvConsumers,
         toClient' \in Seq(ToClientOn(Tag)), known' \in [Sub -> {0} \cup Tag],
         registered' \in BOOLEAN => Plain'
  PROVE  TypeInv'
<1>1. Plain /\ Typed(Tag, tasks, toServer, toClient, consumers, known, srvConsumers)
  BY TypeParts DEF TypeInv
<1>2. /\ tasks' \in Seq(TaskOn(Tag)) /\ toServer' \in Seq(ToServerOn(Tag))
      /\ consumers' \subseteq RecordOn(Tag) /\ Distinct(consumers')
      /\ registered' \in BOOLEAN
  BY <1>1, FlushTypes DEF Typed
<1>3. Typed(Tag, tasks', toServer', toClient', consumers', known', srvConsumers')
  BY <1>1, <1>2 DEF Typed
<1>4. TypeOK'
  BY <1>2, <1>3, SameTags
<1> QED
  BY <1>4, SameBindings DEF TypeInv

\* The same, when a task is pushed.
LEMMA TypesAfterPush ==
  ASSUME TypeInv, NEW task \in TaskOn(Tag), TaskPush(task, consumers),
         nextTag' = nextTag, bindings' = bindings, srvConsumers' = srvConsumers,
         toClient' = toClient, known' = known,
         registered' \in BOOLEAN => Plain'
  PROVE  TypeInv'
<1>1. Plain /\ Typed(Tag, tasks, toServer, toClient, consumers, known, srvConsumers)
  BY TypeParts DEF TypeInv
<1>2. /\ registered \in BOOLEAN /\ consumers \subseteq RecordOn(Tag) /\ Distinct(consumers)
      /\ toClient' \in Seq(ToClientOn(Tag)) /\ known' \in [Sub -> {0} \cup Tag]
      /\ tasks \in Seq(TaskOn(Tag))
  BY <1>1 DEF Plain, Typed
<1>4. Append(tasks, task) \in Seq(TaskOn(Tag)) /\ <<>> \in Seq(ToServerOn(Tag))
  BY <1>2
<1>3. Flush(state, registered, consumers, Append(tasks, task), <<>>)
  BY DEF TaskPush
<1> QED
  BY <1>2, <1>3, <1>4, TypesAfterFlush

\* unsubscribe().
LEMMA UnsubscribeTypes ==
  ASSUME TypeInv, NEW s \in Sub, Unsubscribe(s)
  PROVE  TypeInv'
<1>1. Plain /\ Typed(Tag, tasks, toServer, toClient, consumers, known, srvConsumers)
  BY TypeParts DEF TypeInv
<1>2. NewTask("cancel", known[s], None) \in TaskOn(Tag)
  <2>1. known[s] \in Tag
    BY <1>1 DEF Unsubscribe, Typed
  <2> QED
    BY <2>1 DEF NewTask, TaskOn
<1>3. calls' \in 0..MaxCalls
  BY <1>1, CallsType DEF Unsubscribe, Plain
<1>4. active' \in [Sub -> {"idle", "asked", "stopped"}]
  <2>1. active \in [Sub -> {"idle", "asked", "stopped"}] /\ active' = [active EXCEPT ![s] = "stopped"]
    BY <1>1 DEF Plain, Unsubscribe
  <2> QED
    BY <2>1
<1>5. incidents' = incidents \/ incidents' = incidents \cup {"misdirected"}
  BY DEF Unsubscribe
<1>6. registered' \in BOOLEAN => Plain'
  BY <1>1, <1>3, <1>4, <1>5 DEF Unsubscribe, Plain, bindVars, linkVars, brokerVars
<1> QED
  BY <1>2, <1>6, TypesAfterPush DEF Unsubscribe, bindVars, brokerVars

\* destroy().
LEMMA DestroyTypes ==
  ASSUME TypeInv, Destroy
  PROVE  TypeInv'
<1>1. Plain /\ Typed(Tag, tasks, toServer, toClient, consumers, known, srvConsumers)
  BY TypeParts DEF TypeInv
<1>2. NewTask("delete", None, None) \in TaskOn(Tag)
  BY DEF NewTask, TaskOn
<1>3. calls' \in 0..MaxCalls
  BY <1>1, CallsType DEF Destroy, Plain
<1>4. registered' \in BOOLEAN => Plain'
  BY <1>1, <1>3 DEF Destroy, Plain, bindVars, linkVars, brokerVars
<1> QED
  BY <1>2, <1>4, TypesAfterPush DEF Destroy, bindVars, brokerVars

\* close().
LEMMA CloseTypes ==
  ASSUME TypeInv, Close
  PROVE  TypeInv'
<1>1. Plain /\ Typed(Tag, tasks, toServer, toClient, consumers, known, srvConsumers)
  BY TypeParts DEF TypeInv
<1>2. toServer' \in Seq(ToServerOn(Tag))
  <2>1. Method("close", None) \in Seq(ToServerOn(Tag)) /\ toServer \in Seq(ToServerOn(Tag))
    BY <1>1, MethodTypes DEF Typed
  <2> QED
    BY <2>1, WriteType DEF Close
<1>3. Typed(Tag, tasks', toServer', toClient', consumers', known', srvConsumers')
  BY <1>1, <1>2 DEF Close, Typed, consumeVars, brokerVars
<1>4. calls' \in 0..MaxCalls
  BY <1>1, CallsType DEF Close, Plain
<1>5. Plain'
  BY <1>1, <1>4 DEF Close, Plain, bindVars, consumeVars, linkVars, brokerVars
<1>6. TypeOK'
  BY <1>3, <1>5, SameTags DEF Close, consumeVars
<1> QED
  BY <1>6, SameBindings DEF TypeInv, Close, bindVars

-----------------------------------------------------------------------------
(* What is dispatched keeps the types *)

\* What has come.
LEMMA ReceiveTypes ==
  ASSUME TypeInv, NEW m, Receive(m)
  PROVE  /\ toClient \in Seq(ToClientOn(Tag)) /\ toClient # <<>>
         /\ toClient' \in Seq(ToClientOn(Tag)) /\ toClient' = Tail(toClient)
         /\ Head(toClient) \in ToClientOn(Tag) /\ Head(toClient).m = m
         /\ link /\ tracked
<1>1. toClient \in Seq(ToClientOn(Tag)) /\ toClient # <<>> /\ toClient' = Tail(toClient)
  BY TypeParts DEF TypeInv, Typed, Receive
<1>2. Head(toClient).m = m /\ link /\ tracked
  BY DEF Receive
<1> QED
  BY <1>1, <1>2

\* The tasks without one.
LEMMA WithoutTasks ==
  ASSUME NEW T, tasks \in Seq(TaskOn(T)), NEW i \in 1..Len(tasks)
  PROVE  Without(i) \in Seq(TaskOn(T))
<1> DEFINE s == tasks
           X == TaskOn(T)
<1>1. s \in Seq(X) /\ i \in 1..Len(s)
  OBVIOUS
<1>2. Without(i) = SubSeq(s, 1, i - 1) \o SubSeq(s, i + 1, Len(s))
  BY DEF Without
<1> HIDE DEF s, X
<1>3. PartsAround(X, s, i)
  BY <1>1, Around
<1>4. PICK a \in Seq(X), c \in Seq(X) : a = SubSeq(s, 1, i - 1) /\ c = SubSeq(s, i + 1, Len(s))
  BY <1>3, Zenon DEF PartsAround
<1> QED
  BY <1>2, <1>4 DEF X

\* Some of the records.
LEMMA FewerRecords ==
  ASSUME NEW T, NEW cons, cons \subseteq RecordOn(T), Distinct(cons), NEW left, left \subseteq cons
  PROVE  left \subseteq RecordOn(T) /\ Distinct(left)
BY DEF Distinct

\* What every dispatch starts from.
LEMMA ClientTypes ==
  ASSUME TypeInv
  PROVE  /\ Plain /\ registered \in BOOLEAN /\ tracked \in BOOLEAN
         /\ consumers \subseteq RecordOn(Tag) /\ Distinct(consumers)
         /\ tasks \in Seq(TaskOn(Tag)) /\ toServer \in Seq(ToServerOn(Tag))
         /\ toClient \in Seq(ToClientOn(Tag)) /\ known \in [Sub -> {0} \cup Tag]
         /\ srvConsumers \subseteq Tag /\ <<>> \in Seq(ToServerOn(Tag))
         /\ \A m \in {"channelOpen", "declare", "delete", "close", "closeOk"} :
              Method(m, None) \in Seq(ToServerOn(Tag))
<1>1. Plain /\ Typed(Tag, tasks, toServer, toClient, consumers, known, srvConsumers)
  BY TypeParts DEF TypeInv
<1>2. \A m \in {"channelOpen", "declare", "delete", "close", "closeOk"} :
        Method(m, None) \in Seq(ToServerOn(Tag))
  BY MethodTypes
<1>3. registered \in BOOLEAN /\ tracked \in BOOLEAN
  BY <1>1 DEF Plain
<1> QED
  BY <1>1, <1>2, <1>3 DEF Typed

\* channelOpenOk.
LEMMA OnChannelOpenOkTypes ==
  ASSUME TypeInv, OnChannelOpenOk
  PROVE  TypeInv'
<1>1. toClient' \in Seq(ToClientOn(Tag))
  BY ReceiveTypes DEF OnChannelOpenOk
<1>2. /\ nextTag' = nextTag /\ bindings' = bindings /\ srvConsumers' = srvConsumers
      /\ known' = known
  BY DEF OnChannelOpenOk, bindVars, brokerVars, appVars
<1>3. state' \in {"open", "declare queue"}
  BY Zenon DEF OnChannelOpenOk
<1>4. registered' \in BOOLEAN => Plain'
  BY ClientTypes, <1>3 DEF Plain, OnChannelOpenOk, bindVars, linkVars, brokerVars, appVars
<1>5. \/ Flush("open", registered, consumers, tasks, <<>>)
      \/ Flush("declare queue", registered, consumers, tasks, Method("declare", None))
  BY Zenon DEF OnChannelOpenOk
<1> QED
  BY <1>1, <1>2, <1>4, <1>5, ClientTypes, TypesAfterFlush

\* consumeOk.
LEMMA OnConsumeOkTypes ==
  ASSUME TypeInv, OnConsumeOk
  PROVE  TypeInv'
<1>1. /\ toClient' \in Seq(ToClientOn(Tag)) /\ Head(toClient) \in ToClientOn(Tag)
      /\ Head(toClient).m = "consumeOk"
  BY ReceiveTypes DEF OnConsumeOk
<1>2. nextTag' = nextTag /\ bindings' = bindings /\ srvConsumers' = srvConsumers
  BY DEF OnConsumeOk, bindVars, brokerVars
<1>3. registered' \in BOOLEAN => Plain'
  BY ClientTypes DEF Plain, OnConsumeOk, bindVars, linkVars, brokerVars
<1>4. Head(toClient).arg \in Tag
  BY <1>1 DEF ToClientOn
<1>5. CASE Awaiting("consume") = {}
  <2>1. Flush(state, registered, consumers, tasks, <<>>) /\ known' = known
    BY <1>5, Zenon DEF OnConsumeOk
  <2> QED
    BY <1>1, <1>2, <1>3, <2>1, ClientTypes, TypesAfterFlush
<1>6. CASE Awaiting("consume") # {}
  <2>1. PICK i \in Awaiting("consume") :
          /\ known' = IF tasks[i].sub = None THEN known
                      ELSE [known EXCEPT ![tasks[i].sub] = Head(toClient).arg]
          /\ Flush(state, registered, consumers, Without(i), <<>>)
    BY <1>6, Zenon DEF OnConsumeOk
  <2>2. i \in 1..Len(tasks)
    BY DEF Awaiting
  <2>3. Without(i) \in Seq(TaskOn(Tag))
    BY <2>2, ClientTypes, WithoutTasks
  <2>4. known' \in [Sub -> {0} \cup Tag]
    <3>1. known \in [Sub -> {0} \cup Tag]
      BY ClientTypes
    <3> DEFINE s == tasks[i].sub
               t == Head(toClient).arg
    <3>2. known' = IF s = None THEN known ELSE [known EXCEPT ![s] = t]
      BY <2>1
    <3> HIDE DEF s, t
    <3>3. t \in Tag
      BY <1>4 DEF t
    <3> QED
      BY <3>1, <3>2, <3>3
  <2> QED
    BY <1>1, <1>2, <1>3, <2>1, <2>3, <2>4, ClientTypes, TypesAfterFlush
<1> QED
  BY <1>5, <1>6

\* cancelOk.
LEMMA OnCancelOkTypes ==
  ASSUME TypeInv, OnCancelOk
  PROVE  TypeInv'
<1>1. toClient' \in Seq(ToClientOn(Tag))
  BY ReceiveTypes DEF OnCancelOk
<1>2. /\ nextTag' = nextTag /\ bindings' = bindings /\ srvConsumers' = srvConsumers
      /\ known' = known
  BY DEF OnCancelOk, bindVars, brokerVars, appVars
<1>3. PICK i \in Awaiting("cancel") :
        LET left == {c \in consumers : c.tag # tasks[i].arg} IN
        IF options.closeChannelOnUnsubscribe
          THEN /\ state' = "closing"
               /\ incidents' = incidents \cup {"close"}
               /\ Flush("closing", registered, left, Without(i), Method("close", None))
          ELSE /\ Flush(state, registered, left, Without(i), <<>>)
               /\ UNCHANGED <<state, incidents>>
  BY Zenon DEF OnCancelOk
<1> DEFINE left == {c \in consumers : c.tag # tasks[i].arg}
<1>4. i \in 1..Len(tasks)
  BY DEF Awaiting
<1>5. Without(i) \in Seq(TaskOn(Tag))
  BY <1>4, ClientTypes, WithoutTasks
<1>6. left \subseteq RecordOn(Tag) /\ Distinct(left)
  <2>1. left \subseteq consumers
    OBVIOUS
  <2> HIDE DEF left
  <2> QED
    BY <2>1, ClientTypes, FewerRecords
<1>7. \/ /\ state' = "closing" /\ incidents' = incidents \cup {"close"}
         /\ Flush("closing", registered, left, Without(i), Method("close", None))
      \/ /\ state' = state /\ incidents' = incidents
         /\ Flush(state, registered, left, Without(i), <<>>)
  BY <1>3, Zenon
<1> HIDE DEF left
<1>8. registered' \in BOOLEAN => Plain'
  BY <1>7, ClientTypes DEF Plain, OnCancelOk, bindVars, linkVars, brokerVars, appVars
<1> QED
  BY <1>1, <1>2, <1>5, <1>6, <1>7, <1>8, ClientTypes, TypesAfterFlush

\* unbindOk and deleteOk.
LEMMA OnReplyTypes ==
  ASSUME TypeInv, OnReply
  PROVE  TypeInv'
<1>1. PICK op \in {"unbind", "delete"} :
        /\ Receive(IF op = "unbind" THEN "unbindOk" ELSE "deleteOk")
        /\ \/ Awaiting(op) = {} /\ Flush(state, registered, consumers, tasks, <<>>)
           \/ \E i \in Awaiting(op) : Flush(state, registered, consumers, Without(i), <<>>)
  BY Zenon DEF OnReply
<1>2. toClient' \in Seq(ToClientOn(Tag))
  BY <1>1, ReceiveTypes
<1>3. PICK entries \in Seq(TaskOn(Tag)) : Flush(state, registered, consumers, entries, <<>>)
  <2>1. CASE Flush(state, registered, consumers, tasks, <<>>)
    BY <2>1, ClientTypes
  <2>2. ASSUME NEW i \in Awaiting(op), Flush(state, registered, consumers, Without(i), <<>>)
        PROVE  \E entries \in Seq(TaskOn(Tag)) : Flush(state, registered, consumers, entries, <<>>)
    <3>1. i \in 1..Len(tasks)
      BY DEF Awaiting
    <3>2. Without(i) \in Seq(TaskOn(Tag))
      BY <3>1, ClientTypes, WithoutTasks
    <3> QED
      BY <2>2, <3>2
  <2> QED
    BY <1>1, <2>1, <2>2
<1>4. /\ nextTag' = nextTag /\ bindings' = bindings /\ srvConsumers' = srvConsumers
      /\ known' = known
  BY DEF OnReply, bindVars, brokerVars, appVars
<1>5. registered' \in BOOLEAN => Plain'
  BY ClientTypes DEF Plain, OnReply, bindVars, linkVars, brokerVars, appVars
<1> QED
  BY <1>2, <1>3, <1>4, <1>5, ClientTypes, TypesAfterFlush

\* bindOk.
LEMMA OnBindOkTypes ==
  ASSUME TypeInv, OnBindOk
  PROVE  TypeInv'
<1>1. toClient' \in Seq(ToClientOn(Tag))
  BY ReceiveTypes DEF OnBindOk
<1>2. /\ nextTag' = nextTag /\ bindings' = bindings /\ srvConsumers' = srvConsumers
      /\ known' = known /\ Flush(state, registered, consumers, tasks, <<>>)
  BY DEF OnBindOk, brokerVars, appVars
<1>3. registered' \in BOOLEAN => Plain'
  BY ClientTypes DEF Plain, OnBindOk, linkVars, brokerVars, appVars
<1> QED
  BY <1>1, <1>2, <1>3, ClientTypes, TypesAfterFlush

\* basicCancel.
LEMMA OnBasicCancelTypes ==
  ASSUME TypeInv, OnBasicCancel
  PROVE  TypeInv'
<1>1. toClient' \in Seq(ToClientOn(Tag))
  BY ReceiveTypes DEF OnBasicCancel
<1>2. /\ nextTag' = nextTag /\ bindings' = bindings /\ srvConsumers' = srvConsumers
      /\ known' = known
      /\ Flush("closing", registered, consumers, tasks, Method("close", None))
  BY DEF OnBasicCancel, bindVars, brokerVars, appVars
<1>3. registered' \in BOOLEAN => Plain'
  BY ClientTypes DEF Plain, OnBasicCancel, bindVars, linkVars, brokerVars, appVars
<1> QED
  BY <1>1, <1>2, <1>3, ClientTypes, TypesAfterFlush

\* channelClose.
LEMMA OnChannelCloseTypes ==
  ASSUME TypeInv, OnChannelClose
  PROVE  TypeInv'
<1>1. toClient' \in Seq(ToClientOn(Tag))
  BY ReceiveTypes DEF OnChannelClose
<1>2. /\ nextTag' = nextTag /\ bindings' = bindings /\ srvConsumers' = srvConsumers
      /\ known' = known
      /\ Flush("closed", FALSE, consumers, tasks, Method("closeOk", None))
  BY DEF OnChannelClose, bindVars, brokerVars, appVars
<1>3. registered' \in BOOLEAN => Plain'
  BY ClientTypes DEF Plain, OnChannelClose, bindVars, linkVars, brokerVars, appVars
<1> QED
  BY <1>1, <1>2, <1>3, ClientTypes, TypesAfterFlush

\* channelCloseOk.
LEMMA OnChannelCloseOkTypes ==
  ASSUME TypeInv, OnChannelCloseOk
  PROVE  TypeInv'
<1>1. toClient' \in Seq(ToClientOn(Tag))
  BY ReceiveTypes DEF OnChannelCloseOk
<1>2. /\ nextTag' = nextTag /\ bindings' = bindings /\ srvConsumers' = srvConsumers
      /\ known' = known /\ Flush("closed", FALSE, consumers, tasks, <<>>)
  BY DEF OnChannelCloseOk, bindVars, brokerVars, appVars
<1>3. registered' \in BOOLEAN => Plain'
  BY ClientTypes DEF Plain, OnChannelCloseOk, bindVars, linkVars, brokerVars, appVars
<1> QED
  BY <1>1, <1>2, <1>3, ClientTypes, TypesAfterFlush

\* The elements of a finite set in a row.
LEMMA InARow ==
  ASSUME NEW S, IsFiniteSet(S), NEW s \in SetToSeqs(S)
  PROVE  s \in Seq(S) /\ \A x \in S : \E i \in 1..Len(s) : s[i] = x
<1> DEFINE n == Cardinality(S)
           D == 1..n
<1>1. n \in Nat
  BY FS_CardinalityType
<1>2. s \in [D -> S] /\ \A i, j \in D : i # j => s[i] # s[j]
  BY DEF SetToSeqs
<1>3. IsFiniteSet(D) /\ Cardinality(D) = n
  BY <1>1, FS_Interval
<1>4. s \in Injection(D, S)
  BY <1>2 DEF Injection, IsInjective
<1>5. s \in Surjection(D, S)
  BY <1>3, <1>4, FS_Injection
<1>6. s \in Seq(S) /\ Len(s) = n
  BY <1>1, <1>2
<1> QED
  BY <1>5, <1>6 DEF Surjection

\* The new tags follow those that have been given out, one for each subscription.
LEMMA Renewals ==
  ASSUME TypeInv
  PROVE  /\ Resubscribed \subseteq Tag /\ Cardinality(Resubscribed) \in Nat
         /\ \A t \in Resubscribed :
              /\ NewTag(t) \in nextTag..(nextTag + Cardinality(Resubscribed) - 1)
              /\ \E c \in consumers : c.tag = t /\ c.state = "closed"
              /\ \A u \in Resubscribed : NewTag(t) = NewTag(u) => t = u
         /\ \A x \in nextTag..(nextTag + Cardinality(Resubscribed) - 1) :
              \E t \in Resubscribed : NewTag(t) = x
<1> DEFINE R == Resubscribed
           n == Cardinality(R)
           Below(t) == {u \in R : u < t}
           Rank(t) == Cardinality(Below(t))
<1>1. \A t \in R : \E c \in consumers : c.tag = t /\ c.state = "closed"
  BY DEF Resubscribed
<1>2. nextTag \in Nat /\ consumers \subseteq RecordOn(Tag)
  BY ClientTypes DEF Plain
<1>3. R \subseteq Tag
  BY <1>1, <1>2 DEF RecordOn
<1>4. \A t \in R : NewTag(t) = nextTag + Rank(t)
  BY DEF NewTag
<1>5. IsFiniteSet(Tag) /\ Tag \subseteq Nat
  BY <1>2, FS_Interval DEF Tag
<1> HIDE DEF R
<1>6. IsFiniteSet(R) /\ R \subseteq Nat
  BY <1>3, <1>5, FS_Subset
<1>7. n \in Nat
  BY <1>6, FS_CardinalityType
<1>8. ASSUME NEW t \in R PROVE IsFiniteSet(Below(t)) /\ Rank(t) \in 0..(n - 1)
  <2>1. Below(t) \subseteq R /\ Below(t) # R
    BY <1>6
  <2>2. IsFiniteSet(Below(t)) /\ Rank(t) <= n /\ Rank(t) # n
    BY <1>6, <2>1, FS_Subset
  <2>3. Rank(t) \in Nat
    <3> DEFINE B == Below(t)
    <3>1. IsFiniteSet(B)
      BY <2>2
    <3> HIDE DEF B
    <3>2. Cardinality(B) \in Nat
      BY <3>1, FS_CardinalityType
    <3> QED
      BY <3>2 DEF B
  <2> DEFINE r == Rank(t)
  <2>4. r \in Nat /\ r <= n /\ r # n
    BY <2>2, <2>3
  <2>5. r \in 0..(n - 1)
    <3> HIDE DEF r, n
    <3> QED
      BY <1>7, <2>4
  <2> QED
    BY <2>2, <2>5
<1>9. ASSUME NEW t \in R, NEW u \in R, t < u PROVE Rank(t) < Rank(u)
  <2>1. Below(t) \subseteq Below(u) /\ Below(t) # Below(u)
    <3>1. t \in Below(u) /\ t \notin Below(t)
      BY <1>6, <1>9
    <3>2. ASSUME NEW v \in R, v < t PROVE v < u
      BY <1>6, <1>9, <3>2
    <3> QED
      BY <3>1, <3>2
  <2>2. IsFiniteSet(Below(u))
    BY <1>8
  <2> HIDE DEF Below
  <2>3. Rank(t) <= Rank(u) /\ Rank(t) # Rank(u)
    BY <2>1, <2>2, FS_Subset
  <2>4. Rank(t) \in 0..(n - 1) /\ Rank(u) \in 0..(n - 1)
    BY <1>8
  <2> QED
    BY <1>7, <2>3, <2>4
<1> HIDE DEF Rank
<1>10. \A t, u \in R : Rank(t) = Rank(u) => t = u
  <2> SUFFICES ASSUME NEW t \in R, NEW u \in R, Rank(t) = Rank(u), t # u PROVE FALSE
    OBVIOUS
  <2>1. t < u \/ u < t
    BY <1>6
  <2>2. Rank(t) < Rank(u) \/ Rank(u) < Rank(t)
    BY <1>9, <2>1
  <2>3. Rank(t) \in 0..(n - 1) /\ Rank(u) \in 0..(n - 1)
    BY <1>8
  <2> QED
    BY <1>7, <2>2, <2>3
<1>11. \A y \in 0..(n - 1) : \E t \in R : Rank(t) = y
  <2> DEFINE f == [t \in R |-> Rank(t)]
             D == 0..(n - 1)
  <2>1. f \in [R -> D]
    BY <1>8
  <2>2. f \in Injection(R, D)
    BY <2>1, <1>10 DEF Injection, IsInjective
  <2>3. IsFiniteSet(D) /\ Cardinality(D) = n
    BY <1>7, FS_Interval
  <2> HIDE DEF f, D
  <2>4. f \in Surjection(R, D)
    BY <2>2, <2>3, FS_Injection
  <2> QED
    BY <2>4 DEF Surjection, f, D
<1> HIDE DEF n
<1>12. \A t \in R : NewTag(t) \in nextTag..(nextTag + n - 1)
  <2> SUFFICES ASSUME NEW t \in R PROVE NewTag(t) \in nextTag..(nextTag + n - 1)
    OBVIOUS
  <2> DEFINE r == Rank(t)
  <2>1. r \in 0..(n - 1) /\ NewTag(t) = nextTag + r
    BY <1>4, <1>8
  <2> HIDE DEF r
  <2> QED
    BY <1>2, <1>7, <2>1
<1>13. \A t, u \in R : NewTag(t) = NewTag(u) => t = u
  <2> SUFFICES ASSUME NEW t \in R, NEW u \in R, NewTag(t) = NewTag(u) PROVE t = u
    OBVIOUS
  <2> DEFINE r == Rank(t)
             q == Rank(u)
  <2>1. r \in 0..(n - 1) /\ q \in 0..(n - 1) /\ NewTag(t) = nextTag + r /\ NewTag(u) = nextTag + q
    BY <1>4, <1>8
  <2>2. r = q
    <3>1. nextTag + r = nextTag + q
      BY <2>1
    <3> HIDE DEF r, q
    <3>2. r \in Nat /\ q \in Nat
      BY <1>7, <2>1
    <3> QED
      BY <1>2, <3>1, <3>2
  <2> QED
    BY <1>10, <2>2
<1>14. \A x \in nextTag..(nextTag + n - 1) : \E t \in R : NewTag(t) = x
  <2> SUFFICES ASSUME NEW x \in nextTag..(nextTag + n - 1) PROVE \E t \in R : NewTag(t) = x
    OBVIOUS
  <2>1. x - nextTag \in 0..(n - 1)
    BY <1>2, <1>7
  <2>2. PICK t \in R : Rank(t) = x - nextTag
    BY <1>11, <2>1
  <2> QED
    BY <1>2, <1>4, <2>2
<1> QED
  BY <1>1, <1>3, <1>7, <1>12, <1>13, <1>14 DEF n, R

\* The tasks of the new consumers.
Renewing(n) ==
  [i \in 1..n |-> [op |-> "consume", arg |-> nextTag + i - 1, sub |-> None, sent |-> TRUE]]

\* They are sent, and about the new tags.
LEMMA RenewingTasks ==
  ASSUME nextTag \in Nat \ {0}, NEW n \in Nat
  PROVE  /\ Renewing(n) \in Seq(TaskOn(1..(nextTag + n - 1))) /\ Len(Renewing(n)) = n
         /\ \A i \in 1..n :
              /\ Renewing(n)[i].op = "consume" /\ Renewing(n)[i].arg = nextTag + i - 1
              /\ Renewing(n)[i].sub = None /\ Renewing(n)[i].sent
<1> DEFINE T == 1..(nextTag + n - 1)
           Task1(t) == [op |-> "consume", arg |-> t, sub |-> None, sent |-> TRUE]
<1>1. \A t \in T : /\ Task1(t) \in TaskOn(T)
                   /\ Task1(t).op = "consume" /\ Task1(t).arg = t
                   /\ Task1(t).sub = None /\ Task1(t).sent
  BY DEF TaskOn
<1>2. Renewing(n) = [i \in 1..n |-> Task1(nextTag + i - 1)]
  BY DEF Renewing
<1>3. \A i \in 1..n : nextTag + i - 1 \in T
  OBVIOUS
<1> DEFINE f == [i \in 1..n |-> Task1(nextTag + i - 1)]
<1>4. \A i \in 1..n : f[i] = Task1(nextTag + i - 1)
  OBVIOUS
<1> HIDE DEF Task1, T
<1>5. f \in Seq(TaskOn(T)) /\ Len(f) = n
  BY <1>1, <1>3
<1> HIDE DEF f
<1>6. Renewing(n) = f
  BY <1>2 DEF f
<1>7. \A i \in 1..n : /\ f[i].op = "consume" /\ f[i].arg = nextTag + i - 1
                      /\ f[i].sub = None /\ f[i].sent
  BY <1>1, <1>3, <1>4
<1> QED
  BY <1>5, <1>6, <1>7 DEF T

\* The consumers after they were renewed.
AfterRenewal == {c \in MarkOpen(consumers, tasks) : c.tag \notin Resubscribed} \cup Renewed

\* They are records with tags of their own.
LEMMA RenewedRecords ==
  ASSUME TypeInv, NEW T, Tag \subseteq T, \A t \in Resubscribed : NewTag(t) \in T
  PROVE  AfterRenewal \subseteq RecordOn(T) /\ Distinct(AfterRenewal)
<1> DEFINE n == Cardinality(Resubscribed)
           old == {c \in MarkOpen(consumers, tasks) : c.tag \notin Resubscribed}
<1>1. /\ nextTag \in Nat \ {0} /\ consumers \subseteq RecordOn(Tag) /\ Distinct(consumers)
      /\ tasks \in Seq(TaskOn(Tag))
  BY ClientTypes DEF Plain
<1>2. /\ Resubscribed \subseteq Tag /\ n \in Nat
      /\ \A t \in Resubscribed : NewTag(t) \in nextTag..(nextTag + n - 1)
      /\ \A t, u \in Resubscribed : NewTag(t) = NewTag(u) => t = u
  BY Renewals
<1> HIDE DEF n
<1>4. RecordOn(Tag) \subseteq RecordOn(T)
  BY TypesGrow
<1>5. MarkOpen(consumers, tasks) \subseteq RecordOn(Tag) /\ Distinct(MarkOpen(consumers, tasks))
  BY <1>1, MarkOpenType
<1>6. ASSUME NEW d \in Renewed
      PROVE  /\ d \in RecordOn(T) /\ d.tag \in nextTag..(nextTag + n - 1)
             /\ \E c \in consumers : /\ c.tag \in Resubscribed /\ d.tag = NewTag(c.tag)
                                     /\ d = [tag |-> NewTag(c.tag), sub |-> c.sub, state |-> "open"]
  <2>1. PICK c \in consumers : /\ c.tag \in Resubscribed
                               /\ d = [tag |-> NewTag(c.tag), sub |-> c.sub, state |-> "open"]
    BY DEF Renewed
  <2>2. d.tag = NewTag(c.tag) /\ NewTag(c.tag) \in nextTag..(nextTag + n - 1)
    BY <1>2, <2>1
  <2>3. c.sub \in Sub /\ NewTag(c.tag) \in T
    BY <1>1, <2>1 DEF RecordOn
  <2>4. d \in RecordOn(T)
    BY <2>1, <2>3 DEF RecordOn
  <2> QED
    BY <2>1, <2>2, <2>4
<1>7. ASSUME NEW d \in Renewed, NEW e \in Renewed, d.tag = e.tag PROVE d = e
  <2>1. PICK c \in consumers : /\ c.tag \in Resubscribed /\ d.tag = NewTag(c.tag)
                               /\ d = [tag |-> NewTag(c.tag), sub |-> c.sub, state |-> "open"]
    BY <1>6
  <2>2. PICK b \in consumers : /\ b.tag \in Resubscribed /\ e.tag = NewTag(b.tag)
                               /\ e = [tag |-> NewTag(b.tag), sub |-> b.sub, state |-> "open"]
    BY <1>6
  <2>3. c.tag = b.tag
    BY <1>2, <1>7, <2>1, <2>2
  <2>4. c = b
    BY <1>1, <2>3 DEF Distinct
  <2> QED
    BY <2>1, <2>2, <2>4
<1>8. ASSUME NEW d \in Renewed, NEW c \in old PROVE d.tag # c.tag
  <2>1. c.tag \in Tag
    BY <1>5 DEF RecordOn
  <2>2. d.tag \in nextTag..(nextTag + n - 1)
    BY <1>6
  <2> QED
    BY <1>1, <1>2, <2>1, <2>2 DEF Tag
<1>9. AfterRenewal = old \cup Renewed
  BY DEF AfterRenewal
<1>10. old \subseteq RecordOn(T) /\ Distinct(old)
  BY <1>4, <1>5 DEF Distinct
<1> HIDE DEF old
<1>11. AfterRenewal \subseteq RecordOn(T)
  BY <1>6, <1>9, <1>10
<1>12. Distinct(AfterRenewal)
  BY <1>7, <1>8, <1>9, <1>10 DEF Distinct
<1> QED
  BY <1>11, <1>12

\* What declareOk does, in terms of these.
LEMMA DeclareOkIs ==
  ASSUME TypeInv, OnDeclareOk
  PROVE  \E keys \in Seq(Key), n \in Nat, binds \in Seq(ToServerOn(Tag)) :
           /\ n = Cardinality(Resubscribed)
           /\ \A k \in Key : bindings[k] > 0 <=> \E i \in 1..Len(keys) : keys[i] = k
           /\ Len(binds) = Len(keys)
           /\ \A i \in 1..Len(keys) : binds[i] = [m |-> "bind", arg |-> keys[i]]
           /\ Write(binds \o Requests(Unsent(tasks)) \o Requests(Renewing(n)))
           /\ tasks' = AllSent(tasks) \o Renewing(n)
           /\ consumers' = AfterRenewal
           /\ nextTag' = nextTag + n
<1> DEFINE S == {k \in Key : bindings[k] > 0}
           n == Cardinality(Resubscribed)
           Binding(ks) == [i \in 1..Len(ks) |-> [m |-> "bind", arg |-> ks[i]]]
<1>1. n \in Nat
  BY Renewals
<1>2. PICK keys \in SetToSeqs(S) :
         /\ Write(Binding(keys) \o Requests(Unsent(tasks)) \o Requests(Renewing(n)))
         /\ tasks' = AllSent(tasks) \o Renewing(n)
  BY Zenon DEF OnDeclareOk, Renewing
<1>3. IsFiniteSet(S)
  BY DEF TypeInv, FiniteBindings
<1>4. S \subseteq Key /\ \A k \in Key : bindings[k] > 0 <=> k \in S
  OBVIOUS
<1> HIDE DEF S, n
<1>5. keys \in Seq(S) /\ \A k \in S : \E i \in 1..Len(keys) : keys[i] = k
  BY <1>3, InARow
<1>6. keys \in Seq(Key) /\ \A i \in 1..Len(keys) : keys[i] \in S
  BY <1>4, <1>5
<1>7. Binding(keys) \in Seq(ToServerOn(Tag)) /\ Len(Binding(keys)) = Len(keys)
  <2>1. \A k \in Key : [m |-> "bind", arg |-> k] \in ToServerOn(Tag)
    BY DEF ToServerOn
  <2> QED
    BY <1>6, <2>1
<1>8. \A i \in 1..Len(keys) : Binding(keys)[i] = [m |-> "bind", arg |-> keys[i]]
  OBVIOUS
<1>9. consumers' = AfterRenewal /\ nextTag' = nextTag + n
  BY DEF OnDeclareOk, AfterRenewal, n
<1>10. \A k \in Key : bindings[k] > 0 <=> \E i \in 1..Len(keys) : keys[i] = k
  BY <1>4, <1>5, <1>6
<1> HIDE DEF Binding
<1> QED
  BY <1>1, <1>2, <1>6, <1>7, <1>8, <1>9, <1>10 DEF n

\* declareOk.
LEMMA OnDeclareOkTypes ==
  ASSUME TypeInv, OnDeclareOk
  PROVE  TypeInv'
<1> DEFINE T == 1..(nextTag' - 1)
<1>1. PICK keys \in Seq(Key), n \in Nat, binds \in Seq(ToServerOn(Tag)) :
           /\ n = Cardinality(Resubscribed)
           /\ Write(binds \o Requests(Unsent(tasks)) \o Requests(Renewing(n)))
           /\ tasks' = AllSent(tasks) \o Renewing(n)
           /\ consumers' = AfterRenewal
           /\ nextTag' = nextTag + n
  <2>1. \E keys \in Seq(Key), n \in Nat, binds \in Seq(ToServerOn(Tag)) :
           /\ n = Cardinality(Resubscribed)
           /\ \A k \in Key : bindings[k] > 0 <=> \E i \in 1..Len(keys) : keys[i] = k
           /\ Len(binds) = Len(keys)
           /\ \A i \in 1..Len(keys) : binds[i] = [m |-> "bind", arg |-> keys[i]]
           /\ Write(binds \o Requests(Unsent(tasks)) \o Requests(Renewing(n)))
           /\ tasks' = AllSent(tasks) \o Renewing(n)
           /\ consumers' = AfterRenewal
           /\ nextTag' = nextTag + n
    BY DeclareOkIs
  <2> QED
    BY <2>1, Zenon
<1>2. nextTag \in Nat \ {0} /\ T = 1..(nextTag + n - 1)
  <2>1. nextTag \in Nat \ {0}
    BY ClientTypes DEF Plain
  <2>3. nextTag' = nextTag + n
    BY <1>1
  <2>2. nextTag' - 1 = nextTag + n - 1
    BY <2>1, <2>3
  <2> QED
    BY <2>1, <2>2
<1> HIDE DEF T
<1>3. Tag \subseteq T
  <2>1. 1..(nextTag - 1) \subseteq 1..(nextTag + n - 1)
    BY <1>2
  <2> QED
    BY <1>2, <2>1 DEF Tag
<1>4. /\ \A w \in Seq(TaskOn(Tag)) : w \in Seq(TaskOn(T))
      /\ \A w \in Seq(ToServerOn(Tag)) : w \in Seq(ToServerOn(T))
      /\ \A w \in Seq(ToClientOn(Tag)) : w \in Seq(ToClientOn(T))
  BY <1>3, TypesGrow
<1>5. /\ tasks \in Seq(TaskOn(T)) /\ toServer \in Seq(ToServerOn(T))
      /\ binds \in Seq(ToServerOn(T))
  BY <1>4, ClientTypes
<1>6. Renewing(n) \in Seq(TaskOn(T))
  BY <1>2, RenewingTasks
<1>7. tasks' \in Seq(TaskOn(T))
  <2>1. AllSent(tasks) \in Seq(TaskOn(T))
    BY <1>5, AllSentIs
  <2> QED
    BY <1>1, <1>6, <2>1
<1>8. toServer' \in Seq(ToServerOn(T))
  <2> DEFINE asked == Requests(Unsent(tasks))
             again == Requests(Renewing(n))
  <2>1. asked \in Seq(ToServerOn(T)) /\ again \in Seq(ToServerOn(T))
    BY <1>5, <1>6, UnsentType, RequestsAre
  <2>2. Write(binds \o asked \o again)
    BY <1>1
  <2> HIDE DEF asked, again
  <2>3. binds \o asked \o again \in Seq(ToServerOn(T))
    BY <1>5, <2>1
  <2> QED
    BY <1>5, <2>2, <2>3, WriteType
<1>9. consumers' \subseteq RecordOn(T) /\ Distinct(consumers')
  <2>1. \A t \in Resubscribed : NewTag(t) \in T
    BY <1>1, <1>2, Renewals
  <2> QED
    BY <1>1, <1>3, <2>1, RenewedRecords
<1>10. toClient' \in Seq(ToClientOn(T))
  <2>1. toClient' \in Seq(ToClientOn(Tag))
    BY ReceiveTypes DEF OnDeclareOk
  <2> QED
    BY <1>4, <2>1
<1>11. known' \in [Sub -> {0} \cup T]
  <2> DEFINE now(s) == IF known[s] \in Resubscribed THEN NewTag(known[s]) ELSE known[s]
  <2>1. \A t \in Resubscribed : NewTag(t) \in T
    BY <1>1, <1>2, Renewals
  <2>2. \A s \in Sub : known[s] \in {0} \cup T
    BY <1>3, ClientTypes
  <2>3. known' = [s \in Sub |-> now(s)]
    BY DEF OnDeclareOk
  <2>4. \A s \in Sub : now(s) \in {0} \cup T
    BY <2>1, <2>2
  <2> HIDE DEF now
  <2> QED
    BY <2>3, <2>4
<1>12. srvConsumers' \subseteq T
  BY <1>3, ClientTypes DEF OnDeclareOk, brokerVars
<1>13. \A k \in Key : bindings'[k] \in Nat /\ (bindings'[k] > 0 <=> bindings[k] > 0)
  <2>1. bindings \in [Key -> Nat]
    BY ClientTypes DEF Plain
  <2>2. bindings' = [k \in Key |-> IF bindings[k] > 0 THEN bindings[k] + 1 ELSE 0]
    BY DEF OnDeclareOk
  <2> QED
    BY <2>1, <2>2
<1>14. Plain'
  <2>1. bindings' \in [Key -> Nat]
    BY <1>13 DEF OnDeclareOk
  <2>2. registered' \in BOOLEAN /\ state' = "open"
    BY DEF OnDeclareOk
  <2>3. nextTag' \in Nat \ {0}
    BY <1>1, <1>2
  <2> QED
    BY <2>1, <2>2, <2>3, ClientTypes DEF OnDeclareOk, Plain, linkVars, brokerVars
<1>15. TypeOK'
  <2>1. Typed(T, tasks', toServer', toClient', consumers', known', srvConsumers')
    BY <1>7, <1>8, <1>9, <1>10, <1>11, <1>12 DEF Typed
  <2> QED
    BY <1>14, <2>1, TypePartsNext DEF T
<1>16. FiniteBindings'
  <2>1. {k \in Key : bindings'[k] > 0} = {k \in Key : bindings[k] > 0}
    BY <1>13
  <2> QED
    BY <2>1 DEF TypeInv, FiniteBindings
<1> QED
  BY <1>15, <1>16 DEF TypeInv

-----------------------------------------------------------------------------
(* The connection and the server keep the types *)

\* A connection that is lost.
LEMMA LoseChannelTypes ==
  ASSUME TypeInv, LoseChannel, consumers' \subseteq RecordOn(Tag), Distinct(consumers'),
         losses' \in 0..MaxLosses,
         \/ incidents' = incidents \cup LostRequests
         \/ incidents' = incidents \cup LostRequests \cup {}
         \/ incidents' = incidents \cup LostRequests \cup {"dropped"}
         \/ incidents' = incidents \cup LostRequests \cup {"userReconnect"}
  PROVE  TypeInv'
<1>1. LostRequests \subseteq {"cancelLost", "unbindLost"}
  BY DEF LostRequests
<1>2. /\ srv' = "closed" /\ srvConsumers' = {} /\ toServer' = <<>> /\ toClient' = <<>>
      /\ srvBindings' \subseteq srvBindings /\ exists' \in {exists, FALSE}
  BY DEF LoseChannel, ServerForgets
<1>3. state' \in {"closed", "declare queue", "open", "closing"}
  <2>1. state' = "closed" \/ state' = state
    BY Zenon DEF LoseChannel
  <2> QED
    BY <2>1, ClientTypes DEF Plain
<1>4. Plain'
  BY <1>1, <1>2, <1>3, ClientTypes DEF LoseChannel, Plain, bindVars, appVars
<1>5. Typed(Tag, tasks', toServer', toClient', consumers', known', srvConsumers')
  BY <1>2, ClientTypes DEF LoseChannel, Typed, appVars
<1>6. TypeOK'
  BY <1>4, <1>5, SameTags DEF LoseChannel
<1> QED
  BY <1>6, SameBindings DEF TypeInv, LoseChannel, bindVars

\* The subscriptions that are marked.
MarkClosed(cons) == {[c EXCEPT !.state = "closed"] : c \in cons}

\* They are closed, and otherwise what they were.
LEMMA ClosedRecords ==
  ASSUME NEW T, NEW cons, cons \subseteq RecordOn(T), Distinct(cons)
  PROVE  /\ MarkClosed(cons) \subseteq RecordOn(T) /\ Distinct(MarkClosed(cons))
         /\ \A c \in MarkClosed(cons) : /\ c.state = "closed"
                                        /\ \E d \in cons : c.tag = d.tag /\ c.sub = d.sub
         /\ \A d \in cons : \E c \in MarkClosed(cons) : c.tag = d.tag /\ c.sub = d.sub
<1> DEFINE Mark(c) == [c EXCEPT !.state = "closed"]
<1>1. ASSUME NEW c \in RecordOn(T)
      PROVE  /\ Mark(c) \in RecordOn(T) /\ Mark(c).tag = c.tag /\ Mark(c).sub = c.sub
             /\ Mark(c).state = "closed"
  BY DEF RecordOn
<1>2. MarkClosed(cons) = {Mark(c) : c \in cons}
  BY DEF MarkClosed
<1> HIDE DEF Mark
<1> QED
  BY <1>1, <1>2 DEF Distinct

\* The 'backoff' listener.
LEMMA EmitErrorTypes ==
  ASSUME TypeInv, NEW incident, incident \in {{}, {"dropped"}}, EmitError(incident),
         losses' \in 0..MaxLosses
  PROVE  TypeInv'
<1>1. consumers' \subseteq RecordOn(Tag) /\ Distinct(consumers')
  <2>1. CASE registered
    <3>1. consumers' = MarkClosed(consumers)
      BY <2>1, Zenon DEF EmitError, MarkClosed
    <3> QED
      BY <3>1, ClientTypes, ClosedRecords
  <2>2. CASE ~registered
    <3>1. consumers' = consumers
      BY <2>2, Zenon DEF EmitError
    <3> QED
      BY <3>1, ClientTypes
  <2> QED
    BY <2>1, <2>2
<1>2. LoseChannel /\ incidents' = incidents \cup LostRequests \cup incident
  BY DEF EmitError
<1> QED
  BY <1>1, <1>2, LoseChannelTypes

\* Connection errors, connection.reconnect() and what the server drops.
LEMMA LossTypes ==
  ASSUME TypeInv, LinkError \/ UserReconnect \/ SrvUnexpected
  PROVE  TypeInv'
<1>0. losses \in 0..MaxLosses
  BY ClientTypes DEF Plain
<1>1. CASE LinkError
  <2>0. losses < MaxLosses /\ losses' = losses + 1
    BY <1>1 DEF LinkError
  <2>1. losses' \in 0..MaxLosses
    BY <1>0, <2>0, BoundsAssumption
  <2> QED
    BY <1>1, <2>1, EmitErrorTypes DEF LinkError
<1>2. CASE UserReconnect
  <2>0. losses < MaxLosses /\ losses' = losses + 1
    BY <1>2 DEF UserReconnect
  <2>1. losses' \in 0..MaxLosses
    BY <1>0, <2>0, BoundsAssumption
  <2>2. consumers' = consumers /\ LoseChannel
        /\ incidents' = incidents \cup LostRequests \cup {"userReconnect"}
    BY <1>2 DEF UserReconnect
  <2> QED
    BY <2>1, <2>2, ClientTypes, LoseChannelTypes
<1>3. CASE SrvUnexpected
  <2>1. losses' \in 0..MaxLosses
    BY <1>0, <1>3 DEF SrvUnexpected
  <2> QED
    BY <1>3, <2>1, EmitErrorTypes DEF SrvUnexpected
<1> QED
  BY <1>1, <1>2, <1>3

\* The connection is back.
LEMMA LinkReadyTypes ==
  ASSUME TypeInv, LinkReady
  PROVE  TypeInv'
<1>1. toServer' \in Seq(ToServerOn(Tag))
  <2>1. toServer' = Method("channelOpen", None) \/ toServer' = <<>>
    BY Zenon DEF LinkReady
  <2> QED
    BY <2>1, ClientTypes
<1>2. Plain'
  BY ClientTypes DEF LinkReady, Plain, channelVars, bindVars, consumeVars, brokerVars, appVars
<1>3. Typed(Tag, tasks', toServer', toClient', consumers', known', srvConsumers')
  BY <1>1, ClientTypes DEF LinkReady, Typed, consumeVars, brokerVars, appVars
<1>4. TypeOK'
  BY <1>2, <1>3, SameTags DEF LinkReady, consumeVars
<1> QED
  BY <1>4, SameBindings DEF TypeInv, LinkReady, bindVars

\* What the server reads.
LEMMA ServerReadsTypes ==
  ASSUME TypeInv, NEW m, ServerReads(m)
  PROVE  /\ toServer \in Seq(ToServerOn(Tag)) /\ toServer # <<>>
         /\ toServer' \in Seq(ToServerOn(Tag)) /\ toServer' = Tail(toServer)
         /\ Head(toServer) \in ToServerOn(Tag) /\ Head(toServer).m = m
         /\ m \in {"bind", "unbind"} => Subject \in Key
         /\ m \in {"consume", "cancel"} => Subject \in Tag
         /\ link
<1>1. toServer \in Seq(ToServerOn(Tag)) /\ toServer # <<>> /\ toServer' = Tail(toServer)
  BY ClientTypes DEF ServerReads
<1>2. Head(toServer).m = m /\ link
  BY DEF ServerReads
<1>3. Head(toServer) \in ToServerOn(Tag) /\ toServer' \in Seq(ToServerOn(Tag))
  BY <1>1
<1>4. /\ m \in {"bind", "unbind"} => Subject \in Key
      /\ m \in {"consume", "cancel"} => Subject \in Tag
  BY <1>2, <1>3 DEF ToServerOn, Subject
<1> QED
  BY <1>1, <1>2, <1>3, <1>4

\* Whatever the server does to its own state and the wires.
LEMMA TypesAfterServer ==
  ASSUME TypeInv, UNCHANGED clientVars,
         toServer' \in Seq(ToServerOn(Tag)), toClient' \in Seq(ToClientOn(Tag)),
         srv' \in {"closed", "open", "refused"}, exists' \in BOOLEAN,
         srvBindings' \subseteq Key, srvConsumers' \subseteq Tag,
         incidents' \subseteq incidents \cup {"refuse", "deleted"}
  PROVE  TypeInv'
<1>1. Plain'
  BY ClientTypes DEF Plain, clientVars, channelVars, bindVars, consumeVars, linkVars, appVars
<1>2. Typed(Tag, tasks', toServer', toClient', consumers', known', srvConsumers')
  BY ClientTypes DEF Typed, clientVars, consumeVars, appVars
<1>3. TypeOK'
  BY <1>1, <1>2, SameTags DEF clientVars, consumeVars
<1> QED
  BY <1>3, SameBindings DEF TypeInv, clientVars, bindVars

\* The server's answers.
LEMMA AnswerTypes ==
  ASSUME TypeInv, NEW m, NEW arg, Answer(m, arg),
         \/ /\ m \in {"channelOpenOk", "declareOk", "bindOk", "unbindOk", "deleteOk",
                      "basicCancel", "close", "closeOk"}
            /\ arg = None
         \/ m \in {"consumeOk", "cancelOk"} /\ arg \in Tag
  PROVE  toClient' \in Seq(ToClientOn(Tag))
<1> DEFINE a == Method(m, arg)
<1>1. a \in Seq(ToClientOn(Tag))
  BY MethodTypes
<1>2. toClient' = toClient \o a
  BY DEF Answer
<1> HIDE DEF a
<1> QED
  BY <1>1, <1>2, ClientTypes

\* The steps of the server on the channel.
LEMMA ServerTypes ==
  ASSUME TypeInv, \/ SrvChannelOpen \/ SrvDeclare \/ SrvBind \/ SrvUnbind \/ SrvConsume
                  \/ SrvCancel \/ SrvDelete \/ SrvRefuse \/ SrvDiscard \/ SrvClose \/ SrvCloseOk
  PROVE  TypeInv'
<1>0. /\ srv \in {"closed", "open", "refused"} /\ exists \in BOOLEAN
      /\ srvBindings \subseteq Key /\ srvConsumers \subseteq Tag
      /\ toClient \in Seq(ToClientOn(Tag))
  BY ClientTypes DEF Plain
<1>1. \E m : ServerReads(m)
  BY Zenon DEF SrvChannelOpen, SrvDeclare, SrvBind, SrvUnbind, SrvConsume, SrvCancel,
         SrvDelete, SrvRefuse, SrvDiscard, SrvClose, SrvCloseOk
<1>2. toServer' \in Seq(ToServerOn(Tag)) /\ UNCHANGED clientVars
  BY <1>1, ServerReadsTypes DEF ServerReads
<1>3. CASE SrvChannelOpen
  BY <1>0, <1>2, <1>3, AnswerTypes, TypesAfterServer DEF SrvChannelOpen
<1>4. CASE SrvDeclare
  BY <1>0, <1>2, <1>4, AnswerTypes, TypesAfterServer DEF SrvDeclare
<1>5. CASE SrvBind
  <2>1. srvBindings' \subseteq Key
    <3>1. Subject \in Key
      BY <1>5, ServerReadsTypes DEF SrvBind
    <3> QED
      BY <1>0, <1>5, <3>1 DEF SrvBind
  <2> QED
    BY <1>0, <1>2, <1>5, <2>1, AnswerTypes, TypesAfterServer DEF SrvBind
<1>6. CASE SrvUnbind
  <2>1. srvBindings' \subseteq Key
    BY <1>0, <1>6 DEF SrvUnbind
  <2> QED
    BY <1>0, <1>2, <1>6, <2>1, AnswerTypes, TypesAfterServer DEF SrvUnbind
<1>7. CASE SrvConsume
  <2>0. Subject \in Tag
    BY <1>7, ServerReadsTypes DEF SrvConsume
  <2>1. srvConsumers' \subseteq Tag
    BY <1>0, <1>7, <2>0 DEF SrvConsume
  <2>2. toClient' \in Seq(ToClientOn(Tag))
    BY <1>7, <2>0, AnswerTypes DEF SrvConsume
  <2> QED
    BY <1>0, <1>2, <1>7, <2>1, <2>2, TypesAfterServer DEF SrvConsume
<1>8. CASE SrvCancel
  <2>0. Subject \in Tag
    BY <1>8, ServerReadsTypes DEF SrvCancel
  <2>1. srvConsumers' \subseteq Tag
    BY <1>0, <1>8 DEF SrvCancel
  <2>2. toClient' \in Seq(ToClientOn(Tag))
    BY <1>8, <2>0, AnswerTypes DEF SrvCancel
  <2> QED
    BY <1>0, <1>2, <1>8, <2>1, <2>2, TypesAfterServer DEF SrvCancel
<1>9. CASE SrvDelete
  BY <1>0, <1>2, <1>9, AnswerTypes, TypesAfterServer DEF SrvDelete
<1>10. CASE SrvRefuse
  BY <1>0, <1>2, <1>10, AnswerTypes, TypesAfterServer DEF SrvRefuse
<1>11. CASE SrvDiscard
  BY <1>0, <1>2, <1>11, TypesAfterServer DEF SrvDiscard, brokerVars
<1>12. CASE SrvClose
  <2>1. srv' \in {"closed", "open", "refused"}
    BY <1>0, <1>12, Zenon DEF SrvClose
  <2> QED
    BY <1>0, <1>2, <1>12, <2>1, AnswerTypes, TypesAfterServer DEF SrvClose
<1>13. CASE SrvCloseOk
  BY <1>0, <1>2, <1>13, TypesAfterServer DEF SrvCloseOk
<1> QED
  BY <1>1, <1>3, <1>4, <1>5, <1>6, <1>7, <1>8, <1>9, <1>10, <1>11, <1>12, <1>13

\* The queue is deleted by somebody else.
LEMMA QueueDeletedTypes ==
  ASSUME TypeInv, SrvQueueDeleted
  PROVE  TypeInv'
<1>1. PICK tags \in SetToSeqs(srvConsumers) :
        toClient' = toClient \o [i \in 1..Len(tags) |-> [m |-> "basicCancel", arg |-> None]]
  BY Zenon DEF SrvQueueDeleted
<1>2. IsFiniteSet(srvConsumers)
  <2>1. IsFiniteSet(Tag)
    <3>1. nextTag \in Nat
      BY ClientTypes DEF Plain
    <3> QED
      BY <3>1, FS_Interval DEF Tag
  <2> QED
    BY <2>1, ClientTypes, FS_Subset
<1>3. Len(tags) \in Nat
  BY <1>2, InARow
<1> DEFINE told == [i \in 1..Len(tags) |-> [m |-> "basicCancel", arg |-> None]]
<1>4. told \in Seq(ToClientOn(Tag))
  <2>1. [m |-> "basicCancel", arg |-> None] \in ToClientOn(Tag)
    BY DEF ToClientOn
  <2> QED
    BY <1>3, <2>1
<1> HIDE DEF told
<1>5. toClient' \in Seq(ToClientOn(Tag))
  BY <1>1, <1>4, ClientTypes DEF told
<1>6. srv \in {"closed", "open", "refused"}
  BY ClientTypes DEF Plain
<1> QED
  BY <1>5, <1>6, ClientTypes, TypesAfterServer DEF SrvQueueDeleted

\* Every step keeps the types.
LEMMA TypesKept ==
  ASSUME TypeInv, [Next]_vars
  PROVE  TypeInv'
<1>1. ASSUME NEW k \in Key, Unbind(k) PROVE TypeInv'
  BY <1>1, UnbindTypes
<1>2. ASSUME NEW k \in Key, NEW callback \in BOOLEAN, Bind(k, callback) PROVE TypeInv'
  BY <1>2, BindTypes
<1>3. ASSUME NEW s \in Sub, Subscribe(s) PROVE TypeInv'
  BY <1>3, SubscribeTypes
<1>4. ASSUME NEW s \in Sub, Unsubscribe(s) PROVE TypeInv'
  BY <1>4, UnsubscribeTypes
<1>5. CASE Destroy \/ Close
  BY <1>5, DestroyTypes, CloseTypes
<1>6. CASE ClientStep
  BY <1>6, OnChannelOpenOkTypes, OnDeclareOkTypes, OnConsumeOkTypes, OnCancelOkTypes, OnReplyTypes,
     OnBindOkTypes, OnBasicCancelTypes, OnChannelCloseTypes, OnChannelCloseOkTypes DEF ClientStep
<1>7. CASE LinkError \/ UserReconnect \/ LinkReady
  BY <1>7, LossTypes, LinkReadyTypes
<1>8. CASE ServerStep
  BY <1>8, ServerTypes, LossTypes DEF ServerStep
<1>9. CASE SrvQueueDeleted
  BY <1>9, QueueDeletedTypes
<1>10. CASE UNCHANGED vars
  <2>1. TypeOK'
    BY <1>10, TypeParts, TypePartsNext DEF TypeInv, vars, channelVars, bindVars, consumeVars,
       linkVars, brokerVars, appVars, Plain, Tag
  <2> QED
    BY <1>10, <2>1, SameBindings DEF TypeInv, vars, bindVars
<1> QED
  BY <1>1, <1>2, <1>3, <1>4, <1>5, <1>6, <1>7, <1>8, <1>9, <1>10 DEF Next

\* Every variable stays in its domain, and no consumer tag is used twice, whatever
\* the queue renews its consumers after.
THEOREM TypeCorrect == Spec => []TypeOK
<1>1. Init => TypeInv
  BY InitTypes
<1>2. TypeInv /\ [Next]_vars => TypeInv'
  BY TypesKept
<1>3. TypeInv => TypeOK
  BY DEF TypeInv
<1> QED
  BY <1>1, <1>2, <1>3, PTL DEF Spec

-----------------------------------------------------------------------------
(* Wires *)

\* A message is chosen by its method.
LEMMA NamedIs ==
  /\ \A e \in Message : \A m : e \in Named(m) <=> e.m = m
  /\ \A e \in Entry : \A op : e \in Queued(op) <=> e.op = op
  /\ \A w \in Seq(Message) : w \in Seq(Item)
  /\ \A s \in Seq(Entry) : s \in Seq(Item)
<1>1. \A e \in Message : \A m : e \in Named(m) <=> e.m = m
  BY DEF Message, Named
<1>2. \A e \in Entry : \A op : e \in Queued(op) <=> e.op = op
  BY DEF Entry, Queued
<1>3. Message \subseteq Item /\ Entry \subseteq Item
  BY DEF Item
<1> QED
  BY <1>1, <1>2, <1>3

\* An empty wire.
LEMMA WireEmpty ==
  /\ <<>> \in Seq(Message) /\ Ordered(<<>>)
  /\ \A m : Carried(<<>>, m) = <<>> /\ Absent(<<>>, m) /\ \A a : ~Carries(<<>>, m, a)
  /\ \A bound, k : Binds(<<>>, bound, k) <=> k \in bound
<1>1. \A m : Carried(<<>>, m) = <<>>
  BY ChosenEmpty DEF Carried
<1>2. Ordered(<<>>) /\ \A m : Absent(<<>>, m) /\ \A a : ~Carries(<<>>, m, a)
  BY DEF Ordered, Absent, Carries
<1>3. \A bound, k : Binds(<<>>, bound, k) <=> k \in bound
  <2>1. 1..Len(<<>>) = {}
    OBVIOUS
  <2> DEFINE w == <<>>
  <2>2. 1..Len(w) = {} /\ \A k : ~Carries(w, "unbind", k)
    BY <1>2, <2>1
  <2> HIDE DEF w
  <2>3. \A bound, k : Binds(w, bound, k) <=> k \in bound
    BY <2>2 DEF Binds
  <2> QED
    BY <2>3 DEF w
<1>4. <<>> \in Seq(Message)
  OBVIOUS
<1>5. \A m : Carried(<<>>, m) = <<>> /\ Absent(<<>>, m) /\ \A a : ~Carries(<<>>, m, a)
  BY <1>1, <1>2
<1> QED
  BY <1>2, <1>3, <1>4, <1>5, Zenon

\* What is carried, and when it is nothing.
LEMMA CarriedType ==
  ASSUME NEW w \in Seq(Message), NEW m
  PROVE  /\ Carried(w, m) \in Seq(Arg)
         /\ Carried(w, m) = <<>> <=> Absent(w, m)
         /\ \A i \in 1..Len(w) : w[i].m = m =>
              \E j \in 1..Len(Carried(w, m)) : Carried(w, m)[j] = w[i].arg
<1>1. w \in Seq(Item) /\ \A i \in 1..Len(w) : w[i] \in Message
  BY NamedIs
<1>2. Carried(w, m) \in Seq(Arg)
  BY <1>1, ChosenType DEF Carried
<1>3. Carried(w, m) = <<>> <=> \A i \in 1..Len(w) : w[i] \notin Named(m)
  BY <1>1, ChosenNone DEF Carried
<1>4. \A i \in 1..Len(w) : w[i] \in Named(m) <=> w[i].m = m
  BY <1>1, NamedIs
<1>5. ASSUME NEW i \in 1..Len(w), w[i].m = m
      PROVE  \E j \in 1..Len(Carried(w, m)) : Carried(w, m)[j] = w[i].arg
  <2>1. w[i] \in Named(m)
    BY <1>4, <1>5
  <2> QED
    BY <1>1, <2>1, ChosenMembers DEF Carried
<1> QED
  BY <1>2, <1>3, <1>4, <1>5 DEF Absent

\* One message more.
LEMMA WireAppend ==
  ASSUME NEW w \in Seq(Message), NEW e \in Message
  PROVE  /\ Append(w, e) \in Seq(Message)
         /\ \A m : /\ Carried(Append(w, e), m) =
                        IF e.m = m THEN Append(Carried(w, m), e.arg) ELSE Carried(w, m)
                   /\ Absent(Append(w, e), m) <=> Absent(w, m) /\ e.m # m
                   /\ \A a : Carries(Append(w, e), m, a) <=>
                               Carries(w, m, a) \/ (e.m = m /\ e.arg = a)
         /\ Ordered(w) /\ (e.m = "consume" => ~Carries(w, "cancel", e.arg))
              => Ordered(Append(w, e))
<1> DEFINE x == Append(w, e)
<1>1. x \in Seq(Message) /\ Len(x) = Len(w) + 1 /\ Len(w) \in Nat
      /\ x[Len(w) + 1] = e /\ \A i \in 1..Len(w) : x[i] = w[i]
  BY AppendProperties
<1>2. ASSUME NEW m PROVE Carried(x, m) = IF e.m = m THEN Append(Carried(w, m), e.arg)
                                                    ELSE Carried(w, m)
  <2>1. w \in Seq(Item) /\ e \in Item /\ (e \in Named(m) <=> e.m = m)
    BY NamedIs DEF Item
  <2> QED
    BY <2>1, ChosenAppend DEF Carried
<1> HIDE DEF x
<1>3. ASSUME NEW m PROVE Absent(x, m) <=> Absent(w, m) /\ e.m # m
  <2>1. 1..Len(x) = 1..Len(w) \cup {Len(w) + 1}
    BY <1>1
  <2> QED
    BY <1>1, <2>1 DEF Absent
<1>4. ASSUME NEW m, NEW a
      PROVE  Carries(x, m, a) <=> Carries(w, m, a) \/ (e.m = m /\ e.arg = a)
  <2>1. 1..Len(x) = 1..Len(w) \cup {Len(w) + 1}
    BY <1>1
  <2> QED
    BY <1>1, <2>1 DEF Carries
<1>5. ASSUME Ordered(w), e.m = "consume" => ~Carries(w, "cancel", e.arg) PROVE Ordered(x)
  <2> SUFFICES ASSUME NEW i \in 1..Len(x), NEW j \in 1..Len(x),
                      x[i].m = "consume", x[j].m = "cancel", x[i].arg = x[j].arg
               PROVE  i < j
    BY DEF Ordered
  <2>1. i \in Nat /\ j \in Nat /\ (i \in 1..Len(w) \/ i = Len(w) + 1)
        /\ (j \in 1..Len(w) \/ j = Len(w) + 1)
    BY <1>1
  <2>2. CASE i \in 1..Len(w) /\ j \in 1..Len(w)
    BY <1>1, <1>5, <2>2 DEF Ordered
  <2>3. CASE i = Len(w) + 1 /\ j \in 1..Len(w)
    <3>1. e.m = "consume" /\ w[j].m = "cancel" /\ w[j].arg = e.arg
      BY <1>1, <2>3
    <3> QED
      BY <1>5, <2>3, <3>1 DEF Carries
  <2>4. CASE i \in 1..Len(w) /\ j = Len(w) + 1
    BY <1>1, <2>4
  <2>5. CASE i = Len(w) + 1 /\ j = Len(w) + 1
    BY <1>1, <2>5
  <2> QED
    BY <2>1, <2>2, <2>3, <2>4, <2>5
<1> QED
  BY <1>1, <1>2, <1>3, <1>4, <1>5 DEF x

\* The first message taken off.
LEMMA WireTail ==
  ASSUME NEW w \in Seq(Message), w # <<>>
  PROVE  /\ Tail(w) \in Seq(Message) /\ Head(w) \in Message
         /\ \A m : /\ Carried(w, m) = IF Head(w).m = m
                                        THEN <<Head(w).arg>> \o Carried(Tail(w), m)
                                        ELSE Carried(Tail(w), m)
                   /\ Absent(w, m) <=> Absent(Tail(w), m) /\ Head(w).m # m
                   /\ \A a : Carries(w, m, a) <=>
                               Carries(Tail(w), m, a) \/ (Head(w).m = m /\ Head(w).arg = a)
         /\ Ordered(w) => /\ Ordered(Tail(w))
                          /\ Head(w).m = "cancel" => ~Carries(Tail(w), "consume", Head(w).arg)
<1> DEFINE x == Tail(w)
           e == Head(w)
<1>1. x \in Seq(Message) /\ e \in Message /\ Len(x) = Len(w) - 1 /\ Len(w) \in Nat \ {0}
      /\ e = w[1] /\ \A i \in 1..Len(x) : x[i] = w[i + 1]
  OBVIOUS
<1>2. ASSUME NEW m PROVE Carried(w, m) = IF e.m = m THEN <<e.arg>> \o Carried(x, m)
                                                    ELSE Carried(x, m)
  <2>1. w \in Seq(Item) /\ (e \in Named(m) <=> e.m = m)
    BY <1>1, NamedIs
  <2> QED
    BY <2>1, ChosenTail DEF Carried
<1> HIDE DEF x, e
<1>a. /\ \A i \in 1..Len(w) : i = 1 \/ (i - 1 \in 1..Len(x) /\ x[i - 1] = w[i])
      /\ \A i \in 1..Len(x) : i + 1 \in 1..Len(w) /\ w[i + 1] = x[i]
      /\ 1 \in 1..Len(w)
  <2>1. ASSUME NEW i \in 1..Len(w), i # 1 PROVE i - 1 \in 1..Len(x) /\ x[i - 1] = w[i]
    <3>1. i - 1 \in 1..Len(x) /\ (i - 1) + 1 = i
      BY <1>1, <2>1
    <3>2. x[i - 1] = w[(i - 1) + 1]
      BY <1>1, <3>1
    <3> QED
      BY <3>1, <3>2
  <2> QED
    BY <1>1, <2>1
<1>3. ASSUME NEW m PROVE Absent(w, m) <=> Absent(x, m) /\ e.m # m
  <2>1. Absent(w, m) => Absent(x, m) /\ e.m # m
    BY <1>1, <1>a DEF Absent
  <2>2. Absent(x, m) /\ e.m # m => Absent(w, m)
    <3> SUFFICES ASSUME Absent(x, m), e.m # m, NEW i \in 1..Len(w) PROVE w[i].m # m
      BY DEF Absent
    <3>1. i = 1 \/ (i - 1 \in 1..Len(x) /\ x[i - 1] = w[i])
      BY <1>a
    <3> QED
      BY <1>1, <3>1 DEF Absent
  <2> QED
    BY <2>1, <2>2
<1>4. ASSUME NEW m, NEW a
      PROVE  Carries(w, m, a) <=> Carries(x, m, a) \/ (e.m = m /\ e.arg = a)
  <2>1. Carries(x, m, a) \/ (e.m = m /\ e.arg = a) => Carries(w, m, a)
    BY <1>1, <1>a DEF Carries
  <2>2. Carries(w, m, a) => Carries(x, m, a) \/ (e.m = m /\ e.arg = a)
    <3> SUFFICES ASSUME NEW i \in 1..Len(w), w[i].m = m, w[i].arg = a
                 PROVE  Carries(x, m, a) \/ (e.m = m /\ e.arg = a)
      BY DEF Carries
    <3>1. i = 1 \/ (i - 1 \in 1..Len(x) /\ x[i - 1] = w[i])
      BY <1>a
    <3> QED
      BY <1>1, <3>1 DEF Carries
  <2> QED
    BY <2>1, <2>2
<1>5. ASSUME Ordered(w) PROVE Ordered(x)
  <2> SUFFICES ASSUME NEW i \in 1..Len(x), NEW j \in 1..Len(x),
                      x[i].m = "consume", x[j].m = "cancel", x[i].arg = x[j].arg
               PROVE  i < j
    BY DEF Ordered
  <2>1. i + 1 \in 1..Len(w) /\ w[i + 1] = x[i] /\ j + 1 \in 1..Len(w) /\ w[j + 1] = x[j]
    BY <1>a
  <2>2. i + 1 < j + 1
    BY <1>5, <2>1 DEF Ordered
  <2> QED
    BY <1>1, <2>2
<1>6. ASSUME Ordered(w), e.m = "cancel" PROVE ~Carries(x, "consume", e.arg)
  <2> SUFFICES ASSUME NEW i \in 1..Len(x), x[i].m = "consume", x[i].arg = e.arg PROVE FALSE
    BY DEF Carries
  <2>1. i + 1 \in 1..Len(w) /\ w[i + 1] = x[i] /\ 1 \in 1..Len(w) /\ w[1] = e
    BY <1>1, <1>a
  <2>2. i + 1 < 1
    BY <1>6, <2>1 DEF Ordered
  <2> QED
    BY <1>1, <2>2
<1> QED
  BY <1>1, <1>2, <1>3, <1>4, <1>5, <1>6 DEF x, e

\* One message more, and the binding a wire leads to.
LEMMA BindsAppend ==
  ASSUME NEW w \in Seq(Message), NEW e \in Message, NEW bound, NEW k
  PROVE  Binds(Append(w, e), bound, k) <=>
           \/ e.m = "bind" /\ e.arg = k
           \/ Binds(w, bound, k) /\ ~(e.m = "unbind" /\ e.arg = k)
<1> DEFINE x == Append(w, e)
           Undone(y, i) == \E j \in i..Len(y) : y[j].m = "unbind" /\ y[j].arg = k
           Done(y) == \E i \in 1..Len(y) : y[i].m = "bind" /\ y[i].arg = k /\ ~Undone(y, i)
           n == Len(w) + 1
<1>1. /\ Len(x) = n /\ Len(w) \in Nat /\ x[n] = e /\ \A i \in 1..Len(w) : x[i] = w[i]
  BY AppendProperties
<1>2. Carries(x, "unbind", k) <=> Carries(w, "unbind", k) \/ (e.m = "unbind" /\ e.arg = k)
  BY WireAppend
<1>3. \A y : Binds(y, bound, k) <=> (k \in bound /\ ~Carries(y, "unbind", k)) \/ Done(y)
  BY DEF Binds
<1> HIDE DEF x
<1>4. ASSUME NEW i \in 1..Len(w)
      PROVE  Undone(x, i) <=> Undone(w, i) \/ (e.m = "unbind" /\ e.arg = k)
  <2>1. i..Len(x) = i..Len(w) \cup {n} /\ \A j \in i..Len(w) : x[j] = w[j]
    BY <1>1
  <2> QED
    BY <1>1, <2>1
<1>5. Undone(x, n) <=> e.m = "unbind" /\ e.arg = k
  <2>1. n..Len(x) = {n}
    BY <1>1
  <2> QED
    BY <1>1, <2>1
<1> HIDE DEF Undone
<1>6. Done(x) <=> (Done(w) /\ ~(e.m = "unbind" /\ e.arg = k)) \/ (e.m = "bind" /\ e.arg = k)
  <2>1. 1..Len(x) = 1..Len(w) \cup {n}
    BY <1>1
  <2>2. Done(x) <=> \/ \E i \in 1..Len(w) : x[i].m = "bind" /\ x[i].arg = k /\ ~Undone(x, i)
                    \/ x[n].m = "bind" /\ x[n].arg = k /\ ~Undone(x, n)
    BY <2>1
  <2> QED
    BY <1>1, <1>4, <1>5, <2>2
<1> HIDE DEF Done
<1> QED
  BY <1>2, <1>3, <1>6 DEF x

\* The first message taken off: carried out, or discarded.
LEMMA BindsTail ==
  ASSUME NEW w \in Seq(Message), w # <<>>, NEW bound, NEW k
  PROVE  LET e == Head(w) IN
         /\ ~(e.m \in {"bind", "unbind"} /\ e.arg = k) =>
              (Binds(Tail(w), bound, k) <=> Binds(w, bound, k))
         /\ e.m = "bind" /\ e.arg = k =>
              \A more : k \in more => (Binds(Tail(w), more, k) <=> Binds(w, bound, k))
         /\ e.m = "unbind" /\ e.arg = k =>
              \A fewer : k \notin fewer => (Binds(Tail(w), fewer, k) <=> Binds(w, bound, k))
         /\ ~(e.m = "unbind" /\ e.arg = k) =>
              (Binds(Tail(w), bound, k) => Binds(w, bound, k))
<1> DEFINE x == Tail(w)
           e == Head(w)
           Undone(y, i) == \E j \in i..Len(y) : y[j].m = "unbind" /\ y[j].arg = k
           Done(y) == \E i \in 1..Len(y) : y[i].m = "bind" /\ y[i].arg = k /\ ~Undone(y, i)
<1>1. /\ Len(x) = Len(w) - 1 /\ Len(w) \in Nat \ {0}
      /\ e = w[1] /\ \A i \in 1..Len(x) : x[i] = w[i + 1]
  OBVIOUS
<1>2. Carries(w, "unbind", k) <=> Carries(x, "unbind", k) \/ (e.m = "unbind" /\ e.arg = k)
  BY WireTail
<1>3. \A y, b : Binds(y, b, k) <=> (k \in b /\ ~Carries(y, "unbind", k)) \/ Done(y)
  BY DEF Binds
<1> HIDE DEF x, e
<1>4. ASSUME NEW i \in 1..Len(x) PROVE Undone(x, i) <=> Undone(w, i + 1)
  <2>1. \A j \in i..Len(x) : j + 1 \in (i + 1)..Len(w) /\ x[j] = w[j + 1]
    BY <1>1
  <2>2. \A j \in (i + 1)..Len(w) : j - 1 \in i..Len(x) /\ x[j - 1] = w[j]
    <3> SUFFICES ASSUME NEW j \in (i + 1)..Len(w) PROVE j - 1 \in i..Len(x) /\ x[j - 1] = w[j]
      OBVIOUS
    <3>1. j - 1 \in i..Len(x) /\ j - 1 \in 1..Len(x) /\ (j - 1) + 1 = j
      BY <1>1
    <3>2. x[j - 1] = w[(j - 1) + 1]
      BY <1>1, <3>1
    <3> QED
      BY <3>1, <3>2
  <2>3. Undone(x, i) => Undone(w, i + 1)
    BY <2>1
  <2>4. Undone(w, i + 1) => Undone(x, i)
    BY <2>2
  <2> QED
    BY <2>3, <2>4
<1>5. Undone(w, 1) <=> Carries(w, "unbind", k)
  BY DEF Carries
<1> HIDE DEF Undone
<1>6. Done(w) <=> Done(x) \/ (e.m = "bind" /\ e.arg = k /\ ~Carries(w, "unbind", k))
  <2>1. Done(x) => Done(w)
    <3> SUFFICES ASSUME NEW i \in 1..Len(x), x[i].m = "bind", x[i].arg = k, ~Undone(x, i)
                 PROVE  Done(w)
      OBVIOUS
    <3>1. i + 1 \in 1..Len(w) /\ w[i + 1] = x[i]
      BY <1>1
    <3>2. ~Undone(w, i + 1)
      BY <1>4
    <3> QED
      BY <3>1, <3>2
  <2>2. e.m = "bind" /\ e.arg = k /\ ~Carries(w, "unbind", k) => Done(w)
    <3>1. 1 \in 1..Len(w)
      BY <1>1
    <3> QED
      BY <1>1, <1>5, <3>1
  <2>3. Done(w) => Done(x) \/ (e.m = "bind" /\ e.arg = k /\ ~Carries(w, "unbind", k))
    <3> SUFFICES ASSUME NEW i \in 1..Len(w), w[i].m = "bind", w[i].arg = k, ~Undone(w, i)
                 PROVE  Done(x) \/ (e.m = "bind" /\ e.arg = k /\ ~Carries(w, "unbind", k))
      OBVIOUS
    <3>1. CASE i = 1
      BY <1>1, <1>5, <3>1
    <3>2. CASE i # 1
      <4>1. i - 1 \in 1..Len(x) /\ (i - 1) + 1 = i
        BY <1>1, <3>2
      <4>2. x[i - 1] = w[(i - 1) + 1] /\ (Undone(x, i - 1) <=> Undone(w, (i - 1) + 1))
        BY <1>1, <1>4, <4>1
      <4>3. x[i - 1].m = "bind" /\ x[i - 1].arg = k /\ ~Undone(x, i - 1)
        BY <4>1, <4>2
      <4> QED
        BY <4>1, <4>3
    <3> QED
      BY <3>1, <3>2
  <2> QED
    BY <2>1, <2>2, <2>3
<1> HIDE DEF Done
<1>7. /\ ~(e.m \in {"bind", "unbind"} /\ e.arg = k) => (Binds(x, bound, k) <=> Binds(w, bound, k))
      /\ ~(e.m = "unbind" /\ e.arg = k) => (Binds(x, bound, k) => Binds(w, bound, k))
  BY <1>2, <1>3, <1>6
<1>8. e.m = "bind" /\ e.arg = k =>
        \A more : k \in more => (Binds(x, more, k) <=> Binds(w, bound, k))
  BY <1>2, <1>3, <1>6
<1>9. e.m = "unbind" /\ e.arg = k =>
        \A fewer : k \notin fewer => (Binds(x, fewer, k) <=> Binds(w, bound, k))
  BY <1>2, <1>3, <1>6
<1> QED
  BY <1>7, <1>8, <1>9 DEF x, e

-----------------------------------------------------------------------------
(* Tasks *)

\* What waits.
LEMMA WaitingType ==
  ASSUME NEW T, T \subseteq Nat, NEW s \in Seq(TaskOn(T)), NEW op
  PROVE  /\ s \in Seq(Entry) /\ Waiting(s, op) \in Seq(Arg)
         /\ Waiting(s, op) = <<>> <=> \A a : ~Waits(s, op, a)
         /\ \A i \in 1..Len(Waiting(s, op)) : Waits(s, op, Waiting(s, op)[i])
         /\ \A a : Waits(s, op, a) =>
              \E i \in 1..Len(Waiting(s, op)) : Waiting(s, op)[i] = a
         /\ \A a : op = "cancel" /\ Waits(s, op, a) => a \in T
         /\ \A a : op = "consume" /\ Waits(s, op, a) => a \in T
<1>1. s \in Seq(Entry) /\ s \in Seq(Item)
  BY AreItems
<1>2. \A i \in 1..Len(s) : s[i] \in TaskOn(T) /\ s[i] \in Entry /\ (s[i] \in Queued(op) <=> s[i].op = op)
  BY <1>1, NamedIs
<1>3. Waiting(s, op) \in Seq(Arg)
  BY <1>1, ChosenType DEF Waiting
<1>4. Waiting(s, op) = <<>> <=> \A i \in 1..Len(s) : s[i].op # op
  <2>1. Waiting(s, op) = <<>> <=> \A i \in 1..Len(s) : s[i] \notin Queued(op)
    BY <1>1, ChosenNone DEF Waiting
  <2> QED
    BY <1>2, <2>1
<1>5. \A a : Waits(s, op, a) => \E i \in 1..Len(Waiting(s, op)) : Waiting(s, op)[i] = a
  <2> SUFFICES ASSUME NEW i \in 1..Len(s), s[i].op = op
               PROVE  \E j \in 1..Len(Waiting(s, op)) : Waiting(s, op)[j] = s[i].arg
    BY DEF Waits
  <2>1. s[i] \in Queued(op)
    BY <1>2
  <2> QED
    BY <1>1, <2>1, ChosenMembers DEF Waiting
<1>6. ASSUME NEW j \in 1..Len(Waiting(s, op)) PROVE Waits(s, op, Waiting(s, op)[j])
  <2> DEFINE here == {x \in Entry : \E i \in 1..Len(s) : s[i] = x}
             f == Filter(s, Queued(op))
  <2>1. s \in Seq(here)
    BY <1>1
  <2>2. f \in Seq(here) /\ \A i \in 1..Len(f) : f[i] \in Queued(op)
    BY <2>1, FilterType
  <2>3. f \in Seq(Item)
    BY <1>1, ChosenType
  <2>4. Waiting(s, op) = Args(f)
    BY DEF Waiting, Chosen
  <2> HIDE DEF f
  <2>5. Len(Args(f)) = Len(f) /\ \A i \in 1..Len(f) : Args(f)[i] = f[i].arg
    BY <2>3, ArgsOf
  <2>6. j \in 1..Len(f) /\ Waiting(s, op)[j] = f[j].arg /\ f[j] \in here /\ f[j] \in Queued(op)
    BY <1>6, <2>2, <2>4, <2>5
  <2>7. PICK i \in 1..Len(s) : s[i] = f[j]
    BY <2>6
  <2>8. s[i].op = op
    BY <1>2, <2>6, <2>7
  <2> QED
    BY <2>6, <2>7, <2>8 DEF Waits
<1>7. ASSUME NEW a, Waits(s, op, a), op \in {"cancel", "consume"} PROVE a \in T
  <2>1. PICK i \in 1..Len(s) : s[i].op = op /\ s[i].arg = a
    BY <1>7 DEF Waits
  <2>2. s[i] \in TaskOn(T)
    BY <1>2
  <2> QED
    BY <1>7, <2>1, <2>2 DEF TaskOn
<1> QED
  BY <1>1, <1>3, <1>4, <1>5, <1>6, <1>7 DEF Waits

\* One task more.
LEMMA TasksAppend ==
  ASSUME NEW s \in Seq(Entry), NEW t \in Entry
  PROVE  /\ Append(s, t) \in Seq(Entry)
         /\ \A op : /\ Waiting(Append(s, t), op) =
                         IF t.op = op THEN Append(Waiting(s, op), t.arg) ELSE Waiting(s, op)
                    /\ \A a : Waits(Append(s, t), op, a) <=>
                                Waits(s, op, a) \/ (t.op = op /\ t.arg = a)
<1> DEFINE x == Append(s, t)
<1>1. x \in Seq(Entry) /\ Len(x) = Len(s) + 1 /\ Len(s) \in Nat
      /\ x[Len(s) + 1] = t /\ \A i \in 1..Len(s) : x[i] = s[i]
  BY AppendProperties
<1>2. ASSUME NEW op PROVE Waiting(x, op) = IF t.op = op THEN Append(Waiting(s, op), t.arg)
                                                       ELSE Waiting(s, op)
  <2>1. s \in Seq(Item) /\ t \in Item /\ (t \in Queued(op) <=> t.op = op)
    BY NamedIs DEF Item
  <2> QED
    BY <2>1, ChosenAppend DEF Waiting
<1> HIDE DEF x
<1>3. ASSUME NEW op, NEW a
      PROVE  Waits(x, op, a) <=> Waits(s, op, a) \/ (t.op = op /\ t.arg = a)
  <2>1. 1..Len(x) = 1..Len(s) \cup {Len(s) + 1}
    BY <1>1
  <2> QED
    BY <1>1, <2>1 DEF Waits
<1> QED
  BY <1>1, <1>2, <1>3 DEF x

\* Nothing waits for the reply.
LEMMA NoneAwaits ==
  ASSUME NEW op, Awaiting(op) = {}, tasks \in Seq(Entry)
  PROVE  Waiting(tasks, op) = <<>>
<1> DEFINE I == {i \in 1..Len(tasks) : tasks[i].op = op}
<1>1. Len(tasks) \in Nat /\ I \subseteq Nat
  OBVIOUS
<1>2. I = {}
  <2> SUFFICES ASSUME I # {} PROVE FALSE
    OBVIOUS
  <2> HIDE DEF I
  <2>1. PICK i \in I : \A j \in I : i <= j
    BY <1>1, NatMin
  <2>2. i \in 1..Len(tasks) /\ tasks[i].op = op
    BY DEF I
  <2>3. \A j \in 1..(i - 1) : tasks[j].op # op
    <3> SUFFICES ASSUME NEW j \in 1..(i - 1), tasks[j].op = op PROVE FALSE
      OBVIOUS
    <3>1. j \in 1..Len(tasks) /\ ~(i <= j)
      BY <1>1, <2>2
    <3>2. j \in I
      BY <3>1 DEF I
    <3> QED
      BY <2>1, <3>1, <3>2
  <2>4. i \in Awaiting(op)
    BY <2>2, <2>3 DEF Awaiting
  <2> QED
    BY <2>4
<1>3. tasks \in Seq(Item) /\ \A i \in 1..Len(tasks) : tasks[i] \notin Queued(op)
  <2>1. \A i \in 1..Len(tasks) : tasks[i] \in Entry /\ tasks[i].op # op
    BY <1>2
  <2> QED
    BY <2>1, NamedIs
<1> QED
  BY <1>3, ChosenNone DEF Waiting

\* The task whose reply came taken out.
LEMMA TasksWithout ==
  ASSUME tasks \in Seq(Entry), NEW op, NEW i \in Awaiting(op)
  PROVE  /\ i \in 1..Len(tasks) /\ tasks[i].op = op
         /\ Without(i) \in Seq(Entry)
         /\ \A j \in 1..Len(Without(i)) : \E l \in 1..Len(tasks) : Without(i)[j] = tasks[l]
         /\ Waiting(tasks, op) = <<tasks[i].arg>> \o Waiting(Without(i), op)
         /\ \A o : o # op => Waiting(Without(i), o) = Waiting(tasks, o)
         /\ \A o, a : Waits(Without(i), o, a) => Waits(tasks, o, a)
         /\ \A o, a : Waits(tasks, o, a) /\ (o # op \/ a # tasks[i].arg) =>
                        Waits(Without(i), o, a)
<1>1. i \in 1..Len(tasks) /\ tasks[i].op = op /\ \A j \in 1..(i - 1) : tasks[j].op # op
  BY DEF Awaiting
<1> DEFINE s == tasks
           w == Without(i)
<1>2. Lacks(w, s, i)
  BY DEF Lacks, Without
<1>3. s \in Seq(Item) /\ i \in 1..Len(s)
  BY <1>1, NamedIs
<1>4. \A j \in 1..Len(s) : s[j] \in Entry
  OBVIOUS
<1>5. Len(s) \in Nat
  OBVIOUS
<1>6. s[i].op = op /\ \A j \in 1..(i - 1) : s[j].op # op
  BY <1>1
<1> HIDE DEF s, w
<1>7. /\ w \in Seq(Item)
      /\ \A j \in 1..Len(w) : \E l \in 1..Len(s) : w[j] = s[l]
      /\ \A l \in 1..Len(s) : l # i => \E j \in 1..Len(w) : w[j] = s[l]
  BY <1>2, <1>3, WithoutType
<1>8. w \in Seq(Entry)
  <2>1. \A j \in 1..Len(w) : w[j] \in Entry
    BY <1>4, <1>7
  <2> QED
    BY <1>7, <2>1, SeqOver
<1>9. Waiting(s, op) = <<s[i].arg>> \o Waiting(w, op)
  <2>1. s[i] \in Queued(op)
    BY <1>3, <1>4, <1>6, NamedIs
  <2>2. \A j \in 1..(i - 1) : s[j] \notin Queued(op)
    <3> SUFFICES ASSUME NEW j \in 1..(i - 1) PROVE s[j] \notin Queued(op)
      OBVIOUS
    <3>1. j \in 1..Len(s)
      BY <1>3, <1>5
    <3> QED
      BY <1>4, <1>6, <3>1, NamedIs
  <2> QED
    BY <1>2, <1>3, <2>1, <2>2, ChosenWithout DEF Waiting
<1>10. ASSUME NEW o, o # op PROVE Waiting(w, o) = Waiting(s, o)
  <2>1. s[i] \notin Queued(o)
    BY <1>3, <1>4, <1>6, <1>10, NamedIs
  <2> QED
    BY <1>2, <1>3, <2>1, ChosenWithout DEF Waiting
<1>11. \A o, a : Waits(w, o, a) => Waits(s, o, a)
  BY <1>7 DEF Waits
<1>12. ASSUME NEW o, NEW a, Waits(s, o, a), o # op \/ a # s[i].arg PROVE Waits(w, o, a)
  <2>1. PICK l \in 1..Len(s) : s[l].op = o /\ s[l].arg = a
    BY <1>12 DEF Waits
  <2>2. l # i
    BY <1>6, <1>12, <2>1
  <2> QED
    BY <1>7, <2>1, <2>2 DEF Waits
<1> QED
  BY <1>3, <1>6, <1>7, <1>8, <1>9, <1>10, <1>11, <1>12, Zenon DEF s, w

-----------------------------------------------------------------------------
(* Flushing when all tasks have been sent *)

\* Then there is nothing to flush.
LEMMA NothingUnsent ==
  ASSUME NEW s \in Seq(TaskOn(Tag)), Sent(s)
  PROVE  /\ AllSent(s) = s /\ Unsent(s) = <<>> /\ Requests(Unsent(s)) = <<>>
         /\ DueTags(s) = {} /\ ~Deletes(s)
         /\ \A cons : cons \subseteq RecordOn(Tag) => MarkOpen(cons, s) = cons
<1>1. AllSent(s) = s
  <2>1. /\ AllSent(s) \in Seq(TaskOn(Tag)) /\ Len(AllSent(s)) = Len(s)
        /\ \A i \in 1..Len(s) : AllSent(s)[i] = s[i]
    BY AllSentIs DEF Sent
  <2> QED
    BY <2>1, SeqEqual
<1>2. Unsent(s) = <<>>
  <2> DEFINE P == {s[i] : i \in {j \in 1..Len(s) : ~s[j].sent}}
  <2>1. \A i \in 1..Len(s) : s[i] \notin P
    BY DEF Sent
  <2>2. Unsent(s) = Filter(s, P)
    BY DEF Unsent
  <2> HIDE DEF P
  <2> QED
    BY <2>1, <2>2, FilterNone
<1>3. Requests(<<>>) = <<>>
  BY DEF Requests
<1>4. DueTags(s) = {} /\ ~Deletes(s)
  BY DEF DueTags, Deletes, Sent
<1>5. ASSUME NEW cons, cons \subseteq RecordOn(Tag) PROVE MarkOpen(cons, s) = cons
  <2> DEFINE Mark(c) == [c EXCEPT !.state = IF c.tag \in DueTags(s) THEN "open" ELSE @]
  <2>1. \A c \in RecordOn(Tag) : Mark(c) = c
    BY <1>4 DEF RecordOn
  <2>2. MarkOpen(cons, s) = {Mark(c) : c \in cons}
    BY DEF MarkOpen
  <2> HIDE DEF Mark
  <2> QED
    BY <1>5, <2>1, <2>2
<1> QED
  BY <1>1, <1>2, <1>3, <1>4, <1>5

\* Marking the subscriptions whose consumes are due.
LEMMA MarkOpenDue ==
  ASSUME NEW T, NEW cons, cons \subseteq RecordOn(T), NEW s
  PROVE  /\ DueTags(s) = {} => MarkOpen(cons, s) = cons
         /\ \A t, new : /\ DueTags(s) = {t} /\ (\A c \in cons : c.tag # t)
                       /\ new \in RecordOn(T) /\ new.tag = t /\ new.state = "opening"
                       => MarkOpen(cons \cup {new}, s) = cons \cup {[new EXCEPT !.state = "open"]}
<1> DEFINE Mark(c) == [c EXCEPT !.state = IF c.tag \in DueTags(s) THEN "open" ELSE @]
<1>1. \A c \in RecordOn(T) : c.tag \notin DueTags(s) => Mark(c) = c
  BY DEF RecordOn
<1>2. \A c \in RecordOn(T) : c.tag \in DueTags(s) => Mark(c) = [c EXCEPT !.state = "open"]
  BY DEF RecordOn
<1>3. \A these : MarkOpen(these, s) = {Mark(c) : c \in these}
  BY DEF MarkOpen
<1> HIDE DEF Mark
<1>4. DueTags(s) = {} => MarkOpen(cons, s) = cons
  BY <1>1, <1>3
<1>5. ASSUME NEW t, NEW new \in RecordOn(T), DueTags(s) = {t}, \A c \in cons : c.tag # t,
             new.tag = t
      PROVE  MarkOpen(cons \cup {new}, s) = cons \cup {[new EXCEPT !.state = "open"]}
  <2> DEFINE open == [new EXCEPT !.state = "open"]
  <2>1. Mark(new) = open /\ \A c \in cons : Mark(c) = c
    BY <1>1, <1>2, <1>5
  <2>2. MarkOpen(cons \cup {new}, s) = {Mark(c) : c \in cons \cup {new}}
    BY <1>3
  <2> HIDE DEF open
  <2>3. {Mark(c) : c \in cons \cup {new}} = cons \cup {open}
    BY <2>1
  <2> QED
    BY <2>2, <2>3 DEF open
<1> QED
  BY <1>4, <1>5

\* What is flushed of sent tasks is what is written before.
LEMMA FlushSent ==
  ASSUME toServer \in Seq(ToServerOn(Tag)),
         NEW st, NEW reg \in BOOLEAN, NEW cons, cons \subseteq RecordOn(Tag),
         NEW entries \in Seq(TaskOn(Tag)), Sent(entries),
         NEW before \in Seq(ToServerOn(Tag)),
         Flush(st, reg, cons, entries, before)
  PROVE  /\ tasks' = entries /\ consumers' = cons /\ registered' = reg
         /\ toServer' = IF link THEN toServer \o before ELSE toServer
<1>1. CASE st = "open"
  <2>1. /\ tasks' = AllSent(entries) /\ consumers' = MarkOpen(cons, entries)
        /\ registered' = (reg /\ ~Deletes(entries)) /\ Write(before \o Requests(Unsent(entries)))
    BY <1>1 DEF Flush
  <2>2. before \o Requests(Unsent(entries)) = before
    BY NothingUnsent, ConcatEmptySeq
  <2>3. registered' = reg
    BY <2>1, NothingUnsent
  <2>4. tasks' = entries /\ consumers' = cons
    BY <2>1, NothingUnsent
  <2>5. Write(before)
    BY <2>1, <2>2
  <2> QED
    BY <2>3, <2>4, <2>5 DEF Write
<1>2. CASE st # "open"
  BY <1>2 DEF Flush, Write
<1> QED
  BY <1>1, <1>2

\* A task that is pushed on an open queue is sent at once.
LEMMA PushSent ==
  ASSUME state = "open", link, registered \in BOOLEAN,
         tasks \in Seq(TaskOn(Tag)), Sent(tasks),
         NEW T, Tag \subseteq T, NEW task \in TaskOn(T), ~task.sent,
         NEW cons, TaskPush(task, cons)
  PROVE  \E sent \in TaskOn(T) :
           /\ sent.sent /\ sent.op = task.op /\ sent.arg = task.arg /\ sent.sub = task.sub
           /\ tasks' = Append(tasks, sent)
           /\ toServer' = toServer \o <<[m |-> task.op, arg |-> task.arg]>>
           /\ registered' = (registered /\ task.op # "delete")
           /\ consumers' = MarkOpen(cons, Append(tasks, task))
           /\ DueTags(Append(tasks, task)) = IF task.op = "consume" THEN {task.arg} ELSE {}
<1> DEFINE s == Append(tasks, task)
           sent == [task EXCEPT !.sent = TRUE]
<1>1. tasks \in Seq(TaskOn(T))
  <2>1. TaskOn(Tag) \subseteq TaskOn(T)
    BY TypesGrow
  <2> QED
    BY <2>1
<1>2. s \in Seq(TaskOn(T)) /\ Len(s) = Len(tasks) + 1 /\ Len(tasks) \in Nat
      /\ s[Len(tasks) + 1] = task /\ \A i \in 1..Len(tasks) : s[i] = tasks[i]
  BY <1>1, AppendProperties
<1>3. /\ sent \in TaskOn(T) /\ sent.sent /\ sent.op = task.op
      /\ sent.arg = task.arg /\ sent.sub = task.sub
  BY SentTask
<1>4. Flush("open", registered, cons, s, <<>>)
  BY DEF TaskPush
<1> HIDE DEF s, sent
<1>5. 1..Len(s) = 1..Len(tasks) \cup {Len(tasks) + 1}
  BY <1>2
<1>6. \A i \in 1..Len(s) : ~s[i].sent <=> i = Len(tasks) + 1
  BY <1>2, <1>5 DEF Sent
<1>7. AllSent(s) = Append(tasks, sent)
  <2>1. Append(tasks, sent) \in Seq(TaskOn(T)) /\ Len(Append(tasks, sent)) = Len(tasks) + 1
        /\ Append(tasks, sent)[Len(tasks) + 1] = sent
        /\ \A i \in 1..Len(tasks) : Append(tasks, sent)[i] = tasks[i]
    BY <1>1, <1>3, AppendProperties
  <2>2. AllSent(s) \in Seq(TaskOn(T)) /\ Len(AllSent(s)) = Len(s)
        /\ \A i \in 1..Len(s) : s[i].sent => AllSent(s)[i] = s[i]
    BY <1>2, AllSentIs
  <2>3. AllSent(s)[Len(tasks) + 1] = sent
    BY <1>2, <1>5 DEF AllSent, sent
  <2>4. \A i \in 1..Len(s) : AllSent(s)[i] = Append(tasks, sent)[i]
    BY <1>2, <1>5, <1>6, <2>1, <2>2, <2>3
  <2> QED
    BY <1>2, <2>1, <2>2, <2>4, SeqEqual
<1>8. Unsent(s) = <<task>>
  <2> DEFINE P == {s[i] : i \in {j \in 1..Len(s) : ~s[j].sent}}
  <2>1. P = {task}
    BY <1>2, <1>5, <1>6
  <2>2. Unsent(s) = Filter(s, P)
    BY DEF Unsent
  <2> HIDE DEF P
  <2>3. \A i \in 1..Len(tasks) : tasks[i] \notin P
    BY <2>1 DEF Sent
  <2>4. Filter(tasks, P) = <<>>
    BY <1>1, <2>3, FilterNone
  <2>5. Filter(s, P) = Append(<<>>, task)
    BY <1>1, <2>1, <2>4, FilterAppend DEF s
  <2> QED
    BY <2>2, <2>5
<1>9. /\ tasks' = Append(tasks, sent) /\ consumers' = MarkOpen(cons, s)
      /\ registered' = (registered /\ ~Deletes(s)) /\ Write(<<>> \o Requests(Unsent(s)))
  BY <1>4, <1>7 DEF Flush
<1>10. Deletes(s) <=> task.op = "delete"
  BY <1>2, <1>5, <1>6 DEF Deletes
<1>11. DueTags(s) = IF task.op = "consume" THEN {task.arg} ELSE {}
  BY <1>2, <1>5, <1>6 DEF DueTags
<1>12. toServer' = toServer \o <<[m |-> task.op, arg |-> task.arg]>>
  <2>1. Requests(<<task>>) = <<[m |-> task.op, arg |-> task.arg]>>
    BY DEF Requests
  <2> DEFINE r == <<[m |-> task.op, arg |-> task.arg]>>
  <2>2. r \in Seq({[m |-> task.op, arg |-> task.arg]})
    OBVIOUS
  <2>3. <<>> \o r = r
    BY <2>2, ConcatEmptySeq
  <2>4. Write(r)
    BY <1>8, <1>9, <2>1, <2>3
  <2> QED
    BY <2>4 DEF Write
<1>13. registered' = (registered /\ task.op # "delete")
  BY <1>9, <1>10
<1> QED
  BY <1>3, <1>9, <1>11, <1>12, <1>13 DEF s

-----------------------------------------------------------------------------
(* Rows of arguments *)

\* The first of the second part becomes the last of the first.
LEMMA Shift ==
  ASSUME NEW X, NEW s \in Seq(X), NEW t \in Seq(X), NEW e \in X
  PROVE  s \o (<<e>> \o t) = Append(s, e) \o t
<1> DEFINE o == <<e>>
<1>1. o \in Seq(X)
  OBVIOUS
<1>2. s \o o = Append(s, e)
  BY AppendIsConcat
<1> HIDE DEF o
<1>3. s \o (o \o t) = (s \o o) \o t
  BY <1>1, ConcatAssociative
<1> QED
  BY <1>2, <1>3 DEF o

\* The first of two equal rows taken off.
LEMMA FirstOff ==
  ASSUME NEW X, NEW s \in Seq(X), NEW t \in Seq(X), NEW d \in X, NEW e \in X,
         <<d>> \o s = <<e>> \o t
  PROVE  d = e /\ s = t
<1>1. /\ Head(<<d>> \o s) = d /\ Tail(<<d>> \o s) = s
      /\ Head(<<e>> \o t) = e /\ Tail(<<e>> \o t) = t
  <2>1. \A b \in X : \A r \in Seq(X) : Head(<<b>> \o r) = b /\ Tail(<<b>> \o r) = r
    <3> SUFFICES ASSUME NEW b \in X, NEW r \in Seq(X)
                 PROVE  Head(<<b>> \o r) = b /\ Tail(<<b>> \o r) = r
      OBVIOUS
    <3> DEFINE o == <<b>>
               y == o \o r
    <3>1. o \in Seq(X) /\ Len(o) = 1 /\ o[1] = b
      OBVIOUS
    <3> HIDE DEF o
    <3>2. /\ y \in Seq(X) /\ Len(y) = 1 + Len(r)
          /\ \A i \in 1..1 + Len(r) : y[i] = IF i <= 1 THEN o[i] ELSE r[i - 1]
      BY <3>1, ConcatProperties
    <3> HIDE DEF y
    <3>3. Head(y) = b
      BY <3>1, <3>2
    <3>4. Tail(y) \in Seq(X) /\ Len(Tail(y)) = Len(r) /\ \A i \in 1..Len(r) : Tail(y)[i] = y[i + 1]
      BY <3>2
    <3>5. \A i \in 1..Len(r) : y[i + 1] = r[i]
      <4> SUFFICES ASSUME NEW i \in 1..Len(r) PROVE y[i + 1] = r[i]
        OBVIOUS
      <4>1. i + 1 \in 1..1 + Len(r) /\ ~(i + 1 <= 1) /\ (i + 1) - 1 = i
        OBVIOUS
      <4> QED
        BY <3>2, <4>1
    <3>6. Tail(y) = r
      BY <3>4, <3>5, SeqEqual
    <3> QED
      BY <3>3, <3>6 DEF y, o
  <2> QED
    BY <2>1
<1> QED
  BY <1>1

\* The first of the first part is the first of the whole.
LEMMA FirstOfBoth ==
  ASSUME NEW X, NEW s \in Seq(X), NEW t \in Seq(X), NEW e \in X
  PROVE  (<<e>> \o s) \o t = <<e>> \o (s \o t)
<1>1. <<e>> \in Seq(X)
  OBVIOUS
<1> QED
  BY <1>1, ConcatAssociative

\* What every step starts from.
LEMMA Domains ==
  ASSUME TypeInv
  PROVE  /\ toServer \in Seq(Message) /\ toClient \in Seq(Message) /\ tasks \in Seq(Entry)
         /\ tasks \in Seq(TaskOn(Tag)) /\ Tag \subseteq Nat
         /\ consumers \subseteq RecordOn(Tag) /\ Distinct(consumers)
         /\ \A c \in consumers : c.tag \in Tag /\ c.sub \in Sub
<1>1. nextTag \in Nat
  BY ClientTypes DEF Plain
<1>2. Tag \subseteq Nat
  BY <1>1 DEF Tag
<1>3. toServer \in Seq(Message) /\ toClient \in Seq(Message) /\ tasks \in Seq(Entry)
  BY <1>2, ClientTypes, AreItems
<1>4. consumers \subseteq RecordOn(Tag) /\ Distinct(consumers) /\ tasks \in Seq(TaskOn(Tag))
  BY ClientTypes
<1> QED
  BY <1>2, <1>3, <1>4 DEF RecordOn

\* A message by itself.
LEMMA MethodIs ==
  ASSUME NEW m, NEW arg
  PROVE  /\ Len(Method(m, arg)) = 1 /\ Method(m, arg)[1].m = m /\ Method(m, arg) # <<>>
         /\ Head(Method(m, arg)).m = m /\ Tail(Method(m, arg)) = <<>>
         /\ ~Absent(Method(m, arg), m)
         /\ \A w, e : w \in Seq(Message) /\ e = [m |-> m, arg |-> arg] =>
                        w \o Method(m, arg) = Append(w, e)
<1>1. /\ Len(Method(m, arg)) = 1 /\ Method(m, arg)[1].m = m /\ Method(m, arg) # <<>>
      /\ Head(Method(m, arg)).m = m /\ Tail(Method(m, arg)) = <<>>
  BY DEF Method
<1>2. ~Absent(Method(m, arg), m)
  BY <1>1 DEF Absent
<1>3. ASSUME NEW w \in Seq(Message), NEW e, e = [m |-> m, arg |-> arg]
      PROVE  w \o Method(m, arg) = Append(w, e)
  <2>1. Method(m, arg) = <<e>>
    BY <1>3 DEF Method
  <2> QED
    BY <2>1
<1> QED
  BY <1>1, <1>2, <1>3


-----------------------------------------------------------------------------
(* The inductive invariant *)

\* The channel is opened and the queue declared by four messages, each of which
\* travels alone; the channel is closed for the client until the last has come.
Opening(out, in, server, st) ==
  \/ out = Method("channelOpen", None) /\ in = <<>> /\ server = "closed" /\ st = "closed"
  \/ out = <<>> /\ in = Method("channelOpenOk", None) /\ server = "open" /\ st = "closed"
  \/ out = Method("declare", None) /\ in = <<>> /\ server = "open" /\ st = "declare queue"
  \/ out = <<>> /\ in = Method("declareOk", None) /\ server = "open" /\ st = "declare queue"

IsOpening == Opening(toServer, toClient, srv, state)

\* No more of them is under way.
Opened(out, in) ==
  /\ Absent(out, "channelOpen") /\ Absent(out, "declare")
  /\ Absent(in, "channelOpenOk") /\ Absent(in, "declareOk")

Phases ==
  /\ ~tracked => state = "closed"
  /\ ~link => toServer = <<>> /\ toClient = <<>> /\ srv = "closed" /\ state = "closed"
  /\ IsOpening \/ Opened(toServer, toClient)
  /\ IsOpening \/ srv # "open" => srvConsumers = {}
  /\ srv = "open" => Absent(toServer, "closeOk") /\ Absent(toClient, "close")

\* The queue is closed before the server is, unless the server says so.
Shut ==
  state = "open" =>
    /\ Absent(toServer, "close") /\ Absent(toServer, "closeOk") /\ Absent(toClient, "closeOk")
    /\ srv # "closed"
    /\ srv = "refused" => ~Absent(toClient, "close")

\* An open queue has no unsent task, and other queues get none.
AllAreSent == Sent(tasks)

\* Every unbind and every reply to one has a task that waits.
Backed ==
  Len(Carried(toClient, "unbindOk")) + Len(Carried(toServer, "unbind"))
    <= Len(Waiting(tasks, "unbind"))

\* The server has a consumer of this tag, or will.
Comes(t) == t \in srvConsumers \/ Carries(toServer, "consume", t)

\* Every consumer that is or comes has a listener.
Heard == srv = "open" => \A t \in Nat : Comes(t) => \E c \in consumers : c.tag = t

\* The cancels that wait are those the server will read, behind others whose
\* consumers are gone, enough of them for the replies that come.
Cancelled ==
  srv = "open" =>
    \E gone \in Seq(Arg) :
      /\ Waiting(tasks, "cancel") = gone \o Carried(toServer, "cancel")
      /\ Len(Carried(toClient, "cancelOk")) <= Len(gone)
      /\ \A i \in 1..Len(gone) : ~Comes(gone[i])

\* Until the connection is lost for the first time consume-ok finds its own task.
Matched ==
  IF srv = "open"
    THEN Waiting(tasks, "consume")
           = Carried(toClient, "consumeOk") \o Carried(toServer, "consume")
    ELSE \E rest \in Seq(Arg) :
           Waiting(tasks, "consume") = Carried(toClient, "consumeOk") \o rest

OwnTags ==
  \A i \in 1..Len(tasks) : tasks[i].op = "consume" /\ tasks[i].sub # None =>
    \A c \in consumers : c.tag = tasks[i].arg => c.sub = tasks[i].sub

Owned ==
  NeverLost => /\ link
               /\ IsOpening => tasks = <<>>
               /\ Matched /\ OwnTags /\ TagIsOwn
               /\ \A c \in consumers : c.state # "closed"

\* A binding the client has forgotten will be gone, unless its unbind was lost, or
\* will be: it waits for a server that has closed the channel.
Forgotten ==
  \A k \in Key :
    bindings[k] = 0 /\ Binds(toServer, srvBindings, k) /\ "unbindLost" \notin incidents =>
      /\ link /\ srv # "open" /\ Opened(toServer, toClient)
      /\ Len(Carried(toClient, "unbindOk")) + Len(Carried(toServer, "unbind"))
           < Len(Waiting(tasks, "unbind"))

\* What the application wants is to be restored; and unless something has happened
\* to the queue or its channel, the server has it as soon as the queue is open.
Undisturbed(out, in) ==
  /\ \A m \in {"close", "closeOk", "delete"} : Absent(out, m)
  /\ \A m \in {"close", "closeOk", "deleteOk", "basicCancel"} : Absent(in, m)

Restored ==
  /\ \A k \in wanted : bindings[k] > 0
  /\ incidents \subseteq Harmless =>
       /\ tracked
       /\ losses = 0 => link
       /\ link => \/ IsOpening
                  \/ state = "open" /\ srv = "open" /\ Undisturbed(toServer, toClient)
       /\ link /\ ~IsOpening /\ Restores => \A k \in wanted : Binds(toServer, srvBindings, k)
       /\ IsOpening /\ options.noDeclare /\ losses = 0 => wanted = {}

\* Each subscription has one record; its consumer is or comes, until it is stopped;
\* then its cancel waits, until the record is gone.
Served ==
  incidents \subseteq {"unbindLost"} /\ Restores =>
    /\ Waiting(tasks, "cancel") = Carried(toClient, "cancelOk") \o Carried(toServer, "cancel")
    /\ \A c, d \in consumers : c.sub = d.sub => c = d
    /\ \A s \in Sub : active[s] = "asked" => \E c \in consumers : c.sub = s
    /\ \A c \in consumers :
         /\ active[c.sub] # "idle"
         /\ active[c.sub] = "asked" => ~Waits(tasks, "cancel", c.tag)
         /\ active[c.sub] = "stopped" => Waits(tasks, "cancel", c.tag)
         /\ IF link /\ ~IsOpening
              THEN active[c.sub] = "asked" => Comes(c.tag)
              ELSE c.state = "closed"
    /\ IF options.noDeclare
         THEN IsOpening => consumers = {}
         ELSE link /\ ~IsOpening => registered

IInv == /\ TypeInv /\ Phases /\ Shut /\ AllAreSent
        /\ Backed /\ Heard /\ Ordered(toServer) /\ Cancelled /\ Owned
        /\ Forgotten /\ Restored /\ Served

-----------------------------------------------------------------------------
(* The phases of a channel *)

\* A channel that is opened is not being opened.
LEMMA OpenedIsNot ==
  ASSUME NEW out, NEW in, NEW server, NEW st, Opened(out, in)
  PROVE  ~Opening(out, in, server, st)
BY MethodIs DEF Opened, Opening

\* What the server reads of a channel.
LEMMA Reading ==
  ASSUME TypeInv, Phases, NEW m, ServerReads(m)
  PROVE  /\ m = "channelOpen" =>
              /\ toServer' = <<>> /\ toClient = <<>> /\ srv = "closed" /\ state = "closed"
              /\ IsOpening
         /\ m = "declare" =>
              /\ toServer' = <<>> /\ toClient = <<>> /\ srv = "open" /\ state = "declare queue"
              /\ IsOpening
         /\ m \notin {"channelOpen", "declare"} => Opened(toServer, toClient) /\ ~IsOpening
<1>1. toServer # <<>> /\ Head(toServer).m = m /\ toServer' = Tail(toServer)
  BY DEF ServerReads
<1>2. CASE IsOpening
  <2>1. \/ /\ toServer = Method("channelOpen", None) /\ toClient = <<>>
           /\ srv = "closed" /\ state = "closed"
        \/ /\ toServer = Method("declare", None) /\ toClient = <<>>
           /\ srv = "open" /\ state = "declare queue"
    BY <1>1, <1>2 DEF IsOpening, Opening
  <2>2. CASE toServer = Method("channelOpen", None)
    <3>1. m = "channelOpen" /\ toServer' = <<>>
      BY <1>1, <2>2, MethodIs
    <3>2. Method("declare", None)[1].m # Method("channelOpen", None)[1].m
      BY MethodIs
    <3> QED
      BY <1>2, <2>1, <2>2, <3>1, <3>2
  <2>3. CASE toServer = Method("declare", None)
    <3>1. m = "declare" /\ toServer' = <<>>
      BY <1>1, <2>3, MethodIs
    <3>2. Method("declare", None)[1].m # Method("channelOpen", None)[1].m
      BY MethodIs
    <3> QED
      BY <1>2, <2>1, <2>3, <3>1, <3>2
  <2> QED
    BY <2>1, <2>2, <2>3
<1>3. CASE ~IsOpening
  <2>1. Opened(toServer, toClient)
    BY <1>3 DEF Phases
  <2>2. m \notin {"channelOpen", "declare"}
    BY <1>1, <2>1, Domains, WireTail DEF Opened
  <2> QED
    BY <1>3, <2>1, <2>2
<1> QED
  BY <1>2, <1>3

\* What the client receives on a channel.
LEMMA Receiving ==
  ASSUME TypeInv, Phases, NEW m, Receive(m)
  PROVE  /\ m = "channelOpenOk" =>
              /\ toServer = <<>> /\ toClient' = <<>> /\ srv = "open" /\ state = "closed"
              /\ IsOpening
         /\ m = "declareOk" =>
              /\ toServer = <<>> /\ toClient' = <<>> /\ srv = "open" /\ state = "declare queue"
              /\ IsOpening
         /\ m \notin {"channelOpenOk", "declareOk"} => Opened(toServer, toClient) /\ ~IsOpening
<1>1. toClient # <<>> /\ Head(toClient).m = m /\ toClient' = Tail(toClient)
  BY DEF Receive
<1>2. CASE IsOpening
  <2>1. \/ /\ toClient = Method("channelOpenOk", None) /\ toServer = <<>>
           /\ srv = "open" /\ state = "closed"
        \/ /\ toClient = Method("declareOk", None) /\ toServer = <<>>
           /\ srv = "open" /\ state = "declare queue"
    BY <1>1, <1>2 DEF IsOpening, Opening
  <2>2. CASE toClient = Method("channelOpenOk", None)
    <3>1. m = "channelOpenOk" /\ toClient' = <<>>
      BY <1>1, <2>2, MethodIs
    <3>2. Method("declareOk", None)[1].m # Method("channelOpenOk", None)[1].m
      BY MethodIs
    <3> QED
      BY <1>2, <2>1, <2>2, <3>1, <3>2
  <2>3. CASE toClient = Method("declareOk", None)
    <3>1. m = "declareOk" /\ toClient' = <<>>
      BY <1>1, <2>3, MethodIs
    <3>2. Method("declareOk", None)[1].m # Method("channelOpenOk", None)[1].m
      BY MethodIs
    <3> QED
      BY <1>2, <2>1, <2>3, <3>1, <3>2
  <2> QED
    BY <2>1, <2>2, <2>3
<1>3. CASE ~IsOpening
  <2>1. Opened(toServer, toClient)
    BY <1>3 DEF Phases
  <2>2. m \notin {"channelOpenOk", "declareOk"}
    BY <1>1, <2>1, Domains, WireTail DEF Opened
  <2> QED
    BY <1>3, <2>1, <2>2
<1> QED
  BY <1>2, <1>3

-----------------------------------------------------------------------------
(* What the server does keeps the invariant *)

\* What the server leaves alone.
LEMMA ClientSame ==
  ASSUME UNCHANGED clientVars
  PROVE  /\ options' = options /\ state' = state /\ tracked' = tracked
         /\ registered' = registered /\ bindings' = bindings /\ bindCallback' = bindCallback
         /\ consumers' = consumers /\ nextTag' = nextTag /\ tasks' = tasks /\ link' = link
         /\ losses' = losses /\ known' = known /\ calls' = calls /\ wanted' = wanted
         /\ active' = active
BY DEF clientVars, channelVars, bindVars, consumeVars, linkVars, appVars

\* The wire after the server has read from it.
LEMMA AfterRead ==
  ASSUME IInv, NEW m, ServerReads(m)
  PROVE  /\ toServer \in Seq(Message) /\ toServer # <<>> /\ Subject \in Arg
         /\ toServer' \in Seq(Message) /\ toServer' = Tail(toServer)
         /\ Head(toServer).m = m /\ Head(toServer).arg = Subject
         /\ link
         /\ m \notin {"channelOpen", "declare"} => ~IsOpening /\ Opened(toServer, toClient)
         /\ \A n : /\ Carried(toServer, n) = IF m = n THEN <<Subject>> \o Carried(toServer', n)
                                             ELSE Carried(toServer', n)
                   /\ Absent(toServer, n) <=> Absent(toServer', n) /\ m # n
                   /\ \A a : Carries(toServer, n, a) <=>
                               Carries(toServer', n, a) \/ (m = n /\ Subject = a)
         /\ Ordered(toServer')
         /\ m = "cancel" => ~Carries(toServer', "consume", Subject)
         /\ UNCHANGED clientVars
<1>1. /\ toServer # <<>> /\ Head(toServer).m = m /\ Head(toServer).arg = Subject
      /\ toServer' = Tail(toServer) /\ link /\ UNCHANGED clientVars
  BY DEF ServerReads, Subject
<1>2. toServer \in Seq(Message) /\ Ordered(toServer)
  BY Domains DEF IInv
<1>3. m \notin {"channelOpen", "declare"} => ~IsOpening /\ Opened(toServer, toClient)
  BY Reading DEF IInv
<1>4. Subject \in Arg
  BY <1>1, <1>2, WireTail DEF Message
<1> QED
  BY <1>1, <1>2, <1>3, <1>4, WireTail

\* The wire after the server has answered.
LEMMA AfterAnswer ==
  ASSUME toClient \in Seq(Message), NEW r \in MethodName, NEW arg \in Arg, Answer(r, arg)
  PROVE  /\ toClient' \in Seq(Message)
         /\ \A n : /\ Carried(toClient', n) = IF r = n THEN Append(Carried(toClient, n), arg)
                                              ELSE Carried(toClient, n)
                   /\ Absent(toClient', n) <=> Absent(toClient, n) /\ r # n
<1> DEFINE e == [m |-> r, arg |-> arg]
<1>1. e \in Message
  BY DEF Message
<1>2. e.m = r /\ e.arg = arg
  OBVIOUS
<1>3. toClient' = Append(toClient, e)
  BY MethodIs DEF Answer
<1> HIDE DEF e
<1> QED
  BY <1>1, <1>2, <1>3, WireAppend

\* The channel is neither opened nor closed: what is left of Phases.
LEMMA PhasesFrame ==
  ASSUME Phases, UNCHANGED clientVars, link, Opened(toServer', toClient'),
         srv' # "open" => srvConsumers' = {},
         srv' = "open" => Absent(toServer', "closeOk") /\ Absent(toClient', "close")
  PROVE  ~IsOpening' /\ (srvConsumers' = {} \/ srv' = "open") /\ Phases'
<1>1. ~IsOpening'
  BY OpenedIsNot DEF IsOpening
<1>2. /\ state' = state /\ tracked' = tracked /\ link' = link
  BY ClientSame
<1>3. ~tracked => state = "closed"
  BY DEF Phases
<1> HIDE DEF IsOpening
<1>4. (~tracked' => state' = "closed") /\ link'
  BY <1>2, <1>3
<1>5. (IsOpening' \/ srv' # "open" => srvConsumers' = {})
  BY <1>1
<1> QED
  BY <1>1, <1>4, <1>5 DEF Phases

\* What is left of Owned, Restored and Served on a channel that is not being opened.
LEMMA OwnedKept ==
  ASSUME Owned, UNCHANGED <<link, consumers, known>>, ~IsOpening', NeverLost' => NeverLost,
         NeverLost /\ Matched => Matched', NeverLost /\ OwnTags => OwnTags'
  PROVE  Owned'
<1>1. CASE NeverLost'
  <2>1. /\ link /\ Matched /\ OwnTags /\ TagIsOwn
        /\ \A c \in consumers : c.state # "closed"
    BY <1>1 DEF Owned
  <2>2. TagIsOwn'
    BY <2>1 DEF TagIsOwn
  <2>3. OwnTags' /\ link' /\ Matched'
    BY <1>1, <2>1
  <2> QED
    BY <2>1, <2>2, <2>3 DEF Owned
<1>2. CASE ~NeverLost'
  BY <1>2 DEF Owned
<1> QED
  BY <1>1, <1>2

\* As long as nothing has disturbed the queue.
LEMMA RestoredKept ==
  ASSUME Restored, UNCHANGED <<tracked, losses, link, options, state, srv>>,
         link, ~IsOpening, ~IsOpening', \A k \in wanted' : bindings'[k] > 0,
         incidents' \subseteq Harmless => incidents \subseteq Harmless,
         Undisturbed(toServer, toClient) => Undisturbed(toServer', toClient'),
         (\A k \in wanted : Binds(toServer, srvBindings, k)) =>
           \A k \in wanted' : Binds(toServer', srvBindings', k)
  PROVE  Restored'
<1>1. Restores' <=> Restores
  BY DEF Restores
<1>2. ASSUME incidents' \subseteq Harmless
      PROVE  /\ tracked' /\ link'
             /\ state' = "open" /\ srv' = "open" /\ Undisturbed(toServer', toClient')
             /\ Restores' => \A k \in wanted' : Binds(toServer', srvBindings', k)
  BY <1>1, <1>2 DEF Restored
<1> QED
  BY <1>2 DEF Restored

\* As long as nothing has disturbed the queue.
LEMMA ServedKept ==
  ASSUME Served, UNCHANGED <<consumers, active, losses, link, options, registered>>,
         link, ~IsOpening, ~IsOpening', incidents \subseteq incidents',
         Waiting(tasks, "cancel") = Carried(toClient, "cancelOk") \o Carried(toServer, "cancel") =>
           Waiting(tasks', "cancel") = Carried(toClient', "cancelOk") \o Carried(toServer', "cancel"),
         \A t : Waits(tasks', "cancel", t) <=> Waits(tasks, "cancel", t),
         \A t : ~Waits(tasks, "cancel", t) /\ Comes(t) => Comes(t)'
  PROVE  Served'
<1>1. Restores' <=> Restores
  BY DEF Restores
<1>2. CASE incidents \subseteq {"unbindLost"} /\ Restores
  <2>1. /\ Waiting(tasks', "cancel")
             = Carried(toClient', "cancelOk") \o Carried(toServer', "cancel")
        /\ \A c, d \in consumers' : c.sub = d.sub => c = d
        /\ \A s \in Sub : active'[s] = "asked" => \E c \in consumers' : c.sub = s
        /\ \A c \in consumers' :
             /\ active'[c.sub] # "idle"
             /\ active'[c.sub] = "asked" => ~Waits(tasks', "cancel", c.tag)
             /\ active'[c.sub] = "stopped" => Waits(tasks', "cancel", c.tag)
        /\ options'.noDeclare \/ registered'
    BY <1>2 DEF Served
  <2>2. ASSUME NEW c \in consumers', active'[c.sub] = "asked" PROVE Comes(c.tag)'
    <3>1. ~Waits(tasks, "cancel", c.tag) /\ Comes(c.tag)
      BY <1>2, <2>2 DEF Served
    <3> QED
      BY <3>1
  <2> QED
    BY <2>1, <2>2 DEF Served
<1>3. CASE ~(incidents \subseteq {"unbindLost"} /\ Restores)
  BY <1>1, <1>3 DEF Served
<1> QED
  BY <1>2, <1>3

\* After something has disturbed it.
LEMMA Disturbed ==
  ASSUME \A k \in wanted' : bindings'[k] > 0, ~(incidents' \subseteq Harmless)
  PROVE  Restored' /\ Served'
<1>1. ~(incidents' \subseteq {"unbindLost"})
  BY DEF Harmless
<1> QED
  BY <1>1 DEF Restored, Served

\* The same, when the server reads or answers.
LEMMA OwnedFrame ==
  ASSUME Owned, UNCHANGED clientVars, ~IsOpening', NeverLost' => NeverLost,
         NeverLost /\ Matched => Matched'
  PROVE  Owned'
<1>1. OwnTags => OwnTags'
  BY ClientSame DEF OwnTags
<1> QED
  BY <1>1, ClientSame, OwnedKept

\* As long as nothing has disturbed the queue.
LEMMA RestoredFrame ==
  ASSUME Restored, UNCHANGED clientVars, link, ~IsOpening, ~IsOpening',
         incidents' = incidents, srv' = srv,
         Undisturbed(toServer, toClient) => Undisturbed(toServer', toClient'),
         \A k \in wanted : Binds(toServer, srvBindings, k) => Binds(toServer', srvBindings', k)
  PROVE  Restored'
<1>1. \A k \in wanted' : bindings'[k] > 0
  BY ClientSame DEF Restored
<1>2. (\A k \in wanted : Binds(toServer, srvBindings, k)) =>
        \A k \in wanted' : Binds(toServer', srvBindings', k)
  BY ClientSame
<1> QED
  BY <1>1, <1>2, ClientSame, RestoredKept

\* As long as nothing has disturbed the queue.
LEMMA ServedFrame ==
  ASSUME Served, UNCHANGED clientVars, link, ~IsOpening, ~IsOpening', incidents' = incidents,
         Carried(toClient', "cancelOk") \o Carried(toServer', "cancel")
           = Carried(toClient, "cancelOk") \o Carried(toServer, "cancel"),
         \A t : ~Waits(tasks, "cancel", t) /\ Comes(t) => Comes(t)'
  PROVE  Served'
<1>1. tasks' = tasks
  BY ClientSame
<1> QED
  BY <1>1, ClientSame, ServedKept

\* After something has disturbed it.
LEMMA DisturbedFrame ==
  ASSUME Restored, UNCHANGED clientVars, ~(incidents' \subseteq Harmless)
  PROVE  Restored' /\ Served'
<1>1. \A k \in wanted' : bindings'[k] > 0
  BY ClientSame DEF Restored
<1> QED
  BY <1>1, Disturbed

\* As long as the server has the channel open.
LEMMA ForgottenFrame ==
  ASSUME Forgotten, bindings' = bindings, srv = "open",
         "unbindLost" \in incidents => "unbindLost" \in incidents',
         \A k \in Key : Binds(toServer', srvBindings', k) => Binds(toServer, srvBindings, k)
  PROVE  Forgotten'
BY DEF Forgotten

\* A message that moves from one wire to the other.
LEMMA OneMoves ==
  ASSUME NEW s \in Seq(Arg), NEW t \in Seq(Arg), NEW e \in Arg
  PROVE  /\ Append(s, e) \in Seq(Arg) /\ Len(Append(s, e)) = Len(s) + 1
         /\ Len(<<e>> \o t) = Len(t) + 1
         /\ Len(s) \in Nat /\ Len(t) \in Nat
         /\ s \o (<<e>> \o t) = Append(s, e) \o t
<1>1. s \o (<<e>> \o t) = Append(s, e) \o t
  BY Shift
<1>2. /\ Append(s, e) \in Seq(Arg) /\ Len(Append(s, e)) = Len(s) + 1
      /\ Len(<<e>> \o t) = Len(t) + 1
      /\ Len(s) \in Nat /\ Len(t) \in Nat
  OBVIOUS
<1> QED
  BY <1>1, <1>2

\* What the server is left to do after it has read a message.
LEMMA BindsRead ==
  ASSUME NEW w \in Seq(Message), w # <<>>, NEW bound, NEW now, NEW k,
         now = IF Head(w).m = "bind" THEN bound \cup {Head(w).arg}
               ELSE IF Head(w).m = "unbind" THEN bound \ {Head(w).arg} ELSE bound
  PROVE  Binds(Tail(w), now, k) <=> Binds(w, bound, k)
<1>1. CASE Head(w).m \in {"bind", "unbind"} /\ Head(w).arg = k
  <2>1. CASE Head(w).m = "bind"
    <3>1. k \in now
      BY <1>1, <2>1
    <3> QED
      BY <1>1, <2>1, <3>1, BindsTail
  <2>2. CASE Head(w).m = "unbind"
    <3>1. k \notin now
      BY <1>1, <2>2
    <3>2. \A fewer : k \notin fewer => (Binds(Tail(w), fewer, k) <=> Binds(w, bound, k))
      BY <1>1, <2>2, BindsTail
    <3> QED
      BY <3>1, <3>2, Zenon
  <2> QED
    BY <1>1, <2>1, <2>2
<1>2. CASE ~(Head(w).m \in {"bind", "unbind"} /\ Head(w).arg = k)
  <2>1. k \in now <=> k \in bound
    BY <1>2
  <2>2. Binds(Tail(w), bound, k) <=> Binds(w, bound, k)
    BY <1>2, BindsTail
  <2> HIDE <1>2
  <2>3. Binds(Tail(w), now, k) <=> Binds(Tail(w), bound, k)
    BY <2>1 DEF Binds
  <2> QED
    BY <2>2, <2>3
<1> QED
  BY <1>1, <1>2

\* The part of the invariant about the channel alone, when the server answers.
LEMMA ServerAnswers ==
  ASSUME IInv, NEW m \in {"bind", "unbind", "consume", "cancel", "delete"},
         NEW r \in {"bindOk", "unbindOk", "consumeOk", "cancelOk", "deleteOk"}, NEW arg \in Arg,
         ServerReads(m), Answer(r, arg), srv = "open", srv' = srv
  PROVE  /\ link /\ ~IsOpening /\ ~IsOpening' /\ UNCHANGED clientVars /\ Subject \in Arg
         /\ Phases' /\ Shut' /\ AllAreSent' /\ Ordered(toServer)'
         /\ \A t : Carries(toServer', "consume", t) => Carries(toServer, "consume", t)
         /\ \A n : n # m => /\ Carried(toServer', n) = Carried(toServer, n)
                            /\ \A a : Carries(toServer', n, a) <=> Carries(toServer, n, a)
         /\ \A n : n # r => Carried(toClient', n) = Carried(toClient, n)
         /\ Carried(toServer, m) = <<Subject>> \o Carried(toServer', m)
         /\ \A a : Carries(toServer, m, a) <=> Carries(toServer', m, a) \/ Subject = a
         /\ Carried(toClient', r) = Append(Carried(toClient, r), arg)
         /\ \A n : Absent(toServer, n) => Absent(toServer', n)
         /\ \A n : n # r => (Absent(toClient, n) => Absent(toClient', n))
<1>1. /\ link /\ ~IsOpening /\ Opened(toServer, toClient) /\ UNCHANGED clientVars
      /\ Subject \in Arg /\ Ordered(toServer')
      /\ \A n : /\ Carried(toServer, n) = IF m = n THEN <<Subject>> \o Carried(toServer', n)
                                          ELSE Carried(toServer', n)
                /\ Absent(toServer, n) <=> Absent(toServer', n) /\ m # n
                /\ \A a : Carries(toServer, n, a) <=>
                            Carries(toServer', n, a) \/ (m = n /\ Subject = a)
  BY AfterRead
<1>2. \A n : /\ Carried(toClient', n) = IF r = n THEN Append(Carried(toClient, n), arg)
                                        ELSE Carried(toClient, n)
             /\ Absent(toClient', n) <=> Absent(toClient, n) /\ r # n
  <2>1. r \in MethodName /\ toClient \in Seq(Message)
    BY Domains DEF MethodName, IInv
  <2> QED
    BY <2>1, AfterAnswer
<1>3. Opened(toServer', toClient')
  BY <1>1, <1>2 DEF Opened
<1>4. ~IsOpening' /\ Phases'
  <2>1. Absent(toServer', "closeOk") /\ Absent(toClient', "close")
    BY <1>1, <1>2 DEF IInv, Phases
  <2> QED
    BY <1>1, <1>3, <2>1, PhasesFrame DEF IInv
<1>5. Shut'
  BY <1>1, <1>2, ClientSame DEF IInv, Shut
<1>6. AllAreSent'
  BY <1>1, ClientSame DEF IInv, AllAreSent
<1> QED
  BY <1>1, <1>2, <1>4, <1>5, <1>6

\* queue.bind is carried out.
LEMMA SrvBindKeeps ==
  ASSUME IInv, SrvBind
  PROVE  IInv'
<1>1. /\ ServerReads("bind") /\ Answer("bindOk", None) /\ srv = "open" /\ None \in Arg
      /\ srv' = srv /\ incidents' = incidents /\ srvConsumers' = srvConsumers
      /\ srvBindings' = srvBindings \cup {Subject}
  BY DEF SrvBind, Arg
<1>2. /\ link /\ ~IsOpening /\ ~IsOpening' /\ UNCHANGED clientVars
      /\ Phases' /\ Shut' /\ AllAreSent' /\ Ordered(toServer)'
      /\ \A t : Carries(toServer', "consume", t) <=> Carries(toServer, "consume", t)
      /\ \A n : n # "bind" => Carried(toServer', n) = Carried(toServer, n)
      /\ \A n : n # "bindOk" => Carried(toClient', n) = Carried(toClient, n)
      /\ \A n : Absent(toServer, n) => Absent(toServer', n)
      /\ \A n : n # "bindOk" => (Absent(toClient, n) => Absent(toClient', n))
  BY <1>1, ServerAnswers
<1>3. \A t : Comes(t)' <=> Comes(t)
  BY <1>1, <1>2 DEF Comes
<1>4. \A k : Binds(toServer', srvBindings', k) <=> Binds(toServer, srvBindings, k)
  BY <1>1, BindsRead, Domains DEF IInv, ServerReads, Subject
<1>5. tasks' = tasks /\ consumers' = consumers /\ bindings' = bindings
  BY <1>2, ClientSame
<1>6. TypeInv'
  BY ServerTypes DEF IInv
<1>7. Backed'
  BY <1>2, <1>5 DEF Backed, IInv
<1>8. Heard'
  BY <1>1, <1>3, <1>5 DEF Heard, IInv
<1>9. Cancelled'
  BY <1>1, <1>2, <1>3, <1>5 DEF Cancelled, IInv
<1>10. Owned'
  <2>1. Matched => Matched'
    BY <1>1, <1>2, <1>5 DEF Matched
  <2> QED
    BY <1>1, <1>2, <2>1, OwnedFrame, ClientSame DEF IInv, NeverLost
<1>11. Forgotten'
  BY <1>1, <1>4, <1>5, ForgottenFrame DEF IInv
<1>12. Restored'
  <2>1. Undisturbed(toServer, toClient) => Undisturbed(toServer', toClient')
    BY <1>2 DEF Undisturbed
  <2> QED
    BY <1>1, <1>2, <1>4, <2>1, RestoredFrame DEF IInv
<1>13. Served'
  BY <1>1, <1>2, <1>3, ServedFrame DEF IInv
<1> QED
  BY <1>2, <1>6, <1>7, <1>8, <1>9, <1>10, <1>11, <1>12, <1>13 DEF IInv

\* A cancel the server has not read yet has a task that waits.
LEMMA CancelWaits ==
  ASSUME IInv, srv = "open", NEW t, Carries(toServer, "cancel", t)
  PROVE  Waits(tasks, "cancel", t)
<1> DEFINE c == Carried(toServer, "cancel")
           w == Waiting(tasks, "cancel")
<1>1. /\ toServer \in Seq(Message) /\ tasks \in Seq(TaskOn(Tag)) /\ Tag \subseteq Nat
  BY Domains DEF IInv
<1>2. c \in Seq(Arg) /\ \E j \in 1..Len(c) : c[j] = t
  <2>1. PICK i \in 1..Len(toServer) : toServer[i].m = "cancel" /\ toServer[i].arg = t
    BY DEF Carries
  <2>2. c \in Seq(Arg)
    BY <1>1, CarriedType
  <2>3. \E j \in 1..Len(c) : c[j] = toServer[i].arg
    BY <1>1, <2>1, CarriedType
  <2> QED
    BY <2>1, <2>2, <2>3
<1>3. w \in Seq(Arg) /\ \A i \in 1..Len(w) : Waits(tasks, "cancel", w[i])
  BY <1>1, WaitingType
<1>4. PICK gone \in Seq(Arg) : w = gone \o c
  BY DEF IInv, Cancelled
<1> HIDE DEF c, w
<1>5. PICK j \in 1..Len(c) : c[j] = t
  BY <1>2
<1>6. Len(gone) + j \in 1..Len(w) /\ w[Len(gone) + j] = t
  <2>1. Len(w) = Len(gone) + Len(c)
    BY <1>2, <1>4
  <2>2. Len(gone) \in Nat /\ Len(c) \in Nat
    BY <1>2
  <2>3. Len(gone) + j \in 1..Len(w)
    BY <2>1, <2>2
  <2>4. w[Len(gone) + j] = c[j]
    BY <1>2, <1>4, <2>2
  <2> QED
    BY <2>3, <2>4, <1>5
<1> QED
  BY <1>3, <1>6

\* queue.unbind is carried out.
LEMMA SrvUnbindKeeps ==
  ASSUME IInv, SrvUnbind
  PROVE  IInv'
<1>1. /\ ServerReads("unbind") /\ Answer("unbindOk", None) /\ srv = "open" /\ None \in Arg
      /\ srv' = srv /\ incidents' = incidents /\ srvConsumers' = srvConsumers
      /\ srvBindings' = srvBindings \ {Subject}
  BY DEF SrvUnbind, Arg
<1>2. /\ link /\ ~IsOpening /\ ~IsOpening' /\ UNCHANGED clientVars /\ Subject \in Arg
      /\ Phases' /\ Shut' /\ AllAreSent' /\ Ordered(toServer)'
      /\ \A t : Carries(toServer', "consume", t) <=> Carries(toServer, "consume", t)
      /\ \A n : n # "unbind" => Carried(toServer', n) = Carried(toServer, n)
      /\ \A n : n # "unbindOk" => Carried(toClient', n) = Carried(toClient, n)
      /\ Carried(toServer, "unbind") = <<Subject>> \o Carried(toServer', "unbind")
      /\ Carried(toClient', "unbindOk") = Append(Carried(toClient, "unbindOk"), None)
      /\ \A n : Absent(toServer, n) => Absent(toServer', n)
      /\ \A n : n # "unbindOk" => (Absent(toClient, n) => Absent(toClient', n))
  BY <1>1, ServerAnswers
<1>3. \A t : Comes(t)' <=> Comes(t)
  BY <1>1, <1>2 DEF Comes
<1>4. \A k : Binds(toServer', srvBindings', k) <=> Binds(toServer, srvBindings, k)
  BY <1>1, BindsRead, Domains DEF IInv, ServerReads, Subject
<1>5. tasks' = tasks /\ consumers' = consumers /\ bindings' = bindings
  BY <1>2, ClientSame
<1>6. TypeInv'
  BY ServerTypes DEF IInv
<1>7. Backed'
  <2>1. toServer' \in Seq(Message) /\ toClient \in Seq(Message)
    BY <1>1, <1>6, Domains, AfterRead DEF IInv
  <2>2. Carried(toServer', "unbind") \in Seq(Arg) /\ Carried(toClient, "unbindOk") \in Seq(Arg)
    BY <2>1, CarriedType
  <2>3. /\ Len(Carried(toClient', "unbindOk")) = Len(Carried(toClient, "unbindOk")) + 1
        /\ Len(Carried(toServer, "unbind")) = Len(Carried(toServer', "unbind")) + 1
        /\ Len(Carried(toClient, "unbindOk")) \in Nat /\ Len(Carried(toServer', "unbind")) \in Nat
    BY <1>1, <1>2, <2>2, OneMoves
  <2>4. Len(Carried(toClient', "unbindOk")) + Len(Carried(toServer', "unbind"))
          = Len(Carried(toClient, "unbindOk")) + Len(Carried(toServer, "unbind"))
    BY <2>3
  <2> QED
    BY <1>5, <2>4 DEF Backed, IInv
<1>8. Heard'
  BY <1>1, <1>3, <1>5 DEF Heard, IInv
<1>9. Cancelled'
  BY <1>1, <1>2, <1>3, <1>5 DEF Cancelled, IInv
<1>10. Owned'
  <2>1. Matched => Matched'
    BY <1>1, <1>2, <1>5 DEF Matched
  <2> QED
    BY <1>1, <1>2, <2>1, OwnedFrame, ClientSame DEF IInv, NeverLost
<1>11. Forgotten'
  BY <1>1, <1>4, <1>5, ForgottenFrame DEF IInv
<1>12. Restored'
  <2>1. Undisturbed(toServer, toClient) => Undisturbed(toServer', toClient')
    BY <1>2 DEF Undisturbed
  <2> QED
    BY <1>1, <1>2, <1>4, <2>1, RestoredFrame DEF IInv
<1>13. Served'
  BY <1>1, <1>2, <1>3, ServedFrame DEF IInv
<1> QED
  BY <1>2, <1>6, <1>7, <1>8, <1>9, <1>10, <1>11, <1>12, <1>13 DEF IInv

\* basic.consume is carried out.
LEMMA SrvConsumeKeeps ==
  ASSUME IInv, SrvConsume
  PROVE  IInv'
<1>1. /\ ServerReads("consume") /\ Answer("consumeOk", Subject) /\ srv = "open"
      /\ srv' = srv /\ incidents' = incidents /\ srvBindings' = srvBindings
      /\ srvConsumers' = srvConsumers \cup {Subject}
  BY DEF SrvConsume
<1>2. Subject \in Arg
  BY <1>1, AfterRead
<1>3. /\ link /\ ~IsOpening /\ ~IsOpening' /\ UNCHANGED clientVars
      /\ Phases' /\ Shut' /\ AllAreSent' /\ Ordered(toServer)'
      /\ \A a : Carries(toServer, "consume", a) <=> Carries(toServer', "consume", a) \/ Subject = a
      /\ \A n : n # "consume" => Carried(toServer', n) = Carried(toServer, n)
      /\ \A n : n # "consumeOk" => Carried(toClient', n) = Carried(toClient, n)
      /\ Carried(toServer, "consume") = <<Subject>> \o Carried(toServer', "consume")
      /\ Carried(toClient', "consumeOk") = Append(Carried(toClient, "consumeOk"), Subject)
      /\ \A n : Absent(toServer, n) => Absent(toServer', n)
      /\ \A n : n # "consumeOk" => (Absent(toClient, n) => Absent(toClient', n))
  BY <1>1, <1>2, ServerAnswers
<1>4. \A t : Comes(t)' <=> Comes(t)
  BY <1>1, <1>3 DEF Comes
<1>5. \A k : Binds(toServer', srvBindings', k) <=> Binds(toServer, srvBindings, k)
  BY <1>1, BindsRead, Domains DEF IInv, ServerReads, Subject
<1>6. tasks' = tasks /\ consumers' = consumers /\ bindings' = bindings
  BY <1>3, ClientSame
<1>7. TypeInv'
  BY ServerTypes DEF IInv
<1>8. Backed'
  BY <1>3, <1>6 DEF Backed, IInv
<1>9. Heard'
  BY <1>1, <1>4, <1>6 DEF Heard, IInv
<1>10. Cancelled'
  BY <1>1, <1>3, <1>4, <1>6 DEF Cancelled, IInv
<1>11. Owned'
  <2>1. toServer' \in Seq(Message) /\ toClient \in Seq(Message)
    BY <1>1, <1>7, Domains, AfterRead DEF IInv
  <2>2. Carried(toServer', "consume") \in Seq(Arg) /\ Carried(toClient, "consumeOk") \in Seq(Arg)
    BY <2>1, CarriedType
  <2>3. Carried(toClient', "consumeOk") \o Carried(toServer', "consume")
          = Carried(toClient, "consumeOk") \o Carried(toServer, "consume")
    <3>1. Carried(toClient, "consumeOk") \o (<<Subject>> \o Carried(toServer', "consume"))
            = Append(Carried(toClient, "consumeOk"), Subject) \o Carried(toServer', "consume")
      BY <1>2, <2>2, OneMoves
    <3> QED
      BY <1>3, <3>1
  <2>4. Matched => Matched'
    BY <1>1, <1>6, <2>3 DEF Matched
  <2> QED
    BY <1>1, <1>3, <2>4, OwnedFrame, ClientSame DEF IInv, NeverLost
<1>12. Forgotten'
  BY <1>1, <1>5, <1>6, ForgottenFrame DEF IInv
<1>13. Restored'
  <2>1. Undisturbed(toServer, toClient) => Undisturbed(toServer', toClient')
    BY <1>3 DEF Undisturbed
  <2> QED
    BY <1>1, <1>3, <1>5, <2>1, RestoredFrame DEF IInv
<1>14. Served'
  BY <1>1, <1>3, <1>4, ServedFrame DEF IInv
<1> QED
  BY <1>3, <1>7, <1>8, <1>9, <1>10, <1>11, <1>12, <1>13, <1>14 DEF IInv

\* basic.cancel is carried out.
LEMMA SrvCancelKeeps ==
  ASSUME IInv, SrvCancel
  PROVE  IInv'
<1>1. /\ ServerReads("cancel") /\ Answer("cancelOk", Subject) /\ srv = "open"
      /\ srv' = srv /\ incidents' = incidents /\ srvBindings' = srvBindings
      /\ srvConsumers' = srvConsumers \ {Subject}
  BY DEF SrvCancel
<1>2. PICK t \in Arg : t = Subject /\ ~Carries(toServer', "consume", t)
  BY <1>1, AfterRead
<1>3. /\ link /\ ~IsOpening /\ ~IsOpening' /\ UNCHANGED clientVars
      /\ Phases' /\ Shut' /\ AllAreSent' /\ Ordered(toServer)'
      /\ \A a : Carries(toServer', "consume", a) <=> Carries(toServer, "consume", a)
      /\ \A a : Carries(toServer, "cancel", a) <=> Carries(toServer', "cancel", a) \/ t = a
      /\ \A n : n # "cancel" => Carried(toServer', n) = Carried(toServer, n)
      /\ \A n : n # "cancelOk" => Carried(toClient', n) = Carried(toClient, n)
      /\ Carried(toServer, "cancel") = <<t>> \o Carried(toServer', "cancel")
      /\ Carried(toClient', "cancelOk") = Append(Carried(toClient, "cancelOk"), t)
      /\ \A n : Absent(toServer, n) => Absent(toServer', n)
      /\ \A n : n # "cancelOk" => (Absent(toClient, n) => Absent(toClient', n))
  BY <1>1, <1>2, ServerAnswers
<1>4. \A a : Comes(a)' <=> Comes(a) /\ a # t
  BY <1>1, <1>2, <1>3 DEF Comes
<1>5. \A k : Binds(toServer', srvBindings', k) <=> Binds(toServer, srvBindings, k)
  BY <1>1, BindsRead, Domains DEF IInv, ServerReads, Subject
<1>6. tasks' = tasks /\ consumers' = consumers /\ bindings' = bindings
  BY <1>3, ClientSame
<1>7. TypeInv'
  BY ServerTypes DEF IInv
<1>8. Backed'
  BY <1>3, <1>6 DEF Backed, IInv
<1>9. Heard'
  BY <1>1, <1>4, <1>6 DEF Heard, IInv
<1>10. Carried(toServer', "cancel") \in Seq(Arg) /\ Carried(toClient, "cancelOk") \in Seq(Arg)
  <2>1. toServer' \in Seq(Message) /\ toClient \in Seq(Message)
    BY <1>1, <1>7, Domains, AfterRead DEF IInv
  <2> QED
    BY <2>1, CarriedType
<1>11. Cancelled'
  <2>1. PICK gone \in Seq(Arg) :
             /\ Waiting(tasks, "cancel") = gone \o Carried(toServer, "cancel")
             /\ Len(Carried(toClient, "cancelOk")) <= Len(gone)
             /\ \A i \in 1..Len(gone) : ~Comes(gone[i])
    BY <1>1 DEF Cancelled, IInv
  <2> DEFINE more == Append(gone, t)
  <2>2. more \in Seq(Arg) /\ Waiting(tasks', "cancel") = more \o Carried(toServer', "cancel")
    <3>1. /\ more \in Seq(Arg)
          /\ gone \o (<<t>> \o Carried(toServer', "cancel")) = more \o Carried(toServer', "cancel")
      BY <1>10, OneMoves
    <3> HIDE DEF more
    <3> QED
      BY <1>3, <1>6, <2>1, <3>1
  <2>3. Len(Carried(toClient', "cancelOk")) <= Len(more)
    BY <1>2, <1>3, <1>10, <2>1, OneMoves
  <2>4. \A i \in 1..Len(more) : ~Comes(more[i])'
    BY <1>4, <2>1
  <2> HIDE DEF more
  <2> QED
    BY <2>2, <2>3, <2>4, Zenon DEF Cancelled
<1>12. Owned'
  <2>1. Matched => Matched'
    BY <1>1, <1>3, <1>6 DEF Matched
  <2> QED
    BY <1>1, <1>3, <2>1, OwnedFrame, ClientSame DEF IInv, NeverLost
<1>13. Forgotten'
  BY <1>1, <1>5, <1>6, ForgottenFrame DEF IInv
<1>14. Restored'
  <2>1. Undisturbed(toServer, toClient) => Undisturbed(toServer', toClient')
    BY <1>3 DEF Undisturbed
  <2> QED
    BY <1>1, <1>3, <1>5, <2>1, RestoredFrame DEF IInv
<1>15. Served'
  <2>1. Carried(toClient', "cancelOk") \o Carried(toServer', "cancel")
          = Carried(toClient, "cancelOk") \o Carried(toServer, "cancel")
    <3>1. Carried(toClient, "cancelOk") \o (<<t>> \o Carried(toServer', "cancel"))
            = Append(Carried(toClient, "cancelOk"), t) \o Carried(toServer', "cancel")
      BY <1>10, OneMoves
    <3> QED
      BY <1>3, <3>1
  <2>2. Waits(tasks, "cancel", t)
    BY <1>1, <1>3, CancelWaits
  <2> QED
    BY <1>1, <1>3, <1>4, <2>1, <2>2, ServedFrame DEF IInv
<1> QED
  BY <1>3, <1>7, <1>8, <1>9, <1>11, <1>12, <1>13, <1>14, <1>15 DEF IInv

\* queue.delete is carried out.
LEMMA SrvDeleteKeeps ==
  ASSUME IInv, SrvDelete
  PROVE  IInv'
<1>1. /\ ServerReads("delete") /\ Answer("deleteOk", None) /\ srv = "open" /\ None \in Arg
      /\ srv' = srv /\ incidents' = incidents /\ srvConsumers' = {} /\ srvBindings' = {}
  BY DEF SrvDelete, Arg
<1>2. /\ link /\ ~IsOpening /\ ~IsOpening' /\ UNCHANGED clientVars
      /\ Phases' /\ Shut' /\ AllAreSent' /\ Ordered(toServer)'
      /\ \A t : Carries(toServer', "consume", t) <=> Carries(toServer, "consume", t)
      /\ Carries(toServer, "delete", Subject)
      /\ \A n : n # "delete" => Carried(toServer', n) = Carried(toServer, n)
      /\ \A n : n # "deleteOk" => Carried(toClient', n) = Carried(toClient, n)
  BY <1>1, ServerAnswers
<1>3. \A t : Comes(t)' => Comes(t)
  BY <1>1, <1>2 DEF Comes
<1>4. \A k : Binds(toServer', srvBindings', k) => Binds(toServer, srvBindings, k)
  <2>1. \A k : Binds(toServer', {}, k) <=> Binds(toServer, {}, k)
    BY <1>1, BindsRead, Domains DEF IInv, ServerReads
  <2> QED
    BY <1>1, <2>1 DEF Binds
<1>5. tasks' = tasks /\ consumers' = consumers /\ bindings' = bindings
  BY <1>2, ClientSame
<1>6. TypeInv'
  BY ServerTypes DEF IInv
<1>7. Backed'
  BY <1>2, <1>5 DEF Backed, IInv
<1>8. Heard'
  BY <1>1, <1>3, <1>5 DEF Heard, IInv
<1>9. Cancelled'
  BY <1>1, <1>2, <1>3, <1>5 DEF Cancelled, IInv
<1>10. Owned'
  <2>1. Matched => Matched'
    BY <1>1, <1>2, <1>5 DEF Matched
  <2> QED
    BY <1>1, <1>2, <2>1, OwnedFrame, ClientSame DEF IInv, NeverLost
<1>11. Forgotten'
  BY <1>1, <1>4, <1>5, ForgottenFrame DEF IInv
<1>12. Restored' /\ Served'
  <2>1. ~Absent(toServer, "delete")
    BY <1>2 DEF Absent, Carries
  <2>2. ~(incidents \subseteq Harmless)
    BY <1>2, <2>1 DEF IInv, Restored, Undisturbed
  <2> QED
    BY <1>1, <1>2, <2>2, DisturbedFrame DEF IInv
<1> QED
  BY <1>2, <1>6, <1>7, <1>8, <1>9, <1>10, <1>11, <1>12 DEF IInv

\* A channel the server has not open owes nothing; what waits for it waits on.
LEMMA NotOpenFrame ==
  ASSUME IInv, UNCHANGED clientVars, srv' # "open", ~IsOpening',
         NeverLost' => NeverLost,
         Carried(toClient', "consumeOk") = Carried(toClient, "consumeOk"),
         toServer \in Seq(Message)
  PROVE  Heard' /\ Cancelled' /\ Owned'
<1>1. NeverLost /\ Matched => Matched'
  <2>1. ASSUME Matched
        PROVE  \E rest \in Seq(Arg) :
                 Waiting(tasks, "consume") = Carried(toClient, "consumeOk") \o rest
    <3>1. Carried(toServer, "consume") \in Seq(Arg)
      BY CarriedType
    <3> QED
      BY <2>1, <3>1 DEF Matched
  <2>2. tasks' = tasks
    BY ClientSame
  <2> QED
    BY <2>1, <2>2 DEF Matched
<1>2. Owned'
  BY <1>1, OwnedFrame DEF IInv
<1> QED
  BY <1>2 DEF Heard, Cancelled

\* The server answers with channel.close.
LEMMA SrvRefuseKeeps ==
  ASSUME IInv, SrvRefuse
  PROVE  IInv'
<1>1. PICK m \in {"declare", "bind", "consume"} : ServerReads(m)
  BY Zenon DEF SrvRefuse
<1>2. /\ Answer("close", None) /\ srv = "open" /\ None \in Arg /\ "close" \in MethodName
      /\ srv' = "refused" /\ incidents' = incidents \cup {"refuse"} /\ srvConsumers' = {}
      /\ srvBindings' = srvBindings
  BY DEF SrvRefuse, Arg, MethodName
<1>3. /\ link /\ UNCHANGED clientVars /\ toServer \in Seq(Message) /\ Ordered(toServer')
      /\ m # "declare" => Opened(toServer, toClient)
      /\ \A n : /\ n # m => Carried(toServer', n) = Carried(toServer, n)
                /\ Absent(toServer, n) => Absent(toServer', n)
  BY <1>1, AfterRead
<1>4. /\ \A n : n # "close" => /\ Carried(toClient', n) = Carried(toClient, n)
                               /\ Absent(toClient, n) => Absent(toClient', n)
      /\ ~Absent(toClient', "close")
  BY <1>2, AfterAnswer, Domains DEF IInv
<1>5. Opened(toServer', toClient')
  <2>1. CASE m = "declare"
    <3>1. toServer' = <<>> /\ toClient = <<>>
      BY <1>1, <2>1, Reading DEF IInv
    <3>2. \A n : Absent(toServer', n) /\ Absent(toClient, n)
      BY <3>1, WireEmpty
    <3> QED
      BY <1>4, <3>2 DEF Opened
  <2>2. CASE m # "declare"
    BY <1>3, <1>4, <2>2 DEF Opened
  <2> QED
    BY <2>1, <2>2
<1>6. tasks' = tasks /\ consumers' = consumers /\ bindings' = bindings /\ state' = state
  BY <1>3, ClientSame
<1>7. TypeInv'
  BY ServerTypes DEF IInv
<1>8. Phases' /\ ~IsOpening'
  BY <1>2, <1>3, <1>5, PhasesFrame DEF IInv
<1>9. Shut'
  BY <1>2, <1>3, <1>4, <1>6 DEF Shut, IInv
<1>10. AllAreSent' /\ Ordered(toServer)'
  BY <1>3, <1>6 DEF AllAreSent, IInv
<1>11. Backed'
  BY <1>3, <1>4, <1>6 DEF Backed, IInv
<1>12. Heard' /\ Cancelled' /\ Owned'
  BY <1>2, <1>3, <1>4, <1>8, NotOpenFrame, ClientSame DEF NeverLost
<1>13. Forgotten'
  <2>1. \A k : Binds(toServer', srvBindings', k) => Binds(toServer, srvBindings, k)
    BY <1>1, <1>2, BindsTail, Domains DEF IInv, ServerReads
  <2> QED
    BY <1>2, <1>6, <2>1, ForgottenFrame DEF IInv
<1>14. Restored' /\ Served'
  BY <1>2, <1>3, DisturbedFrame DEF IInv, Harmless
<1> QED
  BY <1>7, <1>8, <1>9, <1>10, <1>11, <1>12, <1>13, <1>14 DEF IInv

\* What is forgotten on a channel the server has not open.
LEMMA ForgottenClosed ==
  ASSUME Forgotten, UNCHANGED clientVars, srv' # "open", srv = "closed" => srv' = "closed",
         "unbindLost" \in incidents => "unbindLost" \in incidents',
         Opened(toServer, toClient) => Opened(toServer', toClient'),
         Carried(toClient', "unbindOk") = Carried(toClient, "unbindOk"),
         Carried(toServer', "unbind") = Carried(toServer, "unbind"),
         \A k \in Key : Binds(toServer', srvBindings', k) => Binds(toServer, srvBindings, k)
  PROVE  Forgotten'
<1>1. bindings' = bindings /\ tasks' = tasks /\ link' = link
  BY ClientSame
<1> QED
  BY <1>1 DEF Forgotten

\* What follows on a refused channel is discarded.
LEMMA SrvDiscardKeeps ==
  ASSUME IInv, SrvDiscard
  PROVE  IInv'
<1>1. PICK m \in {"bind", "unbind", "consume", "cancel", "delete", "declare"} : ServerReads(m)
  BY Zenon DEF SrvDiscard
<1>2. /\ srv = "refused" /\ srv' = srv /\ toClient' = toClient /\ incidents' = incidents
      /\ srvBindings' = srvBindings /\ srvConsumers' = srvConsumers
  BY DEF SrvDiscard, brokerVars
<1>3. m # "declare"
  BY <1>1, <1>2, Reading DEF IInv
<1>4. /\ link /\ UNCHANGED clientVars /\ toServer \in Seq(Message) /\ Ordered(toServer')
      /\ toServer' \in Seq(Message) /\ Subject \in Arg
      /\ Opened(toServer, toClient) /\ ~IsOpening
      /\ \A n : /\ Carried(toServer, n) = IF m = n THEN <<Subject>> \o Carried(toServer', n)
                                          ELSE Carried(toServer', n)
                /\ Absent(toServer, n) => Absent(toServer', n)
  BY <1>1, <1>3, AfterRead
<1>5. Opened(toServer', toClient')
  BY <1>2, <1>4 DEF Opened
<1>6. tasks' = tasks /\ consumers' = consumers /\ bindings' = bindings /\ state' = state
      /\ link' = link
  BY <1>4, ClientSame
<1>7. TypeInv'
  BY ServerTypes DEF IInv
<1>8. Phases' /\ ~IsOpening'
  <2>1. srvConsumers' = {}
    BY <1>2 DEF Phases, IInv
  <2> QED
    BY <1>2, <1>4, <1>5, <2>1, PhasesFrame DEF IInv
<1>9. Shut'
  BY <1>2, <1>4, <1>6 DEF Shut, IInv
<1>10. AllAreSent' /\ Ordered(toServer)'
  BY <1>4, <1>6 DEF AllAreSent, IInv
<1>11. /\ Len(Carried(toServer, "unbind")) \in Nat /\ Len(Carried(toServer', "unbind")) \in Nat
       /\ Len(Carried(toClient, "unbindOk")) \in Nat /\ Len(Waiting(tasks, "unbind")) \in Nat
       /\ Len(Carried(toServer, "unbind")) = IF m = "unbind" THEN Len(Carried(toServer', "unbind")) + 1
                                             ELSE Len(Carried(toServer', "unbind"))
  <2>1. /\ Carried(toServer, "unbind") \in Seq(Arg) /\ Carried(toServer', "unbind") \in Seq(Arg)
        /\ Carried(toClient, "unbindOk") \in Seq(Arg) /\ Waiting(tasks, "unbind") \in Seq(Arg)
    BY <1>4, CarriedType, WaitingType, Domains DEF IInv
  <2> QED
    BY <1>4, <2>1, OneMoves
<1>12. Backed'
  BY <1>2, <1>6, <1>11 DEF Backed, IInv
<1>13. Heard' /\ Cancelled' /\ Owned'
  BY <1>2, <1>4, <1>8, NotOpenFrame, ClientSame DEF NeverLost
<1>14. Forgotten'
  <2>1. CASE m = "unbind"
    <3>1. Len(Carried(toClient', "unbindOk")) + Len(Carried(toServer', "unbind"))
            < Len(Waiting(tasks', "unbind"))
      BY <1>2, <1>6, <1>11, <2>1 DEF Backed, IInv
    <3> QED
      BY <1>2, <1>4, <1>5, <1>6, <3>1 DEF Forgotten
  <2>2. CASE m # "unbind"
    <3>1. \A k : Binds(toServer', srvBindings', k) => Binds(toServer, srvBindings, k)
      BY <1>1, <1>2, <2>2, BindsTail, Domains DEF IInv, ServerReads
    <3> QED
      BY <1>2, <1>4, <1>5, <2>2, <3>1, ForgottenClosed DEF IInv
  <2> QED
    BY <2>1, <2>2
<1>15. Restored' /\ Served'
  <2>1. ~(incidents \subseteq Harmless)
    BY <1>2, <1>4 DEF IInv, Restored
  <2> QED
    BY <1>2, <1>4, <2>1, DisturbedFrame DEF IInv
<1> QED
  BY <1>7, <1>8, <1>9, <1>10, <1>12, <1>13, <1>14, <1>15 DEF IInv

\* channel.close and channel.close-ok are read.
LEMMA SrvCloseKeeps ==
  ASSUME IInv, SrvClose \/ SrvCloseOk
  PROVE  IInv'
<1>1. PICK m \in {"close", "closeOk"} :
         /\ ServerReads(m)
         /\ srv' \in {"refused", "closed"}
         /\ srv = "closed" => srv' = "closed"
         /\ \/ toClient' = toClient /\ srvConsumers' = srvConsumers /\ m = "closeOk"
            \/ Answer("closeOk", None) /\ srvConsumers' = {} /\ m = "close"
         /\ incidents' = incidents /\ srvBindings' = srvBindings
  <2>1. CASE SrvClose
    BY <2>1 DEF SrvClose, IInv, TypeInv, TypeOK
  <2>2. CASE SrvCloseOk
    BY <2>2 DEF SrvCloseOk
  <2> QED
    BY <2>1, <2>2
<1>2. /\ link /\ UNCHANGED clientVars /\ toServer \in Seq(Message) /\ Ordered(toServer')
      /\ Opened(toServer, toClient) /\ ~IsOpening
      /\ \A n : /\ n # m => Carried(toServer, n) = Carried(toServer', n)
                /\ Absent(toServer, n) => Absent(toServer', n)
      /\ ~Absent(toServer, m)
  BY <1>1, AfterRead
<1>3. \A n : n # "closeOk" => /\ Carried(toClient', n) = Carried(toClient, n)
                              /\ Absent(toClient, n) => Absent(toClient', n)
  <2>1. CASE toClient' = toClient
    BY <2>1
  <2>2. CASE Answer("closeOk", None)
    <3>1. None \in Arg /\ "closeOk" \in MethodName
      BY DEF Arg, MethodName
    <3> QED
      BY <2>2, <3>1, AfterAnswer, Domains DEF IInv
  <2> QED
    BY <1>1, <2>1, <2>2
<1>4. Opened(toServer', toClient')
  BY <1>2, <1>3 DEF Opened
<1>5. tasks' = tasks /\ consumers' = consumers /\ bindings' = bindings /\ state' = state
      /\ link' = link
  BY <1>2, ClientSame
<1>6. TypeInv'
  BY ServerTypes DEF IInv
<1>7. Phases' /\ ~IsOpening'
  <2>1. srvConsumers' = {}
    BY <1>1, <1>2 DEF Phases, IInv
  <2> QED
    BY <1>1, <1>2, <1>4, <2>1, PhasesFrame DEF IInv
<1>8. Shut'
  <2>1. state # "open"
    BY <1>1, <1>2 DEF Shut, IInv
  <2> QED
    BY <1>5, <2>1 DEF Shut
<1>9. AllAreSent' /\ Ordered(toServer)'
  BY <1>2, <1>5 DEF AllAreSent, IInv
<1>10. Backed'
  BY <1>1, <1>2, <1>3, <1>5 DEF Backed, IInv
<1>11. Heard' /\ Cancelled' /\ Owned'
  BY <1>1, <1>2, <1>3, <1>7, NotOpenFrame, ClientSame DEF NeverLost
<1>12. Forgotten'
  <2>1. \A k : Binds(toServer', srvBindings', k) => Binds(toServer, srvBindings, k)
    BY <1>1, BindsTail, Domains DEF IInv, ServerReads
  <2> QED
    BY <1>1, <1>2, <1>3, <1>4, <2>1, ForgottenClosed DEF IInv
<1>13. Restored' /\ Served'
  <2>1. ~(incidents \subseteq Harmless)
    BY <1>1, <1>2 DEF IInv, Restored, Undisturbed
  <2> QED
    BY <1>1, <1>2, <2>1, DisturbedFrame DEF IInv
<1> QED
  BY <1>6, <1>7, <1>8, <1>9, <1>10, <1>11, <1>12, <1>13 DEF IInv

\* What the wires carry while a channel is being opened.
LEMMA OpeningWires ==
  ASSUME NEW out, NEW in, NEW server, NEW st, Opening(out, in, server, st)
  PROVE  /\ out \in Seq(Message) /\ in \in Seq(Message) /\ Ordered(out) /\ ~Opened(out, in)
         /\ server \in {"open", "closed"} /\ st \in {"closed", "declare queue"}
         /\ \A n : n \notin {"channelOpen", "declare"} =>
              Carried(out, n) = <<>> /\ Absent(out, n) /\ \A a : ~Carries(out, n, a)
         /\ \A n : n \notin {"channelOpenOk", "declareOk"} => Carried(in, n) = <<>> /\ Absent(in, n)
         /\ \A bound, k : Binds(out, bound, k) <=> k \in bound
<1> DEFINE Lone(w, x) == w = <<>> \/ \E m \in x : w = Method(m, None)
<1>1. ASSUME NEW w, NEW x, x \subseteq MethodName, "bind" \notin x, "unbind" \notin x,
             "consume" \notin x, Lone(w, x)
      PROVE  /\ w \in Seq(Message) /\ Ordered(w)
             /\ \A n : n \notin x =>
                  Carried(w, n) = <<>> /\ Absent(w, n) /\ \A a : ~Carries(w, n, a)
             /\ \A bound, k : Binds(w, bound, k) <=> k \in bound
  <2>1. CASE w = <<>>
    BY <2>1, WireEmpty
  <2>2. CASE \E m \in x : w = Method(m, None)
    <3>1. PICK m \in x : w = Method(m, None)
      BY <2>2
    <3> DEFINE e == [m |-> m, arg |-> None]
    <3>2. e \in Message /\ e.m = m /\ m \in x /\ w = Append(<<>>, e)
      BY <1>1, <3>1 DEF Message, Arg, Method
    <3> HIDE DEF e
    <3>3. /\ <<>> \in Seq(Message) /\ Ordered(<<>>)
          /\ \A n : Carried(<<>>, n) = <<>> /\ Absent(<<>>, n) /\ \A a : ~Carries(<<>>, n, a)
          /\ \A bound, k : Binds(<<>>, bound, k) <=> k \in bound
      BY WireEmpty
    <3>4. \A bound, k : Binds(Append(<<>>, e), bound, k) <=>
            \/ e.m = "bind" /\ e.arg = k
            \/ Binds(<<>>, bound, k) /\ ~(e.m = "unbind" /\ e.arg = k)
      BY <3>2, <3>3, BindsAppend
    <3>5. \A bound, k : Binds(w, bound, k) <=> k \in bound
      BY <1>1, <3>2, <3>3, <3>4
    <3>6. /\ Append(<<>>, e) \in Seq(Message)
          /\ \A n : /\ Carried(Append(<<>>, e), n) =
                          IF e.m = n THEN Append(Carried(<<>>, n), e.arg) ELSE Carried(<<>>, n)
                    /\ Absent(Append(<<>>, e), n) <=> Absent(<<>>, n) /\ e.m # n
                    /\ \A a : Carries(Append(<<>>, e), n, a) <=>
                                Carries(<<>>, n, a) \/ (e.m = n /\ e.arg = a)
          /\ Ordered(<<>>) /\ (e.m = "consume" => ~Carries(<<>>, "cancel", e.arg))
               => Ordered(Append(<<>>, e))
      BY <3>2, <3>3, WireAppend
    <3> QED
      BY <1>1, <3>2, <3>3, <3>5, <3>6
  <2> QED
    BY <1>1, <2>1, <2>2 DEF Lone
<1>2. Lone(out, {"channelOpen", "declare"}) /\ Lone(in, {"channelOpenOk", "declareOk"})
  BY DEF Opening
<1> HIDE DEF Lone
<1>3. /\ out \in Seq(Message) /\ Ordered(out)
      /\ \A n : n \notin {"channelOpen", "declare"} =>
           Carried(out, n) = <<>> /\ Absent(out, n) /\ \A a : ~Carries(out, n, a)
      /\ \A bound, k : Binds(out, bound, k) <=> k \in bound
  BY <1>1, <1>2 DEF MethodName
<1>4. /\ in \in Seq(Message)
      /\ \A n : n \notin {"channelOpenOk", "declareOk"} => Carried(in, n) = <<>> /\ Absent(in, n)
  BY <1>1, <1>2 DEF MethodName
<1>5. server \in {"open", "closed"} /\ st \in {"closed", "declare queue"}
  BY DEF Opening
<1> QED
  BY <1>3, <1>4, <1>5, OpenedIsNot

\* The opening of a channel, from the first of its messages to the last.
LEMMA NowOpening ==
  ASSUME IInv, IsOpening \/ ~link, IsOpening', link', TypeInv',
         ~tracked' => state' = "closed",
         UNCHANGED <<options, tracked, registered, bindings, consumers, tasks, losses>>,
         UNCHANGED <<known, wanted, active, srvBindings, srvConsumers, incidents>>
  PROVE  IInv'
<1>1. /\ srvConsumers = {} /\ ~(link /\ srv # "open" /\ Opened(toServer, toClient))
      /\ Carried(toServer, "cancel") = <<>> /\ Carried(toClient, "cancelOk") = <<>>
      /\ \A bound, k : Binds(toServer, bound, k) <=> k \in bound
  <2>1. CASE IsOpening
    <3>1. Opening(toServer, toClient, srv, state)
      BY <2>1 DEF IsOpening
    <3>2. srvConsumers = {}
      BY <2>1 DEF IInv, Phases
    <3> QED
      BY <3>1, <3>2, OpeningWires
  <2>2. CASE ~link
    <3>1. toServer = <<>> /\ toClient = <<>> /\ srvConsumers = {}
      BY <2>2 DEF IInv, Phases
    <3> QED
      BY <2>2, <3>1, WireEmpty
  <2> QED
    BY <2>1, <2>2
<1>2. /\ Ordered(toServer') /\ state' # "open" /\ srv' \in {"open", "closed"}
      /\ \A n : n \notin {"channelOpen", "declare"} =>
           /\ Carried(toServer', n) = <<>> /\ Absent(toServer', n)
           /\ \A a : ~Carries(toServer', n, a)
      /\ \A n : n \notin {"channelOpenOk", "declareOk"} =>
           Carried(toClient', n) = <<>> /\ Absent(toClient', n)
      /\ \A bound, k : Binds(toServer', bound, k) <=> k \in bound
  <2>1. Opening(toServer', toClient', srv', state')
    BY DEF IsOpening
  <2> QED
    BY <2>1, OpeningWires
<1>3. Phases'
  BY <1>1, <1>2 DEF Phases
<1>4. Shut' /\ AllAreSent' /\ Ordered(toServer)'
  BY <1>2 DEF Shut, AllAreSent, IInv
<1>5. Waiting(tasks, "cancel") \in Seq(Arg) /\ Waiting(tasks, "unbind") \in Seq(Arg)
  BY WaitingType, Domains DEF IInv
<1>6. Backed'
  BY <1>2, <1>5 DEF Backed
<1>7. \A t : ~Comes(t)'
  BY <1>1, <1>2 DEF Comes
<1>8. Heard'
  BY <1>7 DEF Heard
<1>9. Cancelled'
  <2> DEFINE gone == Waiting(tasks, "cancel")
  <2>1. gone \o <<>> = gone
    BY <1>5, ConcatEmptySeq
  <2> HIDE DEF gone
  <2>2. Waiting(tasks', "cancel") = gone \o Carried(toServer', "cancel")
    BY <1>2, <2>1 DEF gone
  <2>3. Len(Carried(toClient', "cancelOk")) <= Len(gone) /\ gone \in Seq(Arg)
    BY <1>2, <1>5 DEF gone
  <2> QED
    BY <1>7, <2>2, <2>3, Zenon DEF Cancelled
<1>10. Owned'
  <2> SUFFICES ASSUME NeverLost' PROVE Owned'
    BY DEF Owned
  <2>1. /\ tasks = <<>> /\ OwnTags /\ TagIsOwn
        /\ \A c \in consumers : c.state # "closed"
    BY DEF IInv, Owned, NeverLost
  <2>2. OwnTags' /\ TagIsOwn'
    BY <2>1 DEF OwnTags, TagIsOwn
  <2>3. Matched'
    <3>1. Waiting(tasks', "consume") = <<>>
      BY <2>1, ChosenEmpty DEF Waiting
    <3>2. Carried(toClient', "consumeOk") \o Carried(toServer', "consume") = <<>>
      BY <1>2
    <3>3. Waiting(tasks', "consume")
            = Carried(toClient', "consumeOk") \o Carried(toServer', "consume")
      BY <3>1, <3>2
    <3>4. PICK rest \in Seq(Arg) : rest = Carried(toServer', "consume")
      <4>1. Carried(toServer', "consume") = <<>> /\ <<>> \in Seq(Arg)
        BY <1>2
      <4> QED
        BY <4>1
    <3> QED
      BY <3>3, <3>4 DEF Matched
  <2> QED
    BY <2>1, <2>2, <2>3 DEF Owned
<1>11. Forgotten'
  BY <1>1, <1>2 DEF Forgotten, IInv
<1>12. Restored'
  <2>1. /\ \A k \in wanted : bindings[k] > 0
        /\ incidents \subseteq Harmless => tracked /\ (losses = 0 => link)
        /\ incidents \subseteq Harmless /\ IsOpening /\ options.noDeclare /\ losses = 0 =>
             wanted = {}
    BY DEF Restored, IInv
  <2> QED
    BY <2>1 DEF Restored
<1>13. Served'
  <2> SUFFICES ASSUME incidents \subseteq {"unbindLost"}, Restores PROVE Served'
    BY DEF Served, Restores
  <2>1. options.noDeclare => IsOpening
    <3>1. incidents \subseteq Harmless
      BY DEF Harmless
    <3> QED
      BY <3>1 DEF Restored, Restores, IInv
  <2>2. Waiting(tasks, "cancel") = Carried(toClient, "cancelOk") \o Carried(toServer, "cancel")
    BY DEF Served, IInv
  <2>3. Waiting(tasks', "cancel") = Carried(toClient', "cancelOk") \o Carried(toServer', "cancel")
    BY <1>1, <1>2, <2>2
  <2>4. /\ \A c, d \in consumers' : c.sub = d.sub => c = d
        /\ \A s \in Sub : active'[s] = "asked" => \E c \in consumers' : c.sub = s
        /\ \A c \in consumers' :
             /\ active'[c.sub] # "idle"
             /\ active'[c.sub] = "asked" => ~Waits(tasks', "cancel", c.tag)
             /\ active'[c.sub] = "stopped" => Waits(tasks', "cancel", c.tag)
             /\ c.state = "closed"
        /\ options'.noDeclare => consumers' = {}
    BY <2>1 DEF Served, IInv
  <2> QED
    BY <2>3, <2>4 DEF Served
<1> QED
  BY <1>3, <1>4, <1>6, <1>8, <1>9, <1>10, <1>11, <1>12, <1>13 DEF IInv

\* An answer on an empty wire.
LEMMA AnswersAlone ==
  ASSUME toClient = <<>>, NEW r, Answer(r, None)
  PROVE  toClient' = Method(r, None)
<1> DEFINE a == [m |-> r, arg |-> None]
<1>1. toClient' = <<>> \o <<a>>
  BY DEF Answer, Method
<1> HIDE DEF a
<1>2. <<>> \o <<a>> = <<a>>
  OBVIOUS
<1> QED
  BY <1>1, <1>2 DEF Method, a

\* channel.open and queue.declare are read.
LEMMA SrvOpenKeeps ==
  ASSUME IInv, SrvChannelOpen \/ SrvDeclare
  PROVE  IInv'
<1>1. TypeInv'
  BY ServerTypes DEF IInv
<1>2. CASE SrvChannelOpen
  <2>1. /\ ServerReads("channelOpen") /\ Answer("channelOpenOk", None) /\ srv' = "open"
        /\ UNCHANGED <<srvBindings, srvConsumers, incidents>>
    BY <1>2 DEF SrvChannelOpen
  <2>2. toServer' = <<>> /\ toClient = <<>> /\ state = "closed" /\ IsOpening
    BY <2>1, Reading DEF IInv
  <2>3. toClient' = Method("channelOpenOk", None) /\ state' = "closed"
    BY <2>1, <2>2, AnswersAlone, ClientSame DEF ServerReads
  <2>4. IsOpening'
    BY <2>1, <2>2, <2>3 DEF IsOpening, Opening
  <2>5. UNCHANGED clientVars /\ link
    BY <2>1, AfterRead
  <2> QED
    BY <1>1, <2>1, <2>2, <2>4, <2>5, ClientSame, NowOpening
<1>3. CASE SrvDeclare
  <2>1. /\ ServerReads("declare") /\ Answer("declareOk", None) /\ srv = "open" /\ srv' = srv
        /\ UNCHANGED <<srvBindings, srvConsumers, incidents>>
    BY <1>3 DEF SrvDeclare
  <2>2. toServer' = <<>> /\ toClient = <<>> /\ state = "declare queue" /\ IsOpening
    BY <2>1, Reading DEF IInv
  <2>3. toClient' = Method("declareOk", None) /\ state' = "declare queue"
    BY <2>1, <2>2, AnswersAlone, ClientSame DEF ServerReads
  <2>4. IsOpening'
    BY <2>1, <2>2, <2>3 DEF IsOpening, Opening
  <2>5. /\ UNCHANGED clientVars /\ link /\ tracked
    BY <2>1, <2>2, AfterRead DEF IInv, Phases
  <2> QED
    BY <1>1, <2>1, <2>2, <2>4, <2>5, ClientSame, NowOpening
<1> QED
  BY <1>2, <1>3

\* Messages of one method more.
LEMMA WireMore ==
  ASSUME NEW w \in Seq(Message), NEW x, NEW more \in Seq(Message),
         \A i \in 1..Len(more) : more[i].m = x
  PROVE  \A n : n # x => /\ Carried(w \o more, n) = Carried(w, n)
                         /\ Absent(w, n) => Absent(w \o more, n)
                         /\ ~Absent(w, n) => ~Absent(w \o more, n)
<1> SUFFICES ASSUME NEW n, n # x
             PROVE  /\ Carried(w \o more, n) = Carried(w, n)
                    /\ Absent(w, n) <=> Absent(w \o more, n)
  OBVIOUS
<1>1. w \in Seq(Item) /\ more \in Seq(Item) /\ w \o more \in Seq(Message)
  BY NamedIs
<1>2. Absent(more, n)
  BY DEF Absent
<1>3. Carried(more, n) = <<>>
  BY <1>2, CarriedType
<1>4. Carried(w \o more, n) = Carried(w, n) \o Carried(more, n)
  BY <1>1, ChosenConcat DEF Carried
<1>5. Carried(w, n) \in Seq(Arg)
  BY CarriedType
<1>6. Carried(w \o more, n) = Carried(w, n)
  BY <1>3, <1>4, <1>5, ConcatEmptySeq
<1> QED
  BY <1>1, <1>6, CarriedType

\* The queue is deleted by somebody else.
LEMMA SrvQueueDeletedKeeps ==
  ASSUME IInv, SrvQueueDeleted
  PROVE  IInv'
<1>1. /\ srvBindings' = {} /\ srvConsumers' = {} /\ incidents' = incidents \cup {"deleted"}
      /\ UNCHANGED clientVars /\ toServer' = toServer /\ srv' = srv
  BY DEF SrvQueueDeleted
<1>2. toClient \in Seq(Message) /\ toServer \in Seq(Message) /\ <<>> \in Seq(Message)
  BY Domains, WireEmpty DEF IInv
<1>3. PICK more \in Seq(Message) : /\ toClient' = toClient \o more
                                   /\ \A i \in 1..Len(more) : more[i].m = "basicCancel"
                                   /\ srvConsumers = {} => more = <<>>
  <2>1. PICK tags \in SetToSeqs(srvConsumers) :
             toClient' = toClient \o [i \in 1..Len(tags) |-> [m |-> "basicCancel", arg |-> None]]
    BY Zenon DEF SrvQueueDeleted
  <2> DEFINE more == [i \in 1..Len(tags) |-> [m |-> "basicCancel", arg |-> None]]
  <2>2. IsFiniteSet(srvConsumers)
    <3>1. srvConsumers \subseteq Tag /\ nextTag \in Nat
      BY DEF IInv, TypeInv, TypeOK
    <3>2. IsFiniteSet(1..(nextTag - 1))
      BY <3>1, FS_Interval
    <3> QED
      BY <3>1, <3>2, FS_Subset DEF Tag
  <2>3. tags \in Seq(srvConsumers)
    BY <2>2, InARow
  <2>4. [m |-> "basicCancel", arg |-> None] \in Message
    BY DEF Message, MethodName, Arg
  <2>5. more \in Seq(Message) /\ \A i \in 1..Len(more) : more[i].m = "basicCancel"
    BY <2>3, <2>4
  <2>6. srvConsumers = {} => more = <<>>
    BY <2>3
  <2> QED
    BY <2>1, <2>5, <2>6
<1>4. \A n : n # "basicCancel" =>
        /\ Carried(toClient', n) = Carried(toClient, n)
        /\ Absent(toClient, n) => Absent(toClient', n)
        /\ ~Absent(toClient, n) => ~Absent(toClient', n)
  <2> DEFINE both == toClient \o more
  <2>1. \A n : n # "basicCancel" =>
          /\ Carried(both, n) = Carried(toClient, n)
          /\ Absent(toClient, n) => Absent(both, n)
          /\ ~Absent(toClient, n) => ~Absent(both, n)
    BY <1>2, <1>3, WireMore
  <2>2. toClient' = both
    BY <1>3
  <2> HIDE DEF both
  <2> QED
    BY <2>1, <2>2
<1>5. /\ tasks' = tasks /\ consumers' = consumers /\ bindings' = bindings /\ state' = state
      /\ link' = link /\ tracked' = tracked
  BY <1>1, ClientSame
<1>6. IsOpening => IsOpening'
  <2>1. IsOpening => toClient' = toClient
    <3>1. IsOpening => srvConsumers = {}
      BY DEF IInv, Phases
    <3>2. toClient \o <<>> = toClient
      BY <1>2, ConcatEmptySeq
    <3> QED
      BY <1>3, <3>1, <3>2
  <2> QED
    BY <1>1, <1>5, <2>1 DEF IsOpening
<1>7. Opened(toServer, toClient) => Opened(toServer', toClient')
  BY <1>1, <1>4 DEF Opened
<1>8. IsOpening' => IsOpening
  <2>1. IsOpening \/ Opened(toServer, toClient)
    BY DEF IInv, Phases
  <2> QED
    BY <1>7, <2>1, OpenedIsNot DEF IsOpening
<1>9. TypeInv'
  BY QueueDeletedTypes DEF IInv
<1>10. Phases'
  <2>1. /\ ~tracked' => state' = "closed"
        /\ IsOpening' \/ Opened(toServer', toClient')
        /\ srv' = "open" => Absent(toServer', "closeOk") /\ Absent(toClient', "close")
    BY <1>1, <1>4, <1>5, <1>6, <1>7 DEF IInv, Phases
  <2>2. ~link' => toServer' = <<>> /\ toClient' = <<>> /\ srv' = "closed" /\ state' = "closed"
    <3> SUFFICES ASSUME ~link PROVE toServer' = <<>> /\ toClient' = <<>> /\ srv' = "closed" /\ state' = "closed"
      BY <1>5
    <3>1. toServer = <<>> /\ toClient = <<>> /\ srv = "closed" /\ state = "closed" /\ srvConsumers = {}
      BY DEF IInv, Phases
    <3> QED
      BY <1>1, <1>2, <1>3, <1>5, <3>1, ConcatEmptySeq
  <2> QED
    BY <1>1, <2>1, <2>2 DEF Phases
<1>11. Shut'
  BY <1>1, <1>4, <1>5 DEF Shut, IInv
<1>12. AllAreSent' /\ Ordered(toServer)'
  BY <1>1, <1>5 DEF AllAreSent, IInv
<1>13. Backed'
  BY <1>1, <1>4, <1>5 DEF Backed, IInv
<1>14. \A t : Comes(t)' => Comes(t)
  BY <1>1 DEF Comes
<1>15. Heard'
  BY <1>1, <1>5, <1>14 DEF Heard, IInv
<1>16. Cancelled'
  BY <1>1, <1>4, <1>5, <1>14 DEF Cancelled, IInv
<1>17. Owned'
  <2>1. CASE NeverLost
    <3>1. Matched'
      BY <1>1, <1>4, <1>5, <2>1 DEF IInv, Owned, Matched
    <3>2. /\ link' /\ IsOpening' => tasks' = <<>>
          /\ \A c \in consumers' : c.state # "closed"
      BY <1>5, <1>8, <2>1 DEF IInv, Owned
    <3>3. OwnTags' /\ TagIsOwn'
      BY <1>1, <2>1, ClientSame DEF IInv, Owned, OwnTags, TagIsOwn
    <3> QED
      BY <1>5, <2>1, <3>1, <3>2, <3>3 DEF Owned, IInv
  <2>2. CASE ~NeverLost
    BY <1>1, <2>2, ClientSame DEF Owned, NeverLost
  <2> QED
    BY <2>1, <2>2
<1>18. Forgotten'
  <2>1. \A k \in Key : Binds(toServer', srvBindings', k) => Binds(toServer, srvBindings, k)
    BY <1>1 DEF Binds
  <2> QED
    BY <1>1, <1>4, <1>5, <1>7, <2>1 DEF Forgotten, IInv
<1>19. Restored' /\ Served'
  BY <1>1, DisturbedFrame DEF IInv, Harmless
<1> QED
  BY <1>9, <1>10, <1>11, <1>12, <1>13, <1>15, <1>16, <1>17, <1>18, <1>19 DEF IInv

-----------------------------------------------------------------------------
(* What the application does keeps the invariant *)

\* It calls a queue that is open, on a connection that is usable.
LEMMA Calling ==
  ASSUME IInv, "whileDown" \notin Faults, Calls
  PROVE  state = "open" /\ link /\ tracked /\ ~IsOpening /\ Opened(toServer, toClient)
<1>1. state = "open" /\ tracked
  BY DEF Calls
<1>2. link
  BY <1>1 DEF IInv, Phases
<1>3. ~IsOpening
  BY <1>1 DEF IsOpening, Opening
<1> QED
  BY <1>1, <1>2, <1>3 DEF IInv, Phases

\* The wire after the client has written to it.
LEMMA AfterWrite ==
  ASSUME toServer \in Seq(Message), NEW m \in MethodName, NEW arg \in Arg,
         toServer' = toServer \o Method(m, arg)
  PROVE  /\ toServer' \in Seq(Message)
         /\ \A n : /\ Carried(toServer', n) = IF m = n THEN Append(Carried(toServer, n), arg)
                                              ELSE Carried(toServer, n)
                   /\ Absent(toServer', n) <=> Absent(toServer, n) /\ m # n
                   /\ \A a : Carries(toServer', n, a) <=>
                               Carries(toServer, n, a) \/ (m = n /\ arg = a)
         /\ Ordered(toServer) /\ (m = "consume" => ~Carries(toServer, "cancel", arg))
              => Ordered(toServer')
         /\ \A bound, k : Binds(toServer', bound, k) <=>
              \/ m = "bind" /\ arg = k
              \/ Binds(toServer, bound, k) /\ ~(m = "unbind" /\ arg = k)
<1> DEFINE e == [m |-> m, arg |-> arg]
<1>1. e \in Message
  BY DEF Message
<1>2. e.m = m /\ e.arg = arg
  OBVIOUS
<1>3. toServer' = Append(toServer, e)
  BY MethodIs
<1> HIDE DEF e
<1>4. \A bound, k : Binds(toServer', bound, k) <=>
        \/ m = "bind" /\ arg = k
        \/ Binds(toServer, bound, k) /\ ~(m = "unbind" /\ arg = k)
  <2>1. \A bound, k : Binds(Append(toServer, e), bound, k) <=>
          \/ e.m = "bind" /\ e.arg = k
          \/ Binds(toServer, bound, k) /\ ~(e.m = "unbind" /\ e.arg = k)
    BY <1>1, BindsAppend
  <2> QED
    BY <1>2, <1>3, <2>1
<1>5. /\ toServer' \in Seq(Message)
      /\ \A n : /\ Carried(toServer', n) = IF m = n THEN Append(Carried(toServer, n), arg)
                                           ELSE Carried(toServer, n)
                /\ Absent(toServer', n) <=> Absent(toServer, n) /\ m # n
                /\ \A a : Carries(toServer', n, a) <=>
                            Carries(toServer, n, a) \/ (m = n /\ arg = a)
      /\ Ordered(toServer) /\ (m = "consume" => ~Carries(toServer, "cancel", arg))
           => Ordered(toServer')
  BY <1>1, <1>2, <1>3, WireAppend
<1> QED
  BY <1>4, <1>5

\* The tasks after one was pushed.
LEMMA AfterPush ==
  ASSUME IInv, state = "open", link, NEW T, Tag \subseteq T, T \subseteq Nat,
         NEW task \in TaskOn(T), ~task.sent, NEW cons, TaskPush(task, cons)
  PROVE  /\ toServer' = toServer \o Method(task.op, task.arg)
         /\ task.op \in MethodName /\ task.arg \in Arg
         /\ registered' = (registered /\ task.op # "delete")
         /\ consumers' = MarkOpen(cons, Append(tasks, task))
         /\ DueTags(Append(tasks, task)) = IF task.op = "consume" THEN {task.arg} ELSE {}
         /\ AllAreSent'
         /\ \A op : /\ Waiting(tasks', op) = IF task.op = op THEN Append(Waiting(tasks, op), task.arg)
                                             ELSE Waiting(tasks, op)
                    /\ \A a : Waits(tasks', op, a) <=>
                                Waits(tasks, op, a) \/ (task.op = op /\ task.arg = a)
         /\ \A i \in 1..Len(tasks') :
              \/ i \in 1..Len(tasks) /\ tasks'[i] = tasks[i]
              \/ tasks'[i].op = task.op /\ tasks'[i].arg = task.arg /\ tasks'[i].sub = task.sub
<1>1. registered \in BOOLEAN /\ tasks \in Seq(TaskOn(Tag)) /\ tasks \in Seq(Entry) /\ Sent(tasks)
  BY Domains, ClientTypes DEF IInv, AllAreSent
<1>2. PICK sent \in TaskOn(T) :
           /\ sent.sent /\ sent.op = task.op /\ sent.arg = task.arg /\ sent.sub = task.sub
           /\ tasks' = Append(tasks, sent)
           /\ toServer' = toServer \o <<[m |-> task.op, arg |-> task.arg]>>
           /\ registered' = (registered /\ task.op # "delete")
           /\ consumers' = MarkOpen(cons, Append(tasks, task))
           /\ DueTags(Append(tasks, task)) = IF task.op = "consume" THEN {task.arg} ELSE {}
  BY <1>1, PushSent
<1>3. sent \in Entry /\ task \in Entry
  BY AreItems
<1>4. /\ Len(tasks') = Len(tasks) + 1 /\ Len(tasks) \in Nat
      /\ tasks'[Len(tasks) + 1] = sent /\ \A i \in 1..Len(tasks) : tasks'[i] = tasks[i]
  BY <1>1, <1>2, <1>3, AppendProperties
<1>5. \A i \in 1..Len(tasks') : i \in 1..Len(tasks) \/ i = Len(tasks) + 1
  BY <1>4
<1>6. AllAreSent'
  BY <1>1, <1>2, <1>4, <1>5 DEF AllAreSent, Sent
<1>7. \A op : /\ Waiting(tasks', op) = IF task.op = op THEN Append(Waiting(tasks, op), task.arg)
                                       ELSE Waiting(tasks, op)
              /\ \A a : Waits(tasks', op, a) <=>
                          Waits(tasks, op, a) \/ (task.op = op /\ task.arg = a)
  BY <1>1, <1>2, <1>3, TasksAppend
<1>8. task.op \in MethodName /\ task.arg \in Arg
  BY <1>3 DEF Entry, MethodName
<1>9. toServer' = toServer \o Method(task.op, task.arg)
  BY <1>2 DEF Method
<1>10. \A i \in 1..Len(tasks') :
         \/ i \in 1..Len(tasks) /\ tasks'[i] = tasks[i]
         \/ tasks'[i].op = task.op /\ tasks'[i].arg = task.arg /\ tasks'[i].sub = task.sub
  BY <1>2, <1>4, <1>5
<1> QED
  BY <1>2, <1>6, <1>7, <1>8, <1>9, <1>10

\* The part of the invariant about the channel alone, when the application calls.
LEMMA CallPhases ==
  ASSUME IInv, "whileDown" \notin Faults, Calls,
         NEW m \in {"bind", "unbind", "consume", "cancel", "delete", "close"}, NEW arg \in Arg,
         toServer' = toServer \o Method(m, arg), m = "close" => state' # "open",
         UNCHANGED <<tracked, link, toClient, srv, srvConsumers>>
  PROVE  ~IsOpening' /\ Phases' /\ Shut'
<1>1. state = "open" /\ link /\ tracked /\ ~IsOpening /\ Opened(toServer, toClient)
  BY Calling
<1>2. \A n : Absent(toServer', n) <=> Absent(toServer, n) /\ m # n
  <2>1. m \in MethodName /\ toServer \in Seq(Message)
    BY Domains DEF MethodName, IInv
  <2> QED
    BY <2>1, AfterWrite
<1>3. Opened(toServer', toClient')
  BY <1>1, <1>2 DEF Opened
<1>4. ~IsOpening'
  BY <1>3, OpenedIsNot DEF IsOpening
<1>5. Phases'
  <2>1. srv' # "open" => srvConsumers' = {}
    BY DEF IInv, Phases
  <2>2. srv' = "open" => Absent(toServer', "closeOk") /\ Absent(toClient', "close")
    BY <1>2 DEF IInv, Phases
  <2> QED
    BY <1>1, <1>3, <1>4, <2>1, <2>2 DEF Phases
<1>6. Shut'
  <2>1. CASE state' = "open"
    BY <1>1, <1>2, <2>1 DEF IInv, Shut
  <2>2. CASE state' # "open"
    BY <2>2 DEF Shut
  <2> QED
    BY <2>1, <2>2
<1> QED
  BY <1>4, <1>5, <1>6

\* bind().
LEMMA BindKeeps ==
  ASSUME IInv, "whileDown" \notin Faults, NEW k \in Key, NEW callback \in BOOLEAN,
         Bind(k, callback)
  PROVE  IInv'
<1>1. /\ Calls /\ Write(Method("bind", k)) /\ wanted' = wanted \cup {k}
      /\ bindings' = [bindings EXCEPT ![k] = @ + 1] /\ state' = state
      /\ UNCHANGED <<options, tracked, registered, consumers, tasks, link, losses, toClient>>
      /\ UNCHANGED <<srv, srvBindings, srvConsumers, known, active, incidents>>
  BY DEF Bind, channelVars, consumeVars, linkVars, brokerVars
<1>2. state = "open" /\ link /\ tracked /\ ~IsOpening
  BY <1>1, Calling
<1>3. toServer' = toServer \o Method("bind", k) /\ k \in Arg /\ "bind" \in MethodName
      /\ toServer \in Seq(Message)
  BY <1>1, <1>2, Domains DEF Write, Arg, MethodName, IInv
<1>4. /\ \A n : n # "bind" => /\ Carried(toServer', n) = Carried(toServer, n)
                              /\ Absent(toServer, n) => Absent(toServer', n)
                              /\ \A a : Carries(toServer', n, a) <=> Carries(toServer, n, a)
      /\ Ordered(toServer) => Ordered(toServer')
      /\ \A bound, x : Binds(toServer', bound, x) <=> x = k \/ Binds(toServer, bound, x)
  BY <1>3, AfterWrite
<1>5. TypeInv'
  BY BindTypes DEF IInv
<1>6. ~IsOpening' /\ Phases' /\ Shut'
  BY <1>1, <1>3, CallPhases
<1>7. AllAreSent' /\ Ordered(toServer)'
  BY <1>1, <1>4 DEF AllAreSent, IInv
<1>8. Backed'
  BY <1>1, <1>4 DEF Backed, IInv
<1>9. \A t : Comes(t)' <=> Comes(t)
  BY <1>1, <1>4 DEF Comes
<1>10. Heard'
  BY <1>1, <1>9 DEF Heard, IInv
<1>11. Cancelled'
  BY <1>1, <1>4, <1>9 DEF Cancelled, IInv
<1>12. Owned'
  <2>1. Matched => Matched'
    BY <1>1, <1>4 DEF Matched
  <2>2. OwnTags => OwnTags'
    BY <1>1 DEF OwnTags
  <2> QED
    BY <1>1, <1>6, <2>1, <2>2, OwnedKept DEF IInv, NeverLost
<1>13. \A x \in Key : bindings'[x] = IF x = k THEN bindings[x] + 1 ELSE bindings[x]
  BY <1>1 DEF IInv, TypeInv, TypeOK
<1>14. \A x \in Key : bindings[x] \in Nat
  BY DEF IInv, TypeInv, TypeOK
<1>15. Forgotten'
  <2>1. Opened(toServer', toClient')
    BY <1>6 DEF Phases
  <2> SUFFICES ASSUME NEW x \in Key, bindings'[x] = 0, Binds(toServer', srvBindings', x),
                      "unbindLost" \notin incidents'
               PROVE  /\ link' /\ srv' # "open"
                      /\ Len(Carried(toClient', "unbindOk")) + Len(Carried(toServer', "unbind"))
                           < Len(Waiting(tasks', "unbind"))
    BY <2>1 DEF Forgotten
  <2>2. x # k /\ bindings[x] = 0
    BY <1>13, <1>14
  <2>3. Binds(toServer, srvBindings, x)
    BY <1>1, <1>4, <2>2
  <2> QED
    BY <1>1, <1>4, <2>2, <2>3 DEF IInv, Forgotten
<1>16. Restored'
  <2>1. \A x \in wanted' : bindings'[x] > 0
    <3>1. wanted \subseteq Key
      BY DEF IInv, TypeInv, TypeOK
    <3>2. \A x \in wanted : bindings[x] > 0
      BY DEF IInv, Restored
    <3> QED
      BY <1>1, <1>13, <1>14, <3>1, <3>2
  <2>2. Undisturbed(toServer, toClient) => Undisturbed(toServer', toClient')
    BY <1>1, <1>4 DEF Undisturbed
  <2> QED
    BY <1>1, <1>2, <1>4, <1>6, <2>1, <2>2, RestoredKept DEF IInv
<1>17. Served'
  BY <1>1, <1>2, <1>4, <1>6, <1>9, ServedKept DEF IInv
<1> QED
  BY <1>5, <1>6, <1>7, <1>8, <1>10, <1>11, <1>12, <1>15, <1>16, <1>17 DEF IInv

\* unbind().
LEMMA UnbindKeeps ==
  ASSUME IInv, "whileDown" \notin Faults, NEW k \in Key, Unbind(k)
  PROVE  IInv'
<1> DEFINE task == NewTask("unbind", k, None)
<1>1. /\ Calls /\ TaskPush(task, consumers) /\ wanted' = wanted \ {k} /\ state' = state
      /\ bindings' = [bindings EXCEPT ![k] = IF @ = 0 THEN 0 ELSE @ - 1]
      /\ UNCHANGED <<options, tracked, link, losses, toClient>>
      /\ UNCHANGED <<srv, srvBindings, srvConsumers, known, active, incidents>>
  BY DEF Unbind, linkVars, brokerVars
<1>2. state = "open" /\ link /\ tracked /\ ~IsOpening
  BY <1>1, Calling
<1>3. /\ task \in TaskOn(Tag) /\ ~task.sent /\ task.op = "unbind" /\ task.arg = k
  BY DEF NewTask, TaskOn
<1> HIDE DEF task
<1>4. Tag \subseteq Nat /\ toServer \in Seq(Message) /\ tasks \in Seq(TaskOn(Tag))
      /\ consumers \subseteq RecordOn(Tag) /\ toClient \in Seq(Message)
  BY Domains DEF IInv
<1>5. /\ toServer' = toServer \o Method("unbind", k) /\ k \in Arg /\ "unbind" \in MethodName
      /\ registered' = (registered /\ TRUE)
      /\ consumers' = MarkOpen(consumers, Append(tasks, task))
      /\ DueTags(Append(tasks, task)) = {}
      /\ AllAreSent'
      /\ Waiting(tasks', "unbind") = Append(Waiting(tasks, "unbind"), k)
      /\ \A op : op # "unbind" => /\ Waiting(tasks', op) = Waiting(tasks, op)
                                  /\ \A a : Waits(tasks', op, a) <=> Waits(tasks, op, a)
      /\ \A i \in 1..Len(tasks') :
           (i \in 1..Len(tasks) /\ tasks'[i] = tasks[i]) \/ tasks'[i].op = "unbind"
  BY <1>1, <1>2, <1>3, <1>4, AfterPush
<1>6. consumers' = consumers
  BY <1>4, <1>5, MarkOpenDue
<1>7. registered' = registered
  <2>1. registered \in BOOLEAN
    BY ClientTypes DEF IInv
  <2> QED
    BY <1>5, <2>1
<1>8. /\ \A n : n # "unbind" => /\ Carried(toServer', n) = Carried(toServer, n)
                                /\ Absent(toServer, n) => Absent(toServer', n)
                                /\ \A a : Carries(toServer', n, a) <=> Carries(toServer, n, a)
      /\ Carried(toServer', "unbind") = Append(Carried(toServer, "unbind"), k)
      /\ Ordered(toServer) => Ordered(toServer')
      /\ \A bound, x : Binds(toServer', bound, x) <=> Binds(toServer, bound, x) /\ x # k
  BY <1>4, <1>5, AfterWrite
<1>9. TypeInv'
  BY UnbindTypes DEF IInv
<1>10. ~IsOpening' /\ Phases' /\ Shut'
  BY <1>1, <1>5, CallPhases
<1>11. Ordered(toServer)'
  BY <1>8 DEF IInv
<1>12. /\ Carried(toClient', "unbindOk") = Carried(toClient, "unbindOk")
       /\ Len(Carried(toServer', "unbind")) = Len(Carried(toServer, "unbind")) + 1
       /\ Len(Waiting(tasks', "unbind")) = Len(Waiting(tasks, "unbind")) + 1
       /\ Len(Carried(toServer, "unbind")) \in Nat /\ Len(Waiting(tasks, "unbind")) \in Nat
       /\ Len(Carried(toClient, "unbindOk")) \in Nat
  <2>1. /\ Carried(toServer, "unbind") \in Seq(Arg) /\ Waiting(tasks, "unbind") \in Seq(Arg)
        /\ Carried(toClient, "unbindOk") \in Seq(Arg)
    BY <1>4, CarriedType, WaitingType
  <2> QED
    BY <1>1, <1>5, <1>8, <2>1, OneMoves
<1>13. Backed'
  BY <1>12 DEF Backed, IInv
<1>14. \A t : Comes(t)' <=> Comes(t)
  BY <1>1, <1>8 DEF Comes
<1>15. Heard'
  BY <1>1, <1>6, <1>14 DEF Heard, IInv
<1>16. Cancelled'
  BY <1>1, <1>5, <1>8, <1>14 DEF Cancelled, IInv
<1>17. Owned'
  <2>1. Matched => Matched'
    BY <1>1, <1>5, <1>8 DEF Matched
  <2>2. OwnTags => OwnTags'
    BY <1>5, <1>6 DEF OwnTags
  <2> QED
    BY <1>1, <1>6, <1>10, <2>1, <2>2, OwnedKept DEF IInv, NeverLost
<1>18. /\ \A x \in Key : x # k => bindings'[x] = bindings[x]
       /\ wanted \subseteq Key
  BY <1>1 DEF IInv, TypeInv, TypeOK
<1>19. Forgotten'
  <2>1. Opened(toServer', toClient')
    BY <1>10 DEF Phases
  <2> SUFFICES ASSUME NEW x \in Key, bindings'[x] = 0, Binds(toServer', srvBindings', x),
                      "unbindLost" \notin incidents'
               PROVE  /\ link' /\ srv' # "open"
                      /\ Len(Carried(toClient', "unbindOk")) + Len(Carried(toServer', "unbind"))
                           < Len(Waiting(tasks', "unbind"))
    BY <2>1 DEF Forgotten
  <2>2. Binds(toServer, srvBindings, x) /\ x # k
    BY <1>1, <1>8
  <2>3. bindings[x] = 0
    BY <1>18, <2>2
  <2>4. /\ link /\ srv # "open"
        /\ Len(Carried(toClient, "unbindOk")) + Len(Carried(toServer, "unbind"))
             < Len(Waiting(tasks, "unbind"))
    BY <1>1, <2>2, <2>3 DEF IInv, Forgotten
  <2> QED
    BY <1>1, <1>12, <2>4
<1>20. Restored'
  <2>1. \A x \in wanted' : bindings'[x] > 0
    <3>1. \A x \in wanted : bindings[x] > 0
      BY DEF IInv, Restored
    <3> QED
      BY <1>1, <1>18, <3>1
  <2>2. Undisturbed(toServer, toClient) => Undisturbed(toServer', toClient')
    BY <1>1, <1>8 DEF Undisturbed
  <2>3. (\A x \in wanted : Binds(toServer, srvBindings, x)) =>
          \A x \in wanted' : Binds(toServer', srvBindings', x)
    BY <1>1, <1>8
  <2> QED
    BY <1>1, <1>2, <1>10, <2>1, <2>2, <2>3, RestoredKept DEF IInv
<1>21. Served'
  BY <1>1, <1>2, <1>5, <1>6, <1>7, <1>8, <1>10, <1>14, ServedKept DEF IInv
<1> QED
  BY <1>5, <1>9, <1>10, <1>11, <1>13, <1>15, <1>16, <1>17, <1>19, <1>20, <1>21 DEF IInv

\* destroy().
LEMMA DestroyKeeps ==
  ASSUME IInv, "whileDown" \notin Faults, Destroy
  PROVE  IInv'
<1> DEFINE task == NewTask("delete", None, None)
<1>1. /\ Calls /\ TaskPush(task, consumers) /\ wanted' = wanted /\ state' = state
      /\ bindings' = bindings /\ incidents' = incidents \cup {"destroy"}
      /\ UNCHANGED <<options, tracked, link, losses, toClient>>
      /\ UNCHANGED <<srv, srvBindings, srvConsumers, known, active>>
  BY DEF Destroy, linkVars, brokerVars, bindVars
<1>2. state = "open" /\ link /\ tracked /\ ~IsOpening
  BY <1>1, Calling
<1>3. /\ task \in TaskOn(Tag) /\ ~task.sent /\ task.op = "delete" /\ task.arg = None
  BY DEF NewTask, TaskOn
<1> HIDE DEF task
<1>4. Tag \subseteq Nat /\ toServer \in Seq(Message) /\ tasks \in Seq(TaskOn(Tag))
      /\ consumers \subseteq RecordOn(Tag) /\ toClient \in Seq(Message)
  BY Domains DEF IInv
<1>5. /\ toServer' = toServer \o Method("delete", None) /\ None \in Arg /\ "delete" \in MethodName
      /\ AllAreSent'
      /\ consumers' = MarkOpen(consumers, Append(tasks, task))
      /\ DueTags(Append(tasks, task)) = {}
      /\ \A op : op # "delete" => /\ Waiting(tasks', op) = Waiting(tasks, op)
                                  /\ \A a : Waits(tasks', op, a) <=> Waits(tasks, op, a)
      /\ \A i \in 1..Len(tasks') :
           (i \in 1..Len(tasks) /\ tasks'[i] = tasks[i]) \/ tasks'[i].op = "delete"
  <2>1. /\ toServer' = toServer \o Method(task.op, task.arg)
        /\ task.op \in MethodName /\ task.arg \in Arg
        /\ consumers' = MarkOpen(consumers, Append(tasks, task))
        /\ DueTags(Append(tasks, task)) = {}
        /\ AllAreSent'
        /\ \A op : task.op # op => /\ Waiting(tasks', op) = Waiting(tasks, op)
                                   /\ \A a : Waits(tasks', op, a) <=> Waits(tasks, op, a)
        /\ \A i \in 1..Len(tasks') :
             (i \in 1..Len(tasks) /\ tasks'[i] = tasks[i]) \/ tasks'[i].op = task.op
    BY <1>1, <1>2, <1>3, <1>4, AfterPush
  <2> QED
    BY <1>3, <2>1
<1>6. consumers' = consumers
  BY <1>4, <1>5, MarkOpenDue
<1>7. /\ \A n : n # "delete" => /\ Carried(toServer', n) = Carried(toServer, n)
                                /\ \A a : Carries(toServer', n, a) <=> Carries(toServer, n, a)
      /\ Ordered(toServer) => Ordered(toServer')
      /\ \A bound, x : Binds(toServer', bound, x) <=> Binds(toServer, bound, x)
  BY <1>4, <1>5, AfterWrite
<1>8. TypeInv'
  BY DestroyTypes DEF IInv
<1>9. ~IsOpening' /\ Phases' /\ Shut'
  BY <1>1, <1>5, CallPhases
<1>10. Ordered(toServer)' /\ Backed'
  BY <1>1, <1>5, <1>7 DEF Backed, IInv
<1>11. \A t : Comes(t)' <=> Comes(t)
  BY <1>1, <1>7 DEF Comes
<1>12. Heard'
  BY <1>1, <1>6, <1>11 DEF Heard, IInv
<1>13. Cancelled'
  BY <1>1, <1>5, <1>7, <1>11 DEF Cancelled, IInv
<1>14. Owned'
  <2>1. Matched => Matched'
    BY <1>1, <1>5, <1>7 DEF Matched
  <2>2. OwnTags => OwnTags'
    BY <1>5, <1>6 DEF OwnTags
  <2> QED
    BY <1>1, <1>6, <1>9, <2>1, <2>2, OwnedKept DEF IInv, NeverLost
<1>15. Forgotten'
  <2>1. Opened(toServer', toClient')
    BY <1>9 DEF Phases
  <2> QED
    BY <1>1, <1>5, <1>7, <2>1 DEF Forgotten, IInv
<1>16. Restored' /\ Served'
  <2>1. \A x \in wanted' : bindings'[x] > 0
    BY <1>1 DEF IInv, Restored
  <2> QED
    BY <1>1, <2>1, Disturbed DEF Harmless
<1> QED
  BY <1>5, <1>8, <1>9, <1>10, <1>12, <1>13, <1>14, <1>15, <1>16 DEF IInv

\* close().
LEMMA CloseKeeps ==
  ASSUME IInv, "whileDown" \notin Faults, Close
  PROVE  IInv'
<1>1. /\ Calls /\ Write(Method("close", None)) /\ wanted' = wanted /\ state' = "closing"
      /\ bindings' = bindings /\ incidents' = incidents \cup {"close"}
      /\ UNCHANGED <<options, tracked, registered, consumers, tasks, link, losses, toClient>>
      /\ UNCHANGED <<srv, srvBindings, srvConsumers, known, active>>
  BY DEF Close, consumeVars, linkVars, brokerVars, bindVars
<1>2. state = "open" /\ link /\ tracked /\ ~IsOpening
  BY <1>1, Calling
<1>3. /\ toServer' = toServer \o Method("close", None) /\ None \in Arg /\ "close" \in MethodName
      /\ toServer \in Seq(Message)
  BY <1>1, <1>2, Domains DEF Write, Arg, MethodName, IInv
<1>4. /\ \A n : n # "close" => /\ Carried(toServer', n) = Carried(toServer, n)
                               /\ \A a : Carries(toServer', n, a) <=> Carries(toServer, n, a)
      /\ Ordered(toServer) => Ordered(toServer')
      /\ \A bound, x : Binds(toServer', bound, x) <=> Binds(toServer, bound, x)
  BY <1>3, AfterWrite
<1>5. TypeInv'
  BY CloseTypes DEF IInv
<1>6. ~IsOpening' /\ Phases' /\ Shut'
  BY <1>1, <1>3, CallPhases
<1>7. AllAreSent' /\ Ordered(toServer)' /\ Backed'
  BY <1>1, <1>4 DEF AllAreSent, Backed, IInv
<1>8. \A t : Comes(t)' <=> Comes(t)
  BY <1>1, <1>4 DEF Comes
<1>9. Heard'
  BY <1>1, <1>8 DEF Heard, IInv
<1>10. Cancelled'
  BY <1>1, <1>4, <1>8 DEF Cancelled, IInv
<1>11. Owned'
  <2>1. Matched => Matched'
    BY <1>1, <1>4 DEF Matched
  <2>2. OwnTags => OwnTags'
    BY <1>1 DEF OwnTags
  <2> QED
    BY <1>1, <1>6, <2>1, <2>2, OwnedKept DEF IInv, NeverLost
<1>12. Forgotten'
  <2>1. Opened(toServer', toClient')
    BY <1>6 DEF Phases
  <2> QED
    BY <1>1, <1>4, <2>1 DEF Forgotten, IInv
<1>13. Restored' /\ Served'
  <2>1. \A x \in wanted' : bindings'[x] > 0
    BY <1>1 DEF IInv, Restored
  <2> QED
    BY <1>1, <2>1, Disturbed DEF Harmless
<1> QED
  BY <1>5, <1>6, <1>7, <1>9, <1>10, <1>11, <1>12, <1>13 DEF IInv

\* The cancels of consumers that are gone are about tags that have been given out.
LEMMA GoneTags ==
  ASSUME IInv, NEW gone \in Seq(Arg),
         Waiting(tasks, "cancel") = gone \o Carried(toServer, "cancel")
  PROVE  \A i \in 1..Len(gone) : gone[i] \in Tag
<1> DEFINE w == Waiting(tasks, "cancel")
           c == Carried(toServer, "cancel")
<1>1. Tag \subseteq Nat /\ toServer \in Seq(Message) /\ tasks \in Seq(TaskOn(Tag))
  BY Domains DEF IInv
<1>2. /\ c \in Seq(Arg) /\ w \in Seq(Arg)
      /\ \A i \in 1..Len(w) : w[i] \in Tag
  BY <1>1, CarriedType, WaitingType
<1>3. w = gone \o c
  OBVIOUS
<1> HIDE DEF w, c
<1> SUFFICES ASSUME NEW i \in 1..Len(gone) PROVE gone[i] \in Tag
  OBVIOUS
<1>4. w[i] = gone[i] /\ i \in 1..Len(w)
  BY <1>2, <1>3, ConcatProperties
<1> QED
  BY <1>2, <1>4

\* subscribe().
LEMMA SubscribeKeeps ==
  ASSUME IInv, "whileDown" \notin Faults, NEW s \in Sub, Subscribe(s)
  PROVE  IInv'
<1> DEFINE task == NewTask("consume", nextTag, s)
           new == [tag |-> nextTag, sub |-> s, state |-> "opening"]
           open == [tag |-> nextTag, sub |-> s, state |-> "open"]
<1>1. /\ Calls /\ TaskPush(task, consumers \cup {new}) /\ wanted' = wanted /\ state' = state
      /\ bindings' = bindings /\ active[s] = "idle" /\ active' = [active EXCEPT ![s] = "asked"]
      /\ UNCHANGED <<options, tracked, link, losses, toClient>>
      /\ UNCHANGED <<srv, srvBindings, srvConsumers, known, incidents>>
  BY DEF Subscribe, linkVars, brokerVars, bindVars
<1>2. state = "open" /\ link /\ tracked /\ ~IsOpening
  BY <1>1, Calling
<1>3. PICK n \in Nat : n = nextTag /\ n \notin Tag /\ n # 0 /\ Tag \subseteq 1..n
  <2>1. nextTag \in Nat \ {0}
    BY ClientTypes DEF IInv, Plain
  <2> QED
    BY <2>1 DEF Tag
<1>4. /\ task \in TaskOn(1..n) /\ ~task.sent /\ task.op = "consume" /\ task.arg = n
      /\ task.sub = s
  BY <1>3 DEF NewTask, TaskOn
<1>5. /\ new \in RecordOn(1..n) /\ new.tag = n /\ new.state = "opening"
      /\ [new EXCEPT !.state = "open"] = open /\ open.tag = n /\ open.sub = s /\ open.state = "open"
  BY <1>3 DEF RecordOn
<1> HIDE DEF task, new, open
<1>6. /\ Tag \subseteq Nat /\ toServer \in Seq(Message) /\ tasks \in Seq(TaskOn(Tag))
      /\ consumers \subseteq RecordOn(Tag) /\ toClient \in Seq(Message)
      /\ toServer \in Seq(ToServerOn(Tag))
      /\ \A c \in consumers : c.tag \in Tag /\ c.sub \in Sub
  BY Domains, ClientTypes DEF IInv
<1>7. /\ toServer' = toServer \o Method("consume", n) /\ n \in Arg /\ "consume" \in MethodName
      /\ registered' = (registered /\ TRUE)
      /\ consumers' = MarkOpen(consumers \cup {new}, Append(tasks, task))
      /\ DueTags(Append(tasks, task)) = {n}
      /\ AllAreSent'
      /\ Waiting(tasks', "consume") = Append(Waiting(tasks, "consume"), n)
      /\ \A op : op # "consume" => /\ Waiting(tasks', op) = Waiting(tasks, op)
                                   /\ \A a : Waits(tasks', op, a) <=> Waits(tasks, op, a)
      /\ \A i \in 1..Len(tasks') :
           \/ i \in 1..Len(tasks) /\ tasks'[i] = tasks[i]
           \/ tasks'[i].op = "consume" /\ tasks'[i].arg = n /\ tasks'[i].sub = s
  <2>1. Tag \subseteq 1..n /\ 1..n \subseteq Nat
    BY <1>3
  <2>2. /\ toServer' = toServer \o Method(task.op, task.arg)
        /\ task.op \in MethodName /\ task.arg \in Arg
        /\ registered' = (registered /\ task.op # "delete")
        /\ consumers' = MarkOpen(consumers \cup {new}, Append(tasks, task))
        /\ DueTags(Append(tasks, task)) = IF task.op = "consume" THEN {task.arg} ELSE {}
        /\ AllAreSent'
        /\ \A op : /\ Waiting(tasks', op) = IF task.op = op THEN Append(Waiting(tasks, op), task.arg)
                                            ELSE Waiting(tasks, op)
                   /\ \A a : Waits(tasks', op, a) <=>
                               Waits(tasks, op, a) \/ (task.op = op /\ task.arg = a)
        /\ \A i \in 1..Len(tasks') :
             \/ i \in 1..Len(tasks) /\ tasks'[i] = tasks[i]
             \/ tasks'[i].op = task.op /\ tasks'[i].arg = task.arg /\ tasks'[i].sub = task.sub
    BY <1>1, <1>2, <1>4, <2>1, AfterPush
  <2> QED
    BY <1>4, <2>2
<1>8. consumers' = consumers \cup {open}
  <2>1. consumers \subseteq RecordOn(1..n)
    BY <1>3, <1>6, TypesGrow
  <2>2. \A c \in consumers : c.tag # n
    BY <1>3, <1>6
  <2> DEFINE more == Append(tasks, task)
  <2>3. DueTags(more) = {n} /\ consumers' = MarkOpen(consumers \cup {new}, more)
    BY <1>7
  <2> HIDE DEF more
  <2>4. MarkOpen(consumers \cup {new}, more) = consumers \cup {[new EXCEPT !.state = "open"]}
    <3>1. \A t, x : /\ DueTags(more) = {t} /\ (\A c \in consumers : c.tag # t)
                   /\ x \in RecordOn(1..n) /\ x.tag = t /\ x.state = "opening"
            => MarkOpen(consumers \cup {x}, more) = consumers \cup {[x EXCEPT !.state = "open"]}
      BY <2>1, MarkOpenDue
    <3> QED
      BY <1>5, <2>2, <2>3, <3>1
  <2> QED
    BY <1>5, <2>3, <2>4
<1>9. registered' = registered
  <2>1. registered \in BOOLEAN
    BY ClientTypes DEF IInv
  <2> QED
    BY <1>7, <2>1
<1>10. ~Carries(toServer, "cancel", n)
  <2> SUFFICES ASSUME NEW i \in 1..Len(toServer), toServer[i].m = "cancel", toServer[i].arg = n
               PROVE  FALSE
    BY DEF Carries
  <2>1. toServer[i] \in ToServerOn(Tag)
    BY <1>6
  <2> QED
    BY <1>3, <2>1 DEF ToServerOn
<1>11. /\ \A m : m # "consume" => /\ Carried(toServer', m) = Carried(toServer, m)
                                  /\ Absent(toServer, m) => Absent(toServer', m)
       /\ Carried(toServer', "consume") = Append(Carried(toServer, "consume"), n)
       /\ \A a : Carries(toServer', "consume", a) <=> Carries(toServer, "consume", a) \/ n = a
       /\ Ordered(toServer) => Ordered(toServer')
       /\ \A bound, x : Binds(toServer', bound, x) <=> Binds(toServer, bound, x)
  BY ZenonT(30), <1>6, <1>7, <1>10, AfterWrite
<1>12. TypeInv'
  BY SubscribeTypes DEF IInv
<1>13. ~IsOpening' /\ Phases' /\ Shut'
  BY <1>1, <1>7, CallPhases
<1>14. Ordered(toServer)' /\ Backed'
  BY <1>1, <1>7, <1>11 DEF Backed, IInv
<1>15. \A t : Comes(t)' <=> Comes(t) \/ t = n
  BY <1>1, <1>11 DEF Comes
<1>16. Heard'
  BY <1>1, <1>5, <1>8, <1>15 DEF Heard, IInv
<1>17. Cancelled'
  <2> SUFFICES ASSUME srv' = "open"
               PROVE  \E gone \in Seq(Arg) :
                        /\ Waiting(tasks', "cancel") = gone \o Carried(toServer', "cancel")
                        /\ Len(Carried(toClient', "cancelOk")) <= Len(gone)
                        /\ \A i \in 1..Len(gone) : ~Comes(gone[i])'
    BY DEF Cancelled
  <2>1. PICK gone \in Seq(Arg) :
             /\ Waiting(tasks, "cancel") = gone \o Carried(toServer, "cancel")
             /\ Len(Carried(toClient, "cancelOk")) <= Len(gone)
             /\ \A i \in 1..Len(gone) : ~Comes(gone[i])
    BY <1>1 DEF Cancelled, IInv
  <2>2. \A i \in 1..Len(gone) : gone[i] # n
    BY <1>3, <2>1, GoneTags
  <2>3. \A i \in 1..Len(gone) : ~Comes(gone[i])'
    BY <1>15, <2>1, <2>2
  <2> QED
    BY <1>1, <1>7, <1>11, <2>1, <2>3
<1>18. Owned'
  <2>1. CASE NeverLost'
    <3>1. /\ NeverLost /\ Matched /\ OwnTags /\ TagIsOwn
          /\ \A c \in consumers : c.state # "closed"
      BY <1>1, <2>1 DEF IInv, Owned, NeverLost
    <3>2. Matched'
      <4>1. /\ Carried(toClient, "consumeOk") \in Seq(Arg)
            /\ Carried(toServer, "consume") \in Seq(Arg)
        BY <1>6, CarriedType
      <4>2. CASE srv = "open"
        <5>1. Carried(toClient, "consumeOk") \o Append(Carried(toServer, "consume"), n)
                = Append(Carried(toClient, "consumeOk") \o Carried(toServer, "consume"), n)
          BY <1>7, <4>1, ConcatAppend
        <5> QED
          BY <1>1, <1>7, <1>11, <3>1, <4>2, <5>1 DEF Matched
      <4>3. CASE srv # "open"
        <5>1. PICK rest \in Seq(Arg) :
                   Waiting(tasks, "consume") = Carried(toClient, "consumeOk") \o rest
          BY <3>1, <4>3 DEF Matched
        <5>2. Carried(toClient, "consumeOk") \o Append(rest, n)
                = Append(Carried(toClient, "consumeOk") \o rest, n)
          BY <1>7, <4>1, ConcatAppend
        <5>3. Append(rest, n) \in Seq(Arg)
          BY <1>7
        <5>4. Waiting(tasks', "consume") = Carried(toClient', "consumeOk") \o Append(rest, n)
          BY <1>1, <1>7, <5>1, <5>2
        <5> QED
          BY <1>1, <4>3, <5>3, <5>4 DEF Matched
      <4> QED
        BY <4>2, <4>3
    <3>3. OwnTags'
      <4> SUFFICES ASSUME NEW i \in 1..Len(tasks'), tasks'[i].op = "consume", tasks'[i].sub # None,
                          NEW c \in consumers', c.tag = tasks'[i].arg
                   PROVE  c.sub = tasks'[i].sub
        BY DEF OwnTags
      <4>1. CASE i \in 1..Len(tasks) /\ tasks'[i] = tasks[i]
        <5>1. tasks[i] \in TaskOn(Tag)
          BY <1>6, <4>1
        <5>2. tasks[i].arg # n
          BY <1>3, <4>1, <5>1 DEF TaskOn
        <5>3. c \in consumers
          BY <1>5, <1>8, <4>1, <5>2
        <5> QED
          BY <3>1, <4>1, <5>3 DEF OwnTags
      <4>2. CASE tasks'[i].arg = n /\ tasks'[i].sub = s
        <5>1. c \notin consumers
          BY <1>3, <1>6, <4>2
        <5> QED
          BY <1>5, <1>8, <4>2, <5>1
      <4> QED
        BY <1>7, <4>1, <4>2
    <3>4. TagIsOwn'
      <4>1. \A x \in Sub : known[x] # n
        BY <1>3, ClientTypes DEF IInv
      <4> QED
        BY <1>1, <1>5, <1>8, <3>1, <4>1 DEF TagIsOwn
    <3>5. \A c \in consumers' : c.state # "closed"
      BY <1>5, <1>8, <3>1
    <3> QED
      BY <1>1, <1>2, <1>13, <3>2, <3>3, <3>4, <3>5 DEF Owned
  <2>2. CASE ~NeverLost'
    BY <2>2 DEF Owned
  <2> QED
    BY <2>1, <2>2
<1>19. Forgotten'
  <2>1. Opened(toServer', toClient')
    BY <1>13 DEF Phases
  <2> QED
    BY <1>1, <1>7, <1>11, <2>1 DEF Forgotten, IInv
<1>20. Restored'
  <2>1. \A x \in wanted' : bindings'[x] > 0
    BY <1>1 DEF IInv, Restored
  <2>2. Undisturbed(toServer, toClient) => Undisturbed(toServer', toClient')
    BY <1>1, <1>11 DEF Undisturbed
  <2> QED
    BY <1>1, <1>2, <1>11, <1>13, <2>1, <2>2, RestoredKept DEF IInv
<1>21. Served'
  <2> SUFFICES ASSUME incidents' \subseteq {"unbindLost"}, Restores' PROVE Served'
    BY DEF Served
  <2>1. Restores
    BY <1>1 DEF Restores
  <2>2. /\ Waiting(tasks, "cancel") = Carried(toClient, "cancelOk") \o Carried(toServer, "cancel")
        /\ \A c, d \in consumers : c.sub = d.sub => c = d
        /\ \A x \in Sub : active[x] = "asked" => \E c \in consumers : c.sub = x
        /\ \A c \in consumers :
             /\ active[c.sub] # "idle"
             /\ active[c.sub] = "asked" => ~Waits(tasks, "cancel", c.tag)
             /\ active[c.sub] = "stopped" => Waits(tasks, "cancel", c.tag)
             /\ active[c.sub] = "asked" => Comes(c.tag)
        /\ options.noDeclare \/ registered
    BY <1>1, <1>2, <2>1 DEF IInv, Served
  <2>3. \A c \in consumers : c.sub # s
    BY <1>1, <2>2
  <2>4. active'[s] = "asked" /\ \A x \in Sub : x # s => active'[x] = active[x]
    BY <1>1 DEF IInv, TypeInv, TypeOK
  <2>5. Waiting(tasks', "cancel") = Carried(toClient', "cancelOk") \o Carried(toServer', "cancel")
    BY <1>1, <1>7, <1>11, <2>2
  <2>6. \A c, d \in consumers' : c.sub = d.sub => c = d
    BY <1>5, <1>8, <2>2, <2>3
  <2>7. \A x \in Sub : active'[x] = "asked" => \E c \in consumers' : c.sub = x
    BY <1>5, <1>8, <2>2, <2>4
  <2>8. ASSUME NEW c \in consumers'
        PROVE  /\ active'[c.sub] # "idle"
               /\ active'[c.sub] = "asked" => ~Waits(tasks', "cancel", c.tag)
               /\ active'[c.sub] = "stopped" => Waits(tasks', "cancel", c.tag)
               /\ active'[c.sub] = "asked" => Comes(c.tag)'
    <3>1. CASE c \in consumers
      <4>1. active'[c.sub] = active[c.sub]
        BY <1>6, <2>3, <2>4, <3>1
      <4> QED
        BY <1>7, <1>15, <2>2, <3>1, <4>1
    <3>2. CASE c = open
      <4>1. ~Waits(tasks, "cancel", n)
        BY <1>3, <1>6, WaitingType
      <4> QED
        BY <1>5, <1>7, <1>15, <2>4, <3>2, <4>1
    <3> QED
      BY <1>8, <3>1, <3>2
  <2> QED
    BY <1>1, <1>2, <1>9, <1>13, <2>2, <2>5, <2>6, <2>7, <2>8 DEF Served
<1> QED
  BY <1>7, <1>12, <1>13, <1>14, <1>16, <1>17, <1>18, <1>19, <1>20, <1>21 DEF IInv

\* unsubscribe().
LEMMA UnsubscribeKeeps ==
  ASSUME IInv, "whileDown" \notin Faults, NEW s \in Sub, Unsubscribe(s)
  PROVE  IInv'
<1> DEFINE task == NewTask("cancel", known[s], None)
<1>1. /\ Calls /\ TaskPush(task, consumers) /\ wanted' = wanted /\ state' = state
      /\ bindings' = bindings /\ active[s] = "asked" /\ known[s] # 0
      /\ active' = [active EXCEPT ![s] = "stopped"]
      /\ incidents' = incidents \cup IF \E c \in consumers : c.tag = known[s] /\ c.sub = s
                                       THEN {} ELSE {"misdirected"}
      /\ UNCHANGED <<options, tracked, link, losses, toClient>>
      /\ UNCHANGED <<srv, srvBindings, srvConsumers, known>>
  BY DEF Unsubscribe, linkVars, brokerVars, bindVars
<1>2. state = "open" /\ link /\ tracked /\ ~IsOpening
  BY <1>1, Calling
<1>3. PICK t \in Tag : t = known[s]
  BY <1>1, ClientTypes DEF IInv
<1>4. task \in TaskOn(Tag) /\ ~task.sent /\ task.op = "cancel" /\ task.arg = t
  BY <1>3 DEF NewTask, TaskOn
<1> HIDE DEF task
<1>5. /\ Tag \subseteq Nat /\ toServer \in Seq(Message) /\ tasks \in Seq(TaskOn(Tag))
      /\ consumers \subseteq RecordOn(Tag) /\ Distinct(consumers) /\ toClient \in Seq(Message)
      /\ \A c \in consumers : c.tag \in Tag /\ c.sub \in Sub
  BY Domains DEF IInv
<1>6. /\ toServer' = toServer \o Method("cancel", t) /\ t \in Arg /\ "cancel" \in MethodName
      /\ registered' = (registered /\ TRUE)
      /\ consumers' = MarkOpen(consumers, Append(tasks, task))
      /\ DueTags(Append(tasks, task)) = {}
      /\ AllAreSent'
      /\ Waiting(tasks', "cancel") = Append(Waiting(tasks, "cancel"), t)
      /\ \A a : Waits(tasks', "cancel", a) <=> Waits(tasks, "cancel", a) \/ t = a
      /\ \A op : op # "cancel" => Waiting(tasks', op) = Waiting(tasks, op)
      /\ \A i \in 1..Len(tasks') :
           (i \in 1..Len(tasks) /\ tasks'[i] = tasks[i]) \/ tasks'[i].op = "cancel"
  BY <1>1, <1>2, <1>4, <1>5, AfterPush
<1>7. consumers' = consumers
  BY <1>5, <1>6, MarkOpenDue
<1>8. registered' = registered
  <2>1. registered \in BOOLEAN
    BY ClientTypes DEF IInv
  <2> QED
    BY <1>6, <2>1
<1>9. /\ \A n : n # "cancel" => /\ Carried(toServer', n) = Carried(toServer, n)
                                /\ Absent(toServer, n) => Absent(toServer', n)
                                /\ \A a : Carries(toServer', n, a) <=> Carries(toServer, n, a)
      /\ Carried(toServer', "cancel") = Append(Carried(toServer, "cancel"), t)
      /\ Ordered(toServer) => Ordered(toServer')
      /\ \A bound, x : Binds(toServer', bound, x) <=> Binds(toServer, bound, x)
  BY <1>5, <1>6, AfterWrite
<1>10. TypeInv'
  BY UnsubscribeTypes DEF IInv
<1>11. ~IsOpening' /\ Phases' /\ Shut'
  BY <1>1, <1>6, CallPhases
<1>12. Ordered(toServer)' /\ Backed'
  BY <1>1, <1>6, <1>9 DEF Backed, IInv
<1>13. \A x : Comes(x)' <=> Comes(x)
  BY <1>1, <1>9 DEF Comes
<1>14. Heard'
  BY <1>1, <1>7, <1>13 DEF Heard, IInv
<1>15. /\ Carried(toClient, "cancelOk") \in Seq(Arg) /\ Carried(toServer, "cancel") \in Seq(Arg)
  BY <1>5, CarriedType
<1>16. Cancelled'
  <2> SUFFICES ASSUME srv' = "open"
               PROVE  \E gone \in Seq(Arg) :
                        /\ Waiting(tasks', "cancel") = gone \o Carried(toServer', "cancel")
                        /\ Len(Carried(toClient', "cancelOk")) <= Len(gone)
                        /\ \A i \in 1..Len(gone) : ~Comes(gone[i])'
    BY DEF Cancelled
  <2>1. PICK gone \in Seq(Arg) :
             /\ Waiting(tasks, "cancel") = gone \o Carried(toServer, "cancel")
             /\ Len(Carried(toClient, "cancelOk")) <= Len(gone)
             /\ \A i \in 1..Len(gone) : ~Comes(gone[i])
    BY <1>1 DEF Cancelled, IInv
  <2>2. gone \o Append(Carried(toServer, "cancel"), t)
          = Append(gone \o Carried(toServer, "cancel"), t)
    BY <1>6, <1>15, ConcatAppend
  <2> QED
    BY <1>1, <1>6, <1>9, <1>13, <2>1, <2>2
<1>17. Owned'
  <2>1. Matched => Matched'
    BY <1>1, <1>6, <1>9 DEF Matched
  <2>2. OwnTags => OwnTags'
    BY <1>6, <1>7 DEF OwnTags
  <2>3. NeverLost' => NeverLost
    BY <1>1 DEF NeverLost
  <2> QED
    BY <1>1, <1>7, <1>11, <2>1, <2>2, <2>3, OwnedKept DEF IInv
<1>18. "unbindLost" \in incidents' <=> "unbindLost" \in incidents
  BY <1>1
<1>19. Forgotten'
  <2>1. Opened(toServer', toClient')
    BY <1>11 DEF Phases
  <2> QED
    BY <1>1, <1>6, <1>9, <1>18, <2>1 DEF Forgotten, IInv
<1>20. Restored'
  <2>1. \A x \in wanted' : bindings'[x] > 0
    BY <1>1 DEF IInv, Restored
  <2>2. Undisturbed(toServer, toClient) => Undisturbed(toServer', toClient')
    BY <1>1, <1>9 DEF Undisturbed
  <2>3. incidents' \subseteq Harmless => incidents \subseteq Harmless
    BY <1>1
  <2> QED
    BY <1>1, <1>2, <1>9, <1>11, <2>1, <2>2, <2>3, RestoredKept DEF IInv
<1>21. Served'
  <2> SUFFICES ASSUME incidents' \subseteq {"unbindLost"}, Restores' PROVE Served'
    BY DEF Served
  <2>1. PICK own \in consumers : own.tag = t /\ own.sub = s
    BY <1>1, <1>3
  <2>2. Restores /\ incidents \subseteq {"unbindLost"}
    BY <1>1 DEF Restores
  <2>3. /\ Waiting(tasks, "cancel") = Carried(toClient, "cancelOk") \o Carried(toServer, "cancel")
        /\ \A c, d \in consumers : c.sub = d.sub => c = d
        /\ \A x \in Sub : active[x] = "asked" => \E c \in consumers : c.sub = x
        /\ \A c \in consumers :
             /\ active[c.sub] # "idle"
             /\ active[c.sub] = "asked" => ~Waits(tasks, "cancel", c.tag)
             /\ active[c.sub] = "stopped" => Waits(tasks, "cancel", c.tag)
             /\ active[c.sub] = "asked" => Comes(c.tag)
        /\ options.noDeclare \/ registered
    BY <1>2, <2>2 DEF IInv, Served
  <2>4. active'[s] = "stopped" /\ \A x \in Sub : x # s => active'[x] = active[x]
    BY <1>1 DEF IInv, TypeInv, TypeOK
  <2>5. Waiting(tasks', "cancel") = Carried(toClient', "cancelOk") \o Carried(toServer', "cancel")
    <3>1. Carried(toClient, "cancelOk") \o Append(Carried(toServer, "cancel"), t)
            = Append(Carried(toClient, "cancelOk") \o Carried(toServer, "cancel"), t)
      BY <1>6, <1>15, ConcatAppend
    <3> QED
      BY <1>1, <1>6, <1>9, <2>3, <3>1
  <2>6. \A x \in Sub : active'[x] = "asked" => \E c \in consumers' : c.sub = x
    BY <1>7, <2>3, <2>4
  <2>7. ASSUME NEW c \in consumers'
        PROVE  /\ active'[c.sub] # "idle"
               /\ active'[c.sub] = "asked" => ~Waits(tasks', "cancel", c.tag)
               /\ active'[c.sub] = "stopped" => Waits(tasks', "cancel", c.tag)
               /\ active'[c.sub] = "asked" => Comes(c.tag)'
    <3>1. CASE c = own
      BY <1>6, <2>1, <2>4, <3>1
    <3>2. CASE c # own
      <4>1. c.sub # s /\ c.tag # t /\ c.sub \in Sub /\ c \in consumers
        BY <1>5, <1>7, <2>1, <2>3, <3>2 DEF Distinct
      <4> QED
        BY <1>6, <1>13, <2>3, <2>4, <4>1
    <3> QED
      BY <3>1, <3>2
  <2> QED
    BY <1>1, <1>2, <1>7, <1>8, <1>11, <2>3, <2>5, <2>6, <2>7 DEF Served
<1> QED
  BY <1>6, <1>10, <1>11, <1>12, <1>14, <1>16, <1>17, <1>19, <1>20, <1>21 DEF IInv

-----------------------------------------------------------------------------
(* What the connection dispatches keeps the invariant *)

\* Fewer tasks and fewer records.
LEMMA FewerOwn ==
  ASSUME OwnTags, consumers' \subseteq consumers,
         \A j \in 1..Len(tasks') : \E l \in 1..Len(tasks) : tasks'[j] = tasks[l]
  PROVE  OwnTags'
<1> SUFFICES ASSUME NEW j \in 1..Len(tasks'), tasks'[j].op = "consume", tasks'[j].sub # None,
                    NEW c \in consumers', c.tag = tasks'[j].arg
             PROVE  c.sub = tasks'[j].sub
  BY DEF OwnTags
<1>1. PICK l \in 1..Len(tasks) : tasks'[j] = tasks[l]
  OBVIOUS
<1> QED
  BY <1>1 DEF OwnTags

\* The wire after the client has received a message.
LEMMA AfterReceive ==
  ASSUME IInv, NEW m, Receive(m)
  PROVE  /\ link /\ tracked /\ Head(toClient).arg \in Arg /\ toClient' \in Seq(Message)
         /\ m \notin {"channelOpenOk", "declareOk"} => ~IsOpening /\ Opened(toServer, toClient)
         /\ \A n : /\ Carried(toClient, n) = IF m = n
                        THEN <<Head(toClient).arg>> \o Carried(toClient', n)
                        ELSE Carried(toClient', n)
                   /\ Absent(toClient, n) <=> Absent(toClient', n) /\ m # n
<1>1. /\ toClient # <<>> /\ Head(toClient).m = m /\ toClient' = Tail(toClient)
      /\ link /\ tracked
  BY DEF Receive
<1>2. toClient \in Seq(Message)
  BY Domains DEF IInv
<1>3. m \notin {"channelOpenOk", "declareOk"} => ~IsOpening /\ Opened(toServer, toClient)
  BY Receiving DEF IInv
<1>4. Head(toClient).arg \in Arg
  BY <1>1, <1>2, WireTail DEF Message
<1> QED
  BY <1>1, <1>2, <1>3, <1>4, WireTail

\* What the flushing of tasks that are all sent leaves alone.
LEMMA Dispatching ==
  ASSUME IInv, link, NEW st, NEW reg \in BOOLEAN, NEW cons, cons \subseteq consumers,
         NEW entries, entries = tasks \/ \E op : \E i \in Awaiting(op) : entries = Without(i),
         NEW x \in {"close", "closeOk"}, NEW before, before = <<>> \/ before = Method(x, None),
         Flush(st, reg, cons, entries, before)
  PROVE  /\ tasks' = entries /\ consumers' = cons /\ registered' = reg /\ AllAreSent'
         /\ before = <<>> => toServer' = toServer
         /\ \A n : n # x => /\ Carried(toServer', n) = Carried(toServer, n)
                            /\ Absent(toServer', n) <=> Absent(toServer, n)
                            /\ \A a : Carries(toServer', n, a) <=> Carries(toServer, n, a)
         /\ Ordered(toServer)'
         /\ \A bound, k : Binds(toServer', bound, k) <=> Binds(toServer, bound, k)
<1>1. /\ toServer \in Seq(Message) /\ toServer \in Seq(ToServerOn(Tag))
      /\ tasks \in Seq(TaskOn(Tag)) /\ tasks \in Seq(Entry) /\ Sent(tasks)
      /\ consumers \subseteq RecordOn(Tag) /\ Ordered(toServer)
  BY Domains, ClientTypes DEF IInv, AllAreSent
<1>2. entries \in Seq(TaskOn(Tag)) /\ Sent(entries)
  <2>1. CASE entries = tasks
    BY <1>1, <2>1
  <2>2. CASE \E op : \E i \in Awaiting(op) : entries = Without(i)
    <3>1. PICK op : \E i \in Awaiting(op) : entries = Without(i)
      BY <2>2
    <3>2. PICK i \in Awaiting(op) : entries = Without(i)
      BY <3>1
    <3>3. /\ i \in 1..Len(tasks)
          /\ \A j \in 1..Len(entries) : \E l \in 1..Len(tasks) : entries[j] = tasks[l]
      <4>1. /\ i \in 1..Len(tasks)
            /\ \A j \in 1..Len(Without(i)) : \E l \in 1..Len(tasks) : Without(i)[j] = tasks[l]
        BY <1>1, TasksWithout
      <4> QED
        BY <3>2, <4>1
    <3>4. entries \in Seq(TaskOn(Tag))
      BY <1>1, <3>2, <3>3, WithoutTasks
    <3>5. Sent(entries)
      BY <1>1, <3>3 DEF Sent
    <3> QED
      BY <3>4, <3>5
  <2> QED
    BY <2>1, <2>2
<1>3. before \in Seq(ToServerOn(Tag))
  BY ClientTypes DEF IInv
<1>4. /\ tasks' = entries /\ consumers' = cons /\ registered' = reg
      /\ toServer' = toServer \o before
  <2>1. /\ tasks' = entries /\ consumers' = cons /\ registered' = reg
        /\ toServer' = IF link THEN toServer \o before ELSE toServer
    BY <1>1, <1>2, <1>3, FlushSent
  <2> QED
    BY <2>1
<1>5. AllAreSent'
  BY <1>2, <1>4 DEF AllAreSent
<1>6. CASE before = <<>>
  <2>1. toServer' = toServer
    BY <1>1, <1>4, <1>6, ConcatEmptySeq
  <2> QED
    BY <1>1, <1>4, <1>5, <2>1
<1>7. CASE before = Method(x, None)
  <2>1. toServer' = toServer \o Method(x, None) /\ x \in MethodName /\ None \in Arg
    BY <1>4, <1>7 DEF MethodName, Arg
  <2>2. before # <<>>
    BY <1>7, MethodIs
  <2>3. /\ \A n : /\ Carried(toServer', n) = IF x = n THEN Append(Carried(toServer, n), None)
                                             ELSE Carried(toServer, n)
                  /\ Absent(toServer', n) <=> Absent(toServer, n) /\ x # n
                  /\ \A a : Carries(toServer', n, a) <=>
                              Carries(toServer, n, a) \/ (x = n /\ None = a)
        /\ Ordered(toServer) /\ (x = "consume" => ~Carries(toServer, "cancel", None))
             => Ordered(toServer')
        /\ \A bound, k : Binds(toServer', bound, k) <=>
             \/ x = "bind" /\ None = k
             \/ Binds(toServer, bound, k) /\ ~(x = "unbind" /\ None = k)
    BY <1>1, <2>1, AfterWrite
  <2> QED
    BY <1>1, <1>4, <1>5, <2>2, <2>3
<1> QED
  BY <1>6, <1>7

\* The part of the invariant about the channel alone, after a dispatch.
LEMMA DispatchPhases ==
  ASSUME IInv, NEW m, m \notin {"channelOpenOk", "declareOk"}, Receive(m),
         UNCHANGED <<link, srv, srvConsumers>>,
         \A n : n \notin {"close", "closeOk"} => (Absent(toServer, n) => Absent(toServer', n)),
         srv = "open" => Absent(toServer', "closeOk"),
         state' = "open" => m # "close" /\ state = "open" /\ toServer' = toServer,
         ~tracked' => state' = "closed"
  PROVE  ~IsOpening' /\ Phases' /\ Shut'
<1>1. /\ link /\ Opened(toServer, toClient)
      /\ \A n : Absent(toClient, n) <=> Absent(toClient', n) /\ m # n
  BY AfterReceive
<1>2. Opened(toServer', toClient')
  BY <1>1 DEF Opened
<1>3. ~IsOpening'
  BY <1>2, OpenedIsNot DEF IsOpening
<1>4. Phases'
  <2>1. /\ srv' # "open" => srvConsumers' = {}
        /\ srv' = "open" => Absent(toServer', "closeOk") /\ Absent(toClient', "close")
    BY <1>1 DEF IInv, Phases
  <2> QED
    BY <1>1, <1>2, <1>3, <2>1 DEF Phases
<1>5. Shut'
  <2>1. CASE state' = "open"
    BY <1>1, <2>1 DEF IInv, Shut
  <2>2. CASE state' # "open"
    BY <2>2 DEF Shut
  <2> QED
    BY <2>1, <2>2
<1> QED
  BY <1>3, <1>4, <1>5

\* bind() is answered.
LEMMA OnBindOkKeeps ==
  ASSUME IInv, OnBindOk
  PROVE  IInv'
<1>1. /\ Receive("bindOk") /\ Flush(state, registered, consumers, tasks, <<>>)
      /\ UNCHANGED <<options, state, tracked, bindings, link, losses, known, wanted, active>>
      /\ UNCHANGED <<srv, srvBindings, srvConsumers, incidents>>
  BY DEF OnBindOk, linkVars, brokerVars, appVars
<1>2. /\ link /\ tracked /\ ~IsOpening /\ Opened(toServer, toClient)
      /\ \A n : n # "bindOk" => Carried(toClient', n) = Carried(toClient, n)
      /\ \A n : Absent(toClient, n) => Absent(toClient', n)
  BY <1>1, AfterReceive
<1>3. registered \in BOOLEAN
  BY ClientTypes DEF IInv
<1>4. /\ tasks' = tasks /\ consumers' = consumers /\ registered' = registered /\ AllAreSent'
      /\ toServer' = toServer /\ Ordered(toServer)'
  BY <1>1, <1>2, <1>3, Dispatching
<1>5. ~IsOpening' /\ Phases' /\ Shut'
  <2>1. /\ srv = "open" => Absent(toServer', "closeOk")
        /\ ~tracked' => state' = "closed"
    BY <1>1, <1>4 DEF IInv, Phases
  <2> QED
    BY <1>1, <1>4, <2>1, DispatchPhases
<1>6. TypeInv'
  BY OnBindOkTypes DEF IInv
<1>7. \A t : Comes(t)' <=> Comes(t)
  BY <1>1, <1>4 DEF Comes
<1>8. Backed' /\ Heard' /\ Cancelled'
  BY <1>1, <1>2, <1>4, <1>7 DEF Backed, Heard, Cancelled, IInv
<1>9. Owned'
  <2>1. Matched => Matched'
    BY <1>1, <1>2, <1>4 DEF Matched
  <2>2. OwnTags => OwnTags'
    BY <1>4 DEF OwnTags
  <2> QED
    BY <1>1, <1>4, <1>5, <2>1, <2>2, OwnedKept DEF IInv, NeverLost
<1>10. Forgotten'
  <2>1. Opened(toServer', toClient')
    BY <1>5 DEF Phases
  <2> QED
    BY <1>1, <1>2, <1>4, <2>1 DEF Forgotten, IInv
<1>11. Restored'
  <2>1. \A k \in wanted' : bindings'[k] > 0
    BY <1>1 DEF IInv, Restored
  <2>2. Undisturbed(toServer, toClient) => Undisturbed(toServer', toClient')
    BY <1>2, <1>4 DEF Undisturbed
  <2> QED
    BY <1>1, <1>2, <1>4, <1>5, <2>1, <2>2, RestoredKept DEF IInv
<1>12. Served'
  BY <1>1, <1>2, <1>4, <1>5, <1>7, ServedKept DEF IInv
<1> QED
  BY <1>4, <1>5, <1>6, <1>8, <1>9, <1>10, <1>11, <1>12 DEF IInv

\* The reply to a deletion resolves its task.
LEMMA DeleteOkKeeps ==
  ASSUME IInv, OnReply, Receive("deleteOk"),
         NEW entries, entries = tasks \/ \E i \in Awaiting("delete") : entries = Without(i),
         Flush(state, registered, consumers, entries, <<>>)
  PROVE  IInv'
<1>1. /\ UNCHANGED <<options, state, tracked, bindings, link, losses, known, wanted, active>>
      /\ UNCHANGED <<srv, srvBindings, srvConsumers, incidents>>
  BY DEF OnReply, linkVars, brokerVars, appVars, bindVars
<1>2. /\ link /\ tracked /\ ~IsOpening /\ Opened(toServer, toClient)
      /\ \A n : n # "deleteOk" => Carried(toClient', n) = Carried(toClient, n)
      /\ \A n : Absent(toClient, n) => Absent(toClient', n)
  BY AfterReceive
<1>3. registered \in BOOLEAN /\ tasks \in Seq(Entry)
  BY ClientTypes, Domains DEF IInv
<1>4. /\ tasks' = entries /\ consumers' = consumers /\ registered' = registered /\ AllAreSent'
      /\ toServer' = toServer /\ Ordered(toServer)'
  BY <1>2, <1>3, Dispatching
<1>5. /\ \A o : o # "delete" => /\ Waiting(tasks', o) = Waiting(tasks, o)
                                /\ \A a : Waits(tasks', o, a) <=> Waits(tasks, o, a)
      /\ \A j \in 1..Len(tasks') : \E l \in 1..Len(tasks) : tasks'[j] = tasks[l]
  <2>1. CASE entries = tasks
    BY <1>4, <2>1
  <2>2. CASE \E i \in Awaiting("delete") : entries = Without(i)
    <3>1. PICK i \in Awaiting("delete") : tasks' = Without(i)
      BY <1>4, <2>2
    <3>2. /\ \A j \in 1..Len(Without(i)) : \E l \in 1..Len(tasks) : Without(i)[j] = tasks[l]
          /\ \A o : o # "delete" => Waiting(Without(i), o) = Waiting(tasks, o)
          /\ \A o, a : Waits(Without(i), o, a) => Waits(tasks, o, a)
          /\ \A o, a : Waits(tasks, o, a) /\ (o # "delete" \/ a # tasks[i].arg) =>
                         Waits(Without(i), o, a)
      BY <1>3, TasksWithout
    <3> QED
      BY <3>1, <3>2
  <2> QED
    BY <2>1, <2>2
<1>6. ~IsOpening' /\ Phases' /\ Shut'
  <2>1. /\ srv = "open" => Absent(toServer', "closeOk")
        /\ ~tracked' => state' = "closed"
    BY <1>1, <1>4 DEF IInv, Phases
  <2> QED
    BY <1>1, <1>4, <2>1, DispatchPhases
<1>7. TypeInv'
  BY OnReplyTypes DEF IInv
<1>8. \A t : Comes(t)' <=> Comes(t)
  BY <1>1, <1>4 DEF Comes
<1>9. Backed' /\ Heard' /\ Cancelled'
  BY <1>1, <1>2, <1>4, <1>5, <1>8 DEF Backed, Heard, Cancelled, IInv
<1>10. Owned'
  <2>1. Matched => Matched'
    BY <1>1, <1>2, <1>4, <1>5 DEF Matched
  <2>2. OwnTags => OwnTags'
    BY <1>4, <1>5, FewerOwn
  <2> QED
    BY <1>1, <1>4, <1>6, <2>1, <2>2, OwnedKept DEF IInv, NeverLost
<1>11. Forgotten'
  <2>1. Opened(toServer', toClient')
    BY <1>6 DEF Phases
  <2> QED
    BY <1>1, <1>2, <1>4, <1>5, <2>1 DEF Forgotten, IInv
<1>12. Restored'
  <2>1. \A k \in wanted' : bindings'[k] > 0
    BY <1>1 DEF IInv, Restored
  <2>2. Undisturbed(toServer, toClient) => Undisturbed(toServer', toClient')
    BY <1>2, <1>4 DEF Undisturbed
  <2> QED
    BY <1>1, <1>2, <1>4, <1>6, <2>1, <2>2, RestoredKept DEF IInv
<1>13. Served'
  BY <1>1, <1>2, <1>4, <1>5, <1>6, <1>8, ServedKept DEF IInv
<1> QED
  BY <1>4, <1>6, <1>7, <1>9, <1>10, <1>11, <1>12, <1>13 DEF IInv

\* The reply to an unbind resolves its task, which is there.
LEMMA UnbindOkKeeps ==
  ASSUME IInv, OnReply, Receive("unbindOk"),
         NEW entries, \/ Awaiting("unbind") = {} /\ entries = tasks
                      \/ \E i \in Awaiting("unbind") : entries = Without(i),
         Flush(state, registered, consumers, entries, <<>>)
  PROVE  IInv'
<1>1. /\ UNCHANGED <<options, state, tracked, bindings, link, losses, known, wanted, active>>
      /\ UNCHANGED <<srv, srvBindings, srvConsumers, incidents>>
  BY DEF OnReply, linkVars, brokerVars, appVars, bindVars
<1>2. PICK h \in Arg :
           /\ link /\ tracked /\ ~IsOpening /\ Opened(toServer, toClient)
           /\ \A n : n # "unbindOk" => Carried(toClient', n) = Carried(toClient, n)
           /\ Carried(toClient, "unbindOk") = <<h>> \o Carried(toClient', "unbindOk")
           /\ \A n : Absent(toClient, n) => Absent(toClient', n)
           /\ toClient' \in Seq(Message)
  BY AfterReceive
<1>3. /\ registered \in BOOLEAN /\ tasks \in Seq(Entry) /\ toServer \in Seq(Message)
      /\ tasks \in Seq(TaskOn(Tag)) /\ Tag \subseteq Nat
  BY ClientTypes, Domains DEF IInv
<1>4. /\ tasks' = entries /\ consumers' = consumers /\ registered' = registered /\ AllAreSent'
      /\ toServer' = toServer /\ Ordered(toServer)'
  BY <1>2, <1>3, Dispatching
<1>5. /\ Len(Carried(toClient, "unbindOk")) = Len(Carried(toClient', "unbindOk")) + 1
      /\ Len(Carried(toClient', "unbindOk")) \in Nat /\ Len(Carried(toServer, "unbind")) \in Nat
  <2>1. Carried(toClient', "unbindOk") \in Seq(Arg) /\ Carried(toServer, "unbind") \in Seq(Arg)
    BY <1>2, <1>3, CarriedType
  <2> QED
    BY <1>2, <2>1, OneMoves
<1>6. PICK i \in Awaiting("unbind") : tasks' = Without(i)
  <2>1. Awaiting("unbind") # {}
    <3>1. SUFFICES ASSUME Awaiting("unbind") = {} PROVE FALSE
      OBVIOUS
    <3>2. Waiting(tasks, "unbind") = <<>>
      BY <1>3, <3>1, NoneAwaits
    <3> QED
      BY <1>5, <3>2 DEF Backed, IInv
  <2> QED
    BY <1>4, <2>1
<1>7. /\ \A o : o # "unbind" => /\ Waiting(tasks', o) = Waiting(tasks, o)
                                /\ \A a : Waits(tasks', o, a) <=> Waits(tasks, o, a)
      /\ \A j \in 1..Len(tasks') : \E l \in 1..Len(tasks) : tasks'[j] = tasks[l]
      /\ Len(Waiting(tasks, "unbind")) = Len(Waiting(tasks', "unbind")) + 1
      /\ Len(Waiting(tasks', "unbind")) \in Nat
  <2>1. /\ \A j \in 1..Len(Without(i)) : \E l \in 1..Len(tasks) : Without(i)[j] = tasks[l]
        /\ \A o : o # "unbind" => Waiting(Without(i), o) = Waiting(tasks, o)
        /\ \A o, a : Waits(Without(i), o, a) => Waits(tasks, o, a)
        /\ \A o, a : Waits(tasks, o, a) /\ (o # "unbind" \/ a # tasks[i].arg) =>
                       Waits(Without(i), o, a)
        /\ Waiting(tasks, "unbind") = <<tasks[i].arg>> \o Waiting(Without(i), "unbind")
        /\ i \in 1..Len(tasks)
    BY <1>3, TasksWithout
  <2>2. Without(i) \in Seq(TaskOn(Tag))
    BY <1>3, <2>1, WithoutTasks
  <2>3. Waiting(Without(i), "unbind") \in Seq(Arg) /\ tasks[i].arg \in Arg
    <3>1. tasks[i] \in Entry
      BY <1>3, <2>1
    <3> QED
      BY <1>3, <2>2, <3>1, WaitingType DEF Entry
  <2>4. /\ Len(<<tasks[i].arg>> \o Waiting(Without(i), "unbind"))
             = Len(Waiting(Without(i), "unbind")) + 1
        /\ Len(Waiting(Without(i), "unbind")) \in Nat
    BY <2>3, OneMoves
  <2> QED
    BY <1>6, <2>1, <2>4
<1>8. ~IsOpening' /\ Phases' /\ Shut'
  <2>1. /\ srv = "open" => Absent(toServer', "closeOk")
        /\ ~tracked' => state' = "closed"
    BY <1>1, <1>4 DEF IInv, Phases
  <2> QED
    BY <1>1, <1>4, <2>1, DispatchPhases
<1>9. TypeInv'
  BY OnReplyTypes DEF IInv
<1>10. \A t : Comes(t)' <=> Comes(t)
  BY <1>1, <1>4 DEF Comes
<1>11. Backed'
  BY <1>4, <1>5, <1>7 DEF Backed, IInv
<1>12. Heard' /\ Cancelled'
  BY <1>1, <1>2, <1>4, <1>7, <1>10 DEF Heard, Cancelled, IInv
<1>13. Owned'
  <2>1. Matched => Matched'
    BY <1>1, <1>2, <1>4, <1>7 DEF Matched
  <2>2. OwnTags => OwnTags'
    BY <1>4, <1>7, FewerOwn
  <2> QED
    BY <1>1, <1>4, <1>8, <2>1, <2>2, OwnedKept DEF IInv, NeverLost
<1>14. Forgotten'
  <2>1. Opened(toServer', toClient')
    BY <1>8 DEF Phases
  <2> SUFFICES ASSUME NEW k \in Key, bindings[k] = 0, Binds(toServer, srvBindings, k),
                      "unbindLost" \notin incidents
               PROVE  /\ link' /\ srv' # "open"
                      /\ Len(Carried(toClient', "unbindOk")) + Len(Carried(toServer', "unbind"))
                           < Len(Waiting(tasks', "unbind"))
    BY <1>1, <1>4, <2>1 DEF Forgotten
  <2>2. /\ link /\ srv # "open"
        /\ Len(Carried(toClient, "unbindOk")) + Len(Carried(toServer, "unbind"))
             < Len(Waiting(tasks, "unbind"))
    BY DEF Forgotten, IInv
  <2> QED
    BY <1>1, <1>4, <1>5, <1>7, <2>2
<1>15. Restored'
  <2>1. \A k \in wanted' : bindings'[k] > 0
    BY <1>1 DEF IInv, Restored
  <2>2. Undisturbed(toServer, toClient) => Undisturbed(toServer', toClient')
    BY <1>2, <1>4 DEF Undisturbed
  <2> QED
    BY <1>1, <1>2, <1>4, <1>8, <2>1, <2>2, RestoredKept DEF IInv
<1>16. Served'
  BY <1>1, <1>2, <1>4, <1>7, <1>8, <1>10, ServedKept DEF IInv
<1> QED
  BY <1>4, <1>8, <1>9, <1>11, <1>12, <1>13, <1>14, <1>15, <1>16 DEF IInv

\* unbind() or destroy() is answered.
LEMMA OnReplyKeeps ==
  ASSUME IInv, OnReply
  PROVE  IInv'
<1>1. CASE /\ Receive("unbindOk")
           /\ \/ Awaiting("unbind") = {} /\ Flush(state, registered, consumers, tasks, <<>>)
              \/ \E i \in Awaiting("unbind") : Flush(state, registered, consumers, Without(i), <<>>)
  <2>1. PICK entries : /\ \/ Awaiting("unbind") = {} /\ entries = tasks
                          \/ \E i \in Awaiting("unbind") : entries = Without(i)
                       /\ Flush(state, registered, consumers, entries, <<>>)
    BY <1>1
  <2> QED
    BY <1>1, <2>1, UnbindOkKeeps
<1>2. CASE /\ Receive("deleteOk")
           /\ \/ Awaiting("delete") = {} /\ Flush(state, registered, consumers, tasks, <<>>)
              \/ \E i \in Awaiting("delete") : Flush(state, registered, consumers, Without(i), <<>>)
  <2>1. PICK entries : /\ \/ entries = tasks
                          \/ \E i \in Awaiting("delete") : entries = Without(i)
                       /\ Flush(state, registered, consumers, entries, <<>>)
    BY <1>2
  <2> QED
    BY <1>2, <2>1, DeleteOkKeeps
<1> QED
  BY <1>1, <1>2 DEF OnReply

\* subscribe() is answered.
LEMMA OnConsumeOkKeeps ==
  ASSUME IInv, OnConsumeOk
  PROVE  IInv'
<1>1. /\ Receive("consumeOk")
      /\ UNCHANGED <<options, state, tracked, bindings, link, losses, wanted, active>>
      /\ UNCHANGED <<srv, srvBindings, srvConsumers, incidents>>
  BY DEF OnConsumeOk, linkVars, brokerVars, bindVars
<1>2. PICK entries :
           /\ Flush(state, registered, consumers, entries, <<>>)
           /\ \/ Awaiting("consume") = {} /\ entries = tasks
              \/ \E i \in Awaiting("consume") :
                   /\ entries = Without(i)
                   /\ known' = IF tasks[i].sub = None THEN known
                               ELSE [known EXCEPT ![tasks[i].sub] = Head(toClient).arg]
  BY DEF OnConsumeOk
<1>3. PICK h \in Arg :
           /\ h = Head(toClient).arg
           /\ link /\ tracked /\ ~IsOpening /\ Opened(toServer, toClient)
           /\ \A n : n # "consumeOk" => Carried(toClient', n) = Carried(toClient, n)
           /\ Carried(toClient, "consumeOk") = <<h>> \o Carried(toClient', "consumeOk")
           /\ \A n : Absent(toClient, n) => Absent(toClient', n)
           /\ toClient' \in Seq(Message)
  BY <1>1, AfterReceive
<1>4. /\ registered \in BOOLEAN /\ tasks \in Seq(Entry) /\ toServer \in Seq(Message)
      /\ tasks \in Seq(TaskOn(Tag)) /\ Tag \subseteq Nat /\ known \in [Sub -> {0} \cup Tag]
  BY ClientTypes, Domains DEF IInv
<1>5. \/ Awaiting("consume") = {} /\ entries = tasks
      \/ \E i \in Awaiting("consume") : entries = Without(i)
  BY <1>2
<1>6. /\ tasks' = entries /\ consumers' = consumers /\ registered' = registered /\ AllAreSent'
      /\ toServer' = toServer /\ Ordered(toServer)'
  <2>1. entries = tasks \/ \E op : \E i \in Awaiting(op) : entries = Without(i)
    BY <1>5
  <2>2. link /\ registered \in BOOLEAN /\ Flush(state, registered, consumers, entries, <<>>)
    BY <1>2, <1>3, <1>4
  <2> QED
    BY <2>1, <2>2, Dispatching
<1>7. /\ \A o : o # "consume" => /\ Waiting(tasks', o) = Waiting(tasks, o)
                                 /\ \A a : Waits(tasks', o, a) <=> Waits(tasks, o, a)
      /\ \A j \in 1..Len(tasks') : \E l \in 1..Len(tasks) : tasks'[j] = tasks[l]
  <2>1. CASE entries = tasks
    BY <1>6, <2>1
  <2>2. CASE \E i \in Awaiting("consume") : entries = Without(i)
    <3>1. PICK i \in Awaiting("consume") : tasks' = Without(i)
      BY <1>6, <2>2
    <3>2. /\ \A j \in 1..Len(Without(i)) : \E l \in 1..Len(tasks) : Without(i)[j] = tasks[l]
          /\ \A o : o # "consume" => Waiting(Without(i), o) = Waiting(tasks, o)
          /\ \A o, a : Waits(Without(i), o, a) => Waits(tasks, o, a)
          /\ \A o, a : Waits(tasks, o, a) /\ (o # "consume" \/ a # tasks[i].arg) =>
                         Waits(Without(i), o, a)
      BY <1>4, TasksWithout
    <3> QED
      BY <3>1, <3>2
  <2> QED
    BY <1>5, <2>1, <2>2
<1>8. ~IsOpening' /\ Phases' /\ Shut'
  <2>1. /\ srv = "open" => Absent(toServer', "closeOk")
        /\ ~tracked' => state' = "closed"
    BY <1>1, <1>6 DEF IInv, Phases
  <2> QED
    BY <1>1, <1>6, <2>1, DispatchPhases
<1>9. TypeInv'
  BY OnConsumeOkTypes DEF IInv
<1>10. \A t : Comes(t)' <=> Comes(t)
  BY <1>1, <1>6 DEF Comes
<1>11. Backed' /\ Heard' /\ Cancelled'
  BY <1>1, <1>3, <1>6, <1>7, <1>10 DEF Backed, Heard, Cancelled, IInv
<1>12. Owned'
  <2> SUFFICES ASSUME NeverLost'
               PROVE  /\ Matched' /\ OwnTags' /\ TagIsOwn'
                      /\ \A c \in consumers' : c.state # "closed"
    BY <1>1, <1>3, <1>8 DEF Owned
  <2>1. /\ Matched /\ OwnTags /\ TagIsOwn
        /\ \A c \in consumers : c.state # "closed"
    BY <1>1 DEF IInv, Owned, NeverLost
  <2>2. PICK rest \in Seq(Arg) :
             /\ Waiting(tasks, "consume") = Carried(toClient, "consumeOk") \o rest
             /\ srv = "open" => rest = Carried(toServer, "consume")
    <3>1. Carried(toServer, "consume") \in Seq(Arg)
      BY <1>4, CarriedType
    <3> QED
      BY <2>1, <3>1 DEF Matched
  <2>3. Carried(toClient', "consumeOk") \in Seq(Arg)
    BY <1>3, CarriedType
  <2>4. PICK w \in Seq(Arg) : w = Carried(toClient', "consumeOk") \o rest
    BY <2>3, ConcatProperties
  <2>5. Waiting(tasks, "consume") = <<h>> \o w
    <3>1. (<<h>> \o Carried(toClient', "consumeOk")) \o rest
            = <<h>> \o (Carried(toClient', "consumeOk") \o rest)
      BY <2>3, FirstOfBoth
    <3> QED
      BY <1>3, <2>2, <2>4, <3>1
  <2>6. Waiting(tasks, "consume") # <<>>
    BY <2>5
  <2>7. PICK i \in Awaiting("consume") :
             /\ tasks' = Without(i)
             /\ known' = IF tasks[i].sub = None THEN known ELSE [known EXCEPT ![tasks[i].sub] = h]
    BY <1>2, <1>3, <1>4, <1>6, <2>6, NoneAwaits
  <2>8. /\ i \in 1..Len(tasks) /\ tasks[i].op = "consume"
        /\ Waiting(tasks, "consume") = <<tasks[i].arg>> \o Waiting(tasks', "consume")
    BY <1>4, <2>7, TasksWithout
  <2>9. tasks[i].arg \in Arg /\ Waiting(tasks', "consume") \in Seq(Arg)
    <3>1. tasks' \in Seq(TaskOn(Tag))
      BY <1>4, <2>7, <2>8, WithoutTasks
    <3>2. tasks[i] \in Entry
      BY <1>4, <2>8
    <3> QED
      BY <1>4, <3>1, <3>2, WaitingType DEF Entry
  <2>10. tasks[i].arg = h /\ Waiting(tasks', "consume") = w
    <3> DEFINE a == tasks[i].arg
               k == Waiting(tasks', "consume")
    <3>1. <<a>> \o k = <<h>> \o w
      BY <2>5, <2>8
    <3>2. a \in Arg /\ k \in Seq(Arg)
      BY <2>9
    <3> HIDE DEF a, k
    <3>3. \A s, r \in Seq(Arg) : \A d, e \in Arg :
             <<d>> \o s = <<e>> \o r => d = e /\ s = r
      BY FirstOff
    <3>4. a = h /\ k = w
      BY <3>1, <3>2, <3>3
    <3> QED
      BY <3>4 DEF a, k
  <2>11. Matched'
    <3>1. Waiting(tasks', "consume") = Carried(toClient', "consumeOk") \o rest
      BY <2>4, <2>10
    <3>2. CASE srv = "open"
      BY <1>1, <1>6, <2>2, <3>1, <3>2 DEF Matched
    <3>3. CASE srv # "open"
      BY <1>1, <3>1, <3>3 DEF Matched
    <3> QED
      BY <3>2, <3>3
  <2>12. OwnTags'
    BY <1>6, <1>7, <2>1, FewerOwn
  <2>13. TagIsOwn'
    <3>1. CASE tasks[i].sub = None
      BY <1>6, <2>1, <2>7, <3>1 DEF TagIsOwn
    <3>2. CASE tasks[i].sub # None
      <4>1. \A c \in consumers : c.tag = h => c.sub = tasks[i].sub
        BY <2>1, <2>8, <2>10, <3>2 DEF OwnTags
      <4>2. known' = [known EXCEPT ![tasks[i].sub] = h]
        BY <2>7, <3>2
      <4>3. \A s \in Sub : known'[s] = IF s = tasks[i].sub THEN h ELSE known[s]
        BY <1>4, <4>2
      <4> QED
        BY <1>6, <2>1, <4>1, <4>3 DEF TagIsOwn
    <3> QED
      BY <3>1, <3>2
  <2> QED
    BY <1>6, <2>1, <2>11, <2>12, <2>13
<1>13. Forgotten'
  <2>1. Opened(toServer', toClient')
    BY <1>8 DEF Phases
  <2> QED
    BY <1>1, <1>3, <1>6, <1>7, <2>1 DEF Forgotten, IInv
<1>14. Restored'
  <2>1. \A k \in wanted' : bindings'[k] > 0
    BY <1>1 DEF IInv, Restored
  <2>2. Undisturbed(toServer, toClient) => Undisturbed(toServer', toClient')
    BY <1>3, <1>6 DEF Undisturbed
  <2> QED
    BY <1>1, <1>3, <1>6, <1>8, <2>1, <2>2, RestoredKept DEF IInv
<1>15. Served'
  BY <1>1, <1>3, <1>6, <1>7, <1>8, <1>10, ServedKept DEF IInv
<1> QED
  BY <1>6, <1>8, <1>9, <1>11, <1>12, <1>13, <1>14, <1>15 DEF IInv

\* unsubscribe() is answered: its consumer is gone, and so is the record.
LEMMA OnCancelOkKeeps ==
  ASSUME IInv, OnCancelOk
  PROVE  IInv'
<1>1. /\ Receive("cancelOk")
      /\ UNCHANGED <<options, tracked, bindings, link, losses, known, wanted, active>>
      /\ UNCHANGED <<srv, srvBindings, srvConsumers>>
  BY DEF OnCancelOk, linkVars, brokerVars, bindVars, appVars
<1>2a. PICK i \in Awaiting("cancel") : \E left, before :
           /\ left = {c \in consumers : c.tag # tasks[i].arg}
           /\ \/ /\ before = Method("close", None)
                 /\ state' = "closing" /\ incidents' = incidents \cup {"close"}
                 /\ Flush("closing", registered, left, Without(i), before)
              \/ /\ before = <<>>
                 /\ UNCHANGED <<state, incidents>>
                 /\ Flush(state, registered, left, Without(i), before)
  BY Zenon DEF OnCancelOk
<1>2. PICK left, before :
           /\ left = {c \in consumers : c.tag # tasks[i].arg}
           /\ \/ /\ before = Method("close", None)
                 /\ state' = "closing" /\ incidents' = incidents \cup {"close"}
                 /\ Flush("closing", registered, left, Without(i), before)
              \/ /\ before = <<>>
                 /\ UNCHANGED <<state, incidents>>
                 /\ Flush(state, registered, left, Without(i), before)
  BY <1>2a, Zenon
<1>3. PICK h \in Arg :
           /\ link /\ tracked /\ ~IsOpening /\ Opened(toServer, toClient)
           /\ \A n : n # "cancelOk" => Carried(toClient', n) = Carried(toClient, n)
           /\ Carried(toClient, "cancelOk") = <<h>> \o Carried(toClient', "cancelOk")
           /\ \A n : Absent(toClient, n) => Absent(toClient', n)
           /\ toClient' \in Seq(Message)
  BY <1>1, AfterReceive
<1>4. /\ registered \in BOOLEAN /\ tasks \in Seq(Entry) /\ toServer \in Seq(Message)
      /\ tasks \in Seq(TaskOn(Tag)) /\ Tag \subseteq Nat
  BY ClientTypes, Domains DEF IInv
<1>5. /\ tasks' = Without(i) /\ consumers' = left /\ registered' = registered /\ AllAreSent'
      /\ state' = "open" => toServer' = toServer
      /\ \A n : n # "close" => /\ Carried(toServer', n) = Carried(toServer, n)
                               /\ Absent(toServer', n) <=> Absent(toServer, n)
                               /\ \A a : Carries(toServer', n, a) <=> Carries(toServer, n, a)
      /\ Ordered(toServer)'
      /\ \A bound, k : Binds(toServer', bound, k) <=> Binds(toServer, bound, k)
  <2>1. /\ left \subseteq consumers
        /\ before = <<>> \/ before = Method("close", None)
        /\ \E st : Flush(st, registered, left, Without(i), before)
        /\ state' = "open" => before = <<>>
    BY <1>2
  <2>2. PICK st : Flush(st, registered, left, Without(i), before)
    BY <2>1
  <2> DEFINE entries == Without(i)
  <2>3. \E op : \E j \in Awaiting(op) : entries = Without(j)
    OBVIOUS
  <2>4. Flush(st, registered, left, entries, before)
    BY <2>2
  <2> HIDE DEF entries
  <2>5. /\ tasks' = entries /\ consumers' = left /\ registered' = registered /\ AllAreSent'
        /\ before = <<>> => toServer' = toServer
        /\ \A n : n # "close" => /\ Carried(toServer', n) = Carried(toServer, n)
                                 /\ Absent(toServer', n) <=> Absent(toServer, n)
                                 /\ \A a : Carries(toServer', n, a) <=> Carries(toServer, n, a)
        /\ Ordered(toServer)'
        /\ \A bound, k : Binds(toServer', bound, k) <=> Binds(toServer, bound, k)
    BY <1>3, <1>4, <2>1, <2>3, <2>4, Dispatching
  <2> QED
    BY <2>1, <2>5 DEF entries
<1>6. PICK t \in Arg :
           /\ t = tasks[i].arg /\ i \in 1..Len(tasks)
           /\ Waiting(tasks', "cancel") \in Seq(Arg)
           /\ Waiting(tasks, "cancel") = <<t>> \o Waiting(tasks', "cancel")
           /\ \A o : o # "cancel" => Waiting(tasks', o) = Waiting(tasks, o)
           /\ \A j \in 1..Len(tasks') : \E l \in 1..Len(tasks) : tasks'[j] = tasks[l]
           /\ \A a : Waits(tasks', "cancel", a) => Waits(tasks, "cancel", a)
           /\ \A a : Waits(tasks, "cancel", a) /\ a # t => Waits(tasks', "cancel", a)
  <2>1. /\ \A j \in 1..Len(Without(i)) : \E l \in 1..Len(tasks) : Without(i)[j] = tasks[l]
        /\ \A o : o # "cancel" => Waiting(Without(i), o) = Waiting(tasks, o)
        /\ \A o, a : Waits(Without(i), o, a) => Waits(tasks, o, a)
        /\ \A o, a : Waits(tasks, o, a) /\ (o # "cancel" \/ a # tasks[i].arg) =>
                       Waits(Without(i), o, a)
        /\ Waiting(tasks, "cancel") = <<tasks[i].arg>> \o Waiting(Without(i), "cancel")
        /\ i \in 1..Len(tasks)
    BY <1>4, TasksWithout
  <2>2. Without(i) \in Seq(TaskOn(Tag))
    BY <1>4, <2>1, WithoutTasks
  <2>3. Waiting(Without(i), "cancel") \in Seq(Arg) /\ tasks[i].arg \in Arg
    <3>1. tasks[i] \in Entry
      BY <1>4, <2>1
    <3> QED
      BY <1>4, <2>2, <3>1, WaitingType DEF Entry
  <2> QED
    BY <1>5, <2>1, <2>3
<1>7. consumers' = {c \in consumers : c.tag # t}
  BY <1>2, <1>5, <1>6
<1>8. ~IsOpening' /\ Phases' /\ Shut'
  <2>1. /\ srv = "open" => Absent(toServer', "closeOk")
        /\ ~tracked' => state' = "closed"
    BY <1>1, <1>3, <1>5 DEF IInv, Phases
  <2>2. state' = "open" => state = "open"
    BY <1>2
  <2> QED
    BY <1>1, <1>5, <2>1, <2>2, DispatchPhases
<1>9. TypeInv'
  BY OnCancelOkTypes DEF IInv
<1>10. \A x : Comes(x)' <=> Comes(x)
  BY <1>1, <1>5 DEF Comes
<1>11. Backed'
  BY <1>3, <1>5, <1>6 DEF Backed, IInv
<1>12. /\ Carried(toClient', "cancelOk") \in Seq(Arg)
       /\ Len(Carried(toClient, "cancelOk")) = Len(Carried(toClient', "cancelOk")) + 1
       /\ Len(Carried(toClient', "cancelOk")) \in Nat
       /\ Carried(toServer, "cancel") \in Seq(Arg)
  <2>1. Carried(toClient', "cancelOk") \in Seq(Arg) /\ Carried(toServer, "cancel") \in Seq(Arg)
    BY <1>3, <1>4, CarriedType
  <2> QED
    BY <1>3, <2>1, OneMoves
<1>13. srv = "open" =>
         /\ ~Comes(t)
         /\ \E gone \in Seq(Arg) :
              /\ Waiting(tasks', "cancel") = gone \o Carried(toServer, "cancel")
              /\ Len(Carried(toClient', "cancelOk")) <= Len(gone)
              /\ \A j \in 1..Len(gone) : ~Comes(gone[j])
  <2> SUFFICES ASSUME srv = "open"
               PROVE  /\ ~Comes(t)
                      /\ \E gone \in Seq(Arg) :
                           /\ Waiting(tasks', "cancel") = gone \o Carried(toServer, "cancel")
                           /\ Len(Carried(toClient', "cancelOk")) <= Len(gone)
                           /\ \A j \in 1..Len(gone) : ~Comes(gone[j])
    OBVIOUS
  <2>1. PICK all \in Seq(Arg) :
             /\ Waiting(tasks, "cancel") = all \o Carried(toServer, "cancel")
             /\ Len(Carried(toClient, "cancelOk")) <= Len(all)
             /\ \A j \in 1..Len(all) : ~Comes(all[j])
    BY DEF Cancelled, IInv
  <2>2. PICK first \in Arg, gone \in Seq(Arg) :
             /\ all = <<first>> \o gone /\ Len(all) = Len(gone) + 1 /\ all[1] = first
             /\ \A j \in 1..Len(gone) : gone[j] = all[j + 1]
    <3>1. all # <<>>
      BY <1>12, <2>1
    <3>2. /\ Head(all) \in Arg /\ Tail(all) \in Seq(Arg)
          /\ all = <<Head(all)>> \o Tail(all) /\ Len(all) = Len(Tail(all)) + 1 /\ all[1] = Head(all)
          /\ \A j \in 1..Len(Tail(all)) : Tail(all)[j] = all[j + 1]
      BY <3>1
    <3> QED
      BY <3>2
  <2>3. PICK w \in Seq(Arg) : w = gone \o Carried(toServer, "cancel")
    BY <1>12, ConcatProperties
  <2>4. Waiting(tasks, "cancel") = <<first>> \o w
    <3>1. (<<first>> \o gone) \o Carried(toServer, "cancel")
            = <<first>> \o (gone \o Carried(toServer, "cancel"))
      <4>1. Carried(toServer, "cancel") \in Seq(Arg)
        BY <1>12
      <4> QED
        BY <4>1, FirstOfBoth
    <3>2. Waiting(tasks, "cancel") = all \o Carried(toServer, "cancel")
      BY <2>1
    <3>3. all = <<first>> \o gone
      BY <2>2
    <3> QED
      BY <2>3, <3>1, <3>2, <3>3
  <2>5. t = first /\ Waiting(tasks', "cancel") = w
    <3>1. PICK others \in Seq(Arg) : others = Waiting(tasks', "cancel")
      BY <1>6
    <3>2. <<t>> \o others = <<first>> \o w
      BY <1>6, <2>4, <3>1
    <3>3. t = first /\ others = w
      BY <3>2, FirstOff
    <3> QED
      BY <3>1, <3>3
  <2>6. ~Comes(t)
    BY <2>1, <2>2, <2>5
  <2>7. Len(Carried(toClient', "cancelOk")) <= Len(gone)
    <3>1. Len(gone) \in Nat
      OBVIOUS
    <3> QED
      BY <1>12, <2>1, <2>2, <3>1
  <2>8. ASSUME NEW j \in 1..Len(gone) PROVE ~Comes(gone[j])
    <3>1. Len(gone) \in Nat
      OBVIOUS
    <3>2. j + 1 \in 1..Len(all) /\ gone[j] = all[j + 1]
      BY <2>2, <3>1
    <3> QED
      BY <2>1, <3>2
  <2> QED
    BY <2>3, <2>5, <2>6, <2>7, <2>8
<1>14. Heard'
  BY <1>1, <1>7, <1>10, <1>13 DEF Heard, IInv
<1>15. Cancelled'
  BY <1>1, <1>5, <1>10, <1>13 DEF Cancelled
<1>16. Owned'
  <2> SUFFICES ASSUME NeverLost'
               PROVE  /\ Matched' /\ OwnTags' /\ TagIsOwn'
                      /\ \A c \in consumers' : c.state # "closed"
    BY <1>1, <1>3, <1>8 DEF Owned
  <2>1. "dropped" \notin incidents /\ losses = 0
    BY <1>1, <1>2 DEF NeverLost
  <2>2. /\ Matched /\ OwnTags /\ TagIsOwn
        /\ \A c \in consumers : c.state # "closed"
    BY <2>1 DEF IInv, Owned, NeverLost
  <2>3. Matched'
    BY <1>1, <1>3, <1>5, <1>6, <2>2 DEF Matched
  <2>4. OwnTags'
    BY <1>6, <1>7, <2>2, FewerOwn
  <2>5. TagIsOwn'
    BY <1>1, <1>7, <2>2 DEF TagIsOwn
  <2> QED
    BY <1>7, <2>2, <2>3, <2>4, <2>5
<1>17. Forgotten'
  <2>1. Opened(toServer', toClient')
    BY <1>8 DEF Phases
  <2>2. "unbindLost" \in incidents => "unbindLost" \in incidents'
    BY <1>2
  <2> QED
    BY <1>1, <1>3, <1>5, <1>6, <2>1, <2>2 DEF Forgotten, IInv
<1>18. \A k \in wanted' : bindings'[k] > 0
  BY <1>1 DEF IInv, Restored
<1>19. CASE incidents' = incidents \cup {"close"}
  <2>1. Restored' /\ Served'
    BY <1>18, <1>19, Disturbed DEF Harmless
  <2> QED
    BY <1>5, <1>8, <1>9, <1>11, <1>14, <1>15, <1>16, <1>17, <2>1 DEF IInv
<1>20. CASE before = <<>> /\ state' = state /\ incidents' = incidents
  <2>1. toServer' = toServer
    <3> DEFINE entries == Without(i)
    <3>1. \E op : \E j \in Awaiting(op) : entries = Without(j)
      OBVIOUS
    <3>2. \E st : Flush(st, registered, left, entries, before)
      BY <1>2
    <3>3. left \subseteq consumers
      BY <1>2
    <3> HIDE DEF entries
    <3> QED
      BY <1>3, <1>4, <1>20, <3>1, <3>2, <3>3, Dispatching
  <2>2. Restored'
    <3>1. Undisturbed(toServer, toClient) => Undisturbed(toServer', toClient')
      BY <1>3, <2>1 DEF Undisturbed
    <3> QED
      BY <1>1, <1>3, <1>5, <1>8, <1>18, <1>20, <3>1, RestoredKept DEF IInv
  <2>3. Served'
    <3> SUFFICES ASSUME incidents' \subseteq {"unbindLost"}, Restores' PROVE Served'
      BY DEF Served
    <3>1. Restores /\ incidents \subseteq {"unbindLost"}
      BY <1>1, <1>20 DEF Restores
    <3>2. /\ Waiting(tasks, "cancel")
               = Carried(toClient, "cancelOk") \o Carried(toServer, "cancel")
          /\ \A c, d \in consumers : c.sub = d.sub => c = d
          /\ \A x \in Sub : active[x] = "asked" => \E c \in consumers : c.sub = x
          /\ \A c \in consumers :
               /\ active[c.sub] # "idle"
               /\ active[c.sub] = "asked" => ~Waits(tasks, "cancel", c.tag)
               /\ active[c.sub] = "stopped" => Waits(tasks, "cancel", c.tag)
               /\ active[c.sub] = "asked" => Comes(c.tag)
          /\ options.noDeclare \/ registered
      BY <1>3, <3>1 DEF IInv, Served
    <3>3. Waiting(tasks', "cancel")
            = Carried(toClient', "cancelOk") \o Carried(toServer', "cancel")
      <4>1. PICK w \in Seq(Arg) : w = Carried(toClient', "cancelOk") \o Carried(toServer, "cancel")
        BY <1>12, ConcatProperties
      <4>2. Waiting(tasks, "cancel") = <<h>> \o w
        <5>1. (<<h>> \o Carried(toClient', "cancelOk")) \o Carried(toServer, "cancel")
                = <<h>> \o (Carried(toClient', "cancelOk") \o Carried(toServer, "cancel"))
          BY <1>12, FirstOfBoth
        <5> QED
          BY <1>3, <3>2, <4>1, <5>1
      <4>3. Waiting(tasks', "cancel") = w
        BY <1>6, <4>2, FirstOff
      <4> QED
        BY <2>1, <4>1, <4>3
    <3>4. Waits(tasks, "cancel", t)
      <4>1. Waiting(tasks, "cancel")[1] = t /\ 1 \in 1..Len(Waiting(tasks, "cancel"))
        BY <1>6
      <4> QED
        BY <1>4, <4>1, WaitingType
    <3>5. \A x \in Sub : active'[x] = "asked" => \E c \in consumers' : c.sub = x
      BY <1>1, <1>7, <3>2, <3>4
    <3>6. \A c \in consumers' :
            /\ active'[c.sub] # "idle"
            /\ active'[c.sub] = "asked" => ~Waits(tasks', "cancel", c.tag)
            /\ active'[c.sub] = "stopped" => Waits(tasks', "cancel", c.tag)
            /\ active'[c.sub] = "asked" => Comes(c.tag)'
      BY <1>1, <1>6, <1>7, <1>10, <3>2
    <3>7. \A c, d \in consumers' : c.sub = d.sub => c = d
      BY <1>7, <3>2
    <3> QED
      BY <1>1, <1>3, <1>5, <1>8, <3>2, <3>3, <3>5, <3>6, <3>7 DEF Served
  <2> QED
    BY <1>5, <1>8, <1>9, <1>11, <1>14, <1>15, <1>16, <1>17, <2>2, <2>3 DEF IInv
<1> QED
  BY <1>2, <1>19, <1>20

\* The channel is closed, by the queue or by the server.
LEMMA ShuttingKeeps ==
  ASSUME IInv, NEW m \in {"basicCancel", "close", "closeOk"}, Receive(m), TypeInv',
         NEW reg \in BOOLEAN, NEW x \in {"close", "closeOk"},
         NEW before, before = <<>> \/ before = Method(x, None),
         state' # "open", Flush(state', reg, consumers, tasks, before),
         ~tracked' => state' = "closed", srv = "open" /\ x = "closeOk" => before = <<>>,
         UNCHANGED <<options, bindings, link, losses, known, wanted, active>>,
         UNCHANGED <<srv, srvBindings, srvConsumers, incidents>>
  PROVE  IInv'
<1>1. /\ link /\ ~IsOpening /\ Opened(toServer, toClient)
      /\ \A n : n # m => Carried(toClient', n) = Carried(toClient, n)
      /\ ~Absent(toClient, m)
  <2>1. m \notin {"channelOpenOk", "declareOk"}
    OBVIOUS
  <2> QED
    BY <2>1, AfterReceive
<1>2. /\ tasks' = tasks /\ consumers' = consumers /\ AllAreSent' /\ Ordered(toServer)'
      /\ before = <<>> => toServer' = toServer
      /\ \A n : n # x => /\ Carried(toServer', n) = Carried(toServer, n)
                         /\ Absent(toServer', n) <=> Absent(toServer, n)
                         /\ \A a : Carries(toServer', n, a) <=> Carries(toServer, n, a)
      /\ \A bound, k : Binds(toServer', bound, k) <=> Binds(toServer, bound, k)
  <2> DEFINE st == state'
             entries == tasks
             cons == consumers
  <2>1. Flush(st, reg, cons, entries, before) /\ cons \subseteq consumers /\ entries = tasks
    OBVIOUS
  <2> HIDE DEF st, entries, cons
  <2>2. /\ tasks' = entries /\ consumers' = cons /\ AllAreSent' /\ Ordered(toServer)'
        /\ before = <<>> => toServer' = toServer
        /\ \A n : n # x => /\ Carried(toServer', n) = Carried(toServer, n)
                           /\ Absent(toServer', n) <=> Absent(toServer, n)
                           /\ \A a : Carries(toServer', n, a) <=> Carries(toServer, n, a)
        /\ \A bound, k : Binds(toServer', bound, k) <=> Binds(toServer, bound, k)
    BY <1>1, <2>1, Dispatching
  <2> QED
    BY <2>2 DEF entries, cons
<1>3. ~IsOpening' /\ Phases' /\ Shut'
  <2>1. srv = "open" => Absent(toServer', "closeOk")
    BY <1>2 DEF IInv, Phases
  <2>2. m \notin {"channelOpenOk", "declareOk"}
    OBVIOUS
  <2>3. \A n : n \notin {"close", "closeOk"} => (Absent(toServer, n) => Absent(toServer', n))
    BY <1>2
  <2> QED
    BY <2>1, <2>2, <2>3, DispatchPhases
<1>4. \A t : Comes(t)' <=> Comes(t)
  BY <1>2 DEF Comes
<1>5. Backed' /\ Heard' /\ Cancelled'
  BY <1>1, <1>2, <1>4 DEF Backed, Heard, Cancelled, IInv
<1>6. Owned'
  <2>1. Matched => Matched'
    BY <1>1, <1>2 DEF Matched
  <2>2. OwnTags => OwnTags'
    BY <1>2 DEF OwnTags
  <2> QED
    BY <1>2, <1>3, <2>1, <2>2, OwnedKept DEF IInv, NeverLost
<1>7. Forgotten'
  <2>1. Opened(toServer', toClient')
    BY <1>3 DEF Phases
  <2> QED
    BY <1>1, <1>2, <2>1 DEF Forgotten, IInv
<1>8. Restored' /\ Served'
  <2>1. \A k \in wanted' : bindings'[k] > 0
    BY DEF IInv, Restored
  <2>2. ~(incidents \subseteq Harmless)
    BY <1>1 DEF IInv, Restored, Undisturbed
  <2> QED
    BY <2>1, <2>2, Disturbed
<1> QED
  BY <1>2, <1>3, <1>5, <1>6, <1>7, <1>8 DEF IInv

\* A consumer the server cancelled.
LEMMA OnBasicCancelKeeps ==
  ASSUME IInv, OnBasicCancel
  PROVE  IInv'
<1>1. /\ Receive("basicCancel") /\ state' = "closing" /\ tracked' = tracked
      /\ Flush("closing", registered, consumers, tasks, Method("close", None))
      /\ UNCHANGED <<options, bindings, link, losses, known, wanted, active>>
      /\ UNCHANGED <<srv, srvBindings, srvConsumers, incidents>>
  BY DEF OnBasicCancel, linkVars, brokerVars, bindVars, appVars
<1>2. registered \in BOOLEAN /\ TypeInv'
  BY ClientTypes, OnBasicCancelTypes DEF IInv
<1>3. tracked'
  BY <1>1 DEF Receive
<1>4. Flush(state', registered, consumers, tasks, Method("close", None))
  BY <1>1
<1> DEFINE before == Method("close", None)
<1> HIDE DEF before
<1>5. before = Method("close", None) /\ Flush(state', registered, consumers, tasks, before)
  BY <1>4 DEF before
<1> QED
  BY <1>1, <1>2, <1>3, <1>5, ShuttingKeeps

\* The server closes the channel.
LEMMA OnChannelCloseKeeps ==
  ASSUME IInv, OnChannelClose
  PROVE  IInv'
<1>1. /\ Receive("close") /\ state' = "closed"
      /\ Flush("closed", FALSE, consumers, tasks, Method("closeOk", None))
      /\ UNCHANGED <<options, bindings, link, losses, known, wanted, active>>
      /\ UNCHANGED <<srv, srvBindings, srvConsumers, incidents>>
  BY DEF OnChannelClose, linkVars, brokerVars, bindVars, appVars
<1>2. TypeInv'
  BY OnChannelCloseTypes DEF IInv
<1>3. srv # "open"
  <2>1. ~Absent(toClient, "close")
    BY <1>1, AfterReceive
  <2> QED
    BY <2>1 DEF IInv, Phases
<1>4. Flush(state', FALSE, consumers, tasks, Method("closeOk", None))
  BY <1>1
<1> DEFINE before == Method("closeOk", None)
<1> HIDE DEF before
<1>5. before = Method("closeOk", None) /\ Flush(state', FALSE, consumers, tasks, before)
  BY <1>4 DEF before
<1> QED
  BY <1>1, <1>2, <1>3, <1>5, ShuttingKeeps

\* The server confirms that the channel is closed.
LEMMA OnChannelCloseOkKeeps ==
  ASSUME IInv, OnChannelCloseOk
  PROVE  IInv'
<1>1. /\ Receive("closeOk") /\ state' = "closed"
      /\ Flush("closed", FALSE, consumers, tasks, <<>>)
      /\ UNCHANGED <<options, bindings, link, losses, known, wanted, active>>
      /\ UNCHANGED <<srv, srvBindings, srvConsumers, incidents>>
  BY DEF OnChannelCloseOk, linkVars, brokerVars, bindVars, appVars
<1>2. TypeInv'
  BY OnChannelCloseOkTypes DEF IInv
<1>3. Flush(state', FALSE, consumers, tasks, <<>>)
  BY <1>1
<1> QED
  BY <1>1, <1>2, <1>3, ShuttingKeeps

\* A queue that is not declared opens with its channel.
LEMMA OpenAtOnceKeeps ==
  ASSUME IInv, OnChannelOpenOk, options.noDeclare
  PROVE  IInv'
<1>1. /\ Receive("channelOpenOk") /\ state' = "open"
      /\ Flush("open", registered, consumers, tasks, <<>>)
      /\ UNCHANGED <<options, tracked, bindings, link, losses, known, wanted, active>>
      /\ UNCHANGED <<srv, srvBindings, srvConsumers, incidents>>
  BY DEF OnChannelOpenOk, linkVars, brokerVars, bindVars, appVars
<1>2. /\ toServer = <<>> /\ toClient' = <<>> /\ srv = "open" /\ IsOpening /\ link /\ tracked
      /\ srvConsumers = {}
  BY <1>1, Receiving DEF IInv, Receive, Phases
<1>3. registered \in BOOLEAN /\ tasks \in Seq(TaskOn(Tag)) /\ Tag \subseteq Nat
  BY ClientTypes, Domains DEF IInv
<1>4. tasks' = tasks /\ consumers' = consumers /\ toServer' = <<>> /\ AllAreSent'
  BY <1>1, <1>2, <1>3, Dispatching
<1>5. /\ <<>> \in Seq(Message) /\ Ordered(<<>>)
      /\ \A n : Carried(<<>>, n) = <<>> /\ Absent(<<>>, n) /\ \A a : ~Carries(<<>>, n, a)
      /\ \A bound, k : Binds(<<>>, bound, k) <=> k \in bound
  BY WireEmpty
<1>6. Opened(toServer', toClient')
  BY <1>2, <1>4, <1>5 DEF Opened
<1>7. ~IsOpening'
  BY <1>6, OpenedIsNot DEF IsOpening
<1>8. Phases'
  BY <1>1, <1>2, <1>4, <1>5, <1>6, <1>7 DEF Phases
<1>9. Shut' /\ Ordered(toServer)'
  BY <1>1, <1>2, <1>4, <1>5 DEF Shut
<1>10. TypeInv'
  BY OnChannelOpenOkTypes DEF IInv
<1>11. Waiting(tasks, "cancel") \in Seq(Arg) /\ Waiting(tasks, "unbind") \in Seq(Arg)
  BY <1>3, WaitingType
<1>12. Backed'
  BY <1>2, <1>4, <1>5, <1>11 DEF Backed
<1>13. \A t : ~Comes(t)'
  BY <1>1, <1>2, <1>4, <1>5 DEF Comes
<1>14. Heard'
  BY <1>13 DEF Heard
<1>15. Cancelled'
  <2> DEFINE gone == Waiting(tasks, "cancel")
  <2>1. gone \o <<>> = gone
    BY <1>11, ConcatEmptySeq
  <2> HIDE DEF gone
  <2>2. Waiting(tasks', "cancel") = gone \o Carried(toServer', "cancel")
    BY <1>4, <1>5, <2>1 DEF gone
  <2>3. Len(Carried(toClient', "cancelOk")) <= Len(gone) /\ gone \in Seq(Arg)
    BY <1>2, <1>5, <1>11 DEF gone
  <2> QED
    BY <1>13, <2>2, <2>3, Zenon DEF Cancelled
<1>16. Owned'
  <2> SUFFICES ASSUME NeverLost' PROVE Owned'
    BY DEF Owned
  <2>1. /\ tasks = <<>> /\ OwnTags /\ TagIsOwn
        /\ \A c \in consumers : c.state # "closed"
    BY <1>1, <1>2 DEF IInv, Owned, NeverLost
  <2>2. OwnTags' /\ TagIsOwn'
    BY <1>1, <1>4, <2>1 DEF OwnTags, TagIsOwn
  <2>3. Matched'
    <3>1. Waiting(tasks', "consume") = <<>>
      BY <1>4, <2>1, ChosenEmpty DEF Waiting
    <3>2. Carried(toClient', "consumeOk") \o Carried(toServer', "consume") = <<>>
      BY <1>2, <1>4, <1>5
    <3> QED
      BY <1>1, <1>2, <3>1, <3>2 DEF Matched
  <2> QED
    BY <1>1, <1>2, <1>4, <1>7, <2>1, <2>2, <2>3 DEF Owned
<1>17. Forgotten'
  BY <1>1, <1>2, <1>4, <1>5 DEF Forgotten, IInv
<1>18. Restored'
  <2>1. /\ \A k \in wanted : bindings[k] > 0
        /\ incidents \subseteq Harmless /\ losses = 0 => wanted = {}
    BY <1>2 DEF Restored, IInv
  <2>2. Undisturbed(toServer', toClient')
    BY <1>2, <1>4, <1>5 DEF Undisturbed
  <2>3. Restores' => losses = 0
    BY <1>1 DEF Restores
  <2> QED
    BY <1>1, <1>2, <1>7, <2>1, <2>2, <2>3 DEF Restored
<1>19. Served'
  <2> SUFFICES ASSUME incidents' \subseteq {"unbindLost"}, Restores' PROVE Served'
    BY DEF Served
  <2>1. Restores /\ incidents \subseteq {"unbindLost"}
    BY <1>1 DEF Restores
  <2>2. /\ consumers = {} /\ \A s \in Sub : active[s] # "asked"
        /\ Waiting(tasks, "cancel") = Carried(toClient, "cancelOk") \o Carried(toServer, "cancel")
    BY <1>2, <2>1 DEF Served, IInv
  <2>3. Carried(toClient, "cancelOk") = <<>> /\ Carried(toServer, "cancel") = <<>>
    BY <1>2, OpeningWires DEF IsOpening
  <2>4. Waiting(tasks', "cancel") = Carried(toClient', "cancelOk") \o Carried(toServer', "cancel")
    BY <1>2, <1>4, <1>5, <2>2, <2>3
  <2> QED
    BY <1>1, <1>2, <1>4, <1>7, <2>2, <2>4 DEF Served
<1> QED
  BY <1>4, <1>8, <1>9, <1>10, <1>12, <1>14, <1>15, <1>16, <1>17, <1>18, <1>19 DEF IInv

\* The channel is open.
LEMMA OnChannelOpenOkKeeps ==
  ASSUME IInv, OnChannelOpenOk
  PROVE  IInv'
<1>1. CASE options.noDeclare
  BY <1>1, OpenAtOnceKeeps
<1>2. CASE ~options.noDeclare
  <2>1. /\ Receive("channelOpenOk") /\ state' = "declare queue"
        /\ Flush("declare queue", registered, consumers, tasks, Method("declare", None))
        /\ UNCHANGED <<options, tracked, bindings, link, losses, known, wanted, active>>
        /\ UNCHANGED <<srv, srvBindings, srvConsumers, incidents>>
    BY <1>2 DEF OnChannelOpenOk, linkVars, brokerVars, bindVars, appVars
  <2>2. toServer = <<>> /\ toClient' = <<>> /\ srv = "open" /\ IsOpening /\ link /\ tracked
    BY <2>1, Receiving DEF IInv, Receive
  <2>3. /\ tasks' = tasks /\ consumers' = consumers /\ registered' = registered
        /\ toServer' = <<>> \o Method("declare", None)
    BY <2>1, <2>2 DEF Flush, Write
  <2>4. toServer' = Method("declare", None)
    <3> DEFINE e == [m |-> "declare", arg |-> None]
    <3>1. toServer' = <<>> \o <<e>> /\ Method("declare", None) = <<e>>
      BY <2>3 DEF Method
    <3> HIDE DEF e
    <3> QED
      BY <3>1
  <2>5. IsOpening'
    BY <2>1, <2>2, <2>4 DEF IsOpening, Opening
  <2>6. TypeInv'
    BY OnChannelOpenOkTypes DEF IInv
  <2> QED
    BY <2>1, <2>2, <2>3, <2>5, <2>6, NowOpening
<1> QED
  BY <1>1, <1>2

-----------------------------------------------------------------------------
(* What happens to the connection keeps the invariant *)

\* The connection is back.
LEMMA LinkReadyKeeps ==
  ASSUME IInv, LinkReady
  PROVE  IInv'
<1>1. /\ ~link /\ link' /\ toServer' = IF tracked THEN Method("channelOpen", None) ELSE <<>>
      /\ UNCHANGED <<options, tracked, registered, bindings, consumers, tasks, losses, toClient>>
      /\ UNCHANGED <<known, wanted, active, srv, srvBindings, srvConsumers, incidents, state>>
  BY DEF LinkReady, channelVars, bindVars, consumeVars, brokerVars, appVars
<1>2. toServer = <<>> /\ toClient = <<>> /\ srv = "closed" /\ state = "closed" /\ srvConsumers = {}
  BY <1>1 DEF IInv, Phases
<1>3. TypeInv'
  BY LinkReadyTypes DEF IInv
<1>4. CASE tracked
  <2>1. IsOpening'
    BY <1>1, <1>2, <1>4 DEF IsOpening, Opening
  <2> QED
    BY <1>1, <1>2, <1>3, <2>1, NowOpening
<1>5. CASE ~tracked
  <2>1. toServer' = <<>> /\ toClient' = <<>>
    BY <1>1, <1>2, <1>5
  <2>2. /\ Opened(toServer', toClient') /\ Ordered(toServer')
        /\ \A n : Carried(<<>>, n) = <<>>
    BY <2>1, WireEmpty DEF Opened
  <2>3. ~IsOpening'
    BY <2>2, OpenedIsNot DEF IsOpening
  <2>4. Phases' /\ Shut' /\ AllAreSent' /\ Ordered(toServer)'
    BY <1>1, <1>2, <2>2, <2>3 DEF Phases, Shut, AllAreSent, IInv
  <2>5. Backed'
    BY <1>1, <1>2, <2>1 DEF Backed, IInv
  <2>6. Heard' /\ Cancelled'
    BY <1>1, <1>2 DEF Heard, Cancelled
  <2>7. Owned'
    BY <1>1 DEF Owned, NeverLost, IInv
  <2>8. Forgotten'
    BY <1>1, <1>2, <2>1 DEF Forgotten, IInv
  <2>9. Restored' /\ Served'
    <3>1. \A k \in wanted' : bindings'[k] > 0
      BY <1>1 DEF IInv, Restored
    <3>2. ~(incidents' \subseteq Harmless)
      BY <1>1, <1>5 DEF IInv, Restored
    <3> QED
      BY <3>1, <3>2, Disturbed
  <2> QED
    BY <1>3, <2>4, <2>5, <2>6, <2>7, <2>8, <2>9 DEF IInv
<1> QED
  BY <1>4, <1>5

\* A task that waits has been sent, so that it is lost with the connection.
LEMMA LostWith ==
  ASSUME IInv, NEW op \in {"cancel", "unbind"}, ~Pending(op)
  PROVE  Waiting(tasks, op) = <<>>
<1>1. tasks \in Seq(TaskOn(Tag)) /\ Tag \subseteq Nat
  BY Domains DEF IInv
<1>2. \A a : ~Waits(tasks, op, a)
  BY DEF IInv, AllAreSent, Sent, Pending, Waits
<1> QED
  BY <1>1, <1>2, WaitingType

\* The connection is lost.
LEMMA LosingKeeps ==
  ASSUME IInv, LoseChannel, TypeInv', incidents \cup LostRequests \subseteq incidents',
         ~NeverLost', losses' = 0 => ~(incidents' \subseteq Harmless),
         incidents' \subseteq {"unbindLost"} /\ Restores' =>
           /\ Restores
           /\ consumers' = IF registered THEN MarkClosed(consumers) ELSE consumers
  PROVE  IInv'
<1>1. /\ ~link' /\ srv' = "closed" /\ srvConsumers' = {} /\ toServer' = <<>> /\ toClient' = <<>>
      /\ srvBindings' \subseteq srvBindings
      /\ UNCHANGED <<options, tracked, registered, bindings, tasks, known, wanted, active>>
  BY DEF LoseChannel, ServerForgets, bindVars, appVars
<1>2. state' = "closed"
  BY DEF LoseChannel, IInv, Phases
<1>3. /\ Opened(toServer', toClient') /\ Ordered(toServer')
      /\ \A n : Carried(<<>>, n) = <<>>
      /\ \A bound, k : Binds(<<>>, bound, k) <=> k \in bound
  BY <1>1, WireEmpty DEF Opened
<1>4. ~IsOpening'
  BY <1>3, OpenedIsNot DEF IsOpening
<1>5. Phases' /\ Shut' /\ AllAreSent' /\ Ordered(toServer)'
  BY <1>1, <1>2, <1>3, <1>4 DEF Phases, Shut, AllAreSent, IInv
<1>6. /\ tasks \in Seq(TaskOn(Tag)) /\ Tag \subseteq Nat /\ toServer \in Seq(Message)
      /\ toClient \in Seq(Message) /\ consumers \subseteq RecordOn(Tag) /\ Distinct(consumers)
  BY Domains DEF IInv
<1>7. Waiting(tasks, "unbind") \in Seq(Arg)
  BY <1>6, WaitingType
<1>8. Backed'
  BY <1>1, <1>3, <1>7 DEF Backed
<1>9. Heard' /\ Cancelled' /\ Owned'
  BY <1>1 DEF Heard, Cancelled, Owned
<1>10. Forgotten'
  <2> SUFFICES ASSUME NEW k \in Key, bindings[k] = 0, k \in srvBindings,
                      "unbindLost" \notin incidents'
               PROVE  FALSE
    BY <1>1, <1>3 DEF Forgotten
  <2>1. Waiting(tasks, "unbind") = <<>> /\ "unbindLost" \notin incidents
    BY LostWith DEF LostRequests
  <2>2. PICK some \in Seq(Arg), read \in Seq(Arg) :
             some = Carried(toServer, "unbind") /\ read = Carried(toClient, "unbindOk")
    BY <1>6, CarriedType
  <2>3. Len(read) + Len(some) <= 0
    BY <2>1, <2>2 DEF Backed, IInv
  <2>4. Carried(toServer, "unbind") = <<>>
    BY <2>2, <2>3
  <2>5. ~Carries(toServer, "unbind", k)
    BY <1>6, <2>4, CarriedType DEF Carries, Absent
  <2>6. Binds(toServer, srvBindings, k)
    BY <2>5 DEF Binds
  <2>7. Len(read) + Len(some) < 0
    BY <2>1, <2>2, <2>6 DEF Forgotten, IInv
  <2> QED
    BY <2>2, <2>7
<1>11. Restored'
  <2>1. /\ \A k \in wanted : bindings[k] > 0
        /\ incidents \subseteq Harmless => tracked
    BY DEF Restored, IInv
  <2> QED
    BY <1>1, <1>4, <2>1 DEF Restored
<1>12. Served'
  <2> SUFFICES ASSUME incidents' \subseteq {"unbindLost"}, Restores', ~options.noDeclare \/ losses' = 0
               PROVE  Served'
    BY <1>1 DEF Served, Restores
  <2>1. /\ Restores /\ incidents \subseteq {"unbindLost"} /\ "cancelLost" \notin incidents'
        /\ consumers' = IF registered THEN MarkClosed(consumers) ELSE consumers
    OBVIOUS
  <2>2. ~options.noDeclare
    BY DEF Harmless
  <2>3. Waiting(tasks', "cancel") = Carried(toClient', "cancelOk") \o Carried(toServer', "cancel")
    <3>1. Waiting(tasks, "cancel") = <<>>
      BY <2>1, LostWith DEF LostRequests
    <3>2. Carried(toClient', "cancelOk") \o Carried(toServer', "cancel") = <<>>
      BY <1>1, <1>3
    <3> QED
      BY <1>1, <3>1, <3>2
  <2>4. /\ \A c, d \in consumers : c.sub = d.sub => c = d
        /\ \A s \in Sub : active[s] = "asked" => \E c \in consumers : c.sub = s
        /\ \A c \in consumers :
             /\ active[c.sub] # "idle"
             /\ active[c.sub] = "asked" => ~Waits(tasks, "cancel", c.tag)
             /\ active[c.sub] = "stopped" => Waits(tasks, "cancel", c.tag)
        /\ ~registered => \A c \in consumers : c.state = "closed"
    BY <2>1, <2>2 DEF Served, IInv
  <2>5. /\ Distinct(consumers')
        /\ \A c \in consumers' : /\ c.state = "closed"
                                 /\ \E d \in consumers : c.tag = d.tag /\ c.sub = d.sub
        /\ \A d \in consumers : \E c \in consumers' : c.tag = d.tag /\ c.sub = d.sub
    <3>1. CASE registered
      BY <1>6, <2>1, <3>1, ClosedRecords
    <3>2. CASE ~registered
      BY <1>6, <2>1, <2>4, <3>2
    <3> QED
      BY <3>1, <3>2
  <2>6. \A c, d \in consumers' : c.sub = d.sub => c = d
    <3> SUFFICES ASSUME NEW c \in consumers', NEW d \in consumers', c.sub = d.sub PROVE c = d
      OBVIOUS
    <3>1. c.tag = d.tag
      BY <2>4, <2>5
    <3> QED
      BY <2>5, <3>1 DEF Distinct
  <2>7. \A s \in Sub : active'[s] = "asked" => \E c \in consumers' : c.sub = s
    BY <1>1, <2>4, <2>5
  <2>8. \A c \in consumers' :
          /\ active'[c.sub] # "idle"
          /\ active'[c.sub] = "asked" => ~Waits(tasks', "cancel", c.tag)
          /\ active'[c.sub] = "stopped" => Waits(tasks', "cancel", c.tag)
          /\ c.state = "closed"
    BY <1>1, <2>4, <2>5
  <2> QED
    BY <1>1, <2>2, <2>3, <2>6, <2>7, <2>8 DEF Served
<1> QED
  BY <1>5, <1>8, <1>9, <1>10, <1>11, <1>12 DEF IInv

\* An error of the connection, a reconnect() of the application, or a method that
\* makes the server drop the connection.
LEMMA LossKeeps ==
  ASSUME IInv, LinkError \/ UserReconnect \/ SrvUnexpected
  PROVE  IInv'
<1>1. TypeInv'
  BY LossTypes DEF IInv
<1>2. losses \in Nat
  <2>1. losses \in 0..MaxLosses
    BY ClientTypes DEF IInv, Plain
  <2> QED
    BY <2>1, BoundsAssumption
<1>3. CASE LinkError
  <2>1. /\ LoseChannel /\ losses' = losses + 1 /\ incidents' = incidents \cup LostRequests
        /\ consumers' = IF registered THEN MarkClosed(consumers) ELSE consumers
    BY <1>3 DEF LinkError, EmitError, MarkClosed
  <2>2. losses' # 0
    BY <1>2, <2>1
  <2>3. options' = options
    BY <2>1 DEF LoseChannel
  <2> QED
    BY <1>1, <2>1, <2>2, <2>3, LosingKeeps DEF NeverLost, Restores
<1>4. CASE UserReconnect
  <2>1. /\ LoseChannel /\ losses' = losses + 1
        /\ incidents' = incidents \cup LostRequests \cup {"userReconnect"}
    BY <1>4 DEF UserReconnect
  <2>2. losses' # 0
    BY <1>2, <2>1
  <2> QED
    BY <1>1, <2>1, <2>2, LosingKeeps DEF NeverLost
<1>5. CASE SrvUnexpected
  <2>1. LoseChannel /\ incidents' = incidents \cup LostRequests \cup {"dropped"}
    BY <1>5 DEF SrvUnexpected, EmitError
  <2> QED
    BY <1>1, <2>1, LosingKeeps DEF NeverLost, Harmless
<1> QED
  BY <1>3, <1>4, <1>5

-----------------------------------------------------------------------------
(* The queue is declared: bindings and consumers are renewed *)

\* A row of binds, and a row of consumes.
BindsOf(w, keys) ==
  /\ w \in Seq(Message) /\ Len(w) = Len(keys)
  /\ \A i \in 1..Len(keys) : w[i].m = "bind" /\ w[i].arg = keys[i]

ConsumesOf(w, first, n) ==
  /\ w \in Seq(Message) /\ Len(w) = n
  /\ \A i \in 1..n : w[i].m = "consume" /\ w[i].arg = first + i - 1

\* A wire with binds, and then with consumes of the tags in a row.
LEMMA RenewalWire ==
  ASSUME NEW keys \in Seq(Key), NEW first \in Nat, NEW n \in Nat,
         NEW binds, BindsOf(binds, keys), NEW again, ConsumesOf(again, first, n)
  PROVE  /\ binds \o again \in Seq(Message) /\ Ordered(binds \o again)
         /\ \A m : m \notin {"bind", "consume"} =>
              /\ Carried(binds \o again, m) = <<>> /\ Absent(binds \o again, m)
              /\ \A a : ~Carries(binds \o again, m, a)
         /\ \A t : Carries(binds \o again, "consume", t) <=> t \in first..(first + n - 1)
         /\ \A bound : \A k \in Key :
              Binds(binds \o again, bound, k) <=>
                k \in bound \/ \E i \in 1..Len(keys) : keys[i] = k
<1> DEFINE w == binds \o again
           l == Len(keys)
<1>0. /\ binds \in Seq(Message) /\ again \in Seq(Message)
      /\ Len(binds) = Len(keys) /\ Len(again) = n
      /\ \A i \in 1..Len(keys) : binds[i].m = "bind" /\ binds[i].arg = keys[i]
      /\ \A i \in 1..n : again[i].m = "consume" /\ again[i].arg = first + i - 1
  BY DEF BindsOf, ConsumesOf
<1>1. /\ w \in Seq(Message) /\ Len(w) = l + n
      /\ \A i \in 1..l + n : w[i] = IF i <= l THEN binds[i] ELSE again[i - l]
  <2>1. ASSUME NEW a \in Seq(Message), NEW b \in Seq(Message)
        PROVE  /\ a \o b \in Seq(Message) /\ Len(a \o b) = Len(a) + Len(b)
               /\ \A i \in 1..Len(a) + Len(b) :
                    (a \o b)[i] = IF i <= Len(a) THEN a[i] ELSE b[i - Len(a)]
    BY <2>1, ConcatProperties
  <2>2. /\ w \in Seq(Message) /\ Len(w) = Len(binds) + Len(again)
        /\ \A i \in 1..Len(binds) + Len(again) :
             w[i] = IF i <= Len(binds) THEN binds[i] ELSE again[i - Len(binds)]
    BY <1>0, <2>1
  <2> QED
    BY <1>0, <2>2, Zenon
<1>2. l \in Nat /\ \A i \in 1..l : binds[i].m = "bind" /\ binds[i].arg = keys[i]
  BY <1>0
<1> HIDE DEF w, l
<1>3. \A i \in 1..l : i \in 1..Len(w) /\ w[i].m = "bind" /\ w[i].arg = keys[i]
  <2> SUFFICES ASSUME NEW i \in 1..l
               PROVE  i \in 1..Len(w) /\ w[i].m = "bind" /\ w[i].arg = keys[i]
    OBVIOUS
  <2>1. i \in 1..l + n /\ i <= l
    BY <1>2
  <2>2. w[i] = binds[i]
    BY <1>1, <2>1
  <2> QED
    BY <1>1, <1>2, <2>1, <2>2
<1>4. \A i \in 1..n : /\ l + i \in 1..Len(w) /\ w[l + i].m = "consume"
                      /\ w[l + i].arg = first + i - 1
  <2> SUFFICES ASSUME NEW i \in 1..n
               PROVE  /\ l + i \in 1..Len(w) /\ w[l + i].m = "consume"
                      /\ w[l + i].arg = first + i - 1
    OBVIOUS
  <2>1. l + i \in 1..l + n /\ ~(l + i <= l) /\ (l + i) - l = i
    BY <1>2
  <2>2. w[l + i] = again[i]
    BY <1>1, <2>1
  <2> QED
    BY <1>0, <1>1, <2>1, <2>2
<1>5. \A j \in 1..Len(w) : j \in 1..l \/ \E i \in 1..n : j = l + i
  <2> SUFFICES ASSUME NEW j \in 1..Len(w), j \notin 1..l PROVE \E i \in 1..n : j = l + i
    OBVIOUS
  <2>1. j - l \in 1..n /\ j = l + (j - l)
    BY <1>1, <1>2
  <2> QED
    BY <2>1
<1>6. \A m : m \notin {"bind", "consume"} => Absent(w, m)
  BY <1>3, <1>4, <1>5 DEF Absent
<1>7. \A m : m \notin {"bind", "consume"} =>
        Carried(w, m) = <<>> /\ Absent(w, m) /\ \A a : ~Carries(w, m, a)
  <2>1. \A m : Carried(w, m) = <<>> <=> Absent(w, m)
    BY <1>1, CarriedType
  <2>2. \A m : Absent(w, m) => \A a : ~Carries(w, m, a)
    BY DEF Absent, Carries
  <2> QED
    BY <1>6, <2>1, <2>2
<1>8. ASSUME NEW t PROVE Carries(w, "consume", t) <=> t \in first..(first + n - 1)
  <2>1. ASSUME Carries(w, "consume", t) PROVE t \in first..(first + n - 1)
    <3>1. PICK j \in 1..Len(w) : w[j].m = "consume" /\ w[j].arg = t
      BY <2>1 DEF Carries
    <3>2. PICK i \in 1..n : j = l + i
      BY <1>3, <1>5, <3>1
    <3>3. t = first + i - 1
      BY <1>4, <3>1, <3>2
    <3> QED
      BY <3>3
  <2>2. ASSUME t \in first..(first + n - 1) PROVE Carries(w, "consume", t)
    <3> DEFINE i == t - first + 1
    <3>1. i \in 1..n /\ first + i - 1 = t
      BY <2>2
    <3> HIDE DEF i
    <3>2. l + i \in 1..Len(w) /\ w[l + i].m = "consume" /\ w[l + i].arg = t
      BY <1>4, <3>1
    <3> QED
      BY <3>2 DEF Carries
  <2> QED
    BY <2>1, <2>2
<1>9. Ordered(w)
  BY <1>6 DEF Ordered, Absent
<1>10. ASSUME NEW bound, NEW k \in Key
       PROVE  Binds(w, bound, k) <=> k \in bound \/ \E i \in 1..l : keys[i] = k
  <2>1. ~Carries(w, "unbind", k) /\ Absent(w, "unbind")
    BY <1>7
  <2>2. (\E i \in 1..Len(w) : w[i].m = "bind" /\ w[i].arg = k) <=> \E i \in 1..l : keys[i] = k
    <3>1. \A j \in 1..Len(w) : w[j].m = "bind" => j \in 1..l
      BY <1>4, <1>5
    <3> QED
      BY <1>3, <3>1
  <2>3. \A i \in 1..Len(w) : i \in Nat /\ \A j \in i..Len(w) : j \in 1..Len(w)
    BY <1>1, <1>2
  <2> QED
    BY <2>1, <2>2, <2>3 DEF Binds, Absent
<1> QED
  BY <1>1, <1>7, <1>8, <1>9, <1>10 DEF w, l

\* The tags of the consumers that are renewed.
NewTags == nextTag..(nextTag + Cardinality(Resubscribed) - 1)

\* What the tasks are after the consumes of the new tags have been pushed.
LEMMA RenewalTasks ==
  ASSUME NEW s \in Seq(Entry), Sent(s), NEW more \in Seq(Entry), Sent(more),
         \A i \in 1..Len(more) : more[i].op = "consume"
  PROVE  /\ Sent(s \o more)
         /\ \A op : op # "consume" => /\ Waiting(s \o more, op) = Waiting(s, op)
                                      /\ \A a : Waits(s \o more, op, a) <=> Waits(s, op, a)
         /\ Len(more) = 0 => s \o more = s
<1> DEFINE w == s \o more
<1>1. /\ w \in Seq(Entry) /\ Len(w) = Len(s) + Len(more)
      /\ \A i \in 1..Len(s) + Len(more) : w[i] = IF i <= Len(s) THEN s[i] ELSE more[i - Len(s)]
  BY ConcatProperties
<1>2. Len(s) \in Nat /\ Len(more) \in Nat
  OBVIOUS
<1>3. Len(more) = 0 => w = s
  <2>1. Len(more) = 0 => more = <<>>
    OBVIOUS
  <2> QED
    BY <2>1, ConcatEmptySeq
<1>4. ASSUME NEW op, op # "consume" PROVE Waiting(w, op) = Waiting(s, op)
  <2>1. s \in Seq(Item) /\ more \in Seq(Item)
    BY NamedIs
  <2>2. \A i \in 1..Len(more) : more[i] \notin Queued(op)
    BY <1>4 DEF Queued
  <2>3. Chosen(more, Queued(op)) = <<>> /\ Chosen(s, Queued(op)) \in Seq(Arg)
    BY <2>1, <2>2, ChosenNone, ChosenType
  <2>4. Chosen(w, Queued(op)) = Chosen(s, Queued(op)) \o Chosen(more, Queued(op))
    BY <2>1, ChosenConcat
  <2> DEFINE c == Chosen(s, Queued(op))
  <2>5. c \o <<>> = c
    BY <2>3, ConcatEmptySeq
  <2> QED
    BY <2>3, <2>4, <2>5 DEF Waiting
<1> HIDE DEF w
<1>5. \A i \in 1..Len(s) : i \in 1..Len(w) /\ w[i] = s[i]
  BY <1>1, <1>2
<1>6. \A j \in 1..Len(w) : \/ j \in 1..Len(s)
                           \/ \E i \in 1..Len(more) : w[j] = more[i]
  <2> SUFFICES ASSUME NEW j \in 1..Len(w), j \notin 1..Len(s)
               PROVE  \E i \in 1..Len(more) : w[j] = more[i]
    OBVIOUS
  <2>1. j - Len(s) \in 1..Len(more) /\ j \in 1..Len(s) + Len(more) /\ ~(j <= Len(s))
    BY <1>1, <1>2
  <2>2. w[j] = more[j - Len(s)]
    BY <1>1, <2>1
  <2> QED
    BY <2>1, <2>2
<1>7. Sent(w)
  BY <1>5, <1>6 DEF Sent
<1>8. ASSUME NEW op, op # "consume", NEW a PROVE Waits(w, op, a) <=> Waits(s, op, a)
  <2>1. \A j \in 1..Len(w) : w[j].op = op => j \in 1..Len(s)
    BY <1>6, <1>8
  <2> QED
    BY <1>5, <2>1 DEF Waits
<1> QED
  BY <1>3, <1>4, <1>7, <1>8 DEF w

\* What the declaration writes and what it leaves of the tasks.
LEMMA DeclareOkWrites ==
  ASSUME IInv, OnDeclareOk
  PROVE  /\ toServer = <<>> /\ toClient' = <<>> /\ srv = "open" /\ IsOpening /\ link
         /\ tracked /\ srvConsumers = {} /\ state' = "open" /\ registered'
         /\ toServer' \in Seq(Message) /\ Ordered(toServer')
         /\ \A m : m \notin {"bind", "consume"} =>
              /\ Carried(toServer', m) = <<>> /\ Absent(toServer', m)
              /\ \A a : ~Carries(toServer', m, a)
         /\ \A t : Carries(toServer', "consume", t) <=> t \in NewTags
         /\ \A bound : \A k \in Key :
              Binds(toServer', bound, k) <=> k \in bound \/ bindings[k] > 0
         /\ Sent(tasks')
         /\ \A op : op # "consume" => /\ Waiting(tasks', op) = Waiting(tasks, op)
                                      /\ \A a : Waits(tasks', op, a) <=> Waits(tasks, op, a)
         /\ Cardinality(Resubscribed) = 0 => tasks' = tasks
         /\ consumers' = {c \in consumers : c.tag \notin Resubscribed} \cup Renewed
<1>1. Receive("declareOk") /\ state' = "open" /\ registered' = ~Deletes(tasks)
  BY DEF OnDeclareOk
<1>2. /\ toServer = <<>> /\ toClient' = <<>> /\ srv = "open" /\ IsOpening /\ link
      /\ tracked /\ srvConsumers = {}
  BY <1>1, Receiving DEF IInv, Receive, Phases
<1>3. /\ tasks \in Seq(TaskOn(Tag)) /\ tasks \in Seq(Entry) /\ Sent(tasks)
      /\ consumers \subseteq RecordOn(Tag)
  BY Domains DEF IInv, AllAreSent
<1>4. /\ AllSent(tasks) = tasks /\ Requests(Unsent(tasks)) = <<>> /\ ~Deletes(tasks)
      /\ MarkOpen(consumers, tasks) = consumers
  BY <1>3, NothingUnsent
<1>5. PICK keys \in Seq(Key), n \in Nat, binds \in Seq(ToServerOn(Tag)) :
           /\ n = Cardinality(Resubscribed)
           /\ \A k \in Key : bindings[k] > 0 <=> \E i \in 1..Len(keys) : keys[i] = k
           /\ Len(binds) = Len(keys)
           /\ \A i \in 1..Len(keys) : binds[i] = [m |-> "bind", arg |-> keys[i]]
           /\ Write(binds \o Requests(Unsent(tasks)) \o Requests(Renewing(n)))
           /\ tasks' = AllSent(tasks) \o Renewing(n)
           /\ consumers' = AfterRenewal
           /\ nextTag' = nextTag + n
  <2>1. TypeInv
    BY DEF IInv
  <2>2. \E keys \in Seq(Key), n \in Nat, binds \in Seq(ToServerOn(Tag)) :
           /\ n = Cardinality(Resubscribed)
           /\ \A k \in Key : bindings[k] > 0 <=> \E i \in 1..Len(keys) : keys[i] = k
           /\ Len(binds) = Len(keys)
           /\ \A i \in 1..Len(keys) : binds[i] = [m |-> "bind", arg |-> keys[i]]
           /\ Write(binds \o Requests(Unsent(tasks)) \o Requests(Renewing(n)))
           /\ tasks' = AllSent(tasks) \o Renewing(n)
           /\ consumers' = AfterRenewal
           /\ nextTag' = nextTag + n
    BY <2>1, DeclareOkIs
  <2> QED
    BY <2>2, Zenon
<1>6. nextTag \in Nat \ {0} /\ Tag \subseteq Nat
  BY Domains, ClientTypes DEF IInv, Plain
<1> DEFINE T == 1..(nextTag + n - 1)
           asked == Requests(Renewing(n))
<1>7. T \subseteq Nat
  BY <1>6
<1>8. /\ Renewing(n) \in Seq(TaskOn(T)) /\ Len(Renewing(n)) = n
      /\ \A i \in 1..n :
           /\ Renewing(n)[i].op = "consume" /\ Renewing(n)[i].arg = nextTag + i - 1
           /\ Renewing(n)[i].sent
  BY <1>6, RenewingTasks
<1> HIDE DEF T
<1>9. Renewing(n) \in Seq(Entry)
  BY <1>7, <1>8, AreItems
<1>10. /\ asked \in Seq(ToServerOn(T)) /\ Len(asked) = n
       /\ \A i \in 1..n : asked[i].m = "consume" /\ asked[i].arg = nextTag + i - 1
  <2>1. /\ asked \in Seq(ToServerOn(T)) /\ Len(asked) = Len(Renewing(n))
        /\ \A i \in 1..Len(Renewing(n)) :
             asked[i] = [m |-> Renewing(n)[i].op, arg |-> Renewing(n)[i].arg]
    BY <1>8, RequestsAre
  <2> HIDE DEF asked
  <2>2. \A i \in 1..n : /\ asked[i].m = "consume" /\ asked[i].arg = nextTag + i - 1
    <3> SUFFICES ASSUME NEW i \in 1..n
                 PROVE  asked[i].m = "consume" /\ asked[i].arg = nextTag + i - 1
      OBVIOUS
    <3>1. /\ asked[i] = [m |-> Renewing(n)[i].op, arg |-> Renewing(n)[i].arg]
          /\ Renewing(n)[i].op = "consume" /\ Renewing(n)[i].arg = nextTag + i - 1
      BY <1>8, <2>1
    <3> QED
      BY <3>1
  <2> QED
    BY <1>8, <2>1, <2>2
<1> HIDE DEF asked
<1>11. asked \in Seq(Message) /\ binds \in Seq(Message)
  BY <1>6, <1>7, <1>10, AreItems
<1>12. \A i \in 1..Len(keys) : binds[i].m = "bind" /\ binds[i].arg = keys[i]
  <2> SUFFICES ASSUME NEW i \in 1..Len(keys)
               PROVE  binds[i].m = "bind" /\ binds[i].arg = keys[i]
    OBVIOUS
  <2>1. binds[i] = [m |-> "bind", arg |-> keys[i]]
    BY <1>5
  <2> QED
    BY <2>1
<1>13. /\ binds \o asked \in Seq(Message) /\ Ordered(binds \o asked)
       /\ \A m : m \notin {"bind", "consume"} =>
            /\ Carried(binds \o asked, m) = <<>> /\ Absent(binds \o asked, m)
            /\ \A a : ~Carries(binds \o asked, m, a)
       /\ \A t : Carries(binds \o asked, "consume", t) <=> t \in nextTag..(nextTag + n - 1)
       /\ \A bound : \A k \in Key :
            Binds(binds \o asked, bound, k) <=> k \in bound \/ \E i \in 1..Len(keys) : keys[i] = k
  <2>1. nextTag \in Nat /\ BindsOf(binds, keys) /\ ConsumesOf(asked, nextTag, n)
    BY <1>5, <1>6, <1>10, <1>11, <1>12 DEF BindsOf, ConsumesOf
  <2> QED
    BY <2>1, RenewalWire
<1>14. toServer' = binds \o asked
  <2>1. Write((binds \o <<>>) \o asked)
    BY <1>4, <1>5 DEF asked
  <2>2. binds \o <<>> = binds
    BY <1>11, ConcatEmptySeq
  <2>3. toServer' = <<>> \o (binds \o asked)
    BY <1>2, <2>1, <2>2 DEF Write
  <2>4. binds \o asked \in Seq(Message)
    BY <1>11, ConcatProperties
  <2> DEFINE y == binds \o asked
  <2> HIDE DEF y
  <2>5. y \in Seq(Message) /\ toServer' = <<>> \o y
    BY <2>3, <2>4 DEF y
  <2>6. <<>> \o y = y
    BY <2>5, ConcatEmptySeq
  <2> QED
    BY <2>5, <2>6 DEF y
<1>15. tasks' = tasks \o Renewing(n)
  BY <1>4, <1>5
<1>16. /\ Sent(tasks \o Renewing(n))
       /\ \A op : op # "consume" =>
            /\ Waiting(tasks \o Renewing(n), op) = Waiting(tasks, op)
            /\ \A a : Waits(tasks \o Renewing(n), op, a) <=> Waits(tasks, op, a)
       /\ Len(Renewing(n)) = 0 => tasks \o Renewing(n) = tasks
  <2>1. Sent(Renewing(n)) /\ \A i \in 1..Len(Renewing(n)) : Renewing(n)[i].op = "consume"
    BY <1>8 DEF Sent
  <2> QED
    BY <1>3, <1>9, <2>1, RenewalTasks
<1>17. consumers' = {c \in consumers : c.tag \notin Resubscribed} \cup Renewed
  BY <1>4, <1>5 DEF AfterRenewal
<1>18. \A k \in Key : bindings[k] > 0 <=> \E i \in 1..Len(keys) : keys[i] = k
  BY <1>5
<1>19. /\ \A t : Carries(toServer', "consume", t) <=> t \in NewTags
       /\ \A bound : \A k \in Key :
            Binds(toServer', bound, k) <=> k \in bound \/ bindings[k] > 0
  <2>1. n = Cardinality(Resubscribed)
    BY <1>5
  <2>2. NewTags = nextTag..(nextTag + n - 1)
    BY <2>1 DEF NewTags
  <2> QED
    BY <1>13, <1>14, <1>18, <2>2
<1>20. Cardinality(Resubscribed) = 0 => tasks' = tasks
  BY <1>5, <1>8, <1>15, <1>16
<1>21. /\ toServer' \in Seq(Message) /\ Ordered(toServer') /\ Sent(tasks')
       /\ \A m : m \notin {"bind", "consume"} =>
            /\ Carried(toServer', m) = <<>> /\ Absent(toServer', m)
            /\ \A a : ~Carries(toServer', m, a)
       /\ \A op : op # "consume" => /\ Waiting(tasks', op) = Waiting(tasks, op)
                                    /\ \A a : Waits(tasks', op, a) <=> Waits(tasks, op, a)
  BY <1>13, <1>14, <1>15, <1>16
<1> QED
  BY <1>1, <1>2, <1>4, <1>17, <1>19, <1>20, <1>21, Zenon

\* A renewed consumer has the new tag of an old one.
LEMMA RenewedIs ==
  ASSUME TypeInv
  PROVE  /\ \A d \in Renewed : \E c \in consumers :
              /\ c.tag \in Resubscribed /\ c.sub = d.sub /\ d.tag = NewTag(c.tag)
              /\ d.tag \in NewTags
         /\ \A c \in consumers : c.tag \in Resubscribed =>
              \E d \in Renewed : d.sub = c.sub /\ d.tag = NewTag(c.tag)
         /\ \A t \in NewTags : t \notin Tag /\ \E d \in Renewed : d.tag = t
         /\ Resubscribed = {} => Cardinality(Resubscribed) = 0 /\ Renewed = {}
<1>1. /\ Resubscribed \subseteq Tag /\ Cardinality(Resubscribed) \in Nat
      /\ \A t \in Resubscribed :
           NewTag(t) \in NewTags /\ \E c \in consumers : c.tag = t /\ c.state = "closed"
      /\ \A x \in NewTags : \E t \in Resubscribed : NewTag(t) = x
  BY Renewals DEF NewTags
<1> DEFINE New(c) == [tag |-> NewTag(c.tag), sub |-> c.sub, state |-> "open"]
<1>2. \A c : New(c).tag = NewTag(c.tag) /\ New(c).sub = c.sub
  OBVIOUS
<1>3. Renewed = {New(c) : c \in {d \in consumers : d.tag \in Resubscribed}}
  BY DEF Renewed
<1> HIDE DEF New
<1>4. \A d \in Renewed : \E c \in consumers :
        /\ c.tag \in Resubscribed /\ c.sub = d.sub /\ d.tag = NewTag(c.tag)
        /\ d.tag \in NewTags
  BY <1>1, <1>2, <1>3
<1>5. \A c \in consumers : c.tag \in Resubscribed =>
        \E d \in Renewed : d.sub = c.sub /\ d.tag = NewTag(c.tag)
  BY <1>2, <1>3
<1>6. \A t \in NewTags : \E d \in Renewed : d.tag = t
  BY <1>1, <1>5
<1>7. \A t \in NewTags : t \notin Tag
  <2>1. nextTag \in Nat
    BY ClientTypes DEF Plain
  <2> QED
    BY <1>1, <2>1 DEF NewTags, Tag
<1>8. Resubscribed = {} => Cardinality(Resubscribed) = 0 /\ Renewed = {}
  BY <1>4, FS_EmptySet
<1> QED
  BY <1>4, <1>5, <1>6, <1>7, <1>8

\* The queue is open: what it binds and consumes is written again.
LEMMA OnDeclareOkKeeps ==
  ASSUME IInv, OnDeclareOk
  PROVE  IInv'
<1>1. /\ toServer = <<>> /\ toClient' = <<>> /\ srv = "open" /\ IsOpening /\ link
      /\ tracked /\ srvConsumers = {} /\ state' = "open" /\ registered'
      /\ toServer' \in Seq(Message) /\ Ordered(toServer')
      /\ \A m : m \notin {"bind", "consume"} =>
           /\ Carried(toServer', m) = <<>> /\ Absent(toServer', m)
           /\ \A a : ~Carries(toServer', m, a)
      /\ \A t : Carries(toServer', "consume", t) <=> t \in NewTags
      /\ \A bound : \A k \in Key :
           Binds(toServer', bound, k) <=> k \in bound \/ bindings[k] > 0
      /\ Sent(tasks')
      /\ \A op : op # "consume" => /\ Waiting(tasks', op) = Waiting(tasks, op)
                                   /\ \A a : Waits(tasks', op, a) <=> Waits(tasks, op, a)
      /\ Cardinality(Resubscribed) = 0 => tasks' = tasks
      /\ consumers' = {c \in consumers : c.tag \notin Resubscribed} \cup Renewed
  BY DeclareOkWrites
<1>2. /\ known' = [s \in Sub |-> IF known[s] \in Resubscribed THEN NewTag(known[s]) ELSE known[s]]
      /\ bindings' = [k \in Key |-> IF bindings[k] > 0 THEN bindings[k] + 1 ELSE 0]
      /\ UNCHANGED <<options, tracked, link, losses, wanted, active, incidents>>
      /\ UNCHANGED <<srv, srvBindings, srvConsumers>>
  BY DEF OnDeclareOk, linkVars, brokerVars
<1>3. /\ \A d \in Renewed : \E c \in consumers :
           /\ c.tag \in Resubscribed /\ c.sub = d.sub /\ d.tag = NewTag(c.tag)
           /\ d.tag \in NewTags
      /\ \A c \in consumers : c.tag \in Resubscribed =>
           \E d \in Renewed : d.sub = c.sub /\ d.tag = NewTag(c.tag)
      /\ \A t \in NewTags : t \notin Tag /\ \E d \in Renewed : d.tag = t
      /\ Resubscribed = {} => Cardinality(Resubscribed) = 0 /\ Renewed = {}
  BY RenewedIs DEF IInv
<1>4. \A k \in Key : bindings[k] \in Nat /\ bindings'[k] \in Nat
                     /\ (bindings'[k] > 0 <=> bindings[k] > 0)
  <2>1. bindings \in [Key -> Nat]
    BY ClientTypes DEF IInv, Plain
  <2> QED
    BY <1>2, <2>1
<1>5. TypeInv'
  BY OnDeclareOkTypes DEF IInv
<1>6. \A m : Carried(toClient', m) = <<>> /\ Absent(toClient', m)
  BY <1>1, WireEmpty
<1>7. ~IsOpening' /\ Opened(toServer', toClient')
  <2>1. Opened(toServer', toClient')
    BY <1>1, <1>6 DEF Opened
  <2> QED
    BY <2>1, OpenedIsNot DEF IsOpening
<1>8. Phases'
  BY <1>1, <1>2, <1>6, <1>7 DEF Phases
<1>9. Shut' /\ AllAreSent' /\ Ordered(toServer)'
  BY <1>1, <1>2, <1>6 DEF Shut, AllAreSent
<1>10. /\ Waiting(tasks, "cancel") \in Seq(Arg) /\ Waiting(tasks, "unbind") \in Seq(Arg)
       /\ \A i \in 1..Len(Waiting(tasks, "cancel")) : Waiting(tasks, "cancel")[i] \in Tag
       /\ Waiting(tasks, "cancel") = <<>> <=> \A a : ~Waits(tasks, "cancel", a)
  <2>1. tasks \in Seq(TaskOn(Tag)) /\ Tag \subseteq Nat
    BY Domains DEF IInv
  <2> QED
    BY <2>1, WaitingType
<1>11. Backed'
  BY <1>1, <1>6, <1>10 DEF Backed
<1>12. \A t : Comes(t)' <=> t \in NewTags
  BY <1>1, <1>2 DEF Comes
<1>13. Heard'
  BY <1>1, <1>3, <1>12 DEF Heard
<1>14. Cancelled'
  <2>0. PICK gone \in Seq(Arg) : gone = Waiting(tasks, "cancel")
    BY <1>10
  <2>1. gone \o <<>> = gone
    BY ConcatEmptySeq
  <2>2. /\ Len(<<>>) <= Len(gone)
        /\ \A i \in 1..Len(gone) : ~Comes(gone[i])'
    BY <1>3, <1>10, <1>12, <2>0
  <2>3. /\ Waiting(tasks', "cancel") = gone \o Carried(toServer', "cancel")
        /\ Len(Carried(toClient', "cancelOk")) <= Len(gone)
    BY <1>1, <1>6, <2>0, <2>1, <2>2
  <2> QED
    BY <2>2, <2>3, Zenon DEF Cancelled
<1>15. Owned'
  <2> SUFFICES ASSUME NeverLost' PROVE Owned'
    BY DEF Owned
  <2>1. /\ tasks = <<>> /\ OwnTags /\ TagIsOwn
        /\ \A c \in consumers : c.state # "closed"
    BY <1>1, <1>2 DEF IInv, Owned, NeverLost
  <2>2. Resubscribed = {}
    BY <2>1 DEF Resubscribed
  <2>3. consumers' = consumers /\ tasks' = <<>> /\ \A s \in Sub : known'[s] = known[s]
    BY <1>1, <1>2, <1>3, <2>1, <2>2
  <2>4. OwnTags' /\ TagIsOwn'
    BY <2>1, <2>3 DEF OwnTags, TagIsOwn
  <2>5. Matched'
    <3>1. Waiting(tasks', "consume") = <<>>
      BY <2>3, ChosenEmpty DEF Waiting
    <3>2. Carried(toServer', "consume") = <<>>
      <4>1. \A t : ~Carries(toServer', "consume", t)
        BY <1>1, <1>3, <2>2
      <4> QED
        BY ZenonT(30), <1>1, <4>1, CarriedType DEF Absent, Carries
    <3>3. Carried(toClient', "consumeOk") \o Carried(toServer', "consume") = <<>>
      BY <1>6, <3>2
    <3> QED
      BY <1>1, <1>2, <3>1, <3>3 DEF Matched
  <2> QED
    BY <1>1, <1>2, <1>7, <2>1, <2>3, <2>4, <2>5 DEF Owned
<1>16. Forgotten'
  <2> SUFFICES ASSUME NEW k \in Key, bindings'[k] = 0, Binds(toServer', srvBindings', k),
                      "unbindLost" \notin incidents'
               PROVE  FALSE
    BY DEF Forgotten
  <2>1. bindings[k] = 0 /\ k \in srvBindings
    BY <1>1, <1>2, <1>4
  <2>2. Binds(toServer, srvBindings, k)
    BY <1>1, <2>1, WireEmpty
  <2> QED
    BY <1>1, <1>2, <2>1, <2>2 DEF Forgotten, IInv
<1>17. Restored'
  <2>1. \A k \in wanted : k \in Key /\ bindings[k] > 0
    BY ClientTypes DEF Restored, IInv, Plain
  <2>2. Undisturbed(toServer', toClient')
    BY <1>1, <1>6 DEF Undisturbed
  <2>3. \A k \in wanted' : bindings'[k] > 0 /\ Binds(toServer', srvBindings', k)
    BY <1>1, <1>2, <1>4, <2>1
  <2> QED
    BY <1>1, <1>2, <1>7, <2>2, <2>3 DEF Restored
<1>18. Served'
  <2> SUFFICES ASSUME incidents' \subseteq {"unbindLost"}, Restores' PROVE Served'
    BY DEF Served
  <2>1. Restores /\ incidents \subseteq {"unbindLost"}
    BY <1>2 DEF Restores
  <2>2. Waiting(tasks, "cancel") = <<>> /\ \A a : ~Waits(tasks, "cancel", a)
    <3>1. Carried(toClient, "cancelOk") = <<>> /\ Carried(toServer, "cancel") = <<>>
      BY <1>1, OpeningWires DEF IsOpening
    <3>2. Waiting(tasks, "cancel") = Carried(toClient, "cancelOk") \o Carried(toServer, "cancel")
      BY <2>1 DEF Served, IInv
    <3> QED
      BY <1>10, <3>1, <3>2
  <2>3. Waiting(tasks', "cancel") = Carried(toClient', "cancelOk") \o Carried(toServer', "cancel")
    <3>1. Waiting(tasks', "cancel") = <<>>
      BY <1>1, <2>2
    <3>2. Carried(toClient', "cancelOk") = <<>> /\ Carried(toServer', "cancel") = <<>>
      BY <1>1, <1>6
    <3>3. <<>> \o <<>> = <<>>
      OBVIOUS
    <3> QED
      BY <3>1, <3>2, <3>3
  <2>4. /\ \A c, d \in consumers : c.sub = d.sub => c = d
        /\ \A s \in Sub : active[s] = "asked" => \E c \in consumers : c.sub = s
        /\ \A c \in consumers : active[c.sub] # "idle" /\ active[c.sub] # "stopped"
                                /\ c.state = "closed"
    BY <1>1, <2>1, <2>2 DEF Served, IInv
  <2>5. \A c \in consumers : c.tag \in Resubscribed
    <3>1. DueTags(tasks) = {}
      BY Domains, NothingUnsent DEF IInv, AllAreSent
    <3> QED
      BY <2>4, <3>1 DEF Resubscribed
  <2>6. consumers' = Renewed
    BY <1>1, <2>5
  <2>7. \A c, d \in consumers' : c.sub = d.sub => c = d
    <3> SUFFICES ASSUME NEW c \in consumers', NEW d \in consumers', c.sub = d.sub PROVE c = d
      OBVIOUS
    <3>1. c.tag = d.tag
      BY <1>3, <2>4, <2>6
    <3>2. Distinct(consumers')
      BY <1>5, TypePartsNext DEF TypeInv, Typed
    <3> QED
      BY <3>1, <3>2 DEF Distinct
  <2>8. \A s \in Sub : active'[s] = "asked" => \E c \in consumers' : c.sub = s
    BY <1>2, <1>3, <2>4, <2>5, <2>6
  <2>9. \A c \in consumers' :
          /\ active'[c.sub] # "idle" /\ active'[c.sub] # "stopped"
          /\ ~Waits(tasks', "cancel", c.tag) /\ Comes(c.tag)'
    BY <1>1, <1>2, <1>3, <1>12, <2>2, <2>4, <2>6
  <2>10. link' /\ registered'
    BY <1>1, <1>2
  <2> QED
    BY <1>7, <2>3, <2>7, <2>8, <2>9, <2>10 DEF Served
<1> QED
  BY <1>5, <1>8, <1>9, <1>11, <1>13, <1>14, <1>15, <1>16, <1>17, <1>18 DEF IInv

-----------------------------------------------------------------------------
(* The invariant holds *)

\* The channel is about to be opened, and there is nothing else.
LEMMA InitKeeps ==
  ASSUME Init
  PROVE  IInv
<1>1. /\ toServer = Method("channelOpen", None) /\ toClient = <<>> /\ srv = "closed"
      /\ state = "closed" /\ tracked /\ link /\ tasks = <<>> /\ consumers = {}
      /\ srvConsumers = {} /\ srvBindings = {} /\ wanted = {} /\ incidents = {}
      /\ known = [s \in Sub |-> 0] /\ active = [s \in Sub |-> "idle"]
  BY DEF Init, Method
<1>2. IsOpening
  BY <1>1 DEF IsOpening, Opening
<1>3. /\ Ordered(toServer)
      /\ \A n : n \notin {"channelOpen", "declare"} =>
           Carried(toServer, n) = <<>> /\ Absent(toServer, n) /\ \A a : ~Carries(toServer, n, a)
      /\ \A n : n \notin {"channelOpenOk", "declareOk"} => Carried(toClient, n) = <<>>
      /\ \A bound, k : Binds(toServer, bound, k) <=> k \in bound
  BY <1>2, OpeningWires DEF IsOpening
<1>4. \A op : Waiting(tasks, op) = <<>>
  BY <1>1, ChosenEmpty DEF Waiting
<1>5. <<>> \o <<>> = <<>> /\ <<>> \in Seq(Arg)
  OBVIOUS
<1>6. \A op : \A a : ~Waits(tasks, op, a)
  BY <1>1 DEF Waits
<1>7. Phases /\ Shut /\ AllAreSent
  BY <1>1, <1>2, <1>3 DEF Phases, Shut, AllAreSent, Sent
<1>8. Backed
  BY <1>3, <1>4 DEF Backed
<1>9. Heard /\ Cancelled
  BY <1>1 DEF Heard, Cancelled
<1>10. Owned
  <2>1. Carried(toClient, "consumeOk") = <<>>
    BY <1>3
  <2>2. Matched
    BY <1>1, <1>4, <1>5, <2>1 DEF Matched
  <2>3. OwnTags /\ TagIsOwn
    BY <1>1 DEF OwnTags, TagIsOwn
  <2> QED
    BY <1>1, <2>2, <2>3 DEF Owned
<1>11. Forgotten
  BY <1>1, <1>3 DEF Forgotten
<1>12. Restored
  BY <1>1, <1>2 DEF Restored
<1>13. Served
  <2>1. Waiting(tasks, "cancel") = Carried(toClient, "cancelOk") \o Carried(toServer, "cancel")
    <3>1. Carried(toClient, "cancelOk") = <<>> /\ Carried(toServer, "cancel") = <<>>
      BY <1>3
    <3> QED
      BY <1>4, <1>5, <3>1
  <2>2. \A s \in Sub : active[s] # "asked"
    BY <1>1
  <2> QED
    BY <1>1, <1>2, <2>1, <2>2 DEF Served
<1> QED
  BY <1>3, <1>7, <1>8, <1>9, <1>10, <1>11, <1>12, <1>13, InitTypes DEF IInv

\* Nothing happens.
LEMMA StutterKeeps ==
  ASSUME IInv, UNCHANGED vars
  PROVE  IInv'
<1>1. /\ UNCHANGED <<options, state, tracked, registered, bindings, consumers, tasks>>
      /\ UNCHANGED <<link, losses, toServer, toClient, srv, srvBindings, srvConsumers>>
      /\ UNCHANGED <<known, wanted, active, incidents>>
  BY DEF vars, channelVars, bindVars, consumeVars, linkVars, brokerVars, appVars
<1>2. TypeInv'
  BY TypesKept DEF IInv
<1>3. (IsOpening' <=> IsOpening) /\ (Restores' <=> Restores) /\ (NeverLost' <=> NeverLost)
  BY <1>1 DEF IsOpening, Restores, NeverLost
<1>4. \A t : Comes(t)' <=> Comes(t)
  BY <1>1 DEF Comes
<1>5. Phases' /\ Shut' /\ AllAreSent' /\ Ordered(toServer)'
  BY <1>1, <1>3 DEF IInv, Phases, Shut, AllAreSent
<1>6. Backed' /\ Heard' /\ Cancelled'
  BY <1>1, <1>4 DEF IInv, Backed, Heard, Cancelled
<1>7. (Matched' <=> Matched) /\ (OwnTags' <=> OwnTags) /\ (TagIsOwn' <=> TagIsOwn)
  BY <1>1 DEF Matched, OwnTags, TagIsOwn
<1>8. Owned'
  BY <1>1, <1>3, <1>7 DEF IInv, Owned
<1>9. Forgotten' /\ Restored'
  BY <1>1, <1>3 DEF IInv, Forgotten, Restored
<1>10. Served'
  BY <1>1, <1>3, <1>4 DEF IInv, Served
<1> QED
  BY <1>2, <1>5, <1>6, <1>8, <1>9, <1>10 DEF IInv

\* Every step keeps the invariant.
LEMMA NextKeeps ==
  ASSUME "whileDown" \notin Faults, IInv, [Next]_vars
  PROVE  IInv'
<1>1. ASSUME NEW k \in Key, Unbind(k) PROVE IInv'
  BY <1>1, UnbindKeeps
<1>2. ASSUME NEW k \in Key, NEW callback \in BOOLEAN, Bind(k, callback) PROVE IInv'
  BY <1>2, BindKeeps
<1>3. ASSUME NEW s \in Sub, Subscribe(s) PROVE IInv'
  BY <1>3, SubscribeKeeps
<1>4. ASSUME NEW s \in Sub, Unsubscribe(s) PROVE IInv'
  BY <1>4, UnsubscribeKeeps
<1>5. CASE Destroy \/ Close
  BY <1>5, DestroyKeeps, CloseKeeps
<1>6. CASE ClientStep
  BY <1>6, OnChannelOpenOkKeeps, OnDeclareOkKeeps, OnConsumeOkKeeps, OnCancelOkKeeps,
     OnReplyKeeps, OnBindOkKeeps, OnBasicCancelKeeps, OnChannelCloseKeeps,
     OnChannelCloseOkKeeps DEF ClientStep
<1>7. CASE LinkError \/ UserReconnect \/ LinkReady
  BY <1>7, LossKeeps, LinkReadyKeeps
<1>8. CASE ServerStep
  BY <1>8, SrvOpenKeeps, SrvBindKeeps, SrvUnbindKeeps, SrvConsumeKeeps, SrvCancelKeeps,
     SrvDeleteKeeps, SrvRefuseKeeps, SrvDiscardKeeps, SrvCloseKeeps, LossKeeps DEF ServerStep
<1>9. CASE SrvQueueDeleted
  BY <1>9, SrvQueueDeletedKeeps
<1>10. CASE UNCHANGED vars
  BY <1>10, StutterKeeps
<1> QED
  BY <1>1, <1>2, <1>3, <1>4, <1>5, <1>6, <1>7, <1>8, <1>9, <1>10 DEF Next

-----------------------------------------------------------------------------
(* What follows *)

\* Every delivery has its listener, and tags are told to their own subscriptions.
LEMMA InvListens ==
  ASSUME IInv
  PROVE  ListenersAgree
<1>1. DeliveriesAreHeard
  <2> SUFFICES ASSUME NEW t \in srvConsumers PROVE \E s \in Sub : t \in Listeners(s)
    BY DEF DeliveriesAreHeard
  <2>1. srv = "open"
    BY DEF IInv, Phases
  <2>2. t \in Nat /\ Comes(t)
    BY Domains, ClientTypes DEF IInv, Comes
  <2>3. PICK c \in consumers : c.tag = t
    BY <2>1, <2>2 DEF IInv, Heard
  <2>4. c.sub \in Sub
    BY Domains DEF IInv
  <2> QED
    BY <2>3, <2>4 DEF Listeners
<1>2. NeverLost => TagIsOwn
  BY DEF IInv, Owned
<1> QED
  BY <1>1, <1>2 DEF ListenersAgree

\* When nothing is under way, the channel is not being opened either.
LEMMA SettledIs ==
  ASSUME IInv, Settled
  PROVE  /\ ~IsOpening /\ link /\ toServer = <<>> /\ toClient = <<>> /\ srv = "open"
         /\ \A n, a : ~Carries(toServer, n, a)
         /\ \A bound, k : Binds(toServer, bound, k) <=> k \in bound
<1>1. link /\ state = "open" /\ toServer = <<>> /\ toClient = <<>>
  BY DEF Settled
<1>2. ~IsOpening
  BY <1>1 DEF IsOpening, Opening
<1>3. srv = "open"
  <2>1. srv # "closed" /\ srv # "refused"
    BY <1>1, WireEmpty DEF IInv, Shut
  <2> QED
    BY <2>1, ClientTypes DEF IInv, Plain
<1> QED
  BY <1>1, <1>2, <1>3, WireEmpty

\* Every subscription that goes on has its one consumer, no other has any.
LEMMA InvServes ==
  ASSUME IInv
  PROVE  OneConsumerEach
<1> SUFFICES ASSUME Settled, Restores, incidents \subseteq {"unbindLost"}, NEW s \in Sub
             PROVE  Cardinality(srvConsumers \cap Listeners(s))
                      = IF active[s] = "asked" THEN 1 ELSE 0
  BY DEF OneConsumerEach
<1>1. /\ ~IsOpening /\ link /\ toServer = <<>> /\ toClient = <<>>
      /\ \A n, a : ~Carries(toServer, n, a)
  BY SettledIs
<1>2. \A a : ~Waits(tasks, "cancel", a)
  <2>1. Waiting(tasks, "cancel") = Carried(toClient, "cancelOk") \o Carried(toServer, "cancel")
    BY DEF IInv, Served
  <2>2. Carried(toClient, "cancelOk") = <<>> /\ Carried(toServer, "cancel") = <<>>
    BY <1>1, WireEmpty
  <2>3. <<>> \o <<>> = <<>>
    OBVIOUS
  <2>4. tasks \in Seq(TaskOn(Tag)) /\ Tag \subseteq Nat
    BY Domains DEF IInv
  <2> QED
    BY <2>1, <2>2, <2>3, <2>4, WaitingType
<1>3. /\ \A c, d \in consumers : c.sub = d.sub => c = d
      /\ active[s] = "asked" => \E c \in consumers : c.sub = s
      /\ \A c \in consumers : /\ active[c.sub] # "idle" /\ active[c.sub] # "stopped"
                              /\ active[c.sub] = "asked" => c.tag \in srvConsumers
  BY <1>1, <1>2 DEF IInv, Served, Comes
<1>4. active[s] \in {"idle", "asked", "stopped"}
  BY ClientTypes DEF IInv, Plain
<1>5. CASE active[s] = "asked"
  <2>1. PICK c \in consumers : c.sub = s
    BY <1>3, <1>5
  <2>2. srvConsumers \cap Listeners(s) = {c.tag}
    BY <1>3, <1>5, <2>1 DEF Listeners
  <2> QED
    BY <1>5, <2>2, FS_Singleton
<1>6. CASE active[s] # "asked"
  <2>1. Listeners(s) = {}
    BY <1>3, <1>4, <1>6 DEF Listeners
  <2>2. srvConsumers \cap Listeners(s) = {}
    BY <2>1
  <2> QED
    BY <1>6, <2>2, FS_EmptySet
<1> QED
  BY <1>5, <1>6

\* The bindings that are wanted are there, and no others.
LEMMA InvBinds ==
  ASSUME IInv
  PROVE  BindingsAgree
<1>1. BindingsRestored
  <2> SUFFICES ASSUME Settled, Restores, incidents \subseteq Harmless, NEW k \in wanted
               PROVE  k \in srvBindings
    BY DEF BindingsRestored
  <2>1. Binds(toServer, srvBindings, k)
    BY SettledIs DEF IInv, Restored
  <2> QED
    BY <2>1, SettledIs
<1>2. NoForgottenBinding
  <2> SUFFICES ASSUME Settled, "unbindLost" \notin incidents, NEW k \in srvBindings
               PROVE  k \in Key /\ bindings[k] > 0
    BY DEF NoForgottenBinding
  <2>1. k \in Key /\ bindings[k] \in Nat
    BY ClientTypes DEF IInv, Plain
  <2>2. Binds(toServer, srvBindings, k) /\ srv = "open"
    BY SettledIs
  <2>3. bindings[k] # 0
    BY <2>1, <2>2 DEF IInv, Forgotten
  <2> QED
    BY <2>1, <2>3
<1> QED
  BY <1>1, <1>2 DEF BindingsAgree

-----------------------------------------------------------------------------
(* The theorems *)

\* The inductive invariant holds as long as the application calls an open queue only.
THEOREM InductiveInvariant ==
  ASSUME "whileDown" \notin Faults
  PROVE  Spec => []IInv
<1>1. Init => IInv
  BY InitKeeps
<1>2. IInv /\ [Next]_vars => IInv'
  BY NextKeeps
<1> QED
  BY <1>1, <1>2, PTL DEF Spec

\* A consumer of the server has its listener in consumerTagListeners; and until the
\* connection is lost or dropped, the tag that is told to a subscription is its own.
THEOREM Listen ==
  ASSUME "whileDown" \notin Faults
  PROVE  Spec => []ListenersAgree
BY InductiveInvariant, InvListens, PTL

\* Whatever was lost and restored, a subscription has one consumer until it is
\* stopped, and then none, once nothing is under way.
THEOREM Serve ==
  ASSUME "whileDown" \notin Faults
  PROVE  Spec => []OneConsumerEach
BY InductiveInvariant, InvServes, PTL

\* Whatever was lost and restored, the server has the bindings that are wanted, and
\* none that the client has forgotten, once nothing is under way.
THEOREM Agree ==
  ASSUME "whileDown" \notin Faults
  PROVE  Spec => []BindingsAgree
BY InductiveInvariant, InvBinds, PTL
================================================================================
