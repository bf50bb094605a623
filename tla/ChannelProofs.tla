----------------------------- MODULE ChannelProofs -----------------------------
(***************************************************************************)
(* Proofs about Channel: the tasks are written once each and in order, and *)
(* a fulfilled promise was answered by the server, for any set of tasks,   *)
(* any number of connection losses and any set of misfortunes.             *)
(***************************************************************************)
EXTENDS Channel, SeqFilterProofs

-----------------------------------------------------------------------------
(* The inductive invariant *)

\* By the method that answers it: what was asked on a wire, what waits in a
\* queue, and what is answered on a wire.
RequestsFor(k) == {r \in [m : {"request"}, task : Task] : ReplyOf[r.task] = k}
SentFor(k)     == {e \in Entry : e.sent /\ ReplyOf[e.task] = k}
RepliesOf(k)   == [m : {"reply"}, kind : {k}, of : Task]

Answers(replies) == [i \in 1..Len(replies) |-> replies[i].of]

Asked(wire, k)      == Tasks(Filter(wire, RequestsFor(k)))
Waiting(entries, k) == Tasks(Filter(entries, SentFor(k)))
Answered(wire, k)   == Answers(Filter(wire, RepliesOf(k)))

\* A channel that is not tracked is closed; while the link is down nothing
\* travels; an open on the wire, and its answer, travel alone to or from a
\* channel that is closed.
Phases ==
  /\ ~tracked => state = "closed"
  /\ losses = 0 => link
  /\ ~link => toServer = <<>> /\ toClient = <<>> /\ srv = "closed" /\ state = "closed"
  /\ \A i \in 1..Len(toServer) : toServer[i].m = "open" =>
       Len(toServer) = 1 /\ toClient = <<>> /\ srv = "closed" /\ state = "closed"
  /\ \A i \in 1..Len(toClient) : toClient[i].m = "opened" =>
       Len(toClient) = 1 /\ toServer = <<>> /\ srv = "open" /\ state = "closed"

\* In the queue the sent tasks come first, and what has been pushed is what has
\* been sent followed by what is unsent.
SentFirst(entries) ==
  \A i, j \in 1..Len(entries) : i < j /\ entries[j].sent => entries[i].sent

NothingSkipped ==
  SentFirst(tasks) /\ pushed = sent \o Tasks(Filter(tasks, Unsent))

\* There are no more requests and replies on the wires than sent tasks that
\* wait for them, so that a reply never takes a task that is unsent.
Backed ==
  \A k \in Kinds :
    Len(Answered(toClient, k)) + Len(Asked(toServer, k)) <= Len(Waiting(tasks, k))

\* Until a connection has been lost replies arrive for the tasks that wait, in
\* their order; those not given yet are on their way to an open server.
InOrder(k) ==
  IF srv = "open"
    THEN Waiting(tasks, k) = Answered(toClient, k) \o Asked(toServer, k)
    ELSE \E rest \in Seq(Task) : Waiting(tasks, k) = Answered(toClient, k) \o rest

Matched ==
  losses = 0 =>
    /\ \A i \in 1..Len(toServer) : toServer[i].m = "open" =>
         \A j \in 1..Len(tasks) : ~tasks[j].sent
    /\ \A i \in 1..Len(toClient) :
         toClient[i].m = "reply" => toClient[i].of \in done
    /\ \A k \in Kinds : InOrder(k)

IInv == /\ TypeOK /\ Phases /\ NothingSkipped /\ Backed /\ Matched
        /\ OpenMeansFlushed /\ FulfilledMeansDoneUntilLoss

-----------------------------------------------------------------------------
(* Entries, requests and replies *)

\* The tasks of entries or of requests, in order.
LEMMA TasksOf ==
  ASSUME NEW X, \A x \in X : x.task \in Task, NEW s \in Seq(X)
  PROVE  /\ Tasks(s) \in Seq(Task)
         /\ Len(Tasks(s)) = Len(s)
         /\ \A i \in 1..Len(s) : Tasks(s)[i] = s[i].task
BY DEF Tasks

\* The tasks of a longer queue.
LEMMA TasksAppend ==
  ASSUME NEW X, \A x \in X : x.task \in Task, NEW s \in Seq(X), NEW e \in X
  PROVE  Tasks(Append(s, e)) = Append(Tasks(s), e.task)
BY DEF Tasks

\* The tasks of two queues in a row.
LEMMA TasksConcat ==
  ASSUME NEW X, \A x \in X : x.task \in Task, NEW s \in Seq(X), NEW t \in Seq(X)
  PROVE  Tasks(s \o t) = Tasks(s) \o Tasks(t)
BY DEF Tasks

\* The tasks that replies answer, in order.
LEMMA AnswersOf ==
  ASSUME NEW X, \A x \in X : x.of \in Task, NEW s \in Seq(X)
  PROVE  /\ Answers(s) \in Seq(Task)
         /\ Len(Answers(s)) = Len(s)
         /\ \A i \in 1..Len(s) : Answers(s)[i] = s[i].of
BY DEF Answers

\* One reply more answers one task more.
LEMMA AnswersAppend ==
  ASSUME NEW X, \A x \in X : x.of \in Task, NEW s \in Seq(X), NEW e \in X
  PROVE  Answers(Append(s, e)) = Append(Answers(s), e.of)
BY DEF Answers

\* The tasks two runs of replies answer.
LEMMA AnswersConcat ==
  ASSUME NEW X, \A x \in X : x.of \in Task, NEW s \in Seq(X), NEW t \in Seq(X)
  PROVE  Answers(s \o t) = Answers(s) \o Answers(t)
BY DEF Answers

\* An entry marked as sent, and the request written for it.
LEMMA Marked ==
  ASSUME NEW s \in Seq(Kept)
  PROVE  /\ MarkSent(s) \in Seq(Entry)
         /\ Len(MarkSent(s)) = Len(s)
         /\ \A i \in 1..Len(s) : /\ MarkSent(s)[i].sent
                                 /\ MarkSent(s)[i].task = s[i].task
                                 /\ s[i].sent => MarkSent(s)[i] = s[i]
<1> DEFINE Mark(e) == [e EXCEPT !.sent = TRUE]
<1>1. ASSUME NEW e \in Kept
      PROVE  Mark(e) \in Entry /\ Mark(e).sent /\ Mark(e).task = e.task /\ (e.sent => Mark(e) = e)
  BY DEF Kept, Entry
<1>2. MarkSent(s) = [i \in 1..Len(s) |-> Mark(s[i])]
  BY DEF MarkSent
<1> HIDE DEF Mark
<1>3. ASSUME NEW i \in 1..Len(s) PROVE s[i] \in Kept /\ MarkSent(s)[i] = Mark(s[i])
  BY <1>2
<1>4. MarkSent(s) \in Seq(Entry) /\ Len(MarkSent(s)) = Len(s)
  BY <1>1, <1>2
<1> QED
  BY <1>1, <1>3, <1>4

\* The requests written for entries, one for each.
LEMMA Requested ==
  ASSUME NEW s \in Seq(Entry)
  PROVE  /\ Requests(s) \in Seq([m : {"request"}, task : Task])
         /\ Requests(s) \in Seq(ToServer)
         /\ Len(Requests(s)) = Len(s)
         /\ \A i \in 1..Len(s) : Requests(s)[i] = [m |-> "request", task |-> s[i].task]
BY DEF Requests, ToServer, Entry
-----------------------------------------------------------------------------
(* What the projections do when a wire or the queue changes *)

\* A kind is the reply some task waits for.
LEMMA KindIsReply ==
  ASSUME NEW k \in Kinds
  PROVE  k # NoReply
BY DEF Kinds

\* The members of the projections carry tasks.
LEMMA Members ==
  ASSUME NEW k
  PROVE  /\ \A r \in RequestsFor(k) : r.task \in Task
         /\ \A e \in Entry : e.task \in Task
         /\ \A r \in RepliesOf(k) : r.of \in Task
BY DEF RequestsFor, RepliesOf, Entry

\* What is asked on a wire for one method is a sequence of tasks.
LEMMA AskedType ==
  ASSUME NEW w \in Seq(ToServer), NEW k
  PROVE  /\ Filter(w, RequestsFor(k)) \in Seq(RequestsFor(k))
         /\ Asked(w, k) \in Seq(Task)
<1>1. Filter(w, RequestsFor(k)) \in Seq(RequestsFor(k))
  BY FilterType
<1> QED
  BY <1>1, Members, TasksOf DEF Asked

\* What waits in a queue for one method is a sequence of tasks.
LEMMA WaitingType ==
  ASSUME NEW s \in Seq(Entry), NEW k
  PROVE  /\ Filter(s, SentFor(k)) \in Seq(Entry)
         /\ Waiting(s, k) \in Seq(Task)
<1>1. Filter(s, SentFor(k)) \in Seq(Entry)
  BY FilterType
<1> QED
  BY <1>1, Members, TasksOf DEF Waiting

\* What is answered on a wire by one method is a sequence of tasks.
LEMMA AnsweredType ==
  ASSUME NEW w \in Seq(ToClient), NEW k
  PROVE  /\ Filter(w, RepliesOf(k)) \in Seq(RepliesOf(k))
         /\ Answered(w, k) \in Seq(Task)
<1>1. Filter(w, RepliesOf(k)) \in Seq(RepliesOf(k))
  BY FilterType
<1> QED
  BY <1>1, Members, AnswersOf DEF Answered

\* Nothing on an empty wire, nor in an empty queue.
LEMMA NothingIn ==
  ASSUME NEW k
  PROVE  Asked(<<>>, k) = <<>> /\ Answered(<<>>, k) = <<>> /\ Waiting(<<>>, k) = <<>>
BY FilterEmpty DEF Asked, Answered, Waiting, Tasks, Answers

\* A wire grows.
LEMMA AskedAppend ==
  ASSUME NEW w \in Seq(ToServer), NEW r \in ToServer, NEW k
  PROVE  Asked(Append(w, r), k) =
           IF r \in RequestsFor(k) THEN Append(Asked(w, k), r.task) ELSE Asked(w, k)
<1> DEFINE f == Filter(w, RequestsFor(k))
<1>1. f \in Seq(RequestsFor(k))
  BY AskedType
<1>2. Filter(Append(w, r), RequestsFor(k)) = IF r \in RequestsFor(k) THEN Append(f, r) ELSE f
  BY FilterAppend
<1> HIDE DEF f
<1>3. r \in RequestsFor(k) => Tasks(Append(f, r)) = Append(Tasks(f), r.task)
  BY <1>1, Members, TasksAppend
<1> QED
  BY <1>2, <1>3 DEF Asked, f

\* The server's wire grows.
LEMMA AnsweredAppend ==
  ASSUME NEW w \in Seq(ToClient), NEW r \in ToClient, NEW k
  PROVE  Answered(Append(w, r), k) =
           IF r \in RepliesOf(k) THEN Append(Answered(w, k), r.of) ELSE Answered(w, k)
<1> DEFINE f == Filter(w, RepliesOf(k))
<1>1. f \in Seq(RepliesOf(k))
  BY AnsweredType
<1>2. Filter(Append(w, r), RepliesOf(k)) = IF r \in RepliesOf(k) THEN Append(f, r) ELSE f
  BY FilterAppend
<1> HIDE DEF f
<1>3. r \in RepliesOf(k) => Answers(Append(f, r)) = Append(Answers(f), r.of)
  BY <1>1, Members, AnswersAppend
<1> QED
  BY <1>2, <1>3 DEF Answered, f

\* The queue grows.
LEMMA WaitingAppend ==
  ASSUME NEW s \in Seq(Entry), NEW e \in Entry, NEW k
  PROVE  Waiting(Append(s, e), k) =
           IF e \in SentFor(k) THEN Append(Waiting(s, k), e.task) ELSE Waiting(s, k)
<1> DEFINE f == Filter(s, SentFor(k))
<1>1. f \in Seq(Entry)
  BY WaitingType
<1>2. Filter(Append(s, e), SentFor(k)) = IF e \in SentFor(k) THEN Append(f, e) ELSE f
  BY FilterAppend
<1> HIDE DEF f
<1>3. Tasks(Append(f, e)) = Append(Tasks(f), e.task)
  BY <1>1, Members, TasksAppend
<1> QED
  BY <1>2, <1>3 DEF Waiting, f

\* A wire that goes on asks what both parts ask.
LEMMA AskedConcat ==
  ASSUME NEW w \in Seq(ToServer), NEW v \in Seq(ToServer), NEW k
  PROVE  Asked(w \o v, k) = Asked(w, k) \o Asked(v, k)
<1> DEFINE f == Filter(w, RequestsFor(k))
           g == Filter(v, RequestsFor(k))
<1>1. f \in Seq(RequestsFor(k)) /\ g \in Seq(RequestsFor(k))
  BY AskedType
<1>2. Filter(w \o v, RequestsFor(k)) = f \o g
  BY FilterConcat
<1> HIDE DEF f, g
<1>3. Tasks(f \o g) = Tasks(f) \o Tasks(g)
  BY <1>1, Members, TasksConcat
<1> QED
  BY <1>2, <1>3 DEF Asked, f, g

\* In a queue that goes on waits what waits in both parts.
LEMMA WaitingConcat ==
  ASSUME NEW s \in Seq(Entry), NEW t \in Seq(Entry), NEW k
  PROVE  Waiting(s \o t, k) = Waiting(s, k) \o Waiting(t, k)
<1> DEFINE f == Filter(s, SentFor(k))
           g == Filter(t, SentFor(k))
<1>1. f \in Seq(Entry) /\ g \in Seq(Entry)
  BY WaitingType
<1>2. Filter(s \o t, SentFor(k)) = f \o g
  BY FilterConcat
<1> HIDE DEF f, g
<1>3. Tasks(f \o g) = Tasks(f) \o Tasks(g)
  BY <1>1, Members, TasksConcat
<1> QED
  BY <1>2, <1>3 DEF Waiting, f, g

\* A wire is read.
LEMMA AskedTail ==
  ASSUME NEW w \in Seq(ToServer), w # <<>>, NEW k
  PROVE  Asked(w, k) = IF Head(w) \in RequestsFor(k)
                         THEN <<Head(w).task>> \o Asked(Tail(w), k) ELSE Asked(Tail(w), k)
<1> DEFINE f == Filter(Tail(w), RequestsFor(k))
           h == Head(w)
<1>1. f \in Seq(RequestsFor(k)) /\ Tail(w) \in Seq(ToServer) /\ h \in ToServer
  <2> DEFINE t == Tail(w)
  <2>1. t \in Seq(ToServer) /\ h \in ToServer
    OBVIOUS
  <2> HIDE DEF t
  <2>2. Filter(t, RequestsFor(k)) \in Seq(RequestsFor(k))
    BY <2>1, AskedType
  <2> QED
    BY <2>1, <2>2 DEF t
<1>2. Filter(w, RequestsFor(k)) = IF h \in RequestsFor(k) THEN <<h>> \o f ELSE f
  BY FilterTail
<1> HIDE DEF f, h
<1>3. ASSUME h \in RequestsFor(k) PROVE Tasks(<<h>> \o f) = <<h.task>> \o Tasks(f)
  <2> DEFINE o == <<h>>
  <2>1. o \in Seq(RequestsFor(k)) /\ Tasks(o) = <<h.task>>
    BY <1>3 DEF Tasks
  <2> HIDE DEF o
  <2>2. Tasks(o \o f) = Tasks(o) \o Tasks(f)
    BY <1>1, <2>1, Members, TasksConcat
  <2> QED
    BY <2>1, <2>2 DEF o
<1> QED
  BY <1>2, <1>3 DEF Asked, f, h

\* The server's wire is read.
LEMMA AnsweredTail ==
  ASSUME NEW w \in Seq(ToClient), w # <<>>, NEW k
  PROVE  Answered(w, k) = IF Head(w) \in RepliesOf(k)
                            THEN <<Head(w).of>> \o Answered(Tail(w), k)
                            ELSE Answered(Tail(w), k)
<1> DEFINE f == Filter(Tail(w), RepliesOf(k))
           h == Head(w)
<1>1. f \in Seq(RepliesOf(k)) /\ Tail(w) \in Seq(ToClient) /\ h \in ToClient
  <2> DEFINE t == Tail(w)
  <2>1. t \in Seq(ToClient) /\ h \in ToClient
    OBVIOUS
  <2> HIDE DEF t
  <2>2. Filter(t, RepliesOf(k)) \in Seq(RepliesOf(k))
    BY <2>1, AnsweredType
  <2> QED
    BY <2>1, <2>2 DEF t
<1>2. Filter(w, RepliesOf(k)) = IF h \in RepliesOf(k) THEN <<h>> \o f ELSE f
  BY FilterTail
<1> HIDE DEF f, h
<1>3. ASSUME h \in RepliesOf(k) PROVE Answers(<<h>> \o f) = <<h.of>> \o Answers(f)
  <2> DEFINE o == <<h>>
  <2>1. o \in Seq(RepliesOf(k)) /\ Answers(o) = <<h.of>>
    BY <1>3 DEF Answers
  <2> HIDE DEF o
  <2>2. Answers(o \o f) = Answers(o) \o Answers(f)
    BY <1>1, <2>1, Members, AnswersConcat
  <2> QED
    BY <2>1, <2>2 DEF o
<1> QED
  BY <1>2, <1>3 DEF Answered, f, h

-----------------------------------------------------------------------------
(* _tasksFlush *)

\* A queue whose sent entries come first is those, then the unsent ones.
LEMMA Split ==
  ASSUME NEW s \in Seq(Entry), SentFirst(s)
  PROVE  \E a \in Seq(Entry), b \in Seq(Unsent) :
           s = a \o b /\ \A i \in 1..Len(a) : a[i].sent
<1> DEFINE N == {i \in 1..Len(s) : ~s[i].sent}
<1>1. CASE N = {}
  <2>1. \A i \in 1..Len(s) : s[i].sent
    BY <1>1
  <2>2. s = s \o <<>> /\ <<>> \in Seq(Unsent)
    BY ConcatEmptySeq
  <2> QED
    BY <2>1, <2>2
<1>2. CASE N # {}
  <2>1. PICK m \in N : \A n \in N : m <= n
    <3>1. N \in SUBSET Nat
      OBVIOUS
    <3> HIDE DEF N
    <3> QED
      BY <1>2, <3>1, NatMin
  <2> DEFINE a == SubSeq(s, 1, m - 1)
             b == SubSeq(s, m, Len(s))
  <2>2. m \in 1..Len(s) /\ ~s[m].sent /\ Len(s) \in Nat
    BY <2>1
  <2>3. /\ a \in Seq(Entry) /\ Len(a) = m - 1
        /\ \A i \in 1..Len(a) : a[i] = s[i]
    BY <2>2
  <2>4. /\ b \in Seq(Entry) /\ Len(b) = Len(s) - m + 1
        /\ \A i \in 1..Len(b) : b[i] = s[m + i - 1]
    BY <2>2
  <2>5. s = a \o b
    <3> DEFINE n == m - 1
               l == Len(s)
    <3>1. /\ 1 \in 1..l + 1 /\ n \in 1 - 1..l /\ l \in n..l
          /\ l = Len(s) /\ n + 1 = m
      BY <2>2
    <3> HIDE DEF n, l
    <3>2. SubSeq(s, 1, n) \o SubSeq(s, n + 1, l) = SubSeq(s, 1, l)
      BY <3>1, ConcatAdjacentSubSeq
    <3>3. SubSeq(s, 1, l) = s
      BY <3>1, SubSeqFull
    <3> QED
      BY <3>1, <3>2, <3>3 DEF n, l
  <2>6. \A i \in 1..Len(a) : a[i].sent
    BY <2>1, <2>2, <2>3
  <2>7. \A i \in 1..Len(b) : b[i] \in Unsent
    <3> SUFFICES ASSUME NEW i \in 1..Len(b) PROVE b[i] \in Unsent
      OBVIOUS
    <3>1. b[i] = s[m + i - 1] /\ m + i - 1 \in 1..Len(s) /\ b[i] \in Entry
      BY <2>2, <2>4
    <3>2. ~s[m + i - 1].sent
      BY <2>2, <3>1 DEF SentFirst
    <3> QED
      BY <3>1, <3>2 DEF Unsent
  <2> HIDE DEF a, b
  <2>8. b \in Seq(Unsent)
    BY <2>4, <2>7
  <2> QED
    BY <2>3, <2>5, <2>6, <2>8
<1> QED
  BY <1>1, <1>2

\* Marking and requesting one entry more.
LEMMA MarkedAppend ==
  ASSUME NEW s \in Seq(Kept), NEW e \in Kept
  PROVE  MarkSent(Append(s, e)) = Append(MarkSent(s), [e EXCEPT !.sent = TRUE])
<1> DEFINE Mark(x) == [x EXCEPT !.sent = TRUE]
<1> SUFFICES [i \in 1..Len(Append(s, e)) |-> Mark(Append(s, e)[i])]
               = Append([i \in 1..Len(s) |-> Mark(s[i])], Mark(e))
  BY DEF MarkSent
<1> HIDE DEF Mark
<1> QED
  OBVIOUS

\* One request more is written for one entry more.
LEMMA RequestedAppend ==
  ASSUME NEW s \in Seq(Entry), NEW e \in Entry
  PROVE  Requests(Append(s, e)) = Append(Requests(s), [m |-> "request", task |-> e.task])
BY DEF Requests

\* Each request that is written for a kind leaves an entry that waits for it.
LEMMA MarkedWaits ==
  ASSUME NEW b \in Seq(Unsent), NEW k \in Kinds
  PROVE  Waiting(MarkSent(Filter(b, Kept)), k) = Asked(Requests(b), k)
<1> DEFINE G == {s \in Seq(Unsent) :
                   Waiting(MarkSent(Filter(s, Kept)), k) = Asked(Requests(s), k)}
<1>1. <<>> \in G
  <2>1. Requests(<<>>) = <<>> /\ MarkSent(<<>>) = <<>>
    BY DEF Requests, MarkSent
  <2> QED
    BY <2>1, FilterEmpty, NothingIn
<1>2. ASSUME NEW s \in Seq(Unsent), s \in G, NEW e \in Unsent PROVE Append(s, e) \in G
  <2> DEFINE f == Filter(s, Kept)
             w == Requests(s)
             r == [m |-> "request", task |-> e.task]
             x == [e EXCEPT !.sent = TRUE]
  <2>0. s \in Seq(Entry) /\ e \in Entry
    BY DEF Unsent
  <2>1. f \in Seq(Kept)
    BY FilterType
  <2>2. w \in Seq(ToServer) /\ r \in ToServer
    BY <2>0, Requested DEF ToServer, Entry
  <2>3. Requests(Append(s, e)) = Append(w, r)
    BY <2>0, RequestedAppend
  <2>4. Filter(Append(s, e), Kept) = IF e \in Kept THEN Append(f, e) ELSE f
    BY FilterAppend
  <2>5. r \in RequestsFor(k) <=> ReplyOf[e.task] = k
    BY <2>0 DEF RequestsFor, Entry
  <2>6. ReplyOf[e.task] = k => e \in Kept
    BY <2>0, KindIsReply DEF Kept
  <2>7. e \in Kept => x \in Entry /\ x.task = e.task /\ (x \in SentFor(k) <=> ReplyOf[e.task] = k)
    BY DEF Kept, Entry, SentFor
  <2>8. e \in Kept => MarkSent(Append(f, e)) = Append(MarkSent(f), x)
    BY <2>1, MarkedAppend
  <2>9. MarkSent(f) \in Seq(Entry)
    BY <2>1, Marked
  <2>10. Waiting(MarkSent(f), k) = Asked(w, k)
    BY <1>2
  <2>11. r.task = e.task
    OBVIOUS
  <2> HIDE DEF f, w, r, x
  <2>12. Asked(Append(w, r), k) =
           IF r \in RequestsFor(k) THEN Append(Asked(w, k), r.task) ELSE Asked(w, k)
    BY <2>2, AskedAppend
  <2>13. e \in Kept => Waiting(Append(MarkSent(f), x), k) =
           IF x \in SentFor(k) THEN Append(Waiting(MarkSent(f), k), x.task)
                               ELSE Waiting(MarkSent(f), k)
    <3> DEFINE y == MarkSent(f)
    <3>1. y \in Seq(Entry)
      BY <2>9
    <3> HIDE DEF y
    <3>2. e \in Kept => Waiting(Append(y, x), k) =
            IF x \in SentFor(k) THEN Append(Waiting(y, k), x.task) ELSE Waiting(y, k)
      BY <2>7, <3>1, WaitingAppend
    <3> QED
      BY <3>2 DEF y
  <2>14. Waiting(MarkSent(Filter(Append(s, e), Kept)), k) = Asked(Requests(Append(s, e)), k)
    BY <2>3, <2>4, <2>5, <2>6, <2>7, <2>8, <2>10, <2>11, <2>12, <2>13
  <2> QED
    BY <2>14
<1> HIDE DEF G
<1>3. b \in G
  BY <1>1, <1>2, SeqInSet
<1> QED
  BY <1>3 DEF G

\* On an open channel the flush writes the unsent entries, in order, and leaves
\* a queue of sent ones; each kind waits for what it waited for and for what has
\* been requested.
LEMMA FlushOpen ==
  ASSUME NEW entries \in Seq(Entry), SentFirst(entries), NEW wire \in Seq(ToServer),
         sent \in Seq(Task), Flush("open", entries, wire)
  PROVE  /\ tasks' \in Seq(Entry)
         /\ \A i \in 1..Len(tasks') : tasks'[i].sent
         /\ sent' \in Seq(Task)
         /\ sent' = sent \o Tasks(Filter(entries, Unsent))
         /\ Filter(tasks', Unsent) = <<>>
         /\ \E w \in Seq([m : {"request"}, task : Task]) :
              /\ w \in Seq(ToServer)
              /\ toServer' = wire \o w
              /\ \A k \in Kinds :
                   /\ Waiting(tasks', k) = Waiting(entries, k) \o Asked(w, k)
                   /\ Asked(toServer', k) = Asked(wire, k) \o Asked(w, k)
<1>1. PICK a \in Seq(Entry), b \in Seq(Unsent) :
        entries = a \o b /\ \A i \in 1..Len(a) : a[i].sent
  BY Split
<1>2. b \in Seq(Entry) /\ Unsent \subseteq Entry /\ Kept \subseteq Entry
  BY DEF Unsent, Kept
<1>3. \A i \in 1..Len(a) : a[i] \in Kept /\ a[i] \notin Unsent
  BY <1>1 DEF Kept, Unsent
<1>4. Filter(a, Kept) = a /\ Filter(a, Unsent) = <<>>
  BY <1>3, FilterAll, FilterNone
<1>5. Filter(b, Unsent) = b
  <2>1. \A i \in 1..Len(b) : b[i] \in Unsent
    OBVIOUS
  <2> QED
    BY <2>1, FilterAll
<1> DEFINE f == Filter(b, Kept)
           w == Requests(b)
<1>6. f \in Seq(Entry) /\ f \in Seq(Kept)
  <2>1. f \in Seq(Entry) /\ \A i \in 1..Len(f) : f[i] \in Kept
    BY <1>2, FilterType
  <2> HIDE DEF f
  <2> QED
    BY <2>1, SeqOver
<1>7. Filter(entries, Kept) = a \o f
  <2>1. Filter(a \o b, Kept) = Filter(a, Kept) \o Filter(b, Kept)
    BY <1>2, FilterConcat
  <2> QED
    BY <1>1, <1>4, <2>1
<1>8. Filter(entries, Unsent) = b
  <2>1. Filter(entries, Unsent) = Filter(a, Unsent) \o Filter(b, Unsent)
    BY <1>1, <1>2, FilterConcat
  <2> QED
    BY <2>1, <1>4, <1>5, <1>2, ConcatEmptySeq
<1>9. a \in Seq(Kept)
  BY <1>3, SeqOver
<1> HIDE DEF f, w
<1>10. MarkSent(a \o f) = a \o MarkSent(f)
  <2>1. a \o f \in Seq(Kept)
    BY <1>6, <1>9
  <2>2. MarkSent(f) \in Seq(Entry) /\ Len(MarkSent(f)) = Len(f)
    BY <1>6, Marked
  <2> DEFINE c == a \o f
             x == MarkSent(c)
             y == MarkSent(f)
  <2>3. x \in Seq(Entry) /\ Len(x) = Len(c) /\ \A i \in 1..Len(c) : c[i].sent => x[i] = c[i]
    <3> HIDE DEF c
    <3>1. c \in Seq(Kept)
      BY <2>1 DEF c
    <3> QED
      BY <3>1, Marked
  <2>4. Len(c) = Len(a) + Len(f) /\ Len(a) \in Nat /\ Len(f) \in Nat
    BY <1>6, <1>9
  <2>5. ASSUME NEW i \in 1..Len(a) PROVE x[i] = a[i]
    <3>1. c[i] = a[i] /\ i \in 1..Len(c)
      BY <1>6, <1>9, <2>4
    <3> HIDE DEF c, x
    <3> QED
      BY <1>1, <2>3, <3>1
  <2>6. ASSUME NEW i \in 1..Len(f) PROVE x[Len(a) + i] = y[i]
    <3>1. c[Len(a) + i] = f[i] /\ Len(a) + i \in 1..Len(c)
      BY <1>6, <1>9, <2>4
    <3> QED
      BY <3>1, <2>4 DEF MarkSent
  <2> HIDE DEF c, x, y
  <2>7. Len(y) = Len(f) /\ y \in Seq(Entry)
    BY <2>2 DEF y
  <2>8. x = a \o y
    <3> DEFINE z == a \o y
    <3>1. z \in Seq(Entry) /\ Len(z) = Len(x)
      BY <2>3, <2>4, <2>7
    <3>2. ASSUME NEW i \in 1..Len(x) PROVE x[i] = z[i]
      <4>1. CASE i <= Len(a)
        BY <4>1, <2>4, <2>5, <2>7
      <4>2. CASE i > Len(a)
        <5>1. i - Len(a) \in 1..Len(f) /\ Len(a) + (i - Len(a)) = i
          BY <4>2, <2>3, <2>4
        <5>2. x[Len(a) + (i - Len(a))] = y[i - Len(a)]
          BY <5>1, <2>6
        <5>3. z[i] = y[i - Len(a)]
          BY <5>1, <4>2, <2>4, <2>7
        <5> QED
          BY <5>1, <5>2, <5>3
      <4>3. i \in Nat /\ Len(a) \in Nat
        BY <2>3, <2>4
      <4> HIDE DEF z
      <4> QED
        BY <4>1, <4>2, <4>3
    <3> HIDE DEF z
    <3>3. x = z
      BY <2>3, <3>1, <3>2, SeqEqual
    <3> QED
      BY <3>3 DEF z
  <2> QED
    BY <2>8 DEF x, y, c
<1>11. /\ tasks' = a \o MarkSent(f)
       /\ toServer' = wire \o w
       /\ sent' = sent \o Tasks(b)
  BY <1>7, <1>8, <1>10 DEF Flush, w
<1>12. /\ w \in Seq([m : {"request"}, task : Task])
       /\ w \in Seq(ToServer)
  BY <1>2, Requested DEF w
<1>13. /\ MarkSent(f) \in Seq(Entry)
       /\ \A i \in 1..Len(MarkSent(f)) : MarkSent(f)[i].sent
  BY <1>6, Marked
<1>14. tasks' \in Seq(Entry) /\ \A i \in 1..Len(tasks') : tasks'[i].sent
  <2> DEFINE y == MarkSent(f)
  <2>1. y \in Seq(Entry) /\ \A i \in 1..Len(y) : y[i].sent
    BY <1>13
  <2> HIDE DEF y
  <2>2. a \o y \in Seq(Entry) /\ \A i \in 1..Len(a \o y) : (a \o y)[i].sent
    BY <1>1, <2>1
  <2> QED
    BY <2>2, <1>11 DEF y
<1>15. Filter(tasks', Unsent) = <<>>
  <2>1. \A i \in 1..Len(tasks') : tasks'[i] \notin Unsent
    BY <1>14 DEF Unsent
  <2> QED
    BY <1>14, <2>1, FilterNone
<1>16. Tasks(b) \in Seq(Task)
  BY <1>2, Members, TasksOf
<1>17. ASSUME NEW k \in Kinds
       PROVE  /\ Waiting(tasks', k) = Waiting(entries, k) \o Asked(w, k)
              /\ Asked(toServer', k) = Asked(wire, k) \o Asked(w, k)
  <2> DEFINE y == MarkSent(f)
  <2>1. y \in Seq(Entry)
    BY <1>13
  <2>2. Waiting(y, k) = Asked(w, k)
    BY MarkedWaits DEF f, w
  <2> HIDE DEF y
  <2>3. Waiting(a \o y, k) = Waiting(a, k) \o Waiting(y, k)
    BY <2>1, WaitingConcat
  <2>4. Waiting(entries, k) = Waiting(a, k)
    <3>1. Waiting(a \o b, k) = Waiting(a, k) \o Waiting(b, k)
      BY <1>2, WaitingConcat
    <3>2. Filter(b, SentFor(k)) = <<>>
      <4>1. \A i \in 1..Len(b) : b[i] \notin SentFor(k)
        BY DEF Unsent, SentFor
      <4> QED
        BY <4>1, FilterNone
    <3>3. Waiting(b, k) = <<>>
      BY <3>2 DEF Waiting, Tasks
    <3>4. Waiting(a, k) \in Seq(Task)
      BY WaitingType
    <3> QED
      BY <1>1, <3>1, <3>3, <3>4, ConcatEmptySeq
  <2>5. Asked(wire \o w, k) = Asked(wire, k) \o Asked(w, k)
    BY <1>12, AskedConcat
  <2> QED
    BY <1>11, <2>2, <2>3, <2>4, <2>5 DEF y
<1>18. sent' \in Seq(Task)
  BY <1>11, <1>16
<1>19. sent' = sent \o Tasks(Filter(entries, Unsent))
  BY <1>8, <1>11
<1>20. \E v \in Seq([m : {"request"}, task : Task]) :
         /\ v \in Seq(ToServer)
         /\ toServer' = wire \o v
         /\ \A k \in Kinds :
              /\ Waiting(tasks', k) = Waiting(entries, k) \o Asked(v, k)
              /\ Asked(toServer', k) = Asked(wire, k) \o Asked(v, k)
  BY <1>11, <1>12, <1>17
<1> QED
  BY <1>14, <1>15, <1>18, <1>19, <1>20

\* On any other channel it does nothing.
LEMMA FlushShut ==
  ASSUME NEW st, st # "open", NEW entries, NEW wire, Flush(st, entries, wire)
  PROVE  tasks' = entries /\ toServer' = wire /\ sent' = sent
BY DEF Flush

\* Nor when all has been sent.
LEMMA FlushSent ==
  ASSUME NEW st, NEW entries \in Seq(Entry), \A i \in 1..Len(entries) : entries[i].sent,
         NEW wire \in Seq(ToServer), sent \in Seq(Task), Flush(st, entries, wire)
  PROVE  tasks' = entries /\ toServer' = wire /\ sent' = sent
<1>1. CASE st # "open"
  BY <1>1, FlushShut
<1>2. CASE st = "open"
  <2>1. \A i \in 1..Len(entries) : entries[i] \in Kept /\ entries[i] \notin Unsent
    BY DEF Kept, Unsent
  <2>2. Filter(entries, Kept) = entries /\ Filter(entries, Unsent) = <<>>
    BY <2>1, FilterAll, FilterNone
  <2>3. entries \in Seq(Kept)
    BY <2>1
  <2>4. MarkSent(entries) = entries
    BY <2>3, Marked
  <2>5. Requests(<<>>) = <<>> /\ Tasks(<<>>) = <<>>
    BY DEF Requests, Tasks
  <2>6. wire \o <<>> = wire /\ sent \o <<>> = sent
    BY ConcatEmptySeq
  <2> QED
    BY <1>2, <2>2, <2>4, <2>5, <2>6 DEF Flush
<1> QED
  BY <1>1, <1>2

\* A flush of these entries writes w: requests, and none unless the channel is
\* open; for each of them that expects a reply an entry waits from then on.
Wrote(st, entries, w) ==
  /\ toServer' = toServer \o w
  /\ \A i \in 1..Len(w) : w[i].m = "request"
  /\ st # "open" => w = <<>> /\ tasks' = entries
  /\ \A k \in Kinds :
       /\ Waiting(tasks', k) = Waiting(entries, k) \o Asked(w, k)
       /\ Asked(toServer', k) = Asked(toServer, k) \o Asked(w, k)

\* Requests are what their name says.
LEMMA RequestsOnly ==
  ASSUME NEW S, \A r \in S : r.m = "request", NEW w \in Seq(S)
  PROVE  \A i \in 1..Len(w) : w[i].m = "request"
OBVIOUS

\* What a flush does in either case.
LEMMA FlushStep ==
  ASSUME TypeOK, NEW st, NEW entries \in Seq(Entry), SentFirst(entries),
         Flush(st, entries, toServer)
  PROVE  /\ tasks' \in Seq(Entry) /\ toServer' \in Seq(ToServer) /\ sent' \in Seq(Task)
         /\ SentFirst(tasks')
         /\ st = "open" => \A i \in 1..Len(tasks') : tasks'[i].sent
         /\ sent' \o Tasks(Filter(tasks', Unsent)) = sent \o Tasks(Filter(entries, Unsent))
         /\ \E w \in Seq(ToServer) : Wrote(st, entries, w)
<1>1. CASE st = "open"
  <2>0. toServer \in Seq(ToServer) /\ sent \in Seq(Task) /\ Flush("open", entries, toServer)
    BY <1>1 DEF TypeOK
  <2>1. /\ tasks' \in Seq(Entry) /\ sent' \in Seq(Task)
        /\ \A i \in 1..Len(tasks') : tasks'[i].sent
        /\ sent' = sent \o Tasks(Filter(entries, Unsent))
        /\ Filter(tasks', Unsent) = <<>>
    BY <2>0, FlushOpen
  <2>2. \E w \in Seq([m : {"request"}, task : Task]) :
          /\ w \in Seq(ToServer)
          /\ toServer' = toServer \o w
          /\ \A k \in Kinds :
               /\ Waiting(tasks', k) = Waiting(entries, k) \o Asked(w, k)
               /\ Asked(toServer', k) = Asked(toServer, k) \o Asked(w, k)
    BY <2>0, FlushOpen
  <2>3. toServer' \in Seq(ToServer)
    BY <2>0, <2>2
  <2>4. SentFirst(tasks')
    BY <2>1 DEF SentFirst
  <2>5. sent' \o Tasks(Filter(tasks', Unsent)) = sent'
    <3>1. Tasks(Filter(tasks', Unsent)) = <<>>
      BY <2>1 DEF Tasks
    <3> QED
      BY <2>1, <3>1, ConcatEmptySeq
  <2>6. \E w \in Seq(ToServer) : Wrote(st, entries, w)
    <3>1. PICK w \in Seq([m : {"request"}, task : Task]) :
            /\ w \in Seq(ToServer)
            /\ toServer' = toServer \o w
            /\ \A k \in Kinds :
                 /\ Waiting(tasks', k) = Waiting(entries, k) \o Asked(w, k)
                 /\ Asked(toServer', k) = Asked(toServer, k) \o Asked(w, k)
      BY <2>2
    <3>2. \A i \in 1..Len(w) : w[i].m = "request"
      <4> DEFINE S == [m : {"request"}, task : Task]
      <4>1. w \in Seq(S) /\ \A r \in S : r.m = "request"
        BY <3>1
      <4> HIDE DEF S
      <4> QED
        BY <4>1, RequestsOnly
    <3> QED
      BY <1>1, <3>1, <3>2 DEF Wrote
  <2> QED
    BY <1>1, <2>1, <2>3, <2>4, <2>5, <2>6
<1>2. CASE st # "open"
  <2>1. tasks' = entries /\ toServer' = toServer /\ sent' = sent
    BY <1>2, FlushShut
  <2>2. toServer \in Seq(ToServer) /\ sent \in Seq(Task)
    BY DEF TypeOK
  <2> DEFINE w == <<>>
  <2>3. w \in Seq(ToServer)
    OBVIOUS
  <2>4. toServer' = toServer \o w
    BY <2>1, <2>2, ConcatEmptySeq
  <2>5. ASSUME NEW k \in Kinds
        PROVE  /\ Waiting(tasks', k) = Waiting(entries, k) \o Asked(w, k)
               /\ Asked(toServer', k) = Asked(toServer, k) \o Asked(w, k)
    <3>1. Waiting(entries, k) \in Seq(Task)
      BY WaitingType
    <3>2. Asked(toServer, k) \in Seq(Task)
      BY <2>2, AskedType
    <3>3. Asked(w, k) = <<>>
      BY NothingIn
    <3> QED
      BY <2>1, <3>1, <3>2, <3>3, ConcatEmptySeq
  <2>6. Wrote(st, entries, w)
    <3>1. Len(w) = 0
      OBVIOUS
    <3> QED
      BY <1>2, <2>1, <2>4, <2>5, <3>1 DEF Wrote
  <2> HIDE DEF w
  <2> QED
    BY <1>2, <2>1, <2>2, <2>3, <2>6
<1> QED
  BY <1>1, <1>2

-----------------------------------------------------------------------------
(* _handleTaskReply *)

\* What a filter loses when an entry is taken out of the queue.
LEMMA FilterWithout ==
  ASSUME tasks \in Seq(Entry), NEW i \in 1..Len(tasks), NEW P
  PROVE  \E f \in Seq(Entry), g \in Seq(Entry) :
           /\ f = Filter(SubSeq(tasks, 1, i - 1), P)
           /\ Filter(Without(i), P) = f \o g
           /\ Filter(tasks, P) = IF tasks[i] \in P THEN Append(f, tasks[i]) \o g ELSE f \o g
<1> DEFINE e == tasks[i]
<1>1. PICK a \in Seq(Entry), c \in Seq(Entry) :
        /\ a = SubSeq(tasks, 1, i - 1) /\ c = SubSeq(tasks, i + 1, Len(tasks))
        /\ tasks = Append(a, e) \o c
  <2> DEFINE s == tasks
  <2>1. s \in Seq(Entry) /\ i \in 1..Len(s)
    OBVIOUS
  <2> HIDE DEF s
  <2>2. \E a \in Seq(Entry), c \in Seq(Entry) :
          /\ a = SubSeq(s, 1, i - 1) /\ c = SubSeq(s, i + 1, Len(s))
          /\ s = Append(a, s[i]) \o c
    <3>1. PartsAround(Entry, s, i)
      BY <2>1, Around
    <3> QED
      BY <3>1, Zenon DEF PartsAround
  <2> QED
    BY <2>2 DEF s
<1>2. e \in Entry
  OBVIOUS
<1> HIDE DEF e
<1> DEFINE f == Filter(a, P)
           g == Filter(c, P)
           y == Append(a, e)
<1>3. f \in Seq(Entry) /\ g \in Seq(Entry)
  BY FilterType
<1>4. Filter(a \o c, P) = f \o g
  BY FilterConcat
<1>5. y \in Seq(Entry) /\ tasks = y \o c
  <2>1. y \in Seq(Entry)
    BY <1>2
  <2>2. tasks = y \o c
    BY <1>1
  <2> QED
    BY <2>1, <2>2
<1>6. Filter(y, P) = IF e \in P THEN Append(f, e) ELSE f
  BY <1>2, FilterAppend
<1> HIDE DEF y
<1>7. Filter(y \o c, P) = Filter(y, P) \o g
  BY <1>5, FilterConcat
<1>8. Without(i) = a \o c
  BY <1>1 DEF Without
<1>9. f = Filter(SubSeq(tasks, 1, i - 1), P)
  BY <1>1
<1> HIDE DEF f, g
<1> QED
  BY <1>3, <1>4, <1>5, <1>6, <1>7, <1>8, <1>9 DEF e

\* A queue without one entry keeps the sent ones first.
LEMMA SentFirstWithout ==
  ASSUME tasks \in Seq(Entry), SentFirst(tasks), NEW i \in 1..Len(tasks)
  PROVE  /\ Without(i) \in Seq(Entry)
         /\ SentFirst(Without(i))
         /\ (\A j \in 1..Len(tasks) : tasks[j].sent)
              => \A j \in 1..Len(Without(i)) : Without(i)[j].sent
         /\ (\A j \in 1..Len(tasks) : ~tasks[j].sent)
              => \A j \in 1..Len(Without(i)) : ~Without(i)[j].sent
<1> DEFINE s == tasks
<1>0. s \in Seq(Entry) /\ i \in 1..Len(s) /\ SentFirst(s)
  OBVIOUS
<1>1. PICK a \in Seq(Entry), c \in Seq(Entry) :
           /\ a = SubSeq(s, 1, i - 1) /\ c = SubSeq(s, i + 1, Len(s))
           /\ Len(a) = i - 1 /\ \A j \in 1..Len(a) : a[j] = s[j]
           /\ Len(c) = Len(s) - i /\ \A j \in 1..Len(c) : c[j] = s[i + j]
  <2> HIDE DEF s
  <2>1. PartsAround(Entry, s, i)
    BY <1>0, Around
  <2> QED
    BY <2>1, Zenon DEF PartsAround
<1> DEFINE z == a \o c
<1>2. Without(i) = z
  BY <1>1 DEF Without
<1>3. /\ z \in Seq(Entry) /\ Len(z) = Len(a) + Len(c)
      /\ \A j \in 1..Len(a) + Len(c) : z[j] = IF j <= Len(a) THEN a[j] ELSE c[j - Len(a)]
  BY ConcatProperties
<1> HIDE DEF z, s
<1>4. /\ Len(s) \in Nat /\ i \in Nat /\ 1 <= i /\ i <= Len(s)
      /\ Len(a) = i - 1 /\ Len(c) = Len(s) - i /\ Len(z) = Len(s) - 1
  <2>1. Len(s) \in Nat /\ i \in 1..Len(s)
    BY <1>0
  <2> QED
    BY <2>1, <1>1, <1>3
<1>5. \A j \in 1..Len(z) : z[j] = IF j < i THEN s[j] ELSE s[j + 1]
  <2> SUFFICES ASSUME NEW j \in 1..Len(z) PROVE z[j] = IF j < i THEN s[j] ELSE s[j + 1]
    OBVIOUS
  <2>1. CASE j < i
    <3>1. j \in 1..Len(a) /\ j \in 1..Len(a) + Len(c) /\ j <= Len(a)
      BY <2>1, <1>4
    <3> QED
      BY <2>1, <3>1, <1>1, <1>3
  <2>2. CASE ~(j < i)
    <3>1. /\ j - Len(a) \in 1..Len(c) /\ j \in 1..Len(a) + Len(c) /\ ~(j <= Len(a))
          /\ i + (j - Len(a)) = j + 1
      BY <2>2, <1>4
    <3>2. z[j] = c[j - Len(a)] /\ c[j - Len(a)] = s[i + (j - Len(a))]
      BY <3>1, <1>1, <1>3
    <3> QED
      BY <2>2, <3>1, <3>2
  <2> QED
    BY <2>1, <2>2
<1>6. \A j, l \in 1..Len(z) : j < l /\ z[l].sent => z[j].sent
  <2> SUFFICES ASSUME NEW j \in 1..Len(z), NEW l \in 1..Len(z), j < l, z[l].sent
               PROVE  z[j].sent
    OBVIOUS
  <2> DEFINE jj == IF j < i THEN j ELSE j + 1
             ll == IF l < i THEN l ELSE l + 1
  <2>1. jj \in 1..Len(s) /\ ll \in 1..Len(s) /\ jj < ll /\ z[j] = s[jj] /\ z[l] = s[ll]
    BY SMTT(30), <1>4, <1>5
  <2> HIDE DEF jj, ll
  <2> QED
    BY <2>1, <1>0 DEF SentFirst
<1>7. \A j \in 1..Len(z) : \E l \in 1..Len(s) : z[j] = s[l]
  <2> SUFFICES ASSUME NEW j \in 1..Len(z) PROVE \E l \in 1..Len(s) : z[j] = s[l]
    OBVIOUS
  <2>1. CASE j < i
    BY <2>1, <1>0, <1>4, <1>5
  <2>2. CASE ~(j < i)
    BY <2>2, <1>0, <1>4, <1>5
  <2> QED
    BY <2>1, <2>2
<1>8. /\ (\A j \in 1..Len(s) : s[j].sent) => \A j \in 1..Len(z) : z[j].sent
      /\ (\A j \in 1..Len(s) : ~s[j].sent) => \A j \in 1..Len(z) : ~z[j].sent
  BY <1>7
<1> QED
  BY <1>2, <1>3, <1>6, <1>8 DEF SentFirst, s

\* A reply takes a sent task, the first that waits for its method, whatever is
\* queued with it.
LEMMA ReplyTakes ==
  ASSUME TypeOK, NothingSkipped, Backed, Receive("reply"),
         NEW k, k = Head(toClient).kind
  PROVE  /\ k \in Kinds
         /\ Head(toClient) \in RepliesOf(k)
         /\ Awaiting(k) # {}
         /\ \A i \in Awaiting(k) :
              /\ i \in 1..Len(tasks)
              /\ tasks[i].task \in Task
              /\ Filter(Without(i), Unsent) = Filter(tasks, Unsent)
              /\ Waiting(tasks, k) = <<tasks[i].task>> \o Waiting(Without(i), k)
              /\ \A n \in Kinds \ {k} : Waiting(Without(i), n) = Waiting(tasks, n)
<1>1. tasks \in Seq(Entry) /\ toClient \in Seq(ToClient) /\ toClient # <<>>
  BY DEF TypeOK, Receive
<1> DEFINE h == Head(toClient)
<1>2. h \in ToClient /\ h.m = "reply"
  BY <1>1 DEF Receive
<1>3. k \in Kinds /\ h \in RepliesOf(k)
  BY <1>2 DEF ToClient, RepliesOf
<1>4. \E j \in 1..Len(tasks) : tasks[j] \in SentFor(k)
  <2>1. Answered(toClient, k) = <<h.of>> \o Answered(Tail(toClient), k)
    BY <1>1, <1>3, AnsweredTail
  <2>2. Answered(Tail(toClient), k) \in Seq(Task) /\ h.of \in Task
    <3> DEFINE t == Tail(toClient)
    <3>1. t \in Seq(ToClient)
      BY <1>1
    <3> HIDE DEF t
    <3>2. Answered(t, k) \in Seq(Task)
      BY <3>1, AnsweredType
    <3> QED
      BY <3>2, <1>3, Members DEF t
  <2>3. Len(Answered(toClient, k)) > 0
    <3> DEFINE r == Answered(Tail(toClient), k)
               x == h.of
    <3>1. r \in Seq(Task) /\ x \in Task
      BY <2>2
    <3> HIDE DEF r, x
    <3>2. Len(<<x>> \o r) > 0
      BY <3>1
    <3> QED
      BY <3>2, <2>1 DEF r, x
  <2>4. Asked(toServer, k) \in Seq(Task) /\ Answered(toClient, k) \in Seq(Task)
        /\ Waiting(tasks, k) \in Seq(Task)
    BY <1>1, AskedType, AnsweredType, WaitingType DEF TypeOK
  <2>5. Len(Waiting(tasks, k)) > 0
    <3>1. Len(Answered(toClient, k)) + Len(Asked(toServer, k)) <= Len(Waiting(tasks, k))
      BY <1>3 DEF Backed
    <3>2. /\ Len(Answered(toClient, k)) \in Nat /\ Len(Asked(toServer, k)) \in Nat
          /\ Len(Waiting(tasks, k)) \in Nat
      BY <2>4
    <3> QED
      BY <2>3, <3>1, <3>2
  <2>6. Filter(tasks, SentFor(k)) # <<>>
    <3> SUFFICES ASSUME Filter(tasks, SentFor(k)) = <<>> PROVE FALSE
      OBVIOUS
    <3>1. Waiting(tasks, k) = <<>>
      BY DEF Waiting, Tasks
    <3> QED
      BY <2>5, <3>1
  <2> QED
    BY <1>1, <2>6, FilterNone
<1>5. PICK j \in 1..Len(tasks) : tasks[j] \in SentFor(k)
  BY <1>4
<1>6. Awaiting(k) # {}
  <2> DEFINE N == {i \in 1..Len(tasks) : ReplyOf[tasks[i].task] = k}
  <2>1. j \in N /\ N \in SUBSET Nat
    BY <1>5 DEF SentFor
  <2>2. PICK m \in N : \A n \in N : m <= n
    <3> HIDE DEF N
    <3> QED BY <2>1, NatMin
  <2>3. m \in Awaiting(k)
    BY <1>1, <2>2 DEF Awaiting
  <2> QED
    BY <2>3
<1>7. ASSUME NEW i \in Awaiting(k)
      PROVE  /\ i \in 1..Len(tasks)
             /\ tasks[i].task \in Task
             /\ Filter(Without(i), Unsent) = Filter(tasks, Unsent)
             /\ Waiting(tasks, k) = <<tasks[i].task>> \o Waiting(Without(i), k)
             /\ \A n \in Kinds \ {k} : Waiting(Without(i), n) = Waiting(tasks, n)
  <2> DEFINE e == tasks[i]
  <2>1. /\ i \in 1..Len(tasks) /\ ReplyOf[e.task] = k
        /\ \A l \in 1..(i - 1) : ReplyOf[tasks[l].task] # k
    BY DEF Awaiting
  <2>2. e \in Entry
    BY <1>1, <2>1
  <2>3. i <= j /\ ReplyOf[tasks[j].task] = k /\ tasks[j].sent
    BY <1>5, <2>1, <1>1 DEF SentFor
  <2>4. e.sent
    <3>1. CASE i = j
      BY <2>3, <3>1
    <3>2. CASE i < j
      BY <1>1, <2>1, <2>3, <3>2 DEF NothingSkipped, SentFirst
    <3> QED
      BY <2>1, <2>3, <3>1, <3>2
  <2>5. e \in SentFor(k) /\ e \notin Unsent /\ \A n \in Kinds \ {k} : e \notin SentFor(n)
    BY <2>1, <2>2, <2>4 DEF SentFor, Unsent
  <2> HIDE DEF e
  <2>6. Filter(Without(i), Unsent) = Filter(tasks, Unsent)
    BY <1>1, <2>1, <2>5, FilterWithout DEF e
  <2>7. ASSUME NEW n \in Kinds \ {k} PROVE Waiting(Without(i), n) = Waiting(tasks, n)
    <3>1. Filter(Without(i), SentFor(n)) = Filter(tasks, SentFor(n))
      BY <1>1, <2>1, <2>5, FilterWithout DEF e
    <3> QED
      BY <3>1 DEF Waiting
  <2>8. Waiting(tasks, k) = <<e.task>> \o Waiting(Without(i), k)
    <3>1. PICK f \in Seq(Entry), g \in Seq(Entry) :
            /\ f = Filter(SubSeq(tasks, 1, i - 1), SentFor(k))
            /\ Filter(Without(i), SentFor(k)) = f \o g
            /\ Filter(tasks, SentFor(k)) = Append(f, e) \o g
      <4>1. \E f \in Seq(Entry), g \in Seq(Entry) :
              /\ f = Filter(SubSeq(tasks, 1, i - 1), SentFor(k))
              /\ Filter(Without(i), SentFor(k)) = f \o g
              /\ Filter(tasks, SentFor(k))
                   = IF tasks[i] \in SentFor(k) THEN Append(f, tasks[i]) \o g ELSE f \o g
        BY <1>1, <2>1, FilterWithout
      <4> QED
        BY <4>1, <2>5 DEF e
    <3>2. f = <<>>
      <4> DEFINE a == SubSeq(tasks, 1, i - 1)
      <4>1. a \in Seq(Entry) /\ Len(a) = i - 1 /\ \A l \in 1..(i - 1) : a[l] = tasks[l]
        BY <1>1, <2>1
      <4>2. \A l \in 1..Len(a) : a[l] \notin SentFor(k)
        BY <4>1, <2>1 DEF SentFor
      <4> HIDE DEF a
      <4>3. Filter(a, SentFor(k)) = <<>>
        BY <4>1, <4>2, FilterNone
      <4> QED
        BY <3>1, <4>3 DEF a
    <3>3. Filter(Without(i), SentFor(k)) = g /\ Filter(tasks, SentFor(k)) = <<e>> \o g
      <4>1. <<>> \o g = g /\ Append(<<>>, e) = <<e>>
        BY ConcatEmptySeq
      <4> QED
        BY <3>1, <3>2, <4>1
    <3>4. Tasks(<<e>> \o g) = <<e.task>> \o Tasks(g)
      <4> DEFINE o == <<e>>
      <4>1. o \in Seq(Entry) /\ Tasks(o) = <<e.task>>
        BY <2>2 DEF Tasks, e
      <4> HIDE DEF o
      <4>2. Tasks(o \o g) = Tasks(o) \o Tasks(g)
        BY <4>1, Members, TasksConcat
      <4> QED
        BY <4>1, <4>2 DEF o
    <3> QED
      BY <3>3, <3>4 DEF Waiting
  <2>9. e.task \in Task
    BY <2>2, Members DEF e
  <2> QED
    BY <2>1, <2>6, <2>7, <2>8, <2>9 DEF e
<1> QED
  BY <1>3, <1>6, <1>7

-----------------------------------------------------------------------------
(* What is read from a wire, and what is put on it *)

\* The server reads its wire: what it has asked for, and what is left of it.
LEMMA ReadRequests ==
  ASSUME TypeOK, NEW m, ServerReads(m)
  PROVE  /\ toServer' \in Seq(ToServer) /\ Len(toServer') = Len(toServer) - 1
         /\ Len(toServer) \in Nat /\ 1 \in 1..Len(toServer) /\ toServer[1].m = m
         /\ \A i \in 1..Len(toServer') : i + 1 \in 1..Len(toServer) /\ toServer'[i] = toServer[i + 1]
         /\ m # "request" => \A k : Asked(toServer', k) = Asked(toServer, k)
         /\ m = "request" =>
              /\ Head(toServer).task \in Task
              /\ \A k : Asked(toServer, k) =
                          IF ReplyOf[Head(toServer).task] = k
                            THEN <<Head(toServer).task>> \o Asked(toServer', k)
                            ELSE Asked(toServer', k)
<1> DEFINE w == toServer
           h == Head(w)
           t == Tail(w)
<1>1. w \in Seq(ToServer) /\ w # <<>> /\ toServer' = t /\ h.m = m
  BY DEF TypeOK, ServerReads
<1>2. /\ h \in ToServer /\ t \in Seq(ToServer) /\ Len(t) = Len(w) - 1 /\ Len(w) \in Nat
      /\ \A i \in 1..Len(t) : i + 1 \in 1..Len(w) /\ t[i] = w[i + 1]
      /\ 1 \in 1..Len(w) /\ w[1] = h
  BY <1>1
<1>3. \A k : Asked(w, k) = IF h \in RequestsFor(k) THEN <<h.task>> \o Asked(t, k) ELSE Asked(t, k)
  BY <1>1, AskedTail
<1>4. m # "request" => \A k : h \notin RequestsFor(k)
  BY <1>1 DEF RequestsFor
<1>5. m = "request" => h.task \in Task /\ \A k : h \in RequestsFor(k) <=> ReplyOf[h.task] = k
  BY <1>1, <1>2 DEF ToServer, RequestsFor
<1> HIDE DEF h, t
<1> QED
  BY <1>1, <1>2, <1>3, <1>4, <1>5 DEF h, t

\* The channel is handed what came first from the server.
LEMMA ReadReplies ==
  ASSUME TypeOK, NEW m, Receive(m)
  PROVE  /\ toClient' \in Seq(ToClient) /\ Len(toClient') = Len(toClient) - 1
         /\ Len(toClient) \in Nat /\ 1 \in 1..Len(toClient) /\ toClient[1] = Head(toClient)
         /\ Head(toClient).m = m /\ Head(toClient) \in ToClient
         /\ \A i \in 1..Len(toClient') : i + 1 \in 1..Len(toClient) /\ toClient'[i] = toClient[i + 1]
         /\ \A k : Answered(toClient, k) =
                     IF Head(toClient) \in RepliesOf(k)
                       THEN <<Head(toClient).of>> \o Answered(toClient', k)
                       ELSE Answered(toClient', k)
         /\ m # "reply" => \A k : Answered(toClient', k) = Answered(toClient, k)
<1> DEFINE w == toClient
           h == Head(w)
           t == Tail(w)
<1>1. w \in Seq(ToClient) /\ w # <<>> /\ toClient' = t /\ h.m = m
  BY DEF TypeOK, Receive
<1>2. /\ h \in ToClient /\ t \in Seq(ToClient) /\ Len(t) = Len(w) - 1 /\ Len(w) \in Nat
      /\ \A i \in 1..Len(t) : i + 1 \in 1..Len(w) /\ t[i] = w[i + 1]
      /\ 1 \in 1..Len(w) /\ w[1] = h
  BY <1>1
<1>3. \A k : Answered(w, k) = IF h \in RepliesOf(k) THEN <<h.of>> \o Answered(t, k) ELSE Answered(t, k)
  BY <1>1, AnsweredTail
<1>4. m # "reply" => \A k : h \notin RepliesOf(k)
  BY <1>1 DEF RepliesOf
<1> HIDE DEF h, t
<1> QED
  BY <1>1, <1>2, <1>3, <1>4 DEF h, t

\* The channel writes a method that is not a request.
LEMMA PutRequest ==
  ASSUME TypeOK, NEW m \in {"close", "closeOk"}, toServer' = Append(toServer, [m |-> m])
  PROVE  /\ toServer' \in Seq(ToServer) /\ Len(toServer') = Len(toServer) + 1
         /\ Len(toServer) \in Nat
         /\ \A i \in 1..Len(toServer) : toServer'[i] = toServer[i]
         /\ toServer'[Len(toServer) + 1].m = m
         /\ \A k : Asked(toServer', k) = Asked(toServer, k)
<1> DEFINE r == [m |-> m]
<1>1. toServer \in Seq(ToServer) /\ r \in ToServer /\ r.m = m
  BY DEF TypeOK, ToServer
<1>2. \A k : r \notin RequestsFor(k)
  BY DEF RequestsFor
<1> HIDE DEF r
<1>3. \A k : Asked(Append(toServer, r), k) = Asked(toServer, k)
  BY <1>1, <1>2, AskedAppend
<1> QED
  BY <1>1, <1>3 DEF r

\* The server writes a method that is not a reply.
LEMMA PutAnswer ==
  ASSUME TypeOK, NEW m \in {"opened", "close", "closeOk"}, Answer(m)
  PROVE  /\ toClient' \in Seq(ToClient) /\ Len(toClient') = Len(toClient) + 1
         /\ Len(toClient) \in Nat
         /\ \A i \in 1..Len(toClient) : toClient'[i] = toClient[i]
         /\ toClient'[Len(toClient) + 1].m = m
         /\ \A k : Answered(toClient', k) = Answered(toClient, k)
<1> DEFINE r == [m |-> m]
<1>1. toClient \in Seq(ToClient) /\ r \in ToClient /\ r.m = m /\ toClient' = Append(toClient, r)
  BY DEF TypeOK, ToClient, Answer
<1>2. \A k : r \notin RepliesOf(k)
  BY DEF RepliesOf
<1> HIDE DEF r
<1>3. \A k : Answered(Append(toClient, r), k) = Answered(toClient, k)
  BY <1>1, <1>2, AnsweredAppend
<1> QED
  BY <1>1, <1>3 DEF r

\* The server writes a reply.
LEMMA PutReply ==
  ASSUME TypeOK, NEW t \in Task, ReplyOf[t] # NoReply,
         toClient' = Append(toClient, [m |-> "reply", kind |-> ReplyOf[t], of |-> t])
  PROVE  /\ toClient' \in Seq(ToClient) /\ Len(toClient') = Len(toClient) + 1
         /\ Len(toClient) \in Nat
         /\ \A i \in 1..Len(toClient) : toClient'[i] = toClient[i]
         /\ toClient'[Len(toClient) + 1].m = "reply" /\ toClient'[Len(toClient) + 1].of = t
         /\ \A k : Answered(toClient', k) = IF ReplyOf[t] = k THEN Append(Answered(toClient, k), t)
                                                              ELSE Answered(toClient, k)
<1> DEFINE r == [m |-> "reply", kind |-> ReplyOf[t], of |-> t]
<1>1. /\ toClient \in Seq(ToClient) /\ r \in ToClient /\ r.m = "reply" /\ r.of = t
      /\ toClient' = Append(toClient, r)
  BY DEF TypeOK, ToClient, Kinds
<1>2. \A k : r \in RepliesOf(k) <=> ReplyOf[t] = k
  BY DEF RepliesOf
<1> HIDE DEF r
<1>3. \A k : Answered(Append(toClient, r), k) =
               IF r \in RepliesOf(k) THEN Append(Answered(toClient, k), r.of) ELSE Answered(toClient, k)
  BY <1>1, AnsweredAppend
<1> QED
  BY <1>1, <1>2, <1>3

-----------------------------------------------------------------------------
(* Order *)

\* What a sequence begins with, and what it goes on with.
LEMMA Begins ==
  ASSUME NEW S, NEW a \in S, NEW s \in Seq(S)
  PROVE  Head(<<a>> \o s) = a /\ Tail(<<a>> \o s) = s
<1> DEFINE u == <<a>> \o s
           t == Tail(u)
<1>1. /\ u \in Seq(S) /\ Len(u) = 1 + Len(s) /\ u[1] = a /\ Len(s) \in Nat
      /\ \A i \in 1..Len(s) : u[i + 1] = s[i]
  OBVIOUS
<1> HIDE DEF u
<1>2. /\ Head(u) = a /\ t \in Seq(S) /\ Len(t) = Len(s)
      /\ \A i \in 1..Len(s) : t[i] = u[i + 1]
  BY <1>1
<1> HIDE DEF t
<1>3. t = s
  BY <1>1, <1>2, SeqEqual
<1> QED
  BY <1>2, <1>3 DEF u, t

\* What begins one sequence may as well end the one before it.
LEMMA MovesOver ==
  ASSUME NEW S, NEW a \in S, NEW r \in Seq(S), NEW q \in Seq(S)
  PROVE  r \o (<<a>> \o q) = Append(r, a) \o q
<1> DEFINE o == <<a>>
<1>1. o \in Seq(S)
  OBVIOUS
<1>2. r \o o = Append(r, a)
  OBVIOUS
<1> HIDE DEF o
<1>3. (r \o o) \o q = r \o (o \o q)
  BY SMTT(30), <1>1, ConcatAssociative
<1> QED
  BY <1>2, <1>3 DEF o

\* What waits for a method, what is asked and what is answered, are tasks.
LEMMA Orders ==
  ASSUME TypeOK, NEW k
  PROVE  /\ Waiting(tasks, k) \in Seq(Task)
         /\ Asked(toServer, k) \in Seq(Task)
         /\ Answered(toClient, k) \in Seq(Task)
BY WaitingType, AskedType, AnsweredType DEF TypeOK

\* The order survives a flush: what is written is asked for and waits.
LEMMA OrderGrows ==
  ASSUME TypeOK, NEW k, InOrder(k), srv' = srv, NEW w \in Seq(Task),
         Waiting(tasks', k) = Waiting(tasks, k) \o w,
         Asked(toServer', k) = Asked(toServer, k) \o w,
         Answered(toClient', k) = Answered(toClient, k)
  PROVE  InOrder(k)'
<1> DEFINE x == Waiting(tasks, k)
           q == Asked(toServer, k)
           r == Answered(toClient, k)
<1>1. x \in Seq(Task) /\ q \in Seq(Task) /\ r \in Seq(Task)
  BY Orders
<1>2. PICK y \in Seq(Task) : x = r \o y /\ (srv = "open" => y = q)
  BY <1>1 DEF InOrder
<1> HIDE DEF x, q, r
<1>3. x \o w = r \o (y \o w) /\ y \o w \in Seq(Task)
  BY SMTT(30), <1>1, <1>2, ConcatAssociative
<1>4. Waiting(tasks', k) = x \o w /\ Asked(toServer', k) = q \o w /\ Answered(toClient', k) = r
  BY DEF x, q, r
<1> QED
  BY <1>2, <1>3, <1>4 DEF InOrder

\* It survives whatever leaves the three as they were, unless the server opens.
LEMMA OrderStays ==
  ASSUME TypeOK, NEW k, InOrder(k), srv' # "open" \/ srv' = srv,
         Waiting(tasks', k) = Waiting(tasks, k),
         srv' = srv => Asked(toServer', k) = Asked(toServer, k),
         Answered(toClient', k) = Answered(toClient, k)
  PROVE  InOrder(k)'
BY Orders DEF InOrder

\* What a flush writes are requests, behind what the wire holds; it writes
\* nothing while an open is on its way, or its answer.
LEMMA Written ==
  ASSUME TypeOK, Phases, NEW w \in Seq(ToServer), NEW entries, Wrote(state, entries, w),
         UNCHANGED <<state, tracked, link, losses, srv, toClient>>
  PROVE  /\ Phases'
         /\ \A i \in 1..Len(toServer') : toServer'[i].m = "open" =>
              i \in 1..Len(toServer) /\ toServer[i].m = "open"
<1> DEFINE z == toServer'
<1>1. /\ Len(z) = Len(toServer) + Len(w) /\ Len(toServer) \in Nat /\ Len(w) \in Nat
      /\ \A i \in 1..Len(toServer) : z[i] = toServer[i]
      /\ \A i \in 1..Len(z) : i \notin 1..Len(toServer) => z[i].m = "request"
  <2> DEFINE y == toServer
  <2>1. y \in Seq(ToServer) /\ w \in Seq(ToServer) /\ z = y \o w
    BY DEF TypeOK, Wrote
  <2> HIDE DEF y, z
  <2>2. /\ Len(z) = Len(y) + Len(w) /\ Len(y) \in Nat /\ Len(w) \in Nat
        /\ \A i \in 1..Len(z) : z[i] = IF i <= Len(y) THEN y[i] ELSE w[i - Len(y)]
    BY <2>1, ConcatProperties
  <2>3. \A i \in 1..Len(w) : w[i].m = "request"
    BY DEF Wrote
  <2>4. \A i \in 1..Len(z) : i \notin 1..Len(y) => ~(i <= Len(y)) /\ i - Len(y) \in 1..Len(w)
    BY <2>2
  <2>5. \A i \in 1..Len(y) : i \in 1..Len(z) /\ i <= Len(y)
    BY <2>2
  <2> QED
    BY <2>2, <2>3, <2>4, <2>5 DEF y
<1>2. \A i \in 1..Len(z) : z[i].m = "open" => i \in 1..Len(toServer) /\ toServer[i].m = "open"
  BY <1>1
<1>3. w = <<>> => toServer' = toServer
  BY ConcatEmptySeq DEF TypeOK, Wrote
<1>4. toServer' = toServer \/ (state = "open" /\ link)
  BY <1>3 DEF Phases, Wrote
<1> HIDE DEF z
<1>5. Phases'
  <2>1. CASE toServer' = toServer
    BY <2>1 DEF Phases
  <2>2. CASE state = "open" /\ link
    <3>1. \A i \in 1..Len(toServer') : toServer'[i].m # "open"
      BY <2>2, <1>2 DEF Phases, z
    <3> QED
      BY <2>2, <3>1 DEF Phases
  <2> QED
    BY <1>4, <2>1, <2>2
<1> QED
  BY <1>2, <1>5 DEF z

\* The counts survive a flush.
LEMMA BackedGrows ==
  ASSUME TypeOK, Backed, toClient' = toClient, NEW w \in Seq(ToServer),
         \A k \in Kinds : /\ Waiting(tasks', k) = Waiting(tasks, k) \o Asked(w, k)
                          /\ Asked(toServer', k) = Asked(toServer, k) \o Asked(w, k)
  PROVE  Backed'
<1> SUFFICES ASSUME NEW k \in Kinds
             PROVE  Len(Answered(toClient', k)) + Len(Asked(toServer', k)) <= Len(Waiting(tasks', k))
  BY DEF Backed
<1> DEFINE x == Waiting(tasks, k)
           q == Asked(toServer, k)
           r == Answered(toClient, k)
           v == Asked(w, k)
<1>1. x \in Seq(Task) /\ q \in Seq(Task) /\ r \in Seq(Task) /\ v \in Seq(Task)
  BY Orders, AskedType
<1>2. Len(r) + Len(q) <= Len(x)
  BY DEF Backed
<1>3. Answered(toClient', k) = r /\ Asked(toServer', k) = q \o v /\ Waiting(tasks', k) = x \o v
  OBVIOUS
<1> HIDE DEF x, q, r, v
<1>4. Len(q \o v) = Len(q) + Len(v) /\ Len(x \o v) = Len(x) + Len(v)
      /\ Len(q) \in Nat /\ Len(v) \in Nat /\ Len(x) \in Nat /\ Len(r) \in Nat
  BY <1>1
<1> QED
  BY <1>2, <1>3, <1>4

\* The initial state satisfies the inductive invariant.
LEMMA InitIInv ==
  Init => IInv
<1> SUFFICES ASSUME Init PROVE IInv
  OBVIOUS
<1>1. /\ state = "closed" /\ tracked = TRUE /\ tasks = <<>> /\ link = TRUE /\ losses = 0
      /\ promise = [t \in Task |-> "idle"] /\ toServer = <<[m |-> "open"]>>
      /\ toClient = <<>> /\ srv = "closed" /\ pushed = <<>> /\ sent = <<>> /\ done = {}
  BY DEF Init
<1>2. TypeOK
  <2>1. toServer \in Seq(ToServer)
    BY <1>1 DEF ToServer
  <2>2. losses \in 0..MaxLosses
    BY <1>1, LossesAssumption
  <2> QED
    BY <1>1, <2>1, <2>2 DEF TypeOK
<1>3. Phases
  <2>1. Len(toServer) = 1 /\ Len(toClient) = 0
    BY <1>1
  <2> QED
    BY <1>1, <2>1 DEF Phases
<1>4. NothingSkipped
  <2>1. Filter(tasks, Unsent) = <<>>
    BY <1>1, FilterEmpty
  <2>2. Tasks(Filter(tasks, Unsent)) = <<>>
    BY <2>1 DEF Tasks
  <2> QED
    BY <1>1, <2>2 DEF NothingSkipped, SentFirst
<1>5. ASSUME NEW k PROVE Waiting(tasks, k) = <<>> /\ Answered(toClient, k) = <<>>
  BY <1>1, NothingIn
<1>6. ASSUME NEW k PROVE Asked(toServer, k) = <<>>
  <2> DEFINE o == [m |-> "open"]
             e == <<>>
  <2>1. e \in Seq(ToServer) /\ o \in ToServer /\ toServer = Append(e, o) /\ o \notin RequestsFor(k)
    BY <1>1 DEF ToServer, RequestsFor
  <2>2. Asked(e, k) = <<>>
    BY NothingIn
  <2> HIDE DEF o, e
  <2> QED
    BY <2>1, <2>2, AskedAppend
<1>7. Backed
  <2> SUFFICES ASSUME NEW k \in Kinds
               PROVE Len(Answered(toClient, k)) + Len(Asked(toServer, k)) <= Len(Waiting(tasks, k))
    BY DEF Backed
  <2>1. Len(Answered(toClient, k)) = 0 /\ Len(Asked(toServer, k)) = 0 /\ Len(Waiting(tasks, k)) = 0
    BY <1>5, <1>6
  <2> QED
    BY <2>1
<1>8. Matched
  <2>1. Len(toClient) = 0 /\ Len(tasks) = 0
    BY <1>1
  <2>2. ASSUME NEW k PROVE InOrder(k)
    <3>1. <<>> = <<>> \o <<>> /\ <<>> \in Seq(Task)
      BY ConcatEmptySeq
    <3> QED
      BY <1>1, <1>5, <3>1 DEF InOrder
  <2> QED
    BY <2>1, <2>2 DEF Matched
<1>9. OpenMeansFlushed /\ FulfilledMeansDoneUntilLoss
  BY <1>1 DEF OpenMeansFlushed, FulfilledMeansDoneUntilLoss, FulfilledMeansDone
<1> QED
  BY <1>2, <1>3, <1>4, <1>7, <1>8, <1>9 DEF IInv

-----------------------------------------------------------------------------
(* Every step keeps the inductive invariant *)

\* The application pushes a task.
LEMMA TaskPushKeeps ==
  ASSUME IInv, NEW t \in Task, TaskPush(t)
  PROVE  IInv'
<1> DEFINE e == [task |-> t, sent |-> FALSE]
           entries == Append(tasks, e)
<1>1. TypeOK /\ Phases /\ NothingSkipped /\ Backed /\ Matched /\ tasks \in Seq(Entry)
  BY DEF IInv, TypeOK
<1>2. e \in Entry /\ e \in Unsent /\ ~e.sent /\ e.task = t
  BY DEF Entry, Unsent
<1>3. /\ promise[t] = "idle" /\ promise' = [promise EXCEPT ![t] = "pending"]
      /\ pushed' = Append(pushed, t)
      /\ Flush(state, entries, toServer)
      /\ UNCHANGED <<state, tracked, link, losses, toClient, srv, done>>
  BY DEF TaskPush, connVars
<1> HIDE DEF e
<1>4. entries \in Seq(Entry) /\ SentFirst(entries)
      /\ Len(entries) = Len(tasks) + 1 /\ entries[Len(tasks) + 1] = e
      /\ \A i \in 1..Len(tasks) : entries[i] = tasks[i]
  <2>1. entries \in Seq(Entry) /\ Len(entries) = Len(tasks) + 1 /\ entries[Len(tasks) + 1] = e
        /\ (\A i \in 1..Len(tasks) : entries[i] = tasks[i]) /\ Len(tasks) \in Nat
    BY <1>1, <1>2
  <2> HIDE DEF entries
  <2>2. SentFirst(entries)
    BY SMTT(30), <1>1, <1>2, <2>1 DEF NothingSkipped, SentFirst
  <2> QED
    BY <2>1, <2>2
<1>5. Filter(entries, Unsent) = Append(Filter(tasks, Unsent), e)
  BY <1>1, <1>2, FilterAppend
<1>6. \A k : Waiting(entries, k) = Waiting(tasks, k)
  <2>1. \A k : e \notin SentFor(k)
    BY <1>2 DEF SentFor
  <2> QED
    BY <1>1, <1>2, <2>1, WaitingAppend
<1> HIDE DEF entries
<1>7. /\ tasks' \in Seq(Entry) /\ toServer' \in Seq(ToServer) /\ sent' \in Seq(Task)
      /\ SentFirst(tasks')
      /\ state = "open" => \A i \in 1..Len(tasks') : tasks'[i].sent
      /\ sent' \o Tasks(Filter(tasks', Unsent)) = sent \o Tasks(Filter(entries, Unsent))
      /\ \E w \in Seq(ToServer) : Wrote(state, entries, w)
  BY <1>1, <1>3, <1>4, FlushStep
<1>8. PICK w \in Seq(ToServer) :
        /\ Wrote(state, entries, w)
        /\ toServer' = toServer \o w
        /\ state # "open" => w = <<>> /\ tasks' = entries
        /\ \A k \in Kinds :
             /\ Waiting(tasks', k) = Waiting(tasks, k) \o Asked(w, k)
             /\ Asked(toServer', k) = Asked(toServer, k) \o Asked(w, k)
  BY <1>6, <1>7 DEF Wrote
<1>9. TypeOK'
  BY <1>1, <1>3, <1>7 DEF TypeOK
<1>10. /\ Phases'
       /\ \A i \in 1..Len(toServer') : toServer'[i].m = "open" =>
            i \in 1..Len(toServer) /\ toServer[i].m = "open"
  BY <1>1, <1>3, <1>8, Written
<1>11. NothingSkipped'
  <2>1. Filter(tasks, Unsent) \in Seq(Entry)
    BY <1>1, FilterType
  <2> DEFINE f == Filter(tasks, Unsent)
  <2>2. Tasks(Append(f, e)) = Append(Tasks(f), t) /\ Tasks(f) \in Seq(Task)
    <3> HIDE DEF f
    <3>1. f \in Seq(Entry)
      BY <2>1 DEF f
    <3> QED
      BY <1>2, <3>1, Members, TasksAppend, TasksOf
  <2> HIDE DEF f
  <2>3. sent \o Append(Tasks(f), t) = Append(sent \o Tasks(f), t)
    BY <1>1, <2>2, ConcatAppend DEF TypeOK
  <2>4. sent \o Tasks(Filter(entries, Unsent)) = pushed'
    BY <1>1, <1>3, <1>5, <2>2, <2>3 DEF NothingSkipped, f
  <2> QED
    BY <1>7, <2>4 DEF NothingSkipped
<1>12. Backed'
  BY <1>1, <1>3, <1>8, BackedGrows
<1>13. Matched'
  <2> SUFFICES ASSUME losses = 0 PROVE Matched'
    BY <1>3 DEF Matched
  <2>1. \A i \in 1..Len(toServer') : toServer'[i].m = "open" => \A j \in 1..Len(tasks') : ~tasks'[j].sent
    <3> SUFFICES ASSUME NEW i \in 1..Len(toServer'), toServer'[i].m = "open"
                 PROVE  \A j \in 1..Len(tasks') : ~tasks'[j].sent
      OBVIOUS
    <3>1. i \in 1..Len(toServer) /\ toServer[i].m = "open"
      BY <1>10
    <3>2. state # "open" /\ \A j \in 1..Len(tasks) : ~tasks[j].sent
      BY <1>1, <3>1 DEF Phases, Matched
    <3>3. Len(tasks) \in Nat
      BY <1>1
    <3> QED
      BY SMTT(30), <1>2, <1>4, <1>8, <3>2, <3>3
  <2>2. \A i \in 1..Len(toClient') : toClient'[i].m = "reply" => toClient'[i].of \in done'
    BY <1>1, <1>3 DEF Matched
  <2>3. ASSUME NEW k \in Kinds PROVE InOrder(k)'
    <3>1. Asked(w, k) \in Seq(Task)
      BY <1>8, AskedType
    <3> QED
      BY <1>1, <1>3, <1>8, <3>1, OrderGrows DEF Matched
  <2> QED
    BY <2>1, <2>2, <2>3 DEF Matched
<1>14. OpenMeansFlushed' /\ FulfilledMeansDoneUntilLoss'
  <2>1. OpenMeansFlushed'
    BY <1>3, <1>7 DEF OpenMeansFlushed
  <2>2. FulfilledMeansDoneUntilLoss'
    BY <1>1, <1>3 DEF IInv, FulfilledMeansDoneUntilLoss, FulfilledMeansDone, TypeOK
  <2> QED
    BY <2>1, <2>2
<1> QED
  BY <1>9, <1>10, <1>11, <1>12, <1>13, <1>14 DEF IInv

\* The handshake is over: the channel writes what has gathered.
LEMMA OnOpenedKeeps ==
  ASSUME IInv, OnOpened
  PROVE  IInv'
<1>1. TypeOK /\ Phases /\ NothingSkipped /\ Backed /\ Matched /\ tasks \in Seq(Entry)
      /\ SentFirst(tasks)
  BY DEF IInv, TypeOK, NothingSkipped
<1>2. /\ Receive("opened") /\ state' = "open" /\ Flush("open", tasks, toServer)
      /\ UNCHANGED <<tracked, promise, link, losses, srv, pushed, done>>
  BY DEF OnOpened, connVars
<1>3. /\ toClient' \in Seq(ToClient) /\ Len(toClient') = Len(toClient) - 1
      /\ 1 \in 1..Len(toClient) /\ toClient[1].m = "opened"
      /\ \A k : Answered(toClient', k) = Answered(toClient, k)
  BY <1>1, <1>2, ReadReplies
<1>4. Len(toClient) = 1 /\ toServer = <<>> /\ srv = "open" /\ link /\ tracked /\ toClient' = <<>>
  BY <1>1, <1>2, <1>3 DEF Phases, Receive
<1>5. /\ tasks' \in Seq(Entry) /\ toServer' \in Seq(ToServer) /\ sent' \in Seq(Task)
      /\ SentFirst(tasks')
      /\ \A i \in 1..Len(tasks') : tasks'[i].sent
      /\ sent' \o Tasks(Filter(tasks', Unsent)) = sent \o Tasks(Filter(tasks, Unsent))
      /\ \E w \in Seq(ToServer) : Wrote("open", tasks, w)
  BY <1>1, <1>2, FlushStep
<1>6. PICK w \in Seq(ToServer) :
        /\ toServer' = toServer \o w /\ \A i \in 1..Len(w) : w[i].m = "request"
        /\ \A k \in Kinds : /\ Waiting(tasks', k) = Waiting(tasks, k) \o Asked(w, k)
                            /\ Asked(toServer', k) = Asked(toServer, k) \o Asked(w, k)
  BY <1>5 DEF Wrote
<1>7. toServer' = w
  BY <1>4, <1>6, ConcatEmptySeq
<1>8. TypeOK'
  BY <1>1, <1>2, <1>3, <1>5 DEF TypeOK
<1>9. Phases'
  <2>1. Len(toClient') = 0
    BY <1>4
  <2>2. \A i \in 1..Len(toServer') : toServer'[i].m # "open"
    BY <1>6, <1>7
  <2> QED
    BY <1>1, <1>2, <1>4, <2>1, <2>2 DEF Phases
<1>10. NothingSkipped'
  BY <1>1, <1>2, <1>5 DEF NothingSkipped
<1>11. Backed'
  <2> SUFFICES ASSUME NEW k \in Kinds
               PROVE  Len(Answered(toClient', k)) + Len(Asked(toServer', k)) <= Len(Waiting(tasks', k))
    BY DEF Backed
  <2> DEFINE x == Waiting(tasks, k)
             q == Asked(toServer, k)
             r == Answered(toClient, k)
             v == Asked(w, k)
  <2>1. x \in Seq(Task) /\ q \in Seq(Task) /\ r \in Seq(Task) /\ v \in Seq(Task)
    BY <1>1, Orders, AskedType
  <2>2. Len(r) + Len(q) <= Len(x)
    BY <1>1 DEF Backed
  <2>3. Answered(toClient', k) = r /\ Asked(toServer', k) = q \o v /\ Waiting(tasks', k) = x \o v
    BY <1>3, <1>6
  <2> HIDE DEF x, q, r, v
  <2>4. Len(q \o v) = Len(q) + Len(v) /\ Len(x \o v) = Len(x) + Len(v)
        /\ Len(q) \in Nat /\ Len(v) \in Nat /\ Len(x) \in Nat /\ Len(r) \in Nat
    BY <2>1
  <2> QED
    BY <2>2, <2>3, <2>4
<1>12. Matched'
  <2> SUFFICES ASSUME losses = 0 PROVE Matched'
    BY <1>2 DEF Matched
  <2>1. Len(toClient') = 0
    BY <1>4
  <2>2. ASSUME NEW k \in Kinds PROVE InOrder(k)'
    <3>1. Asked(w, k) \in Seq(Task) /\ InOrder(k)
      BY <1>1, AskedType DEF Matched
    <3> QED
      BY <1>1, <1>2, <1>3, <1>6, <3>1, OrderGrows
  <2>3. \A i \in 1..Len(toServer') : toServer'[i].m # "open"
    BY <1>6, <1>7
  <2> QED
    BY <2>1, <2>2, <2>3 DEF Matched
<1>13. OpenMeansFlushed' /\ FulfilledMeansDoneUntilLoss'
  BY <1>2, <1>5 DEF IInv, OpenMeansFlushed, FulfilledMeansDoneUntilLoss, FulfilledMeansDone
<1> QED
  BY <1>8, <1>9, <1>10, <1>11, <1>12, <1>13 DEF IInv

\* A reply settles the first task that waits for its method, and the flush that
\* follows it finds nothing the invariant does not account for.
LEMMA OnReplyKeeps ==
  ASSUME IInv, OnReply
  PROVE  IInv'
<1>0. PICK k : k = Head(toClient).kind
  OBVIOUS
<1>1. TypeOK /\ Phases /\ NothingSkipped /\ Backed /\ Matched /\ tasks \in Seq(Entry)
      /\ SentFirst(tasks) /\ OpenMeansFlushed
  BY DEF IInv, TypeOK, NothingSkipped
<1>2. Receive("reply") /\ UNCHANGED <<state, tracked, link, losses, srv, pushed, done>>
  BY DEF OnReply, connVars
<1>3. /\ toClient' \in Seq(ToClient) /\ Len(toClient') = Len(toClient) - 1
      /\ Len(toClient) \in Nat /\ 1 \in 1..Len(toClient) /\ toClient[1] = Head(toClient)
      /\ Head(toClient) \in ToClient /\ Head(toClient).m = "reply"
      /\ \A i \in 1..Len(toClient') : i + 1 \in 1..Len(toClient) /\ toClient'[i] = toClient[i + 1]
      /\ \A n : Answered(toClient, n) = IF Head(toClient) \in RepliesOf(n)
                                          THEN <<Head(toClient).of>> \o Answered(toClient', n)
                                          ELSE Answered(toClient', n)
  BY <1>1, <1>2, ReadReplies
<1>4. /\ k \in Kinds /\ Head(toClient) \in RepliesOf(k) /\ Awaiting(k) # {}
      /\ \A i \in Awaiting(k) :
           /\ i \in 1..Len(tasks)
           /\ tasks[i].task \in Task
           /\ Filter(Without(i), Unsent) = Filter(tasks, Unsent)
           /\ Waiting(tasks, k) = <<tasks[i].task>> \o Waiting(Without(i), k)
           /\ \A n \in Kinds \ {k} : Waiting(Without(i), n) = Waiting(tasks, n)
  BY <1>0, <1>1, <1>2, ReplyTakes
<1>5. PICK i \in Awaiting(k) : EmitSuccess(tasks[i].task) /\ Flush(state, Without(i), toServer)
  BY <1>0, <1>4 DEF OnReply
<1> DEFINE z == Without(i)
           t == tasks[i].task
           o == Head(toClient).of
<1>6. /\ z \in Seq(Entry) /\ SentFirst(z)
      /\ (\A j \in 1..Len(tasks) : tasks[j].sent) => \A j \in 1..Len(z) : z[j].sent
      /\ (\A j \in 1..Len(tasks) : ~tasks[j].sent) => \A j \in 1..Len(z) : ~z[j].sent
  BY <1>1, <1>4, <1>5, SentFirstWithout
<1>7. /\ t \in Task /\ Filter(z, Unsent) = Filter(tasks, Unsent)
      /\ Waiting(tasks, k) = <<t>> \o Waiting(z, k)
      /\ \A n \in Kinds \ {k} : Waiting(z, n) = Waiting(tasks, n)
  BY <1>4, <1>5
<1>8. o \in Task /\ \A n \in Kinds \ {k} : Head(toClient) \notin RepliesOf(n)
  BY <1>4, Members DEF RepliesOf
<1>9. /\ Answered(toClient, k) = <<o>> \o Answered(toClient', k)
      /\ \A n \in Kinds \ {k} : Answered(toClient', n) = Answered(toClient, n)
  BY <1>3, <1>4, <1>8
<1> HIDE DEF z, t, o
<1>10. Flush(state, z, toServer) /\ EmitSuccess(t)
  BY <1>5 DEF z, t
<1>11. tasks' = z /\ toServer' = toServer /\ sent' = sent
  <2>1. CASE state = "open"
    <3>1. \A j \in 1..Len(z) : z[j].sent
      BY <1>1, <1>6, <2>1 DEF OpenMeansFlushed
    <3>2. toServer \in Seq(ToServer) /\ sent \in Seq(Task)
      BY <1>1 DEF TypeOK
    <3> QED
      BY <1>6, <1>10, <3>1, <3>2, FlushSent
  <2>2. CASE state # "open"
    BY <1>10, <2>2, FlushShut
  <2> QED
    BY <2>1, <2>2
<1>12. TypeOK'
  BY <1>1, <1>2, <1>3, <1>6, <1>7, <1>10, <1>11 DEF TypeOK, EmitSuccess
<1>13. Phases'
  <2>1. link /\ tracked
    BY <1>2 DEF Receive
  <2>2. \A j \in 1..Len(toServer) : toServer[j].m # "open"
    BY <1>1, <1>2 DEF Phases, Receive
  <2>3. \A j \in 1..Len(toClient') : toClient'[j].m # "opened"
    <3> SUFFICES ASSUME NEW j \in 1..Len(toClient'), toClient'[j].m = "opened" PROVE FALSE
      OBVIOUS
    <3>1. j + 1 \in 1..Len(toClient) /\ toClient[j + 1].m = "opened"
      BY <1>3
    <3>2. Len(toClient) = 1
      BY <1>1, <3>1 DEF Phases
    <3> QED
      BY <1>3, <3>1, <3>2
  <2> QED
    BY <1>1, <1>2, <1>11, <2>1, <2>2, <2>3 DEF Phases
<1>14. NothingSkipped'
  BY <1>1, <1>2, <1>6, <1>7, <1>11 DEF NothingSkipped
<1>15. \A n \in Kinds : /\ Waiting(z, n) \in Seq(Task) /\ Answered(toClient', n) \in Seq(Task)
                        /\ Waiting(tasks, n) \in Seq(Task) /\ Answered(toClient, n) \in Seq(Task)
                        /\ Asked(toServer, n) \in Seq(Task)
  BY <1>1, <1>3, <1>6, Orders, WaitingType, AnsweredType
<1>16. Backed'
  <2> SUFFICES ASSUME NEW n \in Kinds
               PROVE  Len(Answered(toClient', n)) + Len(Asked(toServer, n)) <= Len(Waiting(z, n))
    BY <1>11 DEF Backed
  <2>1. Len(Answered(toClient, n)) + Len(Asked(toServer, n)) <= Len(Waiting(tasks, n))
    BY <1>1 DEF Backed
  <2>2. CASE n = k
    <3> DEFINE x == Waiting(z, n)
               y == Answered(toClient', n)
               q == Asked(toServer, n)
    <3>1. Waiting(tasks, n) = <<t>> \o x /\ Answered(toClient, n) = <<o>> \o y
      BY <1>7, <1>9, <2>2
    <3>2. x \in Seq(Task) /\ y \in Seq(Task) /\ q \in Seq(Task)
      BY <1>15
    <3> HIDE DEF x, y, q
    <3>3. Len(<<t>> \o x) = 1 + Len(x) /\ Len(<<o>> \o y) = 1 + Len(y)
          /\ Len(x) \in Nat /\ Len(y) \in Nat /\ Len(q) \in Nat
      BY <3>2, <1>7, <1>8
    <3>4. Len(y) + Len(q) <= Len(x)
      BY <2>1, <3>1, <3>3 DEF q
    <3> QED
      BY <3>4 DEF x, y, q
  <2>3. CASE n # k
    BY <1>7, <1>9, <2>1, <2>3
  <2> QED
    BY <2>2, <2>3
<1>17. losses = 0 => t = o /\ \A n \in Kinds : InOrder(n)'
  <2> SUFFICES ASSUME losses = 0 PROVE t = o /\ \A n \in Kinds : InOrder(n)'
    OBVIOUS
  <2>1. t = o /\ InOrder(k)'
    <3> DEFINE x == Waiting(z, k)
               y == Answered(toClient', k)
               q == Asked(toServer, k)
    <3>1. Waiting(tasks, k) = <<t>> \o x /\ Answered(toClient, k) = <<o>> \o y
      BY <1>7, <1>9
    <3>2. x \in Seq(Task) /\ y \in Seq(Task) /\ q \in Seq(Task)
      BY <1>4, <1>15
    <3>3. PICK rest \in Seq(Task) : /\ Waiting(tasks, k) = Answered(toClient, k) \o rest
                                    /\ srv = "open" => rest = q
      BY <1>1, <1>4, <3>2 DEF Matched, InOrder
    <3> HIDE DEF x, y, q
    <3>4. <<t>> \o x = (<<o>> \o y) \o rest
      BY <3>1, <3>3
    <3>5. (<<o>> \o y) \o rest = <<o>> \o (y \o rest)
      <4> DEFINE l == <<o>>
      <4>1. l \in Seq(Task)
        BY <1>8
      <4> HIDE DEF l
      <4> QED
        BY <3>2, <4>1, ConcatAssociative DEF l
    <3>6. t = o /\ x = y \o rest
      <4> DEFINE v == y \o rest
      <4>0. v \in Seq(Task)
        BY <3>2
      <4>1. <<t>> \o x = <<o>> \o v
        BY <3>4, <3>5, Zenon
      <4>2. Head(<<t>> \o x) = t /\ Tail(<<t>> \o x) = x
        BY <1>7, <3>2, Begins
      <4> HIDE DEF v
      <4>3. Head(<<o>> \o v) = o /\ Tail(<<o>> \o v) = v
        BY <1>8, <4>0, Begins
      <4>4. t = o /\ x = v
        BY <4>1, <4>2, <4>3, Zenon
      <4> QED
        BY <4>4 DEF v
    <3>7. srv' = srv /\ Waiting(tasks', k) = x /\ Answered(toClient', k) = y
          /\ Asked(toServer', k) = q
      BY <1>2, <1>11 DEF x, y, q
    <3>8. InOrder(k)'
      BY <3>3, <3>6, <3>7 DEF InOrder
    <3> QED
      BY <3>6, <3>8
  <2>2. ASSUME NEW n \in Kinds \ {k} PROVE InOrder(n)'
    BY <1>1, <1>2, <1>7, <1>9, <1>11, OrderStays DEF Matched
  <2>3. ASSUME NEW n \in Kinds PROVE InOrder(n)'
    <3>1. CASE n = k
      BY <2>1, <3>1
    <3>2. CASE n # k
      BY <2>2, <3>2
    <3> QED
      BY <3>1, <3>2
  <2> QED
    BY <2>1, <2>3
<1>18. losses = 0 => o \in done
  BY <1>1, <1>3 DEF Matched, o
<1>19. Matched'
  <2> SUFFICES ASSUME losses = 0 PROVE Matched'
    BY <1>2 DEF Matched
  <2>1. \A j \in 1..Len(toServer') : toServer'[j].m = "open" => \A l \in 1..Len(tasks') : ~tasks'[l].sent
    BY <1>1, <1>6, <1>11 DEF Matched
  <2>2. \A j \in 1..Len(toClient') : toClient'[j].m = "reply" => toClient'[j].of \in done'
    BY <1>1, <1>2, <1>3 DEF Matched
  <2> QED
    BY <1>17, <2>1, <2>2 DEF Matched
<1>20. OpenMeansFlushed' /\ FulfilledMeansDoneUntilLoss'
  <2>1. OpenMeansFlushed'
    BY <1>1, <1>2, <1>6, <1>11 DEF OpenMeansFlushed
  <2>2. FulfilledMeansDoneUntilLoss'
    BY <1>1, <1>2, <1>7, <1>10, <1>17, <1>18
       DEF IInv, TypeOK, EmitSuccess, FulfilledMeansDoneUntilLoss, FulfilledMeansDone
  <2> QED
    BY <2>1, <2>2
<1> QED
  BY <1>12, <1>13, <1>14, <1>16, <1>19, <1>20 DEF IInv

\* What a step that leaves the queue alone keeps.
LEMMA QueueStays ==
  ASSUME NothingSkipped, UNCHANGED <<tasks, pushed, sent>>
  PROVE  NothingSkipped'
BY DEF NothingSkipped

\* The application closes the channel.
LEMMA CloseKeeps ==
  ASSUME IInv, Close
  PROVE  IInv'
<1>1. TypeOK /\ Phases /\ NothingSkipped /\ Backed /\ Matched
  BY DEF IInv
<1>2. /\ state = "open" /\ link /\ tracked /\ state' = "closing"
      /\ toServer' = Append(toServer, [m |-> "close"])
      /\ UNCHANGED <<tracked, tasks, promise, link, losses, toClient, srv, pushed, sent, done>>
  BY DEF Close, connVars, histVars
<1>3. /\ toServer' \in Seq(ToServer) /\ Len(toServer') = Len(toServer) + 1
      /\ Len(toServer) \in Nat
      /\ \A i \in 1..Len(toServer) : toServer'[i] = toServer[i]
      /\ toServer'[Len(toServer) + 1].m = "close"
      /\ \A k : Asked(toServer', k) = Asked(toServer, k)
  BY <1>1, <1>2, PutRequest
<1>4. \A i \in 1..Len(toServer') : toServer'[i].m # "open"
  <2>1. \A i \in 1..Len(toServer) : toServer[i].m # "open"
    BY <1>1, <1>2 DEF Phases
  <2> QED
    BY <1>3, <2>1
<1>5. TypeOK'
  BY <1>1, <1>2, <1>3 DEF TypeOK
<1>6. Phases'
  BY <1>1, <1>2, <1>4 DEF Phases
<1>7. Backed'
  BY <1>1, <1>2, <1>3 DEF Backed
<1>8. Matched'
  <2>1. ASSUME NEW k \in Kinds, losses = 0 PROVE InOrder(k)'
    BY <1>1, <1>2, <1>3, <2>1, OrderStays DEF Matched
  <2> QED
    BY <1>1, <1>2, <1>4, <2>1 DEF Matched
<1>9. OpenMeansFlushed' /\ FulfilledMeansDoneUntilLoss'
  BY <1>2 DEF IInv, OpenMeansFlushed, FulfilledMeansDoneUntilLoss, FulfilledMeansDone
<1> QED
  BY <1>1, <1>2, <1>5, <1>6, <1>7, <1>8, <1>9, QueueStays DEF IInv

\* A promise times out: nothing else moves.
LEMMA PromiseTimeoutKeeps ==
  ASSUME IInv, NEW t \in Task, PromiseTimeout(t)
  PROVE  IInv'
<1>1. TypeOK /\ Phases /\ NothingSkipped /\ Backed /\ Matched
  BY DEF IInv
<1>2. /\ promise' = [promise EXCEPT ![t] = "timedOut"]
      /\ UNCHANGED <<state, tracked, tasks, link, losses, toServer, toClient, srv, pushed, sent, done>>
  BY DEF PromiseTimeout, connVars, histVars
<1>3. TypeOK'
  BY <1>1, <1>2 DEF TypeOK
<1>4. Phases' /\ Backed' /\ OpenMeansFlushed'
  BY <1>1, <1>2 DEF IInv, Phases, Backed, OpenMeansFlushed
<1>5. Matched'
  BY <1>1, <1>2 DEF Matched, InOrder
<1>6. FulfilledMeansDoneUntilLoss'
  BY <1>1, <1>2 DEF IInv, TypeOK, FulfilledMeansDoneUntilLoss, FulfilledMeansDone
<1> QED
  BY <1>1, <1>2, <1>3, <1>4, <1>5, <1>6, QueueStays DEF IInv

\* The server has closed the channel, and is told that it knows.
LEMMA OnChannelCloseKeeps ==
  ASSUME IInv, OnChannelClose
  PROVE  IInv'
<1>1. TypeOK /\ Phases /\ NothingSkipped /\ Backed /\ Matched
  BY DEF IInv
<1>2. /\ Receive("close") /\ link /\ tracked /\ state' = "closed"
      /\ toServer' = Append(toServer, [m |-> "closeOk"])
      /\ UNCHANGED <<tracked, tasks, promise, link, losses, srv, pushed, sent, done>>
  BY DEF OnChannelClose, Receive, connVars, histVars
<1>3. /\ toServer' \in Seq(ToServer) /\ Len(toServer') = Len(toServer) + 1
      /\ Len(toServer) \in Nat
      /\ \A i \in 1..Len(toServer) : toServer'[i] = toServer[i]
      /\ toServer'[Len(toServer) + 1].m = "closeOk"
      /\ \A k : Asked(toServer', k) = Asked(toServer, k)
  BY <1>1, <1>2, PutRequest
<1>4. /\ toClient' \in Seq(ToClient) /\ Len(toClient') = Len(toClient) - 1
      /\ Len(toClient) \in Nat /\ 1 \in 1..Len(toClient) /\ toClient[1].m = "close"
      /\ \A i \in 1..Len(toClient') : i + 1 \in 1..Len(toClient) /\ toClient'[i] = toClient[i + 1]
      /\ \A k : Answered(toClient', k) = Answered(toClient, k)
  BY <1>1, <1>2, ReadReplies
<1>5. \A i \in 1..Len(toServer') : toServer'[i].m # "open"
  <2>1. \A i \in 1..Len(toServer) : toServer[i].m # "open"
    BY <1>1, <1>2 DEF Phases, Receive
  <2> QED
    BY <1>3, <2>1
<1>6. \A i \in 1..Len(toClient') : toClient'[i].m # "opened"
  <2> SUFFICES ASSUME NEW i \in 1..Len(toClient'), toClient'[i].m = "opened" PROVE FALSE
    OBVIOUS
  <2>1. i + 1 \in 1..Len(toClient) /\ toClient[i + 1].m = "opened"
    BY <1>4
  <2>2. Len(toClient) = 1
    BY <1>1, <2>1 DEF Phases
  <2> QED
    BY <1>4, <2>1, <2>2
<1>7. TypeOK'
  BY <1>1, <1>2, <1>3, <1>4 DEF TypeOK
<1>8. Phases'
  BY <1>1, <1>2, <1>5, <1>6 DEF Phases
<1>9. Backed'
  BY <1>1, <1>2, <1>3, <1>4 DEF Backed
<1>10. Matched'
  <2>1. ASSUME NEW k \in Kinds, losses = 0 PROVE InOrder(k)'
    BY <1>1, <1>2, <1>3, <1>4, <2>1, OrderStays DEF Matched
  <2>2. ASSUME losses = 0, NEW i \in 1..Len(toClient'), toClient'[i].m = "reply"
        PROVE  toClient'[i].of \in done'
    BY <1>1, <1>2, <1>4, <2>2 DEF Matched
  <2> QED
    BY <1>2, <1>5, <2>1, <2>2 DEF Matched
<1>11. OpenMeansFlushed' /\ FulfilledMeansDoneUntilLoss'
  BY <1>2 DEF IInv, OpenMeansFlushed, FulfilledMeansDoneUntilLoss, FulfilledMeansDone
<1> QED
  BY <1>1, <1>2, <1>7, <1>8, <1>9, <1>10, <1>11, QueueStays DEF IInv

\* The server confirms the close: the connection forgets the channel.
LEMMA OnChannelCloseOkKeeps ==
  ASSUME IInv, OnChannelCloseOk
  PROVE  IInv'
<1>1. TypeOK /\ Phases /\ NothingSkipped /\ Backed /\ Matched
  BY DEF IInv
<1>2. /\ Receive("closeOk") /\ link /\ toClient # <<>> /\ tracked' = FALSE /\ state' = "closed"
      /\ UNCHANGED <<tasks, promise, link, losses, toServer, srv, pushed, sent, done>>
  BY DEF OnChannelCloseOk, Receive, connVars, histVars
<1>3. /\ toClient' \in Seq(ToClient) /\ Len(toClient') = Len(toClient) - 1
      /\ Len(toClient) \in Nat /\ 1 \in 1..Len(toClient) /\ toClient[1].m = "closeOk"
      /\ \A i \in 1..Len(toClient') : i + 1 \in 1..Len(toClient) /\ toClient'[i] = toClient[i + 1]
      /\ \A k : Answered(toClient', k) = Answered(toClient, k)
  BY <1>1, <1>2, ReadReplies
<1>4. \A i \in 1..Len(toServer) : toServer[i].m # "open"
  BY <1>1, <1>2 DEF Phases
<1>5. \A i \in 1..Len(toClient') : toClient'[i].m # "opened"
  <2> SUFFICES ASSUME NEW i \in 1..Len(toClient'), toClient'[i].m = "opened" PROVE FALSE
    OBVIOUS
  <2>1. i + 1 \in 1..Len(toClient) /\ toClient[i + 1].m = "opened"
    BY <1>3
  <2>2. Len(toClient) = 1
    BY <1>1, <2>1 DEF Phases
  <2> QED
    BY <1>3, <2>1, <2>2
<1>6. TypeOK'
  BY <1>1, <1>2, <1>3 DEF TypeOK
<1>7. Phases'
  BY <1>1, <1>2, <1>4, <1>5 DEF Phases
<1>8. Backed'
  BY <1>1, <1>2, <1>3 DEF Backed
<1>9. Matched'
  <2>1. ASSUME NEW k \in Kinds, losses = 0 PROVE InOrder(k)'
    BY <1>1, <1>2, <1>3, <2>1, OrderStays DEF Matched
  <2>2. ASSUME losses = 0, NEW i \in 1..Len(toClient'), toClient'[i].m = "reply"
        PROVE  toClient'[i].of \in done'
    BY <1>1, <1>2, <1>3, <2>2 DEF Matched
  <2> QED
    BY <1>2, <1>4, <2>1, <2>2 DEF Matched
<1>10. OpenMeansFlushed' /\ FulfilledMeansDoneUntilLoss'
  BY <1>2 DEF IInv, OpenMeansFlushed, FulfilledMeansDoneUntilLoss, FulfilledMeansDone
<1> QED
  BY <1>1, <1>2, <1>6, <1>7, <1>8, <1>9, <1>10, QueueStays DEF IInv

\* The connection is lost: the wires are empty, and order is promised no more.
LEMMA LinkErrorKeeps ==
  ASSUME IInv, LinkError
  PROVE  IInv'
<1>1. TypeOK /\ Phases /\ NothingSkipped /\ Backed /\ Matched
  BY DEF IInv
<1>2. /\ losses < MaxLosses /\ losses' = losses + 1 /\ link' = FALSE
      /\ state' = (IF tracked THEN "closed" ELSE state)
      /\ toServer' = <<>> /\ toClient' = <<>> /\ srv' = "closed"
      /\ UNCHANGED <<tracked, tasks, promise, pushed, sent, done>>
  BY DEF LinkError, histVars
<1>3. losses' # 0 /\ losses' \in 0..MaxLosses
  BY <1>1, <1>2, LossesAssumption DEF TypeOK
<1>4. state' = "closed" /\ Len(toServer') = 0 /\ Len(toClient') = 0
  BY <1>1, <1>2 DEF Phases
<1>5. TypeOK'
  <2>1. toServer' \in Seq(ToServer) /\ toClient' \in Seq(ToClient)
    BY <1>2
  <2> QED
    BY <1>1, <1>2, <1>3, <1>4, <2>1 DEF TypeOK
<1>6. Phases'
  BY <1>2, <1>3, <1>4 DEF Phases
<1>7. Backed'
  <2> SUFFICES ASSUME NEW k \in Kinds
               PROVE  Len(Answered(toClient', k)) + Len(Asked(toServer', k)) <= Len(Waiting(tasks', k))
    BY DEF Backed
  <2>1. Answered(toClient', k) = <<>> /\ Asked(toServer', k) = <<>> /\ tasks' = tasks
    BY <1>2, NothingIn
  <2>2. Waiting(tasks, k) \in Seq(Task)
    BY <1>1, Orders
  <2> QED
    BY <2>1, <2>2
<1>8. Matched' /\ OpenMeansFlushed' /\ FulfilledMeansDoneUntilLoss'
  BY <1>3, <1>4 DEF Matched, OpenMeansFlushed, FulfilledMeansDoneUntilLoss
<1> QED
  BY <1>1, <1>2, <1>5, <1>6, <1>7, <1>8, QueueStays DEF IInv

\* The connection is back: a tracked channel starts its handshake.
LEMMA LinkReadyKeeps ==
  ASSUME IInv, LinkReady
  PROVE  IInv'
<1>1. TypeOK /\ Phases /\ NothingSkipped /\ Backed /\ Matched
  BY DEF IInv
<1>2. /\ ~link /\ link' = TRUE /\ losses' = losses
      /\ toServer' = (IF tracked THEN <<[m |-> "open"]>> ELSE <<>>)
      /\ UNCHANGED <<state, tracked, tasks, promise, toClient, srv, pushed, sent, done>>
  BY DEF LinkReady, histVars
<1>3. toServer = <<>> /\ toClient = <<>> /\ srv = "closed" /\ state = "closed" /\ losses # 0
  BY <1>1, <1>2 DEF Phases
<1>4. toServer' \in Seq(ToServer) /\ Len(toServer') \in {0, 1} /\ Len(toClient') = 0
  <2> DEFINE o == [m |-> "open"]
  <2>1. o \in ToServer /\ (toServer' = <<o>> \/ toServer' = <<>>) /\ toClient' = <<>>
    BY <1>2, <1>3 DEF ToServer
  <2> HIDE DEF o
  <2>2. Len(toClient') = 0
    BY <2>1
  <2>3. CASE toServer' = <<o>>
    <3>1. <<o>> \in Seq(ToServer) /\ Len(<<o>>) = 1
      BY <2>1
    <3> QED
      BY <2>2, <2>3, <3>1
  <2>4. CASE toServer' = <<>>
    <3>1. <<>> \in Seq(ToServer) /\ Len(<<>>) = 0
      OBVIOUS
    <3> QED
      BY <2>2, <2>4, <3>1
  <2> QED
    BY <2>1, <2>3, <2>4
<1>5. TypeOK'
  BY <1>1, <1>2, <1>4 DEF TypeOK
<1>6. Phases'
  <2>1. CASE Len(toServer') = 0
    BY <1>2, <1>3, <1>4, <2>1 DEF Phases
  <2>2. CASE Len(toServer') = 1
    BY <1>2, <1>3, <1>4, <2>2 DEF Phases
  <2> QED
    BY <1>4, <2>1, <2>2
<1>7. Backed'
  <2> SUFFICES ASSUME NEW k \in Kinds
               PROVE  Len(Answered(toClient', k)) + Len(Asked(toServer', k)) <= Len(Waiting(tasks', k))
    BY DEF Backed
  <2> DEFINE o == [m |-> "open"]
             e == <<>>
  <2>1. e \in Seq(ToServer) /\ o \in ToServer /\ o \notin RequestsFor(k)
        /\ (toServer' = Append(e, o) \/ toServer' = e)
    BY <1>2 DEF ToServer, RequestsFor
  <2>2. Asked(e, k) = <<>>
    BY NothingIn
  <2> HIDE DEF o, e
  <2>3. Asked(toServer', k) = <<>>
    BY ZenonT(30), <2>1, <2>2, AskedAppend
  <2>4. Answered(toClient', k) = <<>> /\ tasks' = tasks
    BY <1>2, <1>3, NothingIn
  <2>5. Waiting(tasks, k) \in Seq(Task)
    BY <1>1, Orders
  <2> QED
    BY <2>3, <2>4, <2>5
<1>8. Matched' /\ OpenMeansFlushed' /\ FulfilledMeansDoneUntilLoss'
  BY <1>2, <1>3 DEF Matched, OpenMeansFlushed, FulfilledMeansDoneUntilLoss
<1> QED
  BY <1>1, <1>2, <1>5, <1>6, <1>7, <1>8, QueueStays DEF IInv

\* While the server reads anything but an open, no handshake is under way.
LEMMA NoHandshake ==
  ASSUME TypeOK, Phases, NEW m, m # "open", ServerReads(m)
  PROVE  /\ \A i \in 1..Len(toServer') : toServer'[i].m # "open"
         /\ \A i \in 1..Len(toClient) : toClient[i].m # "opened"
<1>1. /\ Len(toServer') = Len(toServer) - 1 /\ Len(toServer) \in Nat
      /\ 1 \in 1..Len(toServer) /\ toServer[1].m = m
      /\ \A i \in 1..Len(toServer') : i + 1 \in 1..Len(toServer) /\ toServer'[i] = toServer[i + 1]
  BY ReadRequests
<1>2. ASSUME NEW i \in 1..Len(toServer'), toServer'[i].m = "open" PROVE FALSE
  <2>1. i + 1 \in 1..Len(toServer) /\ toServer[i + 1].m = "open"
    BY <1>1, <1>2
  <2>2. Len(toServer) = 1
    BY <2>1 DEF Phases
  <2> QED
    BY <1>1, <1>2, <2>2
<1>3. \A i \in 1..Len(toClient) : toClient[i].m # "opened"
  BY DEF Phases, ServerReads
<1> QED
  BY <1>2, <1>3

\* The server opens the channel.
LEMMA SrvOpenKeeps ==
  ASSUME IInv, SrvOpen
  PROVE  IInv'
<1>1. TypeOK /\ Phases /\ NothingSkipped /\ Backed /\ Matched /\ tasks \in Seq(Entry)
  BY DEF IInv, TypeOK
<1>2. /\ ServerReads("open") /\ link /\ srv = "closed" /\ srv' = "open" /\ Answer("opened")
      /\ UNCHANGED <<state, tracked, tasks, promise, link, losses, pushed, sent, done>>
  BY DEF SrvOpen, ServerReads, connVars, histVars
<1>3. /\ toServer' \in Seq(ToServer) /\ Len(toServer') = Len(toServer) - 1
      /\ Len(toServer) \in Nat /\ 1 \in 1..Len(toServer) /\ toServer[1].m = "open"
      /\ \A k : Asked(toServer', k) = Asked(toServer, k)
  BY <1>1, <1>2, ReadRequests
<1>4. /\ toClient' \in Seq(ToClient) /\ Len(toClient') = Len(toClient) + 1
      /\ toClient'[Len(toClient) + 1].m = "opened"
      /\ \A k : Answered(toClient', k) = Answered(toClient, k)
  BY <1>1, <1>2, PutAnswer
<1>5. Len(toServer) = 1 /\ toClient = <<>> /\ state = "closed"
  BY <1>1, <1>3 DEF Phases
<1>6. toServer' = <<>> /\ Len(toServer') = 0 /\ Len(toClient') = 1
      /\ \A i \in 1..Len(toClient') : toClient'[i].m = "opened"
  <2>1. Len(toServer') = 0
    BY <1>3, <1>5
  <2>2. toServer' = <<>>
    BY <1>3, <2>1
  <2>3. Len(toClient) = 0
    BY <1>5
  <2> QED
    BY <1>4, <2>1, <2>2, <2>3
<1>7. TypeOK'
  BY <1>1, <1>2, <1>3, <1>4 DEF TypeOK
<1>8. Phases'
  BY <1>1, <1>2, <1>5, <1>6 DEF Phases
<1>9. Backed'
  BY <1>1, <1>2, <1>3, <1>4 DEF Backed
<1>10. Matched'
  <2> SUFFICES ASSUME losses = 0 PROVE Matched'
    BY <1>2 DEF Matched
  <2>1. \A j \in 1..Len(tasks) : ~tasks[j].sent
    BY <1>1, <1>3 DEF Matched
  <2>2. ASSUME NEW k \in Kinds PROVE InOrder(k)'
    <3>1. Filter(tasks, SentFor(k)) = <<>>
      <4>1. \A j \in 1..Len(tasks) : tasks[j] \notin SentFor(k)
        BY <2>1 DEF SentFor
      <4> QED
        BY <1>1, <4>1, FilterNone
    <3>2. Waiting(tasks, k) = <<>>
      BY <3>1 DEF Waiting, Tasks
    <3>3. Answered(toClient', k) = <<>> /\ Asked(toServer', k) = <<>>
      BY <1>4, <1>5, <1>6, NothingIn
    <3>4. <<>> \o <<>> = <<>>
      BY ConcatEmptySeq
    <3> QED
      BY <1>2, <3>2, <3>3, <3>4 DEF InOrder
  <2> QED
    BY <1>6, <2>2 DEF Matched
<1>11. OpenMeansFlushed' /\ FulfilledMeansDoneUntilLoss'
  BY <1>2 DEF IInv, OpenMeansFlushed, FulfilledMeansDoneUntilLoss, FulfilledMeansDone
<1> QED
  BY <1>1, <1>2, <1>7, <1>8, <1>9, <1>10, <1>11, QueueStays DEF IInv

\* The server carries out a request; the reply it may send takes its place.
LEMMA SrvRequestKeeps ==
  ASSUME IInv, SrvRequest
  PROVE  IInv'
<1>0. PICK t : t = Head(toServer).task
  OBVIOUS
<1>1. TypeOK /\ Phases /\ NothingSkipped /\ Backed /\ Matched
  BY DEF IInv
<1>2. /\ ServerReads("request") /\ link /\ toServer # <<>> /\ srv = "open"
      /\ done' = done \cup {t}
      /\ toClient' = IF ReplyOf[t] = NoReply THEN toClient
                     ELSE Append(toClient, [m |-> "reply", kind |-> ReplyOf[t], of |-> t])
      /\ UNCHANGED <<state, tracked, tasks, promise, link, losses, srv, pushed, sent>>
  BY <1>0 DEF SrvRequest, ServerReads, connVars
<1>3. /\ toServer' \in Seq(ToServer) /\ t \in Task
      /\ \A k : Asked(toServer, k) = IF ReplyOf[t] = k THEN <<t>> \o Asked(toServer', k)
                                                       ELSE Asked(toServer', k)
  BY <1>0, <1>1, <1>2, ReadRequests
<1>4. ReplyOf[t] # NoReply =>
        /\ toClient' \in Seq(ToClient) /\ Len(toClient') = Len(toClient) + 1
        /\ Len(toClient) \in Nat
        /\ \A i \in 1..Len(toClient) : toClient'[i] = toClient[i]
        /\ toClient'[Len(toClient) + 1].m = "reply" /\ toClient'[Len(toClient) + 1].of = t
        /\ \A k : Answered(toClient', k) = IF ReplyOf[t] = k THEN Append(Answered(toClient, k), t)
                                                             ELSE Answered(toClient, k)
  BY <1>1, <1>2, <1>3, PutReply
<1>5. /\ \A i \in 1..Len(toServer') : toServer'[i].m # "open"
      /\ \A i \in 1..Len(toClient) : toClient[i].m # "opened"
  BY <1>1, <1>2, NoHandshake
<1>6. /\ \A i \in 1..Len(toClient') : \/ i \in 1..Len(toClient) /\ toClient'[i] = toClient[i]
                                      \/ toClient'[i].m = "reply" /\ toClient'[i].of = t
      /\ toClient' \in Seq(ToClient)
  <2>1. CASE ReplyOf[t] = NoReply
    BY <1>1, <1>2, <2>1 DEF TypeOK
  <2>2. CASE ReplyOf[t] # NoReply
    BY <1>4, <2>2
  <2> QED
    BY <2>1, <2>2
<1>7. ASSUME NEW k \in Kinds
      PROVE  /\ Asked(toServer', k) \in Seq(Task) /\ Answered(toClient, k) \in Seq(Task)
             /\ \/ /\ Asked(toServer', k) = Asked(toServer, k)
                   /\ Answered(toClient', k) = Answered(toClient, k)
                \/ /\ Asked(toServer, k) = <<t>> \o Asked(toServer', k)
                   /\ Answered(toClient', k) = Append(Answered(toClient, k), t)
  <2>1. Asked(toServer', k) \in Seq(Task) /\ Answered(toClient, k) \in Seq(Task)
    BY <1>1, <1>3, AskedType, Orders
  <2>2. CASE ReplyOf[t] = NoReply
    BY <1>2, <1>3, <2>1, <2>2, KindIsReply
  <2>3. CASE ReplyOf[t] # NoReply
    BY <1>3, <1>4, <2>1, <2>3
  <2> QED
    BY <2>2, <2>3
<1>8. TypeOK'
  BY <1>1, <1>2, <1>3, <1>6 DEF TypeOK
<1>9. Phases'
  <2>1. \A i \in 1..Len(toClient') : toClient'[i].m # "opened"
    BY <1>5, <1>6
  <2> QED
    BY <1>1, <1>2, <1>5, <2>1 DEF Phases
<1>10. Backed'
  <2> SUFFICES ASSUME NEW k \in Kinds
               PROVE  Len(Answered(toClient', k)) + Len(Asked(toServer', k)) <= Len(Waiting(tasks, k))
    BY <1>2 DEF Backed
  <2> DEFINE q == Asked(toServer', k)
             r == Answered(toClient, k)
  <2>1. Len(r) + Len(Asked(toServer, k)) <= Len(Waiting(tasks, k))
    BY <1>1 DEF Backed
  <2>2. q \in Seq(Task) /\ r \in Seq(Task)
        /\ \/ Asked(toServer, k) = q /\ Answered(toClient', k) = r
           \/ Asked(toServer, k) = <<t>> \o q /\ Answered(toClient', k) = Append(r, t)
    BY <1>7
  <2> HIDE DEF q, r
  <2>3. Len(<<t>> \o q) = 1 + Len(q) /\ Len(Append(r, t)) = Len(r) + 1
        /\ Len(q) \in Nat /\ Len(r) \in Nat
    BY <1>3, <2>2
  <2>4. Waiting(tasks, k) \in Seq(Task)
    BY <1>1, Orders
  <2>5. Len(Answered(toClient', k)) + Len(q) = Len(r) + Len(Asked(toServer, k))
    BY <2>2, <2>3
  <2> QED
    BY <2>1, <2>5 DEF q
<1>11. Matched'
  <2> SUFFICES ASSUME losses = 0 PROVE Matched'
    BY <1>2 DEF Matched
  <2>1. ASSUME NEW k \in Kinds PROVE InOrder(k)'
    <3> DEFINE q == Asked(toServer', k)
               r == Answered(toClient, k)
    <3>1. Waiting(tasks, k) = r \o Asked(toServer, k)
      BY <1>1, <1>2 DEF Matched, InOrder
    <3>2. q \in Seq(Task) /\ r \in Seq(Task)
          /\ \/ Asked(toServer, k) = q /\ Answered(toClient', k) = r
             \/ Asked(toServer, k) = <<t>> \o q /\ Answered(toClient', k) = Append(r, t)
      BY <1>7
    <3> HIDE DEF q, r
    <3>3. r \o (<<t>> \o q) = Append(r, t) \o q
      BY <1>3, <3>2, MovesOver
    <3>4. Waiting(tasks, k) = Answered(toClient', k) \o q
      BY <3>1, <3>2, <3>3
    <3> QED
      BY <1>2, <3>4 DEF InOrder, q
  <2>2. \A i \in 1..Len(toClient') : toClient'[i].m = "reply" => toClient'[i].of \in done'
    BY <1>1, <1>2, <1>6 DEF Matched
  <2> QED
    BY <1>5, <2>1, <2>2 DEF Matched
<1>12. OpenMeansFlushed' /\ FulfilledMeansDoneUntilLoss'
  BY <1>2 DEF IInv, OpenMeansFlushed, FulfilledMeansDoneUntilLoss, FulfilledMeansDone
<1> QED
  BY <1>1, <1>2, <1>8, <1>9, <1>10, <1>11, <1>12, QueueStays DEF IInv

\* A request that is read and not answered only lowers the counts.
LEMMA FewerAsked ==
  ASSUME TypeOK, Backed, ServerReads("request"), tasks' = tasks,
         \A k : Answered(toClient', k) = Answered(toClient, k)
  PROVE  Backed'
<1>0. PICK t : t = Head(toServer).task
  OBVIOUS
<1>1. /\ toServer' \in Seq(ToServer) /\ t \in Task
      /\ \A k : Asked(toServer, k) = IF ReplyOf[t] = k THEN <<t>> \o Asked(toServer', k)
                                                       ELSE Asked(toServer', k)
  BY <1>0, ReadRequests
<1> SUFFICES ASSUME NEW k \in Kinds
             PROVE  Len(Answered(toClient, k)) + Len(Asked(toServer', k)) <= Len(Waiting(tasks, k))
  BY DEF Backed
<1> DEFINE q == Asked(toServer', k)
<1>2. Len(Answered(toClient, k)) + Len(Asked(toServer, k)) <= Len(Waiting(tasks, k))
  BY DEF Backed
<1>3. q \in Seq(Task) /\ (Asked(toServer, k) = q \/ Asked(toServer, k) = <<t>> \o q)
  BY <1>1, AskedType
<1>4. Len(Answered(toClient, k)) \in Nat /\ Len(Waiting(tasks, k)) \in Nat
  BY Orders
<1> HIDE DEF q
<1>5. Len(<<t>> \o q) = 1 + Len(q) /\ Len(q) \in Nat
  BY <1>1, <1>3
<1>6. Len(Answered(toClient, k)) + Len(q) <= Len(Waiting(tasks, k))
  BY <1>2, <1>3, <1>4, <1>5
<1> QED
  BY <1>6 DEF q

\* The server refuses a request: what it was asked is not answered.
LEMMA SrvRefuseKeeps ==
  ASSUME IInv, SrvRefuse
  PROVE  IInv'
<1>1. TypeOK /\ Phases /\ NothingSkipped /\ Backed /\ Matched
  BY DEF IInv
<1>2. /\ ServerReads("request") /\ link /\ srv = "open" /\ srv' = "refused" /\ Answer("close")
      /\ UNCHANGED <<state, tracked, tasks, promise, link, losses, pushed, sent, done>>
  BY DEF SrvRefuse, ServerReads, connVars, histVars
<1>3. toServer' \in Seq(ToServer)
      /\ \A k : Asked(toServer, k) = IF ReplyOf[Head(toServer).task] = k
                                       THEN <<Head(toServer).task>> \o Asked(toServer', k)
                                       ELSE Asked(toServer', k)
  BY <1>1, <1>2, ReadRequests
<1>4. /\ toClient' \in Seq(ToClient) /\ Len(toClient') = Len(toClient) + 1
      /\ Len(toClient) \in Nat
      /\ \A i \in 1..Len(toClient) : toClient'[i] = toClient[i]
      /\ toClient'[Len(toClient) + 1].m = "close"
      /\ \A k : Answered(toClient', k) = Answered(toClient, k)
  BY <1>1, <1>2, PutAnswer
<1>5. /\ \A i \in 1..Len(toServer') : toServer'[i].m # "open"
      /\ \A i \in 1..Len(toClient) : toClient[i].m # "opened"
  BY <1>1, <1>2, NoHandshake
<1>6. TypeOK'
  BY <1>1, <1>2, <1>3, <1>4 DEF TypeOK
<1>7. Phases'
  <2>1. \A i \in 1..Len(toClient') : toClient'[i].m # "opened"
    BY <1>4, <1>5
  <2> QED
    BY <1>1, <1>2, <1>5, <2>1 DEF Phases
<1>8. Backed'
  BY <1>1, <1>2, <1>4, FewerAsked
<1>9. Matched'
  <2>1. ASSUME NEW k \in Kinds, losses = 0 PROVE InOrder(k)'
    BY <1>1, <1>2, <1>4, <2>1, OrderStays DEF Matched
  <2>2. ASSUME losses = 0, NEW i \in 1..Len(toClient'), toClient'[i].m = "reply"
        PROVE  toClient'[i].of \in done'
    BY <1>1, <1>2, <1>4, <2>2 DEF Matched
  <2> QED
    BY <1>2, <1>5, <2>1, <2>2 DEF Matched
<1>10. OpenMeansFlushed' /\ FulfilledMeansDoneUntilLoss'
  BY <1>2 DEF IInv, OpenMeansFlushed, FulfilledMeansDoneUntilLoss, FulfilledMeansDone
<1> QED
  BY <1>1, <1>2, <1>6, <1>7, <1>8, <1>9, <1>10, QueueStays DEF IInv

\* The server discards a request of a channel it has refused.
LEMMA SrvDiscardKeeps ==
  ASSUME IInv, SrvDiscard
  PROVE  IInv'
<1>1. TypeOK /\ Phases /\ NothingSkipped /\ Backed /\ Matched
  BY DEF IInv
<1>2. /\ ServerReads("request") /\ link /\ srv = "refused"
      /\ UNCHANGED <<state, tracked, tasks, promise, link, losses, toClient, srv, pushed, sent, done>>
  BY DEF SrvDiscard, ServerReads, connVars, histVars
<1>3. toServer' \in Seq(ToServer)
  BY <1>1, <1>2, ReadRequests
<1>4. /\ \A i \in 1..Len(toServer') : toServer'[i].m # "open"
      /\ \A i \in 1..Len(toClient) : toClient[i].m # "opened"
  BY <1>1, <1>2, NoHandshake
<1>5. TypeOK'
  BY <1>1, <1>2, <1>3 DEF TypeOK
<1>6. Phases'
  BY <1>1, <1>2, <1>4 DEF Phases
<1>7. Backed'
  BY <1>1, <1>2, FewerAsked
<1>8. Matched'
  <2>1. ASSUME NEW k \in Kinds, losses = 0 PROVE InOrder(k)'
    BY <1>1, <1>2, <2>1 DEF Matched, InOrder
  <2> QED
    BY <1>1, <1>2, <1>4, <2>1 DEF Matched
<1>9. OpenMeansFlushed' /\ FulfilledMeansDoneUntilLoss'
  BY <1>2 DEF IInv, OpenMeansFlushed, FulfilledMeansDoneUntilLoss, FulfilledMeansDone
<1> QED
  BY <1>1, <1>2, <1>5, <1>6, <1>7, <1>8, <1>9, QueueStays DEF IInv

\* The server closes the channel as it was asked.
LEMMA SrvCloseKeeps ==
  ASSUME IInv, SrvClose
  PROVE  IInv'
<1>1. TypeOK /\ Phases /\ NothingSkipped /\ Backed /\ Matched
  BY DEF IInv
<1>2. /\ ServerReads("close") /\ link /\ srv' = (IF srv = "refused" THEN srv ELSE "closed")
      /\ Answer("closeOk")
      /\ UNCHANGED <<state, tracked, tasks, promise, link, losses, pushed, sent, done>>
  BY DEF SrvClose, ServerReads, connVars, histVars
<1>3. srv' # "open" /\ srv' \in {"closed", "refused"}
  BY <1>2
<1>4. toServer' \in Seq(ToServer) /\ \A k : Asked(toServer', k) = Asked(toServer, k)
  BY <1>1, <1>2, ReadRequests
<1>5. /\ toClient' \in Seq(ToClient) /\ Len(toClient') = Len(toClient) + 1
      /\ Len(toClient) \in Nat
      /\ \A i \in 1..Len(toClient) : toClient'[i] = toClient[i]
      /\ toClient'[Len(toClient) + 1].m = "closeOk"
      /\ \A k : Answered(toClient', k) = Answered(toClient, k)
  BY <1>1, <1>2, PutAnswer
<1>6. /\ \A i \in 1..Len(toServer') : toServer'[i].m # "open"
      /\ \A i \in 1..Len(toClient) : toClient[i].m # "opened"
  BY <1>1, <1>2, NoHandshake
<1>7. TypeOK'
  BY <1>1, <1>2, <1>3, <1>4, <1>5 DEF TypeOK
<1>8. Phases'
  <2>1. \A i \in 1..Len(toClient') : toClient'[i].m # "opened"
    BY <1>5, <1>6
  <2> QED
    BY <1>1, <1>2, <1>6, <2>1 DEF Phases
<1>9. Backed'
  BY <1>1, <1>2, <1>4, <1>5 DEF Backed
<1>10. Matched'
  <2>1. ASSUME NEW k \in Kinds, losses = 0 PROVE InOrder(k)'
    BY <1>1, <1>2, <1>3, <1>4, <1>5, <2>1, OrderStays DEF Matched
  <2>2. ASSUME losses = 0, NEW i \in 1..Len(toClient'), toClient'[i].m = "reply"
        PROVE  toClient'[i].of \in done'
    BY <1>1, <1>2, <1>5, <2>2 DEF Matched
  <2> QED
    BY <1>2, <1>6, <2>1, <2>2 DEF Matched
<1>11. OpenMeansFlushed' /\ FulfilledMeansDoneUntilLoss'
  BY <1>2 DEF IInv, OpenMeansFlushed, FulfilledMeansDoneUntilLoss, FulfilledMeansDone
<1> QED
  BY <1>1, <1>2, <1>7, <1>8, <1>9, <1>10, <1>11, QueueStays DEF IInv

\* The server learns that the client knows of the close.
LEMMA SrvCloseOkKeeps ==
  ASSUME IInv, SrvCloseOk
  PROVE  IInv'
<1>1. TypeOK /\ Phases /\ NothingSkipped /\ Backed /\ Matched
  BY DEF IInv
<1>2. /\ ServerReads("closeOk") /\ link /\ srv' = "closed"
      /\ UNCHANGED <<state, tracked, tasks, promise, link, losses, toClient, pushed, sent, done>>
  BY DEF SrvCloseOk, ServerReads, connVars, histVars
<1>3. toServer' \in Seq(ToServer) /\ \A k : Asked(toServer', k) = Asked(toServer, k)
  BY <1>1, <1>2, ReadRequests
<1>4. /\ \A i \in 1..Len(toServer') : toServer'[i].m # "open"
      /\ \A i \in 1..Len(toClient) : toClient[i].m # "opened"
  BY <1>1, <1>2, NoHandshake
<1>5. TypeOK'
  BY <1>1, <1>2, <1>3 DEF TypeOK
<1>6. Phases'
  BY <1>1, <1>2, <1>4 DEF Phases
<1>7. Backed'
  BY <1>1, <1>2, <1>3 DEF Backed
<1>8. Matched'
  <2>1. ASSUME NEW k \in Kinds, losses = 0 PROVE InOrder(k)'
    BY <1>1, <1>2, <1>3, <2>1, OrderStays DEF Matched
  <2> QED
    BY <1>1, <1>2, <1>4, <2>1 DEF Matched
<1>9. OpenMeansFlushed' /\ FulfilledMeansDoneUntilLoss'
  BY <1>2 DEF IInv, OpenMeansFlushed, FulfilledMeansDoneUntilLoss, FulfilledMeansDone
<1> QED
  BY <1>1, <1>2, <1>5, <1>6, <1>7, <1>8, <1>9, QueueStays DEF IInv

\* A step that changes nothing.
LEMMA StutterKeeps ==
  ASSUME IInv, UNCHANGED vars
  PROVE  IInv'
<1> USE DEF IInv, vars, connVars, histVars
<1>1. TypeOK' /\ Phases' /\ NothingSkipped' /\ Backed'
  BY DEF TypeOK, Phases, NothingSkipped, Backed
<1>2. Matched'
  BY DEF Matched, InOrder
<1>3. OpenMeansFlushed' /\ FulfilledMeansDoneUntilLoss'
  BY DEF OpenMeansFlushed, FulfilledMeansDoneUntilLoss, FulfilledMeansDone
<1> QED
  BY <1>1, <1>2, <1>3

-----------------------------------------------------------------------------
(* What holds of the channel *)

\* Every reachable state satisfies the inductive invariant: the queue, the wires
\* and the server account for each other through any losses and refusals.
THEOREM InductiveInvariant ==
  Spec => []IInv
<1>1. Init => IInv
  BY InitIInv
<1>2. IInv /\ [Next]_vars => IInv'
  <2> SUFFICES ASSUME IInv, [Next]_vars PROVE IInv'
    OBVIOUS
  <2>1. CASE \E t \in Task : TaskPush(t) \/ PromiseTimeout(t)
    BY <2>1, TaskPushKeeps, PromiseTimeoutKeeps
  <2>2. CASE Close \/ LinkError \/ LinkReady
    BY <2>2, CloseKeeps, LinkErrorKeeps, LinkReadyKeeps
  <2>3. CASE ClientStep
    BY <2>3, OnOpenedKeeps, OnReplyKeeps, OnChannelCloseKeeps, OnChannelCloseOkKeeps
       DEF ClientStep
  <2>4. CASE ServerStep
    BY <2>4, SrvOpenKeeps, SrvRequestKeeps, SrvRefuseKeeps, SrvDiscardKeeps, SrvCloseKeeps,
       SrvCloseOkKeeps DEF ServerStep
  <2>5. CASE UNCHANGED vars
    BY <2>5, StutterKeeps
  <2> QED
    BY <2>1, <2>2, <2>3, <2>4, <2>5 DEF Next
<1> QED
  BY <1>1, <1>2, PTL DEF Spec

\* Every variable stays in its domain; in particular the queue holds no task that
\* has been sent and expects no reply (_tasksFlush).
THEOREM TypeCorrect ==
  Spec => []TypeOK
<1>1. IInv => TypeOK
  BY DEF IInv
<1> QED
  BY <1>1, InductiveInvariant, PTL

\* An open channel has nothing left to send (_tasksFlush).
THEOREM OpenChannelIsFlushed ==
  Spec => []OpenMeansFlushed
<1>1. IInv => OpenMeansFlushed
  BY DEF IInv
<1> QED
  BY <1>1, InductiveInvariant, PTL

\* Requests are written once each, in the order of the calls, with no gap, through
\* any number of reconnections (_taskPush, _tasksFlush).
THEOREM RequestsInOrder ==
  Spec => []WrittenInOrder
<1>1. IInv => WrittenInOrder
  <2> SUFFICES ASSUME IInv PROVE WrittenInOrder
    OBVIOUS
  <2> DEFINE u == Tasks(Filter(tasks, Unsent))
  <2>1. sent \in Seq(Task) /\ tasks \in Seq(Entry) /\ pushed = sent \o u
    BY DEF IInv, TypeOK, NothingSkipped
  <2>2. Filter(tasks, Unsent) \in Seq(Entry)
    BY <2>1, FilterType
  <2>3. u \in Seq(Task)
    BY <2>2, Members, TasksOf
  <2> HIDE DEF u
  <2>4. /\ Len(pushed) = Len(sent) + Len(u) /\ Len(sent) \in Nat /\ Len(u) \in Nat
        /\ \A i \in 1..Len(sent) : pushed[i] = sent[i]
    BY <2>1, <2>3
  <2> QED
    BY <2>4 DEF WrittenInOrder
<1> QED
  BY <1>1, InductiveInvariant, PTL

\* Until a connection is lost a fulfilled promise means that the server has done
\* what was asked, although _handleTaskReply matches replies by method alone.
THEOREM FulfilledIsDone ==
  Spec => []FulfilledMeansDoneUntilLoss
<1>1. IInv => FulfilledMeansDoneUntilLoss
  BY DEF IInv
<1> QED
  BY <1>1, InductiveInvariant, PTL
================================================================================
