----------------------------- MODULE DeliveryProofs -----------------------------
(***************************************************************************)
(* Proofs about Delivery: the application is handed whole messages, each   *)
(* delivery once, and with acknowledgements none is lost, for any queues,  *)
(* messages, sizes, subscriptions and losses.                              *)
(***************************************************************************)
EXTENDS Delivery, SeqFilterProofs

-----------------------------------------------------------------------------
(* The inductive invariant *)

Deliveries == [tag : Nat, epoch : Nat, m : Messages, size : Nat, read : Nat,
               buffer : Seq(Messages \X Nat)]

FrameSet == [kind : {"deliver"}, m : Messages, tag : Nat]
              \cup [kind : {"header"}, m : Messages, size : Nat]
              \cup [kind : {"body"}, m : Messages, part : Nat]

Of(q) == ToSet(Backlog[q])

\* The variables have their types, nothing travels while the connection is down,
\* and it came up once after each loss.
Typed ==
  /\ mode \in Modes /\ link \in BOOLEAN /\ misled \in BOOLEAN /\ refused \in BOOLEAN
  /\ losses \in 0 .. MaxLosses /\ epoch = losses + (IF link THEN 1 ELSE 0) /\ epoch # 0
  /\ currentMessage \in [Queues -> Deliveries \cup {None}]
  /\ lastMessage \in [Queues -> Deliveries \cup {None}]
  /\ held \in [Queues -> SUBSET Deliveries]
  /\ heard \in [Queues -> Seq(Deliveries)]
  /\ ready \in [Queues -> Seq(Messages)]
  /\ tags \in [Queues -> Nat] /\ consuming \in [Queues -> BOOLEAN]
  /\ toClient \in [Queues -> Seq(FrameSet)]
  /\ toServer \in Seq([q : Queues, tag : Nat, kind : Settlements])
  /\ unacked = [q \in Queues |-> unacked[q]]

\* The messages of a queue stay its own, and the server numbers those it sends.
Owned ==
  \A q \in Queues :
    /\ \A i \in 1 .. Len(ready[q]) : ready[q][i] \in Of(q)
    /\ \A tag \in Unacked(q) : unacked[q][tag] \in Of(q) /\ tag \in 1 .. tags[q]
    /\ currentMessage[q] # None => currentMessage[q].read <= Size[currentMessage[q].m]

Down ==
  ~link => /\ toServer = <<>>
           /\ \A q \in Queues : toClient[q] = <<>> /\ Unacked(q) = {}

\* Frame j of wire w starts a message, if it is there; it is part k of message m.
Starts(w, j)     == j <= Len(w) => w[j].kind = "deliver"
Header(w, j, m)  == j <= Len(w) /\ w[j].kind = "header" /\ w[j].m = m
Body(w, j, m, k) == j <= Len(w) /\ w[j].kind = "body" /\ w[j].m = m /\ w[j].part = k

\* What follows part k of m, 0 for its header.
After(w, j, m, k) == IF k = Size[m] THEN Starts(w, j) ELSE Body(w, j, m, k + 1)

\* The frames of a channel are those of whole messages, one after the other, except
\* that the first of them may have been read already.
Framed(w) ==
  \A i \in 1 .. Len(w) :
    /\ w[i].kind = "deliver" => Header(w, i + 1, w[i].m)
    /\ w[i].kind = "header"  => w[i].size = Size[w[i].m] /\ After(w, i + 1, w[i].m, 0)
    /\ w[i].kind = "body"    => /\ w[i].part \in 1 .. Size[w[i].m]
                                /\ After(w, i + 1, w[i].m, w[i].part)

Parts(m, n) == [part \in 1 .. n |-> <<m, part>>]

\* What has been read of it is in the Message object.
Reading(d, w) ==
  /\ w[1].kind = "header" => d \in Deliveries /\ d.m = w[1].m /\ d.buffer = <<>>
  /\ w[1].kind = "body" => /\ d \in Deliveries /\ d.m = w[1].m /\ d.size = Size[d.m]
                           /\ d.read = w[1].part - 1 /\ d.buffer = Parts(d.m, d.read)

Assembled ==
  \A q \in Queues :
    /\ Framed(toClient[q])
    /\ \A i \in 1 .. Len(toClient[q]) : toClient[q][i].m \in Of(q)
    /\ toClient[q] # <<>> => Reading(currentMessage[q], toClient[q])

\* The first message of a wire is being read.
Amid(w) == w # <<>> /\ w[1].kind # "deliver"

\* What was heard in epoch e has lower tags.
Above(h, e, tag) == \A k \in 1 .. Len(h) : h[k].epoch = e => h[k].tag < tag

\* On a channel, with n tags given, that heard h, is reading c and has w before it.
Ascends(h, e, c, w, n) ==
  /\ \A i \in 1 .. Len(w) : w[i].kind = "deliver" => w[i].tag \in 1 .. n /\ Above(h, e, w[i].tag)
  /\ \A i \in 1 .. Len(w) : w[i].kind = "deliver" =>
       \A j \in 1 .. i - 1 : w[j].kind = "deliver" => w[j].tag < w[i].tag
  /\ Amid(w) => /\ c.epoch = e /\ c.tag \in 1 .. n /\ Above(h, e, c.tag)
                /\ \A i \in 1 .. Len(w) : w[i].kind = "deliver" => c.tag < w[i].tag

\* The tags ascend, from the messages heard to the last one sent.
Ascending ==
  \A q \in Queues :
    /\ \A k \in 1 .. Len(heard[q]) :
         /\ heard[q][k].epoch <= epoch
         /\ heard[q][k].epoch = epoch => heard[q][k].tag <= tags[q]
    /\ Ascends(heard[q], epoch, currentMessage[q], toClient[q], tags[q])

\* The message with this tag is on its way to the application.
Flying(c, w, tag) ==
  \/ Amid(w) /\ c.tag = tag
  \/ \E i \in 1 .. Len(w) : w[i].kind = "deliver" /\ w[i].tag = tag

\* Message m has been heard with this tag in epoch e.
HeardAs(h, e, tag, m) ==
  \E k \in 1 .. Len(h) : h[k].epoch = e /\ h[k].tag = tag /\ h[k].m = m

\* On a channel where the server waits for u.
Accounts(h, e, c, w, u) ==
  /\ \A tag \in DOMAIN u : Flying(c, w, tag) \/ HeardAs(h, e, tag, u[tag])
  /\ \A i \in 1 .. Len(w) : w[i].kind = "deliver" =>
       w[i].tag \in DOMAIN u /\ u[w[i].tag] = w[i].m
  /\ Amid(w) => c.tag \in DOMAIN u /\ u[c.tag] = c.m

\* Settlement s settles the tag as well.
Covers(s, tag) == tag = s.tag \/ (s.kind = "ackAll" /\ tag < s.tag)

\* Whatever the server waits for a settlement of is on its way or has been heard,
Accounted ==
  \A q \in Queues : Accounts(heard[q], epoch, currentMessage[q], toClient[q], unacked[q])

\* The settlement s of a message heard is expected, and settles none of H, held.
Expected(h, e, H, u, s) ==
  /\ s.tag \in DOMAIN u /\ HeardAs(h, e, s.tag, u[s.tag])
  /\ \A d \in H : d.epoch = e => ~Covers(s, d.tag)

\* and each settlement on its way settles what was heard and nothing settles it again.
Settled ==
  /\ \A q \in Queues : \A d \in held[q] : link /\ d.epoch = epoch => d.tag \in Unacked(q)
  /\ \A i \in 1 .. Len(toServer) :
       LET s == toServer[i]
       IN  /\ Expected(heard[s.q], epoch, held[s.q], unacked[s.q], s)
           /\ \A j \in i + 1 .. Len(toServer) : toServer[j].q = s.q => ~Covers(s, toServer[j].tag)

Holding ==
  /\ \A q \in Queues : \A d \in held[q] : \E k \in 1 .. Len(heard[q]) : heard[q][k] = d
  /\ mode.settle = "noAck" =>
       /\ ~refused /\ toServer = <<>>
       /\ \A q \in Queues : held[q] = {} /\ Unacked(q) = {}

Kept ==
  misled \/ mode.settle = "noAck" \/
    /\ ~refused /\ \A q \in Queues : consuming[q]
    /\ AtLeastOnce /\ Accounted /\ Settled

IInv == Typed /\ Owned /\ Down /\ Assembled /\ Ascending /\ Holding
          /\ HandedOverWholeOnce /\ Kept

-----------------------------------------------------------------------------
(* Sequences *)

\* A sequence without its first element.
LEMMA TailAt ==
  ASSUME NEW S, NEW w \in Seq(S), w # <<>>
  PROVE  /\ Head(w) = w[1] /\ w[1] \in S /\ Len(w) \in Nat \ {0}
         /\ Tail(w) \in Seq(S) /\ Len(Tail(w)) = Len(w) - 1
         /\ \A i \in 1 .. Len(Tail(w)) : Tail(w)[i] = w[i + 1]
OBVIOUS

\* A sequence with one element more.
LEMMA AppendAt ==
  ASSUME NEW S, NEW w \in Seq(S), NEW e \in S
  PROVE  /\ Append(w, e) \in Seq(S) /\ Len(Append(w, e)) = Len(w) + 1 /\ Len(w) \in Nat
         /\ Append(w, e)[Len(w) + 1] = e
         /\ \A i \in 1 .. Len(w) : Append(w, e)[i] = w[i]
BY AppendProperties

\* An element of a sequence.
LEMMA ElementOf ==
  ASSUME NEW S, NEW w \in Seq(S), NEW i \in 1 .. Len(w)
  PROVE  w[i] \in S
OBVIOUS

\* The elements of a sequence.
LEMMA InToSet ==
  ASSUME NEW S, NEW w \in Seq(S), NEW e
  PROVE  e \in ToSet(w) <=> \E i \in 1 .. Len(w) : w[i] = e
BY DEF ToSet

\* Two sequences joined.
LEMMA ConcatAt ==
  ASSUME NEW S, NEW u \in Seq(S), NEW v \in Seq(S)
  PROVE  /\ u \o v \in Seq(S) /\ Len(u \o v) = Len(u) + Len(v) /\ Len(u) \in Nat /\ Len(v) \in Nat
         /\ \A i \in 1 .. Len(u) : (u \o v)[i] = u[i]
         /\ \A i \in 1 .. Len(v) : (u \o v)[Len(u) + i] = v[i]
BY ConcatProperties

\* What belongs to one queue.
LEMMA TypesOf ==
  ASSUME Typed, NEW q \in Queues
  PROVE  /\ currentMessage[q] \in Deliveries \cup {None} /\ lastMessage[q] \in Deliveries \cup {None}
         /\ held[q] \in SUBSET Deliveries /\ heard[q] \in Seq(Deliveries)
         /\ ready[q] \in Seq(Messages) /\ tags[q] \in Nat /\ consuming[q] \in BOOLEAN
         /\ toClient[q] \in Seq(FrameSet) /\ Of(q) \subseteq Messages
BY DEF Typed, Messages, Of

\* The messages the server takes back stand before the others, and all of them do.
LEMMA RequeuedIs ==
  ASSUME Typed, Owned, NEW q \in Queues, NEW settled \in SUBSET Unacked(q)
  PROVE  /\ Requeued(q, settled) \in Seq(Messages)
         /\ \A i \in 1 .. Len(Requeued(q, settled)) : Requeued(q, settled)[i] \in Of(q)
         /\ \A tag \in settled : \E i \in 1 .. Len(Requeued(q, settled)) :
              Requeued(q, settled)[i] = unacked[q][tag]
         /\ \A j \in 1 .. Len(ready[q]) : \E i \in 1 .. Len(Requeued(q, settled)) :
              Requeued(q, settled)[i] = ready[q][j]
<1> DEFINE all == [tag \in 1 .. tags[q] |-> tag]
           order == Filter(all, settled)
           back == [i \in 1 .. Len(order) |-> unacked[q][order[i]]]
           rest == ready[q]
<1>1. Requeued(q, settled) = back \o rest
  BY DEF Requeued
<1>2. tags[q] \in Nat /\ rest \in Seq(Messages) /\ Of(q) \subseteq Messages
      /\ \A i \in 1 .. Len(rest) : rest[i] \in Of(q)
  BY TypesOf DEF Owned
<1>3. all \in Seq(Nat) /\ Len(all) = tags[q] /\ \A tag \in 1 .. tags[q] : all[tag] = tag
  BY <1>2
<1>4. \A tag \in settled : unacked[q][tag] \in Of(q) /\ tag \in 1 .. tags[q]
  BY DEF Owned
<1> HIDE DEF all
<1>5. order \in Seq(Nat) /\ \A i \in 1 .. Len(order) : order[i] \in settled
  BY <1>3, FilterType
<1>6. ASSUME NEW tag \in settled PROVE \E j \in 1 .. Len(order) : order[j] = tag
  <2>1. tag \in 1 .. Len(all) /\ all[tag] = tag
    BY <1>3, <1>4
  <2>2. \E j \in 1 .. Len(Filter(all, settled)) : Filter(all, settled)[j] = all[tag]
    BY <1>3, <2>1, FilterMembers
  <2> QED
    BY <2>1, <2>2
<1> HIDE DEF order
<1>7. /\ back \in Seq(Messages) /\ Len(back) = Len(order)
      /\ \A i \in 1 .. Len(order) : back[i] = unacked[q][order[i]] /\ back[i] \in Of(q)
  BY <1>2, <1>4, <1>5
<1> HIDE DEF back, rest
<1> DEFINE both == back \o rest
<1>8. /\ both \in Seq(Messages) /\ Len(both) = Len(back) + Len(rest)
      /\ Len(back) \in Nat /\ Len(rest) \in Nat
      /\ \A i \in 1 .. Len(back) : both[i] = back[i]
      /\ \A i \in 1 .. Len(rest) : both[Len(back) + i] = rest[i]
  <2>1. back \in Seq(Messages) /\ rest \in Seq(Messages)
    BY <1>2, <1>7 DEF rest
  <2> QED
    BY <2>1, ConcatProperties
<1> HIDE DEF both
<1>9. ASSUME NEW i \in 1 .. Len(both) PROVE both[i] \in Of(q)
  <2>1. CASE i \in 1 .. Len(back)
    BY <1>7, <1>8, <2>1
  <2>2. CASE i \notin 1 .. Len(back)
    <3>1. i - Len(back) \in 1 .. Len(rest) /\ Len(back) + (i - Len(back)) = i
      BY <1>8, <2>2
    <3> QED
      BY <1>2, <1>8, <3>1
  <2> QED
    BY <2>1, <2>2
<1>10. ASSUME NEW tag \in settled PROVE \E i \in 1 .. Len(both) : both[i] = unacked[q][tag]
  <2>1. PICK j \in 1 .. Len(order) : order[j] = tag
    BY <1>6
  <2>2. j \in 1 .. Len(both) /\ both[j] = unacked[q][tag]
    BY <1>7, <1>8, <2>1
  <2> QED
    BY <2>2
<1>11. ASSUME NEW j \in 1 .. Len(rest) PROVE \E i \in 1 .. Len(both) : both[i] = rest[j]
  <2>1. Len(back) + j \in 1 .. Len(both) /\ both[Len(back) + j] = rest[j]
    BY <1>8
  <2> QED
    BY <2>1
<1> QED
  BY <1>1, <1>8, <1>9, <1>10, <1>11 DEF both, rest

\* The invariant, by its parts.
LEMMA Facts ==
  ASSUME IInv
  PROVE  Typed /\ Owned /\ Down /\ Assembled /\ Ascending /\ Holding
           /\ HandedOverWhole /\ OncePerDelivery /\ Kept
BY DEF IInv, HandedOverWholeOnce

-----------------------------------------------------------------------------
(* The connection goes down *)

\* The application has heard what it had, and maybe more.
Grows ==
  \A q \in Queues : /\ Len(heard[q]) <= Len(heard'[q])
                    /\ \A k \in 1 .. Len(heard[q]) : heard'[q][k] = heard[q][k]

\* What it hears is whole, once, and of the connections there were.
HeardWell ==
  /\ heard \in [Queues -> Seq(Deliveries)]
  /\ HandedOverWhole /\ OncePerDelivery
  /\ \A q \in Queues : \A k \in 1 .. Len(heard[q]) :
       /\ heard[q][k].epoch <= epoch
       /\ heard[q][k].epoch = epoch => heard[q][k].tag <= tags[q]

\* What it has not settled it has heard.
HeldWell ==
  /\ held \in [Queues -> SUBSET Deliveries]
  /\ \A q \in Queues : \A d \in held[q] : \E k \in 1 .. Len(heard[q]) : heard[q][k] = d
  /\ mode.settle = "noAck" => \A q \in Queues : held[q] = {}

\* The Message objects.
ReadWell ==
  /\ currentMessage \in [Queues -> Deliveries \cup {None}]
  /\ lastMessage \in [Queues -> Deliveries \cup {None}]
  /\ \A q \in Queues : currentMessage[q] # None =>
       currentMessage[q].read <= Size[currentMessage[q].m]

\* The invariant of the client's part.
LEMMA ClientWell ==
  ASSUME IInv
  PROVE  HeardWell /\ HeldWell /\ ReadWell
BY Facts DEF HeardWell, HeldWell, ReadWell, Typed, Owned, Ascending, Holding

\* Nothing that was heard is forgotten.
LEMMA HeardGrows ==
  ASSUME Grows, heard \in [Queues -> Seq(Deliveries)], heard' \in [Queues -> Seq(Deliveries)],
         NEW q \in Queues, NEW m
  PROVE  /\ Heard(q, m) => Heard(q, m)'
         /\ epoch' = epoch => \A tag : HeardAs(heard[q], epoch, tag, m) => HeardAs(heard'[q], epoch', tag, m)
<1>1. Len(heard[q]) \in Nat /\ Len(heard'[q]) \in Nat
  OBVIOUS
<1>2. \A k \in 1 .. Len(heard[q]) : k \in 1 .. Len(heard'[q]) /\ heard'[q][k] = heard[q][k]
  BY <1>1 DEF Grows
<1>3. Heard(q, m) => Heard(q, m)'
  BY <1>2 DEF Heard
<1>4. ASSUME epoch' = epoch, NEW tag, HeardAs(heard[q], epoch, tag, m) PROVE HeardAs(heard'[q], epoch', tag, m)
  BY <1>2, <1>4 DEF HeardAs
<1> QED
  BY <1>3, <1>4

\* Losing the connection keeps the invariant, whatever the client did in the step.
LEMMA GoesKeeps ==
  ASSUME IInv, Goes, HeardWell', HeldWell', ReadWell', Grows
  PROVE  IInv'
<1>1. /\ link = TRUE /\ losses < MaxLosses /\ link' = FALSE /\ losses' = losses + 1
      /\ ready' = [q \in Queues |-> Requeued(q, Unacked(q))]
      /\ unacked' = [q \in Queues |-> <<>>] /\ toClient' = [q \in Queues |-> <<>>]
      /\ toServer' = <<>>
      /\ UNCHANGED <<mode, epoch, tags, consuming, requeues, misled, refused>>
  BY Facts DEF Goes, Typed
<1>2. ASSUME NEW q \in Queues
      PROVE  /\ Requeued(q, Unacked(q)) \in Seq(Messages)
             /\ \A i \in 1 .. Len(Requeued(q, Unacked(q))) : Requeued(q, Unacked(q))[i] \in Of(q)
             /\ \A tag \in Unacked(q) : \E i \in 1 .. Len(Requeued(q, Unacked(q))) :
                  Requeued(q, Unacked(q))[i] = unacked[q][tag]
             /\ \A j \in 1 .. Len(ready[q]) : \E i \in 1 .. Len(Requeued(q, Unacked(q))) :
                  Requeued(q, Unacked(q))[i] = ready[q][j]
  <2> DEFINE settled == Unacked(q)
  <2>1. Typed /\ Owned /\ settled \in SUBSET Unacked(q)
    BY Facts
  <2> HIDE DEF settled
  <2>2. /\ Requeued(q, settled) \in Seq(Messages)
        /\ \A i \in 1 .. Len(Requeued(q, settled)) : Requeued(q, settled)[i] \in Of(q)
        /\ \A tag \in settled : \E i \in 1 .. Len(Requeued(q, settled)) :
             Requeued(q, settled)[i] = unacked[q][tag]
        /\ \A j \in 1 .. Len(ready[q]) : \E i \in 1 .. Len(Requeued(q, settled)) :
             Requeued(q, settled)[i] = ready[q][j]
    BY <2>1, RequeuedIs
  <2> QED
    BY <2>2 DEF settled
<1>3. \A q \in Queues : /\ ready'[q] = Requeued(q, Unacked(q)) /\ unacked'[q] = <<>>
                        /\ toClient'[q] = <<>> /\ DOMAIN unacked'[q] = {}
  BY <1>1
<1>4. ready' \in [Queues -> Seq(Messages)]
  <2> DEFINE R(q) == Requeued(q, Unacked(q))
  <2>1. \A q \in Queues : R(q) \in Seq(Messages)
    BY <1>2
  <2>2. ready' = [q \in Queues |-> R(q)]
    BY <1>1
  <2> HIDE DEF R
  <2> QED
    BY <2>1, <2>2
<1>5. Typed'
  <2>1. losses' \in 0 .. MaxLosses /\ epoch' = losses' + 0 /\ epoch' # 0
    BY <1>1, Facts, DeliveryAssumption DEF Typed
  <2>2. toClient' \in [Queues -> Seq(FrameSet)]
    BY <1>1
  <2>3. toServer' \in Seq([q : Queues, tag : Nat, kind : Settlements])
    BY <1>1
  <2>4. unacked' = [q \in Queues |-> unacked'[q]]
    BY <1>1
  <2>5. /\ mode' \in Modes /\ link' \in BOOLEAN /\ misled' \in BOOLEAN /\ refused' \in BOOLEAN
        /\ tags' \in [Queues -> Nat] /\ consuming' \in [Queues -> BOOLEAN]
    BY <1>1, Facts DEF Typed
  <2> QED
    BY <1>1, <1>4, <2>1, <2>2, <2>3, <2>4, <2>5 DEF Typed, HeardWell, HeldWell, ReadWell
<1>6. Owned'
  BY <1>2, <1>3 DEF Owned, ReadWell, Unacked
<1>7. Down'
  BY <1>1, <1>3 DEF Down, Unacked
<1>8. \A q \in Queues : Len(toClient'[q]) = 0 /\ ~Amid(toClient'[q])
  BY <1>3 DEF Amid
<1>9. Assembled'
  BY <1>3, <1>8 DEF Assembled, Framed
<1>10. Ascending'
  BY <1>8 DEF Ascending, Ascends, HeardWell
<1>11. Holding'
  BY <1>1, <1>3, Facts DEF Holding, HeldWell, Unacked
<1>12. ASSUME AtLeastOnce PROVE AtLeastOnce'
  <2> SUFFICES ASSUME mode.settle # "noAck", NEW q \in Queues, NEW m \in ToSet(Backlog[q])
               PROVE  (Heard(q, m) \/ AtServer(q, m))'
    BY <1>1 DEF AtLeastOnce
  <2>1. Heard(q, m) \/ AtServer(q, m)
    BY <1>12 DEF AtLeastOnce
  <2>2. CASE Heard(q, m)
    BY <2>2, HeardGrows, Facts DEF HeardWell, Typed
  <2>3. CASE AtServer(q, m)
    <3> DEFINE r == Requeued(q, Unacked(q))
    <3>1. \E i \in 1 .. Len(r) : r[i] = m
      <4>1. (\E j \in 1 .. Len(ready[q]) : ready[q][j] = m) \/ \E tag \in Unacked(q) : unacked[q][tag] = m
        <5>1. ready[q] \in Seq(Messages)
          BY Facts, TypesOf
        <5> QED
          BY <2>3, <5>1 DEF AtServer, ToSet
      <4> QED
        BY <1>2, <4>1
    <3>2. r \in Seq(Messages) /\ ready'[q] = r
      BY <1>2, <1>3
    <3> HIDE DEF r
    <3>3. m \in ToSet(ready'[q])
      BY <3>1, <3>2 DEF ToSet
    <3> QED
      BY <3>3 DEF AtServer
  <2> QED
    BY <2>1, <2>2, <2>3
<1>13. Kept'
  <2>1. CASE misled \/ mode.settle = "noAck"
    BY <1>1, <2>1 DEF Kept
  <2>2. CASE ~(misled \/ mode.settle = "noAck")
    <3>1. ~refused' /\ (\A q \in Queues : consuming'[q]) /\ AtLeastOnce'
      BY <1>1, <1>12, <2>2, Facts DEF Kept
    <3>2. Accounted'
      BY <1>3, <1>8 DEF Accounted, Accounts
    <3>3. Settled'
      <4>1. Len(toServer') = 0
        BY <1>1
      <4> QED
        BY <1>1, <4>1 DEF Settled
    <3> QED
      BY <3>1, <3>2, <3>3 DEF Kept
  <2> QED
    BY <2>1, <2>2
<1> QED
  BY <1>5, <1>6, <1>7, <1>9, <1>10, <1>11, <1>13 DEF IInv, HandedOverWholeOnce, HeardWell

\* The connection is lost while the client does nothing.
LEMMA LoseKeeps ==
  ASSUME IInv, Lose
  PROVE  IInv'
<1>1. Goes /\ UNCHANGED <<currentMessage, lastMessage, held, heard>>
  BY DEF Lose, client
<1>2. UNCHANGED <<mode, epoch, tags>>
  BY <1>1 DEF Goes
<1>3. HeardWell'
  BY <1>1, <1>2, ClientWell DEF HeardWell, HandedOverWhole, OncePerDelivery
<1>4. HeldWell' /\ ReadWell'
  BY <1>1, <1>2, ClientWell DEF HeldWell, ReadWell
<1>5. Grows
  <2>1. \A q \in Queues : Len(heard[q]) \in Nat
    BY Facts DEF Typed
  <2> QED
    BY <1>1, <2>1 DEF Grows
<1> QED
  BY <1>1, <1>3, <1>4, <1>5, GoesKeeps

-----------------------------------------------------------------------------
(* The client reads a frame *)

\* What is behind the first frame of a wire,
LEMMA Shifted ==
  ASSUME NEW w \in Seq(FrameSet), w # <<>>, NEW j \in Nat \ {0}, NEW m, NEW k
  PROVE  /\ Starts(w, j + 1) => Starts(Tail(w), j)
         /\ Header(w, j + 1, m) => Header(Tail(w), j, m)
         /\ Body(w, j + 1, m, k) => Body(Tail(w), j, m, k)
         /\ After(w, j + 1, m, k) => After(Tail(w), j, m, k)
<1> DEFINE t == Tail(w)
<1>1. Len(w) \in Nat \ {0} /\ Len(t) = Len(w) - 1 /\ \A i \in 1 .. Len(t) : t[i] = w[i + 1]
  BY TailAt
<1> HIDE DEF t
<1>2. j <= Len(t) <=> j + 1 <= Len(w)
  BY <1>1
<1>3. j <= Len(t) => t[j] = w[j + 1]
  BY <1>1
<1>4. Starts(w, j + 1) => Starts(t, j)
  BY <1>2, <1>3 DEF Starts
<1>5. Header(w, j + 1, m) => Header(t, j, m)
  BY <1>2, <1>3 DEF Header
<1>6. \A i : Body(w, j + 1, m, i) => Body(t, j, m, i)
  BY <1>2, <1>3 DEF Body
<1>7. After(w, j + 1, m, k) => After(t, j, m, k)
  BY <1>4, <1>6 DEF After
<1> QED
  BY <1>4, <1>5, <1>6, <1>7 DEF t

\* which are the frames of whole messages, again.
LEMMA FramedTail ==
  ASSUME NEW w \in Seq(FrameSet), w # <<>>, Framed(w)
  PROVE  /\ Framed(Tail(w))
         /\ w[1].kind = "deliver" => Header(Tail(w), 1, w[1].m)
         /\ w[1].kind = "header"  => w[1].size = Size[w[1].m] /\ After(Tail(w), 1, w[1].m, 0)
         /\ w[1].kind = "body"    => /\ w[1].part \in 1 .. Size[w[1].m]
                                     /\ After(Tail(w), 1, w[1].m, w[1].part)
<1> DEFINE t == Tail(w)
<1>1. Len(w) \in Nat \ {0} /\ Len(t) = Len(w) - 1 /\ \A i \in 1 .. Len(t) : t[i] = w[i + 1]
  BY TailAt
<1>2. \A j \in Nat \ {0} : \A m, k : /\ Header(w, j + 1, m) => Header(t, j, m)
                                     /\ After(w, j + 1, m, k) => After(t, j, m, k)
  BY Shifted
<1> HIDE DEF t
<1>3. ASSUME NEW i \in 1 .. Len(w), NEW x, x = w[i]
      PROVE  /\ x.kind = "deliver" => Header(t, i, x.m)
             /\ x.kind = "header"  => x.size = Size[x.m] /\ After(t, i, x.m, 0)
             /\ x.kind = "body"    => x.part \in 1 .. Size[x.m] /\ After(t, i, x.m, x.part)
  <2>1. i \in Nat \ {0}
    BY <1>1
  <2> QED
    BY <1>2, <1>3, <2>1 DEF Framed
<1>4. Framed(t)
  <2> SUFFICES ASSUME NEW i \in 1 .. Len(t)
               PROVE  /\ t[i].kind = "deliver" => Header(t, i + 1, t[i].m)
                      /\ t[i].kind = "header"  => t[i].size = Size[t[i].m] /\ After(t, i + 1, t[i].m, 0)
                      /\ t[i].kind = "body"    => /\ t[i].part \in 1 .. Size[t[i].m]
                                                  /\ After(t, i + 1, t[i].m, t[i].part)
    BY DEF Framed
  <2>1. i + 1 \in 1 .. Len(w) /\ t[i] = w[i + 1]
    BY <1>1
  <2> QED
    BY <1>3, <2>1
<1>5. 1 \in 1 .. Len(w)
  BY <1>1
<1> QED
  BY <1>3, <1>4, <1>5 DEF t

\* A frame has its fields.
LEMMA FrameHas ==
  ASSUME NEW f \in FrameSet
  PROVE  /\ f.kind \in {"deliver", "header", "body"} /\ f.m \in Messages
         /\ f.kind = "deliver" => f.tag \in Nat
         /\ f.kind = "header" => f.size \in Nat
         /\ f.kind = "body" => f.part \in Nat
BY DEF FrameSet

\* The message of which the first frame on the wire is one.
AtHand(q, d) ==
  /\ d \in Deliveries /\ d.m = toClient[q][1].m /\ d.epoch = epoch
  /\ d.tag = IF Amid(toClient[q]) THEN currentMessage[q].tag ELSE toClient[q][1].tag
  /\ d.read <= Size[d.m]

\* Its tag is above those heard, and below those that follow.
LEMMA HandIsNext ==
  ASSUME IInv, NEW q \in Queues, toClient[q] # <<>>, NEW d, AtHand(q, d)
  PROVE  /\ link = TRUE /\ d.m \in Of(q) /\ d.tag \in 1 .. tags[q] /\ Above(heard[q], epoch, d.tag)
         /\ \A i \in 1 .. Len(Tail(toClient[q])) : Tail(toClient[q])[i].kind = "deliver" =>
              d.tag < Tail(toClient[q])[i].tag
         /\ ~misled /\ mode.settle # "noAck" =>
              d.tag \in Unacked(q) /\ unacked[q][d.tag] = d.m
<1> DEFINE w == toClient[q]
           t == Tail(w)
           cur == currentMessage[q]
<1>1. /\ w \in Seq(FrameSet) /\ w # <<>> /\ w[1] \in FrameSet /\ Len(w) \in Nat \ {0}
      /\ Len(t) = Len(w) - 1 /\ \A i \in 1 .. Len(t) : t[i] = w[i + 1]
  BY Facts, TypesOf, TailAt
<1>2. w[1].kind \in {"deliver", "header", "body"}
  BY <1>1, FrameHas
<1>3. /\ w[1].m \in Of(q) /\ Reading(cur, w)
      /\ \A i \in 1 .. Len(w) : w[i].kind = "deliver" =>
           /\ w[i].tag \in 1 .. tags[q] /\ Above(heard[q], epoch, w[i].tag)
           /\ \A j \in 1 .. i - 1 : w[j].kind = "deliver" => w[j].tag < w[i].tag
           /\ Amid(w) => cur.tag < w[i].tag
      /\ Amid(w) => Above(heard[q], epoch, cur.tag) /\ cur.tag \in 1 .. tags[q]
  BY <1>1, Facts DEF Assembled, Ascending, Ascends
<1>4. link = TRUE
  BY <1>1, Facts DEF Down, Typed
<1>5. d.m = w[1].m /\ d.tag = IF Amid(w) THEN cur.tag ELSE w[1].tag
  BY DEF AtHand
<1>6. ~misled /\ mode.settle # "noAck" =>
        /\ w[1].kind = "deliver" => w[1].tag \in Unacked(q) /\ unacked[q][w[1].tag] = w[1].m
        /\ Amid(w) => cur.tag \in Unacked(q) /\ unacked[q][cur.tag] = cur.m
  BY <1>1, Facts DEF Kept, Accounted, Accounts, Unacked
<1> HIDE DEF w, t, cur
<1>7. Amid(w) <=> w[1].kind # "deliver"
  BY <1>1 DEF Amid
<1>8. d.tag \in 1 .. tags[q] /\ Above(heard[q], epoch, d.tag)
  BY <1>1, <1>3, <1>5, <1>7
<1>9. ASSUME NEW i \in 1 .. Len(t), t[i].kind = "deliver" PROVE d.tag < t[i].tag
  <2>1. i + 1 \in 1 .. Len(w) /\ t[i] = w[i + 1] /\ 1 \in 1 .. (i + 1) - 1
    BY <1>1
  <2> QED
    BY <1>3, <1>5, <1>7, <1>9, <2>1
<1>10. ~misled /\ mode.settle # "noAck" => d.tag \in Unacked(q) /\ unacked[q][d.tag] = d.m
  <2>1. Amid(w) => cur.m = w[1].m
    BY <1>2, <1>3, <1>7 DEF Reading
  <2> QED
    BY <1>5, <1>6, <1>7, <2>1
<1> QED
  BY <1>3, <1>4, <1>5, <1>8, <1>9, <1>10 DEF w, t

\* A whole message is heard.
LEMMA HeardOne ==
  ASSUME IInv, NEW q \in Queues, toClient[q] # <<>>, NEW d, AtHand(q, d),
         d.buffer = Parts(d.m, Size[d.m]),
         heard' = [heard EXCEPT ![q] = Append(heard[q], d)], UNCHANGED <<epoch, tags>>
  PROVE  /\ HeardWell' /\ Grows
         /\ \A tag : HeardAs(heard'[q], epoch', tag, d.m) <=> HeardAs(heard[q], epoch, tag, d.m) \/ tag = d.tag
         /\ \A tag : Above(heard[q], epoch, tag) /\ d.tag < tag => Above(heard'[q], epoch', tag)
<1> DEFINE h == heard[q]
           g == Append(h, d)
<1>1. /\ d \in Deliveries /\ d.epoch = epoch /\ d.m \in Of(q) /\ d.tag \in 1 .. tags[q]
      /\ Above(heard[q], epoch, d.tag)
  BY HandIsNext DEF AtHand
<1>2. /\ h \in Seq(Deliveries) /\ g \in Seq(Deliveries) /\ Len(g) = Len(h) + 1 /\ Len(h) \in Nat
      /\ g[Len(h) + 1] = d /\ \A k \in 1 .. Len(h) : g[k] = h[k]
  BY <1>1, Facts, TypesOf, AppendAt
<1>3. heard \in [Queues -> Seq(Deliveries)] /\ tags[q] \in Nat /\ epoch \in Int
  BY Facts, DeliveryAssumption DEF Typed
<1> HIDE DEF g
<1>4. heard' \in [Queues -> Seq(Deliveries)] /\ heard'[q] = g
      /\ \A p \in Queues : p # q => heard'[p] = heard[p]
  BY <1>2, <1>3 DEF g
<1>5. \A k \in 1 .. Len(g) : (k \in 1 .. Len(h) /\ g[k] = h[k]) \/ (k = Len(h) + 1 /\ g[k] = d)
  BY <1>2
<1>6. HandedOverWhole'
  <2> SUFFICES ASSUME NEW p \in Queues, NEW k \in 1 .. Len(heard'[p]), NEW e, e = heard'[p][k]
               PROVE  e.m \in ToSet(Backlog[p]) /\ e.buffer = Parts(e.m, Size[e.m])
    BY DEF HandedOverWhole, Parts
  <2>1. \A j \in 1 .. Len(heard[p]) : /\ heard[p][j].m \in ToSet(Backlog[p])
                                      /\ heard[p][j].buffer = Parts(heard[p][j].m, Size[heard[p][j].m])
    BY Facts DEF HandedOverWhole, Parts
  <2>2. CASE p # q
    BY <1>4, <2>1, <2>2
  <2>3. CASE p = q
    BY <1>1, <1>4, <1>5, <2>1, <2>3 DEF Of
  <2> QED
    BY <2>2, <2>3
<1>7. OncePerDelivery'
  <2> DEFINE Before(x, y) == x.epoch < y.epoch \/ (x.epoch = y.epoch /\ x.tag < y.tag)
  <2>1. \A p \in Queues : \A i, j \in 1 .. Len(heard[p]) : i < j => Before(heard[p][i], heard[p][j])
    BY Facts DEF OncePerDelivery
  <2>2. \A k \in 1 .. Len(h) : Before(h[k], d)
    <3> SUFFICES ASSUME NEW k \in 1 .. Len(h) PROVE Before(h[k], d)
      OBVIOUS
    <3>1. h[k].epoch <= epoch /\ (h[k].epoch = epoch => h[k].tag < d.tag)
      BY <1>1, Facts DEF Above, Ascending
    <3>2. h[k] \in Deliveries
      BY <1>2
    <3>3. h[k].epoch \in Nat
      BY <3>2 DEF Deliveries
    <3> QED
      BY <1>1, <1>3, <3>1, <3>3
  <2>3. ASSUME NEW p \in Queues, NEW i \in 1 .. Len(heard'[p]), NEW j \in 1 .. Len(heard'[p]), i < j
        PROVE  Before(heard'[p][i], heard'[p][j])
    <3> HIDE DEF Before
    <3>1. CASE p # q
      BY <1>4, <2>1, <2>3, <3>1
    <3>2. CASE p = q
      <4>1. i \in 1 .. Len(h) /\ g[i] = h[i]
        BY <1>2, <1>4, <1>5, <2>3, <3>2
      <4>2. CASE j \in 1 .. Len(h) /\ g[j] = h[j]
        BY <1>4, <2>1, <2>3, <3>2, <4>1, <4>2
      <4>3. CASE g[j] = d
        BY <1>4, <2>2, <3>2, <4>1, <4>3
      <4> QED
        BY <1>4, <1>5, <3>2, <4>2, <4>3
    <3> QED
      BY <3>1, <3>2
  <2> QED
    BY <2>3 DEF OncePerDelivery
<1>8. ASSUME NEW p \in Queues, NEW k \in 1 .. Len(heard'[p])
      PROVE  /\ heard'[p][k].epoch <= epoch'
             /\ heard'[p][k].epoch = epoch' => heard'[p][k].tag <= tags'[p]
  <2>1. \A j \in 1 .. Len(heard[p]) : /\ heard[p][j].epoch <= epoch
                                      /\ heard[p][j].epoch = epoch => heard[p][j].tag <= tags[p]
    BY Facts DEF Ascending, Ascends
  <2>2. CASE p # q
    BY <1>4, <2>1, <2>2
  <2>3. CASE p = q
    BY <1>1, <1>3, <1>4, <1>5, <2>1, <2>3
  <2> QED
    BY <2>2, <2>3
<1>9. HeardWell'
  BY <1>4, <1>6, <1>7, <1>8 DEF HeardWell
<1>10. Grows
  <2>1. \A p \in Queues : Len(heard[p]) \in Nat
    BY <1>3
  <2>2. Len(h) <= Len(g) /\ \A k \in 1 .. Len(h) : g[k] = h[k]
    BY <1>2
  <2>3. ASSUME NEW p \in Queues
        PROVE  Len(heard[p]) <= Len(heard'[p]) /\ \A k \in 1 .. Len(heard[p]) : heard'[p][k] = heard[p][k]
    <3>1. CASE p = q
      BY <1>4, <2>2, <3>1
    <3>2. CASE p # q
      BY <1>4, <2>1, <3>2
    <3> QED
      BY <3>1, <3>2
  <2> QED
    BY <2>3 DEF Grows
<1>11. ASSUME NEW tag PROVE HeardAs(heard'[q], epoch', tag, d.m) <=> HeardAs(heard[q], epoch, tag, d.m) \/ tag = d.tag
  <2>1. Len(h) + 1 \in 1 .. Len(g) /\ \A k \in 1 .. Len(h) : k \in 1 .. Len(g)
    BY <1>2
  <2> QED
    BY <1>1, <1>2, <1>4, <1>5, <2>1 DEF HeardAs
<1>12. ASSUME NEW tag, Above(heard[q], epoch, tag), d.tag < tag PROVE Above(heard'[q], epoch', tag)
  BY <1>4, <1>5, <1>12 DEF Above
<1> QED
  BY <1>9, <1>10, <1>11, <1>12

\* The client has read the first frame of queue q, of the message d: the message is
\* still incomplete, or the application hears it.
Reads(q, d) ==
  /\ toClient[q] # <<>> /\ AtHand(q, d)
  /\ currentMessage' = [currentMessage EXCEPT ![q] = d]
  /\ lastMessage' \in [Queues -> Deliveries \cup {None}]

Partly(q) == Amid(Tail(toClient[q])) /\ UNCHANGED <<heard, held>>

Wholly(q, d) ==
  /\ ~Amid(Tail(toClient[q])) /\ d.buffer = Parts(d.m, Size[d.m])
  /\ heard' = [heard EXCEPT ![q] = Append(heard[q], d)]
  /\ held' = IF mode.settle = "noAck" THEN held ELSE [held EXCEPT ![q] = held[q] \cup {d}]

\* What the client keeps stays in order.
LEMMA ReadsWell ==
  ASSUME IInv, NEW q \in Queues, NEW d, Reads(q, d),
         UNCHANGED <<heard, held>> \/ Wholly(q, d), UNCHANGED <<epoch, tags, mode>>
  PROVE  HeardWell' /\ HeldWell' /\ ReadWell' /\ Grows
<1>1. /\ d \in Deliveries /\ d.read <= Size[d.m] /\ toClient[q] # <<>> /\ AtHand(q, d)
      /\ currentMessage' = [currentMessage EXCEPT ![q] = d]
      /\ lastMessage' \in [Queues -> Deliveries \cup {None}]
  BY DEF Reads, AtHand
<1>2. ReadWell'
  <2>1. currentMessage' \in [Queues -> Deliveries \cup {None}]
    BY <1>1, Facts DEF Typed
  <2>2. \A p \in Queues : currentMessage'[p] = IF p = q THEN d ELSE currentMessage[p]
    BY <1>1, Facts DEF Typed
  <2> QED
    BY <1>1, <2>1, <2>2, ClientWell DEF ReadWell
<1>3. CASE UNCHANGED <<heard, held>>
  <2>1. HeardWell'
    BY <1>3, ClientWell DEF HeardWell, HandedOverWhole, OncePerDelivery
  <2>2. HeldWell'
    BY <1>3, ClientWell DEF HeldWell
  <2>3. Grows
    <3>1. \A p \in Queues : Len(heard[p]) \in Nat
      BY Facts DEF Typed
    <3> QED
      BY <1>3, <3>1 DEF Grows
  <2> QED
    BY <1>2, <2>1, <2>2, <2>3
<1>4. CASE Wholly(q, d)
  <2>1. HeardWell' /\ Grows
    BY <1>1, <1>4, HeardOne DEF Wholly
  <2>2. held \in [Queues -> SUBSET Deliveries] /\ heard \in [Queues -> Seq(Deliveries)]
        /\ (mode.settle = "noAck" => \A p \in Queues : held[p] = {})
        /\ \A p \in Queues : \A e \in held[p] : \E k \in 1 .. Len(heard[p]) : heard[p][k] = e
    BY ClientWell DEF HeldWell, HeardWell
  <2>3. held' \in [Queues -> SUBSET Deliveries]
    BY <1>1, <1>4, <2>2 DEF Wholly
  <2>4. mode.settle = "noAck" => held' = held
    BY <1>4 DEF Wholly
  <2>5. ASSUME NEW p \in Queues, NEW e \in held'[p]
        PROVE  \E k \in 1 .. Len(heard'[p]) : heard'[p][k] = e
    <3>1. e \in held[p] \/ (p = q /\ e = d)
      BY <1>4, <2>2, <2>5 DEF Wholly
    <3>2. CASE e \in held[p]
      <4>1. PICK k \in 1 .. Len(heard[p]) : heard[p][k] = e
        BY <2>2, <3>2
      <4>2. Len(heard[p]) \in Nat /\ Len(heard'[p]) \in Int
        BY <2>1, <2>2 DEF HeardWell
      <4>3. k \in 1 .. Len(heard'[p]) /\ heard'[p][k] = e
        BY <2>1, <4>1, <4>2 DEF Grows
      <4> QED
        BY <4>3
    <3>3. CASE p = q /\ e = d
      <4> DEFINE h == heard[q]
                 g == Append(h, d)
      <4>1. h \in Seq(Deliveries) /\ heard'[q] = g
        BY <1>4, <2>2 DEF Wholly
      <4> HIDE DEF h
      <4>2. Len(h) + 1 \in 1 .. Len(g) /\ g[Len(h) + 1] = d
        BY <1>1, <4>1, AppendAt
      <4> HIDE DEF g
      <4> QED
        BY <3>3, <4>1, <4>2
    <3> QED
      BY <3>1, <3>2, <3>3
  <2>6. HeldWell'
    BY <2>2, <2>3, <2>4, <2>5 DEF HeldWell
  <2> QED
    BY <1>2, <2>1, <2>6
<1> QED
  BY <1>3, <1>4

\* The order of the tags stays, when d is the message on the wire.
LEMMA AscendsTail ==
  ASSUME NEW w \in Seq(FrameSet), w # <<>>, NEW h, NEW e, NEW c, NEW n, Ascends(h, e, c, w, n),
         NEW d, d.epoch = e, d.tag \in 1 .. n,
         \A i \in 1 .. Len(Tail(w)) : Tail(w)[i].kind = "deliver" => d.tag < Tail(w)[i].tag,
         NEW g, \A tag : Above(h, e, tag) /\ d.tag < tag => Above(g, e, tag),
         Amid(Tail(w)) => Above(g, e, d.tag)
  PROVE  Ascends(g, e, d, Tail(w), n)
<1> DEFINE t == Tail(w)
<1>1. Len(w) \in Nat /\ Len(t) = Len(w) - 1 /\ \A i \in 1 .. Len(t) : t[i] = w[i + 1]
  BY TailAt
<1> HIDE DEF t
<1>2. ASSUME NEW i \in 1 .. Len(t), t[i].kind = "deliver"
      PROVE  t[i].tag \in 1 .. n /\ Above(g, e, t[i].tag)
  <2>1. i + 1 \in 1 .. Len(w) /\ w[i + 1] = t[i]
    BY <1>1
  <2>2. t[i].tag \in 1 .. n /\ Above(h, e, t[i].tag)
    BY <1>2, <2>1 DEF Ascends
  <2> QED
    BY <1>2, <2>2 DEF t
<1>3. ASSUME NEW i \in 1 .. Len(t), t[i].kind = "deliver",
             NEW j \in 1 .. i - 1, t[j].kind = "deliver"
      PROVE  t[j].tag < t[i].tag
  <2>1. i + 1 \in 1 .. Len(w) /\ w[i + 1] = t[i] /\ j + 1 \in 1 .. (i + 1) - 1 /\ w[j + 1] = t[j]
    BY SMTT(30), <1>1
  <2> QED
    BY <1>3, <2>1 DEF Ascends
<1> QED
  BY <1>2, <1>3 DEF Ascends, t

\* What the server waits for stays accounted for, when d is heard or read further.
LEMMA AccountsTail ==
  ASSUME NEW w \in Seq(FrameSet), w # <<>>, NEW h, NEW e, NEW c, NEW u, Accounts(h, e, c, w, u),
         NEW d, d.tag = (IF Amid(w) THEN c.tag ELSE w[1].tag), d.tag \in DOMAIN u, u[d.tag] = d.m,
         NEW g, \A tag, m : HeardAs(h, e, tag, m) => HeardAs(g, e, tag, m),
         ~Amid(Tail(w)) => HeardAs(g, e, d.tag, d.m)
  PROVE  Accounts(g, e, d, Tail(w), u)
<1> DEFINE t == Tail(w)
<1>1. Len(w) \in Nat /\ Len(t) = Len(w) - 1 /\ \A i \in 1 .. Len(t) : t[i] = w[i + 1]
  BY TailAt
<1>2. ~Amid(t) => HeardAs(g, e, d.tag, d.m)
  OBVIOUS
<1> HIDE DEF t
<1>3. ASSUME NEW tag \in DOMAIN u PROVE Flying(d, t, tag) \/ HeardAs(g, e, tag, u[tag])
  <2>1. CASE d.tag = tag
    BY <1>2, <2>1 DEF Flying
  <2>2. CASE HeardAs(h, e, tag, u[tag])
    BY <2>2
  <2>3. CASE d.tag # tag /\ Flying(c, w, tag)
    <3>1. PICK i \in 1 .. Len(w) : w[i].kind = "deliver" /\ w[i].tag = tag
      BY <2>3 DEF Flying
    <3>2. i # 1
      BY <2>3, <3>1 DEF Amid
    <3>3. i - 1 \in 1 .. Len(t) /\ t[i - 1] = w[i]
      <4>1. i - 1 \in 1 .. Len(t) /\ (i - 1) + 1 = i
        BY <1>1, <3>2
      <4> QED
        BY <1>1, <4>1
    <3> QED
      BY <3>1, <3>3 DEF Flying
  <2> QED
    BY <2>1, <2>2, <2>3 DEF Accounts
<1>4. ASSUME NEW i \in 1 .. Len(t), t[i].kind = "deliver"
      PROVE  t[i].tag \in DOMAIN u /\ u[t[i].tag] = t[i].m
  <2>1. i + 1 \in 1 .. Len(w) /\ w[i + 1] = t[i]
    BY <1>1
  <2> QED
    BY <1>4, <2>1 DEF Accounts
<1> QED
  BY <1>3, <1>4 DEF Accounts, t

\* The connection stays up.
LEMMA StaysKeeps ==
  ASSUME IInv, NEW q \in Queues, NEW d, Reads(q, d), Partly(q) \/ Wholly(q, d),
         Consumed(q), Stays, Tail(toClient[q]) # <<>> => Reading(d, Tail(toClient[q]))
  PROVE  IInv'
<1> DEFINE w == toClient[q]
           t == Tail(w)
<1>1. UNCHANGED <<mode, link, epoch, ready, unacked, tags, consuming, toServer,
                  losses, requeues, misled, refused>>
  BY DEF Stays, server, past
<1>2. HeardWell' /\ HeldWell' /\ ReadWell' /\ Grows
  BY <1>1, ReadsWell DEF Partly
<1>3. /\ w \in Seq(FrameSet) /\ w # <<>> /\ t \in Seq(FrameSet) /\ Len(w) \in Nat \ {0}
      /\ Len(t) = Len(w) - 1 /\ \A i \in 1 .. Len(t) : t[i] = w[i + 1]
  BY Facts, TypesOf, TailAt DEF Reads
<1>4. /\ link = TRUE /\ d.m \in Of(q) /\ d.tag \in 1 .. tags[q] /\ Above(heard[q], epoch, d.tag)
      /\ \A i \in 1 .. Len(t) : t[i].kind = "deliver" => d.tag < t[i].tag
      /\ ~misled /\ mode.settle # "noAck" => d.tag \in Unacked(q) /\ unacked[q][d.tag] = d.m
  BY HandIsNext DEF Reads
<1>5. Framed(t)
  BY <1>3, Facts, FramedTail DEF Assembled
<1>6. AtHand(q, d) /\ d \in Deliveries /\ d.epoch = epoch
  BY DEF Reads, AtHand
<1>7. /\ currentMessage'[q] = d
      /\ \A p \in Queues : p # q => currentMessage'[p] = currentMessage[p]
  BY Facts DEF Reads, Typed
<1>8. /\ toClient' \in [Queues -> Seq(FrameSet)] /\ toClient'[q] = t
      /\ \A p \in Queues : p # q => toClient'[p] = toClient[p]
  BY <1>3, Facts DEF Consumed, Typed
<1>9. t # <<>> => Reading(d, t)
  OBVIOUS
<1>10. Amid(t) => UNCHANGED <<heard, held>>
  BY DEF Partly, Wholly
<1>11. \A i \in 1 .. Len(t) : t[i].m \in Of(q)
  BY <1>3, Facts DEF Assembled
<1>12. \A i \in 1 .. Len(t) : t[i].kind = "deliver" => w[i + 1].kind = "deliver" /\ i + 1 \in 1 .. Len(w)
  BY <1>3
<1> HIDE DEF t
<1>13. Typed'
  BY <1>1, <1>2, <1>8, Facts DEF Typed, HeardWell, HeldWell, ReadWell
<1>14. Owned'
  BY <1>1, <1>2, Facts DEF Owned, ReadWell, Unacked
<1>15. Down'
  BY <1>1, <1>4 DEF Down
<1>16. Assembled'
  <2> SUFFICES ASSUME NEW p \in Queues
               PROVE  /\ Framed(toClient'[p])
                      /\ \A i \in 1 .. Len(toClient'[p]) : toClient'[p][i].m \in Of(p)
                      /\ toClient'[p] # <<>> => Reading(currentMessage'[p], toClient'[p])
    BY DEF Assembled
  <2>1. CASE p = q
    BY <1>5, <1>7, <1>8, <1>9, <1>11, <2>1
  <2>2. CASE p # q
    BY <1>7, <1>8, <2>2, Facts DEF Assembled
  <2> QED
    BY <2>1, <2>2
\* What is above what was heard stays so, when it comes after d.
<1>17. ASSUME NEW p \in Queues, NEW tag, Above(heard[p], epoch, tag), p = q => d.tag < tag \/ UNCHANGED heard
       PROVE  Above(heard'[p], epoch', tag)
  <2>1. CASE UNCHANGED heard
    BY <1>1, <1>17, <2>1 DEF Above
  <2>2. CASE ~UNCHANGED heard
    <3>1. Wholly(q, d)
      BY <2>2 DEF Partly
    <3>2. CASE p = q
      BY <1>1, <1>17, <2>2, <3>1, <3>2, HeardOne DEF Wholly, Reads
    <3>3. CASE p # q
      <4>1. heard'[p] = heard[p]
        BY <3>1, <3>3, Facts DEF Wholly, Typed
      <4> QED
        BY <1>1, <1>17, <4>1 DEF Above
    <3> QED
      BY <3>2, <3>3
  <2> QED
    BY <2>1, <2>2
<1>18. Ascending'
  <2> SUFFICES ASSUME NEW p \in Queues
               PROVE  Ascends(heard'[p], epoch', currentMessage'[p], toClient'[p], tags'[p])
    BY <1>2 DEF Ascending, HeardWell
  <2>1. Ascends(heard[p], epoch, currentMessage[p], toClient[p], tags[p])
    BY Facts DEF Ascending
  <2>2. CASE p = q
    <3>1. \A tag : Above(heard[q], epoch, tag) /\ d.tag < tag => Above(heard'[q], epoch, tag)
      BY <1>1, <1>17
    <3>2. Amid(t) => Above(heard'[q], epoch, d.tag)
      BY <1>1, <1>4, <1>10, <1>17
    <3>3. Ascends(heard'[q], epoch, d, t, tags[q])
      BY <1>3, <1>4, <1>6, <2>1, <2>2, <3>1, <3>2, AscendsTail DEF t
    <3> QED
      BY <1>1, <1>7, <1>8, <2>2, <3>3
  <2>3. CASE p # q
    <3>1. \A tag : Above(heard[p], epoch, tag) => Above(heard'[p], epoch', tag)
      BY <1>17, <2>3
    <3>2. Ascends(heard'[p], epoch, currentMessage[p], toClient[p], tags[p])
      BY <1>1, <2>1, <3>1 DEF Ascends
    <3> QED
      BY <1>1, <1>7, <1>8, <2>3, <3>2
  <2> QED
    BY <2>2, <2>3
<1>19. Holding'
  BY <1>1, <1>2, Facts DEF Holding, HeldWell, Unacked
<1>20. Kept'
  <2>1. CASE misled \/ mode.settle = "noAck"
    BY <1>1, <2>1 DEF Kept
  <2>2. CASE ~(misled \/ mode.settle = "noAck")
    <3>1. ~refused' /\ (\A p \in Queues : consuming'[p]) /\ AtLeastOnce /\ Accounted /\ Settled
      BY <1>1, <2>2, Facts DEF Kept
    <3>2. heard \in [Queues -> Seq(Deliveries)] /\ heard' \in [Queues -> Seq(Deliveries)]
      BY <1>2, Facts DEF Typed, HeardWell
    <3>3. AtLeastOnce'
      <4>1. \A p \in Queues : \A m : Heard(p, m) => Heard(p, m)'
        BY <1>2, <3>2, HeardGrows
      <4>2. \A p \in Queues : \A m : AtServer(p, m) => AtServer(p, m)'
        BY <1>1 DEF AtServer, Unacked
      <4> QED
        BY <1>1, <3>1, <4>1, <4>2 DEF AtLeastOnce
    <3>4. \A p \in Queues : \A m, tag : HeardAs(heard[p], epoch, tag, m) => HeardAs(heard'[p], epoch', tag, m)
      BY <1>1, <1>2, <3>2, HeardGrows
    <3>5. \A p \in Queues : Unacked(p)' = Unacked(p)
      BY <1>1 DEF Unacked
    <3>6. d.tag \in Unacked(q) /\ unacked[q][d.tag] = d.m
      BY <1>4, <2>2
    <3>7. ~Amid(t) => HeardAs(heard'[q], epoch', d.tag, d.m)
      <4> SUFFICES ASSUME ~Amid(t) PROVE HeardAs(heard'[q], epoch', d.tag, d.m)
        OBVIOUS
      <4>1. Wholly(q, d)
        BY DEF Partly, t
      <4> QED
        BY <1>1, <4>1, HeardOne DEF Wholly, Reads
    <3>9. Accounted'
      <4> SUFFICES ASSUME NEW p \in Queues
                   PROVE  Accounts(heard'[p], epoch', currentMessage'[p], toClient'[p], unacked'[p])
        BY DEF Accounted
      <4>1. Accounts(heard[p], epoch, currentMessage[p], toClient[p], unacked[p])
        BY <3>1 DEF Accounted
      <4>2. CASE p = q
        <5>1. d.tag = IF Amid(w) THEN currentMessage[q].tag ELSE w[1].tag
          BY <1>6 DEF AtHand
        <5>2. Accounts(heard'[q], epoch, d, t, unacked[q])
          <6>1. \A tag, m : HeardAs(heard[q], epoch, tag, m) => HeardAs(heard'[q], epoch, tag, m)
            BY <1>1, <3>4
          <6>2. d.tag \in DOMAIN unacked[q] /\ unacked[q][d.tag] = d.m
            BY <3>6 DEF Unacked
          <6> QED
            BY <1>1, <1>3, <3>7, <4>1, <4>2, <5>1, <6>1, <6>2, AccountsTail DEF t
        <5> QED
          BY <1>1, <1>7, <1>8, <4>2, <5>2
      <4>3. CASE p # q
        <5>1. \A tag, m : HeardAs(heard[p], epoch, tag, m) => HeardAs(heard'[p], epoch, tag, m)
          BY <1>1, <3>4
        <5>2. Accounts(heard'[p], epoch, currentMessage[p], toClient[p], unacked[p])
          BY <4>1, <5>1 DEF Accounts
        <5> QED
          BY <1>1, <1>7, <1>8, <4>3, <5>2
      <4> QED
        BY <4>2, <4>3
    <3>10. \A p \in Queues : \A e \in held'[p] : e \in held[p] \/ (p = q /\ e = d)
      BY Facts DEF Partly, Wholly, Typed
    <3>11. Settled'
      <4>1. ASSUME NEW p \in Queues, NEW e \in held'[p], link' /\ e.epoch = epoch'
            PROVE  e.tag \in Unacked(p)'
        BY <1>1, <3>1, <3>5, <3>6, <3>10, <4>1 DEF Settled
      <4>2. ASSUME NEW i \in 1 .. Len(toServer'), NEW s, s = toServer'[i]
            PROVE  /\ Expected(heard'[s.q], epoch', held'[s.q], unacked'[s.q], s)
                   /\ \A j \in i + 1 .. Len(toServer') : toServer'[j].q = s.q => ~Covers(s, toServer'[j].tag)
        <5>0. i \in 1 .. Len(toServer) /\ s = toServer[i]
          BY <1>1, <4>2
        <5>1. s.q \in Queues
          <6>1. \A x \in [q : Queues, tag : Nat, kind : Settlements] : x.q \in Queues
            OBVIOUS
          <6>2. s \in [q : Queues, tag : Nat, kind : Settlements]
            BY <5>0, Facts, ElementOf DEF Typed
          <6> QED
            BY <6>1, <6>2
        <5>2. /\ Expected(heard[s.q], epoch, held[s.q], unacked[s.q], s)
              /\ \A j \in i + 1 .. Len(toServer) : toServer[j].q = s.q => ~Covers(s, toServer[j].tag)
          BY <3>1, <5>0 DEF Settled
        <5>3. s.q = q => ~Covers(s, d.tag)
          <6> SUFFICES ASSUME s.q = q PROVE ~Covers(s, d.tag)
            OBVIOUS
          <6>1. PICK k \in 1 .. Len(heard[q]) : heard[q][k].epoch = epoch /\ heard[q][k].tag = s.tag
            BY <5>2 DEF HeardAs, Expected
          <6>2. s.tag < d.tag
            BY <1>4, <6>1 DEF Above
          <6>3. s.tag \in Int /\ d.tag \in Int
            <7>1. s.tag \in 1 .. tags[q]
              BY <5>2, Facts DEF Owned, Expected, Unacked
            <7> QED
              BY <1>4, <7>1
          <6> QED
            BY <6>2, <6>3 DEF Covers
        <5>4. Expected(heard'[s.q], epoch', held'[s.q], unacked'[s.q], s)
          <6>1. HeardAs(heard'[s.q], epoch', s.tag, unacked[s.q][s.tag])
            BY <3>4, <5>1, <5>2 DEF Expected
          <6>2. \A e \in held'[s.q] : e.epoch = epoch => ~Covers(s, e.tag)
            BY <3>10, <5>1, <5>2, <5>3 DEF Expected
          <6> QED
            BY <1>1, <5>2, <6>1, <6>2 DEF Expected
        <5> QED
          BY <1>1, <5>2, <5>4
      <4> QED
        BY <4>1, <4>2 DEF Settled
    <3> QED
      BY <3>1, <3>3, <3>9, <3>11 DEF Kept
  <2> QED
    BY <2>1, <2>2
<1> QED
  BY <1>2, <1>13, <1>14, <1>15, <1>16, <1>18, <1>19, <1>20 DEF IInv, HandedOverWholeOnce, HeardWell

\* A whole message is heard, or the listener throws on it.
LEMMA EndKeeps ==
  ASSUME IInv, NEW q \in Queues, NEW d, Reads(q, d), ~Amid(Tail(toClient[q])),
         d.buffer = Parts(d.m, Size[d.m]), End(q, d)
  PROVE  IInv'
<1>1. CASE heard' = [heard EXCEPT ![q] = Append(heard[q], d)]
           /\ held' = (IF mode.settle = "noAck" THEN held ELSE [held EXCEPT ![q] = held[q] \cup {d}])
  <2>1. Wholly(q, d)
    BY <1>1 DEF Wholly
  <2>2. CASE Consumed(q) /\ Stays
    <3> DEFINE t == Tail(toClient[q])
    <3>1. t # <<>> => Reading(d, t)
      BY DEF Amid, Reading
    <3> QED
      BY <2>1, <2>2, <3>1, StaysKeeps
  <2>3. CASE Goes
    <3>1. UNCHANGED <<epoch, tags, mode>>
      BY <2>3 DEF Goes
    <3>2. HeardWell' /\ HeldWell' /\ ReadWell' /\ Grows
      BY <2>1, <3>1, ReadsWell
    <3> QED
      BY <2>3, <3>2, GoesKeeps
  <2> QED
    BY <1>1, <2>2, <2>3 DEF End, Goes
<1>2. CASE Goes /\ UNCHANGED <<heard, held>>
  <2>1. UNCHANGED <<epoch, tags, mode>>
    BY <1>2 DEF Goes
  <2>2. HeardWell' /\ HeldWell' /\ ReadWell' /\ Grows
    BY <1>2, <2>1, ReadsWell
  <2> QED
    BY <1>2, <2>2, GoesKeeps
<1> QED
  BY <1>1, <1>2 DEF End

\* The first parts of a message.
LEMMA PartsGrow ==
  ASSUME NEW m \in Messages, NEW n \in Nat
  PROVE  /\ Parts(m, n) \in Seq(Messages \X Nat) /\ Parts(m, 0) = <<>>
         /\ Append(Parts(m, n), <<m, n + 1>>) = Parts(m, n + 1)
<1> DEFINE S == Messages \X Nat
           p == Parts(m, n)
           r == Parts(m, n + 1)
           e == <<m, n + 1>>
<1>1. p \in Seq(S) /\ Len(p) = n /\ r \in Seq(S) /\ Len(r) = n + 1 /\ e \in S /\ r[n + 1] = e
      /\ \A k \in 1 .. n : r[k] = p[k]
  BY DEF Parts
<1>2. Parts(m, 0) = <<>>
  BY DEF Parts
<1> HIDE DEF p, r, e, S
<1>3. /\ Append(p, e) \in Seq(S) /\ Len(Append(p, e)) = n + 1 /\ Append(p, e)[n + 1] = e
      /\ \A k \in 1 .. n : Append(p, e)[k] = p[k]
  BY <1>1, AppendAt
<1>4. \A k \in 1 .. n + 1 : Append(p, e)[k] = r[k]
  BY <1>1, <1>3
<1>5. Append(p, e) = r
  BY <1>1, <1>3, <1>4, SeqEqual
<1> QED
  BY <1>1, <1>2, <1>5 DEF p, r, e, S

\* The frame at the head of a channel.
LEMMA HeadIs ==
  ASSUME IInv, NEW q \in Queues, toClient[q] # <<>>, NEW w, w = toClient[q], NEW t, t = Tail(w)
  PROVE  /\ Head(w) = w[1] /\ w[1] \in FrameSet /\ w[1].m \in Of(q) /\ w[1].m \in Messages
         /\ Size[w[1].m] \in Nat
         /\ Reading(currentMessage[q], w)
         /\ Amid(w) => currentMessage[q].epoch = epoch
         /\ Amid(w) <=> w[1].kind # "deliver"
         /\ w[1].kind = "deliver" => Header(t, 1, w[1].m)
         /\ w[1].kind = "header"  => w[1].size = Size[w[1].m] /\ After(t, 1, w[1].m, 0)
         /\ w[1].kind = "body"    => w[1].part \in 1 .. Size[w[1].m] /\ After(t, 1, w[1].m, w[1].part)
         /\ \A m, k : Header(t, 1, m) \/ Body(t, 1, m, k) => t # <<>>
         /\ Len(t) \in Nat /\ link = TRUE /\ epoch \in Nat
<1>1. w \in Seq(FrameSet) /\ Of(q) \subseteq Messages
  BY Facts, TypesOf
<1>2. Framed(w) /\ Reading(currentMessage[q], w) /\ \A i \in 1 .. Len(w) : w[i].m \in Of(q)
  BY Facts DEF Assembled
<1>3. Ascends(heard[q], epoch, currentMessage[q], w, tags[q])
  BY Facts DEF Ascending
<1>4. Head(w) = w[1] /\ w[1] \in FrameSet /\ Len(w) \in Nat \ {0} /\ t \in Seq(FrameSet)
  BY <1>1, TailAt
<1>5. link = TRUE /\ epoch \in Nat
  <2>1. link = TRUE
    BY Facts DEF Down, Typed
  <2>2. losses \in Nat /\ epoch = losses + 1
    BY <2>1, Facts, DeliveryAssumption DEF Typed
  <2> QED
    BY <2>1, <2>2
<1>6. Size[w[1].m] \in Nat
  BY <1>1, <1>2, <1>4, DeliveryAssumption
<1>7. Len(t) \in Nat
  BY <1>4
<1>8. /\ w[1].kind = "deliver" => Header(t, 1, w[1].m)
      /\ w[1].kind = "header"  => w[1].size = Size[w[1].m] /\ After(t, 1, w[1].m, 0)
      /\ w[1].kind = "body"    => w[1].part \in 1 .. Size[w[1].m] /\ After(t, 1, w[1].m, w[1].part)
  BY <1>1, <1>2, FramedTail
<1>9. ASSUME NEW m, NEW k, Header(t, 1, m) \/ Body(t, 1, m, k) PROVE t # <<>>
  <2>1. Len(t) # 0
    BY <1>7, <1>9 DEF Header, Body
  <2> QED
    BY <2>1
<1>10. w[1].m \in Of(q) /\ w[1].m \in Messages
  BY <1>1, <1>2, <1>4
<1>11. Amid(w) => currentMessage[q].epoch = epoch
  BY <1>3 DEF Ascends
<1>12. Amid(w) <=> w[1].kind # "deliver"
  BY DEF Amid
<1> QED
  BY <1>2, <1>4, <1>5, <1>6, <1>7, <1>8, <1>9, <1>10, <1>11, <1>12

\* A new Message object.
LEMMA OnBasicDeliverKeeps ==
  ASSUME IInv, NEW q \in Queues, OnBasicDeliver(q)
  PROVE  IInv'
<1> DEFINE w == toClient[q]
           t == Tail(w)
           d == [tag |-> w[1].tag, epoch |-> epoch, m |-> w[1].m, size |-> 0, read |-> 0,
                 buffer |-> <<>>]
<1>1. toClient[q] # <<>>
  BY DEF OnBasicDeliver, Arrives
<1>2. /\ Head(w) = w[1] /\ w[1] \in FrameSet /\ w[1].m \in Messages /\ Size[w[1].m] \in Nat
      /\ (Amid(w) <=> w[1].kind # "deliver")
      /\ (w[1].kind = "deliver" => Header(t, 1, w[1].m)) /\ Len(t) \in Nat /\ epoch \in Nat
      /\ (Header(t, 1, w[1].m) => t # <<>>)
  BY <1>1, HeadIs
<1>3. /\ w[1].kind = "deliver" /\ Consumed(q) /\ Stays
      /\ currentMessage' = [currentMessage EXCEPT ![q] = d] /\ UNCHANGED <<lastMessage, held, heard>>
  BY <1>2 DEF OnBasicDeliver, Arrives
<1>4. w[1].tag \in Nat
  BY <1>2, <1>3, FrameHas
<1>5. d \in Deliveries
  BY <1>2, <1>4 DEF Deliveries
<1>6. AtHand(q, d)
  BY <1>2, <1>3, <1>5 DEF AtHand
<1>7. Reads(q, d)
  <2>1. lastMessage' \in [Queues -> Deliveries \cup {None}]
    BY <1>3, Facts DEF Typed
  <2> QED
    BY <1>1, <1>3, <1>6, <2>1 DEF Reads
<1>8. t # <<>> /\ t[1].kind = "header" /\ t[1].m = d.m
  BY <1>2, <1>3 DEF Header
<1>9. Partly(q) /\ Reading(d, t)
  BY <1>3, <1>5, <1>8 DEF Partly, Amid, Reading
<1> QED
  <2> HIDE DEF d
  <2> QED
    BY <1>3, <1>7, <1>9, StaysKeeps

\* The header of the message.
LEMMA OnContentHeaderKeeps ==
  ASSUME IInv, NEW q \in Queues, OnContentHeader(q)
  PROVE  IInv'
<1> DEFINE w == toClient[q]
           t == Tail(w)
           cur == currentMessage[q]
           d == [cur EXCEPT !.size = w[1].size, !.read = 0]
<1>1. toClient[q] # <<>>
  BY DEF OnContentHeader, Arrives
<1>2. /\ Head(w) = w[1] /\ w[1] \in FrameSet /\ w[1].m \in Messages /\ Size[w[1].m] \in Nat
      /\ Reading(cur, w) /\ (Amid(w) => cur.epoch = epoch)
      /\ (Amid(w) <=> w[1].kind # "deliver")
      /\ (w[1].kind = "header" => w[1].size = Size[w[1].m] /\ After(t, 1, w[1].m, 0))
      /\ Len(t) \in Nat /\ (Body(t, 1, w[1].m, 1) => t # <<>>)
  BY <1>1, HeadIs
<1>3. /\ w[1].kind = "header"
      /\ currentMessage' = [currentMessage EXCEPT ![q] = d]
      /\ lastMessage' = [lastMessage EXCEPT ![q] = d]
      /\ IF w[1].size = 0 THEN End(q, d) ELSE Consumed(q) /\ Stays /\ UNCHANGED <<held, heard>>
  BY <1>2 DEF OnContentHeader, Arrives
<1>4. cur \in Deliveries /\ cur.m = w[1].m /\ cur.buffer = <<>> /\ cur.epoch = epoch
  BY <1>2, <1>3 DEF Reading
<1>5. /\ d \in Deliveries /\ d.m = w[1].m /\ d.buffer = <<>> /\ d.epoch = epoch /\ d.tag = cur.tag
      /\ d.read = 0 /\ d.size = Size[w[1].m]
  BY <1>2, <1>3, <1>4 DEF Deliveries
<1> HIDE DEF d
<1>6. AtHand(q, d)
  BY <1>2, <1>3, <1>5 DEF AtHand
<1>7. Reads(q, d)
  <2>1. lastMessage' \in [Queues -> Deliveries \cup {None}]
    BY <1>3, <1>5, Facts DEF Typed
  <2> QED
    BY <1>1, <1>3, <1>6, <2>1 DEF Reads
<1>8. Parts(d.m, 0) = <<>>
  BY <1>2, <1>5, PartsGrow
<1>9. CASE Size[w[1].m] = 0
  <2>1. ~Amid(t)
    BY <1>2, <1>3, <1>9 DEF After, Starts, Amid
  <2>2. End(q, d)
    BY <1>2, <1>3, <1>9
  <2> QED
    BY <1>5, <1>7, <1>8, <1>9, <2>1, <2>2, EndKeeps
<1>10. CASE Size[w[1].m] # 0
  <2>1. Body(t, 1, w[1].m, 1)
    BY <1>2, <1>3, <1>10 DEF After
  <2>2. t # <<>> /\ t[1].kind = "body" /\ t[1].m = d.m /\ t[1].part = 1
    BY <1>2, <1>5, <2>1 DEF Body
  <2>3. Partly(q) /\ Reading(d, t)
    BY <1>2, <1>3, <1>5, <1>8, <1>10, <2>2 DEF Partly, Amid, Reading
  <2> QED
    BY <1>2, <1>3, <1>7, <1>10, <2>3, StaysKeeps
<1> QED
  BY <1>9, <1>10

\* A part of its body.
LEMMA OnContentKeeps ==
  ASSUME IInv, NEW q \in Queues, OnContent(q)
  PROVE  IInv'
<1> DEFINE w == toClient[q]
           t == Tail(w)
           cur == currentMessage[q]
           d == [cur EXCEPT !.read = cur.read + 1, !.buffer = Append(cur.buffer, <<w[1].m, w[1].part>>)]
           k == w[1].part
           n == Size[w[1].m]
<1>1. toClient[q] # <<>>
  BY DEF OnContent, Arrives
<1>2. /\ Head(w) = w[1] /\ w[1] \in FrameSet /\ w[1].m \in Messages /\ n \in Nat
      /\ Reading(cur, w) /\ (Amid(w) => cur.epoch = epoch)
      /\ (Amid(w) <=> w[1].kind # "deliver")
      /\ (w[1].kind = "body" => k \in 1 .. n /\ After(t, 1, w[1].m, k))
      /\ Len(t) \in Nat /\ (Body(t, 1, w[1].m, k + 1) => t # <<>>)
  BY <1>1, HeadIs
<1>3. /\ w[1].kind = "body"
      /\ currentMessage' = [currentMessage EXCEPT ![q] = d]
      /\ UNCHANGED lastMessage
      /\ IF Complete(d) THEN End(q, d) ELSE Consumed(q) /\ Stays /\ UNCHANGED <<held, heard>>
  BY <1>2 DEF OnContent, Arrives
<1>4. /\ cur \in Deliveries /\ cur.m = w[1].m /\ cur.size = n /\ cur.read = k - 1
      /\ cur.buffer = Parts(w[1].m, k - 1) /\ cur.epoch = epoch
  BY <1>2, <1>3 DEF Reading
<1>5. /\ d.m = w[1].m /\ d.epoch = epoch /\ d.tag = cur.tag /\ d.read = k /\ d.size = n
      /\ d.buffer = Parts(w[1].m, k) /\ d \in Deliveries
  <2>1. k \in 1 .. n /\ k - 1 \in Nat /\ (k - 1) + 1 = k /\ k \in Nat
    BY <1>2, <1>3
  <2>2. Append(Parts(w[1].m, k - 1), <<w[1].m, k>>) = Parts(w[1].m, k)
        /\ Parts(w[1].m, k) \in Seq(Messages \X Nat)
    BY <1>2, <2>1, PartsGrow
  <2> DEFINE b == Append(cur.buffer, <<w[1].m, w[1].part>>)
             r == cur.read + 1
  <2>3. b = Parts(w[1].m, k) /\ b \in Seq(Messages \X Nat) /\ r = k
    BY <1>4, <2>1, <2>2
  <2> HIDE DEF b, r
  <2>4. d = [cur EXCEPT !.read = r, !.buffer = b]
    BY DEF b, r
  <2> HIDE DEF d
  <2> QED
    BY <1>4, <2>1, <2>3, <2>4 DEF Deliveries
<1> HIDE DEF d
<1>6. AtHand(q, d)
  BY <1>2, <1>3, <1>5 DEF AtHand
<1>7. Reads(q, d)
  BY <1>1, <1>3, <1>6, Facts DEF Reads, Typed
<1>8. Complete(d) <=> k = n
  BY <1>5 DEF Complete
<1>9. CASE k = n
  <2>1. ~Amid(t)
    BY <1>2, <1>3, <1>9 DEF After, Starts, Amid
  <2>2. End(q, d)
    BY <1>3, <1>8, <1>9
  <2> QED
    BY <1>5, <1>7, <1>9, <2>1, <2>2, EndKeeps
<1>10. CASE k # n
  <2>1. Body(t, 1, w[1].m, k + 1)
    BY <1>2, <1>3, <1>10 DEF After
  <2>2. t # <<>> /\ t[1].kind = "body" /\ t[1].m = d.m /\ t[1].part = k + 1
    BY <1>2, <1>5, <2>1 DEF Body
  <2>3. d.read = t[1].part - 1
    BY <1>2, <1>3, <1>5, <2>2
  <2>4. Partly(q) /\ Reading(d, t)
    BY <1>3, <1>5, <1>8, <1>10, <2>2, <2>3 DEF Partly, Amid, Reading
  <2> QED
    BY <1>3, <1>7, <1>8, <1>10, <2>4, StaysKeeps
<1> QED
  BY <1>9, <1>10

-----------------------------------------------------------------------------
(* The server sends a message *)

\* The frames of a message.
LEMMA FramesAre ==
  ASSUME NEW m \in Messages, NEW n \in Nat, NEW f, f = Frames(m, n)
  PROVE  /\ f \in Seq(FrameSet) /\ Len(f) = 2 + Size[m] /\ Size[m] \in Nat
         /\ f[1].kind = "deliver" /\ f[1].tag = n
         /\ f[2].kind = "header" /\ f[2].size = Size[m]
         /\ \A i \in 3 .. Len(f) : f[i].kind = "body" /\ f[i].part = i - 2
         /\ \A i \in 1 .. Len(f) : f[i].m = m
<1> DEFINE F1 == [kind |-> "deliver", m |-> m, tag |-> n]
           F2 == [kind |-> "header", m |-> m, size |-> Size[m]]
           z == Size[m]
           u == <<F1, F2>>
           B(part) == [kind |-> "body", m |-> m, part |-> part]
           v == [part \in 1 .. z |-> B(part)]
<1>1. z \in Nat /\ f = u \o v
  BY DeliveryAssumption DEF Frames
<1>2. F1 \in FrameSet /\ F1.kind = "deliver" /\ F1.tag = n /\ F1.m = m
  BY DEF FrameSet
<1>3. F2 \in FrameSet /\ F2.kind = "header" /\ F2.size = z /\ F2.m = m
  BY <1>1 DEF FrameSet
<1>4. \A part \in Nat : B(part) \in FrameSet /\ B(part).kind = "body" /\ B(part).m = m /\ B(part).part = part
  BY DEF FrameSet
<1> HIDE DEF F1, F2, B, z
<1>5. u \in Seq(FrameSet) /\ Len(u) = 2 /\ u[1] = F1 /\ u[2] = F2
  BY <1>2, <1>3
<1>6. \A part \in 1 .. z : v[part] = B(part)
  OBVIOUS
<1>7. v \in Seq(FrameSet) /\ Len(v) = z
  <2>1. \A part \in 1 .. z : B(part) \in FrameSet
    BY <1>1, <1>4
  <2> QED
    BY <1>1, <2>1
<1> HIDE DEF u, v
<1>8. /\ f \in Seq(FrameSet) /\ Len(f) = Len(u) + Len(v)
      /\ \A i \in 1 .. Len(u) : f[i] = u[i]
      /\ \A i \in 1 .. Len(v) : f[Len(u) + i] = v[i]
  <2>1. u \in Seq(FrameSet) /\ v \in Seq(FrameSet)
    BY <1>5, <1>7
  <2> QED
    BY <1>1, <2>1, ConcatAt
<1>9. f[1] = F1 /\ f[2] = F2 /\ Len(f) = 2 + z /\ \A i \in 1 .. z : f[2 + i] = B(i)
  BY <1>5, <1>6, <1>7, <1>8
<1>10. ASSUME NEW i \in 3 .. Len(f) PROVE f[i] = B(i - 2) /\ i - 2 \in Nat
  <2> DEFINE j == i - 2
  <2>1. j \in 1 .. z /\ j \in Nat /\ 2 + j = i
    BY <1>1, <1>9
  <2> HIDE DEF j
  <2>2. f[2 + j] = B(j)
    BY <1>9, <2>1
  <2> QED
    BY <2>1, <2>2 DEF j
<1>11. ASSUME NEW i \in 3 .. Len(f) PROVE f[i].kind = "body" /\ f[i].part = i - 2 /\ f[i].m = m
  BY <1>4, <1>10
<1>12. ASSUME NEW i \in 1 .. Len(f) PROVE f[i].m = m
  <2>1. i = 1 \/ i = 2 \/ i \in 3 .. Len(f)
    BY <1>1, <1>9
  <2> QED
    BY <1>2, <1>3, <1>9, <1>11, <2>1
<1>13. /\ f \in Seq(FrameSet) /\ Len(f) = 2 + z /\ z \in Nat
       /\ f[1].kind = "deliver" /\ f[1].tag = n
       /\ f[2].kind = "header" /\ f[2].size = z
  BY <1>1, <1>2, <1>3, <1>8, <1>9
<1> QED
  BY <1>11, <1>12, <1>13 DEF z

\* They are a whole message, and the wire they join remains one of whole messages.
LEMMA FramedFrames ==
  ASSUME NEW m \in Messages, NEW n \in Nat
  PROVE  Framed(Frames(m, n))
<1> DEFINE f == Frames(m, n)
<1>1. /\ f \in Seq(FrameSet) /\ Len(f) = 2 + Size[m] /\ Size[m] \in Nat
      /\ f[1].kind = "deliver" /\ f[2].kind = "header" /\ f[2].size = Size[m]
      /\ \A i \in 3 .. Len(f) : f[i].kind = "body" /\ f[i].part = i - 2
      /\ \A i \in 1 .. Len(f) : f[i].m = m
  BY FramesAre
<1> HIDE DEF f
<1>2. Header(f, 2, m)
  BY <1>1 DEF Header
<1>3. ASSUME NEW k \in 0 .. Size[m], NEW j, j = k + 3 PROVE After(f, j, m, k)
  <2>1. CASE k = Size[m]
    BY <1>1, <1>3, <2>1 DEF After, Starts
  <2>2. CASE k # Size[m]
    <3>1. j \in 3 .. Len(f) /\ j \in 1 .. Len(f) /\ j - 2 = k + 1 /\ j <= Len(f)
      <4>1. PICK z \in Nat : z = Size[m]
        BY <1>1
      <4>2. k \in 0 .. z /\ k # z /\ j = k + 3 /\ Len(f) = 2 + z
        BY <1>1, <1>3, <2>2, <4>1
      <4> HIDE <1>1, <1>3
      <4> QED
        BY <4>2
    <3>2. f[j].kind = "body" /\ f[j].m = m /\ f[j].part = k + 1
      BY <1>1, <3>1
    <3> QED
      BY <2>2, <3>1, <3>2 DEF After, Body
  <2> QED
    BY <2>1, <2>2
<1> SUFFICES ASSUME NEW i \in 1 .. Len(f)
             PROVE  /\ f[i].kind = "deliver" => Header(f, i + 1, f[i].m)
                    /\ f[i].kind = "header"  => f[i].size = Size[f[i].m] /\ After(f, i + 1, f[i].m, 0)
                    /\ f[i].kind = "body"    => /\ f[i].part \in 1 .. Size[f[i].m]
                                                /\ After(f, i + 1, f[i].m, f[i].part)
  BY DEF Framed, f
<1>4. CASE i = 1
  BY <1>1, <1>2, <1>4
<1>5. CASE i = 2
  <2>1. After(f, 3, m, 0)
    <3>1. 0 \in 0 .. Size[m] /\ 3 = 0 + 3
      BY <1>1
    <3> QED
      BY <1>3, <3>1, Zenon
  <2> QED
    BY <1>1, <1>5, <2>1
<1>6. CASE i \in 3 .. Len(f)
  <2>1. i - 2 \in 1 .. Size[m] /\ i - 2 \in 0 .. Size[m] /\ (i - 2) + 3 = i + 1
    BY <1>1, <1>6
  <2>2. After(f, i + 1, m, i - 2)
    BY <1>3, <2>1
  <2> QED
    BY <1>1, <1>6, <2>1, <2>2
<1> QED
  BY <1>1, <1>4, <1>5, <1>6

\* A channel with the frames v behind those it has, w.
LEMMA FramedConcat ==
  ASSUME NEW w \in Seq(FrameSet), NEW v \in Seq(FrameSet), Framed(w), Framed(v),
         v # <<>>, v[1].kind = "deliver", NEW x, x = w \o v
  PROVE  Framed(x)
<1>1. /\ x \in Seq(FrameSet) /\ Len(x) = Len(w) + Len(v) /\ Len(w) \in Nat /\ Len(v) \in Nat
      /\ \A i \in 1 .. Len(w) : x[i] = w[i]
      /\ \A i \in 1 .. Len(v) : x[Len(w) + i] = v[i]
  BY ConcatAt
<1>2. Len(v) # 0
  OBVIOUS
<1>3. ASSUME NEW j \in Nat \ {0}, NEW m, NEW k
      PROVE  /\ Header(w, j, m) => Header(x, j, m)
             /\ Body(w, j, m, k) => Body(x, j, m, k)
             /\ j <= Len(w) + 1 /\ Starts(w, j) => Starts(x, j)
  <2>1. j <= Len(w) => j <= Len(x) /\ x[j] = w[j]
    BY <1>1
  <2>2. j = Len(w) + 1 => x[j] = v[1]
    BY <1>1, <1>2
  <2>3. Header(w, j, m) => Header(x, j, m)
    BY <2>1 DEF Header
  <2>4. Body(w, j, m, k) => Body(x, j, m, k)
    BY <2>1 DEF Body
  <2>5. j <= Len(w) + 1 /\ Starts(w, j) => Starts(x, j)
    BY <1>1, <2>1, <2>2 DEF Starts
  <2> QED
    BY <2>3, <2>4, <2>5
<1>4. ASSUME NEW j \in Nat \ {0}, NEW m, NEW k
      PROVE  /\ Header(v, j, m) => Header(x, Len(w) + j, m)
             /\ Body(v, j, m, k) => Body(x, Len(w) + j, m, k)
             /\ Starts(v, j) => Starts(x, Len(w) + j)
  <2>1. j <= Len(v) <=> Len(w) + j <= Len(x)
    BY <1>1
  <2>2. j <= Len(v) => x[Len(w) + j] = v[j]
    BY <1>1
  <2>3. Header(v, j, m) => Header(x, Len(w) + j, m)
    BY <2>1, <2>2 DEF Header
  <2>4. Body(v, j, m, k) => Body(x, Len(w) + j, m, k)
    BY <2>1, <2>2 DEF Body
  <2>5. Starts(v, j) => Starts(x, Len(w) + j)
    BY <2>1, <2>2 DEF Starts
  <2> QED
    BY <2>3, <2>4, <2>5
<1> SUFFICES ASSUME NEW i \in 1 .. Len(x), NEW f, f = x[i]
             PROVE  /\ f.kind = "deliver" => Header(x, i + 1, f.m)
                    /\ f.kind = "header"  => f.size = Size[f.m] /\ After(x, i + 1, f.m, 0)
                    /\ f.kind = "body"    => f.part \in 1 .. Size[f.m] /\ After(x, i + 1, f.m, f.part)
  BY DEF Framed
<1>5. CASE i \in 1 .. Len(w)
  <2>1. f = w[i] /\ i + 1 \in Nat \ {0} /\ i + 1 <= Len(w) + 1
    BY <1>1, <1>5
  <2>2. /\ f.kind = "deliver" => Header(w, i + 1, f.m)
        /\ f.kind = "header"  => f.size = Size[f.m] /\ After(w, i + 1, f.m, 0)
        /\ f.kind = "body"    => f.part \in 1 .. Size[f.m] /\ After(w, i + 1, f.m, f.part)
    BY <1>5, <2>1 DEF Framed
  <2>3. \A m, k : After(w, i + 1, m, k) => After(x, i + 1, m, k)
    BY <1>3, <2>1 DEF After
  <2> QED
    BY <1>3, <2>1, <2>2, <2>3
<1>6. CASE i \notin 1 .. Len(w)
  <2> DEFINE j == i - Len(w)
  <2>1. j \in 1 .. Len(v) /\ i = Len(w) + j /\ i + 1 = Len(w) + (j + 1) /\ j + 1 \in Nat \ {0}
    BY <1>1, <1>6
  <2> HIDE DEF j
  <2>2. f = v[j]
    BY <1>1, <2>1
  <2>3. /\ f.kind = "deliver" => Header(v, j + 1, f.m)
        /\ f.kind = "header"  => f.size = Size[f.m] /\ After(v, j + 1, f.m, 0)
        /\ f.kind = "body"    => f.part \in 1 .. Size[f.m] /\ After(v, j + 1, f.m, f.part)
    BY <2>1, <2>2 DEF Framed
  <2>4. \A m, k : After(v, j + 1, m, k) => After(x, i + 1, m, k)
    BY <1>4, <2>1 DEF After
  <2>5. \A m : Header(v, j + 1, m) => Header(x, i + 1, m)
    BY <1>4, <2>1
  <2> QED
    BY <2>3, <2>4, <2>5
<1> QED
  BY <1>5, <1>6

\* The order of the tags when the next message follows.
LEMMA AscendsMore ==
  ASSUME NEW w \in Seq(FrameSet), NEW h, NEW e, NEW c, NEW n \in Nat, Ascends(h, e, c, w, n),
         \A k \in 1 .. Len(h) : h[k].epoch = e => h[k].tag \in Int /\ h[k].tag <= n,
         NEW v \in Seq(FrameSet), v # <<>>, v[1].kind = "deliver", v[1].tag = n + 1,
         \A i \in 2 .. Len(v) : v[i].kind # "deliver", NEW x, x = w \o v
  PROVE  Ascends(h, e, c, x, n + 1)
<1>1. /\ x \in Seq(FrameSet) /\ Len(x) = Len(w) + Len(v) /\ Len(w) \in Nat /\ Len(v) \in Nat
      /\ \A i \in 1 .. Len(w) : x[i] = w[i]
      /\ \A i \in 1 .. Len(v) : x[Len(w) + i] = v[i]
  BY ConcatAt
<1>2. ASSUME NEW i \in 1 .. Len(x), x[i].kind = "deliver"
      PROVE  (i \in 1 .. Len(w) /\ x[i] = w[i]) \/ (i = Len(w) + 1 /\ x[i].tag = n + 1)
  <2>1. CASE i \in 1 .. Len(w)
    BY <1>1, <2>1
  <2>2. CASE i \notin 1 .. Len(w)
    <3> DEFINE j == i - Len(w)
    <3>1. j \in 1 .. Len(v) /\ i = Len(w) + j
      BY <1>1, <2>2
    <3> HIDE DEF j
    <3>2. x[i] = v[j]
      BY <1>1, <3>1
    <3>3. j = 1
      BY <1>1, <1>2, <3>1, <3>2
    <3> QED
      BY <3>1, <3>2, <3>3
  <2> QED
    BY <2>1, <2>2
<1>3. Above(h, e, n + 1)
  BY DEF Above
<1>4. \A i \in 1 .. Len(w) : w[i].kind = "deliver" => w[i].tag \in 1 .. n /\ Above(h, e, w[i].tag)
  BY DEF Ascends
<1>5. ASSUME NEW i \in 1 .. Len(x), x[i].kind = "deliver"
      PROVE  x[i].tag \in 1 .. n + 1 /\ Above(h, e, x[i].tag)
  BY <1>2, <1>3, <1>4, <1>5
<1>6. ASSUME NEW i \in 1 .. Len(x), x[i].kind = "deliver",
             NEW j \in 1 .. i - 1, x[j].kind = "deliver"
      PROVE  x[j].tag < x[i].tag
  <2>1. j \in 1 .. Len(x) /\ j < i
    BY <1>1
  <2>2. j \in 1 .. Len(w) /\ x[j] = w[j]
    BY <1>1, <1>2, <1>6, <2>1
  <2>3. w[j].tag \in 1 .. n
    BY <1>4, <1>6, <2>2
  <2>4. CASE i \in 1 .. Len(w) /\ x[i] = w[i]
    BY <1>6, <2>2, <2>4 DEF Ascends
  <2>5. CASE x[i].tag = n + 1
    BY <2>2, <2>3, <2>5
  <2> QED
    BY <1>2, <1>6, <2>4, <2>5
<1>7. ASSUME Amid(x)
      PROVE  /\ c.epoch = e /\ c.tag \in 1 .. n + 1 /\ Above(h, e, c.tag)
             /\ \A i \in 1 .. Len(x) : x[i].kind = "deliver" => c.tag < x[i].tag
  <2>1. Amid(w)
    <3>1. CASE w = <<>>
      <4>1. Len(w) = 0 /\ 1 \in 1 .. Len(v)
        BY <1>1, <3>1
      <4>2. x[1] = v[1]
        BY <1>1, <4>1
      <4> QED
        BY <1>7, <4>2 DEF Amid
    <3>2. CASE w # <<>>
      <4>1. 1 \in 1 .. Len(w)
        BY <1>1, <3>2
      <4> QED
        BY <1>1, <1>7, <3>2, <4>1 DEF Amid
    <3> QED
      BY <3>1, <3>2
  <2>2. /\ c.epoch = e /\ c.tag \in 1 .. n /\ Above(h, e, c.tag)
        /\ \A i \in 1 .. Len(w) : w[i].kind = "deliver" => c.tag < w[i].tag
    BY <2>1 DEF Ascends
  <2>3. ASSUME NEW i \in 1 .. Len(x), x[i].kind = "deliver" PROVE c.tag < x[i].tag
    BY <1>2, <2>2, <2>3
  <2> QED
    BY SMTT(30), <2>2, <2>3
<1> QED
  BY <1>5, <1>6, <1>7 DEF Ascends

\* The frames of message m with the tag n + 1.
OneMessage(v, n, m) ==
  /\ v \in Seq(FrameSet) /\ v # <<>> /\ v[1].kind = "deliver" /\ v[1].tag = n + 1 /\ v[1].m = m
  /\ \A i \in 2 .. Len(v) : v[i].kind # "deliver"

OneMore(g, u, n, m) ==
  DOMAIN g = DOMAIN u \cup {n + 1} /\ g[n + 1] = m /\ \A tag \in DOMAIN u : g[tag] = u[tag]

\* It is one more that the server waits for.
LEMMA AccountsMore ==
  ASSUME NEW w \in Seq(FrameSet), NEW h, NEW e, NEW c, NEW u, Accounts(h, e, c, w, u),
         NEW n \in Nat, NEW m, NEW v, OneMessage(v, n, m), NEW x, x = w \o v,
         NEW g, OneMore(g, u, n, m)
  PROVE  Accounts(h, e, c, x, g)
<1>0. /\ v \in Seq(FrameSet) /\ v # <<>> /\ v[1].kind = "deliver" /\ v[1].tag = n + 1 /\ v[1].m = m
      /\ \A i \in 2 .. Len(v) : v[i].kind # "deliver"
      /\ DOMAIN g = DOMAIN u \cup {n + 1} /\ g[n + 1] = m /\ \A tag \in DOMAIN u : g[tag] = u[tag]
  BY DEF OneMessage, OneMore
<1>1. /\ x \in Seq(FrameSet) /\ Len(x) = Len(w) + Len(v) /\ Len(w) \in Nat /\ Len(v) \in Nat
      /\ \A i \in 1 .. Len(w) : x[i] = w[i]
      /\ \A i \in 1 .. Len(v) : x[Len(w) + i] = v[i]
  BY <1>0, ConcatAt
<1>2. 1 \in 1 .. Len(v) /\ Len(w) + 1 \in 1 .. Len(x) /\ x[Len(w) + 1] = v[1]
  <2>1. Len(v) # 0
    BY <1>0
  <2>2. 1 \in 1 .. Len(v) /\ Len(w) + 1 \in 1 .. Len(x)
    BY <1>0, <1>1, <2>1
  <2> QED
    BY <1>0, <1>1, <2>2
<1>3. Amid(x) <=> Amid(w)
  <2>1. CASE w = <<>>
    <3>1. Len(w) = 0
      BY <1>0, <2>1
    <3>2. x[1] = v[1]
      BY <1>0, <1>2, <3>1
    <3> QED
      BY <1>0, <2>1, <3>2 DEF Amid
  <2>2. CASE w # <<>>
    <3>1. 1 \in 1 .. Len(w) /\ Len(x) # 0
      BY <1>0, <1>1, <2>2
    <3>2. x # <<>>
      BY <1>0, <3>1
    <3> QED
      BY <1>0, <1>1, <2>2, <3>1, <3>2 DEF Amid
  <2> QED
    BY <1>0, <2>1, <2>2
<1>4. ASSUME NEW tag \in DOMAIN g PROVE Flying(c, x, tag) \/ HeardAs(h, e, tag, g[tag])
  <2>1. CASE tag = n + 1
    BY <1>0, <1>2, <2>1 DEF Flying
  <2>2. CASE tag \in DOMAIN u
    <3>1. CASE HeardAs(h, e, tag, u[tag])
      BY <1>0, <2>2, <3>1
    <3>2. CASE Flying(c, w, tag)
      <4>1. CASE Amid(w) /\ c.tag = tag
        BY <1>0, <1>3, <4>1 DEF Flying
      <4>2. CASE \E i \in 1 .. Len(w) : w[i].kind = "deliver" /\ w[i].tag = tag
        <5>1. PICK i \in 1 .. Len(w) : w[i].kind = "deliver" /\ w[i].tag = tag
          BY <1>0, <4>2
        <5>2. i \in 1 .. Len(x) /\ x[i] = w[i]
          BY <1>0, <1>1
        <5> QED
          BY <1>0, <5>1, <5>2 DEF Flying
      <4> QED
        BY <1>0, <3>2, <4>1, <4>2 DEF Flying
    <3> QED
      BY <1>0, <2>2, <3>1, <3>2 DEF Accounts
  <2> QED
    BY <1>0, <2>1, <2>2
<1>5. ASSUME NEW i \in 1 .. Len(x), x[i].kind = "deliver"
      PROVE  x[i].tag \in DOMAIN g /\ g[x[i].tag] = x[i].m
  <2>1. CASE i \in 1 .. Len(w)
    <3>1. w[i].kind = "deliver" /\ x[i] = w[i]
      BY <1>0, <1>1, <1>5, <2>1
    <3>2. w[i].tag \in DOMAIN u /\ u[w[i].tag] = w[i].m
      BY <1>0, <2>1, <3>1 DEF Accounts
    <3> QED
      BY <1>0, <3>1, <3>2
  <2>2. CASE i \notin 1 .. Len(w)
    <3> DEFINE j == i - Len(w)
    <3>1. j \in 1 .. Len(v) /\ i = Len(w) + j
      BY <1>0, <1>1, <2>2
    <3> HIDE DEF j
    <3>2. x[i] = v[j]
      BY <1>0, <1>1, <3>1
    <3>3. j = 1
      BY <1>0, <1>1, <1>5, <3>1, <3>2
    <3> QED
      BY <1>0, <3>2, <3>3
  <2> QED
    BY <1>0, <2>1, <2>2
<1>6. Amid(x) => c.tag \in DOMAIN g /\ g[c.tag] = c.m
  BY <1>0, <1>3 DEF Accounts
<1> QED
  BY <1>0, <1>4, <1>5, <1>6 DEF Accounts

\* The server sends the next message of a queue.
LEMMA DeliverKeeps ==
  ASSUME IInv, NEW q \in Queues, Deliver(q)
  PROVE  IInv'
<1> DEFINE m == Head(ready[q])
           n == tags[q]
           w == toClient[q]
           v == Frames(m, n + 1)
           u == unacked[q]
           g == [tag \in Unacked(q) \cup {n + 1} |-> IF tag > n THEN m ELSE u[tag]]
<1>1. /\ link /\ consuming[q] /\ ready[q] # <<>>
      /\ ready' = [ready EXCEPT ![q] = Tail(ready[q])]
      /\ tags' = [tags EXCEPT ![q] = n + 1]
      /\ IF mode.settle = "noAck" THEN UNCHANGED unacked ELSE unacked' = [unacked EXCEPT ![q] = g]
      /\ toClient' = [toClient EXCEPT ![q] = w \o v]
      /\ UNCHANGED <<mode, link, epoch, currentMessage, lastMessage, held, heard, consuming, toServer,
                     losses, requeues, misled, refused>>
  BY DEF Deliver, client, past
<1>2. /\ ready[q] \in Seq(Messages) /\ n \in Nat /\ w \in Seq(FrameSet) /\ Of(q) \subseteq Messages
      /\ \A i \in 1 .. Len(ready[q]) : ready[q][i] \in Of(q)
      /\ DOMAIN u \subseteq 1 .. n /\ \A tag \in DOMAIN u : u[tag] \in Of(q)
  <2>1. \A tag \in DOMAIN u : u[tag] \in Of(q) /\ tag \in 1 .. n
    BY Facts DEF Owned, Unacked
  <2>2. \A i \in 1 .. Len(ready[q]) : ready[q][i] \in Of(q)
    BY Facts DEF Owned
  <2> QED
    BY <2>1, <2>2, Facts, TypesOf
<1>3. /\ m = ready[q][1] /\ Len(ready[q]) \in Nat \ {0}
      /\ Tail(ready[q]) \in Seq(Messages) /\ Len(Tail(ready[q])) = Len(ready[q]) - 1
      /\ \A i \in 1 .. Len(Tail(ready[q])) : Tail(ready[q])[i] = ready[q][i + 1]
  BY <1>1, <1>2, TailAt
<1> DEFINE r == Tail(ready[q])
<1>4. m \in Of(q) /\ m \in Messages
  BY <1>2, <1>3
<1>5. /\ v \in Seq(FrameSet) /\ Len(v) \in Nat /\ v # <<>> /\ v[1].kind = "deliver" /\ v[1].tag = n + 1
      /\ v[1].m = m /\ Framed(v) /\ \A i \in 1 .. Len(v) : v[i].m = m
      /\ \A i \in 2 .. Len(v) : v[i].kind # "deliver"
  <2> DEFINE k == n + 1
  <2>1. k \in Nat
    BY <1>2
  <2> HIDE DEF k, m
  <2>0. PICK f : f = Frames(m, k)
    OBVIOUS
  <2>2. /\ f \in Seq(FrameSet) /\ Len(f) = 2 + Size[m] /\ Size[m] \in Nat
        /\ f[1].kind = "deliver" /\ f[1].tag = k
        /\ f[2].kind = "header"
        /\ \A i \in 3 .. Len(f) : f[i].kind = "body"
        /\ \A i \in 1 .. Len(f) : f[i].m = m
    BY <1>4, <2>0, <2>1, FramesAre
  <2>3. Framed(f)
    BY <1>4, <2>0, <2>1, FramedFrames
  <2>4. f # <<>> /\ 1 \in 1 .. Len(f)
    BY <2>2
  <2>5. \A i \in 2 .. Len(f) : f[i].kind # "deliver"
    <3>1. \A i \in 2 .. Len(f) : i = 2 \/ i \in 3 .. Len(f)
      BY <2>2
    <3> QED
      BY <2>2, <3>1
  <2> QED
    BY <2>0, <2>2, <2>3, <2>4, <2>5 DEF k
<1> HIDE DEF m, v
<1>6. /\ w \o v \in Seq(FrameSet) /\ Len(w \o v) = Len(w) + Len(v) /\ Len(w) \in Nat
      /\ \A i \in 1 .. Len(w) : (w \o v)[i] = w[i]
      /\ \A i \in 1 .. Len(v) : (w \o v)[Len(w) + i] = v[i]
  BY <1>2, <1>5, ConcatAt
<1> DEFINE x == w \o v
<1> HIDE DEF x
<1>7. \A p \in Queues : /\ ready'[p] = IF p = q THEN r ELSE ready[p]
                        /\ tags'[p] = IF p = q THEN n + 1 ELSE tags[p]
                        /\ toClient'[p] = IF p = q THEN x ELSE toClient[p]
                        /\ mode.settle # "noAck" => unacked'[p] = IF p = q THEN g ELSE unacked[p]
                        /\ mode.settle = "noAck" => unacked'[p] = unacked[p]
  <2>1. /\ ready = [p \in Queues |-> ready[p]] /\ tags = [p \in Queues |-> tags[p]]
        /\ toClient = [p \in Queues |-> toClient[p]] /\ unacked = [p \in Queues |-> unacked[p]]
    BY Facts DEF Typed
  <2> HIDE DEF g, n
  <2> QED
    BY <1>1, <2>1 DEF x
<1>8. /\ DOMAIN g = DOMAIN u \cup {n + 1} /\ g[n + 1] = m /\ \A tag \in DOMAIN u : g[tag] = u[tag]
  BY <1>2 DEF Unacked
<1> HIDE DEF g
<1>9. Typed'
  <2>1. ready' \in [Queues -> Seq(Messages)] /\ tags' \in [Queues -> Nat]
        /\ toClient' \in [Queues -> Seq(FrameSet)]
    BY <1>1, <1>2, <1>3, <1>6, Facts DEF Typed
  <2>2. unacked' = [p \in Queues |-> unacked'[p]]
    BY <1>1, Facts DEF Typed
  <2> QED
    BY <1>1, <2>1, <2>2, Facts DEF Typed
<1>10. Owned'
  <2> SUFFICES ASSUME NEW p \in Queues
               PROVE  /\ \A i \in 1 .. Len(ready'[p]) : ready'[p][i] \in Of(p)
                      /\ \A tag \in DOMAIN unacked'[p] : unacked'[p][tag] \in Of(p) /\ tag \in 1 .. tags'[p]
                      /\ currentMessage'[p] # None =>
                           currentMessage'[p].read <= Size[currentMessage'[p].m]
    BY DEF Owned, Unacked
  <2>1. /\ \A i \in 1 .. Len(ready[p]) : ready[p][i] \in Of(p)
        /\ \A tag \in DOMAIN unacked[p] : unacked[p][tag] \in Of(p) /\ tag \in 1 .. tags[p]
        /\ currentMessage[p] # None => currentMessage[p].read <= Size[currentMessage[p].m]
    BY Facts DEF Owned, Unacked
  <2>2. \A i \in 1 .. Len(ready'[p]) : ready'[p][i] \in Of(p)
    <3>1. \A i \in 1 .. Len(r) : i + 1 \in 1 .. Len(ready[q]) /\ r[i] = ready[q][i + 1]
      BY <1>3
    <3> HIDE DEF r
    <3> QED
      BY <1>7, <2>1, <3>1
  <2>3. ASSUME NEW tag \in DOMAIN unacked'[p] PROVE unacked'[p][tag] \in Of(p) /\ tag \in 1 .. tags'[p]
    <3>1. CASE p # q
      BY <1>7, <2>1, <2>3, <3>1
    <3>2. CASE p = q /\ tag \in DOMAIN u
      BY <1>2, <1>7, <1>8, <2>1, <2>3, <3>2
    <3>3. CASE p = q /\ tag \notin DOMAIN u
      BY <1>2, <1>4, <1>7, <1>8, <2>3, <3>3
    <3> QED
      BY <3>1, <3>2, <3>3
  <2> QED
    BY <1>1, <2>1, <2>2, <2>3
<1>11. Down'
  BY <1>1 DEF Down
<1>12. Assembled'
  <2> SUFFICES ASSUME NEW p \in Queues
               PROVE  /\ Framed(toClient'[p])
                      /\ \A i \in 1 .. Len(toClient'[p]) : toClient'[p][i].m \in Of(p)
                      /\ toClient'[p] # <<>> => Reading(currentMessage[p], toClient'[p])
    BY <1>1 DEF Assembled
  <2>1. /\ Framed(toClient[p])
        /\ \A i \in 1 .. Len(toClient[p]) : toClient[p][i].m \in Of(p)
        /\ toClient[p] # <<>> => Reading(currentMessage[p], toClient[p])
    BY Facts DEF Assembled
  <2>2. CASE p # q
    BY <1>7, <2>1, <2>2
  <2>3. CASE p = q
    <3>1. Framed(x)
      BY <1>2, <1>5, <2>1, <2>3, FramedConcat DEF x
    <3>2. ASSUME NEW i \in 1 .. Len(x) PROVE x[i].m \in Of(q)
      <4>1. CASE i \in 1 .. Len(w)
        BY <1>6, <2>1, <2>3, <4>1 DEF x
      <4>2. CASE i \notin 1 .. Len(w)
        <5> DEFINE j == i - Len(w)
        <5>1. j \in 1 .. Len(v) /\ i = Len(w) + j
          BY <1>5, <1>6, <4>2 DEF x
        <5> HIDE DEF j
        <5>2. x[i] = v[j]
          BY <1>6, <5>1 DEF x
        <5> QED
          BY <1>4, <1>5, <5>1, <5>2
      <4> QED
        BY <4>1, <4>2
    <3>3. Reading(currentMessage[q], x)
      <4>1. CASE w = <<>>
        <5>1. Len(w) = 0 /\ 1 \in 1 .. Len(v)
          BY <1>5, <4>1
        <5>2. x[1] = v[1]
          BY <1>6, <5>1 DEF x
        <5> QED
          BY <1>5, <5>2 DEF Reading
      <4>2. CASE w # <<>>
        <5>1. 1 \in 1 .. Len(w)
          BY <1>6, <4>2
        <5>2. x[1] = w[1]
          BY <1>6, <5>1 DEF x
        <5> QED
          BY <2>1, <2>3, <4>2, <5>2 DEF Reading
      <4> QED
        BY <4>1, <4>2
    <3> QED
      BY <1>7, <2>3, <3>1, <3>2, <3>3
  <2> QED
    BY <2>2, <2>3
<1>13. Ascending'
  <2> SUFFICES ASSUME NEW p \in Queues
               PROVE  /\ \A k \in 1 .. Len(heard[p]) :
                           /\ heard[p][k].epoch <= epoch
                           /\ heard[p][k].epoch = epoch => heard[p][k].tag <= tags'[p]
                      /\ Ascends(heard[p], epoch, currentMessage[p], toClient'[p], tags'[p])
    BY <1>1 DEF Ascending
  <2>1. /\ \A k \in 1 .. Len(heard[p]) :
             /\ heard[p][k].epoch <= epoch
             /\ heard[p][k].epoch = epoch => heard[p][k].tag <= tags[p]
        /\ Ascends(heard[p], epoch, currentMessage[p], toClient[p], tags[p])
    BY Facts DEF Ascending
  <2>2. CASE p # q
    BY <1>7, <2>1, <2>2
  <2>3. CASE p = q
    <3>1. \A k \in 1 .. Len(heard[q]) : heard[q][k].tag \in Int
      <4>1. \A d \in Deliveries : d.tag \in Int
        BY DEF Deliveries
      <4> QED
        BY <4>1, Facts, TypesOf, ElementOf
    <3>2. Ascends(heard[q], epoch, currentMessage[q], x, n + 1)
      BY <1>2, <1>5, <2>1, <2>3, <3>1, AscendsMore DEF x
    <3>3. \A k \in 1 .. Len(heard[q]) : heard[q][k].epoch = epoch => heard[q][k].tag <= n + 1
      BY <1>2, <2>1, <2>3, <3>1
    <3> QED
      BY <1>7, <2>1, <2>3, <3>2, <3>3
  <2> QED
    BY <2>2, <2>3
<1>14. Holding'
  <2>1. mode.settle = "noAck" => \A p \in Queues : DOMAIN unacked'[p] = {}
    BY <1>7, Facts DEF Holding, Unacked
  <2> QED
    BY <1>1, <2>1, Facts DEF Holding, Unacked
<1>15. HandedOverWholeOnce'
  BY <1>1, Facts DEF HandedOverWholeOnce, HandedOverWhole, OncePerDelivery
<1>16. Kept'
  <2>1. CASE misled \/ mode.settle = "noAck"
    BY <1>1, <2>1 DEF Kept
  <2>2. CASE ~(misled \/ mode.settle = "noAck")
    <3>1. ~refused' /\ (\A p \in Queues : consuming'[p]) /\ AtLeastOnce /\ Accounted /\ Settled
      BY <1>1, <2>2, Facts DEF Kept
    <3>2. AtLeastOnce'
      <4> SUFFICES ASSUME NEW p \in Queues, NEW a \in ToSet(Backlog[p])
                   PROVE  Heard(p, a) \/ AtServer(p, a)'
        BY <1>1 DEF AtLeastOnce, Heard
      <4>1. Heard(p, a) \/ AtServer(p, a)
        BY <2>2, <3>1 DEF AtLeastOnce
      <4>2. CASE p # q
        BY <1>7, <2>2, <4>1, <4>2 DEF AtServer, Unacked
      <4>3. CASE p = q /\ AtServer(p, a)
        <5>1. CASE \E tag \in DOMAIN u : u[tag] = a
          BY <1>7, <1>8, <2>2, <4>3, <5>1 DEF AtServer, Unacked
        <5>2. CASE a \in ToSet(ready[q])
          <6>1. PICK i \in 1 .. Len(ready[q]) : ready[q][i] = a
            BY <1>2, <5>2 DEF ToSet
          <6>2. CASE i = 1
            <7>1. g[n + 1] = a /\ n + 1 \in DOMAIN g
              BY <1>3, <1>8, <6>1, <6>2
            <7> QED
              BY <1>7, <2>2, <4>3, <7>1 DEF AtServer, Unacked
          <6>3. CASE i # 1
            <7>1. i - 1 \in 1 .. Len(r) /\ (i - 1) + 1 = i
              BY <1>3, <6>3
            <7>2. r[i - 1] = a
              BY <1>3, <6>1, <7>1
            <7>3. a \in ToSet(r)
              BY <1>3, <7>1, <7>2, InToSet
            <7> QED
              BY <1>7, <4>3, <7>3 DEF AtServer
          <6> QED
            BY <6>2, <6>3
        <5> QED
          BY <4>3, <5>1, <5>2 DEF AtServer, Unacked
      <4> QED
        BY <4>1, <4>2, <4>3
    <3>3. Accounted'
      <4> SUFFICES ASSUME NEW p \in Queues
                   PROVE  Accounts(heard[p], epoch, currentMessage[p], toClient'[p], unacked'[p])
        BY <1>1 DEF Accounted
      <4>1. Accounts(heard[p], epoch, currentMessage[p], toClient[p], unacked[p])
        BY <3>1 DEF Accounted
      <4>2. CASE p = q
        <5>1. Accounts(heard[q], epoch, currentMessage[q], w, u)
          BY <4>1, <4>2
        <5>2. x = w \o v /\ w \in Seq(FrameSet) /\ n \in Nat /\ DOMAIN u \subseteq 1 .. n
          BY <1>2 DEF x
        <5>3. Accounts(heard[q], epoch, currentMessage[q], x, g)
          <6> HIDE DEF w, u, n
          <6>1. OneMessage(v, n, m)
            BY <1>5 DEF OneMessage
          <6>2. OneMore(g, u, n, m)
            BY <1>8 DEF OneMore
          <6> QED
            BY <5>1, <5>2, <6>1, <6>2, AccountsMore
        <5> QED
          BY <1>7, <2>2, <4>2, <5>3
      <4>3. CASE p # q
        BY <1>7, <2>2, <4>1, <4>3
      <4> QED
        BY <4>2, <4>3
    <3>4. \A p \in Queues : \A tag \in DOMAIN unacked[p] :
            tag \in DOMAIN unacked'[p] /\ unacked'[p][tag] = unacked[p][tag]
      BY <1>7, <1>8, <2>2
    <3>5. Settled'
      <4>1. ASSUME NEW p \in Queues, NEW e \in held[p], link, e.epoch = epoch
            PROVE  e.tag \in DOMAIN unacked'[p]
        BY <3>1, <3>4, <4>1 DEF Settled, Unacked
      <4>2. ASSUME NEW i \in 1 .. Len(toServer), NEW s, s = toServer[i]
            PROVE  /\ Expected(heard[s.q], epoch, held[s.q], unacked'[s.q], s)
                   /\ \A j \in i + 1 .. Len(toServer) : toServer[j].q = s.q => ~Covers(s, toServer[j].tag)
        <5>1. s.q \in Queues
          <6>1. \A y \in [q : Queues, tag : Nat, kind : Settlements] : y.q \in Queues
            OBVIOUS
          <6>2. s \in [q : Queues, tag : Nat, kind : Settlements]
            BY <4>2, Facts, ElementOf DEF Typed
          <6> QED
            BY <6>1, <6>2
        <5>2. /\ Expected(heard[s.q], epoch, held[s.q], unacked[s.q], s)
              /\ \A j \in i + 1 .. Len(toServer) : toServer[j].q = s.q => ~Covers(s, toServer[j].tag)
          BY <3>1, <4>2 DEF Settled
        <5> QED
          BY <3>4, <5>1, <5>2 DEF Expected
      <4> QED
        BY <1>1, <4>1, <4>2 DEF Settled, Unacked
    <3> QED
      BY <3>1, <3>2, <3>3, <3>5 DEF Kept
  <2> QED
    BY <2>1, <2>2
<1> QED
  BY <1>9, <1>10, <1>11, <1>12, <1>13, <1>14, <1>15, <1>16 DEF IInv

-----------------------------------------------------------------------------
(* The connection comes back *)

\* New channels, on which nothing was sent and nothing heard.
LEMMA ReopenKeeps ==
  ASSUME IInv, Reopen
  PROVE  IInv'
<1>1. /\ ~link /\ link' = TRUE /\ epoch' = epoch + 1 /\ tags' = [q \in Queues |-> 0]
      /\ consuming' \in [Queues -> BOOLEAN] /\ \A q \in Queues : consuming[q] => consuming'[q]
      /\ UNCHANGED <<mode, currentMessage, lastMessage, held, heard, ready, unacked, toClient,
                     toServer, losses, requeues, misled, refused>>
  <2>1. PICK again \in SUBSET Queues : consuming' = [q \in Queues |-> consuming[q] \/ q \in again]
    BY DEF Reopen
  <2>2. consuming' \in [Queues -> BOOLEAN]
    BY <2>1
  <2>3. \A q \in Queues : consuming[q] => consuming'[q]
    BY <2>1
  <2> QED
    BY <2>2, <2>3 DEF Reopen, client, wires, past
<1>2. toServer = <<>> /\ \A q \in Queues : toClient[q] = <<>> /\ DOMAIN unacked[q] = {}
  BY <1>1, Facts DEF Down, Unacked
<1>3. \A q \in Queues : Len(toClient[q]) = 0 /\ ~Amid(toClient[q])
  BY <1>2 DEF Amid
<1>4. losses \in Nat /\ epoch = losses /\ losses \in 0 .. MaxLosses
  BY <1>1, Facts, DeliveryAssumption DEF Typed
<1>5. Typed'
  <2>1. tags' \in [Queues -> Nat]
    BY <1>1
  <2> QED
    BY <1>1, <1>4, <2>1, Facts DEF Typed
<1>6. Owned'
  BY <1>1, <1>2, Facts DEF Owned, Unacked
<1>7. Down'
  BY <1>1 DEF Down
<1>8. Assembled'
  BY <1>1, Facts DEF Assembled
<1>9. ASSUME NEW q \in Queues, NEW k \in 1 .. Len(heard[q])
      PROVE  heard[q][k].epoch < epoch'
  <2>1. heard[q][k].epoch <= epoch
    BY Facts DEF Ascending
  <2>2. heard[q][k] \in Deliveries
    BY Facts, TypesOf, ElementOf
  <2>3. heard[q][k].epoch \in Nat
    BY <2>2 DEF Deliveries
  <2> QED
    BY <1>1, <1>4, <2>1, <2>3
<1>10. Ascending'
  <2>1. \A q \in Queues : \A k \in 1 .. Len(heard[q]) :
          heard[q][k].epoch <= epoch' /\ heard[q][k].epoch # epoch'
    <3> SUFFICES ASSUME NEW q \in Queues, NEW k \in 1 .. Len(heard[q])
                 PROVE  heard[q][k].epoch <= epoch' /\ heard[q][k].epoch # epoch'
      OBVIOUS
    <3>1. heard[q][k] \in Deliveries
      BY Facts, TypesOf, ElementOf
    <3>2. heard[q][k].epoch \in Nat
      BY <3>1 DEF Deliveries
    <3> QED
      BY <1>1, <1>4, <1>9, <3>2
  <2>2. \A q \in Queues : \A h, e, c, n : Ascends(h, e, c, toClient[q], n)
    BY <1>3 DEF Ascends
  <2> QED
    BY <1>1, <2>1, <2>2 DEF Ascending
<1>11. Holding'
  BY <1>1, Facts DEF Holding, Unacked
<1>12. HandedOverWholeOnce'
  BY <1>1, Facts DEF HandedOverWholeOnce, HandedOverWhole, OncePerDelivery
<1>13. Kept'
  <2>1. CASE misled \/ mode.settle = "noAck"
    BY <1>1, <2>1 DEF Kept
  <2>2. CASE ~(misled \/ mode.settle = "noAck")
    <3>1. ~refused' /\ (\A q \in Queues : consuming'[q]) /\ AtLeastOnce
      BY <1>1, <2>2, Facts DEF Kept
    <3>2. AtLeastOnce'
      BY <1>1, <3>1 DEF AtLeastOnce, Heard, AtServer, Unacked
    <3>3. Accounted'
      <4>1. \A q \in Queues : \A h, e, c : Accounts(h, e, c, toClient[q], unacked[q])
        BY <1>2, <1>3 DEF Accounts
      <4> QED
        BY <1>1, <4>1 DEF Accounted
    <3>4. Settled'
      <4>1. ASSUME NEW q \in Queues, NEW d \in held[q] PROVE d.epoch # epoch'
        <5>1. PICK k \in 1 .. Len(heard[q]) : heard[q][k] = d
          BY Facts DEF Holding
        <5>2. d.epoch < epoch' /\ d.epoch \in Nat
          <6>1. d \in Deliveries
            BY Facts, TypesOf
          <6> QED
            BY <1>9, <5>1, <6>1 DEF Deliveries
        <5> QED
          BY <1>1, <1>4, <5>2
      <4>2. Len(toServer') = 0
        BY <1>1, <1>2
      <4> QED
        BY <1>1, <4>1, <4>2 DEF Settled
    <3> QED
      BY <3>1, <3>2, <3>3, <3>4 DEF Kept
  <2> QED
    BY <2>1, <2>2
<1> QED
  BY <1>5, <1>6, <1>7, <1>8, <1>10, <1>11, <1>12, <1>13 DEF IInv

-----------------------------------------------------------------------------
(* The server settles *)

\* The server reads a settlement, waits for g on queue q, and r is ready there.
Settling(q, r, g) ==
  /\ r \in Seq(Messages) /\ \A i \in 1 .. Len(r) : r[i] \in Of(q)
  /\ \A tag \in DOMAIN g : tag \in Unacked(q) /\ g[tag] = unacked[q][tag]
  /\ ready' = [ready EXCEPT ![q] = r] /\ unacked' = [unacked EXCEPT ![q] = g]
  /\ toServer # <<>> /\ toServer' = Tail(toServer)
  /\ consuming' \in [Queues -> BOOLEAN] /\ refused' \in BOOLEAN
  /\ UNCHANGED <<mode, link, epoch, currentMessage, lastMessage, held, heard, tags, toClient,
                 losses, misled>>

\* Whatever it settles or takes back, the rest of the invariant stays.
LEMMA RestStays ==
  ASSUME IInv, NEW q \in Queues, NEW r, NEW g, Settling(q, r, g)
  PROVE  /\ Typed' /\ Owned' /\ Down' /\ Assembled' /\ Ascending' /\ Holding' /\ HandedOverWholeOnce'
         /\ link = TRUE /\ mode.settle # "noAck"
         /\ \A p \in Queues : /\ ready'[p] = IF p = q THEN r ELSE ready[p]
                              /\ unacked'[p] = IF p = q THEN g ELSE unacked[p]
<1>0. /\ r \in Seq(Messages) /\ \A i \in 1 .. Len(r) : r[i] \in Of(q)
      /\ \A tag \in DOMAIN g : tag \in Unacked(q) /\ g[tag] = unacked[q][tag]
      /\ ready' = [ready EXCEPT ![q] = r] /\ unacked' = [unacked EXCEPT ![q] = g]
      /\ toServer # <<>> /\ toServer' = Tail(toServer)
      /\ consuming' \in [Queues -> BOOLEAN] /\ refused' \in BOOLEAN
      /\ UNCHANGED <<mode, link, epoch, currentMessage, lastMessage, held, heard, tags, toClient,
                     losses, misled>>
  BY DEF Settling
<1>1. link = TRUE /\ mode.settle # "noAck"
  BY <1>0, Facts DEF Down, Holding, Typed
<1>2. \A p \in Queues : /\ ready'[p] = IF p = q THEN r ELSE ready[p]
                        /\ unacked'[p] = IF p = q THEN g ELSE unacked[p]
  BY <1>0, Facts DEF Typed
<1>3. Typed'
  <2>1. ready' \in [Queues -> Seq(Messages)]
    BY <1>0, Facts DEF Typed
  <2>2. unacked' = [p \in Queues |-> unacked'[p]]
    BY <1>0, Facts DEF Typed
  <2>3. toServer' \in Seq([q : Queues, tag : Nat, kind : Settlements])
    <3> DEFINE R == [q : Queues, tag : Nat, kind : Settlements]
    <3>1. toServer \in Seq(R)
      BY <1>0, Facts DEF Typed
    <3> HIDE DEF R
    <3>2. toServer' \in Seq(R)
      BY <1>0, <3>1
    <3> QED
      BY <3>2 DEF R
  <2> QED
    BY <1>0, <2>1, <2>2, <2>3, Facts DEF Typed
<1>4. Owned'
  <2> SUFFICES ASSUME NEW p \in Queues
               PROVE  /\ \A i \in 1 .. Len(ready'[p]) : ready'[p][i] \in Of(p)
                      /\ \A tag \in DOMAIN unacked'[p] : unacked'[p][tag] \in Of(p) /\ tag \in 1 .. tags[p]
                      /\ currentMessage[p] # None => currentMessage[p].read <= Size[currentMessage[p].m]
    BY <1>0 DEF Owned, Unacked
  <2>1. /\ \A i \in 1 .. Len(ready[p]) : ready[p][i] \in Of(p)
        /\ \A tag \in DOMAIN unacked[p] : unacked[p][tag] \in Of(p) /\ tag \in 1 .. tags[p]
        /\ currentMessage[p] # None => currentMessage[p].read <= Size[currentMessage[p].m]
    BY <1>0, Facts DEF Owned, Unacked
  <2> QED
    BY <1>0, <1>2, <2>1 DEF Unacked
<1>5. Down'
  BY <1>0, <1>1 DEF Down
<1>6. Assembled' /\ Ascending'
  BY <1>0, Facts DEF Assembled, Ascending
<1>7. Holding'
  BY <1>0, <1>1, Facts DEF Holding
<1>8. HandedOverWholeOnce'
  <2>1. UNCHANGED heard
    BY <1>0
  <2> QED
    BY <1>0, <2>1, Facts DEF HandedOverWholeOnce, HandedOverWhole, OncePerDelivery
<1> QED
  BY <1>0, <1>1, <1>2, <1>3, <1>4, <1>5, <1>6, <1>7, <1>8

\* What was heard of this connection is on its way no more.
LEMMA HeardNotFlying ==
  ASSUME NEW h, NEW e, NEW c, NEW w, NEW n \in Nat, Ascends(h, e, c, w, n),
         NEW tag \in Int, NEW m, HeardAs(h, e, tag, m), NEW other \in Int, other <= tag
  PROVE  ~Flying(c, w, other)
<1>1. PICK k \in 1 .. Len(h) : h[k].epoch = e /\ h[k].tag = tag
  BY DEF HeardAs
<1>2. \A x \in 1 .. n : Above(h, e, x) => tag < x
  BY <1>1 DEF Above
<1>3. Amid(w) => c.tag # other
  BY <1>2 DEF Ascends
<1>4. \A i \in 1 .. Len(w) : w[i].kind = "deliver" => w[i].tag # other
  BY <1>2 DEF Ascends
<1> QED
  BY <1>3, <1>4 DEF Flying

\* The server settles a tag, or those up to it, or closes the channel.
LEMMA ServerSettlesKeeps ==
  ASSUME IInv, ServerSettles
  PROVE  IInv'
<1>1. PICK s : s = Head(toServer)
  OBVIOUS
<1>2. PICK q : q = s.q
  OBVIOUS
<1> DEFINE u == unacked[q]
           settled == {tag \in Unacked(q) : tag = s.tag \/ (s.kind = "ackAll" /\ tag < s.tag)}
           g == [tag \in Unacked(q) \ settled |-> u[tag]]
           r == Requeued(q, settled)
<1>3. /\ toServer # <<>> /\ toServer' = Tail(toServer)
      /\ UNCHANGED <<mode, link, epoch, currentMessage, lastMessage, held, heard, tags, toClient,
                     losses, requeues, misled>>
  BY DEF ServerSettles, client
<1>4. \/ ~consuming[q] /\ UNCHANGED <<ready, unacked, consuming, refused>>
      \/ /\ consuming[q] /\ settled # {} /\ unacked' = [unacked EXCEPT ![q] = g]
         /\ IF s.kind = "requeue" THEN ready' = [ready EXCEPT ![q] = r] ELSE UNCHANGED ready
         /\ UNCHANGED <<consuming, refused>>
      \/ /\ consuming[q] /\ settled = {} /\ consuming' = [consuming EXCEPT ![q] = FALSE]
         /\ refused' = TRUE /\ ready' = [ready EXCEPT ![q] = Requeued(q, Unacked(q))]
         /\ unacked' = [unacked EXCEPT ![q] = <<>>]
  BY <1>1, <1>2 DEF ServerSettles
<1> DEFINE R == [q : Queues, tag : Nat, kind : Settlements]
<1>5. \A x \in R : x.q \in Queues /\ x.tag \in Nat
  OBVIOUS
<1> HIDE DEF R
<1>6. /\ toServer \in Seq(R) /\ s = toServer[1] /\ s \in R /\ Len(toServer) \in Nat \ {0}
      /\ Len(toServer') = Len(toServer) - 1
      /\ \A i \in 1 .. Len(toServer') : toServer'[i] = toServer[i + 1]
  <2>1. toServer \in Seq(R)
    BY Facts DEF Typed, R
  <2> QED
    BY <1>1, <1>3, <2>1, TailAt
<1>7. q \in Queues /\ s.tag \in Nat
  BY <1>2, <1>5, <1>6
<1>8. /\ r \in Seq(Messages) /\ \A i \in 1 .. Len(r) : r[i] \in Of(q)
      /\ \A tag \in settled : \E i \in 1 .. Len(r) : r[i] = u[tag]
      /\ \A j \in 1 .. Len(ready[q]) : \E i \in 1 .. Len(r) : r[i] = ready[q][j]
  <2>1. settled \in SUBSET Unacked(q)
    OBVIOUS
  <2> HIDE DEF settled
  <2> QED
    BY <1>7, <2>1, Facts, RequeuedIs
<1>9. /\ ready = [p \in Queues |-> ready[p]] /\ unacked = [p \in Queues |-> unacked[p]]
      /\ consuming \in [Queues -> BOOLEAN] /\ refused \in BOOLEAN
      /\ ready[q] \in Seq(Messages) /\ \A i \in 1 .. Len(ready[q]) : ready[q][i] \in Of(q)
  BY <1>7, Facts DEF Typed, Owned
<1>10. CASE ~consuming[q] /\ UNCHANGED <<ready, unacked, consuming, refused>>
  <2>1. ready' = [ready EXCEPT ![q] = ready[q]] /\ unacked' = [unacked EXCEPT ![q] = unacked[q]]
    BY <1>7, <1>9, <1>10
  <2>0. /\ consuming' \in [Queues -> BOOLEAN] /\ refused' \in BOOLEAN
        /\ \A tag \in DOMAIN unacked[q] : tag \in Unacked(q)
    BY <1>9, <1>10 DEF Unacked
  <2>2. /\ Typed' /\ Owned' /\ Down' /\ Assembled' /\ Ascending' /\ Holding' /\ HandedOverWholeOnce'
        /\ mode.settle # "noAck"
    <3> HIDE DEF u, g, r, settled
    <3> QED
      <4>1. Settling(q, ready[q], unacked[q])
        BY <1>3, <1>9, <2>0, <2>1 DEF Settling
      <4> QED
        BY <1>7, <4>1, RestStays
  <2>3. misled
    BY <1>7, <1>10, <2>2, Facts DEF Kept
  <2>4. Kept'
    BY <1>3, <2>3 DEF Kept
  <2> QED
    BY <2>2, <2>4 DEF IInv
<1>11. CASE /\ consuming[q] /\ settled = {} /\ consuming' = [consuming EXCEPT ![q] = FALSE]
            /\ refused' = TRUE /\ ready' = [ready EXCEPT ![q] = Requeued(q, Unacked(q))]
            /\ unacked' = [unacked EXCEPT ![q] = <<>>]
  <2> DEFINE all == Requeued(q, Unacked(q))
             none == <<>>
  <2>1. all \in Seq(Messages) /\ \A i \in 1 .. Len(all) : all[i] \in Of(q)
    BY <1>7, Facts, RequeuedIs
  <2>2. \A tag \in DOMAIN none : tag \in Unacked(q) /\ none[tag] = unacked[q][tag]
    OBVIOUS
  <2>3. consuming' \in [Queues -> BOOLEAN] /\ refused' \in BOOLEAN
    BY <1>7, <1>9, <1>11
  <2>4. ready' = [ready EXCEPT ![q] = all] /\ unacked' = [unacked EXCEPT ![q] = none]
    BY <1>11
  <2> HIDE DEF all, none
  <2>5. /\ Typed' /\ Owned' /\ Down' /\ Assembled' /\ Ascending' /\ Holding' /\ HandedOverWholeOnce'
        /\ mode.settle # "noAck"
    <3>1. Settling(q, all, none)
      BY <1>3, <2>1, <2>2, <2>3, <2>4 DEF Settling
    <3> QED
      BY <1>7, <3>1, RestStays
  <2>6. misled
    <3> SUFFICES ASSUME ~misled PROVE FALSE
      OBVIOUS
    <3>1. Settled
      BY <2>5, Facts DEF Kept
    <3>2. 1 \in 1 .. Len(toServer)
      BY <1>6
    <3>3. s.tag \in Unacked(q)
      BY <1>2, <1>6, <3>1, <3>2 DEF Settled, Expected, Unacked
    <3> QED
      BY <1>11, <3>3
  <2>7. Kept'
    BY <1>3, <2>6 DEF Kept
  <2> QED
    BY <2>5, <2>7 DEF IInv
<1>12. CASE /\ consuming[q] /\ settled # {} /\ unacked' = [unacked EXCEPT ![q] = g]
            /\ IF s.kind = "requeue" THEN ready' = [ready EXCEPT ![q] = r] ELSE UNCHANGED ready
            /\ UNCHANGED <<consuming, refused>>
  <2> DEFINE rr == IF s.kind = "requeue" THEN r ELSE ready[q]
  <2>1. ready' = [ready EXCEPT ![q] = rr] /\ unacked' = [unacked EXCEPT ![q] = g]
    BY <1>7, <1>9, <1>12
  <2>2. rr \in Seq(Messages) /\ \A i \in 1 .. Len(rr) : rr[i] \in Of(q)
    BY <1>8, <1>9
  <2>3. \A tag \in Unacked(q) : tag \in settled <=> Covers(s, tag)
    BY DEF Covers
  <2>4. /\ DOMAIN g = Unacked(q) \ settled
        /\ \A tag \in DOMAIN g : tag \in Unacked(q) /\ g[tag] = unacked[q][tag]
    OBVIOUS
  <2>5. settled \subseteq Unacked(q)
    OBVIOUS
  <2> HIDE DEF g, rr, settled
  <2>6. /\ Typed' /\ Owned' /\ Down' /\ Assembled' /\ Ascending' /\ Holding' /\ HandedOverWholeOnce'
        /\ mode.settle # "noAck"
        /\ \A p \in Queues : /\ ready'[p] = IF p = q THEN rr ELSE ready[p]
                             /\ unacked'[p] = IF p = q THEN g ELSE unacked[p]
    <3>1. consuming' \in [Queues -> BOOLEAN] /\ refused' \in BOOLEAN
      BY <1>9, <1>12
    <3>2. \A tag \in DOMAIN g : tag \in Unacked(q) /\ g[tag] = unacked[q][tag]
      BY <2>4
    <3> HIDE DEF u, r
    <3>3. Settling(q, rr, g)
      BY <1>3, <2>1, <2>2, <3>1, <3>2 DEF Settling
    <3> QED
      BY <1>7, <3>3, RestStays
  <2>7. CASE misled
    BY <1>3, <2>6, <2>7 DEF Kept, IInv
  <2>8. CASE ~misled
    <3>1. ~refused /\ (\A p \in Queues : consuming[p]) /\ AtLeastOnce /\ Accounted /\ Settled
      BY <2>6, <2>8, Facts DEF Kept
    <3>2. /\ Expected(heard[q], epoch, held[q], u, s)
          /\ \A j \in 2 .. Len(toServer) : toServer[j].q = q => ~Covers(s, toServer[j].tag)
      <4>1. 1 \in 1 .. Len(toServer) /\ 1 + 1 = 2
        BY <1>6
      <4> QED
        BY <1>2, <1>6, <3>1, <4>1 DEF Settled
    <3>3. ASSUME NEW tag \in settled
          PROVE  ~Flying(currentMessage[q], toClient[q], tag) /\ HeardAs(heard[q], epoch, tag, u[tag])
      <4>1. Ascends(heard[q], epoch, currentMessage[q], toClient[q], tags[q]) /\ tags[q] \in Nat
        BY <1>7, Facts, TypesOf DEF Ascending
      <4>2. Accounts(heard[q], epoch, currentMessage[q], toClient[q], u)
        BY <1>7, <3>1 DEF Accounted
      <4>3. tag \in Int /\ s.tag \in Int /\ tag \in DOMAIN u
        BY <1>7, <2>5, Facts DEF Owned, Unacked
      <4>4. tag <= s.tag
        BY <2>3, <2>5, <4>3 DEF Covers
      <4>5. ~Flying(currentMessage[q], toClient[q], tag)
        <5>1. HeardAs(heard[q], epoch, s.tag, u[s.tag])
          BY <3>2 DEF Expected
        <5> HIDE DEF u
        <5> QED
          BY <4>1, <4>3, <4>4, <5>1, HeardNotFlying
      <4> QED
        BY <4>2, <4>3, <4>5 DEF Accounts
    <3>4. AtLeastOnce'
      <4> SUFFICES ASSUME NEW p \in Queues, NEW a \in ToSet(Backlog[p])
                   PROVE  Heard(p, a) \/ AtServer(p, a)'
        BY <1>3 DEF AtLeastOnce, Heard
      <4>1. Heard(p, a) \/ AtServer(p, a)
        BY <2>6, <3>1 DEF AtLeastOnce
      <4>2. CASE p # q
        BY <2>6, <4>1, <4>2 DEF AtServer, Unacked
      <4>3. CASE p = q /\ \E tag \in DOMAIN u : u[tag] = a
        <5>1. PICK tag \in DOMAIN u : u[tag] = a
          BY <4>3
        <5>2. CASE tag \in settled
          BY <3>3, <4>3, <5>1, <5>2 DEF HeardAs, Heard
        <5>3. CASE tag \notin settled
          BY <2>4, <2>6, <4>3, <5>1, <5>3 DEF AtServer, Unacked
        <5> QED
          BY <5>2, <5>3
      <4>4. CASE p = q /\ a \in ToSet(ready[q])
        <5>1. a \in ToSet(rr)
          <6>1. PICK j \in 1 .. Len(ready[q]) : ready[q][j] = a
            BY <1>9, <4>4, InToSet
          <6>2. \E i \in 1 .. Len(rr) : rr[i] = a
            BY <1>8, <6>1 DEF rr
          <6> QED
            BY <2>2, <6>2, InToSet
        <5> QED
          BY <2>6, <4>4, <5>1 DEF AtServer
      <4> QED
        BY <4>1, <4>2, <4>3, <4>4 DEF AtServer, Unacked
    <3>5. Accounted'
      <4> SUFFICES ASSUME NEW p \in Queues
                   PROVE  Accounts(heard[p], epoch, currentMessage[p], toClient[p], unacked'[p])
        BY <1>3 DEF Accounted
      <4>1. Accounts(heard[p], epoch, currentMessage[p], toClient[p], unacked[p])
        BY <3>1 DEF Accounted
      <4>2. CASE p # q
        BY <2>6, <4>1, <4>2
      <4>3. CASE p = q
        <5>1. \A tag \in DOMAIN u : Flying(currentMessage[q], toClient[q], tag) =>
                tag \in DOMAIN g /\ g[tag] = u[tag]
          BY <2>4, <3>3 DEF Unacked
        <5>2. \A tag \in DOMAIN g : tag \in DOMAIN u /\ g[tag] = u[tag]
          BY <2>4 DEF Unacked
        <5>3. Accounts(heard[q], epoch, currentMessage[q], toClient[q], u)
          BY <4>1, <4>3
        <5> HIDE DEF u
        <5>4. \A tag \in DOMAIN g : Flying(currentMessage[q], toClient[q], tag)
                                      \/ HeardAs(heard[q], epoch, tag, g[tag])
          BY <5>2, <5>3 DEF Accounts
        <5>5. ASSUME NEW i \in 1 .. Len(toClient[q]), toClient[q][i].kind = "deliver"
              PROVE  toClient[q][i].tag \in DOMAIN g /\ g[toClient[q][i].tag] = toClient[q][i].m
          BY <5>1, <5>3, <5>5 DEF Accounts, Flying
        <5>6. Amid(toClient[q]) => /\ currentMessage[q].tag \in DOMAIN g
                                   /\ g[currentMessage[q].tag] = currentMessage[q].m
          BY <5>1, <5>3 DEF Accounts, Flying
        <5>7. Accounts(heard[q], epoch, currentMessage[q], toClient[q], g)
          BY <5>4, <5>5, <5>6 DEF Accounts
        <5> QED
          BY <2>6, <4>3, <5>7
      <4> QED
        BY <4>2, <4>3
    <3>6. Settled'
      <4>1. ASSUME NEW p \in Queues, NEW d \in held[p], link, d.epoch = epoch
            PROVE  d.tag \in DOMAIN unacked'[p]
        <5>1. d.tag \in Unacked(p)
          BY <3>1, <4>1 DEF Settled
        <5>2. p = q => ~Covers(s, d.tag)
          BY <3>2, <4>1 DEF Expected
        <5> QED
          BY <2>3, <2>4, <2>6, <5>1, <5>2 DEF Unacked
      <4>2. ASSUME NEW i \in 1 .. Len(toServer'), NEW x, x = toServer'[i]
            PROVE  /\ Expected(heard[x.q], epoch, held[x.q], unacked'[x.q], x)
                   /\ \A j \in i + 1 .. Len(toServer') : toServer'[j].q = x.q => ~Covers(x, toServer'[j].tag)
        <5>1. i + 1 \in 1 .. Len(toServer) /\ i + 1 \in 2 .. Len(toServer) /\ x = toServer[i + 1]
          BY <1>6, <4>2
        <5>2. /\ Expected(heard[x.q], epoch, held[x.q], unacked[x.q], x)
              /\ \A j \in (i + 1) + 1 .. Len(toServer) : toServer[j].q = x.q => ~Covers(x, toServer[j].tag)
          BY <3>1, <5>1 DEF Settled
        <5>3. x.q = q => ~Covers(s, x.tag)
          BY <3>2, <5>1
        <5>4. x.q \in Queues
          BY <1>5, <1>6, <5>1, ElementOf
        <5>5. x.tag \in DOMAIN unacked'[x.q] /\ unacked'[x.q][x.tag] = unacked[x.q][x.tag]
          BY <2>3, <2>4, <2>6, <5>2, <5>3, <5>4 DEF Expected, Unacked
        <5>6. Expected(heard[x.q], epoch, held[x.q], unacked'[x.q], x)
          BY <5>2, <5>5 DEF Expected
        <5>7. ASSUME NEW j \in i + 1 .. Len(toServer'), toServer'[j].q = x.q
              PROVE  ~Covers(x, toServer'[j].tag)
          <6>1. j + 1 \in (i + 1) + 1 .. Len(toServer) /\ toServer'[j] = toServer[j + 1]
            BY <1>6
          <6> QED
            BY <5>2, <5>7, <6>1
        <5> QED
          BY <5>6, <5>7
      <4> QED
        BY <1>3, <4>1, <4>2 DEF Settled, Unacked
    <3>7. Kept'
      BY <1>3, <1>12, <3>1, <3>4, <3>5, <3>6 DEF Kept
    <3> QED
      BY <2>6, <3>7 DEF IInv
  <2> QED
    BY <2>7, <2>8
<1> QED
  BY <1>4, <1>10, <1>11, <1>12

-----------------------------------------------------------------------------
(* The application settles *)

\* A settlement with this tag is written for d, or none is.
Writes(q, d, tag, kind) ==
  \/ UNCHANGED <<toServer, misled>>
  \/ /\ link /\ toServer' = Append(toServer, [q |-> q, tag |-> tag, kind |-> kind])
     /\ misled' \in BOOLEAN /\ (misled => misled')
     /\ ~misled' => tag = d.tag /\ d.epoch = epoch

\* The application no longer holds d: H is what it still does.
Releases(q, d, kind, H) ==
  /\ held' = [held EXCEPT ![q] = H] /\ H \subseteq held[q] /\ d \notin H
  /\ kind = "ackAll" => \A e \in H : ~(e.epoch = d.epoch /\ e.tag < d.tag)

\* Two messages heard with one tag are one.
LEMMA HeardUnique ==
  ASSUME IInv, NEW q \in Queues, NEW d \in held[q], NEW e \in held[q],
         d.epoch = e.epoch, d.tag = e.tag
  PROVE  d = e
<1>1. PICK i \in 1 .. Len(heard[q]) : heard[q][i] = d
  BY Facts DEF Holding
<1>2. PICK j \in 1 .. Len(heard[q]) : heard[q][j] = e
  BY Facts DEF Holding
<1>3. d \in Deliveries /\ e \in Deliveries
  BY Facts, TypesOf
<1>4. d.epoch \in Nat /\ d.tag \in Nat
  BY <1>3 DEF Deliveries
<1>5. ASSUME NEW a \in 1 .. Len(heard[q]), NEW b \in 1 .. Len(heard[q]), a < b
      PROVE  \/ heard[q][a].epoch < heard[q][b].epoch
             \/ heard[q][a].epoch = heard[q][b].epoch /\ heard[q][a].tag < heard[q][b].tag
  BY <1>5, Facts DEF OncePerDelivery
<1>6. i = j
  BY SMTT(30), <1>1, <1>2, <1>4, <1>5
<1> QED
  BY <1>1, <1>2, <1>6

\* The invariant stays when the application settles d, with whatever tag it writes.
LEMMA SettlesKeeps ==
  ASSUME IInv, NEW q \in Queues, NEW d \in held[q], NEW kind \in Settlements, NEW tag \in Nat, NEW H,
         mode.settle # "noAck", Writes(q, d, tag, kind), Releases(q, d, kind, H),
         lastMessage' \in [Queues -> Deliveries \cup {None}],
         UNCHANGED <<mode, link, epoch, currentMessage, heard, ready, unacked, tags, consuming,
                     toClient, losses, refused>>
  PROVE  IInv'
<1> DEFINE x == [q |-> q, tag |-> tag, kind |-> kind]
           R == [q : Queues, tag : Nat, kind : Settlements]
<1>1. x \in R /\ x.q = q /\ x.tag = tag /\ x.kind = kind /\ \A y \in R : y.q \in Queues
  OBVIOUS
<1>2. toServer \in Seq(R) /\ Len(toServer) \in Nat
  BY Facts DEF Typed
<1> HIDE DEF x, R
<1>3. /\ misled' \in BOOLEAN /\ (misled => misled')
      /\ \/ toServer' = toServer
         \/ /\ link /\ toServer' = Append(toServer, x)
            /\ ~misled' => tag = d.tag /\ d.epoch = epoch
  <2>1. misled \in BOOLEAN
    BY Facts DEF Typed
  <2>2. CASE UNCHANGED <<toServer, misled>>
    BY <2>1, <2>2
  <2>3. CASE ~UNCHANGED <<toServer, misled>>
    BY <2>3 DEF Writes, x
  <2> QED
    BY <2>2, <2>3
<1>4. /\ held' \in [Queues -> SUBSET Deliveries] /\ H \subseteq held[q] /\ d \notin H
      /\ \A p \in Queues : held'[p] = IF p = q THEN H ELSE held[p]
  <2>1. held \in [Queues -> SUBSET Deliveries]
    BY Facts DEF Typed
  <2> QED
    BY <2>1 DEF Releases
<1>5. \A p \in Queues : held'[p] \subseteq held[p]
  BY <1>4
<1>6. Append(toServer, x) \in Seq(R) /\ Len(Append(toServer, x)) = Len(toServer) + 1
      /\ Append(toServer, x)[Len(toServer) + 1] = x
      /\ \A i \in 1 .. Len(toServer) : Append(toServer, x)[i] = toServer[i]
  BY <1>1, <1>2, AppendAt
<1>7. Typed'
  <2>1. toServer' \in Seq(R)
    BY <1>2, <1>3, <1>6
  <2>2. misled' \in BOOLEAN
    BY <1>3
  <2> QED
    BY <1>4, <2>1, <2>2, Facts DEF Typed, R
<1>8. Owned' /\ Assembled' /\ Ascending'
  BY Facts DEF Owned, Assembled, Ascending, Unacked
<1>9. Down'
  BY <1>3, Facts DEF Down, Unacked
<1>10. Holding'
  BY <1>5, Facts DEF Holding
<1>11. HandedOverWholeOnce'
  <2>1. UNCHANGED heard
    OBVIOUS
  <2> QED
    BY <2>1, Facts DEF HandedOverWholeOnce, HandedOverWhole, OncePerDelivery
<1>12. Kept'
  <2>1. CASE misled'
    BY <2>1 DEF Kept
  <2>2. CASE ~misled'
    <3>0. ~misled
      BY <1>3, <2>2
    <3>1. ~refused /\ (\A p \in Queues : consuming[p]) /\ AtLeastOnce /\ Accounted /\ Settled
      BY <3>0, Facts DEF Kept
    <3>2. AtLeastOnce' /\ Accounted'
      BY <3>1 DEF AtLeastOnce, Heard, AtServer, Accounted, Unacked
    <3>3. ASSUME NEW i \in 1 .. Len(toServer), NEW s, s = toServer[i]
          PROVE  /\ Expected(heard[s.q], epoch, held'[s.q], unacked[s.q], s)
                 /\ \A j \in i + 1 .. Len(toServer) : toServer[j].q = s.q => ~Covers(s, toServer[j].tag)
                 /\ d.epoch = epoch /\ s.q = q => ~Covers(s, d.tag)
      <4>1. s.q \in Queues
        BY <1>1, <1>2, <3>3, ElementOf
      <4>2. /\ Expected(heard[s.q], epoch, held[s.q], unacked[s.q], s)
            /\ \A j \in i + 1 .. Len(toServer) : toServer[j].q = s.q => ~Covers(s, toServer[j].tag)
        BY <3>1, <3>3 DEF Settled
      <4> QED
        BY <1>5, <4>1, <4>2 DEF Expected
    <3>4. \A p \in Queues : \A e \in held'[p] : link /\ e.epoch = epoch => e.tag \in DOMAIN unacked[p]
      BY <1>5, <3>1 DEF Settled, Unacked
    <3>5. CASE toServer' = toServer
      <4>1. Settled'
        BY <3>3, <3>4, <3>5 DEF Settled, Unacked
      <4> QED
        BY <3>1, <3>2, <4>1 DEF Kept
    <3>6. CASE link /\ toServer' = Append(toServer, x) /\ tag = d.tag /\ d.epoch = epoch
      <4>1. tag \in DOMAIN unacked[q]
        BY <3>1, <3>6 DEF Settled, Unacked
      <4>2. PICK k \in 1 .. Len(heard[q]) : heard[q][k] = d
        BY Facts DEF Holding
      <4>3. HeardAs(heard[q], epoch, tag, unacked[q][tag])
        <5>1. Accounts(heard[q], epoch, currentMessage[q], toClient[q], unacked[q])
          BY <3>1 DEF Accounted
        <5>2. Ascends(heard[q], epoch, currentMessage[q], toClient[q], tags[q]) /\ tags[q] \in Nat
          BY Facts, TypesOf DEF Ascending
        <5>3. HeardAs(heard[q], epoch, tag, d.m)
          BY <3>6, <4>2 DEF HeardAs
        <5>4. ~Flying(currentMessage[q], toClient[q], tag)
          <6>1. tag \in Int /\ tag <= tag
            OBVIOUS
          <6> QED
            BY <5>2, <5>3, <6>1, HeardNotFlying
        <5> QED
          BY <4>1, <5>1, <5>4 DEF Accounts
      <4>4. ASSUME NEW e \in H, e.epoch = epoch PROVE ~Covers(x, e.tag)
        <5>1. e.tag # d.tag
          BY <1>4, <3>6, <4>4, HeardUnique
        <5>2. kind = "ackAll" => ~(e.tag < d.tag)
          BY <3>6, <4>4 DEF Releases
        <5> QED
          BY <1>1, <3>6, <5>1, <5>2 DEF Covers
      <4>5. Expected(heard[q], epoch, held'[q], unacked[q], x)
        BY <1>1, <1>4, <4>1, <4>3, <4>4 DEF Expected
      <4>6. ASSUME NEW i \in 1 .. Len(toServer'), NEW s, s = toServer'[i]
            PROVE  /\ Expected(heard[s.q], epoch, held'[s.q], unacked[s.q], s)
                   /\ \A j \in i + 1 .. Len(toServer') : toServer'[j].q = s.q => ~Covers(s, toServer'[j].tag)
        <5>1. CASE i = Len(toServer) + 1
          <6>1. s = x
            BY <1>6, <3>6, <4>6, <5>1
          <6>2. \A j \in i + 1 .. Len(toServer') : FALSE
            BY <1>2, <1>6, <3>6, <5>1
          <6> QED
            BY <1>1, <4>5, <6>1, <6>2
        <5>2. CASE i # Len(toServer) + 1
          <6>1. i \in 1 .. Len(toServer) /\ s = toServer[i]
            BY <1>2, <1>6, <3>6, <4>6, <5>2
          <6>2. ASSUME NEW j \in i + 1 .. Len(toServer'), toServer'[j].q = s.q
                PROVE  ~Covers(s, toServer'[j].tag)
            <7>1. CASE j = Len(toServer) + 1
              BY <1>1, <1>6, <3>3, <3>6, <6>1, <6>2, <7>1
            <7>2. CASE j # Len(toServer) + 1
              <8>1. j \in i + 1 .. Len(toServer) /\ j \in 1 .. Len(toServer)
                BY <1>2, <1>6, <3>6, <6>1, <7>2
              <8> QED
                BY <1>6, <3>3, <3>6, <6>1, <6>2, <8>1
            <7> QED
              BY <7>1, <7>2
          <6> QED
            BY <3>3, <6>1, <6>2
        <5> QED
          BY <5>1, <5>2
      <4>7. Settled'
        BY <3>4, <4>6 DEF Settled, Unacked
      <4> QED
        BY <3>1, <3>2, <4>7 DEF Kept
    <3> QED
      BY <1>3, <2>2, <3>5, <3>6
  <2> QED
    BY <2>1, <2>2
<1> QED
  BY <1>7, <1>8, <1>9, <1>10, <1>11, <1>12 DEF IInv

\* What is sent is written.
LEMMA SendWrites ==
  ASSUME IInv, NEW q, NEW d, NEW m, NEW kind, Send(q, d, m, kind)
  PROVE  Writes(q, d, m.tag, kind)
<1>1. link \in BOOLEAN /\ misled \in BOOLEAN
  BY Facts DEF Typed
<1>2. CASE link
  <2>1. toServer' = Append(toServer, [q |-> q, tag |-> m.tag, kind |-> kind])
    BY <1>2 DEF Send
  <2>2. misled' = (misled \/ ~(m.tag = d.tag /\ m.epoch = d.epoch /\ d.epoch = epoch))
    BY <1>2, Zenon DEF Send
  <2> QED
    BY <1>2, <2>1, <2>2, Zenon DEF Writes
<1>3. CASE ~link
  <2>1. toServer' = toServer
    BY <1>3 DEF Send
  <2>2. misled' = (misled \/ FALSE)
    BY <1>3, Zenon DEF Send
  <2>3. misled' = misled
    BY <1>1, <2>2
  <2> QED
    BY <2>1, <2>3 DEF Writes
<1> QED
  BY <1>2, <1>3

\* acknowledge(), reject() and shift().
LEMMA AppSettlesKeeps ==
  ASSUME IInv, NEW q \in Queues, AppSettles(q)
  PROVE  IInv'
<1>1. PICK d \in held[q], kind \in Settlements : Settle(q, d, kind) \/ Shift(q, d, kind)
  BY DEF AppSettles
<1>2. UNCHANGED <<mode, link, epoch, currentMessage, heard, ready, unacked, tags, consuming,
                  toClient, losses, refused>>
  BY DEF AppSettles, server
<1>3. d \in Deliveries /\ d.tag \in Nat
  <2>1. d \in Deliveries
    BY Facts, TypesOf
  <2> QED
    BY <2>1 DEF Deliveries
<1>4. lastMessage \in [Queues -> Deliveries \cup {None}] /\ held = [p \in Queues |-> held[p]]
  BY Facts DEF Typed
<1>5. CASE Settle(q, d, kind)
  <2> DEFINE H == {e \in held[q] : e # d /\ ~(kind = "ackAll" /\ e.epoch = d.epoch /\ e.tag < d.tag)}
  <2>1. Releases(q, d, kind, H)
    BY <1>4, <1>5 DEF Settle, Releases
  <2>2. Writes(q, d, d.tag, kind)
    BY <1>5, SendWrites DEF Settle
  <2>3. mode.settle # "noAck" /\ lastMessage' \in [Queues -> Deliveries \cup {None}]
    BY <1>4, <1>5 DEF Settle
  <2> HIDE DEF H
  <2> QED
    BY <1>2, <1>3, <2>1, <2>2, <2>3, SettlesKeeps
<1>6. CASE Shift(q, d, kind)
  <2> DEFINE H == held[q] \ {d}
  <2>1. Releases(q, d, kind, H)
    BY <1>4, <1>6 DEF Shift, Releases
  <2>2. mode.settle # "noAck"
    BY <1>6 DEF Shift
  <2> HIDE DEF H
  <2>3. CASE lastMessage[q] = None
    <3>1. Writes(q, d, 0, kind) /\ lastMessage' = lastMessage
      BY <1>6, <2>3 DEF Shift, Writes
    <3> QED
      BY <1>2, <1>4, <2>1, <2>2, <3>1, SettlesKeeps
  <2>4. CASE lastMessage[q] # None
    <3> DEFINE last == lastMessage[q]
    <3>1. last \in Deliveries
      BY <1>4, <2>4
    <3>2. last.tag \in Nat
      BY <3>1 DEF Deliveries
    <3>3. Writes(q, d, last.tag, kind)
      BY <1>6, <2>4, SendWrites DEF Shift
    <3>4. lastMessage' \in [Queues -> Deliveries \cup {None}]
      BY <1>4, <1>6, <2>4 DEF Shift
    <3> HIDE DEF last
    <3> QED
      BY <1>2, <2>1, <2>2, <3>2, <3>3, <3>4, SettlesKeeps
  <2> QED
    BY <2>3, <2>4
<1> QED
  BY <1>1, <1>5, <1>6

-----------------------------------------------------------------------------
(* The specification *)

\* It holds at first.
LEMMA InitIInv ==
  ASSUME Init
  PROVE  IInv
<1>1. /\ mode \in Modes /\ link = TRUE /\ epoch = 1
      /\ currentMessage = [q \in Queues |-> None] /\ lastMessage = [q \in Queues |-> None]
      /\ held = [q \in Queues |-> {}] /\ heard = [q \in Queues |-> <<>>]
      /\ ready = Backlog /\ unacked = [q \in Queues |-> <<>>]
      /\ tags = [q \in Queues |-> 0] /\ consuming = [q \in Queues |-> TRUE]
      /\ toClient = [q \in Queues |-> <<>>] /\ toServer = <<>>
      /\ losses = 0 /\ misled = FALSE /\ refused = FALSE
  BY DEF Init
<1>2. \A q \in Queues : /\ currentMessage[q] = None /\ held[q] = {} /\ heard[q] = <<>>
                        /\ unacked[q] = <<>> /\ toClient[q] = <<>> /\ consuming[q]
                        /\ DOMAIN unacked[q] = {} /\ Len(heard[q]) = 0 /\ Len(toClient[q]) = 0
  BY <1>1
<1>3. ready \in [Queues -> Seq(Messages)] /\ MaxLosses \in Nat
  BY <1>1, DeliveryAssumption
<1>4. Typed
  <2>1. /\ currentMessage \in [Queues -> Deliveries \cup {None}]
        /\ lastMessage \in [Queues -> Deliveries \cup {None}]
        /\ held \in [Queues -> SUBSET Deliveries]
    BY <1>1
  <2>2. heard \in [Queues -> Seq(Deliveries)]
    BY <1>1
  <2>3. tags \in [Queues -> Nat] /\ consuming \in [Queues -> BOOLEAN]
    BY <1>1
  <2>4. toClient \in [Queues -> Seq(FrameSet)]
    BY <1>1
  <2>5. toServer \in Seq([q : Queues, tag : Nat, kind : Settlements])
    BY <1>1
  <2>6. unacked = [q \in Queues |-> unacked[q]]
    BY <1>1
  <2>7. losses \in 0 .. MaxLosses /\ epoch = losses + (IF link THEN 1 ELSE 0) /\ epoch # 0
    BY <1>1, <1>3
  <2> QED
    BY <1>1, <1>3, <2>1, <2>2, <2>3, <2>4, <2>5, <2>6, <2>7 DEF Typed
<1>5. \A q \in Queues : \A m : (\E i \in 1 .. Len(ready[q]) : ready[q][i] = m) <=> m \in Of(q)
  BY <1>1, <1>3, InToSet DEF Of
<1>6. Owned
  BY <1>2, <1>3, <1>5 DEF Owned, Unacked
<1>7. Down
  BY <1>1 DEF Down
<1>8. Assembled
  BY <1>2 DEF Assembled, Framed
<1>9. Ascending
  BY <1>2 DEF Ascending, Ascends, Amid
<1>10. Holding
  BY <1>1, <1>2 DEF Holding, Unacked
<1>11. HandedOverWholeOnce
  BY <1>2 DEF HandedOverWholeOnce, HandedOverWhole, OncePerDelivery
<1>12. Kept
  <2>1. AtLeastOnce
    BY <1>1 DEF AtLeastOnce, AtServer
  <2>2. Accounted
    BY <1>2 DEF Accounted, Accounts, Amid
  <2>3. Len(toServer) = 0
    BY <1>1
  <2>4. Settled
    BY <1>2, <2>3 DEF Settled
  <2> QED
    BY <1>1, <1>2, <2>1, <2>2, <2>4 DEF Kept
<1> QED
  BY <1>4, <1>6, <1>7, <1>8, <1>9, <1>10, <1>11, <1>12 DEF IInv

\* Steps that change nothing.
LEMMA StutterKeeps ==
  ASSUME IInv, UNCHANGED vars
  PROVE  IInv'
<1>1. UNCHANGED <<mode, link, epoch, currentMessage, lastMessage, held, heard, ready, unacked, tags,
                  consuming, toClient, toServer, losses, misled, refused>>
  BY DEF vars, client, server, wires, past
<1>2. Typed' /\ Owned' /\ Down'
  BY <1>1, Facts DEF Typed, Owned, Down, Unacked
<1>3. Assembled' /\ Ascending'
  BY <1>1, Facts DEF Assembled, Ascending
<1>4. Holding'
  BY <1>1, Facts DEF Holding, Unacked
<1>5. HandedOverWholeOnce'
  BY <1>1, Facts DEF HandedOverWholeOnce, HandedOverWhole, OncePerDelivery
<1>6. Kept'
  BY <1>1, Facts DEF Kept, AtLeastOnce, Heard, AtServer, Accounted, Settled, Unacked
<1> QED
  BY <1>2, <1>3, <1>4, <1>5, <1>6 DEF IInv

\* Every step keeps it.
LEMMA NextKeeps ==
  ASSUME IInv, [Next]_vars
  PROVE  IInv'
<1>1. CASE ServerSettles
  BY <1>1, ServerSettlesKeeps
<1>2. CASE Lose
  BY <1>2, LoseKeeps
<1>3. CASE Reopen
  BY <1>3, ReopenKeeps
<1>4. ASSUME NEW q \in Queues, Deliver(q) PROVE IInv'
  BY <1>4, DeliverKeeps
<1>5. ASSUME NEW q \in Queues, Receives(q) PROVE IInv'
  BY <1>5, OnBasicDeliverKeeps, OnContentHeaderKeeps, OnContentKeeps DEF Receives
<1>6. ASSUME NEW q \in Queues, AppSettles(q) PROVE IInv'
  BY <1>6, AppSettlesKeeps
<1>7. CASE UNCHANGED vars
  BY <1>7, StutterKeeps
<1> QED
  BY <1>1, <1>2, <1>3, <1>4, <1>5, <1>6, <1>7 DEF Next

\* The client and the server agree on the tags, the frames and the settlements
\* between them, whatever is lost and settled when (queue.js:514-552, message.js:51-66).
THEOREM InductiveInvariant == Spec => []IInv
<1>1. Init => IInv
  BY InitIInv
<1>2. IInv /\ [Next]_vars => IInv'
  BY NextKeeps
<1> QED
  BY <1>1, <1>2, PTL DEF Spec

\* No message is read past its size, and each stays with its queue (queue.js:546-552).
THEOREM TypeCorrect == Spec => []TypeOK
<1>1. IInv => TypeOK
  <2> SUFFICES ASSUME IInv PROVE TypeOK
    OBVIOUS
  <2>1. losses \in 0 .. MaxLosses /\ epoch \in 1 .. MaxLosses + 1
    <3>1. /\ losses \in 0 .. MaxLosses /\ epoch = losses + (IF link THEN 1 ELSE 0) /\ epoch # 0
          /\ MaxLosses \in Nat
      BY Facts, DeliveryAssumption DEF Typed
    <3> QED
      BY <3>1
  <2>2. ASSUME NEW q \in Queues PROVE ToSet(ready[q]) \subseteq ToSet(Backlog[q])
    <3>1. ready[q] \in Seq(Messages) /\ \A i \in 1 .. Len(ready[q]) : ready[q][i] \in Of(q)
      BY Facts, TypesOf DEF Owned
    <3> QED
      BY <3>1, InToSet DEF Of
  <2>3. ASSUME NEW q \in Queues
        PROVE  /\ currentMessage[q] # None => currentMessage[q].read <= Size[currentMessage[q].m]
               /\ \A tag \in Unacked(q) : unacked[q][tag] \in ToSet(Backlog[q])
    BY Facts DEF Owned, Of
  <2> QED
    BY <2>1, <2>2, <2>3, Facts DEF TypeOK, Typed
<1> QED
  BY <1>1, InductiveInvariant, PTL

\* The application is handed whole messages, one delivery once and in the order of
\* the tags, wherever a loss cut an earlier one (queue.js:514-552).
THEOREM HandsOverWholeOnce == Spec => []HandedOverWholeOnce
<1>1. IInv => HandedOverWholeOnce
  BY DEF IInv
<1> QED
  BY <1>1, InductiveInvariant, PTL

\* With ack: true no message is lost and no channel refused, until a settlement is
\* misled (message.js:51-66, queue.js:155, 217-226).
THEOREM KeepsUntilMisled == Spec => []AtLeastOnceUntilMisled
<1>1. IInv => AtLeastOnceUntilMisled
  <2> SUFFICES ASSUME IInv, ~misled PROVE AtLeastOnce /\ ~refused
    BY DEF AtLeastOnceUntilMisled
  <2>1. CASE mode.settle = "noAck"
    BY <2>1, Facts DEF AtLeastOnce, Holding
  <2>2. CASE mode.settle # "noAck"
    BY <2>2, Facts DEF Kept
  <2> QED
    BY <2>1, <2>2
<1> QED
  BY <1>1, InductiveInvariant, PTL
================================================================================
