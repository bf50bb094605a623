------------------------------- MODULE Delivery --------------------------------
(***************************************************************************)
(* How messages reach the listener of subscribe() and are settled           *)
(* (queue.js, message.js), on the queues of one connection.                *)
(*                                                                         *)
(* The frames of different channels are interleaved at will, those of one  *)
(* channel keep their order. The connection is lost at any time, also in   *)
(* the middle of a message, and also because a listener throws inside the  *)
(* 'data' event. It comes back with fresh channels, on which the server    *)
(* counts delivery tags from 1 again, while the application still holds    *)
(* messages of the old ones and acknowledges them when it likes.           *)
(* Connection and Queue model the steps of coming back; here it is one.    *)
(***************************************************************************)
EXTENDS Integers, Sequences, SequencesExt, FiniteSets, SeqFilter

CONSTANTS Queues,
          Backlog,     \* the messages each queue holds at first, in order
          Size,        \* of a message, in body frames
          Poison,      \* those the 'end' listener throws on before it calls the
                       \* application: not JSON, with routingKeyInPayload
          Modes,       \* the subscriptions: [settle, prefetchCount]
          MaxLosses,
          MaxRequeues,
          None

Messages == UNION {ToSet(Backlog[q]) : q \in Queues}

ASSUME DeliveryAssumption ==
  /\ Backlog \in [Queues -> Seq(Messages)] /\ \A q \in Queues : IsInjective(Backlog[q])
  /\ Size \in [Messages -> Nat] /\ Poison \subseteq Messages
  /\ \A mode \in Modes : mode.settle \in {"noAck", "shift", "message"}
                         /\ mode.prefetchCount \in Nat \ {0}
  /\ MaxLosses \in Nat /\ MaxRequeues \in Nat

VARIABLES
  mode,            \* of the subscriptions
  link,            \* the connection is up
  epoch,           \* how often it came up
  \* the client, by queue
  currentMessage,  \* the message being received
  lastMessage,     \* _lastMessage: what shift() settles
  held,            \* messages the application has heard and not settled
  heard,           \* the calls of its listener, in order
  \* the server, by queue, and what it and the client have sent
  ready, unacked, tags, consuming,
  toClient,        \* the frames of each channel
  toServer,        \* the settlements
  \* what happened
  losses, requeues,
  misled,          \* a settlement named another message than the one it was for
  refused          \* the server closed a channel for an unknown tag

client == <<currentMessage, lastMessage, held, heard>>
server == <<ready, unacked, tags, consuming>>
wires  == <<toClient, toServer>>
past   == <<losses, requeues, misled, refused>>
vars   == <<mode, link, epoch, client, server, wires, past>>

\* reject(false) settles as acknowledge() does.
Settlements == {"ack", "ackAll", "requeue"}

-------------------------------------------------------------------------------
(* The server.                                                             *)

Unacked(q) == DOMAIN unacked[q]

\* Unsettled messages return to the head of their queue in their old order.
Requeued(q, settled) ==
  LET order == Filter([tag \in 1 .. tags[q] |-> tag], settled)
  IN  [i \in 1 .. Len(order) |-> unacked[q][order[i]]] \o ready[q]

Frames(m, tag) ==
  <<[kind |-> "deliver", m |-> m, tag |-> tag],
    [kind |-> "header", m |-> m, size |-> Size[m]]>>
  \o [part \in 1 .. Size[m] |-> [kind |-> "body", m |-> m, part |-> part]]

Deliver(q) ==
  LET m == Head(ready[q])
  IN  /\ link /\ consuming[q] /\ ready[q] # <<>>
      /\ Cardinality(Unacked(q)) < mode.prefetchCount
      /\ ready' = [ready EXCEPT ![q] = Tail(@)]
      /\ tags' = [tags EXCEPT ![q] = @ + 1]
      /\ IF mode.settle = "noAck" THEN UNCHANGED unacked
         ELSE unacked' = [unacked EXCEPT ![q] =
                [tag \in Unacked(q) \cup {tags[q] + 1} |-> IF tag > tags[q] THEN m ELSE @[tag]]]
      /\ toClient' = [toClient EXCEPT ![q] = @ \o Frames(m, tags[q] + 1)]
      /\ UNCHANGED <<mode, link, epoch, client, consuming, toServer, past>>

\* The server settles a tag, or those up to it; of an unknown one it makes a
\* channel error, which ends the consumers of the channel.
ServerSettles ==
  LET s == Head(toServer)
      q == s.q
      settled == {tag \in Unacked(q) : tag = s.tag \/ (s.kind = "ackAll" /\ tag < s.tag)}
  IN  /\ toServer # <<>>
      /\ toServer' = Tail(toServer)
      /\ CASE ~consuming[q] -> UNCHANGED <<ready, unacked, consuming, refused>>
           [] consuming[q] /\ settled # {} ->
                /\ unacked' = [unacked EXCEPT ![q] =
                     [tag \in Unacked(q) \ settled |-> @[tag]]]
                /\ IF s.kind = "requeue"
                   THEN ready' = [ready EXCEPT ![q] = Requeued(q, settled)]
                   ELSE UNCHANGED ready
                /\ UNCHANGED <<consuming, refused>>
           [] OTHER ->
                /\ consuming' = [consuming EXCEPT ![q] = FALSE]
                /\ refused' = TRUE
                /\ ready' = [ready EXCEPT ![q] = Requeued(q, Unacked(q))]
                /\ unacked' = [unacked EXCEPT ![q] = <<>>]
      /\ UNCHANGED <<mode, link, epoch, client, tags, toClient, losses, requeues, misled>>

-------------------------------------------------------------------------------
(* The connection goes down, and comes up with new channels.               *)

Goes ==
  /\ link /\ losses < MaxLosses
  /\ link' = FALSE
  /\ losses' = losses + 1
  /\ ready' = [q \in Queues |-> Requeued(q, Unacked(q))]
  /\ unacked' = [q \in Queues |-> <<>>]
  /\ toClient' = [q \in Queues |-> <<>>]
  /\ toServer' = <<>>
  /\ UNCHANGED <<mode, epoch, tags, consuming, requeues, misled, refused>>

Stays == UNCHANGED <<mode, link, epoch, server, toServer, past>>

Lose == Goes /\ UNCHANGED client

\* A queue the server closed may find its consumer again or not (see Queue).
Reopen ==
  /\ ~link
  /\ link' = TRUE
  /\ epoch' = epoch + 1
  /\ tags' = [q \in Queues |-> 0]
  /\ \E again \in SUBSET Queues : consuming' = [q \in Queues |-> consuming[q] \/ q \in again]
  /\ UNCHANGED <<mode, client, ready, unacked, wires, past>>

-------------------------------------------------------------------------------
(* The client: a frame of the channel of queue q arrives.                  *)

Arrives(q, kind) == toClient[q] # <<>> /\ Head(toClient[q]).kind = kind

Consumed(q) == toClient' = [toClient EXCEPT ![q] = Tail(@)]

\* Slip: no new Message while there is one.
OnBasicDeliverKeepsFirst(q) ==
  LET f == Head(toClient[q])
  IN  /\ Arrives(q, "deliver")
      /\ currentMessage' = IF currentMessage[q] # None THEN currentMessage
           ELSE [currentMessage EXCEPT ![q] =
             [tag |-> f.tag, epoch |-> epoch, m |-> f.m, size |-> 0, read |-> 0, buffer |-> <<>>]]
      /\ Consumed(q) /\ Stays
      /\ UNCHANGED <<lastMessage, held, heard>>

\* new Message(queue, args)
OnBasicDeliver(q) ==
  LET f == Head(toClient[q])
  IN  /\ Arrives(q, "deliver")
      /\ currentMessage' = [currentMessage EXCEPT ![q] =
           [tag |-> f.tag, epoch |-> epoch, m |-> f.m, size |-> 0, read |-> 0, buffer |-> <<>>]]
      /\ Consumed(q) /\ Stays
      /\ UNCHANGED <<lastMessage, held, heard>>

\* Slips: one part too few, and never.
CompleteEarly(d)    == d.read + 1 >= d.size
CompletePastSize(d) == d.read > d.size

Complete(d) == d.read = d.size

\* 'end' of the message d: the listener of subscribe() calls the application's,
\* which may throw; so may the former, on a message that is not JSON.
End(q, d) ==
  \/ /\ d.m \notin Poison
     /\ heard' = [heard EXCEPT ![q] = Append(@, d)]
     /\ held' = IF mode.settle = "noAck" THEN held ELSE [held EXCEPT ![q] = @ \cup {d}]
     /\ \/ Consumed(q) /\ Stays
        \/ Goes
  \/ /\ d.m \in Poison
     /\ Goes
     /\ UNCHANGED <<heard, held>>

\* The size comes with the header; the raw listener makes it _lastMessage.
OnContentHeader(q) ==
  LET f == Head(toClient[q])
      d == [currentMessage[q] EXCEPT !.size = f.size, !.read = 0]
  IN  /\ Arrives(q, "header")
      /\ currentMessage' = [currentMessage EXCEPT ![q] = d]
      /\ lastMessage' = [lastMessage EXCEPT ![q] = d]
      /\ IF f.size = 0 THEN End(q, d)
         ELSE Consumed(q) /\ Stays /\ UNCHANGED <<held, heard>>

OnContent(q) ==
  LET f == Head(toClient[q])
      d == [currentMessage[q] EXCEPT !.read = @ + 1, !.buffer = Append(@, <<f.m, f.part>>)]
  IN  /\ Arrives(q, "body")
      /\ currentMessage' = [currentMessage EXCEPT ![q] = d]
      /\ IF Complete(d) THEN End(q, d)
         ELSE Consumed(q) /\ Stays /\ UNCHANGED <<held, heard>>
      /\ UNCHANGED lastMessage

\* Slip: the tag of the message being received.
SendOfCurrent(q, d, m, kind) ==
  /\ toServer' = IF link THEN Append(toServer, [q |-> q, tag |-> currentMessage[q].tag, kind |-> kind])
                 ELSE toServer
  /\ misled' = (misled \/ (link /\ ~(m.tag = d.tag /\ m.epoch = d.epoch /\ d.epoch = epoch)))

\* The settlement of d, written to whatever connection there is; it carries the
\* tag of the message m.
Send(q, d, m, kind) ==
  /\ toServer' = IF link THEN Append(toServer, [q |-> q, tag |-> m.tag, kind |-> kind])
                 ELSE toServer
  /\ misled' = (misled \/ (link /\ ~(m.tag = d.tag /\ m.epoch = d.epoch /\ d.epoch = epoch)))

\* message.acknowledge(all), message.reject(requeue)
Settle(q, d, kind) ==
  /\ mode.settle = "message"
  /\ held' = [held EXCEPT ![q] =
       {e \in @ : e # d /\ ~(kind = "ackAll" /\ e.epoch = d.epoch /\ e.tag < d.tag)}]
  /\ Send(q, d, d, kind)
  /\ UNCHANGED lastMessage

\* shift(reject, requeue), called for the message d.
Shift(q, d, kind) ==
  /\ mode.settle = "shift" /\ kind # "ackAll"
  /\ held' = [held EXCEPT ![q] = @ \ {d}]
  /\ IF lastMessage[q] # None
     THEN Send(q, d, lastMessage[q], kind) /\ lastMessage' = [lastMessage EXCEPT ![q] = None]
     ELSE UNCHANGED <<toServer, misled, lastMessage>>

\* The application settles each message it heard once, when it likes.
AppSettles(q) ==
  \E d \in held[q], kind \in Settlements :
    /\ Settle(q, d, kind) \/ Shift(q, d, kind)
    /\ IF kind = "requeue" THEN requeues < MaxRequeues /\ requeues' = requeues + 1
       ELSE UNCHANGED requeues
    /\ UNCHANGED <<mode, link, epoch, currentMessage, heard, server, toClient, losses, refused>>

-------------------------------------------------------------------------------
Init ==
  /\ mode \in Modes /\ link = TRUE /\ epoch = 1
  /\ currentMessage = [q \in Queues |-> None] /\ lastMessage = [q \in Queues |-> None]
  /\ held = [q \in Queues |-> {}] /\ heard = [q \in Queues |-> <<>>]
  /\ ready = Backlog /\ unacked = [q \in Queues |-> <<>>]
  /\ tags = [q \in Queues |-> 0] /\ consuming = [q \in Queues |-> TRUE]
  /\ toClient = [q \in Queues |-> <<>>] /\ toServer = <<>>
  /\ losses = 0 /\ requeues = 0 /\ misled = FALSE /\ refused = FALSE

Receives(q) == OnBasicDeliver(q) \/ OnContentHeader(q) \/ OnContent(q)

Next ==
  \/ ServerSettles \/ Lose \/ Reopen
  \/ \E q \in Queues : Deliver(q) \/ Receives(q) \/ AppSettles(q)

Spec == Init /\ [][Next]_vars

\* The server serves every queue, frames arrive, the connection comes back, and
\* the application settles what it has heard.
FairSpec ==
  /\ Spec
  /\ WF_vars(ServerSettles) /\ WF_vars(Reopen)
  /\ \A q \in Queues : WF_vars(Deliver(q)) /\ WF_vars(Receives(q)) /\ WF_vars(AppSettles(q))

-------------------------------------------------------------------------------
(* Properties.                                                             *)

\* Every variable keeps its type, and no message is read past its size
\* (queue.js:546-552).
TypeOK ==
  /\ mode \in Modes /\ {link, misled, refused} \subseteq BOOLEAN
  /\ epoch \in 1 .. MaxLosses + 1 /\ losses \in 0 .. MaxLosses
  /\ \A q \in Queues :
       /\ currentMessage[q] # None =>
            currentMessage[q].read <= Size[currentMessage[q].m]
       /\ ToSet(ready[q]) \subseteq ToSet(Backlog[q])
       /\ \A tag \in Unacked(q) : unacked[q][tag] \in ToSet(Backlog[q])

HandedOverWhole ==
  \A q \in Queues : \A i \in 1 .. Len(heard[q]) :
    LET d == heard[q][i]
    IN  /\ d.m \in ToSet(Backlog[q])
        /\ d.buffer = [part \in 1 .. Size[d.m] |-> <<d.m, part>>]

OncePerDelivery ==
  \A q \in Queues : \A i, j \in 1 .. Len(heard[q]) : i < j =>
    LET d == heard[q][i]  e == heard[q][j]
    IN  d.epoch < e.epoch \/ (d.epoch = e.epoch /\ d.tag < e.tag)

\* The application is handed a message when it is complete and never before:
\* all its parts, in order, and none of another message, whatever other
\* channels sent in between and wherever a loss cut an earlier one; and once, in
\* the order of the tags: a second time only as another delivery of the server's
\* (queue.js:514-552).
HandedOverWholeOnce == HandedOverWhole /\ OncePerDelivery

Heard(q, m) == \E i \in 1 .. Len(heard[q]) : heard[q][i].m = m

AtServer(q, m) == m \in ToSet(ready[q]) \/ \E tag \in Unacked(q) : unacked[q][tag] = m

AtLeastOnce ==
  mode.settle # "noAck" =>
    \A q \in Queues : \A m \in ToSet(Backlog[q]) : Heard(q, m) \/ AtServer(q, m)

\* With ack: true no message is lost through any losses: the server forgets one
\* only after the application heard it; and nothing is settled twice, which would
\* close the channel. Both as long as no settlement was misled: the tag of an old
\* channel names another message on the new one, and shift() settles the message
\* it saw last (message.js:51-66, queue.js:155, 217-226).
AtLeastOnceUntilMisled == misled \/ (AtLeastOnce /\ ~refused)

\* Every message is heard in the end, if no settlement was misled and the queue
\* has none that always throws; frames lost in the middle of a message do not
\* keep it, or a later one, from being heard (queue.js:534-552).
EveryMessageIsHeard ==
  \A q \in {r \in Queues : ToSet(Backlog[r]) \cap Poison = {}} : \A m \in ToSet(Backlog[q]) :
    <>(Heard(q, m) \/ misled \/ mode.settle = "noAck")
===============================================================================
