------------------------------- MODULE Exchange -------------------------------
(***************************************************************************)
(* One exchange of node-amqp (lib/exchange.js) on its channel             *)
(* (lib/channel.js): the open / declare / confirm.select handshake, publish *)
(* and the bookkeeping of publisher confirms, close, and what a connection *)
(* loss does to them (the 'error' and 'ready' listeners of                 *)
(* lib/connection.js).  The server side of the channel is modelled by what *)
(* AMQP 0-9-1 lets it answer.                                              *)
(*                                                                         *)
(* publish goes through _taskPush (channel.js), which runs the task at     *)
(* once when the exchange is open; module Channel shows that an open       *)
(* channel has no unsent task before it, so a publish is written here in   *)
(* the step that accepts it.                                               *)
(***************************************************************************)
EXTENDS Integers, Sequences

CONSTANTS Message,    \* the publish calls of the application
          NoMessage,  \* the payload of a method that carries none
          Options,    \* the option records the exchange may be created with
          Faults,     \* the misfortunes that may happen, see FaultKinds
          MaxLosses   \* bound on the spontaneous connection losses

OptionRecords == [confirm : BOOLEAN, declare : BOOLEAN]

FaultKinds == { "error",         \* the socket emits 'error' or heartbeats stop
                "end",           \* the peer ends the stream (FIN) after 'ready'
                "userReconnect", \* the application calls connection.reconnect()
                "refuse",        \* the server closes the channel (channel.close)
                "nack",          \* the server sends basic.nack
                "close",         \* the application calls exchange.close()
                "block" }        \* the server sends connection.blocked

ASSUME MessageAssumption == NoMessage \notin Message
ASSUME OptionsAssumption == Options \subseteq OptionRecords
ASSUME FaultsAssumption  == Faults \subseteq FaultKinds
ASSUME LossesAssumption  == MaxLosses \in Nat

VARIABLES
  options,      \* options.confirm, and whether the exchange must be declared
  state,        \* this.state
  sequence,     \* this._sequence, 0 standing for null
  unAcked,      \* this._unAcked: a set of [tag, task], one per key
  handlerAdded, \* this._addedExchangeErrorHandler
  tracked,      \* connection.channels[this.channel] === this
  outcome,      \* what each publish callback has been told
  blocked,      \* connection._blocked
  link,         \* the connection below the channel
  losses,       \* spontaneous losses so far
  toServer,     \* methods written on the channel and not yet read
  toClient,     \* methods of the server not yet dispatched to the exchange
  srv,          \* the server's view of the channel
  log,          \* publishes the server read, its delivery tags are the indices
  unconfirmed,  \* delivery tags the server has not confirmed yet
  confirmed,    \* publishes the server confirmed, on any channel
  written       \* history: publishes written since the channel was opened

clientVars == <<options, state, sequence, unAcked, handlerAdded, tracked, outcome>>
connVars   == <<blocked, link, losses>>
srvVars    == <<srv, log, unconfirmed, confirmed>>
vars == <<clientVars, connVars, srvVars, toServer, toClient, written>>

-----------------------------------------------------------------------------
(* Types *)

ExchangeStates == {"undefined", "declaring", "open", "closing", "closed"}

ToServerMethods == {"channelOpen", "exchangeDeclare", "confirmSelect",
                    "basicPublish", "channelClose", "channelCloseOk"}

ToClientMethods == {"channelOpenOk", "exchangeDeclareOk", "confirmSelectOk",
                    "basicAck", "basicNack", "channelClose", "channelCloseOk",
                    "connectionClose"}

\* nth numbers the publishes of one channel; the wire does not carry it.
ToServer == [m : {"basicPublish"}, task : Message, nth : Nat]
              \cup [m : ToServerMethods \ {"basicPublish"}, task : {NoMessage}, nth : {0}]
ToClient == [m : ToClientMethods, tag : Nat, multiple : BOOLEAN]

\* Every variable stays in its domain.
TypeOK ==
  /\ options \in OptionRecords
  /\ state \in ExchangeStates
  /\ sequence \in Nat
  /\ unAcked \subseteq [tag : Nat, task : Message]
  /\ handlerAdded \in BOOLEAN
  /\ tracked \in BOOLEAN
  /\ outcome \in [Message -> {"idle", "rejected", "sent", "pending", "acked", "failed"}]
  /\ blocked \in BOOLEAN
  /\ link \in {"up", "ended", "connecting", "down"}
  /\ losses \in Nat
  /\ toServer \in Seq(ToServer)
  /\ toClient \in Seq(ToClient)
  /\ srv \in {"closed", "open", "confirm", "refused", "dead"}
  /\ log \in Seq(Message)
  /\ unconfirmed \subseteq 1..Len(log)
  /\ confirmed \subseteq Message
  /\ written \in Seq(Message)

-----------------------------------------------------------------------------
(* Helpers *)

Request(m) == [m |-> m, task |-> NoMessage, nth |-> 0]
Reply(m)   == [m |-> m, tag |-> 0, multiple |-> FALSE]

Send(m) == toServer' = Append(toServer, Request(m))

\* The callbacks of the tasks in S are called, once each, with this result.
Settle(S, result) ==
  outcome' = [p \in Message |->
                IF \E u \in S : u.task = p THEN result ELSE outcome[p]]

\* Slip: a cumulative ack settles everything, whatever its tag.
AckedAll(sequenceNumber, multiple) ==
  {u \in unAcked : multiple \/ u.tag = sequenceNumber}

\* The tasks a basic.ack settles.
Acked(sequenceNumber, multiple) ==
  { u \in unAcked : IF multiple
                      THEN sequenceNumber = 0 \/ u.tag <= sequenceNumber
                      ELSE u.tag = sequenceNumber }

\* Slip: no listener was registered.
WipeNothing == UNCHANGED <<unAcked, outcome>>

\* The 'error' listener of the exchange: every waiting publish has failed.
WipeUnAcked ==
  IF options.confirm /\ handlerAdded
    THEN unAcked' = {} /\ Settle(unAcked, "failed")
    ELSE UNCHANGED <<unAcked, outcome>>

\* A write on the channel reaches the socket: it is up, or has only been ended.
Writable == link \in {"up", "ended"}

-----------------------------------------------------------------------------
(* The application *)

Init ==
  /\ options \in Options
  /\ state = "undefined"
  /\ sequence = 0
  /\ unAcked = {}
  /\ handlerAdded = FALSE
  /\ tracked = TRUE
  /\ outcome = [p \in Message |-> "idle"]
  /\ blocked = FALSE
  /\ link = "up"
  /\ losses = 0
  /\ toServer = <<Request("channelOpen")>>
  /\ toClient = <<>>
  /\ srv = "closed"
  /\ log = <<>>
  /\ unconfirmed = {}
  /\ confirmed = {}
  /\ written = <<>>

\* Slip: every refusal forgets the sequence.
RejectForgets(p) ==
  /\ outcome[p] = "idle"
  /\ blocked \/ state # "open" \/ (options.confirm /\ sequence = 0)
  /\ sequence' = 0
  /\ outcome' = [outcome EXCEPT ![p] = "rejected"]
  /\ UNCHANGED <<options, state, unAcked, handlerAdded, tracked,
                 connVars, srvVars, toServer, toClient, written>>

\* The early returns of publish; the second one also forgets the sequence.
Reject(p) ==
  /\ outcome[p] = "idle"
  /\ \/ blocked
     \/ state # "open"
     \/ options.confirm /\ sequence = 0
  /\ sequence' = IF ~blocked /\ state # "open" THEN 0 ELSE sequence
  /\ outcome' = [outcome EXCEPT ![p] = "rejected"]
  /\ UNCHANGED <<options, state, unAcked, handlerAdded, tracked,
                 connVars, srvVars, toServer, toClient, written>>

\* Slip: the sequence is advanced before the task is stored under it.
AwaitConfirmAdvancesFirst(p) ==
  /\ handlerAdded' = TRUE
  /\ unAcked' = unAcked \cup {[tag |-> sequence + 1, task |-> p]}
  /\ sequence' = sequence + 1
  /\ outcome' = [outcome EXCEPT ![p] = "pending"]

\* Slip: the entry is created before the task exists.
AwaitConfirmNoTask(p) ==
  /\ handlerAdded' = TRUE
  /\ unAcked' = unAcked \cup {[tag |-> sequence, task |-> NoMessage]}
  /\ sequence' = sequence + 1
  /\ outcome' = [outcome EXCEPT ![p] = "pending"]

\* _awaitConfirm: the task replaces whatever was stored under its sequence.
AwaitConfirm(p) ==
  /\ handlerAdded' = TRUE
  /\ unAcked' = {u \in unAcked : u.tag # sequence}
                  \cup {[tag |-> sequence, task |-> p]}
  /\ sequence' = sequence + 1
  /\ outcome' = [outcome EXCEPT ![p] = "pending"]

Accept(p) ==
  /\ outcome[p] = "idle"
  /\ ~blocked
  /\ state = "open"
  /\ options.confirm => sequence # 0
  /\ Writable
  /\ toServer' = Append(toServer, [m |-> "basicPublish", task |-> p,
                                   nth |-> Len(written) + 1])
  /\ written' = Append(written, p)
  /\ IF options.confirm
       THEN AwaitConfirm(p)
       ELSE /\ outcome' = [outcome EXCEPT ![p] = "sent"]
            /\ UNCHANGED <<handlerAdded, unAcked, sequence>>
  /\ UNCHANGED <<options, state, tracked, connVars, srvVars, toClient>>

Publish(p) == Reject(p) \/ Accept(p)

\* exchange.close(), called by the application at most once per opening.
Close ==
  /\ "close" \in Faults
  /\ state \notin {"closing", "closed"}
  /\ Writable
  /\ state' = "closing"
  /\ Send("channelClose")
  /\ UNCHANGED <<options, sequence, unAcked, handlerAdded, tracked, outcome,
                 connVars, srvVars, toClient, written>>

-----------------------------------------------------------------------------
(* The exchange's handlers (_onChannelMethod, then _onMethod) *)

\* The connection dispatches the next method of the server to the exchange.
Receive(m) ==
  /\ link = "up"
  /\ toClient # <<>>
  /\ Head(toClient).m = m
  /\ toClient' = Tail(toClient)

Opened == state' = "open" /\ UNCHANGED toServer

ConfirmSelect == Send("confirmSelect") /\ UNCHANGED state

OnChannelOpenOk ==
  /\ Receive("channelOpenOk")
  /\ tracked
  /\ sequence' = 0
  /\ handlerAdded' = TRUE
  /\ IF options.declare
       THEN Send("exchangeDeclare") /\ state' = "declaring"
       ELSE IF options.confirm THEN ConfirmSelect ELSE Opened
  /\ UNCHANGED <<options, unAcked, tracked, outcome, connVars, srvVars, written>>

OnExchangeDeclareOk ==
  /\ Receive("exchangeDeclareOk")
  /\ tracked
  /\ IF options.confirm THEN ConfirmSelect ELSE Opened
  /\ UNCHANGED <<options, sequence, unAcked, handlerAdded, tracked, outcome,
                 connVars, srvVars, written>>

OnConfirmSelectOk ==
  /\ Receive("confirmSelectOk")
  /\ tracked
  /\ sequence' = 1
  /\ Opened
  /\ UNCHANGED <<options, unAcked, handlerAdded, tracked, outcome,
                 connVars, srvVars, written>>

\* Slip: the callback is called and the entry kept.
OnBasicAckKeeps ==
  /\ Receive("basicAck")
  /\ tracked
  /\ Settle(Acked(Head(toClient).tag, Head(toClient).multiple), "acked")
  /\ UNCHANGED <<options, state, sequence, unAcked, handlerAdded, tracked,
                 connVars, srvVars, toServer, written>>

OnBasicAck ==
  /\ Receive("basicAck")
  /\ tracked
  /\ LET acked == Acked(Head(toClient).tag, Head(toClient).multiple)
     IN  unAcked' = unAcked \ acked /\ Settle(acked, "acked")
  /\ UNCHANGED <<options, state, sequence, handlerAdded, tracked,
                 connVars, srvVars, toServer, written>>

\* The exchange stays in connection.channels: a reconnection reopens it.
OnChannelClose ==
  /\ Receive("channelClose")
  /\ tracked
  /\ state' = "closed"
  /\ Send("channelCloseOk")
  /\ WipeUnAcked
  /\ UNCHANGED <<options, sequence, handlerAdded, tracked,
                 connVars, srvVars, written>>

OnChannelCloseOk ==
  /\ Receive("channelCloseOk")
  /\ tracked
  /\ tracked' = FALSE
  /\ state' = "closed"
  /\ UNCHANGED <<options, sequence, unAcked, handlerAdded, outcome,
                 connVars, srvVars, toServer, written>>

-----------------------------------------------------------------------------
(* The connection below the exchange *)

\* The server forgets a channel whose connection is gone.
ServerForgets ==
  /\ srv' = "closed"
  /\ log' = <<>>
  /\ unconfirmed' = {}
  /\ UNCHANGED confirmed

\* connection.emit('error'): its 'backoff' listener closes the exchanges it
\* tracks, then the listener of this exchange runs.
EmitError ==
  /\ link' = "down"
  /\ state' = IF tracked THEN "closed" ELSE state
  /\ WipeUnAcked
  /\ toServer' = <<>>
  /\ toClient' = <<>>
  /\ ServerForgets
  /\ UNCHANGED <<options, sequence, handlerAdded, tracked, blocked, written>>

\* A socket error, a connection timeout or missing heartbeats.
LinkError ==
  /\ "error" \in Faults
  /\ link \in {"up", "connecting"}
  /\ losses < MaxLosses
  /\ losses' = losses + 1
  /\ EmitError

\* The parser does not know basic.nack and reports an error, and the socket
\* is destroyed with an error when the server closes the connection.
OnFatalMethod ==
  /\ link = "up"
  /\ toClient # <<>>
  /\ Head(toClient).m \in {"basicNack", "connectionClose"}
  /\ EmitError
  /\ UNCHANGED losses

\* The peer ends the stream after 'ready': the 'end' listener does nothing.
LinkEnd ==
  /\ "end" \in Faults
  /\ link = "up"
  /\ toClient = <<>>
  /\ losses < MaxLosses
  /\ losses' = losses + 1
  /\ link' = "ended"
  /\ toServer' = <<>>
  /\ ServerForgets
  /\ UNCHANGED <<clientVars, blocked, toClient, written>>

\* Writing on an ended socket makes it emit 'error'.
WriteAfterEnd ==
  /\ link = "ended"
  /\ toServer # <<>>
  /\ EmitError
  /\ UNCHANGED losses

\* connection.reconnect() called by the application after the stream ended.
UserReconnect ==
  /\ "userReconnect" \in Faults
  /\ link = "ended"
  /\ toServer = <<>>
  /\ link' = "connecting"
  /\ state' = IF tracked THEN "closed" ELSE state
  /\ UNCHANGED <<options, sequence, unAcked, handlerAdded, tracked, outcome,
                 blocked, losses, srvVars, toServer, toClient, written>>

\* A new handshake completes; the 'ready' listener reopens tracked channels.
LinkReady ==
  /\ link \in {"down", "connecting"}
  /\ link' = "up"
  /\ toServer' = IF tracked THEN <<Request("channelOpen")>> ELSE <<>>
  /\ written' = <<>>
  /\ UNCHANGED <<clientVars, blocked, losses, srvVars, toClient>>

\* connection.blocked and connection.unblocked arrive on channel 0.
OnBlocked ==
  /\ "block" \in Faults
  /\ link = "up"
  /\ blocked' = ~blocked
  /\ UNCHANGED <<clientVars, link, losses, srvVars, toServer, toClient, written>>

-----------------------------------------------------------------------------
(* The server, as AMQP 0-9-1 and its confirm extension let it behave *)

ServerReads(m) ==
  /\ link = "up"
  /\ toServer # <<>>
  /\ Head(toServer).m = m
  /\ toServer' = Tail(toServer)

Answer(m) == toClient' = Append(toClient, Reply(m))

SrvChannelOpen ==
  /\ ServerReads("channelOpen")
  /\ srv = "closed"
  /\ srv' = "open"
  /\ Answer("channelOpenOk")
  /\ UNCHANGED <<clientVars, connVars, log, unconfirmed, confirmed, written>>

SrvExchangeDeclare ==
  /\ ServerReads("exchangeDeclare")
  /\ srv = "open"
  /\ Answer("exchangeDeclareOk")
  /\ UNCHANGED <<clientVars, connVars, srvVars, written>>

SrvConfirmSelect ==
  /\ ServerReads("confirmSelect")
  /\ srv = "open"
  /\ srv' = "confirm"
  /\ Answer("confirmSelectOk")
  /\ UNCHANGED <<clientVars, connVars, log, unconfirmed, confirmed, written>>

\* In confirm mode the n-th publish read has delivery tag n.
SrvBasicPublish ==
  /\ ServerReads("basicPublish")
  /\ srv \in {"open", "confirm"}
  /\ log' = Append(log, Head(toServer).task)
  /\ unconfirmed' = IF srv = "confirm" THEN unconfirmed \cup {Len(log) + 1}
                                       ELSE unconfirmed
  /\ UNCHANGED <<clientVars, connVars, srv, confirmed, toClient, written>>

SrvChannelClose ==
  /\ ServerReads("channelClose")
  /\ srv \in {"open", "confirm", "refused"}
  /\ srv' = IF srv = "refused" THEN srv ELSE "closed"
  /\ Answer("channelCloseOk")
  /\ UNCHANGED <<clientVars, connVars, log, unconfirmed, confirmed, written>>

\* A declare or a publish the server cannot honour: it closes the channel.
SrvRefuse ==
  /\ "refuse" \in Faults
  /\ ServerReads("exchangeDeclare") \/ ServerReads("basicPublish")
  /\ srv \in {"open", "confirm"}
  /\ srv' = "refused"
  /\ Answer("channelClose")
  /\ UNCHANGED <<clientVars, connVars, log, unconfirmed, confirmed, written>>

SrvChannelCloseOk ==
  /\ ServerReads("channelCloseOk")
  /\ srv = "refused"
  /\ srv' = "closed"
  /\ UNCHANGED <<clientVars, connVars, log, unconfirmed, confirmed, toClient, written>>

\* After closing a channel or the connection the server discards what follows.
SrvDiscard ==
  /\ \/ /\ srv = "refused"
        /\ \E m \in ToServerMethods \ {"channelClose", "channelCloseOk"} : ServerReads(m)
     \/ srv = "dead" /\ \E m \in ToServerMethods : ServerReads(m)
  /\ UNCHANGED <<clientVars, connVars, srvVars, toClient, written>>

\* A method on a channel that is not open is a connection error.
SrvUnexpected ==
  /\ srv = "closed"
  /\ \E m \in ToServerMethods \ {"channelOpen"} : ServerReads(m)
  /\ srv' = "dead"
  /\ Answer("connectionClose")
  /\ UNCHANGED <<clientVars, connVars, log, unconfirmed, confirmed, written>>

Covered(tag, multiple) ==
  {n \in unconfirmed : IF multiple THEN n <= tag ELSE n = tag}

SrvAck(tag, multiple) ==
  /\ link = "up"
  /\ srv = "confirm"
  /\ tag \in unconfirmed
  /\ unconfirmed' = unconfirmed \ Covered(tag, multiple)
  /\ confirmed' = confirmed \cup {log[n] : n \in Covered(tag, multiple)}
  /\ toClient' = Append(toClient, [m |-> "basicAck", tag |-> tag,
                                   multiple |-> multiple])
  /\ UNCHANGED <<clientVars, connVars, srv, log, toServer, written>>

\* The client drops the connection when it reads a basic.nack, so nothing the
\* server does after sending one reaches it: the server is left silent.
SrvNack ==
  /\ "nack" \in Faults
  /\ link = "up"
  /\ srv = "confirm"
  /\ unconfirmed # {}
  /\ srv' = "dead"
  /\ Answer("basicNack")
  /\ UNCHANGED <<clientVars, connVars, log, unconfirmed, confirmed, toServer, written>>

-----------------------------------------------------------------------------
ClientStep == \/ OnChannelOpenOk \/ OnExchangeDeclareOk \/ OnConfirmSelectOk
              \/ OnBasicAck \/ OnChannelClose \/ OnChannelCloseOk
              \/ OnFatalMethod \/ WriteAfterEnd \/ LinkReady

ServerStep == \/ SrvChannelOpen \/ SrvExchangeDeclare \/ SrvConfirmSelect
              \/ SrvBasicPublish \/ SrvChannelClose \/ SrvRefuse
              \/ SrvChannelCloseOk \/ SrvDiscard \/ SrvUnexpected

Acknowledge == \E tag \in unconfirmed, multiple \in BOOLEAN : SrvAck(tag, multiple)

Environment == LinkError \/ LinkEnd \/ UserReconnect \/ OnBlocked \/ SrvNack

Next == \/ \E p \in Message : Publish(p)
        \/ Close
        \/ ClientStep
        \/ ServerStep
        \/ Acknowledge
        \/ Environment

Spec == Init /\ [][Next]_vars

(***************************************************************************)
(* Node's event loop keeps delivering what the socket has, the reconnect   *)
(* timer fires, and the server keeps reading and confirming.  Nothing is   *)
(* assumed of the application or of the misfortunes.                       *)
(***************************************************************************)
FairSpec == /\ Spec
            /\ WF_vars(ClientStep)
            /\ WF_vars(ServerStep)
            /\ WF_vars(Acknowledge)

-----------------------------------------------------------------------------
(* Correctness *)

\* A callback that was told "no error" belongs to a publish the server has
\* confirmed: no ack is credited to another publish, or to a later channel
\* (exchange.js basicAck, README "exchange.publish").
ConfirmSound == \A p \in Message : outcome[p] = "acked" => p \in confirmed

\* The key a task waits under is the delivery tag the server gave that very
\* publish, so client and server count alike (_awaitConfirm).
TagsAgree ==
  \A u \in unAcked : u.tag \in 1..Len(log) => log[u.tag] = u.task

\* While the exchange is open in confirm mode, the next sequence is one past
\* the publishes written on this channel, after any history of rejected
\* publishes, closes and reconnections.  The "not yet ready" return of publish
\* is therefore never taken on an open exchange.
SequenceInStep ==
  Writable /\ state = "open" /\ options.confirm => sequence = Len(written) + 1

OwedIsRemembered ==
  \A p \in Message : outcome[p] = "pending" <=> \E u \in unAcked : u.task = p

NothingPendingWhileDown ==
  link = "down" => \A p \in Message : outcome[p] # "pending"

\* Exactly the publishes whose callback is still owed are remembered: none is
\* dropped by overwriting its key or by a silent wipe; and once the connection is
\* lost none is left waiting for a confirm that only the lost channel could have
\* brought (createExchangeErrorHandlerFor).
PendingTracked == OwedIsRemembered /\ NothingPendingWhileDown

Contract == INSTANCE ConfirmContract WITH
              Message <- Message, outcome <- outcome, confirmed <- confirmed

\* The exchange keeps the promise of exchange.publish: one verdict per
\* callback, never a confirm of what the server did not confirm.
ImplementsContract == Contract!Spec

\* Every publish in confirm mode gets its callback: "this one must not hang"
\* (test/test-publish-confirms-callbacks-not-hanging-after-recovery.js).
Answered ==
  \A p \in Message : outcome[p] = "pending" ~> outcome[p] \in {"acked", "failed"}

-----------------------------------------------------------------------------
(* The inductive invariant behind ConfirmSound *)

HandshakeRequests == {"channelOpen", "exchangeDeclare", "confirmSelect"}
HandshakeReplies  == {"channelOpenOk", "exchangeDeclareOk", "confirmSelectOk"}

Requests == {i \in 1..Len(toServer) : toServer[i].m \in HandshakeRequests}
Replies  == {i \in 1..Len(toClient) : toClient[i].m \in HandshakeReplies}
OnWire   == {i \in 1..Len(toServer) : toServer[i].m = "basicPublish"}

\* The handshake is a strict alternation: one message of it is under way at
\* most, and then nothing has been published on this channel yet.
HandshakeAlternates ==
  /\ \A i, j \in Requests : i = j
  /\ \A i, j \in Replies : i = j
  /\ Requests = {} \/ Replies = {}
  /\ Requests # {} \/ Replies # {} => written = <<>> /\ state # "open"

\* Publishes travel in the order they were written, and none is lost between
\* the client and a server that still listens.
PublishesInOrder ==
  /\ \A i \in OnWire : /\ toServer[i].nth \in (Len(log) + 1)..Len(written)
                       /\ toServer[i].task = written[toServer[i].nth]
  /\ \A i, j \in OnWire : i < j => toServer[i].nth < toServer[j].nth
  /\ srv \in {"open", "confirm"} =>
       \A n \in (Len(log) + 1)..Len(written) : \E i \in OnWire : toServer[i].nth = n

\* The server has read a prefix of what was written.
LogIsPrefix ==
  /\ Len(log) <= Len(written)
  /\ \A n \in 1..Len(log) : log[n] = written[n]

\* A waiting task sits under the number of its own publish; a key beyond the
\* publishes of this channel is left from an earlier one.
KeysAreNumbers ==
  /\ ~options.confirm => unAcked = {}
  /\ \A u \in unAcked :
       /\ u.tag > 0
       /\ u.tag <= Len(written) => written[u.tag] = u.task
       /\ outcome[u.task] = "pending"
  /\ \A u, v \in unAcked : u.task = v.task => u = v

\* Every ack under way covers only publishes the server has confirmed.
AcksAreBacked ==
  /\ srv = "confirm" => \A n \in 1..Len(log) : n \in unconfirmed \/ log[n] \in confirmed
  /\ \A i \in 1..Len(toClient) :
       toClient[i].m = "basicAck" =>
         /\ toClient[i].tag \in 1..Len(log)
         /\ \A n \in 1..toClient[i].tag :
              toClient[i].multiple \/ n = toClient[i].tag => log[n] \in confirmed

\* Without a live connection the server side of the channel is gone, and the
\* client knows it unless the stream has merely been ended.
DownIsClean ==
  /\ link # "up" => srv = "closed" /\ log = <<>> /\ toClient = <<>>
  /\ link \in {"down", "connecting"} => toServer = <<>> /\ state = "closed"
  /\ link = "ended" => Requests = {}
  /\ ~tracked => state = "closed"

IInv == /\ TypeOK /\ HandshakeAlternates /\ PublishesInOrder /\ LogIsPrefix
        /\ KeysAreNumbers /\ AcksAreBacked /\ DownIsClean
        /\ SequenceInStep /\ ConfirmSound
=============================================================================
