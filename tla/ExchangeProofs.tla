---------------------------- MODULE ExchangeProofs ----------------------------
(***************************************************************************)
(* Theorems about module Exchange, for every set of publishes, every       *)
(* choice of options and faults and every number of connection losses.     *)
(***************************************************************************)
EXTENDS Exchange, TLAPS

\* A message written on a channel or sent by the server is well typed.
LEMMA MessageTypes ==
  /\ \A m \in ToServerMethods \ {"basicPublish"} : Request(m) \in ToServer
  /\ \A m \in ToClientMethods : Reply(m) \in ToClient
  /\ \A p \in Message, n \in Nat :
       [m |-> "basicPublish", task |-> p, nth |-> n] \in ToServer
  /\ \A n \in Nat, b \in BOOLEAN :
       [m |-> "basicAck", tag |-> n, multiple |-> b] \in ToClient
BY DEF Request, Reply, ToServer, ToClient, ToServerMethods, ToClientMethods

\* The initial state is well typed.
LEMMA InitTyped == Init => TypeOK
<1> SUFFICES ASSUME Init PROVE TypeOK
  OBVIOUS
<1>1. <<Request("channelOpen")>> \in Seq(ToServer)
  BY MessageTypes DEF ToServerMethods
<1>2. /\ toClient \in Seq(ToClient)
      /\ log \in Seq(Message)
      /\ written \in Seq(Message)
  BY DEF Init
<1>3. outcome \in [Message -> {"idle", "rejected", "sent", "pending", "acked", "failed"}]
  BY DEF Init
<1> QED
  BY <1>1, <1>2, <1>3, OptionsAssumption DEF Init, TypeOK, ExchangeStates

\* Each step of the application keeps the variables in their domains.
LEMMA ApplicationTyped ==
  ASSUME TypeOK, (\E p \in Message : Publish(p)) \/ Close
  PROVE  TypeOK'
<1>1. ASSUME NEW p \in Message, Reject(p) PROVE TypeOK'
  BY <1>1 DEF Reject, TypeOK, connVars, srvVars
<1>2. ASSUME NEW p \in Message, Accept(p) PROVE TypeOK'
  <2>1. Len(written) + 1 \in Nat
    BY DEF TypeOK
  <2>2. [m |-> "basicPublish", task |-> p, nth |-> Len(written) + 1] \in ToServer
    BY <2>1, MessageTypes
  <2>3. toServer' \in Seq(ToServer) /\ written' \in Seq(Message)
    BY <1>2, <2>2 DEF Accept, TypeOK
  <2>4. /\ sequence' \in Nat
        /\ unAcked' \subseteq [tag : Nat, task : Message]
        /\ handlerAdded' \in BOOLEAN
        /\ outcome' \in [Message -> {"idle", "rejected", "sent", "pending", "acked", "failed"}]
    <3>1. CASE options.confirm
      <4>1. AwaitConfirm(p)
        BY <1>2, <3>1 DEF Accept
      <4>2. [tag |-> sequence, task |-> p] \in [tag : Nat, task : Message]
        BY DEF TypeOK
      <4>3. unAcked' \subseteq [tag : Nat, task : Message]
        BY <4>1, <4>2 DEF AwaitConfirm, TypeOK
      <4> QED
        BY <4>1, <4>3 DEF AwaitConfirm, TypeOK
    <3>2. CASE ~options.confirm
      BY <1>2, <3>2 DEF Accept, TypeOK
    <3> QED
      BY <3>1, <3>2
  <2>5. UNCHANGED <<options, state, tracked, blocked, link, losses, srv, log,
                    unconfirmed, confirmed, toClient>>
    BY <1>2 DEF Accept, connVars, srvVars
  <2> QED
    BY <2>3, <2>4, <2>5 DEF TypeOK
<1>3. ASSUME Close PROVE TypeOK'
  <2>1. toServer' \in Seq(ToServer)
    BY <1>3, MessageTypes DEF Close, Send, TypeOK, ToServerMethods
  <2> QED
    BY <1>3, <2>1 DEF Close, TypeOK, connVars, srvVars, ExchangeStates
<1> QED
  BY <1>1, <1>2, <1>3 DEF Publish

\* Settling tasks and wiping them keep outcome and unAcked typed.
LEMMA WipeTyped ==
  ASSUME TypeOK, WipeUnAcked
  PROVE  /\ unAcked' \subseteq [tag : Nat, task : Message]
         /\ outcome' \in [Message -> {"idle", "rejected", "sent", "pending", "acked", "failed"}]
BY DEF TypeOK, WipeUnAcked, Settle

\* Reading a message leaves a typed wire.
LEMMA ReceiveTyped ==
  ASSUME TypeOK, NEW m, Receive(m)
  PROVE  toClient' \in Seq(ToClient) /\ Head(toClient) \in ToClient
BY DEF TypeOK, Receive

\* Reading a method at the server leaves a typed wire.
LEMMA ServerReadsTyped ==
  ASSUME TypeOK, NEW m, ServerReads(m)
  PROVE  toServer' \in Seq(ToServer) /\ Head(toServer) \in ToServer
BY DEF TypeOK, ServerReads

\* Each handler of the exchange keeps the variables in their domains.
LEMMA HandlersTyped ==
  ASSUME TypeOK,
         \/ OnChannelOpenOk \/ OnExchangeDeclareOk \/ OnConfirmSelectOk
         \/ OnBasicAck \/ OnChannelClose \/ OnChannelCloseOk
  PROVE  TypeOK'
<1> USE DEF connVars, srvVars
<1>1. \A m \in ToServerMethods \ {"basicPublish"} : Send(m) => toServer' \in Seq(ToServer)
  BY MessageTypes DEF Send, TypeOK
<1>2. ASSUME OnChannelOpenOk PROVE TypeOK'
  <2>1. toClient' \in Seq(ToClient)
    BY <1>2, ReceiveTyped DEF OnChannelOpenOk
  <2>2. toServer' \in Seq(ToServer) /\ state' \in ExchangeStates
    BY <1>1, <1>2 DEF OnChannelOpenOk, ConfirmSelect, Opened, TypeOK,
                      ToServerMethods, ExchangeStates
  <2> QED
    BY <1>2, <2>1, <2>2 DEF OnChannelOpenOk, TypeOK
<1>3. ASSUME OnExchangeDeclareOk PROVE TypeOK'
  <2>1. toClient' \in Seq(ToClient)
    BY <1>3, ReceiveTyped DEF OnExchangeDeclareOk
  <2>2. toServer' \in Seq(ToServer) /\ state' \in ExchangeStates
    BY <1>1, <1>3 DEF OnExchangeDeclareOk, ConfirmSelect, Opened, TypeOK,
                      ToServerMethods, ExchangeStates
  <2> QED
    BY <1>3, <2>1, <2>2 DEF OnExchangeDeclareOk, TypeOK
<1>4. ASSUME OnConfirmSelectOk PROVE TypeOK'
  <2>1. toClient' \in Seq(ToClient)
    BY <1>4, ReceiveTyped DEF OnConfirmSelectOk
  <2> QED
    BY <1>4, <2>1 DEF OnConfirmSelectOk, Opened, TypeOK, ExchangeStates
<1>5. ASSUME OnBasicAck PROVE TypeOK'
  <2>1. toClient' \in Seq(ToClient)
    BY <1>5, ReceiveTyped DEF OnBasicAck
  <2>2. /\ unAcked' \subseteq [tag : Nat, task : Message]
        /\ outcome' \in [Message -> {"idle", "rejected", "sent", "pending", "acked", "failed"}]
    BY <1>5 DEF OnBasicAck, Settle, TypeOK
  <2> QED
    BY <1>5, <2>1, <2>2 DEF OnBasicAck, TypeOK
<1>6. ASSUME OnChannelClose PROVE TypeOK'
  <2>1. toClient' \in Seq(ToClient)
    BY <1>6, ReceiveTyped DEF OnChannelClose
  <2>2. toServer' \in Seq(ToServer)
    BY <1>1, <1>6 DEF OnChannelClose, ToServerMethods
  <2>3. /\ unAcked' \subseteq [tag : Nat, task : Message]
        /\ outcome' \in [Message -> {"idle", "rejected", "sent", "pending", "acked", "failed"}]
    BY <1>6, WipeTyped DEF OnChannelClose
  <2> QED
    BY <1>6, <2>1, <2>2, <2>3 DEF OnChannelClose, TypeOK, ExchangeStates
<1>7. ASSUME OnChannelCloseOk PROVE TypeOK'
  <2>1. toClient' \in Seq(ToClient)
    BY <1>7, ReceiveTyped DEF OnChannelCloseOk
  <2> QED
    BY <1>7, <2>1 DEF OnChannelCloseOk, TypeOK, ExchangeStates
<1> QED
  BY <1>2, <1>3, <1>4, <1>5, <1>6, <1>7

\* Losing, ending and restoring the connection keep the types.
LEMMA ConnectionTyped ==
  ASSUME TypeOK,
         \/ OnFatalMethod \/ WriteAfterEnd \/ LinkReady
         \/ LinkError \/ LinkEnd \/ UserReconnect \/ OnBlocked
  PROVE  TypeOK'
<1> USE DEF clientVars, srvVars
<1>1. ASSUME EmitError, losses' \in Nat PROVE TypeOK'
  <2>1. /\ unAcked' \subseteq [tag : Nat, task : Message]
        /\ outcome' \in [Message -> {"idle", "rejected", "sent", "pending", "acked", "failed"}]
    BY <1>1, WipeTyped DEF EmitError
  <2>2. /\ toServer' \in Seq(ToServer)
        /\ toClient' \in Seq(ToClient)
        /\ log' \in Seq(Message)
    BY <1>1 DEF EmitError, ServerForgets
  <2> QED
    BY <1>1, <2>1, <2>2 DEF EmitError, ServerForgets, TypeOK, ExchangeStates
<1>2. ASSUME OnFatalMethod \/ WriteAfterEnd \/ LinkError PROVE TypeOK'
  BY <1>1, <1>2 DEF OnFatalMethod, WriteAfterEnd, LinkError, TypeOK
<1>3. ASSUME LinkReady PROVE TypeOK'
  <2>1. toServer' \in Seq(ToServer) /\ written' \in Seq(Message)
    BY <1>3, MessageTypes DEF LinkReady, ToServerMethods
  <2> QED
    BY <1>3, <2>1 DEF LinkReady, TypeOK
<1>4. ASSUME LinkEnd PROVE TypeOK'
  <2>1. toServer' \in Seq(ToServer) /\ log' \in Seq(Message)
    BY <1>4 DEF LinkEnd, ServerForgets
  <2> QED
    BY <1>4, <2>1 DEF LinkEnd, ServerForgets, TypeOK
<1>5. ASSUME UserReconnect PROVE TypeOK'
  BY <1>5 DEF UserReconnect, TypeOK, ExchangeStates
<1>6. ASSUME OnBlocked PROVE TypeOK'
  BY <1>6 DEF OnBlocked, TypeOK
<1> QED
  BY <1>2, <1>3, <1>4, <1>5, <1>6

\* Each step of the server keeps the types.
LEMMA ServerTyped ==
  ASSUME TypeOK, ServerStep \/ Acknowledge \/ SrvNack
  PROVE  TypeOK'
<1> USE DEF clientVars, connVars, srvVars
<1>1. \A m \in ToClientMethods : Answer(m) => toClient' \in Seq(ToClient)
  BY MessageTypes DEF Answer, TypeOK
<1>2. ASSUME SrvChannelOpen PROVE TypeOK'
  <2>1. toServer' \in Seq(ToServer) /\ toClient' \in Seq(ToClient)
    BY <1>1, <1>2, ServerReadsTyped DEF SrvChannelOpen, ToClientMethods
  <2> QED
    BY <1>2, <2>1 DEF SrvChannelOpen, TypeOK
<1>3. ASSUME SrvExchangeDeclare PROVE TypeOK'
  <2>1. toServer' \in Seq(ToServer) /\ toClient' \in Seq(ToClient)
    BY <1>1, <1>3, ServerReadsTyped DEF SrvExchangeDeclare, ToClientMethods
  <2> QED
    BY <1>3, <2>1 DEF SrvExchangeDeclare, TypeOK
<1>4. ASSUME SrvConfirmSelect PROVE TypeOK'
  <2>1. toServer' \in Seq(ToServer) /\ toClient' \in Seq(ToClient)
    BY <1>1, <1>4, ServerReadsTyped DEF SrvConfirmSelect, ToClientMethods
  <2> QED
    BY <1>4, <2>1 DEF SrvConfirmSelect, TypeOK
<1>5. ASSUME SrvBasicPublish PROVE TypeOK'
  <2>1. toServer' \in Seq(ToServer) /\ Head(toServer).task \in Message
    BY <1>5, ServerReadsTyped DEF SrvBasicPublish, ServerReads, ToServer
  <2>2. log' \in Seq(Message) /\ Len(log') = Len(log) + 1
    BY <1>5, <2>1 DEF SrvBasicPublish, TypeOK
  <2>3. unconfirmed' \subseteq 1..Len(log')
    <3>1. Len(log) \in Nat /\ unconfirmed \subseteq 1..Len(log)
      BY DEF TypeOK
    <3>2. unconfirmed' \subseteq unconfirmed \cup {Len(log) + 1}
      BY <1>5 DEF SrvBasicPublish
    <3> QED
      BY <3>1, <3>2, <2>2
  <2> QED
    BY <1>5, <2>1, <2>2, <2>3 DEF SrvBasicPublish, TypeOK
<1>6. ASSUME SrvChannelClose PROVE TypeOK'
  <2>1. toServer' \in Seq(ToServer) /\ toClient' \in Seq(ToClient)
    BY <1>1, <1>6, ServerReadsTyped DEF SrvChannelClose, ToClientMethods
  <2> QED
    BY <1>6, <2>1 DEF SrvChannelClose, TypeOK
<1>7. ASSUME SrvRefuse PROVE TypeOK'
  <2>1. toServer' \in Seq(ToServer) /\ toClient' \in Seq(ToClient)
    BY <1>1, <1>7, ServerReadsTyped DEF SrvRefuse, ToClientMethods
  <2> QED
    BY <1>7, <2>1 DEF SrvRefuse, TypeOK
<1>8. ASSUME SrvChannelCloseOk PROVE TypeOK'
  <2>1. toServer' \in Seq(ToServer)
    BY <1>8, ServerReadsTyped DEF SrvChannelCloseOk
  <2> QED
    BY <1>8, <2>1 DEF SrvChannelCloseOk, TypeOK
<1>9. ASSUME SrvDiscard PROVE TypeOK'
  <2>1. toServer' \in Seq(ToServer)
    BY <1>9, ServerReadsTyped DEF SrvDiscard
  <2> QED
    BY <1>9, <2>1 DEF SrvDiscard, TypeOK
<1>10. ASSUME SrvUnexpected PROVE TypeOK'
  <2>1. toServer' \in Seq(ToServer) /\ toClient' \in Seq(ToClient)
    BY <1>1, <1>10, ServerReadsTyped DEF SrvUnexpected, ToClientMethods
  <2> QED
    BY <1>10, <2>1 DEF SrvUnexpected, TypeOK
<1>11. ASSUME Acknowledge PROVE TypeOK'
  <2>1. PICK tag \in unconfirmed, multiple \in BOOLEAN : SrvAck(tag, multiple)
    BY <1>11 DEF Acknowledge
  <2>2. toClient' \in Seq(ToClient)
    <3>1. [m |-> "basicAck", tag |-> tag, multiple |-> multiple] \in ToClient
      BY MessageTypes DEF TypeOK
    <3> QED
      BY <2>1, <3>1 DEF SrvAck, TypeOK
  <2>3. confirmed' \subseteq Message
    BY <2>1 DEF SrvAck, Covered, TypeOK
  <2>4. unconfirmed' \subseteq 1..Len(log) /\ UNCHANGED log
    BY <2>1 DEF SrvAck, TypeOK
  <2> QED
    BY <2>1, <2>2, <2>3, <2>4 DEF SrvAck, TypeOK
<1>12. ASSUME SrvNack PROVE TypeOK'
  <2>1. toClient' \in Seq(ToClient)
    BY <1>1, <1>12 DEF SrvNack, ToClientMethods
  <2> QED
    BY <1>12, <2>1 DEF SrvNack, TypeOK
<1> QED
  BY <1>2, <1>3, <1>4, <1>5, <1>6, <1>7, <1>8, <1>9, <1>10, <1>11, <1>12
     DEF ServerStep, Acknowledge

\* A step of the specification keeps every variable in its domain.
LEMMA NextTyped ==
  ASSUME TypeOK, [Next]_vars
  PROVE  TypeOK'
<1>1. CASE UNCHANGED vars
  BY <1>1 DEF vars, clientVars, connVars, srvVars, TypeOK
<1>2. CASE Next
  BY <1>2, ApplicationTyped, HandlersTyped, ConnectionTyped, ServerTyped
     DEF Next, ClientStep, Environment
<1> QED
  BY <1>1, <1>2

\* Every variable of the exchange, its channel and its server stays in its
\* domain: a task is stored under a number, acks name publishes the server
\* read.
THEOREM TypeCorrect == Spec => []TypeOK
<1> QED
  BY InitTyped, NextTyped, PTL DEF Spec

-----------------------------------------------------------------------------
(* The inductive invariant *)

\* A publish the server reads is the one after those it has logged.
LEMMA NextPublish ==
  ASSUME TypeOK, PublishesInOrder, srv \in {"open", "confirm"},
         toServer # <<>>, Head(toServer).m = "basicPublish"
  PROVE  /\ Head(toServer).nth = Len(log) + 1
         /\ Len(log) + 1 <= Len(written)
         /\ Head(toServer).task = written[Len(log) + 1]
<1>1. /\ toServer \in Seq(ToServer) /\ Len(toServer) \in Nat /\ Len(toServer) >= 1
      /\ Head(toServer) = toServer[1]
      /\ Len(log) \in Nat /\ Len(written) \in Nat
  BY DEF TypeOK
<1>2. 1 \in OnWire
  BY <1>1 DEF OnWire
<1>3. /\ toServer[1].nth \in (Len(log) + 1)..Len(written)
      /\ toServer[1].task = written[toServer[1].nth]
  BY <1>2 DEF PublishesInOrder
<1>4. PICK i \in OnWire : toServer[i].nth = Len(log) + 1
  BY <1>1, <1>3 DEF PublishesInOrder
<1>5. i \in 1..Len(toServer)
  BY DEF OnWire
<1>6. i = 1
  <2>1. CASE 1 < i
    <3>1. toServer[1].nth < toServer[i].nth
      BY <1>2, <2>1 DEF PublishesInOrder
    <3> QED
      BY <1>1, <1>3, <1>4, <3>1
  <2> QED
    BY <1>1, <1>5, <2>1
<1> QED
  BY <1>1, <1>3, <1>4, <1>6

\* The only steps that touch the server's log or the history of publishes.
LEMMA LogFrame ==
  ASSUME [Next]_vars
  PROVE  \/ UNCHANGED <<log, written>>
         \/ \E p \in Message : Accept(p)
         \/ SrvBasicPublish
         \/ ServerForgets /\ UNCHANGED written
         \/ LinkReady
<1> USE DEF srvVars
<1>1. ASSUME ClientStep, ~LinkReady
      PROVE  UNCHANGED <<log, written>> \/ (ServerForgets /\ UNCHANGED written)
  BY <1>1 DEF ClientStep, OnChannelOpenOk, OnExchangeDeclareOk, OnConfirmSelectOk,
       OnBasicAck, OnChannelClose, OnChannelCloseOk, OnFatalMethod, WriteAfterEnd,
       EmitError
<1>2. ASSUME ServerStep, ~SrvBasicPublish PROVE UNCHANGED <<log, written>>
  BY <1>2 DEF ServerStep, SrvChannelOpen, SrvExchangeDeclare, SrvConfirmSelect,
       SrvChannelClose, SrvRefuse, SrvChannelCloseOk, SrvDiscard, SrvUnexpected
<1>3. ASSUME Environment
      PROVE  UNCHANGED <<log, written>> \/ (ServerForgets /\ UNCHANGED written)
  BY <1>3 DEF Environment, LinkError, LinkEnd, UserReconnect, OnBlocked, SrvNack,
       EmitError
<1>4. ASSUME NEW p \in Message, Reject(p) PROVE UNCHANGED <<log, written>>
  BY <1>4 DEF Reject
<1>5. ASSUME Close PROVE UNCHANGED <<log, written>>
  BY <1>5 DEF Close
<1>6. ASSUME Acknowledge PROVE UNCHANGED <<log, written>>
  BY <1>6 DEF Acknowledge, SrvAck
<1>7. ASSUME UNCHANGED vars PROVE UNCHANGED <<log, written>>
  BY <1>7 DEF vars
<1> QED
  BY <1>1, <1>2, <1>3, <1>4, <1>5, <1>6, <1>7 DEF Next, Publish

\* The actions that change the server's log or the history of publishes.
LEMMA LogIsPrefixInductive ==
  ASSUME IInv, [Next]_vars
  PROVE  LogIsPrefix'
<1> USE DEF IInv
<1>1. CASE UNCHANGED <<log, written>>
  BY <1>1 DEF LogIsPrefix
<1>2. ASSUME NEW p \in Message, Accept(p) PROVE LogIsPrefix'
  <2>1. log' = log /\ written' = Append(written, p)
    BY <1>2 DEF Accept, srvVars
  <2> QED
    BY <2>1 DEF LogIsPrefix, TypeOK
<1>3. CASE SrvBasicPublish
  <2>1. /\ srv \in {"open", "confirm"} /\ toServer # <<>>
        /\ Head(toServer).m = "basicPublish"
        /\ log' = Append(log, Head(toServer).task) /\ written' = written
    BY <1>3 DEF SrvBasicPublish, ServerReads
  <2>2. /\ Len(log) + 1 <= Len(written)
        /\ Head(toServer).task = written[Len(log) + 1]
    BY <2>1, NextPublish
  <2> QED
    BY <2>1, <2>2 DEF LogIsPrefix, TypeOK
<1>4. ASSUME ServerForgets, UNCHANGED written PROVE LogIsPrefix'
  BY <1>4 DEF ServerForgets, LogIsPrefix, TypeOK
<1>5. CASE LinkReady
  <2>1. log' = <<>> /\ written' = <<>>
    BY <1>5 DEF LinkReady, DownIsClean, srvVars
  <2> QED
    BY <2>1 DEF LogIsPrefix
<1> QED
  BY <1>1, <1>2, <1>3, <1>4, <1>5, LogFrame

-----------------------------------------------------------------------------
(* The wires under the steps that read and write them *)

\* Reading takes the first method off the wire to the server.
LEMMA ServerReadsWire ==
  ASSUME TypeOK, NEW m, ServerReads(m)
  PROVE  /\ 1 \in 1..Len(toServer) /\ toServer[1].m = m
         /\ Len(toServer') = Len(toServer) - 1
         /\ \A i \in 1..Len(toServer') : i + 1 \in 1..Len(toServer)
                                        /\ toServer'[i] = toServer[i + 1]
BY DEF TypeOK, ServerReads

\* Dispatching takes the first method off the wire to the client.
LEMMA ReceiveWire ==
  ASSUME TypeOK, NEW m, Receive(m)
  PROVE  /\ 1 \in 1..Len(toClient) /\ toClient[1].m = m
         /\ Len(toClient') = Len(toClient) - 1
         /\ \A i \in 1..Len(toClient') : i + 1 \in 1..Len(toClient)
                                        /\ toClient'[i] = toClient[i + 1]
BY DEF TypeOK, Receive

\* Reading a request leaves the other requests; reading one of the handshake
\* leaves none.
LEMMA ReadRequests ==
  ASSUME TypeOK, HandshakeAlternates, NEW m, ServerReads(m)
  PROVE  /\ \A i, j \in Requests' : i = j
         /\ Requests' # {} => Requests # {}
         /\ m \in HandshakeRequests => Requests # {} /\ Requests' = {}
<1>1. \A i \in Requests' : i \in Nat /\ i >= 1 /\ i + 1 \in Requests
  BY ServerReadsWire DEF Requests
<1>2. m \in HandshakeRequests => 1 \in Requests
  BY ServerReadsWire DEF Requests
<1> QED
  BY <1>1, <1>2 DEF HandshakeAlternates

\* Dispatching a reply leaves the other replies; dispatching one of the
\* handshake leaves none.
LEMMA ReadReplies ==
  ASSUME TypeOK, HandshakeAlternates, NEW m, Receive(m)
  PROVE  /\ \A i, j \in Replies' : i = j
         /\ Replies' # {} => Replies # {}
         /\ m \in HandshakeReplies => Replies # {} /\ Replies' = {}
<1>1. \A i \in Replies' : i \in Nat /\ i >= 1 /\ i + 1 \in Replies
  BY ReceiveWire DEF Replies
<1>2. m \in HandshakeReplies => 1 \in Replies
  BY ReceiveWire DEF Replies
<1> QED
  BY <1>1, <1>2 DEF HandshakeAlternates

\* Writing adds a request of the handshake only where one is written.
LEMMA SendRequests ==
  ASSUME TypeOK, NEW msg \in ToServer, toServer' = Append(toServer, msg)
  PROVE  /\ msg.m \notin HandshakeRequests => Requests' = Requests
         /\ Requests = {} => \A i, j \in Requests' : i = j
<1>1. /\ Len(toServer') = Len(toServer) + 1 /\ Len(toServer) \in Nat
      /\ toServer'[Len(toServer) + 1] = msg
      /\ \A i \in 1..Len(toServer) : toServer'[i] = toServer[i]
  BY DEF TypeOK
<1>2. \A i \in Requests' : i \in Requests \/ (i = Len(toServer) + 1 /\ msg.m \in HandshakeRequests)
  BY <1>1 DEF Requests
<1>3. Requests \subseteq Requests'
  BY <1>1 DEF Requests
<1> QED
  BY <1>2, <1>3

\* Answering adds a reply of the handshake only where one is given.
LEMMA AnswerReplies ==
  ASSUME TypeOK, NEW msg \in ToClient, toClient' = Append(toClient, msg)
  PROVE  /\ msg.m \notin HandshakeReplies => Replies' = Replies
         /\ Replies = {} => \A i, j \in Replies' : i = j
<1>1. /\ Len(toClient') = Len(toClient) + 1 /\ Len(toClient) \in Nat
      /\ toClient'[Len(toClient) + 1] = msg
      /\ \A i \in 1..Len(toClient) : toClient'[i] = toClient[i]
  BY DEF TypeOK
<1>2. \A i \in Replies' : i \in Replies \/ (i = Len(toClient) + 1 /\ msg.m \in HandshakeReplies)
  BY <1>1 DEF Replies
<1>3. Replies \subseteq Replies'
  BY <1>1 DEF Replies
<1> QED
  BY <1>2, <1>3

\* What Send does to the requests of the handshake.
LEMMA SendMethod ==
  ASSUME TypeOK, NEW m \in ToServerMethods \ {"basicPublish"}, Send(m)
  PROVE  /\ m \notin HandshakeRequests => Requests' = Requests
         /\ Requests = {} => \A i, j \in Requests' : i = j
<1>1. Request(m) \in ToServer /\ Request(m).m = m
  BY MessageTypes DEF Request
<1> QED
  BY <1>1, SendRequests DEF Send

\* What Answer does to the replies of the handshake.
LEMMA AnswerMethod ==
  ASSUME TypeOK, NEW m \in ToClientMethods, Answer(m)
  PROVE  /\ m \notin HandshakeReplies => Replies' = Replies
         /\ Replies = {} => \A i, j \in Replies' : i = j
<1>1. Reply(m) \in ToClient /\ Reply(m).m = m
  BY MessageTypes DEF Reply
<1> QED
  BY <1>1, AnswerReplies DEF Answer

-----------------------------------------------------------------------------
(* The handshake alternates *)

\* The calls of the application keep the alternation: an open exchange has no
\* message of the handshake under way.
LEMMA HandshakeApplication ==
  ASSUME IInv, (\E p \in Message : Publish(p)) \/ Close
  PROVE  HandshakeAlternates'
<1> USE DEF IInv
<1>1. ASSUME NEW p \in Message, Reject(p) PROVE HandshakeAlternates'
  BY <1>1 DEF Reject, HandshakeAlternates, Requests, Replies
<1>2. ASSUME NEW p \in Message, Accept(p) PROVE HandshakeAlternates'
  <2> DEFINE msg == [m |-> "basicPublish", task |-> p, nth |-> Len(written) + 1]
  <2>1. msg \in ToServer
    BY MessageTypes DEF TypeOK
  <2>2. Requests' = Requests
    BY <1>2, <2>1, SendRequests DEF Accept, HandshakeRequests
  <2>3. Requests = {} /\ Replies = {}
    BY <1>2 DEF Accept, HandshakeAlternates
  <2>4. Replies' = Replies
    BY <1>2 DEF Accept, Replies
  <2> QED
    BY <2>2, <2>3, <2>4 DEF HandshakeAlternates
<1>3. ASSUME Close PROVE HandshakeAlternates'
  <2>1. Requests' = Requests
    BY <1>3, SendMethod DEF Close, ToServerMethods, HandshakeRequests
  <2>2. Replies' = Replies /\ written' = written /\ state' # "open"
    BY <1>3 DEF Close, Replies
  <2> QED
    BY <2>1, <2>2 DEF HandshakeAlternates
<1> QED
  BY <1>1, <1>2, <1>3 DEF Publish

\* Each handler that takes a reply of the handshake sends at most one request.
LEMMA HandshakeHandlers ==
  ASSUME IInv,
         \/ OnChannelOpenOk \/ OnExchangeDeclareOk \/ OnConfirmSelectOk
         \/ OnBasicAck \/ OnChannelClose \/ OnChannelCloseOk
  PROVE  HandshakeAlternates'
<1> USE DEF IInv
\* A reply of the handshake is consumed: at most one request follows it.
<1>1. ASSUME NEW m \in HandshakeReplies, Receive(m), UNCHANGED written,
             \/ Opened
             \/ /\ \E r \in {"exchangeDeclare", "confirmSelect"} : Send(r)
                /\ state' \in {state, "declaring"}
      PROVE  HandshakeAlternates'
  <2>1. Replies # {} /\ Replies' = {} /\ Requests = {} /\ written = <<>> /\ state # "open"
    BY <1>1, ReadReplies DEF HandshakeAlternates
  <2>2. CASE Opened
    <3>1. Requests' = Requests
      BY <2>2 DEF Opened, Requests
    <3> QED
      BY <2>1, <3>1 DEF HandshakeAlternates
  <2>3. ASSUME NEW r \in {"exchangeDeclare", "confirmSelect"}, Send(r),
               state' \in {state, "declaring"}
        PROVE  HandshakeAlternates'
    <3>1. \A i, j \in Requests' : i = j
      BY <2>1, <2>3, SendMethod DEF ToServerMethods
    <3> QED
      BY <1>1, <2>1, <2>3, <3>1 DEF HandshakeAlternates
  <2> QED
    BY <1>1, <2>2, <2>3
<1>2. CASE OnChannelOpenOk
  BY <1>1, <1>2 DEF OnChannelOpenOk, ConfirmSelect, HandshakeReplies
<1>3. CASE OnExchangeDeclareOk
  BY <1>1, <1>3 DEF OnExchangeDeclareOk, ConfirmSelect, HandshakeReplies
<1>4. CASE OnConfirmSelectOk
  BY <1>1, <1>4 DEF OnConfirmSelectOk, HandshakeReplies
<1>5. ASSUME NEW m, Receive(m), UNCHANGED written, Requests' = Requests,
             state' \in {state, "closed"}
      PROVE  HandshakeAlternates'
  BY <1>5, ReadReplies DEF HandshakeAlternates
<1>6. CASE OnBasicAck
  <2>1. Requests' = Requests
    BY <1>6 DEF OnBasicAck, Requests
  <2> QED
    BY <1>5, <1>6, <2>1 DEF OnBasicAck
<1>7. CASE OnChannelClose
  <2>1. Requests' = Requests
    BY <1>7, SendMethod DEF OnChannelClose, ToServerMethods, HandshakeRequests
  <2> QED
    BY <1>5, <1>7, <2>1 DEF OnChannelClose
<1>8. CASE OnChannelCloseOk
  <2>1. Requests' = Requests
    BY <1>8 DEF OnChannelCloseOk, Requests
  <2> QED
    BY <1>5, <1>8, <2>1 DEF OnChannelCloseOk
<1> QED
  BY <1>2, <1>3, <1>4, <1>6, <1>7, <1>8

\* A lost connection empties the wires, a new one carries one channelOpen.
LEMMA HandshakeConnection ==
  ASSUME IInv,
         \/ OnFatalMethod \/ WriteAfterEnd \/ LinkReady
         \/ LinkError \/ LinkEnd \/ UserReconnect \/ OnBlocked
  PROVE  HandshakeAlternates'
<1> USE DEF IInv
<1>1. ASSUME toServer' = <<>>, toClient' = <<>> PROVE HandshakeAlternates'
  BY <1>1 DEF HandshakeAlternates, Requests, Replies
<1>2. CASE OnFatalMethod \/ WriteAfterEnd \/ LinkError
  BY <1>1, <1>2 DEF OnFatalMethod, WriteAfterEnd, LinkError, EmitError
<1>3. CASE LinkEnd
  BY <1>1, <1>3 DEF LinkEnd
<1>4. CASE UserReconnect
  BY <1>1, <1>4 DEF UserReconnect, DownIsClean
<1>5. CASE LinkReady
  <2>1. /\ written' = <<>> /\ toClient' = <<>> /\ state' # "open"
        /\ toServer' \in {<<>>, <<Request("channelOpen")>>}
    BY <1>5 DEF LinkReady, DownIsClean, clientVars
  <2> QED
    BY <2>1 DEF HandshakeAlternates, Requests, Replies
<1>6. CASE OnBlocked
  BY <1>6 DEF OnBlocked, clientVars, HandshakeAlternates, Requests, Replies
<1> QED
  BY <1>2, <1>3, <1>4, <1>5, <1>6

\* The server answers each request of the handshake at most once.
LEMMA HandshakeServer ==
  ASSUME IInv, ServerStep \/ Acknowledge \/ SrvNack
  PROVE  HandshakeAlternates'
<1> USE DEF IInv, clientVars
\* A request of the handshake is answered by its reply.
<1>1. ASSUME NEW m \in HandshakeRequests, ServerReads(m),
             NEW r \in ToClientMethods, Answer(r), UNCHANGED <<written, state>>
      PROVE  HandshakeAlternates'
  <2>1. /\ Requests # {} /\ Requests' = {} /\ Replies = {}
        /\ written = <<>> /\ state # "open"
    BY <1>1, ReadRequests DEF HandshakeAlternates
  <2>2. \A i, j \in Replies' : i = j
    BY <1>1, <2>1, AnswerMethod
  <2> QED
    BY <1>1, <2>1, <2>2 DEF HandshakeAlternates
\* Anything else the server reads or sends leaves the handshake alone.
<1>2. ASSUME NEW m, ServerReads(m), Replies' = Replies, UNCHANGED <<written, state>>
      PROVE  HandshakeAlternates'
  BY <1>2, ReadRequests DEF HandshakeAlternates
<1>3. ASSUME NEW r \in ToClientMethods \ HandshakeReplies, Answer(r)
      PROVE  Replies' = Replies
  BY <1>3, AnswerMethod
<1>4. CASE SrvChannelOpen
  BY <1>1, <1>4 DEF SrvChannelOpen, HandshakeRequests, ToClientMethods
<1>5. CASE SrvExchangeDeclare
  BY <1>1, <1>5 DEF SrvExchangeDeclare, HandshakeRequests, ToClientMethods
<1>6. CASE SrvConfirmSelect
  BY <1>1, <1>6 DEF SrvConfirmSelect, HandshakeRequests, ToClientMethods
<1>7. CASE SrvBasicPublish
  BY <1>2, <1>7 DEF SrvBasicPublish, Replies
<1>8. CASE SrvChannelClose
  <2>1. Replies' = Replies
    BY <1>3, <1>8 DEF SrvChannelClose, HandshakeReplies, ToClientMethods
  <2> QED
    BY <1>2, <1>8, <2>1 DEF SrvChannelClose
<1>9. CASE SrvRefuse
  <2>1. Replies' = Replies
    BY <1>3, <1>9 DEF SrvRefuse, HandshakeReplies, ToClientMethods
  <2> QED
    BY <1>2, <1>9, <2>1 DEF SrvRefuse
<1>10. CASE SrvChannelCloseOk
  BY <1>2, <1>10 DEF SrvChannelCloseOk, Replies
<1>11. CASE SrvDiscard
  BY <1>2, <1>11 DEF SrvDiscard, Replies
<1>12. CASE SrvUnexpected
  <2>1. Replies' = Replies
    BY <1>3, <1>12 DEF SrvUnexpected, HandshakeReplies, ToClientMethods
  <2> QED
    BY <1>2, <1>12, <2>1 DEF SrvUnexpected
<1>13. CASE SrvNack
  <2>1. Replies' = Replies
    BY <1>3, <1>13 DEF SrvNack, HandshakeReplies, ToClientMethods
  <2>2. Requests' = Requests
    BY <1>13 DEF SrvNack, Requests
  <2> QED
    BY <1>13, <2>1, <2>2 DEF SrvNack, HandshakeAlternates
<1>14. ASSUME NEW tag \in unconfirmed, NEW multiple \in BOOLEAN, SrvAck(tag, multiple)
       PROVE  HandshakeAlternates'
  <2>1. [m |-> "basicAck", tag |-> tag, multiple |-> multiple] \in ToClient
    BY MessageTypes DEF TypeOK
  <2>2. Replies' = Replies
    BY <1>14, <2>1, AnswerReplies DEF SrvAck, HandshakeReplies
  <2>3. Requests' = Requests
    BY <1>14 DEF SrvAck, Requests
  <2> QED
    BY <1>14, <2>2, <2>3 DEF SrvAck, HandshakeAlternates
<1> QED
  BY <1>4, <1>5, <1>6, <1>7, <1>8, <1>9, <1>10, <1>11, <1>12, <1>13, <1>14
     DEF ServerStep, Acknowledge

\* Every step keeps the strict alternation of the handshake.
LEMMA HandshakeInductive ==
  ASSUME IInv, [Next]_vars
  PROVE  HandshakeAlternates'
<1>1. CASE UNCHANGED vars
  BY <1>1 DEF IInv, vars, clientVars, HandshakeAlternates, Requests, Replies
<1> QED
  BY <1>1, HandshakeApplication, HandshakeHandlers, HandshakeConnection, HandshakeServer
     DEF Next, ClientStep, Environment

-----------------------------------------------------------------------------
(* Publishes arrive in order *)

\* The ways a step can change what travels towards the server.
LEMMA WireFrame ==
  ASSUME [Next]_vars
  PROVE  \/ UNCHANGED <<toServer, log, written>> /\ srv' \in {srv, "dead"}
         \/ \E p \in Message : Accept(p)
         \/ /\ \E m \in ToServerMethods \ {"basicPublish"} : Send(m)
            /\ UNCHANGED <<log, written, srv>>
         \/ SrvBasicPublish
         \/ SrvChannelOpen
         \/ /\ \E m \in ToServerMethods \ {"basicPublish"} : ServerReads(m)
            /\ srv \in {"open", "confirm"}
            /\ UNCHANGED <<log, written>>
         \/ /\ \E m \in ToServerMethods : ServerReads(m)
            /\ srv' \notin {"open", "confirm"}
            /\ UNCHANGED <<log, written>>
         \/ toServer' = <<>> /\ ServerForgets /\ UNCHANGED written
         \/ LinkReady
<1> USE DEF srvVars, ToServerMethods
<1>1. CASE (\E p \in Message : Publish(p)) \/ Close \/ UNCHANGED vars
  BY <1>1 DEF Publish, Reject, Close, vars
<1>2. CASE OnChannelOpenOk \/ OnExchangeDeclareOk \/ OnConfirmSelectOk
  BY <1>2 DEF OnChannelOpenOk, OnExchangeDeclareOk, OnConfirmSelectOk, ConfirmSelect, Opened
<1>3. CASE OnBasicAck \/ OnChannelClose \/ OnChannelCloseOk
  BY <1>3 DEF OnBasicAck, OnChannelClose, OnChannelCloseOk
<1>4. CASE OnFatalMethod \/ WriteAfterEnd \/ LinkReady
  BY <1>4 DEF OnFatalMethod, WriteAfterEnd, EmitError
<1>5. CASE SrvExchangeDeclare \/ SrvConfirmSelect \/ SrvChannelClose \/ SrvRefuse
  BY <1>5 DEF SrvExchangeDeclare, SrvConfirmSelect, SrvChannelClose, SrvRefuse
<1>6. CASE SrvChannelCloseOk \/ SrvDiscard \/ SrvUnexpected
  BY <1>6 DEF SrvChannelCloseOk, SrvDiscard, SrvUnexpected
<1>7. CASE Acknowledge
  BY <1>7 DEF Acknowledge, SrvAck
<1>8. CASE Environment
  BY <1>8 DEF Environment, LinkError, LinkEnd, UserReconnect, OnBlocked, SrvNack, EmitError
<1> QED
  BY <1>1, <1>2, <1>3, <1>4, <1>5, <1>6, <1>7, <1>8 DEF Next, ClientStep, ServerStep

\* Every step keeps the publishes under way in order and complete.
LEMMA PublishesInductive ==
  ASSUME IInv, [Next]_vars
  PROVE  PublishesInOrder'
<1> USE DEF IInv
<1>1. CASE UNCHANGED <<toServer, log, written>> /\ srv' \in {srv, "dead"}
  BY <1>1 DEF PublishesInOrder, OnWire
<1>2. ASSUME NEW p \in Message, Accept(p) PROVE PublishesInOrder'
  <2> DEFINE msg == [m |-> "basicPublish", task |-> p, nth |-> Len(written) + 1]
  <2>1. /\ toServer' = Append(toServer, msg) /\ written' = Append(written, p)
        /\ log' = log /\ srv' = srv
    BY <1>2 DEF Accept, srvVars
  <2>2. /\ Len(toServer) \in Nat /\ Len(toServer') = Len(toServer) + 1
        /\ toServer'[Len(toServer) + 1] = msg
        /\ \A i \in 1..Len(toServer) : toServer'[i] = toServer[i]
    BY <2>1, MessageTypes DEF TypeOK
  <2>3. OnWire' = OnWire \cup {Len(toServer) + 1}
    BY <2>2 DEF OnWire
  <2>4. /\ Len(written) \in Nat /\ Len(log) \in Nat /\ Len(log) <= Len(written)
        /\ Len(written') = Len(written) + 1 /\ written'[Len(written) + 1] = p
        /\ \A n \in 1..Len(written) : written'[n] = written[n]
    BY <2>1 DEF TypeOK, LogIsPrefix
  <2>5. OnWire \subseteq 1..Len(toServer)
    BY DEF OnWire
  <2>6. \A i \in OnWire' : /\ toServer'[i].nth \in (Len(log') + 1)..Len(written')
                          /\ toServer'[i].task = written'[toServer'[i].nth]
    <3>1. ASSUME NEW i \in OnWire
          PROVE  /\ toServer'[i].nth \in (Len(log) + 1)..(Len(written) + 1)
                 /\ toServer'[i].task = written'[toServer'[i].nth]
      <4>1. /\ toServer[i].nth \in (Len(log) + 1)..Len(written)
            /\ toServer[i].task = written[toServer[i].nth]
        BY DEF PublishesInOrder
      <4>2. toServer'[i] = toServer[i]
        BY <2>2, <2>5
      <4>3. written'[toServer[i].nth] = written[toServer[i].nth]
        BY <2>4, <4>1
      <4>4. toServer[i].nth \in (Len(log) + 1)..(Len(written) + 1)
        BY <2>4, <4>1
      <4> QED
        BY <4>1, <4>2, <4>3, <4>4
    <3>2. LET i == Len(toServer) + 1
          IN  /\ toServer'[i].nth \in (Len(log) + 1)..(Len(written) + 1)
              /\ toServer'[i].task = written'[toServer'[i].nth]
      <4>1. /\ toServer'[Len(toServer) + 1].nth = Len(written) + 1
            /\ toServer'[Len(toServer) + 1].task = p
        BY <2>2
      <4> QED
        BY <2>4, <4>1
    <3>3. Len(log') = Len(log) /\ Len(written') = Len(written) + 1
      BY <2>1, <2>4
    <3> QED
      BY <2>3, <3>1, <3>2, <3>3
  <2>7. \A i, j \in OnWire' : i < j => toServer'[i].nth < toServer'[j].nth
    <3>1. \A i \in OnWire : toServer[i].nth \in (Len(log) + 1)..Len(written)
      BY DEF PublishesInOrder
    <3>2. \A i \in OnWire : i \in Nat /\ i <= Len(toServer) /\ toServer'[i] = toServer[i]
      BY <2>2, <2>5
    <3>3. ASSUME NEW i \in OnWire', NEW j \in OnWire', i < j
          PROVE  toServer'[i].nth < toServer'[j].nth
      <4>1. i \in OnWire
        BY <2>2, <2>3, <3>2, <3>3
      <4>2. CASE j \in OnWire
        BY <3>2, <3>3, <4>1, <4>2 DEF PublishesInOrder
      <4>3. CASE j = Len(toServer) + 1
        BY <2>2, <2>4, <3>1, <3>2, <4>1, <4>3
      <4> QED
        BY <2>3, <4>2, <4>3
    <3> QED
      BY <3>3
  <2>8. srv \in {"open", "confirm"} =>
          \A n \in (Len(log) + 1)..Len(written') : \E i \in OnWire' : toServer'[i].nth = n
    <3> SUFFICES ASSUME srv \in {"open", "confirm"}, NEW n \in (Len(log) + 1)..Len(written')
                 PROVE  \E i \in OnWire' : toServer'[i].nth = n
      OBVIOUS
    <3>1. CASE n \in (Len(log) + 1)..Len(written)
      BY <2>2, <2>3, <2>5, <3>1 DEF PublishesInOrder
    <3>2. CASE n = Len(written) + 1
      BY <2>2, <2>3, <3>2
    <3> QED
      BY <2>4, <3>1, <3>2
  <2>9. Len(log') = Len(log) /\ srv' = srv
    BY <2>1
  <2> QED
    BY <2>6, <2>7, <2>8, <2>9 DEF PublishesInOrder
<1>3. ASSUME NEW m \in ToServerMethods \ {"basicPublish"}, Send(m),
             UNCHANGED <<log, written, srv>>
      PROVE  PublishesInOrder'
  <2>1. /\ Len(toServer) \in Nat /\ Len(toServer') = Len(toServer) + 1
        /\ toServer'[Len(toServer) + 1].m = m
        /\ \A i \in 1..Len(toServer) : toServer'[i] = toServer[i]
    BY <1>3, MessageTypes DEF TypeOK, Send, Request
  <2>2. OnWire' = OnWire /\ OnWire \subseteq 1..Len(toServer)
    BY <2>1 DEF OnWire
  <2> QED
    BY <1>3, <2>1, <2>2 DEF PublishesInOrder
\* What remains after a read are the later publishes.
<1>4. ASSUME NEW m, ServerReads(m)
      PROVE  /\ \A i \in OnWire' : /\ i \in Nat /\ i > 0 /\ i + 1 \in OnWire
                                   /\ toServer'[i] = toServer[i + 1]
             /\ \A i \in OnWire : i > 1 => i - 1 \in OnWire'
  <2>1. /\ Len(toServer) \in Nat /\ Len(toServer') = Len(toServer) - 1
        /\ \A i \in 1..Len(toServer') : i + 1 \in 1..Len(toServer)
                                       /\ toServer'[i] = toServer[i + 1]
    BY <1>4, ServerReadsWire DEF TypeOK
  <2> QED
    BY <2>1 DEF OnWire
<1>5. ASSUME NEW m, ServerReads(m), UNCHANGED <<log, written>>,
             srv' \in {"open", "confirm"} =>
               \A n \in (Len(log) + 1)..Len(written) : \E i \in OnWire : i > 1 /\ toServer[i].nth = n
      PROVE  PublishesInOrder'
  <2>1. \A i \in OnWire' : /\ toServer'[i].nth \in (Len(log') + 1)..Len(written')
                          /\ toServer'[i].task = written'[toServer'[i].nth]
    BY <1>4, <1>5 DEF PublishesInOrder
  <2>2. \A i, j \in OnWire' : i < j => toServer'[i].nth < toServer'[j].nth
    BY <1>4, <1>5 DEF PublishesInOrder
  <2>3. \A i \in OnWire : i > 1 => i - 1 \in OnWire' /\ toServer'[i - 1] = toServer[i]
    BY <1>4, <1>5 DEF OnWire
  <2> QED
    BY <1>5, <2>1, <2>2, <2>3 DEF PublishesInOrder
<1>6. CASE SrvBasicPublish
  <2>1. /\ ServerReads("basicPublish") /\ srv \in {"open", "confirm"}
        /\ toServer # <<>> /\ Head(toServer).m = "basicPublish"
        /\ log' = Append(log, Head(toServer).task) /\ written' = written /\ srv' = srv
    BY <1>6 DEF SrvBasicPublish, ServerReads
  <2>2. /\ Head(toServer) = toServer[1] /\ 1 \in OnWire
        /\ Len(log) \in Nat /\ Len(log') = Len(log) + 1 /\ Len(written) \in Nat
    BY <2>1, ServerReadsWire DEF TypeOK, OnWire
  <2>3. toServer[1].nth = Len(log) + 1
    BY <2>1, <2>2, NextPublish
  <2>4. \A i \in OnWire : i > 1 => toServer[i].nth > Len(log) + 1
    BY <2>2, <2>3 DEF PublishesInOrder
  <2>5. \A i \in OnWire' : /\ i \in Nat /\ i > 0 /\ i + 1 \in OnWire
                          /\ toServer'[i] = toServer[i + 1]
    BY <1>4, <2>1
  <2>6. \A i \in OnWire' : /\ toServer'[i].nth \in (Len(log') + 1)..Len(written')
                          /\ toServer'[i].task = written'[toServer'[i].nth]
    <3> SUFFICES ASSUME NEW i \in OnWire'
                 PROVE  /\ toServer'[i].nth \in (Len(log') + 1)..Len(written')
                        /\ toServer'[i].task = written'[toServer'[i].nth]
      OBVIOUS
    <3>1. /\ toServer[i + 1].nth \in (Len(log) + 1)..Len(written)
          /\ toServer[i + 1].task = written[toServer[i + 1].nth]
      BY <2>5 DEF PublishesInOrder
    <3>2. toServer[i + 1].nth > Len(log) + 1
      BY <2>4, <2>5
    <3> QED
      BY <2>1, <2>2, <2>5, <3>1, <3>2
  <2>7. \A i, j \in OnWire' : i < j => toServer'[i].nth < toServer'[j].nth
    BY <2>5 DEF PublishesInOrder
  <2>8. ASSUME NEW n \in (Len(log') + 1)..Len(written')
        PROVE  \E i \in OnWire' : toServer'[i].nth = n
    <3>1. PICK i \in OnWire : toServer[i].nth = n
      BY <2>1, <2>2, <2>8 DEF PublishesInOrder
    <3>2. i \in Nat /\ i > 1
      BY <2>2, <2>3, <2>8, <3>1 DEF OnWire
    <3>3. i - 1 \in OnWire' /\ toServer'[i - 1] = toServer[i]
      BY <1>4, <2>1, <3>2, <2>5
    <3> QED
      BY <3>1, <3>3
  <2> QED
    BY <2>6, <2>7, <2>8 DEF PublishesInOrder
<1>7. CASE SrvChannelOpen
  <2>1. ServerReads("channelOpen") /\ UNCHANGED <<log, written>>
    BY <1>7 DEF SrvChannelOpen
  <2>2. written = <<>>
    BY <2>1, ReadRequests DEF HandshakeAlternates, HandshakeRequests
  <2> QED
    BY <1>5, <2>1, <2>2 DEF TypeOK
<1>8. ASSUME NEW m \in ToServerMethods \ {"basicPublish"}, ServerReads(m),
             srv \in {"open", "confirm"}, UNCHANGED <<log, written>>
      PROVE  PublishesInOrder'
  <2>1. 1 \notin OnWire
    BY <1>8, ServerReadsWire DEF OnWire
  <2>2. \A i \in OnWire : i \in Nat /\ i > 1
    BY <2>1 DEF OnWire, TypeOK
  <2>3. \A n \in (Len(log) + 1)..Len(written) : \E i \in OnWire : i > 1 /\ toServer[i].nth = n
    BY <1>8, <2>2 DEF PublishesInOrder
  <2> QED
    BY <1>5, <1>8, <2>3
<1>9. ASSUME NEW m \in ToServerMethods, ServerReads(m),
             srv' \notin {"open", "confirm"}, UNCHANGED <<log, written>>
      PROVE  PublishesInOrder'
  BY <1>5, <1>9
<1>10. CASE toServer' = <<>> /\ ServerForgets
  BY <1>10 DEF PublishesInOrder, OnWire, ServerForgets
<1>11. CASE LinkReady
  <2>1. OnWire' = {}
    BY <1>11 DEF LinkReady, OnWire, Request
  <2>2. log' = <<>> /\ written' = <<>>
    BY <1>11 DEF LinkReady, DownIsClean, srvVars
  <2> QED
    BY <2>1, <2>2 DEF PublishesInOrder
<1> QED
  BY <1>1, <1>2, <1>3, <1>6, <1>7, <1>8, <1>9, <1>10, <1>11, WireFrame

-----------------------------------------------------------------------------
(* The bookkeeping of the client *)

\* The ways a step can change what is waiting for a confirm.
LEMMA WaitingFrame ==
  ASSUME [Next]_vars
  PROVE  \/ UNCHANGED <<unAcked, outcome, written>>
         \/ \E p \in Message : Reject(p) \/ Accept(p)
         \/ OnBasicAck
         \/ WipeUnAcked /\ UNCHANGED written
         \/ LinkReady
<1> USE DEF clientVars
<1>1. CASE (\E p \in Message : Publish(p)) \/ Close \/ UNCHANGED vars
  BY <1>1 DEF Publish, Close, vars
<1>2. CASE ClientStep
  BY <1>2 DEF ClientStep, OnChannelOpenOk, OnExchangeDeclareOk, OnConfirmSelectOk,
       OnChannelClose, OnChannelCloseOk, OnFatalMethod, WriteAfterEnd, EmitError
<1>3. CASE ServerStep
  BY <1>3 DEF ServerStep, SrvChannelOpen, SrvExchangeDeclare, SrvConfirmSelect,
       SrvBasicPublish, SrvChannelClose, SrvRefuse, SrvChannelCloseOk, SrvDiscard,
       SrvUnexpected
<1>4. CASE Acknowledge
  BY <1>4 DEF Acknowledge, SrvAck
<1>5. CASE Environment
  BY <1>5 DEF Environment, LinkError, LinkEnd, UserReconnect, OnBlocked, SrvNack, EmitError
<1> QED
  BY <1>1, <1>2, <1>3, <1>4, <1>5 DEF Next

\* The options of an exchange never change.
LEMMA OptionsFixed ==
  ASSUME [Next]_vars
  PROVE  options' = options
<1> USE DEF clientVars
<1>1. CASE (\E p \in Message : Publish(p)) \/ Close \/ UNCHANGED vars
  BY <1>1 DEF Publish, Reject, Accept, Close, vars
<1>2. CASE ClientStep
  BY <1>2 DEF ClientStep, OnChannelOpenOk, OnExchangeDeclareOk, OnConfirmSelectOk,
       OnBasicAck, OnChannelClose, OnChannelCloseOk, OnFatalMethod, WriteAfterEnd,
       EmitError, LinkReady
<1>3. CASE ServerStep
  BY <1>3 DEF ServerStep, SrvChannelOpen, SrvExchangeDeclare, SrvConfirmSelect,
       SrvBasicPublish, SrvChannelClose, SrvRefuse, SrvChannelCloseOk, SrvDiscard,
       SrvUnexpected
<1>4. CASE Acknowledge
  BY <1>4 DEF Acknowledge, SrvAck
<1>5. CASE Environment
  BY <1>5 DEF Environment, LinkError, LinkEnd, UserReconnect, OnBlocked, SrvNack, EmitError
<1> QED
  BY <1>1, <1>2, <1>3, <1>4, <1>5 DEF Next

\* Every step keeps each waiting task under the number of its own publish.
LEMMA KeysInductive ==
  ASSUME IInv, [Next]_vars
  PROVE  KeysAreNumbers'
<1> USE OptionsFixed DEF IInv
<1>1. CASE UNCHANGED <<unAcked, outcome, written>>
  BY <1>1 DEF KeysAreNumbers
<1>2. ASSUME NEW p \in Message, Reject(p) PROVE KeysAreNumbers'
  <2>1. outcome[p] = "idle" /\ UNCHANGED <<unAcked, written>>
    BY <1>2 DEF Reject
  <2>2. \A u \in unAcked : outcome'[u.task] = outcome[u.task]
    BY <1>2, <2>1 DEF Reject, KeysAreNumbers, TypeOK
  <2> QED
    BY <2>1, <2>2 DEF KeysAreNumbers
<1>3. ASSUME NEW p \in Message, Accept(p) PROVE KeysAreNumbers'
  <2>1. /\ written' = Append(written, p) /\ outcome[p] = "idle"
        /\ outcome' \in [Message -> {"sent", "pending", "idle", "rejected", "acked", "failed"}]
        /\ Len(written) \in Nat /\ Len(written') = Len(written) + 1
        /\ written'[Len(written) + 1] = p
        /\ \A n \in 1..Len(written) : written'[n] = written[n]
    BY <1>3, ApplicationTyped DEF Accept, Publish, TypeOK
  <2>2. \A u \in unAcked : u.tag \in Nat /\ u.task \in Message /\ u.task # p
    BY <2>1 DEF KeysAreNumbers, TypeOK
  <2>3. \A u \in unAcked : outcome'[u.task] = outcome[u.task]
    BY <1>3, <2>2 DEF Accept, AwaitConfirm, TypeOK
  <2>4. sequence = Len(written) + 1 \/ ~options.confirm
    BY <1>3 DEF Accept, SequenceInStep
  <2>5. CASE ~options.confirm
    <3>1. unAcked' = unAcked
      BY <1>3, <2>5 DEF Accept
    <3>2. unAcked' = {}
      BY <2>5, <3>1 DEF KeysAreNumbers
    <3> QED
      BY <3>2 DEF KeysAreNumbers
  <2>6. CASE options.confirm
    <3>1. /\ unAcked' = {u \in unAcked : u.tag # Len(written) + 1}
                           \cup {[tag |-> Len(written) + 1, task |-> p]}
          /\ outcome' = [outcome EXCEPT ![p] = "pending"]
      BY <1>3, <2>4, <2>6 DEF Accept, AwaitConfirm
    <3>2. outcome'[p] = "pending"
      BY <3>1 DEF TypeOK
    <3>3. ASSUME NEW u \in unAcked'
          PROVE  \/ u \in unAcked /\ u.tag # Len(written) + 1
                 \/ u.tag = Len(written) + 1 /\ u.task = p
      BY <3>1
    <3>4. ASSUME NEW u \in unAcked'
          PROVE  /\ u.tag > 0
                 /\ u.tag <= Len(written') => written'[u.tag] = u.task
                 /\ outcome'[u.task] = "pending"
      <4>1. CASE u \in unAcked /\ u.tag # Len(written) + 1
        BY <2>1, <2>2, <2>3, <4>1 DEF KeysAreNumbers
      <4>2. CASE u.tag = Len(written) + 1 /\ u.task = p
        BY <2>1, <3>2, <4>2
      <4> QED
        BY <3>3, <4>1, <4>2
    <3>5. \A u, v \in unAcked' : u.task = v.task => u = v
      BY <2>2, <3>1 DEF KeysAreNumbers
    <3> QED
      BY <2>6, <3>4, <3>5 DEF KeysAreNumbers
  <2> QED
    BY <2>5, <2>6
<1>4. CASE OnBasicAck
  <2> DEFINE acked == Acked(Head(toClient).tag, Head(toClient).multiple)
  <2>1. /\ unAcked' = unAcked \ acked /\ Settle(acked, "acked") /\ UNCHANGED written
    BY <1>4 DEF OnBasicAck
  <2>2. \A u \in unAcked' : outcome'[u.task] = outcome[u.task]
    BY <2>1 DEF Settle, KeysAreNumbers, TypeOK, Acked
  <2> QED
    BY <2>1, <2>2 DEF KeysAreNumbers
<1>5. CASE WipeUnAcked /\ UNCHANGED written
  BY <1>5 DEF WipeUnAcked, KeysAreNumbers
<1>6. CASE LinkReady
  <2>1. UNCHANGED <<unAcked, outcome>> /\ written' = <<>>
    BY <1>6 DEF LinkReady, clientVars
  <2> QED
    BY <2>1 DEF KeysAreNumbers, TypeOK
<1> QED
  BY <1>1, <1>2, <1>3, <1>4, <1>5, <1>6, WaitingFrame

-----------------------------------------------------------------------------
(* What the acks under way are worth *)

\* The ways a step can change the server's confirms and their messages.
LEMMA AckFrame ==
  ASSUME IInv, [Next]_vars
  PROVE  \/ UNCHANGED <<srv, log, unconfirmed, confirmed, toClient>>
         \/ \E m : Receive(m) /\ UNCHANGED <<srv, log, unconfirmed, confirmed>>
         \/ /\ \E m \in ToClientMethods \ {"basicAck"} : Answer(m)
            /\ srv' = "confirm" => srv = "confirm" \/ log = <<>>
            /\ UNCHANGED <<log, unconfirmed, confirmed>>
         \/ SrvBasicPublish
         \/ UNCHANGED <<log, unconfirmed, confirmed, toClient>> /\ srv' # "confirm"
         \/ Acknowledge
         \/ ServerForgets /\ toClient' = <<>>
<1> USE DEF srvVars, ToClientMethods
<1>1. CASE (\E p \in Message : Publish(p)) \/ Close \/ UNCHANGED vars
  BY <1>1 DEF Publish, Reject, Accept, Close, vars
<1>2. CASE \/ OnChannelOpenOk \/ OnExchangeDeclareOk \/ OnConfirmSelectOk
           \/ OnBasicAck \/ OnChannelClose \/ OnChannelCloseOk
  BY <1>2 DEF OnChannelOpenOk, OnExchangeDeclareOk, OnConfirmSelectOk, OnBasicAck,
       OnChannelClose, OnChannelCloseOk
<1>3. CASE OnFatalMethod \/ WriteAfterEnd \/ LinkReady
  BY <1>3 DEF OnFatalMethod, WriteAfterEnd, EmitError, LinkReady
<1>4. CASE SrvConfirmSelect
  <2>1. written = <<>>
    BY <1>4, ReadRequests DEF SrvConfirmSelect, IInv, HandshakeAlternates, HandshakeRequests
  <2>2. log = <<>>
    BY <2>1 DEF IInv, LogIsPrefix, TypeOK
  <2> QED
    BY <1>4, <2>2 DEF SrvConfirmSelect
<1>5. CASE SrvChannelOpen \/ SrvExchangeDeclare \/ SrvChannelClose \/ SrvRefuse
  BY <1>5 DEF SrvChannelOpen, SrvExchangeDeclare, SrvChannelClose, SrvRefuse
<1>6. CASE SrvBasicPublish \/ SrvChannelCloseOk \/ SrvDiscard \/ SrvUnexpected
  BY <1>6 DEF SrvChannelCloseOk, SrvDiscard, SrvUnexpected
<1>7. CASE Environment
  BY <1>7 DEF Environment, LinkError, LinkEnd, UserReconnect, OnBlocked, SrvNack, EmitError, IInv, DownIsClean
<1> QED
  BY <1>1, <1>2, <1>3, <1>4, <1>5, <1>6, <1>7 DEF Next, ClientStep, ServerStep

\* Every step keeps the acks under way backed by confirms of the server.
LEMMA AcksInductive ==
  ASSUME IInv, [Next]_vars
  PROVE  AcksAreBacked'
<1> USE DEF IInv
<1>2. CASE UNCHANGED <<srv, log, unconfirmed, confirmed, toClient>>
  BY <1>2 DEF AcksAreBacked
<1>3. ASSUME NEW m, Receive(m), UNCHANGED <<srv, log, unconfirmed, confirmed>>
      PROVE  AcksAreBacked'
  BY <1>3, ReceiveWire DEF AcksAreBacked
<1>4. ASSUME NEW m \in ToClientMethods \ {"basicAck"}, Answer(m),
             srv' = "confirm" => srv = "confirm" \/ log = <<>>,
             UNCHANGED <<log, unconfirmed, confirmed>>
      PROVE  AcksAreBacked'
  <2>1. /\ Len(toClient') = Len(toClient) + 1 /\ Len(toClient) \in Nat
        /\ toClient'[Len(toClient) + 1].m # "basicAck"
        /\ \A i \in 1..Len(toClient) : toClient'[i] = toClient[i]
    BY <1>4, MessageTypes DEF TypeOK, Answer, Reply
  <2>2. \A i \in 1..Len(toClient') : toClient'[i].m = "basicAck" =>
          i \in 1..Len(toClient) /\ toClient'[i] = toClient[i]
    BY <2>1
  <2> QED
    BY <1>4, <2>2 DEF AcksAreBacked
<1>5. CASE SrvBasicPublish
  <2>1. /\ log' = Append(log, Head(toServer).task) /\ UNCHANGED <<srv, confirmed, toClient>>
        /\ unconfirmed' = IF srv = "confirm" THEN unconfirmed \cup {Len(log) + 1}
                                             ELSE unconfirmed
    BY <1>5 DEF SrvBasicPublish
  <2>2. /\ Len(log) \in Nat /\ Len(log') = Len(log) + 1
        /\ \A k \in 1..Len(log) : log'[k] = log[k]
    BY <1>5, <2>1, ServerReadsTyped DEF SrvBasicPublish, ServerReads, ToServer, TypeOK
  <2>3. srv' = "confirm" => \A n \in 1..Len(log') : n \in unconfirmed' \/ log'[n] \in confirmed'
    BY <2>1, <2>2 DEF AcksAreBacked
  <2>4. \A i \in 1..Len(toClient') : toClient'[i].m = "basicAck" =>
          /\ toClient'[i].tag \in 1..Len(log')
          /\ \A k \in 1..toClient'[i].tag :
               toClient'[i].multiple \/ k = toClient'[i].tag => log'[k] \in confirmed'
    BY <2>1, <2>2 DEF AcksAreBacked
  <2> QED
    BY <2>3, <2>4 DEF AcksAreBacked
<1>6. CASE UNCHANGED <<log, unconfirmed, confirmed, toClient>> /\ srv' # "confirm"
  BY <1>6 DEF AcksAreBacked
<1>7. ASSUME NEW tag \in unconfirmed, NEW multiple \in BOOLEAN, SrvAck(tag, multiple)
      PROVE  AcksAreBacked'
  <2> DEFINE ack == [m |-> "basicAck", tag |-> tag, multiple |-> multiple]
  <2>1. /\ srv = "confirm" /\ UNCHANGED <<srv, log>>
        /\ unconfirmed' = unconfirmed \ Covered(tag, multiple)
        /\ confirmed' = confirmed \cup {log[n] : n \in Covered(tag, multiple)}
        /\ toClient' = Append(toClient, ack)
    BY <1>7 DEF SrvAck
  <2>2. tag \in 1..Len(log) /\ Len(log) \in Nat /\ ack \in ToClient
    BY MessageTypes DEF TypeOK
  <2>3. /\ Len(toClient') = Len(toClient) + 1 /\ Len(toClient) \in Nat
        /\ toClient'[Len(toClient) + 1] = ack
        /\ \A i \in 1..Len(toClient) : toClient'[i] = toClient[i]
    BY <2>1, <2>2 DEF TypeOK
  <2>4. \A n \in 1..Len(log) : n \in unconfirmed' \/ log[n] \in confirmed'
    BY <2>1 DEF AcksAreBacked
  <2>5. \A n \in 1..tag : multiple \/ n = tag => log[n] \in confirmed'
    <3>1. \A n \in 1..tag : (multiple \/ n = tag) /\ n \in unconfirmed => n \in Covered(tag, multiple)
      BY <2>2 DEF Covered
    <3> QED
      BY <2>1, <2>2, <3>1 DEF AcksAreBacked
  <2>6. \A i \in 1..Len(toClient') : toClient'[i].m = "basicAck" =>
          /\ toClient'[i].tag \in 1..Len(log)
          /\ \A k \in 1..toClient'[i].tag :
               toClient'[i].multiple \/ k = toClient'[i].tag => log[k] \in confirmed'
    <3>1. ASSUME NEW i \in 1..Len(toClient), toClient[i].m = "basicAck"
          PROVE  /\ toClient[i].tag \in 1..Len(log)
                 /\ \A k \in 1..toClient[i].tag :
                      toClient[i].multiple \/ k = toClient[i].tag => log[k] \in confirmed'
      BY <2>1, <3>1 DEF AcksAreBacked
    <3> QED
      BY <2>2, <2>3, <2>5, <3>1
  <2> QED
    BY <2>1, <2>4, <2>6 DEF AcksAreBacked
<1>8. CASE ServerForgets /\ toClient' = <<>>
  BY <1>8 DEF ServerForgets, AcksAreBacked
<1> QED
  BY <1>2, <1>3, <1>4, <1>5, <1>6, <1>7, <1>8, AckFrame DEF Acknowledge

-----------------------------------------------------------------------------
(* The connection and the sequence *)

\* Every step keeps both ends clean while there is no connection.
LEMMA DownInductive ==
  ASSUME IInv, [Next]_vars
  PROVE  DownIsClean'
<1> USE DEF IInv, clientVars, connVars, srvVars
\* A step of a live connection only has to respect an untracked exchange.
<1>1. ASSUME link = "up", link' = link, ~tracked' => state' = "closed"
      PROVE  DownIsClean'
  BY <1>1 DEF DownIsClean
<1>2. ASSUME NEW p \in Message, Reject(p) PROVE DownIsClean'
  BY <1>2 DEF Reject, DownIsClean, Requests
<1>3. ASSUME UNCHANGED vars PROVE DownIsClean'
  BY <1>3 DEF vars, DownIsClean, Requests
<1>4. ASSUME NEW p \in Message, Accept(p) PROVE DownIsClean'
  <2>1. [m |-> "basicPublish", task |-> p, nth |-> Len(written) + 1] \in ToServer
    BY MessageTypes DEF TypeOK
  <2>2. Requests' = Requests
    BY <1>4, <2>1, SendRequests DEF Accept, HandshakeRequests
  <2> QED
    BY <1>4, <2>2 DEF Accept, Writable, DownIsClean
<1>5. CASE Close
  <2>1. Requests' = Requests
    BY <1>5, SendMethod DEF Close, ToServerMethods, HandshakeRequests
  <2> QED
    BY <1>5, <2>1 DEF Close, Writable, DownIsClean
<1>6. CASE \/ OnChannelOpenOk \/ OnExchangeDeclareOk \/ OnConfirmSelectOk
           \/ OnBasicAck \/ OnChannelClose \/ OnChannelCloseOk
  BY <1>1, <1>6 DEF OnChannelOpenOk, OnExchangeDeclareOk, OnConfirmSelectOk, OnBasicAck,
       OnChannelClose, OnChannelCloseOk, Receive
<1>7. ASSUME EmitError PROVE DownIsClean'
  BY <1>7 DEF EmitError, ServerForgets, DownIsClean, TypeOK
<1>8. CASE OnFatalMethod \/ WriteAfterEnd \/ LinkError
  BY <1>7, <1>8 DEF OnFatalMethod, WriteAfterEnd, LinkError
<1>9. CASE LinkReady
  BY <1>9 DEF LinkReady, DownIsClean
<1>10. CASE LinkEnd
  BY <1>10 DEF LinkEnd, ServerForgets, DownIsClean, Requests
<1>11. CASE UserReconnect
  BY <1>11 DEF UserReconnect, DownIsClean
<1>12. CASE OnBlocked
  BY <1>1, <1>12 DEF OnBlocked, DownIsClean
<1>13. CASE ServerStep
  BY <1>1, <1>13 DEF ServerStep, SrvChannelOpen, SrvExchangeDeclare, SrvConfirmSelect,
       SrvBasicPublish, SrvChannelClose, SrvRefuse, SrvChannelCloseOk, SrvDiscard,
       SrvUnexpected, ServerReads, DownIsClean
<1>14. CASE Acknowledge \/ SrvNack
  BY <1>1, <1>14 DEF Acknowledge, SrvAck, SrvNack, DownIsClean
<1> QED
  BY <1>2, <1>3, <1>4, <1>5, <1>6, <1>8, <1>9, <1>10, <1>11, <1>12, <1>13, <1>14
     DEF Next, Publish, ClientStep, Environment

\* Every step keeps the sequence one past the publishes of this channel.
LEMMA SequenceInductive ==
  ASSUME IInv, [Next]_vars
  PROVE  SequenceInStep'
<1> USE DEF IInv, clientVars, connVars, Writable
<1>1. ASSUME UNCHANGED <<state, options, sequence, written>>, Writable' => Writable
      PROVE  SequenceInStep'
  BY <1>1 DEF SequenceInStep
<1>2. ASSUME NEW p \in Message, Reject(p) PROVE SequenceInStep'
  BY <1>2 DEF Reject, SequenceInStep
<1>3. ASSUME NEW p \in Message, Accept(p) PROVE SequenceInStep'
  <2>1. options.confirm => sequence' = sequence + 1 /\ sequence = Len(written) + 1
    BY <1>3 DEF Accept, AwaitConfirm, SequenceInStep
  <2>2. Len(written') = Len(written) + 1 /\ options' = options
    BY <1>3 DEF Accept, TypeOK
  <2> QED
    BY <2>1, <2>2 DEF SequenceInStep
<1>4. ASSUME state' # "open" \/ ~Writable' PROVE SequenceInStep'
  BY <1>4 DEF SequenceInStep
<1>5. CASE Close \/ OnChannelClose \/ OnChannelCloseOk \/ UserReconnect
  BY <1>4, <1>5 DEF Close, OnChannelClose, OnChannelCloseOk, UserReconnect
<1>6. CASE OnFatalMethod \/ WriteAfterEnd \/ LinkError
  BY <1>4, <1>6 DEF OnFatalMethod, WriteAfterEnd, LinkError, EmitError
<1>7. CASE LinkReady
  BY <1>4, <1>7 DEF LinkReady, DownIsClean
<1>8. ASSUME NEW m \in HandshakeReplies, Receive(m) PROVE state # "open" /\ written = <<>>
  BY <1>8, ReadReplies DEF HandshakeAlternates
<1>9. CASE OnChannelOpenOk
  <2>1. state # "open"
    BY <1>8, <1>9 DEF OnChannelOpenOk, HandshakeReplies
  <2>2. state' = "open" => ~options.confirm /\ options' = options
    BY <1>9, <2>1 DEF OnChannelOpenOk, ConfirmSelect, Opened
  <2> QED
    BY <2>2 DEF SequenceInStep
<1>10. CASE OnExchangeDeclareOk
  <2>1. state # "open"
    BY <1>8, <1>10 DEF OnExchangeDeclareOk, HandshakeReplies
  <2>2. state' = "open" => ~options.confirm /\ options' = options
    BY <1>10, <2>1 DEF OnExchangeDeclareOk, ConfirmSelect, Opened
  <2> QED
    BY <2>2 DEF SequenceInStep
<1>11. CASE OnConfirmSelectOk
  <2>1. written' = <<>> /\ sequence' = 1
    BY <1>8, <1>11 DEF OnConfirmSelectOk, HandshakeReplies
  <2> QED
    BY <2>1 DEF SequenceInStep
<1>12. CASE OnBasicAck \/ LinkEnd \/ OnBlocked \/ UNCHANGED vars
  BY <1>1, <1>12 DEF OnBasicAck, LinkEnd, OnBlocked, vars
<1>13. CASE ServerStep
  BY <1>1, <1>13 DEF ServerStep, SrvChannelOpen, SrvExchangeDeclare, SrvConfirmSelect,
       SrvBasicPublish, SrvChannelClose, SrvRefuse, SrvChannelCloseOk, SrvDiscard,
       SrvUnexpected
<1>14. CASE Acknowledge \/ SrvNack
  BY <1>1, <1>14 DEF Acknowledge, SrvAck, SrvNack
<1> QED
  BY <1>2, <1>3, <1>5, <1>6, <1>7, <1>9, <1>10, <1>11, <1>12, <1>13, <1>14
     DEF Next, Publish, ClientStep, Environment

-----------------------------------------------------------------------------
(* A positive confirm is never false *)

\* No step takes a confirm of the server back.
LEMMA ConfirmedGrows ==
  ASSUME IInv, [Next]_vars
  PROVE  confirmed \subseteq confirmed'
<1>1. ASSUME Acknowledge PROVE confirmed \subseteq confirmed'
  BY <1>1 DEF Acknowledge, SrvAck
<1> QED
  BY <1>1, AckFrame DEF SrvBasicPublish, ServerForgets

\* Every step credits an ack only to a publish the server has confirmed.
LEMMA ConfirmInductive ==
  ASSUME IInv, [Next]_vars
  PROVE  ConfirmSound'
<1> USE DEF IInv
<1>1. ASSUME \A p \in Message : outcome'[p] = "acked" => outcome[p] = "acked"
      PROVE  ConfirmSound'
  BY <1>1, ConfirmedGrows DEF ConfirmSound
<1>2. ASSUME NEW p \in Message, Reject(p) \/ Accept(p) PROVE ConfirmSound'
  BY <1>1, <1>2 DEF Reject, Accept, AwaitConfirm, TypeOK
<1>3. CASE WipeUnAcked
  BY <1>1, <1>3 DEF WipeUnAcked, Settle
<1>4. CASE UNCHANGED outcome
  BY <1>1, <1>4
<1>5. CASE OnBasicAck
  <2> DEFINE ack == Head(toClient)
             acked == Acked(ack.tag, ack.multiple)
  <2>1. /\ Receive("basicAck") /\ Settle(acked, "acked") /\ UNCHANGED confirmed
    BY <1>5 DEF OnBasicAck, srvVars
  <2>2. /\ ack = toClient[1] /\ 1 \in 1..Len(toClient) /\ ack.m = "basicAck"
        /\ ack.tag \in Nat /\ ack.multiple \in BOOLEAN
    BY <2>1, ReceiveTyped, ReceiveWire DEF Receive, ToClient, TypeOK
  <2>3. /\ ack.tag \in 1..Len(log)
        /\ \A n \in 1..ack.tag : ack.multiple \/ n = ack.tag => log[n] \in confirmed
    BY <2>2 DEF AcksAreBacked
  <2>4. ASSUME NEW u \in acked PROVE u.task \in confirmed
    <3>1. u \in unAcked /\ u.tag \in Nat /\ u.tag > 0
      BY <2>4 DEF Acked, KeysAreNumbers, TypeOK
    <3>2. u.tag \in 1..ack.tag /\ (ack.multiple \/ u.tag = ack.tag)
      BY <2>2, <2>3, <2>4, <3>1 DEF Acked
    <3>3. u.tag <= Len(log) /\ Len(log) <= Len(written) /\ log[u.tag] = written[u.tag]
      BY <2>3, <3>1, <3>2 DEF LogIsPrefix, TypeOK
    <3>4. written[u.tag] = u.task
      BY <3>1, <3>3 DEF KeysAreNumbers, TypeOK
    <3> QED
      BY <2>3, <3>2, <3>3, <3>4
  <2> QED
    BY <2>1, <2>4 DEF Settle, ConfirmSound
<1> QED
  BY <1>2, <1>3, <1>4, <1>5, WaitingFrame DEF LinkReady, clientVars

\* The invariant holds before anything has happened.
LEMMA InitInvariant == Init => IInv
<1> SUFFICES ASSUME Init PROVE IInv
  OBVIOUS
<1>1. TypeOK
  BY InitTyped
<1>2. HandshakeAlternates
  BY DEF Init, HandshakeAlternates, Requests, Replies, Request
<1>3. PublishesInOrder /\ LogIsPrefix
  BY DEF Init, PublishesInOrder, LogIsPrefix, OnWire, Request
<1>4. KeysAreNumbers /\ AcksAreBacked
  BY DEF Init, KeysAreNumbers, AcksAreBacked
<1>5. DownIsClean /\ SequenceInStep /\ ConfirmSound
  BY DEF Init, DownIsClean, SequenceInStep, ConfirmSound
<1> QED
  BY <1>1, <1>2, <1>3, <1>4, <1>5 DEF IInv

\* Every step keeps the bookkeeping aligned.
LEMMA InvariantInductive ==
  ASSUME IInv, [Next]_vars
  PROVE  IInv'
<1>1. TypeOK'
  BY NextTyped DEF IInv
<1> QED
  BY <1>1, HandshakeInductive, PublishesInductive, LogIsPrefixInductive,
     KeysInductive, AcksInductive, DownInductive, SequenceInductive,
     ConfirmInductive DEF IInv

\* The bookkeeping of client and server stays aligned in every behaviour.
THEOREM Aligned == Spec => []IInv
<1>1. IInv /\ [Next]_vars => IInv'
  BY InvariantInductive
<1> QED
  BY <1>1, InitInvariant, PTL DEF Spec

\* A publish whose callback was told "no error" was confirmed by the server,
\* whatever closes, reconnections, blocked or lost connections came between.
THEOREM ConfirmsAreSound == Spec => []ConfirmSound
<1>1. IInv => ConfirmSound
  BY DEF IInv
<1> QED
  BY <1>1, Aligned, PTL

\* The key of a waiting task is the delivery tag of that very publish.
THEOREM TagsAlwaysAgree == Spec => []TagsAgree
<1>1. IInv => TagsAgree
  BY DEF IInv, TagsAgree, KeysAreNumbers, LogIsPrefix, TypeOK
<1> QED
  BY <1>1, Aligned, PTL

\* An open exchange in confirm mode always numbers its next publish right, so
\* publish never takes its "not yet ready" return while the exchange is open.
THEOREM SequenceAlwaysInStep == Spec => []SequenceInStep
<1>1. IInv => SequenceInStep
  BY DEF IInv
<1> QED
  BY <1>1, Aligned, PTL

-----------------------------------------------------------------------------
(* The contract of publish *)

\* Each call writes one publish.
Distinct ==
  /\ \A n \in 1..Len(written) : outcome[written[n]] # "idle"
  /\ \A i, j \in 1..Len(written) : written[i] = written[j] => i = j

\* Without the option the channel is not put in confirm mode.
SelectedByOption ==
  ~options.confirm =>
    srv # "confirm" /\ \A i \in 1..Len(toServer) : toServer[i].m # "confirmSelect"

\* The server refuses a channel once, and waits for the answer.
Refusals == {i \in 1..Len(toClient) : toClient[i].m = "channelClose"}
Answers  == {i \in 1..Len(toServer) : toServer[i].m = "channelCloseOk"}

RefusedOnce ==
  /\ \A i, j \in Refusals : i = j
  /\ \A i, j \in Answers : i = j
  /\ Refusals = {} \/ Answers = {}
  /\ Refusals # {} \/ Answers # {} => srv = "refused"

\* What an ack under way covers is not confirmed again.
Spares(ack, n) ==
  ack.m = "basicAck" => IF ack.multiple THEN ack.tag < n ELSE ack.tag # n

AcksAreSpent == \A i \in 1..Len(toClient) : \A n \in unconfirmed : Spares(toClient[i], n)

\* Until the server confirms a publish its caller waits for it.
StillPending ==
  srv = "confirm" =>
    \A n \in 1..Len(written) : n > Len(log) \/ n \in unconfirmed => outcome[written[n]] = "pending"

KInv == IInv /\ Distinct /\ SelectedByOption /\ RefusedOnce /\ AcksAreSpent /\ StillPending

\* The steps that change what is known of the publishes.
LEMMA ContractFrame ==
  ASSUME [Next]_vars
  PROVE  \/ UNCHANGED <<outcome, confirmed, written>>
         \/ \E p \in Message : Reject(p) \/ Accept(p)
         \/ OnBasicAck \/ OnChannelClose \/ EmitError \/ LinkReady
         \/ Acknowledge
<1> USE DEF clientVars, srvVars
<1>1. CASE (\E p \in Message : Publish(p)) \/ Close \/ UNCHANGED vars
  BY <1>1 DEF Publish, Close, vars
<1>2. CASE ClientStep
  BY <1>2 DEF ClientStep, OnChannelOpenOk, OnExchangeDeclareOk, OnConfirmSelectOk,
       OnChannelCloseOk, OnFatalMethod, WriteAfterEnd
<1>3. CASE ServerStep
  BY <1>3 DEF ServerStep, SrvChannelOpen, SrvExchangeDeclare, SrvConfirmSelect,
       SrvBasicPublish, SrvChannelClose, SrvRefuse, SrvChannelCloseOk, SrvDiscard,
       SrvUnexpected
<1>4. CASE Environment
  BY <1>4 DEF Environment, LinkError, LinkEnd, UserReconnect, OnBlocked, SrvNack, ServerForgets
<1> QED
  BY <1>1, <1>2, <1>3, <1>4 DEF Next

\* Callbacks that are called belong to calls that were made.
LEMMA SettledOnes ==
  ASSUME TypeOK, NEW S, NEW result, Settle(S, result), NEW p \in Message
  PROVE  outcome'[p] = IF \E u \in S : u.task = p THEN result ELSE outcome[p]
BY DEF Settle

\* Every step keeps the publishes of a channel distinct.
LEMMA DistinctInductive ==
  ASSUME IInv, Distinct, [Next]_vars
  PROVE  Distinct'
<1> USE DEF IInv
<1>1. /\ written \in Seq(Message) /\ Len(written) \in Nat
      /\ \A n \in 1..Len(written) : written[n] \in Message
  BY DEF TypeOK
<1>2. ASSUME UNCHANGED written, \A q \in Message : outcome[q] # "idle" => outcome'[q] # "idle"
      PROVE  Distinct'
  BY <1>1, <1>2 DEF Distinct
<1>3. ASSUME NEW S, NEW result \in {"acked", "failed"}, Settle(S, result), UNCHANGED written
      PROVE  Distinct'
  BY <1>2, <1>3, SettledOnes
<1>4. CASE UNCHANGED <<unAcked, outcome, written>>
  BY <1>2, <1>4
<1>5. ASSUME NEW p \in Message, Reject(p) PROVE Distinct'
  BY <1>2, <1>5 DEF Reject, TypeOK
<1>6. ASSUME NEW p \in Message, Accept(p) PROVE Distinct'
  <2>1. /\ written' = Append(written, p) /\ outcome[p] = "idle"
        /\ Len(written') = Len(written) + 1
        /\ written'[Len(written) + 1] = p
        /\ \A n \in 1..Len(written) : written'[n] = written[n]
    BY <1>1, <1>6 DEF Accept
  <2>2. \A n \in 1..Len(written) : written[n] # p
    BY <2>1 DEF Distinct
  <2>3. \A q \in Message : outcome'[q] = IF q = p THEN outcome'[p] ELSE outcome[q]
    BY <1>6 DEF Accept, AwaitConfirm, TypeOK
  <2>4. outcome'[p] # "idle"
    BY <1>6 DEF Accept, AwaitConfirm, TypeOK
  <2> QED
    BY <1>1, <2>1, <2>2, <2>3, <2>4 DEF Distinct
<1>7. CASE OnBasicAck
  BY <1>3, <1>7 DEF OnBasicAck
<1>8. CASE WipeUnAcked /\ UNCHANGED written
  BY <1>2, <1>3, <1>8 DEF WipeUnAcked
<1>9. CASE LinkReady
  BY <1>9 DEF LinkReady, Distinct
<1> QED
  BY <1>4, <1>5, <1>6, <1>7, <1>8, <1>9, WaitingFrame

\* The ways a step can change the wire and the server of an exchange without the option.
LEMMA SelectFrame ==
  ASSUME ~options.confirm, [Next]_vars
  PROVE  /\ srv' # "confirm" \/ srv' = srv \/ ServerReads("confirmSelect")
         /\ \/ toServer' = toServer
            \/ \E m \in ToServerMethods \ {"basicPublish", "confirmSelect"} : Send(m)
            \/ \E p \in Message : Accept(p)
            \/ \E m \in ToServerMethods : ServerReads(m)
            \/ toServer' \in {<<>>, <<Request("channelOpen")>>}
<1> USE DEF srvVars, ToServerMethods
<1>1. CASE (\E p \in Message : Publish(p)) \/ Close \/ UNCHANGED vars
  BY <1>1 DEF Publish, Reject, Accept, Close, vars
<1>2. CASE \/ OnChannelOpenOk \/ OnExchangeDeclareOk \/ OnConfirmSelectOk
           \/ OnBasicAck \/ OnChannelClose \/ OnChannelCloseOk
  BY <1>2 DEF OnChannelOpenOk, OnExchangeDeclareOk, OnConfirmSelectOk, Opened,
       OnBasicAck, OnChannelClose, OnChannelCloseOk
<1>3. CASE OnFatalMethod \/ WriteAfterEnd \/ LinkReady
  BY <1>3 DEF OnFatalMethod, WriteAfterEnd, EmitError, ServerForgets, LinkReady
<1>4. CASE ServerStep
  BY <1>4 DEF ServerStep, SrvChannelOpen, SrvExchangeDeclare, SrvConfirmSelect,
       SrvBasicPublish, SrvChannelClose, SrvRefuse, SrvChannelCloseOk, SrvDiscard,
       SrvUnexpected
<1>5. CASE Acknowledge
  BY <1>5 DEF Acknowledge, SrvAck
<1>6. CASE Environment
  BY <1>6 DEF Environment, LinkError, LinkEnd, UserReconnect, OnBlocked, SrvNack,
       EmitError, ServerForgets
<1> QED
  BY <1>1, <1>2, <1>3, <1>4, <1>5, <1>6 DEF Next, ClientStep

\* Every step keeps the channel of an exchange without the option out of confirm mode.
LEMMA SelectInductive ==
  ASSUME IInv, SelectedByOption, [Next]_vars
  PROVE  SelectedByOption'
<1> SUFFICES ASSUME ~options.confirm
             PROVE  srv' # "confirm" /\ \A i \in 1..Len(toServer') : toServer'[i].m # "confirmSelect"
  BY OptionsFixed DEF SelectedByOption
<1> USE DEF IInv
<1>1. /\ srv # "confirm" /\ \A i \in 1..Len(toServer) : toServer[i].m # "confirmSelect"
      /\ TypeOK
  BY DEF SelectedByOption
<1>2. \A m : ServerReads(m) => m # "confirmSelect"
  BY <1>1, ServerReadsWire
<1>3. srv' # "confirm"
  BY <1>1, <1>2, SelectFrame
<1>4. ASSUME NEW msg \in ToServer, msg.m # "confirmSelect", toServer' = Append(toServer, msg)
      PROVE  \A i \in 1..Len(toServer') : toServer'[i].m # "confirmSelect"
  <2>1. /\ Len(toServer') = Len(toServer) + 1 /\ Len(toServer) \in Nat
        /\ toServer'[Len(toServer) + 1] = msg
        /\ \A i \in 1..Len(toServer) : toServer'[i] = toServer[i]
    BY <1>4 DEF TypeOK
  <2> QED
    BY <1>1, <1>4, <2>1
<1>5. ASSUME NEW m \in ToServerMethods \ {"basicPublish", "confirmSelect"}, Send(m)
      PROVE  \A i \in 1..Len(toServer') : toServer'[i].m # "confirmSelect"
  <2>1. Request(m) \in ToServer /\ Request(m).m # "confirmSelect"
    BY MessageTypes DEF Request
  <2> QED
    BY <1>4, <1>5, <2>1 DEF Send
<1>6. ASSUME NEW p \in Message, Accept(p)
      PROVE  \A i \in 1..Len(toServer') : toServer'[i].m # "confirmSelect"
  <2>1. [m |-> "basicPublish", task |-> p, nth |-> Len(written) + 1] \in ToServer
    BY MessageTypes DEF TypeOK
  <2> QED
    BY <1>4, <1>6, <2>1 DEF Accept
<1>7. ASSUME NEW m, ServerReads(m)
      PROVE  \A i \in 1..Len(toServer') : toServer'[i].m # "confirmSelect"
  BY <1>1, <1>7, ServerReadsWire
<1>8. ASSUME toServer' \in {<<>>, <<Request("channelOpen")>>}
      PROVE  \A i \in 1..Len(toServer') : toServer'[i].m # "confirmSelect"
  BY <1>8 DEF Request
<1> QED
  BY <1>1, <1>3, <1>5, <1>6, <1>7, <1>8, SelectFrame

\* The ways a step can change the wires of a channel that may be refused.
LEMMA RefusalFrame ==
  ASSUME IInv, [Next]_vars
  PROVE  \/ OnChannelClose \/ SrvRefuse \/ SrvChannelCloseOk
         \/ toServer' \in {<<>>, <<Request("channelOpen")>>} /\ toClient' = <<>>
         \/ /\ srv = "refused" => srv' = "refused"
            /\ \/ toServer' = toServer
               \/ \E m \in ToServerMethods \ {"basicPublish", "channelCloseOk"} : Send(m)
               \/ \E p \in Message : Accept(p)
               \/ \E m \in ToServerMethods : ServerReads(m)
            /\ \/ toClient' = toClient
               \/ \E m : Receive(m)
               \/ \E m \in ToClientMethods \ {"channelClose"} : Answer(m)
               \/ Acknowledge
<1> USE DEF srvVars, ToServerMethods, ToClientMethods
<1>1. CASE (\E p \in Message : Publish(p)) \/ Close \/ UNCHANGED vars
  BY <1>1 DEF Publish, Reject, Accept, Close, vars
<1>2. CASE \/ OnChannelOpenOk \/ OnExchangeDeclareOk \/ OnConfirmSelectOk
           \/ OnBasicAck \/ OnChannelCloseOk
  BY <1>2 DEF OnChannelOpenOk, OnExchangeDeclareOk, OnConfirmSelectOk, ConfirmSelect, Opened,
       OnBasicAck, OnChannelCloseOk
<1>3. CASE OnFatalMethod \/ WriteAfterEnd \/ LinkReady
  BY <1>3 DEF OnFatalMethod, WriteAfterEnd, EmitError, LinkReady, IInv, DownIsClean
<1>4. CASE SrvChannelOpen \/ SrvExchangeDeclare \/ SrvConfirmSelect \/ SrvBasicPublish
  BY <1>4 DEF SrvChannelOpen, SrvExchangeDeclare, SrvConfirmSelect, SrvBasicPublish
<1>5. CASE SrvChannelClose \/ SrvDiscard \/ SrvUnexpected
  BY <1>5 DEF SrvChannelClose, SrvDiscard, SrvUnexpected
<1>6. CASE Acknowledge
  BY <1>6 DEF Acknowledge, SrvAck
<1>7. CASE LinkError \/ LinkEnd
  BY <1>7 DEF LinkError, LinkEnd, EmitError
<1>8. CASE UserReconnect \/ OnBlocked \/ SrvNack
  BY <1>8 DEF UserReconnect, OnBlocked, SrvNack
<1> QED
  BY <1>1, <1>2, <1>3, <1>4, <1>5, <1>6, <1>7, <1>8 DEF Next, ClientStep, ServerStep, Environment

\* Nothing but a refusal and its answer add to them.
LEMMA RefusalWires ==
  ASSUME TypeOK
  PROVE  /\ \A m : ServerReads(m) => \A i \in Answers' : i \in Nat \ {0} /\ i + 1 \in Answers
         /\ \A m : Receive(m) => \A i \in Refusals' : i \in Nat \ {0} /\ i + 1 \in Refusals
         /\ \A msg \in ToServer : toServer' = Append(toServer, msg) =>
              Answers' = Answers \cup {i \in {Len(toServer) + 1} : msg.m = "channelCloseOk"}
         /\ \A msg \in ToClient : toClient' = Append(toClient, msg) =>
              Refusals' = Refusals \cup {i \in {Len(toClient) + 1} : msg.m = "channelClose"}
<1>1. \A m : ServerReads(m) => \A i \in Answers' : i \in Nat \ {0} /\ i + 1 \in Answers
  BY ServerReadsWire DEF Answers
<1>2. \A m : Receive(m) => \A i \in Refusals' : i \in Nat \ {0} /\ i + 1 \in Refusals
  BY ReceiveWire DEF Refusals
<1>3. ASSUME NEW msg \in ToServer, toServer' = Append(toServer, msg)
      PROVE  Answers' = Answers \cup {i \in {Len(toServer) + 1} : msg.m = "channelCloseOk"}
  <2>1. /\ Len(toServer') = Len(toServer) + 1 /\ Len(toServer) \in Nat
        /\ toServer'[Len(toServer) + 1] = msg
        /\ \A i \in 1..Len(toServer) : toServer'[i] = toServer[i]
    BY <1>3 DEF TypeOK
  <2> QED
    BY <2>1 DEF Answers
<1>4. ASSUME NEW msg \in ToClient, toClient' = Append(toClient, msg)
      PROVE  Refusals' = Refusals \cup {i \in {Len(toClient) + 1} : msg.m = "channelClose"}
  <2>1. /\ Len(toClient') = Len(toClient) + 1 /\ Len(toClient) \in Nat
        /\ toClient'[Len(toClient) + 1] = msg
        /\ \A i \in 1..Len(toClient) : toClient'[i] = toClient[i]
    BY <1>4 DEF TypeOK
  <2> QED
    BY <2>1 DEF Refusals
<1> QED
  BY <1>1, <1>2, <1>3, <1>4

\* Every step keeps the refusals and their answers apart.
LEMMA RefusedInductive ==
  ASSUME IInv, RefusedOnce, [Next]_vars
  PROVE  RefusedOnce'
<1> USE DEF IInv
<1>1. CASE OnChannelClose
  <2>1. /\ Receive("channelClose") /\ Send("channelCloseOk") /\ srv' = srv
    BY <1>1 DEF OnChannelClose, srvVars
  <2>2. Request("channelCloseOk") \in ToServer
    BY MessageTypes DEF ToServerMethods
  <2>3. 1 \in Refusals
    BY <2>1, ReceiveWire DEF Refusals
  <2>4. srv = "refused" /\ Answers = {} /\ \A i \in Refusals : i = 1
    BY <2>3 DEF RefusedOnce
  <2>5. Refusals' = {}
    BY <2>1, <2>4, RefusalWires
  <2>6. Answers' \subseteq {Len(toServer) + 1}
    BY <2>1, <2>2, <2>4, RefusalWires DEF Send
  <2> QED
    BY <2>1, <2>4, <2>5, <2>6 DEF RefusedOnce
<1>2. CASE SrvRefuse
  <2>1. /\ \E m : ServerReads(m)
        /\ Answer("channelClose") /\ srv' = "refused" /\ srv # "refused"
    BY <1>2 DEF SrvRefuse
  <2>2. Reply("channelClose") \in ToClient
    BY MessageTypes DEF ToClientMethods
  <2>3. Answers = {} /\ Refusals = {}
    BY <2>1 DEF RefusedOnce
  <2>4. Answers' = {}
    BY <2>1, <2>3, RefusalWires
  <2>5. Refusals' \subseteq {Len(toClient) + 1}
    BY <2>1, <2>2, <2>3, RefusalWires DEF Answer
  <2> QED
    BY <2>1, <2>4, <2>5 DEF RefusedOnce
<1>3. CASE SrvChannelCloseOk
  <2>1. ServerReads("channelCloseOk") /\ toClient' = toClient
    BY <1>3 DEF SrvChannelCloseOk
  <2>2. 1 \in Answers
    BY <2>1, ServerReadsWire DEF Answers
  <2>3. Refusals' = {} /\ \A i \in Answers : i = 1
    BY <2>1, <2>2 DEF RefusedOnce, Refusals
  <2>4. Answers' = {}
    BY <2>1, <2>3, RefusalWires
  <2> QED
    BY <2>3, <2>4 DEF RefusedOnce
<1>4. CASE toServer' \in {<<>>, <<Request("channelOpen")>>} /\ toClient' = <<>>
  BY <1>4 DEF RefusedOnce, Refusals, Answers, Request
<1>5. ASSUME srv = "refused" => srv' = "refused",
             Answers' \subseteq Answers \/ \A i \in Answers' : i \in Nat \ {0} /\ i + 1 \in Answers,
             Refusals' \subseteq Refusals \/ \A i \in Refusals' : i \in Nat \ {0} /\ i + 1 \in Refusals
      PROVE  RefusedOnce'
  <2>1. Answers' # {} => Answers # {}
    BY <1>5
  <2>2. Refusals' # {} => Refusals # {}
    BY <1>5
  <2>3. (\A i, j \in Answers' : i = j) /\ \A i, j \in Refusals' : i = j
    BY <1>5 DEF RefusedOnce
  <2> QED
    BY <1>5, <2>1, <2>2, <2>3 DEF RefusedOnce
<1>6. ASSUME \/ toServer' = toServer
             \/ \E m \in ToServerMethods \ {"basicPublish", "channelCloseOk"} : Send(m)
             \/ \E p \in Message : Accept(p)
             \/ \E m \in ToServerMethods : ServerReads(m)
      PROVE  Answers' \subseteq Answers \/ \A i \in Answers' : i \in Nat \ {0} /\ i + 1 \in Answers
  <2>1. ASSUME NEW m \in ToServerMethods \ {"basicPublish", "channelCloseOk"}, Send(m)
        PROVE  Answers' \subseteq Answers
    <3>1. Request(m) \in ToServer /\ Request(m).m # "channelCloseOk"
      BY MessageTypes DEF Request
    <3> QED
      BY <2>1, <3>1, RefusalWires DEF Send
  <2>2. ASSUME NEW p \in Message, Accept(p)
        PROVE  Answers' \subseteq Answers
    <3> DEFINE msg == [m |-> "basicPublish", task |-> p, nth |-> Len(written) + 1]
    <3>1. msg \in ToServer /\ msg.m # "channelCloseOk" /\ toServer' = Append(toServer, msg)
      BY <2>2, MessageTypes DEF TypeOK, Accept
    <3> QED
      BY <3>1, RefusalWires
  <2>3. toServer' = toServer => Answers' = Answers
    BY DEF Answers
  <2> QED
    BY <1>6, <2>1, <2>2, <2>3, RefusalWires
<1>7. ASSUME \/ toClient' = toClient
             \/ \E m : Receive(m)
             \/ \E m \in ToClientMethods \ {"channelClose"} : Answer(m)
             \/ Acknowledge
      PROVE  Refusals' \subseteq Refusals \/ \A i \in Refusals' : i \in Nat \ {0} /\ i + 1 \in Refusals
  <2>1. ASSUME NEW m \in ToClientMethods \ {"channelClose"}, Answer(m)
        PROVE  Refusals' \subseteq Refusals
    <3>1. Reply(m) \in ToClient /\ Reply(m).m # "channelClose"
      BY MessageTypes DEF Reply
    <3> QED
      BY <2>1, <3>1, RefusalWires DEF Answer
  <2>2. ASSUME Acknowledge PROVE Refusals' \subseteq Refusals
    <3>1. PICK tag \in unconfirmed, multiple \in BOOLEAN : SrvAck(tag, multiple)
      BY <2>2 DEF Acknowledge
    <3> DEFINE msg == [m |-> "basicAck", tag |-> tag, multiple |-> multiple]
    <3>2. msg \in ToClient /\ msg.m # "channelClose" /\ toClient' = Append(toClient, msg)
      BY <3>1, MessageTypes DEF TypeOK, SrvAck
    <3> QED
      BY <3>2, RefusalWires
  <2>3. toClient' = toClient => Refusals' = Refusals
    BY DEF Refusals
  <2> QED
    BY <1>7, <2>1, <2>2, <2>3, RefusalWires
<1> HIDE DEF IInv
<1>8. CASE /\ srv = "refused" => srv' = "refused"
           /\ \/ toServer' = toServer
              \/ \E m \in ToServerMethods \ {"basicPublish", "channelCloseOk"} : Send(m)
              \/ \E p \in Message : Accept(p)
              \/ \E m \in ToServerMethods : ServerReads(m)
           /\ \/ toClient' = toClient
              \/ \E m : Receive(m)
              \/ \E m \in ToClientMethods \ {"channelClose"} : Answer(m)
              \/ Acknowledge
  BY <1>5, <1>6, <1>7, <1>8
<1> QED
  BY <1>1, <1>2, <1>3, <1>4, <1>8, RefusalFrame

\* Every step keeps the acks under way spent.
LEMMA SpentInductive ==
  ASSUME IInv, AcksAreSpent, [Next]_vars
  PROVE  AcksAreSpent'
<1> USE DEF IInv
<1>1. /\ toClient \in Seq(ToClient) /\ Len(toClient) \in Nat /\ Len(log) \in Nat
      /\ unconfirmed \subseteq 1..Len(log)
      /\ \A i \in 1..Len(toClient) : toClient[i] \in ToClient
  BY DEF TypeOK
<1>2. ASSUME unconfirmed' \subseteq unconfirmed, toClient' = toClient
      PROVE  AcksAreSpent'
  <2>1. \A i \in 1..Len(toClient) : \A n \in unconfirmed' : Spares(toClient[i], n)
    BY <1>2 DEF AcksAreSpent
  <2> QED
    BY <1>2, <2>1 DEF AcksAreSpent
<1>3. ASSUME NEW m, Receive(m), unconfirmed' = unconfirmed
      PROVE  AcksAreSpent'
  BY <1>3, ReceiveWire DEF AcksAreSpent
<1>4. ASSUME NEW m \in ToClientMethods \ {"basicAck"}, Answer(m), unconfirmed' = unconfirmed
      PROVE  AcksAreSpent'
  <2>1. /\ Len(toClient') = Len(toClient) + 1
        /\ toClient'[Len(toClient) + 1].m # "basicAck"
        /\ \A i \in 1..Len(toClient) : toClient'[i] = toClient[i]
    BY <1>1, <1>4, MessageTypes DEF Answer, Reply
  <2>2. \A n : Spares(toClient'[Len(toClient) + 1], n)
    BY <2>1 DEF Spares
  <2> QED
    BY <1>1, <1>4, <2>1, <2>2 DEF AcksAreSpent
<1>5. CASE SrvBasicPublish
  <2>1. /\ toClient' = toClient
        /\ \A n \in unconfirmed' : n \in unconfirmed \/ n = Len(log) + 1
    BY <1>5 DEF SrvBasicPublish
  <2>2. \A i \in 1..Len(toClient) : Spares(toClient[i], Len(log) + 1)
    BY <1>1 DEF AcksAreBacked, Spares
  <2> QED
    BY <1>1, <2>1, <2>2 DEF AcksAreSpent
<1>6. ASSUME NEW tag \in unconfirmed, NEW multiple \in BOOLEAN, SrvAck(tag, multiple)
      PROVE  AcksAreSpent'
  <2> DEFINE msg == [m |-> "basicAck", tag |-> tag, multiple |-> multiple]
  <2>1. /\ unconfirmed' = unconfirmed \ Covered(tag, multiple)
        /\ toClient' = Append(toClient, msg)
    BY <1>6 DEF SrvAck
  <2>2. /\ Len(toClient') = Len(toClient) + 1
        /\ toClient'[Len(toClient) + 1] = msg
        /\ \A i \in 1..Len(toClient) : toClient'[i] = toClient[i]
    BY <1>1, <2>1
  <2>3. \A n \in unconfirmed' : n \in unconfirmed /\ Spares(msg, n)
    BY <1>1, <2>1 DEF Covered, Spares
  <2> HIDE DEF msg
  <2>4. ASSUME NEW i \in 1..Len(toClient'), NEW n \in unconfirmed'
        PROVE  Spares(toClient'[i], n)
    <3>1. CASE i \in 1..Len(toClient)
      BY <2>2, <2>3, <2>4, <3>1 DEF AcksAreSpent
    <3>2. CASE i \notin 1..Len(toClient)
      BY <1>1, <2>2, <2>3, <2>4, <3>2
    <3> QED
      BY <3>1, <3>2
  <2> QED
    BY <2>4 DEF AcksAreSpent
<1>7. ASSUME ServerForgets, toClient' = <<>> PROVE AcksAreSpent'
  BY <1>7 DEF AcksAreSpent
<1> HIDE DEF IInv
<1> QED
  BY <1>2, <1>3, <1>4, <1>5, <1>6, <1>7, AckFrame DEF Acknowledge

\* What the server takes into account, in confirm mode.
LEMMA ConfirmFrame ==
  ASSUME IInv, [Next]_vars, srv' = "confirm"
  PROVE  \/ written' = <<>>
         \/ /\ srv = "confirm"
            /\ \A n \in Nat : n > Len(log') \/ n \in unconfirmed' => n > Len(log) \/ n \in unconfirmed
<1> USE DEF srvVars
<1>1. UNCHANGED srvVars => \/ srv = "confirm" /\ log' = log /\ unconfirmed' = unconfirmed
  OBVIOUS
<1>2. CASE (\E p \in Message : Publish(p)) \/ Close \/ UNCHANGED vars
  BY <1>1, <1>2 DEF Publish, Reject, Accept, Close, vars
<1>3. CASE \/ OnChannelOpenOk \/ OnExchangeDeclareOk \/ OnConfirmSelectOk
           \/ OnBasicAck \/ OnChannelClose \/ OnChannelCloseOk \/ LinkReady
  BY <1>1, <1>3 DEF OnChannelOpenOk, OnExchangeDeclareOk, OnConfirmSelectOk, OnBasicAck,
       OnChannelClose, OnChannelCloseOk, LinkReady
<1>4. CASE OnFatalMethod \/ WriteAfterEnd
  BY <1>4 DEF OnFatalMethod, WriteAfterEnd, EmitError, ServerForgets
<1>5. CASE SrvConfirmSelect
  <2>1. written' = written /\ written = <<>>
    BY <1>5, ReadRequests DEF SrvConfirmSelect, IInv, HandshakeAlternates, HandshakeRequests
  <2> QED
    BY <2>1
<1>6. CASE SrvBasicPublish
  <2>1. /\ srv = "confirm" /\ Len(log') = Len(log) + 1 /\ Len(log) \in Nat
        /\ unconfirmed' = unconfirmed \cup {Len(log) + 1}
    BY <1>6 DEF SrvBasicPublish, IInv, TypeOK
  <2> QED
    BY <2>1
<1>7. CASE \/ SrvChannelOpen \/ SrvExchangeDeclare \/ SrvChannelClose \/ SrvRefuse
           \/ SrvChannelCloseOk \/ SrvDiscard \/ SrvUnexpected
  BY <1>1, <1>7 DEF SrvChannelOpen, SrvExchangeDeclare, SrvChannelClose, SrvRefuse,
       SrvChannelCloseOk, SrvDiscard, SrvUnexpected
<1>8. CASE Acknowledge
  BY <1>8 DEF Acknowledge, SrvAck
<1>9. CASE Environment
  BY <1>1, <1>9 DEF Environment, LinkError, LinkEnd, UserReconnect, OnBlocked, SrvNack,
       EmitError, ServerForgets
<1> QED
  BY <1>2, <1>3, <1>4, <1>5, <1>6, <1>7, <1>8, <1>9 DEF Next, ClientStep, ServerStep

\* An ack settles publishes that the server does not confirm again.
LEMMA AckedArePast ==
  ASSUME KInv, OnBasicAck, srv = "confirm",
         NEW n \in 1..Len(written), n > Len(log) \/ n \in unconfirmed
  PROVE  outcome'[written[n]] = outcome[written[n]]
<1> USE DEF KInv, IInv
<1> DEFINE ack == Head(toClient)
           acked == Acked(ack.tag, ack.multiple)
<1>1. Receive("basicAck") /\ Settle(acked, "acked")
  BY DEF OnBasicAck
<1>2. /\ ack = toClient[1] /\ 1 \in 1..Len(toClient) /\ ack.m = "basicAck"
      /\ ack.tag \in Nat /\ ack.multiple \in BOOLEAN
  BY <1>1, ReceiveTyped, ReceiveWire DEF Receive, ToClient, TypeOK
<1>3. ack.tag \in 1..Len(log)
  BY <1>2 DEF AcksAreBacked
<1>4. /\ Len(log) \in Nat /\ Len(written) \in Nat /\ Len(log) <= Len(written)
      /\ written[n] \in Message
  BY DEF TypeOK, LogIsPrefix
<1>5. ASSUME NEW u \in acked, u.task = written[n] PROVE FALSE
  <2>1. /\ u \in unAcked /\ u.tag \in Nat /\ u.tag > 0
        /\ IF ack.multiple THEN u.tag <= ack.tag ELSE u.tag = ack.tag
    BY <1>2, <1>3, <1>5 DEF Acked, KeysAreNumbers, TypeOK
  <2>2. u.tag \in 1..Len(written) /\ u.tag <= Len(log)
    BY <1>2, <1>3, <1>4, <2>1
  <2>3. written[u.tag] = u.task
    BY <2>1, <2>2 DEF KeysAreNumbers
  <2>4. u.tag = n
    BY <1>5, <2>2, <2>3 DEF Distinct
  <2>5. n \in unconfirmed
    BY <1>4, <2>2, <2>4
  <2>6. IF ack.multiple THEN ack.tag < n ELSE ack.tag # n
    BY <1>2, <2>5 DEF AcksAreSpent, Spares
  <2> QED
    BY <1>2, <2>1, <2>4, <2>6
<1> HIDE DEF acked
<1> QED
  BY <1>1, <1>4, <1>5, SettledOnes

\* Every step keeps the publishes pending that the server has not confirmed.
LEMMA PendingInductive ==
  ASSUME KInv, [Next]_vars
  PROVE  StillPending'
<1> USE DEF KInv, IInv
<1>1. Len(written) \in Nat /\ Len(log) \in Nat /\ \A n \in 1..Len(written) : written[n] \in Message
  BY DEF TypeOK
<1>2. CASE UNCHANGED <<outcome, confirmed, written>>
  <2> SUFFICES ASSUME srv' = "confirm", NEW n \in 1..Len(written), n > Len(log') \/ n \in unconfirmed'
               PROVE  outcome[written[n]] = "pending"
    BY <1>2 DEF StillPending
  <2>1. srv = "confirm" /\ (n > Len(log) \/ n \in unconfirmed)
    BY <1>1, <1>2, ConfirmFrame
  <2> QED
    BY <2>1 DEF StillPending
<1>3. ASSUME NEW p \in Message, Reject(p) PROVE StillPending'
  <2>1. /\ UNCHANGED <<srv, log, unconfirmed, written>> /\ outcome[p] = "idle"
        /\ outcome' = [outcome EXCEPT ![p] = "rejected"]
    BY <1>3 DEF Reject, srvVars
  <2>2. \A n \in 1..Len(written) : written[n] # p
    BY <2>1 DEF Distinct
  <2> QED
    BY <1>1, <2>1, <2>2 DEF StillPending, TypeOK
<1>4. ASSUME NEW p \in Message, Accept(p) PROVE StillPending'
  <2> SUFFICES ASSUME srv = "confirm" PROVE StillPending'
    BY <1>4 DEF StillPending, Accept, srvVars
  <2>1. options.confirm
    BY DEF SelectedByOption
  <2>2. /\ UNCHANGED <<srv, log, unconfirmed>> /\ outcome[p] = "idle"
        /\ outcome' = [outcome EXCEPT ![p] = "pending"]
        /\ Len(written') = Len(written) + 1
        /\ written'[Len(written) + 1] = p
        /\ \A n \in 1..Len(written) : written'[n] = written[n]
    BY <1>1, <1>4, <2>1 DEF Accept, AwaitConfirm, srvVars, TypeOK
  <2>3. ASSUME NEW n \in 1..Len(written), n > Len(log) \/ n \in unconfirmed
        PROVE  outcome'[written'[n]] = "pending"
    BY <1>1, <2>2, <2>3 DEF StillPending, TypeOK
  <2>4. outcome'[p] = "pending"
    BY <2>2 DEF TypeOK
  <2> QED
    BY <1>1, <2>2, <2>3, <2>4 DEF StillPending
<1>5. CASE OnBasicAck
  <2>1. UNCHANGED <<srv, log, unconfirmed, written>>
    BY <1>5 DEF OnBasicAck, srvVars
  <2> HIDE DEF KInv, IInv
  <2> SUFFICES ASSUME srv = "confirm", NEW n \in 1..Len(written), n > Len(log) \/ n \in unconfirmed
               PROVE  outcome'[written[n]] = "pending"
    BY <2>1 DEF StillPending
  <2>2. outcome'[written[n]] = outcome[written[n]]
    BY <1>5, AckedArePast
  <2> QED
    BY <2>2 DEF KInv, StillPending
<1>6. CASE OnChannelClose
  <2>1. 1 \in Refusals /\ srv' = srv
    BY <1>6, ReceiveWire DEF OnChannelClose, Refusals, srvVars
  <2> QED
    BY <2>1 DEF RefusedOnce, StillPending
<1>7. CASE EmitError
  BY <1>7 DEF EmitError, ServerForgets, StillPending
<1>8. CASE LinkReady
  BY <1>8 DEF LinkReady, StillPending
<1>9. CASE Acknowledge
  <2>1. PICK tag \in unconfirmed, multiple \in BOOLEAN : SrvAck(tag, multiple)
    BY <1>9 DEF Acknowledge
  <2>2. /\ UNCHANGED <<srv, log, outcome, written>> /\ unconfirmed' \subseteq unconfirmed
    BY <2>1 DEF SrvAck, clientVars
  <2> QED
    BY <2>2 DEF StillPending
<1> HIDE DEF KInv, IInv
<1> QED
  BY <1>2, <1>3, <1>4, <1>5, <1>6, <1>7, <1>8, <1>9, ContractFrame

\* The invariant behind the contract holds at first.
LEMMA InitContract == Init => KInv /\ Contract!Init
<1> SUFFICES ASSUME Init PROVE KInv /\ Contract!Init
  OBVIOUS
<1>1. IInv
  BY InitInvariant
<1>2. Distinct /\ SelectedByOption /\ AcksAreSpent /\ StillPending
  BY DEF Init, Distinct, SelectedByOption, AcksAreSpent, StillPending, Request
<1>3. RefusedOnce
  BY DEF Init, RefusedOnce, Refusals, Answers, Request
<1>4. Contract!Init
  BY DEF Init, Contract!Init
<1> QED
  BY <1>1, <1>2, <1>3, <1>4 DEF KInv

\* It is inductive.
LEMMA ContractInductive ==
  ASSUME KInv, [Next]_vars
  PROVE  KInv'
<1>1. IInv'
  BY InvariantInductive DEF KInv
<1>2. Distinct' /\ SelectedByOption' /\ RefusedOnce' /\ AcksAreSpent'
  BY DistinctInductive, SelectInductive, RefusedInductive, SpentInductive DEF KInv
<1> QED
  BY <1>1, <1>2, PendingInductive DEF KInv

\* Settling tasks is settling their publishes, whose callers wait.
LEMMA SettlesPending ==
  ASSUME IInv, NEW S \in SUBSET unAcked, NEW result, Settle(S, result)
  PROVE  /\ {u.task : u \in S} \in SUBSET Message
         /\ \A p \in {u.task : u \in S} : outcome[p] = "pending"
         /\ Contract!Settle({u.task : u \in S}, result)
<1>1. \A u \in S : u.task \in Message /\ outcome[u.task] = "pending"
  BY DEF IInv, KeysAreNumbers, TypeOK
<1>2. \A p \in Message : (\E u \in S : u.task = p) <=> p \in {u.task : u \in S}
  OBVIOUS
<1> QED
  BY <1>1, <1>2 DEF Settle, Contract!Settle

\* What an ack settles the server has confirmed.
LEMMA AckedAreConfirmed ==
  ASSUME IInv, OnBasicAck, NEW u \in Acked(Head(toClient).tag, Head(toClient).multiple)
  PROVE  u.task \in confirmed
<1> USE DEF IInv
<1> DEFINE ack == Head(toClient)
<1>1. /\ ack = toClient[1] /\ 1 \in 1..Len(toClient) /\ ack.m = "basicAck"
      /\ ack.tag \in Nat /\ ack.multiple \in BOOLEAN
  BY ReceiveTyped, ReceiveWire DEF OnBasicAck, Receive, ToClient, TypeOK
<1>2. /\ ack.tag \in 1..Len(log)
      /\ \A n \in 1..ack.tag : ack.multiple \/ n = ack.tag => log[n] \in confirmed
  BY <1>1 DEF AcksAreBacked
<1>3. u \in unAcked /\ u.tag \in Nat /\ u.tag > 0
  BY DEF Acked, KeysAreNumbers, TypeOK
<1>4. u.tag \in 1..ack.tag /\ (ack.multiple \/ u.tag = ack.tag)
  BY <1>1, <1>2, <1>3 DEF Acked
<1>5. u.tag <= Len(log) /\ Len(log) <= Len(written) /\ log[u.tag] = written[u.tag]
  BY <1>2, <1>3, <1>4 DEF LogIsPrefix, TypeOK
<1>6. written[u.tag] = u.task
  BY <1>3, <1>5 DEF KeysAreNumbers, TypeOK
<1> QED
  BY <1>2, <1>4, <1>5, <1>6

\* Each step of the exchange is a step of the contract, or none that it sees.
LEMMA ContractStep ==
  ASSUME KInv, [Next]_vars
  PROVE  [Contract!Next]_(Contract!vars)
<1> USE DEF KInv
<1>1. outcome \in [Message -> {"idle", "rejected", "sent", "pending", "acked", "failed"}]
  BY DEF IInv, TypeOK
<1>2. CASE UNCHANGED <<outcome, confirmed>>
  BY <1>2 DEF Contract!vars
<1>3. ASSUME NEW p \in Message, NEW result \in {"rejected", "sent", "pending"},
             outcome[p] = "idle", outcome' = [outcome EXCEPT ![p] = result], UNCHANGED confirmed
      PROVE  Contract!Next
  <2>1. Contract!Settle({p}, result)
    BY <1>1, <1>3 DEF Contract!Settle
  <2> QED
    BY <1>3, <2>1 DEF Contract!Submit, Contract!Next
<1>4. ASSUME NEW p \in Message, Reject(p) \/ Accept(p) PROVE Contract!Next
  BY <1>3, <1>4 DEF Reject, Accept, AwaitConfirm, srvVars
<1>5. CASE OnBasicAck
  <2> DEFINE S == Acked(Head(toClient).tag, Head(toClient).multiple)
             P == {u.task : u \in S}
  <2>1. S \in SUBSET unAcked /\ Settle(S, "acked") /\ UNCHANGED confirmed
    BY <1>5 DEF OnBasicAck, Acked, srvVars
  <2>2. \A p \in P : p \in confirmed
    BY <1>5, AckedAreConfirmed
  <2> HIDE DEF S
  <2>3. /\ P \in SUBSET Message /\ \A p \in P : outcome[p] = "pending"
        /\ Contract!Settle(P, "acked")
    BY <2>1, SettlesPending
  <2> QED
    BY <2>1, <2>2, <2>3 DEF Contract!Ack, Contract!Next
<1>6. ASSUME WipeUnAcked, UNCHANGED confirmed PROVE [Contract!Next]_(Contract!vars)
  <2>1. CASE UNCHANGED outcome
    BY <1>2, <1>6, <2>1
  <2>2. CASE Settle(unAcked, "failed")
    <3> DEFINE P == {u.task : u \in unAcked}
    <3>1. /\ P \in SUBSET Message /\ \A p \in P : outcome[p] = "pending"
          /\ Contract!Settle(P, "failed")
      BY <2>2, SettlesPending
    <3> QED
      BY <1>6, <3>1 DEF Contract!Fail, Contract!Next
  <2> QED
    BY <1>6, <2>1, <2>2 DEF WipeUnAcked
<1>7. CASE OnChannelClose \/ EmitError
  BY <1>6, <1>7 DEF OnChannelClose, EmitError, ServerForgets, srvVars
<1>8. ASSUME NEW tag \in unconfirmed, NEW multiple \in BOOLEAN, SrvAck(tag, multiple)
      PROVE  Contract!Next
  <2> DEFINE P == {log[n] : n \in Covered(tag, multiple)}
  <2>1. srv = "confirm" /\ confirmed' = confirmed \cup P /\ UNCHANGED outcome
    BY <1>8 DEF SrvAck, clientVars
  <2>2. ASSUME NEW n \in Covered(tag, multiple)
        PROVE  log[n] \in Message /\ outcome[log[n]] = "pending"
    <3>1. n \in unconfirmed /\ n \in 1..Len(log)
      BY DEF Covered, IInv, TypeOK
    <3>2. n \in 1..Len(written) /\ log[n] = written[n] /\ log[n] \in Message
      BY <3>1 DEF IInv, TypeOK, LogIsPrefix
    <3> QED
      BY <2>1, <3>1, <3>2 DEF StillPending
  <2>3. P \in SUBSET Message /\ \A p \in P : outcome[p] = "pending"
    BY <2>2
  <2> HIDE DEF P
  <2> QED
    BY <2>1, <2>3 DEF Contract!Confirm, Contract!Next
<1>9. CASE LinkReady
  BY <1>2, <1>9 DEF LinkReady, clientVars, srvVars
<1> HIDE DEF KInv
<1> QED
  BY <1>2, <1>4, <1>5, <1>7, <1>8, <1>9, ContractFrame DEF Acknowledge

\* The exchange implements the contract of publish: through every loss, refusal,
\* close and reconnection a callback is called at most once, told of a confirm only
\* after the server has confirmed that publish, and the server confirms only what its
\* caller still waits for.
THEOREM ContractIsKept == Spec => ImplementsContract
<1>1. KInv /\ [Next]_vars => KInv'
  BY ContractInductive
<1>2. KInv /\ [Next]_vars => [Contract!Next]_(Contract!vars)
  BY ContractStep
<1>3. Init => KInv /\ Contract!Init
  BY InitContract
<1> QED
  BY <1>1, <1>2, <1>3, PTL DEF Spec, ImplementsContract, Contract!Spec

-----------------------------------------------------------------------------
(* What is owed is remembered *)

\* A lost connection leaves nothing waiting, so that what waits was written on
\* this channel, and its keys are free for no other.
KeysOfThisChannel ==
  /\ unAcked # {} => handlerAdded
  /\ \A u \in unAcked : u.tag <= Len(written)
  /\ link # "connecting"
  /\ link = "down" => unAcked = {}

PInv == IInv /\ KeysOfThisChannel /\ OwedIsRemembered

\* The steps that leave what is waiting alone, or not.
LEMMA OwedFrame ==
  ASSUME [Next]_vars, "userReconnect" \notin Faults
  PROVE  \/ /\ UNCHANGED <<unAcked, outcome, written>>
            /\ handlerAdded => handlerAdded'
            /\ link' = link \/ link' = "ended"
         \/ \E p \in Message : Reject(p) \/ Accept(p)
         \/ OnBasicAck \/ OnChannelClose
         \/ EmitError \/ LinkReady
<1> USE DEF clientVars, connVars
<1>1. CASE (\E p \in Message : Publish(p)) \/ Close \/ UNCHANGED vars
  BY <1>1 DEF Publish, Close, vars
<1>2. CASE ClientStep
  BY <1>2 DEF ClientStep, OnChannelOpenOk, OnExchangeDeclareOk, OnConfirmSelectOk,
       OnChannelCloseOk, OnFatalMethod, WriteAfterEnd
<1>3. CASE ServerStep
  BY <1>3 DEF ServerStep, SrvChannelOpen, SrvExchangeDeclare, SrvConfirmSelect,
       SrvBasicPublish, SrvChannelClose, SrvRefuse, SrvChannelCloseOk, SrvDiscard,
       SrvUnexpected
<1>4. CASE Acknowledge
  BY <1>4 DEF Acknowledge, SrvAck
<1>5. CASE Environment
  BY <1>5 DEF Environment, LinkError, LinkEnd, UserReconnect, OnBlocked, SrvNack
<1> QED
  BY <1>1, <1>2, <1>3, <1>4, <1>5 DEF Next

\* Every step keeps what is owed remembered.
LEMMA OwedInductive ==
  ASSUME PInv, [Next]_vars, "userReconnect" \notin Faults
  PROVE  KeysOfThisChannel' /\ OwedIsRemembered'
<1> USE DEF PInv
<1>1. /\ outcome \in [Message -> {"idle", "rejected", "sent", "pending", "acked", "failed"}]
      /\ unAcked \subseteq [tag : Nat, task : Message] /\ Len(written) \in Nat
      /\ \A u \in unAcked : u.task \in Message /\ u.tag \in Nat
      /\ unAcked # {} => options.confirm /\ handlerAdded
  BY DEF IInv, TypeOK, KeysAreNumbers, KeysOfThisChannel
<1>2. CASE /\ UNCHANGED <<unAcked, outcome, written>>
           /\ handlerAdded => handlerAdded'
           /\ link' = link \/ link' = "ended"
  BY <1>2 DEF KeysOfThisChannel, OwedIsRemembered
<1>3. ASSUME NEW p \in Message, Reject(p) PROVE KeysOfThisChannel' /\ OwedIsRemembered'
  <2>1. /\ UNCHANGED <<unAcked, written, handlerAdded, link>> /\ outcome[p] = "idle"
        /\ outcome' = [outcome EXCEPT ![p] = "rejected"]
    BY <1>3 DEF Reject, connVars
  <2> QED
    BY <1>1, <2>1 DEF KeysOfThisChannel, OwedIsRemembered
<1>4. ASSUME NEW p \in Message, Accept(p) PROVE KeysOfThisChannel' /\ OwedIsRemembered'
  <2>1. /\ Len(written') = Len(written) + 1 /\ outcome[p] = "idle" /\ link' = link
        /\ link \in {"up", "ended"}
    BY <1>4 DEF Accept, connVars, Writable, IInv, TypeOK
  <2>2. CASE options.confirm
    <3>1. sequence = Len(written) + 1
      BY <1>4, <2>2 DEF Accept, IInv, SequenceInStep
    <3>2. \A u \in unAcked : u.tag # sequence
      BY <1>1, <3>1 DEF KeysOfThisChannel
    <3>3. /\ unAcked' = unAcked \cup {[tag |-> Len(written) + 1, task |-> p]}
          /\ outcome' = [outcome EXCEPT ![p] = "pending"] /\ handlerAdded'
      BY <1>4, <2>2, <3>1, <3>2 DEF Accept, AwaitConfirm
    <3>4. KeysOfThisChannel'
      BY <1>1, <2>1, <3>3 DEF KeysOfThisChannel
    <3>5. ASSUME NEW q \in Message
          PROVE  outcome'[q] = "pending" <=> \E u \in unAcked' : u.task = q
      <4>1. CASE q = p
        <5>1. [tag |-> Len(written) + 1, task |-> p] \in unAcked'
          BY <3>3
        <5> QED
          BY <1>1, <3>3, <4>1, <5>1
      <4>2. CASE q # p
        BY <1>1, <3>3, <4>2 DEF OwedIsRemembered
      <4> QED
        BY <4>1, <4>2
    <3> QED
      BY <3>4, <3>5 DEF OwedIsRemembered
  <2>3. CASE ~options.confirm
    <3>1. /\ outcome' = [outcome EXCEPT ![p] = "sent"] /\ unAcked' = unAcked
          /\ unAcked = {}
      BY <1>1, <1>4, <2>3 DEF Accept
    <3> QED
      BY <1>1, <2>1, <3>1 DEF KeysOfThisChannel, OwedIsRemembered
  <2> QED
    BY <2>2, <2>3
<1>5. ASSUME NEW S \in SUBSET unAcked, NEW result \in {"acked", "failed"}, Settle(S, result),
             unAcked' = unAcked \ S
      PROVE  OwedIsRemembered'
  <2> SUFFICES ASSUME NEW q \in Message
               PROVE  outcome'[q] = "pending" <=> \E u \in unAcked \ S : u.task = q
    BY <1>5 DEF OwedIsRemembered
  <2>1. outcome'[q] = IF \E u \in S : u.task = q THEN result ELSE outcome[q]
    BY <1>5, SettledOnes DEF IInv
  <2>2. \A u, v \in unAcked : u.task = v.task => u = v
    BY DEF IInv, KeysAreNumbers
  <2> QED
    BY <2>1, <2>2 DEF OwedIsRemembered
<1>6. CASE OnBasicAck
  <2> DEFINE S == Acked(Head(toClient).tag, Head(toClient).multiple)
  <2>1. /\ unAcked' = unAcked \ S /\ Settle(S, "acked") /\ S \in SUBSET unAcked
        /\ UNCHANGED <<handlerAdded, written, link>>
    BY <1>6 DEF OnBasicAck, Acked, connVars
  <2> HIDE DEF S
  <2> QED
    BY <1>5, <2>1 DEF KeysOfThisChannel
<1>7. ASSUME WipeUnAcked PROVE unAcked' = {} /\ OwedIsRemembered'
  <2>1. CASE options.confirm /\ handlerAdded
    <3>1. unAcked' = unAcked \ unAcked /\ Settle(unAcked, "failed") /\ unAcked' = {}
      BY <1>7, <2>1 DEF WipeUnAcked
    <3> QED
      BY <1>5, <3>1
  <2>2. CASE ~(options.confirm /\ handlerAdded)
    BY <1>1, <1>7, <2>2 DEF WipeUnAcked, OwedIsRemembered
  <2> QED
    BY <2>1, <2>2
<1>8. CASE OnChannelClose
  BY <1>7, <1>8 DEF OnChannelClose, connVars, KeysOfThisChannel
<1>9. CASE EmitError
  BY <1>7, <1>9 DEF EmitError, KeysOfThisChannel
<1>10. CASE LinkReady
  <2>1. UNCHANGED <<unAcked, outcome>> /\ unAcked = {} /\ link' = "up"
    BY <1>10 DEF LinkReady, clientVars, KeysOfThisChannel
  <2> QED
    BY <2>1 DEF KeysOfThisChannel, OwedIsRemembered
<1> HIDE DEF PInv
<1> QED
  BY <1>2, <1>3, <1>4, <1>6, <1>8, <1>9, <1>10, OwedFrame

\* No callback that is owed is forgotten: its task is neither overwritten nor wiped
\* without a call, and a lost connection fails them all. Only a reconnection that emits
\* no error, which the application asks for itself, is left out.
THEOREM OwedIsTracked ==
  ASSUME "userReconnect" \notin Faults
  PROVE  Spec => []PendingTracked
<1>1. Init => PInv
  BY InitInvariant DEF Init, PInv, KeysOfThisChannel, OwedIsRemembered
<1>2. PInv /\ [Next]_vars => PInv'
  BY OwedInductive, InvariantInductive DEF PInv
<1>3. PInv => PendingTracked
  BY DEF PInv, KeysOfThisChannel, OwedIsRemembered, PendingTracked, NothingPendingWhileDown
<1> QED
  BY <1>1, <1>2, <1>3, PTL DEF Spec
=============================================================================
