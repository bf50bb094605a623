------------------------------- MODULE Connection -------------------------------
(***************************************************************************)
(* The life of a connection of node-amqp (lib/connection.js): the AMQP     *)
(* handshake, the listeners installed by addAllListeners, the backoff and  *)
(* its single timer, and the reopening of channels when 'ready' is         *)
(* emitted.                                                                *)
(*                                                                         *)
(* Every socket ever created keeps proxying its events to the connection   *)
(* (_createSocket), so the sockets are kept apart and a superseded one may *)
(* still connect, deliver data, fail or end.  Handlers act on the current  *)
(* socket, whichever socket the event came from.  A channel is its state   *)
(* and its open method; module Exchange has the rest of it.                *)
(***************************************************************************)
EXTENDS Integers, Sequences, SeqFilter

CONSTANTS ChannelCount,     \* how many exchanges and queues the application creates
          CallbackChannels, \* those its readyCallback creates
          ImplOptions,      \* the options the connection may be created with
          BackoffTime,      \* implOptions.reconnectBackoffTime
          Limit,            \* implOptions.reconnectExponentialLimit
          Faults,           \* the misfortunes that may happen
          MaxLosses,        \* bound on them
          MaxSockets        \* bound on the sockets created

FaultKinds == { "error",         \* a socket emits 'error'
                "refused",       \* connecting fails or times out
                "heartbeat",     \* nothing is heard for two heartbeat periods
                "peerEnd",       \* the peer ends the stream
                "badVersion",    \* connection.start of another version
                "close",         \* the server sends connection.close
                "unknown",       \* the server sends a method the parser rejects
                "userReconnect", \* the application calls reconnect()
                "disconnect",    \* ... disconnect()
                "end" }          \* ... end()

\* implOptions.reconnect, and the strategy "exponential" or "linear".
OptionRecords == [reconnect : BOOLEAN, exponential : BOOLEAN]

Channels == 1..ChannelCount

NoChannel == 0 \* the control channel

ASSUME ChannelsAssumption == ChannelCount \in Nat /\ CallbackChannels \subseteq Channels
ASSUME OptionsAssumption  == /\ ImplOptions \subseteq OptionRecords
                             /\ {BackoffTime, Limit} \subseteq Nat \ {0}
ASSUME FaultsAssumption   == Faults \subseteq FaultKinds
ASSUME BoundsAssumption   == MaxLosses \in Nat /\ MaxSockets \in Nat \ {0}

VARIABLES
  options,       \* this.implOptions
  cur,           \* this.socket
  sockets,       \* every socket with its wires and the server at its other end
  parser,        \* this.parser is not null
  readyEmitted,  \* this.readyEmitted
  inbound,       \* this._inboundHeartbeatTimer is running
  heartbeat,     \* this.options.heartbeat is set
  scheduled,     \* this.connectionAttemptScheduled
  timers,        \* reconnection timers that have not fired
  backoff,       \* backoffTime, 0 standing for null
  failures,      \* history: attempts scheduled since the last 'ready'
  channels,      \* this.channels and the state of each
  readyCallback, \* the channels this._readyCallback will create
  losses         \* misfortunes so far

timing   == <<scheduled, timers, backoff, failures>>
sensing  == <<parser, readyEmitted, inbound, heartbeat>>
vars == <<options, cur, sockets, sensing, timing, channels, readyCallback, losses>>

-----------------------------------------------------------------------------
(* Types *)

Message == [m : {"header", "startOk", "open", "close",
                 "start", "badStart", "tune", "openOk", "closeOk", "unknown"},
            c : {NoChannel}]
             \cup [m : {"channelOpen", "channelOpenOk"}, c : Channels]

Socket == [phase : {"none", "connecting", "open", "dead"},
           ended : BOOLEAN,   \* we called end(): no write is accepted
           refused : BOOLEAN, \* a write was refused, its 'error' is due
           toServer : Seq(Message),
           toClient : Seq(Message),
           srv : {"waiting", "started", "tuned", "open", "gone"},
           opened : SUBSET Channels] \* the channels the server has open

\* Every variable stays in its domain.
TypeOK ==
  /\ options \in OptionRecords
  /\ cur \in 1..MaxSockets
  /\ sockets \in [1..MaxSockets -> Socket]
  /\ {parser, readyEmitted, inbound, heartbeat, scheduled} \subseteq BOOLEAN
  /\ timers \in Nat
  /\ backoff \in Nat
  /\ failures \in Nat
  /\ channels \in [Channels -> {"none", "undefined", "open", "closed"}]
  /\ readyCallback \subseteq Channels
  /\ losses \in 0..MaxLosses

-----------------------------------------------------------------------------
(* Helpers: what is done to the sockets S *)

Method(m) == <<[m |-> m, c |-> NoChannel]>>

Writable(S) == S[cur].phase \in {"connecting", "open"} /\ ~S[cur].ended

\* this.write: refused by a socket that has been ended, by us or by the peer.
Write(S, methods) ==
  IF Writable(S) THEN [S EXCEPT ![cur].toServer = @ \o methods]
                 ELSE [S EXCEPT ![cur].refused = TRUE]

\* The next method of socket s is taken off its wire.
Taken(S, s) == [S EXCEPT ![s].toClient = Tail(@)]

End(S) == [S EXCEPT ![cur].ended = TRUE]

\* Socket s is closed or destroyed: nothing travels on it any more.
Dead(S, s) == [S EXCEPT ![s] = [@ EXCEPT !.phase = "dead", !.toServer = <<>>,
                                         !.toClient = <<>>, !.srv = "gone",
                                         !.opened = {}]]

NoSocket == [phase |-> "none", ended |-> FALSE, refused |-> FALSE,
             toServer |-> <<>>, toClient |-> <<>>, srv |-> "waiting", opened |-> {}]

\* _createSocket and _startHandshake.
NewSocket == [NoSocket EXCEPT !.phase = "connecting", !.toServer = Method("header")]

Created == {c \in Channels : channels[c] # "none"}

\* The channelOpen methods of the channels in C, by channel number.
Opens(C) == Filter([c \in Channels |-> [m |-> "channelOpen", c |-> c]],
                   [m : {"channelOpen"}, c : C])

\* Slip: the channels are not told.
CloseNothing == UNCHANGED channels

CloseChannels ==
  channels' = [c \in Channels |-> IF c \in Created THEN "closed" ELSE "none"]

-----------------------------------------------------------------------------
(* The backoff listener of 'error' *)

\* Slip: the limit is not applied.
NextBackoffUnlimited ==
  IF backoff = 0 THEN BackoffTime
  ELSE IF options.exponential THEN 2 * backoff ELSE backoff

NextBackoff ==
  IF backoff = 0 THEN BackoffTime
  ELSE IF ~options.exponential THEN backoff
  ELSE IF 2 * backoff > Limit THEN Limit ELSE 2 * backoff

ClearInbound == inbound' = IF scheduled /\ ~options.reconnect THEN inbound ELSE FALSE

\* connection.emit('error') while the sockets are S; ClearInbound goes with it.
\* Without the reconnect option the listener has removed itself, which shows
\* in `scheduled' alone: no timer will ever reset it.
EmitError(S) ==
  IF scheduled
    THEN sockets' = S /\ UNCHANGED <<parser, channels, timing>>
    ELSE /\ scheduled' = TRUE
         /\ sockets' = End(S)
         /\ parser' = FALSE
         /\ CloseChannels
         /\ IF options.reconnect
              THEN /\ backoff' = NextBackoff
                   /\ timers' = timers + 1
                   /\ failures' = failures + 1
              ELSE UNCHANGED <<backoff, timers, failures>>

Misfortune(kind) ==
  kind \in Faults /\ losses < MaxLosses /\ losses' = losses + 1

-----------------------------------------------------------------------------
(* The application *)

\* new Connection and connect().
Init ==
  /\ options \in ImplOptions
  /\ cur = 1
  /\ sockets = [s \in 1..MaxSockets |-> IF s = 1 THEN NewSocket ELSE NoSocket]
  /\ parser = FALSE
  /\ readyEmitted = FALSE
  /\ inbound = FALSE
  /\ heartbeat = ("heartbeat" \in Faults)
  /\ scheduled = FALSE
  /\ timers = 0
  /\ backoff = 0
  /\ failures = 0
  /\ channels = [c \in Channels |-> "none"]
  /\ readyCallback = CallbackChannels
  /\ losses = 0

Ready == sockets[cur].phase = "open" /\ readyEmitted /\ ~scheduled

\* exchange() or queue(), called once the connection is ready.
CreateChannel(c) ==
  /\ Ready
  /\ c \notin Created \cup CallbackChannels
  /\ channels' = [channels EXCEPT ![c] = "undefined"]
  /\ sockets' = Write(sockets, Opens({c}))
  /\ UNCHANGED <<options, cur, sensing, timing, readyCallback, losses>>

\* Slip: the old socket is left alone.
ReopenKeepsSocket ==
  /\ cur < MaxSockets
  /\ CloseChannels
  /\ cur' = cur + 1
  /\ sockets' = [sockets EXCEPT ![cur + 1] = NewSocket]

\* reconnect(): the old socket is ended, a new one takes its place.
Reopen ==
  /\ cur < MaxSockets
  /\ CloseChannels
  /\ cur' = cur + 1
  /\ sockets' = [End(sockets) EXCEPT ![cur + 1] = NewSocket]

UserReconnect ==
  /\ Misfortune("userReconnect")
  /\ Reopen
  /\ UNCHANGED <<options, sensing, timing, readyCallback>>

\* Slip: the flag is not cleared, so the next failure schedules nothing.
TimerFiresOnce ==
  /\ timers > 0
  /\ timers' = timers - 1
  /\ UNCHANGED scheduled
  /\ Reopen
  /\ UNCHANGED <<options, sensing, backoff, failures, readyCallback, losses>>

\* Slip: an attempt is made whether or not the timer is there.
TimerFiresUnset ==
  /\ scheduled \/ timers > 0
  /\ timers' = timers - 1
  /\ UNCHANGED scheduled
  /\ Reopen
  /\ UNCHANGED <<options, sensing, backoff, failures, readyCallback, losses>>

\* The callback of setTimeout.
TimerFires ==
  /\ timers > 0
  /\ timers' = timers - 1
  /\ scheduled' = FALSE
  /\ Reopen
  /\ UNCHANGED <<options, sensing, backoff, failures, readyCallback, losses>>

\* disconnect() asks the server to close.
Disconnect ==
  /\ Misfortune("disconnect")
  /\ Ready
  /\ sockets' = Write(sockets, Method("close"))
  /\ UNCHANGED <<options, cur, sensing, timing, channels, readyCallback>>

EndConnection ==
  /\ Misfortune("end")
  /\ sockets' = End(sockets)
  /\ heartbeat' = FALSE
  /\ inbound' = FALSE
  /\ UNCHANGED <<options, cur, parser, readyEmitted, timing, channels, readyCallback>>

-----------------------------------------------------------------------------
(* Events of socket s other than data *)

\* Slip: the flag of the previous connection is kept.
OnConnectKeepsReady(s) ==
  /\ sockets[s].phase = "connecting"
  /\ sockets' = [sockets EXCEPT ![s].phase = "open"]
  /\ parser' = TRUE
  /\ UNCHANGED <<options, cur, readyEmitted, inbound, heartbeat, timing, channels,
                 readyCallback, losses>>

OnConnect(s) ==
  /\ sockets[s].phase = "connecting"
  /\ sockets' = [sockets EXCEPT ![s].phase = "open"]
  /\ parser' = TRUE
  /\ readyEmitted' = FALSE
  /\ UNCHANGED <<options, cur, inbound, heartbeat, timing, channels, readyCallback, losses>>

OnError(s) ==
  /\ \/ Misfortune("refused") /\ sockets[s].phase = "connecting"
     \/ Misfortune("error") /\ sockets[s].phase = "open"
  /\ ClearInbound
  /\ EmitError(Dead(sockets, s))
  /\ UNCHANGED <<options, cur, readyEmitted, heartbeat, readyCallback>>

\* The stream of s ends: hinted to be an authentication failure before 'ready'.
EndOfStream(s) ==
  /\ sockets[s].phase = "open"
  /\ sockets[s].toClient = <<>>
  /\ IF readyEmitted
       THEN sockets' = Dead(sockets, s) /\ UNCHANGED <<parser, inbound, channels, timing>>
       ELSE ClearInbound /\ EmitError(Dead(sockets, s))
  /\ UNCHANGED <<options, cur, readyEmitted, heartbeat, readyCallback>>

\* The peer ends because the server gave up or we ended our side.
OnEnd(s) ==
  /\ sockets[s].srv = "gone" \/ (sockets[s].ended /\ sockets[s].toServer = <<>>)
  /\ EndOfStream(s)
  /\ UNCHANGED losses

PeerEnds(s) == Misfortune("peerEnd") /\ EndOfStream(s)

\* The 'error' of a refused write; newer runtimes swallow some of them.
WriteAfterEnd(s) ==
  /\ sockets[s].refused
  /\ ClearInbound
  /\ EmitError([sockets EXCEPT ![s].refused = FALSE])
  /\ UNCHANGED <<options, cur, readyEmitted, heartbeat, readyCallback, losses>>

\* _inboundHeartbeatTimer fires (heartbeatForceReconnect not set).
HeartbeatLost ==
  /\ inbound
  /\ Misfortune("heartbeat")
  /\ inbound' = FALSE
  /\ IF sockets[cur].phase = "open"
       THEN EmitError(sockets)
       ELSE UNCHANGED <<sockets, parser, channels, timing>>
  /\ UNCHANGED <<options, cur, readyEmitted, heartbeat, readyCallback>>

-----------------------------------------------------------------------------
(* Data of socket s: the parser calls _onMethod, whatever the socket *)

Data(s) == sockets[s].phase = "open" /\ sockets[s].toClient # <<>>

Receive(s, m) == Data(s) /\ parser /\ Head(sockets[s].toClient).m = m

Rearm == inbound' = heartbeat

OnStart(s) ==
  /\ Receive(s, "start")
  /\ sockets' = Write(Taken(sockets, s), Method("startOk"))
  /\ Rearm
  /\ UNCHANGED <<options, cur, parser, readyEmitted, heartbeat, timing, channels,
                 readyCallback, losses>>

OnTune(s) ==
  /\ Receive(s, "tune")
  /\ sockets' = Write(Taken(sockets, s), Method("open"))
  /\ Rearm
  /\ UNCHANGED <<options, cur, parser, readyEmitted, heartbeat, timing, channels,
                 readyCallback, losses>>

\* The readyCallback runs, then 'ready' is emitted: every channel is reopened.
OnOpenOk(s) ==
  /\ Receive(s, "openOk")
  /\ sockets' = Write(Write(Taken(sockets, s), Opens(readyCallback)),
                      IF options.reconnect THEN Opens(Created \cup readyCallback) ELSE <<>>)
  /\ channels' = [c \in Channels |-> IF c \in readyCallback THEN "undefined" ELSE channels[c]]
  /\ readyCallback' = {}
  /\ backoff' = 0
  /\ failures' = 0
  /\ readyEmitted' = TRUE
  /\ Rearm
  /\ UNCHANGED <<options, cur, parser, heartbeat, scheduled, timers, losses>>

\* A method for a channel that is not in this.channels is ignored.
OnChannelOpenOk(s) ==
  /\ Receive(s, "channelOpenOk")
  /\ LET c == Head(sockets[s].toClient).c IN
     channels' = [channels EXCEPT ![c] = IF c \in Created THEN "open" ELSE @]
  /\ sockets' = Taken(sockets, s)
  /\ Rearm
  /\ UNCHANGED <<options, cur, parser, readyEmitted, heartbeat, timing, readyCallback, losses>>

\* The current socket is destroyed with an error, emitted after the data event.
OnClose(s) ==
  /\ Receive(s, "close")
  /\ LET S == Taken(sockets, s) IN
     IF S[cur].phase = "dead"
       THEN sockets' = S /\ Rearm /\ UNCHANGED <<parser, channels, timing>>
       ELSE ClearInbound /\ EmitError(Dead(S, cur))
  /\ UNCHANGED <<options, cur, readyEmitted, heartbeat, readyCallback, losses>>

OnCloseOk(s) ==
  /\ Receive(s, "closeOk")
  /\ sockets' = Dead(End(Taken(sockets, s)), cur)
  /\ Rearm
  /\ UNCHANGED <<options, cur, parser, readyEmitted, heartbeat, timing, channels,
                 readyCallback, losses>>

\* parser.onError, or a server of another version: 'error' is emitted inside
\* the data listener, which goes on to restart the heartbeat timer.
OnFailure(s) ==
  /\ \/ Receive(s, "unknown") /\ EmitError(Taken(sockets, s))
     \/ Receive(s, "badStart") /\ EmitError(End(Taken(sockets, s)))
  /\ Rearm
  /\ UNCHANGED <<options, cur, readyEmitted, heartbeat, readyCallback, losses>>

\* Without a parser data only restarts the heartbeat timer.
OnDiscardedData(s) ==
  /\ Data(s)
  /\ ~parser
  /\ sockets' = Taken(sockets, s)
  /\ Rearm
  /\ UNCHANGED <<options, cur, parser, readyEmitted, heartbeat, timing, channels,
                 readyCallback, losses>>

-----------------------------------------------------------------------------
(* The server at the other end of socket s *)

ServerReads(s, m) ==
  /\ sockets[s].phase = "open"
  /\ sockets[s].srv # "gone"
  /\ sockets[s].toServer # <<>>
  /\ Head(sockets[s].toServer).m = m

\* It reads the next method, answers, and goes on in the state next.
Answer(s, answer, next, opened) ==
  /\ sockets' = [sockets EXCEPT ![s] =
                   [sockets[s] EXCEPT !.toServer = Tail(@), !.toClient = @ \o answer,
                                      !.srv = next, !.opened = opened]]
  /\ UNCHANGED <<options, cur, sensing, timing, channels, readyCallback>>

Handshake == { [reads |-> "header",  in |-> "waiting", says |-> "start",  next |-> "started"],
               [reads |-> "startOk", in |-> "started", says |-> "tune",   next |-> "tuned"],
               [reads |-> "open",    in |-> "tuned",   says |-> "openOk", next |-> "open"] }

SrvHandshake(s) ==
  /\ \E h \in Handshake : /\ ServerReads(s, h.reads)
                          /\ sockets[s].srv = h.in
                          /\ Answer(s, Method(h.says), h.next, {})
  /\ UNCHANGED losses

SrvBadVersion(s) ==
  /\ Misfortune("badVersion")
  /\ ServerReads(s, "header")
  /\ sockets[s].srv = "waiting"
  /\ Answer(s, Method("badStart"), "started", {})

\* A channel that is open already is a connection error.
SrvChannelOpen(s) ==
  /\ ServerReads(s, "channelOpen")
  /\ sockets[s].srv = "open"
  /\ LET c == Head(sockets[s].toServer).c
         opened == sockets[s].opened
     IN  IF c \in opened
           THEN Answer(s, Method("close"), "gone", opened)
           ELSE Answer(s, <<[m |-> "channelOpenOk", c |-> c]>>, "open", opened \cup {c})
  /\ UNCHANGED losses

SrvClose(s) ==
  /\ ServerReads(s, "close")
  /\ sockets[s].srv = "open"
  /\ Answer(s, Method("closeOk"), "gone", {})
  /\ UNCHANGED losses

\* A method out of place: the server drops the connection.
SrvUnexpected(s) ==
  /\ \E m \in {"header", "startOk", "open", "channelOpen", "close"} :
       /\ ServerReads(s, m)
       /\ IF m \in {"channelOpen", "close"}
            THEN sockets[s].srv # "open"
            ELSE \A h \in Handshake : h.reads = m => sockets[s].srv # h.in
  /\ Answer(s, <<>>, "gone", sockets[s].opened)
  /\ UNCHANGED losses

\* connection.close, or a method the parser does not know, out of the blue.
SrvComplains(s) ==
  /\ sockets[s].phase = "open"
  /\ sockets[s].srv = "open"
  /\ \E m \in {"close", "unknown"} :
       /\ Misfortune(m)
       /\ sockets' = [sockets EXCEPT ![s].toClient = @ \o Method(m)]
  /\ UNCHANGED <<options, cur, sensing, timing, channels, readyCallback>>

-----------------------------------------------------------------------------
OnData(s) == \/ OnStart(s) \/ OnTune(s) \/ OnOpenOk(s) \/ OnChannelOpenOk(s)
             \/ OnClose(s) \/ OnCloseOk(s) \/ OnFailure(s) \/ OnDiscardedData(s)

ServerStep(s) == \/ SrvHandshake(s) \/ SrvChannelOpen(s) \/ SrvClose(s)
                 \/ SrvUnexpected(s)

Next == \/ \E c \in Channels : CreateChannel(c)
        \/ UserReconnect \/ Disconnect \/ EndConnection
        \/ TimerFires \/ HeartbeatLost
        \/ \E s \in 1..cur : \/ OnConnect(s) \/ OnError(s) \/ OnEnd(s) \/ PeerEnds(s)
                             \/ WriteAfterEnd(s) \/ OnData(s) \/ ServerStep(s)
                             \/ SrvBadVersion(s) \/ SrvComplains(s)

Spec == Init /\ [][Next]_vars

(***************************************************************************)
(* The runtime fires timers and socket events, and the server keeps        *)
(* reading; the application and the misfortunes are left free.             *)
(***************************************************************************)
FairSpec == /\ Spec
            /\ WF_vars(TimerFires)
            /\ \A s \in 1..MaxSockets :
                 /\ WF_vars(OnConnect(s))
                 /\ WF_vars(OnEnd(s))
                 /\ WF_vars(OnData(s))
                 /\ WF_vars(ServerStep(s))

-----------------------------------------------------------------------------
(* Correctness *)

OneAttempt ==
  timers = IF scheduled /\ options.reconnect THEN 1 ELSE 0

OneSocket ==
  \A s \in 1..(cur - 1) : sockets[s].phase = "dead" \/ sockets[s].ended

\* However errors, late events of superseded sockets and calls of reconnect()
\* interleave, one attempt at most is scheduled, connectionAttemptScheduled says so
\* exactly, and without the reconnect option there is none (backoff listener); no
\* superseded socket is left open: each was ended before its successor was
\* created (reconnect()).
OneAtATime == OneAttempt /\ OneSocket

NoneOpenWhileDown ==
  scheduled => \A c \in Channels : channels[c] # "open"

OpenIsCurrent ==
  \A c \in Channels :
    channels[c] = "open" /\ sockets[cur].phase = "open" /\ sockets[cur].srv = "open"
      => c \in sockets[cur].opened

\* While an attempt is scheduled no channel claims to be open ("so that nobody
\* attempts to send messages which would be doomed to fail"), and an open channel
\* is open at the server of the current connection: it was not opened by the
\* answer of an earlier one.
OpenIsReal == NoneOpenWhileDown /\ OpenIsCurrent

\* The application believes in a connection only when the server has completed
\* the handshake on its socket ("emits the 'ready' event when the handshaking is
\* complete", README.md).
ReadyMeansHandshaken == Ready => sockets[cur].srv \in {"open", "gone"}

\* The pause before the n-th attempt since the last 'ready' (README, section
\* on the reconnect options).
Pause(exponential) ==
  LET pause[n \in Nat] ==
        IF n <= 1 \/ ~exponential THEN BackoffTime
        ELSE IF 2 * pause[n - 1] > Limit THEN Limit ELSE 2 * pause[n - 1]
  IN  pause

\* A timer is set to the documented pause: doubled for each attempt since the
\* last 'ready' up to the limit; the count starts afresh when a connection has
\* become ready, not when a socket merely connects.
BackoffIsDocumented == [][timers' > timers => backoff' = Pause(options.exponential)[failures']]_vars

\* The connection is ready and every channel the application made is open.
Available ==
  /\ Ready
  /\ \A c \in Created : channels[c] = "open"

\* The driver reconnects "any time the connection becomes unavailable".
Recovers == options.reconnect => []<>Available
=============================================================================
