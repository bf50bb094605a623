------------------------------- MODULE Registry --------------------------------
(***************************************************************************)
(* The channel numbers of the connections of one process (connection.js):  *)
(* how generateChannelId picks them, what frees them (channel.js,          *)
(* exchange.js, queue.js), and what the server makes of them. channelMax   *)
(* is a variable of the module connection.js: every connection of the      *)
(* process uses what the last one negotiated. connection.publish, which    *)
(* makes an exchange of its own, is here as well.                          *)
(*                                                                         *)
(* The steps of a handshake and of a reconnection are those of Connection; *)
(* here a connection comes up, and its channels are reopened, in one. The  *)
(* application creates its channels once the connection is ready, not in   *)
(* the readyCallback, and calls close() once for each.                     *)
(***************************************************************************)
EXTENDS Integers, Sequences, SequencesExt, FiniteSetsExt, SeqFilter

CONSTANTS Connections,
          Objects,      \* the exchanges and queues to be created
          Owner,        \* the connection of each
          DefaultMax,   \* channelMax before any connection is tuned
          Limits,       \* the channel-max of the servers, 0 for no limit
          Highest,      \* the largest number of a channel
          MaxPublishes, MaxLosses,
          None

Numbers == 1 .. Highest

ASSUME RegistryAssumption ==
  /\ Highest \in Nat /\ Limits \subseteq 0 .. Highest /\ DefaultMax \in Numbers
  /\ Owner \in [Objects -> Connections]
  /\ MaxPublishes \in Nat /\ MaxLosses \in Nat /\ None \notin Objects

VARIABLES
  channelMax,
  stuck,           \* the process loops in generateChannelId
  \* by connection
  link, channelCounter,
  channels,        \* the exchange or queue of each number
  defaultExchange, \* _defaultExchange
  deferred,        \* publishes waiting for its 'open' event
  written,         \* those it wrote
  \* by object
  state, closeCalled,
  \* the server, and the methods on the wires
  tuned, srv, toServer, toClient,
  losses

wires == <<toServer, toClient>>
vars  == <<channelMax, stuck, link, channelCounter, channels, defaultExchange, deferred,
           written, state, closeCalled, tuned, srv, wires, losses>>

Tracked(c) == {n \in Numbers : channels[c][n] # None}

\* Slip: a number in use is not skipped.
NextIdUnchecked(c) == (channelCounter[c] % channelMax) + 1

\* generateChannelId: the first number after the counter that is free, 0 when it
\* throws, -1 when it never comes to an end.
NextId(c) ==
  LET id[k \in 0 .. channelMax + 1] ==
        IF k = 0 THEN channelCounter[c] ELSE (id[k - 1] % channelMax) + 1
      Ends(k) == id[k] \notin Tracked(c) \/ id[k] = channelCounter[c]
      ends == {k \in 1 .. channelMax + 1 : Ends(k)}
  IN  IF ends = {} THEN -1
      ELSE LET last == id[Min(ends)]
           IN  IF last \in Tracked(c) THEN 0 ELSE last

Writes(c, s) ==
  toServer' = IF link[c] = "up" THEN [toServer EXCEPT ![c] = @ \o s] ELSE toServer

\* 'error' on the connection: its channels are closed, the socket ends.
Down(c) ==
  /\ link' = [link EXCEPT ![c] = "down"]
  /\ state' = [o \in Objects |->
                 IF o \in Range(channels[c]) THEN "closed" ELSE state[o]]
  /\ toServer' = [toServer EXCEPT ![c] = <<>>]
  /\ toClient' = [toClient EXCEPT ![c] = <<>>]

-------------------------------------------------------------------------------
(* The application.                                                        *)

\* exchange(), queue(): a number, an entry and a channel.open, or an 'error'.
Create(c, o) ==
  LET n == NextId(c)
  IN  /\ ~stuck /\ link[c] # "new" /\ state[o] = "new" /\ Owner[o] = c
      /\ \/ /\ n \in Numbers
            /\ channelCounter' = [channelCounter EXCEPT ![c] = n]
            /\ channels' = [channels EXCEPT ![c][n] = o]
            /\ state' = [state EXCEPT ![o] = "undefined"]
            /\ Writes(c, <<[m |-> "open", n |-> n]>>)
            /\ UNCHANGED <<stuck, link, toClient>>
         \/ /\ n = 0
            /\ Down(c)
            /\ UNCHANGED <<stuck, channelCounter, channels>>
         \/ /\ n = -1
            /\ stuck' = TRUE
            /\ UNCHANGED <<link, channelCounter, channels, state, wires>>
      /\ UNCHANGED <<channelMax, closeCalled, tuned, srv, losses>>

CreateObject(c) ==
  /\ \E o \in Objects : Create(c, o)
  /\ UNCHANGED <<defaultExchange, deferred, written>>

\* connection.publish: the default exchange is made first when there is none;
\* publishes are numbered by their calls.
Publish(c) ==
  LET o == defaultExchange[c]
      call == Len(written[c]) + Len(deferred[c]) + 1
  IN  /\ ~stuck /\ link[c] # "new" /\ call <= MaxPublishes
      /\ \/ /\ o = None
            /\ \E made \in Objects :
                 /\ Create(c, made)
                 /\ IF NextId(c) \in Numbers
                    THEN /\ defaultExchange' = [defaultExchange EXCEPT ![c] = made]
                         /\ deferred' = [deferred EXCEPT ![c] = Append(@, call)]
                    ELSE UNCHANGED <<defaultExchange, deferred>>
            /\ UNCHANGED written
         \/ /\ o # None
            /\ IF state[o] = "open"
               THEN written' = [written EXCEPT ![c] = Append(@, call)] /\ UNCHANGED deferred
               ELSE deferred' = [deferred EXCEPT ![c] = Append(@, call)] /\ UNCHANGED written
            /\ UNCHANGED <<channelMax, stuck, link, channelCounter, channels, defaultExchange,
                           state, closeCalled, tuned, srv, wires, losses>>

\* Slip: the number is free at once.
CloseFrees(c, n) ==
  /\ ~stuck /\ channels[c][n] \notin closeCalled \cup {None}
  /\ state' = [state EXCEPT ![channels[c][n]] = "closing"]
  /\ closeCalled' = closeCalled \cup {channels[c][n]}
  /\ channels' = [channels EXCEPT ![c][n] = None]
  /\ Writes(c, <<[m |-> "close", n |-> n]>>)
  /\ UNCHANGED <<channelMax, stuck, link, channelCounter, defaultExchange, deferred, written,
                 tuned, srv, toClient, losses>>

\* close() of the exchange or queue on channel n.
Close(c, n) ==
  /\ ~stuck /\ channels[c][n] \notin closeCalled \cup {None}
  /\ state' = [state EXCEPT ![channels[c][n]] = "closing"]
  /\ closeCalled' = closeCalled \cup {channels[c][n]}
  /\ Writes(c, <<[m |-> "close", n |-> n]>>)
  /\ UNCHANGED <<channelMax, stuck, link, channelCounter, channels, defaultExchange,
                 deferred, written, tuned, srv, toClient, losses>>

-------------------------------------------------------------------------------
(* Methods of the server reach the object whose number they carry.         *)

Arrives(c, m) == ~stuck /\ toClient[c] # <<>> /\ Head(toClient[c]).m = m

Receiver(c) == channels[c][Head(toClient[c]).n]

Consumed(c) == toClient' = [toClient EXCEPT ![c] = Tail(@)]

\* Slip: on('open') instead of once('open').
OnOpenOkListensOn(c) ==
  LET o == Receiver(c)
  IN  /\ Arrives(c, "openOk") /\ Consumed(c)
      /\ state' = IF o = None THEN state ELSE [state EXCEPT ![o] = "open"]
      /\ IF o # None /\ o = defaultExchange[c]
         THEN written' = [written EXCEPT ![c] = @ \o deferred[c]]
         ELSE UNCHANGED written
      /\ UNCHANGED <<channelMax, stuck, link, channelCounter, channels, defaultExchange,
                     deferred, closeCalled, tuned, srv, toServer, losses>>

\* The exchange or queue opens; the default exchange, which is not declared,
\* runs the publishes that waited for 'open'.
OnOpenOk(c) ==
  LET o == Receiver(c)
  IN  /\ Arrives(c, "openOk") /\ Consumed(c)
      /\ state' = IF o = None THEN state ELSE [state EXCEPT ![o] = "open"]
      /\ IF o # None /\ o = defaultExchange[c]
         THEN /\ written' = [written EXCEPT ![c] = @ \o deferred[c]]
              /\ deferred' = [deferred EXCEPT ![c] = <<>>]
         ELSE UNCHANGED <<deferred, written>>
      /\ UNCHANGED <<channelMax, stuck, link, channelCounter, channels, defaultExchange,
                     closeCalled, tuned, srv, toServer, losses>>

\* channelClose: answered, and the number stays taken.
OnChannelClose(c) ==
  LET n == Head(toClient[c]).n
  IN  /\ Arrives(c, "close") /\ Consumed(c)
      /\ IF channels[c][n] = None THEN UNCHANGED <<state, toServer>>
         ELSE /\ state' = [state EXCEPT ![channels[c][n]] = "closed"]
              /\ Writes(c, <<[m |-> "closeOk", n |-> n]>>)
      /\ UNCHANGED <<channelMax, stuck, link, channelCounter, channels, defaultExchange,
                     deferred, written, closeCalled, tuned, srv, losses>>

\* channelCloseOk: the number is free again.
OnChannelCloseOk(c) ==
  LET o == Receiver(c)
  IN  /\ Arrives(c, "closeOk") /\ Consumed(c)
      /\ channels' = [channels EXCEPT ![c][Head(toClient[c]).n] = None]
      /\ state' = IF o = None THEN state ELSE [state EXCEPT ![o] = "closed"]
      /\ UNCHANGED <<channelMax, stuck, link, channelCounter, defaultExchange, deferred,
                     written, closeCalled, tuned, srv, toServer, losses>>

-------------------------------------------------------------------------------
(* Connections come and go.                                                *)

\* connectionTune and 'ready': every tracked channel is opened on the new
\* connection, numbers ascending.
Connected(c) ==
  \E limit \in Limits :
    /\ ~stuck /\ link[c] # "up"
    /\ link' = [link EXCEPT ![c] = "up"]
    /\ tuned' = [tuned EXCEPT ![c] = limit]
    /\ channelMax' = IF limit = 0 THEN channelMax ELSE limit
    /\ srv' = [srv EXCEPT ![c] = [n \in Numbers |-> "closed"]]
    /\ toServer' = [toServer EXCEPT ![c] =
         Filter([n \in Numbers |-> [m |-> "open", n |-> n]], [m : {"open"}, n : Tracked(c)])]
    /\ UNCHANGED <<stuck, channelCounter, channels, defaultExchange, deferred, written,
                   state, closeCalled, toClient, losses>>

Lose(c) ==
  /\ ~stuck /\ link[c] = "up" /\ losses < MaxLosses
  /\ losses' = losses + 1
  /\ Down(c)
  /\ UNCHANGED <<channelMax, stuck, channelCounter, channels, defaultExchange, deferred,
                 written, closeCalled, tuned, srv>>

-------------------------------------------------------------------------------
(* The server: one state for each channel number.                          *)

Reads(c, m, from) ==
  /\ toServer[c] # <<>> /\ Head(toServer[c]).m = m
  /\ srv[c][Head(toServer[c]).n] \in from

Turns(c, n, to) ==
  /\ srv' = [srv EXCEPT ![c][n] = to]
  /\ UNCHANGED <<channelMax, stuck, link, channelCounter, channels, defaultExchange, deferred,
                 written, state, closeCalled, tuned, losses>>

Replies(c, m, n) == toClient' = [toClient EXCEPT ![c] = Append(@, [m |-> m, n |-> n])]

Served(c) == toServer' = [toServer EXCEPT ![c] = Tail(@)]

Allowed(c) == tuned[c] = 0 \/ Head(toServer[c]).n <= tuned[c]

\* What fits the state of the channel; one being closed answers nothing else.
SrvServes(c) ==
  LET n == Head(toServer[c]).n
  IN  \/ /\ Reads(c, "open", {"closed"}) /\ Allowed(c)
         /\ Served(c) /\ Turns(c, n, "open") /\ Replies(c, "openOk", n)
      \/ /\ Reads(c, "close", {"open"})
         /\ Served(c) /\ Turns(c, n, "closed") /\ Replies(c, "closeOk", n)
      \/ /\ Reads(c, "close", {"closing"})
         /\ Served(c) /\ Turns(c, n, "closing") /\ Replies(c, "closeOk", n)
      \/ /\ Reads(c, "closeOk", {"closing"})
         /\ Served(c) /\ Turns(c, n, "closed") /\ UNCHANGED toClient

\* A number above the limit, and a close of what it has closed itself, are errors
\* of the connection.
SrvRefuses(c) ==
  /\ ~stuck
  /\ \/ Reads(c, "open", {"closed"}) /\ ~Allowed(c)
     \/ Reads(c, "close", {"closed"})
  /\ Down(c)
  /\ UNCHANGED <<channelMax, stuck, channelCounter, channels, defaultExchange, deferred,
                 written, closeCalled, tuned, srv, losses>>

\* The server closes a channel for an error on it.
SrvCloses(c) ==
  \E n \in Numbers :
    /\ link[c] = "up" /\ srv[c][n] = "open"
    /\ Turns(c, n, "closing") /\ Replies(c, "close", n) /\ UNCHANGED toServer

-------------------------------------------------------------------------------
Init ==
  /\ channelMax = DefaultMax /\ stuck = FALSE /\ losses = 0
  /\ link = [c \in Connections |-> "new"]
  /\ channelCounter = [c \in Connections |-> 0]
  /\ channels = [c \in Connections |-> [n \in Numbers |-> None]]
  /\ defaultExchange = [c \in Connections |-> None]
  /\ deferred = [c \in Connections |-> <<>>] /\ written = deferred
  /\ state = [o \in Objects |-> "new"] /\ closeCalled = {}
  /\ tuned = [c \in Connections |-> 0]
  /\ srv = [c \in Connections |-> [n \in Numbers |-> "closed"]]
  /\ toServer = deferred /\ toClient = deferred

Next ==
  \E c \in Connections :
    \/ CreateObject(c) \/ Publish(c) \/ \E n \in Numbers : Close(c, n)
    \/ OnOpenOk(c) \/ OnChannelClose(c) \/ OnChannelCloseOk(c)
    \/ Connected(c) \/ Lose(c)
    \/ SrvServes(c) \/ SrvRefuses(c) \/ SrvCloses(c)

Spec == Init /\ [][Next]_vars

-------------------------------------------------------------------------------
(* Properties.                                                             *)

\* Every variable keeps its type, and an exchange or queue keeps the one number it
\* has until it is closed.
TypeOK ==
  /\ channelMax \in Numbers /\ stuck \in BOOLEAN
  /\ \A c \in Connections :
       /\ link[c] \in {"new", "up", "down"} /\ channelCounter[c] \in Numbers \cup {0}
       /\ Range(channels[c]) \subseteq Objects \cup {None}
       /\ \A n \in Numbers : srv[c][n] \in {"closed", "open", "closing"}
       /\ tuned[c] \in Limits \cup {0}
  /\ \A o \in Objects : Cardinality({p \in Connections \X Numbers : channels[p[1]][p[2]] = o}) <= 1
  /\ state \in [Objects -> {"new", "undefined", "open", "closing", "closed"}]
  /\ \A o \in Objects :
       state[o] \notin {"new", "closed"} => o \in Range(channels[Owner[o]])

\* The methods on a wire that carry the number.
Of(n, wire) == Filter(wire, [m : {"open", "openOk", "close", "closeOk"}, n : {n}])

FreeIsQuiet ==
  \A c \in Connections : \A n \in Numbers \ Tracked(c) : link[c] = "up" =>
    /\ Of(n, toClient[c]) = <<>>
    /\ Of(n, toServer[c]) = IF srv[c][n] = "closing" THEN <<[m |-> "closeOk", n |-> n]>> ELSE <<>>
    /\ srv[c][n] # "open"

NeverOpenedTwice ==
  \A c \in Connections : \A n \in Numbers : link[c] = "up" =>
    LET wire == Of(n, toServer[c])
        Closed(i) == \E k \in 1 .. i : wire[k].m # "open"
    IN  \A i \in DOMAIN wire : wire[i].m = "open" =>
          /\ srv[c][n] = "closed" \/ Closed(i)
          /\ i > 1 => wire[i - 1].m # "open"

\* A channel number has one user at a time. One that may be given to the next
\* exchange or queue is out of use on both sides: nothing on the wire to the
\* client carries it, which would reach the next owner as its own, and the server
\* has closed it or will when it reads the close-ok on its way, closes that
\* crossed and connections that were lost included. And it is opened at most once
\* between two closes, whoever owns it and however the counter wrapped around
\* (connection.js:880-896, 264-266; channel.js:78-95; exchange.js:138-151).
NumbersAreExclusive == FreeIsQuiet /\ NeverOpenedTwice

\* generateChannelId finds a free number within channelMax whenever there is one,
\* wherever the counter stands: also above a channelMax that was lowered since
\* (connection.js:880-896).
FindsFreeNumber ==
  \A c \in Connections :
    LET free == (1 .. channelMax) \ Tracked(c)
    IN  IF free = {} THEN NextId(c) \in {0, -1} ELSE NextId(c) \in free

\* Each call of connection.publish is written once, in the order of the calls,
\* or still waits for the default exchange to open, through any number of
\* reconnections (connection.js:355-368).
PublishedInOrder ==
  \A c \in Connections :
    written[c] \o deferred[c] = [i \in 1 .. Len(written[c]) + Len(deferred[c]) |-> i]

\* connection.js:889, "after a full loop throw an Error": the search for a free
\* number comes to an end.
FullLoopEnds == ~stuck
===============================================================================
