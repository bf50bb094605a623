---------------------------- MODULE ConnectionProofs ----------------------------
(***************************************************************************)
(* Proofs about Connection: at most one attempt to reconnect is under way, *)
(* and it waits as long as the documentation says, whatever goes wrong,    *)
(* how often, and in whatever order; and open channels are open at the     *)
(* server, unless a misfortune leaves a socket half alive behind.          *)
(***************************************************************************)
EXTENDS Connection, SeqFilterProofs

-----------------------------------------------------------------------------
(* The pause before an attempt *)

\* The pause that follows one of p.
After(exponential, n, p) ==
  IF n <= 1 \/ ~exponential THEN BackoffTime
  ELSE IF 2 * p > Limit THEN Limit ELSE 2 * p

\* The pauses are what their recursive definition says they are.
LEMMA PauseUnfolds ==
  ASSUME NEW e
  PROVE  \A n \in Nat : Pause(e)[n] = After(e, n, Pause(e)[n - 1])
<1> DEFINE Step(h, n) == After(e, n, h[n - 1])
           Upto(h, n) == h = [i \in 0 .. n |-> Step(h, i)]
           Good == {n \in Nat : \E f : Upto(f, n)}
<1>0. ASSUME NEW h, NEW n \in Nat, Upto(h, n), NEW i \in 0 .. n PROVE h[i] = Step(h, i)
  <2> HIDE DEF Step
  <2> QED BY <1>0
<1>1. 0 \in Good
  <2> DEFINE z == [i \in 0 .. 0 |-> BackoffTime]
  <2>1. ASSUME NEW i \in 0 .. 0 PROVE Step(z, i) = BackoffTime
    BY DEF After
  <2> HIDE DEF Step
  <2>2. Upto(z, 0)
    BY <2>1
  <2> HIDE DEF Upto
  <2> QED
    BY <2>2
<1>2. ASSUME NEW n \in Nat, n \in Good PROVE n + 1 \in Good
  <2>1. PICK f : Upto(f, n)
    BY <1>2
  <2> DEFINE g == [i \in 0 .. n + 1 |-> Step(f, i)]
  <2>2. ASSUME NEW i \in 0 .. n PROVE g[i] = f[i]
    <3> HIDE DEF Step
    <3> QED BY <2>1
  <2>3. ASSUME NEW i \in 0 .. n + 1 PROVE Step(f, i) = Step(g, i)
    <3> HIDE DEF g
    <3>1. CASE i <= 1
      BY <3>1 DEF After
    <3>2. CASE ~(i <= 1)
      <4>1. g[i - 1] = f[i - 1]
        BY <2>2, <3>2
      <4> QED
        BY <4>1
    <3> QED
      BY <3>1, <3>2
  <2>4. Upto(g, n + 1)
    <3> HIDE DEF Step
    <3> QED BY <2>3
  <2> HIDE DEF g, Step, Upto
  <2> QED
    BY <2>4
<1>3. \A n \in Nat : n \in Good
  <2> HIDE DEF Good
  <2> QED BY <1>1, <1>2, NatInSet
<1> DEFINE A(n) == CHOOSE f : Upto(f, n)
<1>4. ASSUME NEW n \in Nat PROVE Upto(A(n), n)
  <2> HIDE DEF Upto
  <2> QED BY <1>3
<1> HIDE DEF A
<1>5. ASSUME NEW n \in Nat, NEW i \in 0 .. n PROVE A(n)[i] = Step(A(n), i)
  <2> HIDE DEF Step, Upto
  <2> QED BY <1>0, <1>4
<1> DEFINE Same == {i \in Nat : \A n \in Nat : i <= n => A(n)[i] = A(i)[i]}
<1>6. 0 \in Same
  <2>1. ASSUME NEW n \in Nat PROVE A(n)[0] = BackoffTime
    <3>1. A(n)[0] = Step(A(n), 0)
      <4> HIDE DEF Step
      <4> QED BY <1>5
    <3> QED
      BY <3>1 DEF After
  <2> QED
    BY <2>1
<1>7. ASSUME NEW i \in Nat, i \in Same PROVE i + 1 \in Same
  <2> SUFFICES ASSUME NEW n \in Nat, i + 1 <= n PROVE A(n)[i + 1] = A(i + 1)[i + 1]
    OBVIOUS
  <2>1. A(n)[i + 1] = Step(A(n), i + 1) /\ A(i + 1)[i + 1] = Step(A(i + 1), i + 1)
    <3> HIDE DEF Step
    <3> QED BY <1>5
  <2>2. A(n)[i] = A(i)[i] /\ A(i + 1)[i] = A(i)[i] /\ (i + 1) - 1 = i
    BY <1>7
  <2> QED
    BY <2>1, <2>2
<1>8. \A i \in Nat : i \in Same
  <2> HIDE DEF Same
  <2> QED BY <1>6, <1>7, NatInSet
<1> DEFINE g == [n \in Nat |-> A(n)[n]]
<1>9. ASSUME NEW n \in Nat PROVE A(n)[n] = Step(g, n)
  <2>1. A(n)[n] = Step(A(n), n)
    <3> HIDE DEF Step
    <3> QED BY <1>5
  <2>2. CASE n <= 1
    BY <2>1, <2>2 DEF After
  <2>3. CASE ~(n <= 1)
    <3>1. n - 1 \in Nat /\ n - 1 <= n
      BY <2>3
    <3>2. A(n)[n - 1] = g[n - 1]
      BY <1>8, <3>1
    <3> QED
      BY <2>1, <3>2
  <2> QED
    BY <2>2, <2>3
<1> DEFINE Is(p) == p = [n \in Nat |-> Step(p, n)]
<1>10. Is(g)
  <2> HIDE DEF Step
  <2> QED BY <1>9
<1>11. Pause(e) = CHOOSE p : Is(p)
  BY DEF Pause, After
<1>12. Is(Pause(e))
  <2> HIDE DEF Is, g
  <2> QED BY <1>10, <1>11
<1> HIDE DEF Step
<1>13. \A n \in Nat : Pause(e)[n] = Step(Pause(e), n)
  BY <1>12
<1> QED
  BY <1>13 DEF Step

\* A pause is a number of milliseconds, never 0.
LEMMA PauseIsPositive ==
  ASSUME NEW e
  PROVE  \A n \in Nat : Pause(e)[n] \in Nat \ {0}
<1> DEFINE G == {n \in Nat : Pause(e)[n] \in Nat \ {0}}
<1>0. BackoffTime \in Nat \ {0} /\ Limit \in Nat \ {0}
  BY OptionsAssumption
<1>1. 0 \in G
  BY <1>0, PauseUnfolds DEF After
<1>2. ASSUME NEW n \in Nat, n \in G PROVE n + 1 \in G
  <2>1. Pause(e)[n + 1] = After(e, n + 1, Pause(e)[(n + 1) - 1]) /\ (n + 1) - 1 = n
    BY PauseUnfolds
  <2> DEFINE p == Pause(e)[n]
  <2>2. p \in Nat \ {0} /\ Pause(e)[n + 1] = After(e, n + 1, p)
    BY <1>2, <2>1
  <2> HIDE DEF p
  <2>3. After(e, n + 1, p) \in Nat \ {0}
    BY <1>0, <2>2 DEF After
  <2> QED
    BY <2>2, <2>3
<1> HIDE DEF G
<1>3. \A n \in Nat : n \in G
  BY <1>1, <1>2, NatInSet
<1> QED
  BY <1>3 DEF G

-----------------------------------------------------------------------------
(* The inductive invariant *)

\* The pause in use is the one for the number of attempts since the last 'ready'.
Paced ==
  backoff = IF failures = 0 THEN 0 ELSE Pause(options.exponential)[failures]

IInv == TypeOK /\ OneAtATime /\ Paced

\* What every step does: it keeps the invariant and the options, and sets a timer
\* only together with a count of the attempts.
Kept == /\ IInv'
        /\ options' = options
        /\ timers' > timers => failures' # 0

-----------------------------------------------------------------------------
(* What is done to the sockets *)

Quieted(S, s) == S[s].phase = "dead" \/ S[s].ended

\* R are sockets, and those that were dead or ended in S are so in R.
Keeps(S, R) ==
  /\ R \in [1..MaxSockets -> Socket]
  /\ \A s \in 1..MaxSockets : Quieted(S, s) => Quieted(R, s)

\* The numbers of sockets, and their wires.
LEMMA Wires ==
  ASSUME NEW S \in [1..MaxSockets -> Socket], NEW s \in 1..MaxSockets
  PROVE  /\ S[s] \in Socket
         /\ S[s].toServer \in Seq(Message) /\ S[s].toClient \in Seq(Message)
         /\ S[s].opened \in SUBSET Channels
BY DEF Socket

\* Changing one socket.
LEMMA OneChanged ==
  ASSUME NEW S \in [1..MaxSockets -> Socket], NEW s \in 1..MaxSockets, NEW r \in Socket,
         Quieted(S, s) => r.phase = "dead" \/ r.ended
  PROVE  Keeps(S, [S EXCEPT ![s] = r])
BY DEF Keeps, Quieted

\* Methods of the control channel are messages.
LEMMA Methods ==
  ASSUME NEW m \in {"header", "startOk", "open", "close",
                    "start", "badStart", "tune", "openOk", "closeOk", "unknown"}
  PROVE  Method(m) \in Seq(Message)
BY DEF Method, Message

\* So are the channelOpen methods.
LEMMA OpensType ==
  ASSUME NEW C
  PROVE  Opens(C) \in Seq(Message)
<1> DEFINE all == [c \in Channels |-> [m |-> "channelOpen", c |-> c]]
<1>1. all \in Seq(Message)
  <2>1. ChannelCount \in Nat /\ Channels = 1..ChannelCount
    BY ChannelsAssumption DEF Channels
  <2>2. \A c \in Channels : all[c] \in Message
    BY DEF Message
  <2> QED
    BY <2>1, <2>2
<1> HIDE DEF all
<1>2. Filter(all, [m : {"channelOpen"}, c : C]) \in Seq(Message)
  BY <1>1, FilterType
<1> QED
  BY <1>2 DEF Opens, all

\* Writing methods on the current socket.
LEMMA WriteKeeps ==
  ASSUME cur \in 1..MaxSockets, NEW S \in [1..MaxSockets -> Socket], NEW w \in Seq(Message)
  PROVE  Keeps(S, Write(S, w))
<1>1. S[cur].toServer \o w \in Seq(Message)
  <2> DEFINE t == S[cur].toServer
  <2>1. t \in Seq(Message)
    BY Wires
  <2> HIDE DEF t
  <2>2. t \o w \in Seq(Message)
    BY <2>1
  <2> QED
    BY <2>2 DEF t
<1>2. CASE Writable(S)
  <2> DEFINE r == [S[cur] EXCEPT !.toServer = @ \o w]
  <2>1. r \in Socket /\ r.phase = S[cur].phase /\ r.ended = S[cur].ended
    BY <1>1 DEF Socket
  <2>2. Write(S, w) = [S EXCEPT ![cur] = r]
    BY <1>2 DEF Write
  <2> HIDE DEF r
  <2> QED
    BY <2>1, <2>2, OneChanged DEF Quieted
<1>3. CASE ~Writable(S)
  <2> DEFINE r == [S[cur] EXCEPT !.refused = TRUE]
  <2>1. r \in Socket /\ r.phase = S[cur].phase /\ r.ended = S[cur].ended
    BY DEF Socket
  <2>2. Write(S, w) = [S EXCEPT ![cur] = r]
    BY <1>3 DEF Write
  <2> HIDE DEF r
  <2> QED
    BY <2>1, <2>2, OneChanged DEF Quieted
<1> QED
  BY <1>2, <1>3

\* Taking the next method off a wire.
LEMMA TakenKeeps ==
  ASSUME NEW S \in [1..MaxSockets -> Socket], NEW s \in 1..MaxSockets, S[s].toClient # <<>>
  PROVE  Keeps(S, Taken(S, s))
<1> DEFINE r == [S[s] EXCEPT !.toClient = Tail(@)]
<1>1. Tail(S[s].toClient) \in Seq(Message)
  <2> DEFINE t == S[s].toClient
  <2>1. t \in Seq(Message) /\ t # <<>>
    BY Wires
  <2> HIDE DEF t
  <2>2. Tail(t) \in Seq(Message)
    BY <2>1
  <2> QED
    BY <2>2 DEF t
<1>2. r \in Socket /\ r.phase = S[s].phase /\ r.ended = S[s].ended
  BY <1>1 DEF Socket
<1>3. Taken(S, s) = [S EXCEPT ![s] = r]
  BY DEF Taken
<1> HIDE DEF r
<1> QED
  BY <1>2, <1>3, OneChanged DEF Quieted

\* Ending the current socket.
LEMMA EndKeeps ==
  ASSUME cur \in 1..MaxSockets, NEW S \in [1..MaxSockets -> Socket]
  PROVE  Keeps(S, End(S)) /\ End(S)[cur].ended
<1> DEFINE r == [S[cur] EXCEPT !.ended = TRUE]
<1>1. r \in Socket /\ r.ended
  BY DEF Socket
<1>2. End(S) = [S EXCEPT ![cur] = r]
  BY DEF End
<1> HIDE DEF r
<1> QED
  BY <1>1, <1>2, OneChanged

\* A socket is destroyed.
LEMMA DeadKeeps ==
  ASSUME NEW S \in [1..MaxSockets -> Socket], NEW s \in 1..MaxSockets
  PROVE  Keeps(S, Dead(S, s))
<1> DEFINE r == [S[s] EXCEPT !.phase = "dead", !.toServer = <<>>,
                             !.toClient = <<>>, !.srv = "gone", !.opened = {}]
<1>1. r \in Socket /\ r.phase = "dead"
  <2>1. <<>> \in Seq(Message) /\ {} \in SUBSET Channels
    OBVIOUS
  <2>2. S[s] \in Socket
    OBVIOUS
  <2> QED
    BY <2>1, <2>2 DEF Socket
<1>2. Dead(S, s) = [S EXCEPT ![s] = r]
  BY DEF Dead
<1> HIDE DEF r
<1> QED
  BY <1>1, <1>2, OneChanged

\* One after the other.
LEMMA KeepsOn ==
  ASSUME NEW S, NEW R, NEW T, Keeps(S, R), Keeps(R, T)
  PROVE  Keeps(S, T)
BY DEF Keeps

\* Sockets that are kept are sockets.
LEMMA KeptType ==
  ASSUME NEW S, NEW R, Keeps(S, R)
  PROVE  R \in [1..MaxSockets -> Socket]
BY DEF Keeps

-----------------------------------------------------------------------------
(* What the steps have in common *)

\* The parts of the invariant that are about the timer, and the types of the others.
Timed == /\ scheduled \in BOOLEAN /\ timers \in Nat /\ backoff \in Nat /\ failures \in Nat
         /\ OneAttempt
         /\ Paced

Typed == /\ {parser, readyEmitted, inbound, heartbeat} \subseteq BOOLEAN
         /\ channels \in [Channels -> {"none", "undefined", "open", "closed"}]
         /\ readyCallback \subseteq Channels
         /\ losses \in 0..MaxLosses

\* The invariant, by its parts.
LEMMA Parts ==
  ASSUME IInv
  PROVE  /\ Timed /\ Typed
         /\ sockets \in [1..MaxSockets -> Socket] /\ cur \in 1..MaxSockets
         /\ options \in OptionRecords
         /\ \A s \in 1..(cur - 1) : Quieted(sockets, s)
         /\ Keeps(sockets, sockets)
BY DEF IInv, TypeOK, OneAtATime, OneSocket, Timed, Typed, Keeps, Quieted

\* A step on the same socket that does not reset the backoff is put together from its parts.
LEMMA StepKept ==
  ASSUME IInv, Keeps(sockets, sockets'), UNCHANGED <<options, cur>>,
         Timed', Typed', timers' > timers => failures' # 0
  PROVE  Kept
<1>1. options' \in OptionRecords /\ cur' \in 1..MaxSockets
  BY Parts
<1>2. sockets' \in [1..MaxSockets -> Socket]
  BY KeptType
<1>3. OneSocket'
  BY Parts, BoundsAssumption DEF OneSocket, Keeps, Quieted
<1>4. TypeOK'
  BY <1>1, <1>2 DEF TypeOK, Timed, Typed
<1> QED
  BY <1>3, <1>4 DEF Kept, IInv, OneAtATime, Timed

\* Nothing happens to the timer.
LEMMA SameTiming ==
  ASSUME IInv, UNCHANGED <<options, timing>>
  PROVE  Timed' /\ (timers' > timers => failures' # 0)
<1>1. Timed
  BY Parts
<1> QED
  BY <1>1 DEF Timed, timing, OneAttempt, Paced

\* The next pause is the one documented for one more attempt.
LEMMA NextPause ==
  ASSUME IInv
  PROVE  NextBackoff = Pause(options.exponential)[failures + 1] /\ NextBackoff \in Nat
<1> DEFINE e == options.exponential
           p == Pause(e)[failures]
<1>0. failures \in Nat /\ failures + 1 \in Nat /\ (failures + 1) - 1 = failures
  BY Parts DEF Timed
<1>1. Pause(e)[failures + 1] = After(e, failures + 1, p) /\ Pause(e)[failures + 1] \in Nat \ {0}
  BY <1>0, PauseUnfolds, PauseIsPositive
<1>2. p \in Nat \ {0} /\ p = After(e, failures, Pause(e)[failures - 1])
  BY <1>0, PauseUnfolds, PauseIsPositive
<1>3. backoff = IF failures = 0 THEN 0 ELSE p
  BY Parts DEF Timed, Paced
<1>5. options.exponential \in BOOLEAN
  BY Parts DEF OptionRecords
<1>4. NextBackoff = After(options.exponential, failures + 1, p)
  <2> HIDE DEF p
  <2>1. CASE failures = 0
    BY <1>3, <2>1 DEF NextBackoff, After
  <2>2. CASE failures # 0 /\ options.exponential
    <3>1. backoff = p /\ p # 0
      BY <1>2, <1>3, <2>2
    <3>2. ~(failures + 1 <= 1)
      BY <1>0, <2>2
    <3> QED
      BY <2>2, <3>1, <3>2 DEF NextBackoff, After
  <2>3. CASE failures # 0 /\ ~options.exponential
    <3>1. p = BackoffTime
      BY <1>2, <2>3 DEF After
    <3> QED
      BY <1>2, <1>3, <2>3, <3>1 DEF NextBackoff, After
  <2> QED
    BY <2>1, <2>2, <2>3
<1> QED
  BY <1>1, <1>4

\* The listeners of 'error': a timer is set only if none is, and the pause it is
\* set to is counted.
LEMMA EmitErrorKeeps ==
  ASSUME IInv, NEW S, Keeps(sockets, S), EmitError(S), UNCHANGED <<options, cur>>
  PROVE  /\ Keeps(sockets, sockets')
         /\ parser' \in BOOLEAN
         /\ channels' \in [Channels -> {"none", "undefined", "open", "closed"}]
         /\ Timed' /\ (timers' > timers => failures' # 0)
<1>1. CASE scheduled
  <2>1. sockets' = S /\ UNCHANGED <<parser, channels, timing>>
    BY <1>1 DEF EmitError
  <2>2. Timed' /\ (timers' > timers => failures' # 0)
    BY <2>1, SameTiming
  <2> QED
    BY <2>1, <2>2, Parts DEF Typed
<1>2. CASE ~scheduled
  <2>1. /\ scheduled' = TRUE /\ sockets' = End(S) /\ parser' = FALSE /\ CloseChannels
        /\ IF options.reconnect
             THEN /\ backoff' = NextBackoff
                  /\ timers' = timers + 1
                  /\ failures' = failures + 1
             ELSE UNCHANGED <<backoff, timers, failures>>
    BY <1>2 DEF EmitError
  <2>2. Keeps(sockets, sockets')
    <3>1. S \in [1..MaxSockets -> Socket]
      BY KeptType
    <3> QED
      BY <2>1, <3>1, Parts, EndKeeps, KeepsOn
  <2>3. channels' \in [Channels -> {"none", "undefined", "open", "closed"}]
    BY <2>1 DEF CloseChannels
  <2>4. CASE options.reconnect
    <3>1. /\ timers \in Nat /\ failures \in Nat /\ timers = 0 /\ backoff' \in Nat
          /\ timers' = 1 /\ failures' = failures + 1
      BY <1>2, <2>1, <2>4, Parts, NextPause DEF Timed, OneAttempt
    <3>2. backoff' = Pause(options'.exponential)[failures']
      BY <2>1, <2>4, NextPause
    <3>3. Paced' /\ OneAttempt'
      BY <2>1, <2>4, <3>1, <3>2 DEF Paced, OneAttempt
    <3>4. Timed' /\ failures' # 0
      <4>1. scheduled' \in BOOLEAN /\ timers' \in Nat /\ failures' \in Nat /\ failures' # 0
        BY <2>1, <3>1
      <4> QED
        BY <3>1, <3>3, <4>1 DEF Timed
    <3> QED
      BY <2>1, <2>2, <2>3, <3>4
  <2>5. CASE ~options.reconnect
    <3>1. UNCHANGED <<backoff, timers, failures>> /\ Timed
      BY <2>1, <2>5, Parts
    <3>2. Timed' /\ (timers' > timers => failures' # 0)
      BY <1>2, <2>1, <2>5, <3>1 DEF Timed, OneAttempt, Paced
    <3> QED
      BY <2>1, <2>2, <2>3, <3>2
  <2> QED
    BY <2>4, <2>5
<1> QED
  BY <1>1, <1>2, Parts DEF Timed

\* The heartbeat timer, and the misfortunes.
LEMMA ClearInboundType ==
  ASSUME IInv, ClearInbound
  PROVE  inbound' \in BOOLEAN
BY Parts DEF ClearInbound, Typed

\* A misfortune is counted.
LEMMA MisfortuneType ==
  ASSUME IInv, NEW k, Misfortune(k)
  PROVE  losses' \in 0..MaxLosses
BY Parts, BoundsAssumption DEF Misfortune, Typed

-----------------------------------------------------------------------------
(* The steps *)

\* exchange() and queue().
LEMMA CreateChannelKeeps ==
  ASSUME IInv, NEW c \in Channels, CreateChannel(c)
  PROVE  Kept
<1>1. Keeps(sockets, sockets')
  BY Parts, OpensType, WriteKeeps DEF CreateChannel
<1>2. Typed'
  <2>1. Typed
    BY Parts
  <2> QED
    BY <2>1 DEF CreateChannel, sensing, Typed
<1>3. UNCHANGED <<options, cur, timing>>
  BY DEF CreateChannel
<1> QED
  BY <1>1, <1>2, <1>3, SameTiming, StepKept

\* disconnect().
LEMMA DisconnectKeeps ==
  ASSUME IInv, Disconnect
  PROVE  Kept
<1>1. Keeps(sockets, sockets')
  BY Parts, Methods, WriteKeeps DEF Disconnect
<1>2. Typed'
  <2>1. Typed /\ losses' \in 0..MaxLosses
    BY Parts, MisfortuneType DEF Disconnect
  <2> QED
    BY <2>1 DEF Disconnect, sensing, Typed
<1>3. UNCHANGED <<options, cur, timing>>
  BY DEF Disconnect
<1> QED
  BY <1>1, <1>2, <1>3, SameTiming, StepKept

\* end().
LEMMA EndConnectionKeeps ==
  ASSUME IInv, EndConnection
  PROVE  Kept
<1>1. Keeps(sockets, sockets')
  BY Parts, EndKeeps DEF EndConnection
<1>2. Typed'
  <2>1. Typed /\ losses' \in 0..MaxLosses
    BY Parts, MisfortuneType DEF EndConnection
  <2> QED
    BY <2>1 DEF EndConnection, Typed
<1>3. UNCHANGED <<options, cur, timing>>
  BY DEF EndConnection
<1> QED
  BY <1>1, <1>2, <1>3, SameTiming, StepKept

\* A socket is superseded: it was ended first.
LEMMA ReopenKeeps ==
  ASSUME IInv, Reopen, UNCHANGED options, Timed', timers' > timers => failures' # 0,
         UNCHANGED <<parser, readyEmitted, inbound, heartbeat, readyCallback>>,
         losses' \in 0..MaxLosses
  PROVE  Kept
<1> DEFINE S == End(sockets)
<1>1. S \in [1..MaxSockets -> Socket] /\ Keeps(sockets, S) /\ Quieted(S, cur)
  BY Parts, EndKeeps, KeptType DEF Quieted
<1>2. /\ cur' = cur + 1 /\ cur < MaxSockets /\ CloseChannels
      /\ sockets' = [S EXCEPT ![cur + 1] = NewSocket]
  BY DEF Reopen
<1> HIDE DEF S
<1>3. NewSocket \in Socket
  <2>1. Method("header") \in Seq(Message) /\ <<>> \in Seq(Message) /\ {} \in SUBSET Channels
    BY Methods
  <2> QED
    BY <2>1 DEF NewSocket, NoSocket, Socket
<1>4. cur \in Nat /\ cur + 1 \in 1..MaxSockets
  BY <1>2, Parts, BoundsAssumption
<1>5. sockets' \in [1..MaxSockets -> Socket]
  BY <1>1, <1>2, <1>3
<1>6. OneSocket'
  <2> SUFFICES ASSUME NEW s \in 1..(cur' - 1) PROVE Quieted(sockets', s)
    BY DEF OneSocket, Quieted
  <2>1. s \in 1..MaxSockets /\ s # cur + 1 /\ (s = cur \/ s \in 1..(cur - 1))
    BY <1>2, <1>4, BoundsAssumption
  <2>2. Quieted(S, s)
    BY <1>1, <2>1, Parts DEF Keeps
  <2> QED
    BY <1>1, <1>2, <2>1, <2>2 DEF Quieted
<1>7. Typed'
  <2>1. Typed
    BY Parts
  <2>2. channels' \in [Channels -> {"none", "undefined", "open", "closed"}]
    BY <1>2 DEF CloseChannels
  <2> QED
    BY <2>1, <2>2 DEF Typed
<1>8. options' \in OptionRecords /\ cur' \in 1..MaxSockets
  BY <1>2, <1>4, Parts
<1> QED
  BY <1>5, <1>6, <1>7, <1>8 DEF Kept, IInv, TypeOK, OneAtATime, Timed, Typed

\* reconnect().
LEMMA UserReconnectKeeps ==
  ASSUME IInv, UserReconnect
  PROVE  Kept
<1>1. UNCHANGED <<options, sensing, timing, readyCallback>> /\ Reopen /\ losses' \in 0..MaxLosses
  BY MisfortuneType DEF UserReconnect
<1> QED
  BY <1>1, SameTiming, ReopenKeeps DEF sensing

\* The timer that fires was the only one, and the flag is cleared with it.
LEMMA TimerFiresKeeps ==
  ASSUME IInv, TimerFires
  PROVE  Kept
<1>1. /\ timers > 0 /\ timers' = timers - 1 /\ scheduled' = FALSE /\ Reopen
      /\ UNCHANGED <<options, parser, readyEmitted, inbound, heartbeat, backoff, failures,
                     readyCallback, losses>>
  BY DEF TimerFires, sensing
<1>2. Timed /\ losses \in 0..MaxLosses
  BY Parts DEF Typed
<1>3. timers = 1
  BY <1>1, <1>2 DEF Timed, OneAttempt
<1>4. Timed' /\ ~(timers' > timers)
  <2>1. timers' = 0 /\ scheduled' = FALSE /\ ~(timers' > timers)
    BY <1>1, <1>3
  <2>2. OneAttempt'
    BY <2>1 DEF OneAttempt
  <2>3. Paced' /\ backoff' \in Nat /\ failures' \in Nat
    BY <1>1, <1>2 DEF Timed, Paced
  <2> QED
    BY <2>1, <2>2, <2>3 DEF Timed
<1> QED
  BY <1>1, <1>2, <1>4, ReopenKeeps

\* A socket connects.
LEMMA OnConnectKeeps ==
  ASSUME IInv, NEW s \in 1..MaxSockets, OnConnect(s)
  PROVE  Kept
<1>1. Keeps(sockets, sockets')
  <2> DEFINE r == [sockets[s] EXCEPT !.phase = "open"]
  <2>1. sockets[s].phase = "connecting" /\ sockets[s] \in Socket /\ sockets' = [sockets EXCEPT ![s] = r]
    BY Parts DEF OnConnect
  <2>2. r \in Socket /\ r.ended = sockets[s].ended
    BY <2>1 DEF Socket
  <2> HIDE DEF r
  <2> QED
    BY <2>1, <2>2, Parts, OneChanged DEF Quieted
<1>2. Typed'
  <2>1. Typed
    BY Parts
  <2> QED
    BY <2>1 DEF OnConnect, Typed
<1>3. UNCHANGED <<options, cur, timing>>
  BY DEF OnConnect
<1> QED
  BY <1>1, <1>2, <1>3, SameTiming, StepKept

\* An error of a socket, of which the other handlers make one, too.
LEMMA ErrorStep ==
  ASSUME IInv, NEW S, Keeps(sockets, S), EmitError(S), inbound' \in BOOLEAN,
         losses' \in 0..MaxLosses,
         UNCHANGED <<options, cur, readyEmitted, heartbeat, readyCallback>>
  PROVE  Kept
<1>1. /\ Keeps(sockets, sockets')
      /\ parser' \in BOOLEAN
      /\ channels' \in [Channels -> {"none", "undefined", "open", "closed"}]
      /\ Timed' /\ (timers' > timers => failures' # 0)
  BY EmitErrorKeeps
<1>2. Typed'
  <2>1. Typed
    BY Parts
  <2> QED
    BY <1>1, <2>1 DEF Typed
<1> QED
  BY <1>1, <1>2, StepKept

\* A step that does not touch the timer.
LEMMA CalmStep ==
  ASSUME IInv, Keeps(sockets, sockets'), Typed', UNCHANGED <<options, cur, timing>>
  PROVE  Kept
BY SameTiming, StepKept

\* The 'error' of a socket.
LEMMA OnErrorKeeps ==
  ASSUME IInv, NEW s \in 1..MaxSockets, OnError(s)
  PROVE  Kept
<1>1. Keeps(sockets, Dead(sockets, s))
  BY Parts, DeadKeeps
<1>2. losses' \in 0..MaxLosses
  BY MisfortuneType DEF OnError
<1>3. inbound' \in BOOLEAN
  BY ClearInboundType DEF OnError
<1>4. EmitError(Dead(sockets, s)) /\ UNCHANGED <<options, cur, readyEmitted, heartbeat, readyCallback>>
  BY DEF OnError
<1> HIDE DEF Dead
<1> QED
  BY <1>1, <1>2, <1>3, <1>4, ErrorStep

\* The end of a stream.
LEMMA EndOfStreamKeeps ==
  ASSUME IInv, NEW s \in 1..MaxSockets, EndOfStream(s), losses' \in 0..MaxLosses
  PROVE  Kept
<1>1. Keeps(sockets, Dead(sockets, s))
  BY Parts, DeadKeeps
<1>2. UNCHANGED <<options, cur, readyEmitted, heartbeat, readyCallback>>
  BY DEF EndOfStream
<1>3. CASE readyEmitted
  <2>1. sockets' = Dead(sockets, s) /\ UNCHANGED <<parser, inbound, channels, timing>>
    BY <1>3 DEF EndOfStream
  <2>2. Typed'
    <3>1. Typed
      BY Parts
    <3> QED
      BY <1>2, <2>1, <3>1 DEF Typed
  <2> QED
    BY <1>1, <1>2, <2>1, <2>2, CalmStep
<1>4. CASE ~readyEmitted
  <2>1. ClearInbound /\ EmitError(Dead(sockets, s))
    BY <1>4 DEF EndOfStream
  <2> QED
    BY <1>1, <1>2, <2>1, ClearInboundType, ErrorStep
<1> QED
  BY <1>3, <1>4

\* The 'error' of a write that was refused.
LEMMA WriteAfterEndKeeps ==
  ASSUME IInv, NEW s \in 1..MaxSockets, WriteAfterEnd(s)
  PROVE  Kept
<1> DEFINE r == [sockets[s] EXCEPT !.refused = FALSE]
           S == [sockets EXCEPT ![s].refused = FALSE]
<1>1. Keeps(sockets, S)
  <2>1. sockets[s] \in Socket /\ S = [sockets EXCEPT ![s] = r]
    BY Parts
  <2>2. r \in Socket /\ r.ended = sockets[s].ended /\ r.phase = sockets[s].phase
    BY <2>1 DEF Socket
  <2> HIDE DEF r
  <2> QED
    BY <2>1, <2>2, Parts, OneChanged DEF Quieted
<1>2. /\ ClearInbound /\ EmitError(S)
      /\ UNCHANGED <<options, cur, readyEmitted, heartbeat, readyCallback, losses>>
  BY DEF WriteAfterEnd
<1> HIDE DEF S
<1>3. losses' \in 0..MaxLosses
  BY <1>2, Parts DEF Typed
<1> QED
  BY <1>1, <1>2, <1>3, ClearInboundType, ErrorStep

\* The heartbeat timer fires.
LEMMA HeartbeatLostKeeps ==
  ASSUME IInv, HeartbeatLost
  PROVE  Kept
<1>1. /\ inbound' = FALSE /\ losses' \in 0..MaxLosses
      /\ UNCHANGED <<options, cur, readyEmitted, heartbeat, readyCallback>>
  BY MisfortuneType DEF HeartbeatLost
<1>2. CASE sockets[cur].phase = "open"
  <2>1. EmitError(sockets)
    BY <1>2 DEF HeartbeatLost
  <2> QED
    BY <1>1, <2>1, Parts, ErrorStep
<1>3. CASE sockets[cur].phase # "open"
  <2>1. UNCHANGED <<sockets, parser, channels, timing>>
    BY <1>3 DEF HeartbeatLost
  <2>2. Typed'
    <3>1. Typed
      BY Parts
    <3> QED
      BY <1>1, <2>1, <3>1 DEF Typed
  <2>3. Keeps(sockets, sockets')
    BY <2>1, Parts
  <2> QED
    BY <1>1, <2>1, <2>2, <2>3, CalmStep
<1> QED
  BY <1>2, <1>3

-----------------------------------------------------------------------------
(* The data of a socket *)

\* A method is there to be taken.
LEMMA DataKeeps ==
  ASSUME IInv, NEW s \in 1..MaxSockets, Data(s)
  PROVE  Keeps(sockets, Taken(sockets, s)) /\ Taken(sockets, s) \in [1..MaxSockets -> Socket]
<1>1. Keeps(sockets, Taken(sockets, s))
  <2>1. sockets[s].toClient # <<>>
    BY DEF Data
  <2> QED
    BY <2>1, Parts, TakenKeeps
<1> QED
  BY <1>1, KeptType

\* A method that is answered.
LEMMA AnswerKeeps ==
  ASSUME IInv, NEW s \in 1..MaxSockets, Data(s), NEW w \in Seq(Message)
  PROVE  Keeps(sockets, Write(Taken(sockets, s), w))
<1> DEFINE S == Taken(sockets, s)
<1>1. Keeps(sockets, S) /\ S \in [1..MaxSockets -> Socket]
  BY DataKeeps
<1> HIDE DEF S
<1>2. Keeps(S, Write(S, w))
  BY <1>1, Parts, WriteKeeps
<1>3. Keeps(sockets, Write(S, w))
  BY <1>1, <1>2, KeepsOn
<1> QED
  BY <1>3 DEF S

\* The heartbeat timer is restarted.
LEMMA Rearmed ==
  ASSUME IInv, Rearm
  PROVE  inbound' \in BOOLEAN
BY Parts DEF Rearm, Typed

\* The handshake, step by step.
LEMMA OnStartKeeps ==
  ASSUME IInv, NEW s \in 1..MaxSockets, OnStart(s)
  PROVE  Kept
<1>1. Data(s) /\ sockets' = Write(Taken(sockets, s), Method("startOk"))
  BY DEF OnStart, Receive
<1>2. Keeps(sockets, sockets')
  BY <1>1, AnswerKeeps, Methods
<1>3. Typed'
  <2>1. Typed /\ inbound' \in BOOLEAN
    BY Parts, Rearmed DEF OnStart
  <2> QED
    BY <2>1 DEF OnStart, Typed
<1>4. UNCHANGED <<options, cur, timing>>
  BY DEF OnStart
<1> QED
  BY <1>2, <1>3, <1>4, CalmStep

\* The connection is tuned.
LEMMA OnTuneKeeps ==
  ASSUME IInv, NEW s \in 1..MaxSockets, OnTune(s)
  PROVE  Kept
<1>1. Data(s) /\ sockets' = Write(Taken(sockets, s), Method("open"))
  BY DEF OnTune, Receive
<1>2. Keeps(sockets, sockets')
  BY <1>1, AnswerKeeps, Methods
<1>3. Typed'
  <2>1. Typed /\ inbound' \in BOOLEAN
    BY Parts, Rearmed DEF OnTune
  <2> QED
    BY <2>1 DEF OnTune, Typed
<1>4. UNCHANGED <<options, cur, timing>>
  BY DEF OnTune
<1> QED
  BY <1>2, <1>3, <1>4, CalmStep

\* The connection is ready: the count starts afresh, whatever timer is set.
LEMMA OnOpenOkKeeps ==
  ASSUME IInv, NEW s \in 1..MaxSockets, OnOpenOk(s)
  PROVE  Kept
<1> DEFINE S == Write(Taken(sockets, s), Opens(readyCallback))
           w == IF options.reconnect THEN Opens(Created \cup readyCallback) ELSE <<>>
<1>1. Data(s) /\ sockets' = Write(S, w)
  BY DEF OnOpenOk, Receive
<1>2. Keeps(sockets, S)
  BY <1>1, AnswerKeeps, OpensType
<1>3. w \in Seq(Message)
  BY OpensType
<1> HIDE DEF S, w
<1>4. Keeps(sockets, sockets')
  <2>1. S \in [1..MaxSockets -> Socket]
    BY <1>2, KeptType
  <2>2. Keeps(S, Write(S, w))
    BY <1>3, <2>1, Parts, WriteKeeps
  <2> QED
    BY <1>1, <1>2, <2>2, KeepsOn
<1>5. Typed'
  <2>1. Typed /\ inbound' \in BOOLEAN
    BY Parts, Rearmed DEF OnOpenOk
  <2>2. channels' \in [Channels -> {"none", "undefined", "open", "closed"}]
    BY <2>1 DEF OnOpenOk, Typed
  <2> QED
    BY <2>1, <2>2 DEF OnOpenOk, Typed
<1>6. Timed' /\ ~(timers' > timers)
  <2>1. /\ backoff' = 0 /\ failures' = 0 /\ UNCHANGED <<options, scheduled, timers>>
    BY DEF OnOpenOk
  <2>2. scheduled \in BOOLEAN /\ timers \in Nat /\ OneAttempt
    BY Parts DEF Timed
  <2>3. OneAttempt' /\ ~(timers' > timers)
    BY <2>1, <2>2 DEF OneAttempt
  <2>4. Paced'
    BY <2>1 DEF Paced
  <2> QED
    BY <2>1, <2>2, <2>3, <2>4 DEF Timed
<1>7. UNCHANGED <<options, cur>>
  BY DEF OnOpenOk
<1> QED
  BY <1>4, <1>5, <1>6, <1>7, StepKept

\* A channel is open.
LEMMA OnChannelOpenOkKeeps ==
  ASSUME IInv, NEW s \in 1..MaxSockets, OnChannelOpenOk(s)
  PROVE  Kept
<1>1. Data(s) /\ sockets' = Taken(sockets, s)
  BY DEF OnChannelOpenOk, Receive
<1>2. Keeps(sockets, sockets')
  BY <1>1, DataKeeps
<1>3. Typed'
  <2>1. Typed /\ inbound' \in BOOLEAN
    BY Parts, Rearmed DEF OnChannelOpenOk
  <2>2. channels' \in [Channels -> {"none", "undefined", "open", "closed"}]
    <3>1. PICK c : channels' = [channels EXCEPT ![c] = IF c \in Created THEN "open" ELSE @]
      BY DEF OnChannelOpenOk
    <3> QED
      BY <2>1, <3>1 DEF Typed, Created
  <2> QED
    BY <2>1, <2>2 DEF OnChannelOpenOk, Typed
<1>4. UNCHANGED <<options, cur, timing>>
  BY DEF OnChannelOpenOk
<1> QED
  BY <1>2, <1>3, <1>4, CalmStep

\* The server closes the connection.
LEMMA OnCloseKeeps ==
  ASSUME IInv, NEW s \in 1..MaxSockets, OnClose(s)
  PROVE  Kept
<1> DEFINE S == Taken(sockets, s)
<1>1. /\ IF S[cur].phase = "dead"
           THEN sockets' = S /\ Rearm /\ UNCHANGED <<parser, channels, timing>>
           ELSE ClearInbound /\ EmitError(Dead(S, cur))
      /\ UNCHANGED <<options, cur, readyEmitted, heartbeat, readyCallback, losses>>
      /\ Data(s)
  BY DEF OnClose, Receive
<1>2. Keeps(sockets, S) /\ S \in [1..MaxSockets -> Socket]
  BY <1>1, DataKeeps
<1> HIDE DEF S
<1>3. Keeps(sockets, Dead(S, cur))
  BY <1>2, Parts, DeadKeeps, KeepsOn
<1>4. Typed
  BY Parts
<1>5. CASE S[cur].phase = "dead"
  <2>1. sockets' = S /\ Rearm /\ UNCHANGED <<parser, channels, timing>>
    BY <1>1, <1>5
  <2>2. Typed'
    BY <1>1, <1>4, <2>1, Rearmed DEF Typed
  <2> QED
    BY <1>1, <1>2, <2>1, <2>2, CalmStep
<1>6. CASE S[cur].phase # "dead"
  <2>1. ClearInbound /\ EmitError(Dead(S, cur))
    BY <1>1, <1>6
  <2>2. losses' \in 0..MaxLosses /\ inbound' \in BOOLEAN
    BY <1>1, <1>4, <2>1, ClearInboundType DEF Typed
  <2> QED
    BY <1>1, <1>3, <2>1, <2>2, ErrorStep
<1> QED
  BY <1>5, <1>6

\* The server has closed the connection as it was asked to.
LEMMA OnCloseOkKeeps ==
  ASSUME IInv, NEW s \in 1..MaxSockets, OnCloseOk(s)
  PROVE  Kept
<1> DEFINE S == Taken(sockets, s)
           R == End(S)
<1>1. Data(s) /\ sockets' = Dead(R, cur)
  BY DEF OnCloseOk, Receive
<1>2. Keeps(sockets, S) /\ S \in [1..MaxSockets -> Socket]
  BY <1>1, DataKeeps
<1>3. Keeps(S, R)
  <2> HIDE DEF S
  <2> QED
    BY <1>2, Parts, EndKeeps
<1> HIDE DEF S, R
<1>4. Keeps(sockets, R) /\ R \in [1..MaxSockets -> Socket]
  BY <1>2, <1>3, KeepsOn, KeptType
<1>5. Keeps(R, Dead(R, cur))
  BY <1>4, Parts, DeadKeeps
<1>6. Keeps(sockets, sockets')
  BY <1>1, <1>4, <1>5, KeepsOn
<1>7. Typed'
  <2>1. Typed /\ inbound' \in BOOLEAN
    BY Parts, Rearmed DEF OnCloseOk
  <2> QED
    BY <2>1 DEF OnCloseOk, Typed
<1>8. UNCHANGED <<options, cur, timing>>
  BY DEF OnCloseOk
<1> QED
  BY <1>6, <1>7, <1>8, CalmStep

\* The parser gives up, or the server is of another version.
LEMMA OnFailureKeeps ==
  ASSUME IInv, NEW s \in 1..MaxSockets, OnFailure(s)
  PROVE  Kept
<1> DEFINE S == Taken(sockets, s)
           R == End(S)
<1>1. /\ EmitError(S) \/ EmitError(R)
      /\ Data(s) /\ Rearm
      /\ UNCHANGED <<options, cur, readyEmitted, heartbeat, readyCallback, losses>>
  BY DEF OnFailure, Receive
<1>2. Keeps(sockets, S) /\ S \in [1..MaxSockets -> Socket]
  BY <1>1, DataKeeps
<1>3. Keeps(S, R)
  <2> HIDE DEF S
  <2> QED
    BY <1>2, Parts, EndKeeps
<1> HIDE DEF S, R
<1>4. Keeps(sockets, R)
  BY <1>2, <1>3, KeepsOn
<1>5. losses' \in 0..MaxLosses /\ inbound' \in BOOLEAN
  BY <1>1, Parts, Rearmed DEF Typed
<1> QED
  BY <1>1, <1>2, <1>4, <1>5, ErrorStep

\* Nobody parses the data.
LEMMA OnDiscardedDataKeeps ==
  ASSUME IInv, NEW s \in 1..MaxSockets, OnDiscardedData(s)
  PROVE  Kept
<1>1. Data(s) /\ sockets' = Taken(sockets, s)
  BY DEF OnDiscardedData
<1>2. Keeps(sockets, sockets')
  BY <1>1, DataKeeps
<1>3. Typed'
  <2>1. Typed /\ inbound' \in BOOLEAN
    BY Parts, Rearmed DEF OnDiscardedData
  <2> QED
    BY <2>1 DEF OnDiscardedData, Typed
<1>4. UNCHANGED <<options, cur, timing>>
  BY DEF OnDiscardedData
<1> QED
  BY <1>2, <1>3, <1>4, CalmStep

-----------------------------------------------------------------------------
(* The server *)

\* An answer of the server disturbs nothing but the wires.
LEMMA AnsweredKeeps ==
  ASSUME IInv, NEW s \in 1..MaxSockets, NEW answer \in Seq(Message),
         NEW next \in {"started", "tuned", "open", "gone"}, NEW opened \in SUBSET Channels,
         sockets[s].toServer # <<>>, Answer(s, answer, next, opened),
         losses' \in 0..MaxLosses
  PROVE  Kept
<1> DEFINE t == sockets[s].toServer
           u == sockets[s].toClient
           r == [sockets[s] EXCEPT !.toServer = Tail(t), !.toClient = u \o answer,
                                   !.srv = next, !.opened = opened]
<1>1. t \in Seq(Message) /\ t # <<>> /\ u \in Seq(Message) /\ sockets[s] \in Socket
  BY Parts, Wires
<1>2. Tail(t) \in Seq(Message) /\ u \o answer \in Seq(Message)
  <2> HIDE DEF t, u
  <2> QED
    BY <1>1
<1>3. r \in Socket /\ r.phase = sockets[s].phase /\ r.ended = sockets[s].ended
  <2> HIDE DEF t, u
  <2> QED
    BY <1>1, <1>2 DEF Socket
<1>4. /\ sockets' = [sockets EXCEPT ![s] = r]
      /\ UNCHANGED <<options, cur, sensing, timing, channels, readyCallback>>
  BY DEF Answer
<1> HIDE DEF r
<1>5. Keeps(sockets, sockets')
  BY <1>3, <1>4, Parts, OneChanged DEF Quieted
<1>6. Typed'
  <2>1. Typed
    BY Parts
  <2> QED
    BY <1>4, <2>1 DEF Typed, sensing
<1> QED
  BY <1>4, <1>5, <1>6, CalmStep

\* The server, but for what it does out of the blue.
LEMMA ServerKeeps ==
  ASSUME IInv, NEW s \in 1..MaxSockets, ServerStep(s) \/ SrvBadVersion(s)
  PROVE  Kept
<1>1. losses' \in 0..MaxLosses
  <2>1. losses \in 0..MaxLosses
    BY Parts DEF Typed
  <2> QED
    BY <2>1, MisfortuneType
       DEF ServerStep, SrvHandshake, SrvChannelOpen, SrvClose, SrvUnexpected, SrvBadVersion
<1>2. CASE SrvHandshake(s)
  <2>1. PICK h \in Handshake : ServerReads(s, h.reads) /\ Answer(s, Method(h.says), h.next, {})
    BY <1>2 DEF SrvHandshake
  <2>2. h.says \in {"start", "tune", "openOk"} /\ h.next \in {"started", "tuned", "open"}
    BY DEF Handshake
  <2>3. Method(h.says) \in Seq(Message) /\ sockets[s].toServer # <<>>
    BY <2>1, <2>2, Methods DEF ServerReads
  <2> QED
    BY <1>1, <2>1, <2>2, <2>3, AnsweredKeeps
<1>3. CASE SrvBadVersion(s)
  <2>1. Method("badStart") \in Seq(Message) /\ sockets[s].toServer # <<>>
    BY <1>3, Methods DEF SrvBadVersion, ServerReads
  <2> QED
    BY <1>1, <1>3, <2>1, AnsweredKeeps DEF SrvBadVersion
<1>4. CASE SrvChannelOpen(s)
  <2>1. sockets[s].toServer # <<>> /\ Head(sockets[s].toServer).m = "channelOpen"
    BY <1>4 DEF SrvChannelOpen, ServerReads
  <2> DEFINE c == Head(sockets[s].toServer).c
             o == sockets[s].opened
             w == <<[m |-> "channelOpenOk", c |-> c]>>
  <2>2. c \in Channels
    <3> DEFINE t == sockets[s].toServer
    <3>1. t \in Seq(Message) /\ t # <<>> /\ Head(t).m = "channelOpen"
      BY <2>1, Parts, Wires
    <3>2. Head(t) \in Message
      <4> HIDE DEF t
      <4> QED
        BY <3>1
    <3> HIDE DEF t
    <3>3. Head(t).c \in Channels
      BY <3>1, <3>2 DEF Message
    <3> QED
      BY <3>3 DEF t
  <2>3. o \in SUBSET Channels
    BY Parts, Wires
  <2>4. \/ Answer(s, Method("close"), "gone", o)
        \/ Answer(s, w, "open", o \cup {c})
    BY <1>4 DEF SrvChannelOpen
  <2> HIDE DEF o, c
  <2>5. Method("close") \in Seq(Message) /\ w \in Seq(Message) /\ o \cup {c} \in SUBSET Channels
    <3>1. [m |-> "channelOpenOk", c |-> c] \in Message
      BY <2>2 DEF Message
    <3> QED
      BY <2>2, <2>3, <3>1, Methods
  <2> HIDE DEF w
  <2> QED
    BY <1>1, <2>1, <2>3, <2>4, <2>5, AnsweredKeeps
<1>5. CASE SrvClose(s)
  <2>1. /\ Method("closeOk") \in Seq(Message) /\ sockets[s].toServer # <<>>
        /\ Answer(s, Method("closeOk"), "gone", {})
    BY <1>5, Methods DEF SrvClose, ServerReads
  <2> QED
    BY <1>1, <2>1, AnsweredKeeps
<1>6. CASE SrvUnexpected(s)
  <2> DEFINE o == sockets[s].opened
  <2>1. /\ sockets[s].toServer # <<>> /\ <<>> \in Seq(Message)
        /\ Answer(s, <<>>, "gone", o)
    BY <1>6 DEF SrvUnexpected, ServerReads
  <2>2. o \in SUBSET Channels
    BY Parts, Wires
  <2> HIDE DEF o
  <2> QED
    BY <1>1, <2>1, <2>2, AnsweredKeeps
<1> QED
  BY <1>2, <1>3, <1>4, <1>5, <1>6 DEF ServerStep

\* The server complains.
LEMMA SrvComplainsKeeps ==
  ASSUME IInv, NEW s \in 1..MaxSockets, SrvComplains(s)
  PROVE  Kept
<1>1. PICK k \in {"close", "unknown"} :
        Misfortune(k) /\ sockets' = [sockets EXCEPT ![s].toClient = @ \o Method(k)]
  BY DEF SrvComplains
<1>2. UNCHANGED <<options, cur, sensing, timing, channels, readyCallback>>
  BY DEF SrvComplains
<1> DEFINE u == sockets[s].toClient
           w == Method(k)
           r == [sockets[s] EXCEPT !.toClient = u \o w]
<1>3. u \in Seq(Message) /\ w \in Seq(Message) /\ sockets[s] \in Socket
  BY Parts, Wires, Methods
<1>4. u \o w \in Seq(Message)
  <2> HIDE DEF u, w
  <2> QED
    BY <1>3
<1>5. r \in Socket /\ r.phase = sockets[s].phase /\ r.ended = sockets[s].ended
  <2> HIDE DEF u, w
  <2> QED
    BY <1>3, <1>4 DEF Socket
<1>6. sockets' = [sockets EXCEPT ![s] = r]
  BY <1>1
<1> HIDE DEF r
<1>7. Keeps(sockets, sockets')
  BY <1>5, <1>6, Parts, OneChanged DEF Quieted
<1>8. Typed'
  <2>1. Typed /\ losses' \in 0..MaxLosses
    BY <1>1, Parts, MisfortuneType
  <2> QED
    BY <1>2, <2>1 DEF Typed, sensing
<1> QED
  BY <1>2, <1>7, <1>8, CalmStep

-----------------------------------------------------------------------------
(* The theorems *)

\* It holds at first.
LEMMA InitIInv == Init => IInv
<1> SUFFICES ASSUME Init PROVE IInv
  OBVIOUS
<1>1. NewSocket \in Socket /\ NoSocket \in Socket
  <2>1. Method("header") \in Seq(Message) /\ <<>> \in Seq(Message) /\ {} \in SUBSET Channels
    BY Methods
  <2> QED
    BY <2>1 DEF NewSocket, NoSocket, Socket
<1>2. sockets \in [1..MaxSockets -> Socket] /\ cur \in 1..MaxSockets /\ cur = 1
  BY <1>1, BoundsAssumption DEF Init
<1>3. TypeOK
  <2>1. options \in OptionRecords /\ losses \in 0..MaxLosses /\ readyCallback \subseteq Channels
    BY OptionsAssumption, ChannelsAssumption, BoundsAssumption DEF Init
  <2>2. {parser, readyEmitted, inbound, heartbeat, scheduled} \subseteq BOOLEAN
    <3>1. heartbeat \in BOOLEAN
      BY DEF Init
    <3> QED
      BY <3>1 DEF Init
  <2>3. channels \in [Channels -> {"none", "undefined", "open", "closed"}]
    BY DEF Init
  <2>4. timers \in Nat /\ backoff \in Nat /\ failures \in Nat
    BY DEF Init
  <2> QED
    BY <1>2, <2>1, <2>2, <2>3, <2>4 DEF TypeOK
<1>4. OneAtATime
  BY <1>2 DEF Init, OneAtATime, OneAttempt, OneSocket
<1>5. Paced
  BY DEF Init, Paced
<1> QED
  BY <1>3, <1>4, <1>5 DEF IInv

\* Every step keeps it.
LEMMA NextKeeps ==
  ASSUME IInv, [Next]_vars
  PROVE  Kept
<1>1. CASE UNCHANGED vars
  <2>1. UNCHANGED <<options, cur, timing, sockets>> /\ Keeps(sockets, sockets') /\ Typed'
    <3>1. Typed /\ Keeps(sockets, sockets)
      BY Parts
    <3> QED
      BY <1>1, <3>1 DEF vars, sensing, Typed
  <2> QED
    BY <2>1, CalmStep
<1>2. CASE \E c \in Channels : CreateChannel(c)
  BY <1>2, CreateChannelKeeps
<1>3. CASE UserReconnect \/ Disconnect \/ EndConnection \/ TimerFires \/ HeartbeatLost
  BY <1>3, UserReconnectKeeps, DisconnectKeeps, EndConnectionKeeps, TimerFiresKeeps,
     HeartbeatLostKeeps
<1>4. CASE \E s \in 1..cur : \/ OnConnect(s) \/ OnError(s) \/ OnEnd(s) \/ PeerEnds(s)
                             \/ WriteAfterEnd(s) \/ OnData(s) \/ ServerStep(s)
                             \/ SrvBadVersion(s) \/ SrvComplains(s)
  <2>1. PICK s \in 1..MaxSockets :
               \/ OnConnect(s) \/ OnError(s) \/ OnEnd(s) \/ PeerEnds(s)
               \/ WriteAfterEnd(s) \/ OnData(s) \/ ServerStep(s)
               \/ SrvBadVersion(s) \/ SrvComplains(s)
    <3>1. cur \in 1..MaxSockets
      BY Parts
    <3>2. 1..cur \subseteq 1..MaxSockets
      BY <3>1, BoundsAssumption
    <3> QED
      BY <1>4, <3>2
  <2>2. CASE OnEnd(s) \/ PeerEnds(s)
    <3>1. EndOfStream(s)
      BY <2>2 DEF OnEnd, PeerEnds
    <3>2. losses' \in 0..MaxLosses
      <4>1. losses \in 0..MaxLosses
        BY Parts DEF Typed
      <4> QED
        BY <2>2, <4>1, MisfortuneType DEF OnEnd, PeerEnds
    <3> QED
      BY <3>1, <3>2, EndOfStreamKeeps
  <2>3. CASE OnData(s)
    BY <2>3, OnStartKeeps, OnTuneKeeps, OnOpenOkKeeps, OnChannelOpenOkKeeps, OnCloseKeeps,
       OnCloseOkKeeps, OnFailureKeeps, OnDiscardedDataKeeps DEF OnData
  <2>4. CASE OnConnect(s) \/ OnError(s) \/ WriteAfterEnd(s)
    BY <2>4, OnConnectKeeps, OnErrorKeeps, WriteAfterEndKeeps
  <2>5. CASE ServerStep(s) \/ SrvBadVersion(s) \/ SrvComplains(s)
    BY <2>5, ServerKeeps, SrvComplainsKeeps
  <2> QED
    BY <2>1, <2>2, <2>3, <2>4, <2>5
<1> QED
  BY <1>1, <1>2, <1>3, <1>4 DEF Next

\* The invariant is one: whatever fails, and whenever.
THEOREM InductiveInvariant == Spec => []IInv
<1>1. IInv /\ [Next]_vars => IInv'
  BY NextKeeps DEF Kept
<1> QED
  BY <1>1, InitIInv, PTL DEF Spec

\* Every variable stays in its domain, for any number of channels, sockets and
\* misfortunes.
THEOREM TypeCorrect == Spec => []TypeOK
<1>1. IInv => TypeOK
  BY DEF IInv
<1> QED
  BY <1>1, InductiveInvariant, PTL

\* One attempt to reconnect at most is scheduled, connectionAttemptScheduled says so,
\* and every superseded socket has been ended or has died (backoff listener,
\* reconnect()).
THEOREM OneAttemptAtATime == Spec => []OneAtATime
<1>1. IInv => OneAtATime
  BY DEF IInv
<1> QED
  BY <1>1, InductiveInvariant, PTL

\* A timer is only ever set to the documented pause, for every backoff time and
\* limit (backoff listener).
THEOREM TimersAreDocumented == Spec => BackoffIsDocumented
<1>1. IInv /\ [Next]_vars => (timers' > timers => backoff' = Pause(options.exponential)[failures'])
  <2> SUFFICES ASSUME IInv, [Next]_vars, timers' > timers
               PROVE  backoff' = Pause(options.exponential)[failures']
    OBVIOUS
  <2>1. Paced' /\ options' = options /\ failures' # 0
    BY NextKeeps DEF Kept, IInv
  <2> QED
    BY <2>1 DEF Paced
<1> QED
  BY <1>1, InductiveInvariant, PTL DEF Spec, BackoffIsDocumented

-----------------------------------------------------------------------------
(* Open channels *)

\* The misfortunes that leave a socket half alive behind: it still delivers what it
\* has received while another is current, or while an attempt is scheduled.
HalfDead == {"heartbeat", "badVersion", "unknown", "userReconnect", "end"}

NoneOpen == \A c \in Channels : channels[c] # "open"

\* Only methods of T are on the wire w.
Only(w, T) == \A i \in 1..Len(w) : w[i].m \in T

\* The channels answered for on the wire w are among O.
Granted(w, O) == \A i \in 1..Len(w) : w[i].m = "channelOpenOk" => w[i].c \in O

Stage(k, srv, sends, says) == k.srv = srv /\ k.toServer = sends /\ k.toClient = says

\* The handshake travels alone: six stages, from the protocol header to openOk.
Greeting(k) ==
  \/ Stage(k, "waiting", Method("header"), <<>>)
  \/ Stage(k, "started", <<>>, Method("start"))
  \/ Stage(k, "started", Method("startOk"), <<>>)
  \/ Stage(k, "tuned", <<>>, Method("tune"))
  \/ Stage(k, "tuned", Method("open"), <<>>)
  \/ /\ k.srv = "open" /\ k.toServer = <<>> /\ k.toClient # <<>>
     /\ Head(k.toClient).m = "openOk" /\ Only(Tail(k.toClient), {"close"})

\* After the handshake: the server answers for a channel it has open.
Serving(k) ==
  /\ k.srv \in {"open", "gone"}
  /\ Only(k.toServer, {"channelOpen", "close"})
  /\ Only(k.toClient, {"channelOpenOk", "close", "closeOk"})
  /\ k.srv = "open" => Granted(k.toClient, k.opened)

\* No write was refused, and a socket that was replaced is dead.
Superseded ==
  /\ \A s \in 1..MaxSockets : ~sockets[s].refused
  /\ \A s \in 1..(cur - 1) : sockets[s].phase = "dead"

\* The current socket is dead while an attempt is scheduled, and otherwise still as
\* it was created, in the handshake, or past it.
Current ==
  LET k == sockets[cur] IN
  /\ scheduled => k.phase = "dead" /\ NoneOpen
  /\ k.phase # "dead" => ~k.ended
  /\ k.phase = "connecting" => k = NewSocket /\ NoneOpen
  /\ k.phase = "open" => parser
  /\ k.phase = "open" /\ ~readyEmitted => Greeting(k) /\ k.opened = {} /\ NoneOpen
  /\ k.phase = "open" /\ readyEmitted =>
       /\ Serving(k)
       /\ k.srv = "open" => \A c \in Channels : channels[c] = "open" => c \in k.opened

CInv == IInv /\ Superseded /\ Current

-----------------------------------------------------------------------------
(* Wires *)

\* Methods put on a wire, and taken off it.
LEMMA OnlyWire ==
  ASSUME NEW T, NEW w \in Seq(Message), Only(w, T)
  PROVE  /\ \A v \in Seq(Message) : Only(v, T) => Only(w \o v, T)
         /\ w # <<>> => Head(w).m \in T /\ Only(Tail(w), T)
BY DEF Only

\* Channels answered for, likewise.
LEMMA GrantedWire ==
  ASSUME NEW O, NEW w \in Seq(Message), Granted(w, O)
  PROVE  /\ \A v \in Seq(Message) : Granted(v, O) => Granted(w \o v, O)
         /\ w # <<>> => /\ Head(w).m = "channelOpenOk" => Head(w).c \in O
                        /\ Granted(Tail(w), O)
         /\ \A P : O \subseteq P => Granted(w, P)
BY DEF Granted

\* A method of the control channel, alone on a wire.
LEMMA Alone ==
  ASSUME NEW m
  PROVE  /\ Method(m) # <<>> /\ Head(Method(m)).m = m /\ Tail(Method(m)) = <<>>
         /\ \A T : m \in T => Only(Method(m), T)
         /\ \A O : m # "channelOpenOk" => Granted(Method(m), O)
         /\ \A T : Only(<<>>, T)
BY DEF Method, Only, Granted

\* Methods put on an empty wire.
LEMMA OnEmpty ==
  ASSUME NEW v \in Seq(Message)
  PROVE  <<>> \o v = v
OBVIOUS

\* Only channelOpen is among the channelOpen methods.
LEMMA OpensOnly ==
  ASSUME NEW C
  PROVE  Opens(C) \in Seq(Message) /\ Only(Opens(C), {"channelOpen", "close"})
<1> DEFINE all == [c \in Channels |-> [m |-> "channelOpen", c |-> c]]
           P == [m : {"channelOpen"}, c : C]
<1>1. all \in Seq(Message)
  <2>1. ChannelCount \in Nat /\ Channels = 1..ChannelCount
    BY ChannelsAssumption DEF Channels
  <2>2. \A c \in Channels : all[c] \in Message
    BY DEF Message
  <2> QED
    BY <2>1, <2>2
<1>2. \A x \in P : x.m = "channelOpen"
  OBVIOUS
<1> HIDE DEF all, P
<1>3. \A i \in 1..Len(Filter(all, P)) : Filter(all, P)[i] \in P
  BY <1>1, FilterType
<1> QED
  BY <1>2, <1>3, OpensType DEF Opens, all, P, Only

-----------------------------------------------------------------------------
(* What the steps do to the current socket *)

\* What an invariant that holds says of the sockets.
LEMMA Known ==
  ASSUME CInv
  PROVE  /\ cur \in 1..MaxSockets /\ MaxSockets \in Nat
         /\ sockets \in [1..MaxSockets -> Socket] /\ sockets[cur] \in Socket
         /\ sockets[cur].toServer \in Seq(Message) /\ sockets[cur].toClient \in Seq(Message)
         /\ ~sockets[cur].refused
         /\ scheduled \in BOOLEAN /\ {parser, readyEmitted} \subseteq BOOLEAN
BY Parts, BoundsAssumption, Wires DEF CInv, Superseded, Typed, Timed

\* Only the current socket is alive: the others were replaced.
LEMMA OnlyCurrent ==
  ASSUME CInv, NEW s \in 1..cur, sockets[s].phase # "dead"
  PROVE  s = cur /\ ~scheduled /\ ~sockets[cur].ended
<1>1. cur \in 1..MaxSockets /\ MaxSockets \in Nat
  BY Known
<1>2. s = cur
  BY <1>1 DEF CInv, Superseded
<1> QED
  BY <1>2 DEF CInv, Current

\* The other sockets stay as they are.
Others == /\ cur' = cur /\ ~sockets'[cur].refused
          /\ \A s \in 1..MaxSockets : s # cur => sockets'[s] = sockets[s]

\* So those that were replaced stay dead.
LEMMA OthersSuperseded ==
  ASSUME CInv, Others
  PROVE  Superseded'
<1>1. cur \in 1..MaxSockets /\ MaxSockets \in Nat
  BY Known
<1> QED
  BY <1>1 DEF CInv, Superseded, Others

\* The current socket becomes r.
LEMMA Becomes ==
  ASSUME CInv, NEW r, ~r.refused, sockets' = [sockets EXCEPT ![cur] = r], cur' = cur
  PROVE  Superseded' /\ sockets'[cur'] = r
<1>1. cur \in 1..MaxSockets /\ sockets \in [1..MaxSockets -> Socket]
  BY Known
<1>2. Others /\ sockets'[cur'] = r
  BY <1>1 DEF Others
<1> QED
  BY <1>2, OthersSuperseded

\* A dead socket asks for nothing, but that no channel is open while an attempt is scheduled.
LEMMA DeadFits ==
  ASSUME sockets'[cur'].phase = "dead", (scheduled => NoneOpen)'
  PROVE  Current'
BY DEF Current

\* The listeners of 'error', when the current socket is dead already.
LEMMA FailsDead ==
  ASSUME CInv, NEW r, r.phase = "dead", ~r.refused,
         NEW S, S = [sockets EXCEPT ![cur] = r], EmitError(S), cur' = cur
  PROVE  Superseded' /\ Current'
<1>1. cur \in 1..MaxSockets /\ sockets \in [1..MaxSockets -> Socket]
  BY Known
<1>2. CASE scheduled
  <2>1. sockets' = S /\ channels' = channels /\ NoneOpen
    BY <1>2 DEF EmitError, CInv, Current
  <2>2. NoneOpen'
    BY <2>1 DEF NoneOpen
  <2> QED
    BY <2>1, <2>2, Becomes, DeadFits
<1>3. CASE ~scheduled
  <2>1. sockets' = End(S) /\ CloseChannels
    BY <1>3 DEF EmitError
  <2>2. NoneOpen'
    BY <2>1 DEF CloseChannels, NoneOpen
  <2>3. Others /\ sockets'[cur'].phase = "dead"
    BY <1>1, <2>1 DEF End, Others
  <2> QED
    BY <2>2, <2>3, OthersSuperseded, DeadFits
<1> QED
  BY <1>2, <1>3

\* The record of a socket that is destroyed.
Gone(k) == [k EXCEPT !.phase = "dead", !.toServer = <<>>, !.toClient = <<>>,
                     !.srv = "gone", !.opened = {}]

\* A socket that is destroyed is dead, with nothing refused.
LEMMA GoneIs ==
  ASSUME NEW k \in Socket, ~k.refused
  PROVE  Gone(k).phase = "dead" /\ ~Gone(k).refused
BY DEF Gone, Socket

-----------------------------------------------------------------------------
(* The steps, one by one *)

\* A socket fails, or its connection cannot be made.
LEMMA OnErrorCurrent ==
  ASSUME CInv, NEW s \in 1..cur, OnError(s)
  PROVE  Superseded' /\ Current'
<1> DEFINE r == Gone(sockets[cur])
<1>1. s = cur
  BY OnlyCurrent DEF OnError
<1>2. EmitError(Dead(sockets, cur)) /\ cur' = cur
  BY <1>1 DEF OnError
<1>3. r.phase = "dead" /\ ~r.refused
  BY Known, GoneIs
<1>4. Dead(sockets, cur) = [sockets EXCEPT ![cur] = r]
  BY Known DEF Dead, Gone
<1> HIDE DEF r
<1> QED
  BY <1>2, <1>3, <1>4, FailsDead

\* The stream of a socket ends.
LEMMA EndOfStreamCurrent ==
  ASSUME CInv, NEW s \in 1..cur, EndOfStream(s)
  PROVE  Superseded' /\ Current'
<1> DEFINE r == Gone(sockets[cur])
<1>1. s = cur /\ ~scheduled
  BY OnlyCurrent DEF EndOfStream
<1>2. r.phase = "dead" /\ ~r.refused
  BY Known, GoneIs
<1>3. Dead(sockets, cur) = [sockets EXCEPT ![cur] = r]
  BY Known DEF Dead, Gone
<1> HIDE DEF r
<1>4. cur' = cur
  BY DEF EndOfStream
<1>5. CASE readyEmitted
  <2>1. sockets' = [sockets EXCEPT ![cur] = r] /\ ~scheduled'
    BY <1>1, <1>3, <1>5 DEF EndOfStream, timing
  <2>2. Superseded' /\ sockets'[cur'] = r
    BY <1>2, <1>4, <2>1, Becomes
  <2> QED
    BY <1>2, <2>1, <2>2, DeadFits
<1>6. CASE ~readyEmitted
  <2>1. EmitError(Dead(sockets, cur))
    BY <1>1, <1>6 DEF EndOfStream
  <2> QED
    BY <1>2, <1>3, <1>4, <2>1, FailsDead
<1> QED
  BY <1>5, <1>6

\* The server closes the connection, or answers our close.
LEMMA OnCloseCurrent ==
  ASSUME CInv, NEW s \in 1..cur, OnClose(s) \/ OnCloseOk(s)
  PROVE  Superseded' /\ Current'
<1> DEFINE t == [sockets[cur] EXCEPT !.toClient = Tail(@)]
           e == [t EXCEPT !.ended = TRUE]
<1>1. /\ s = cur /\ ~scheduled /\ cur' = cur /\ sockets[cur].phase = "open"
  BY OnlyCurrent DEF OnClose, OnCloseOk, Receive, Data
<1>2. CASE OnClose(s)
  <2> DEFINE S == Taken(sockets, cur)
             r == Gone(t)
  <2>1. S[cur].phase = "open" /\ Dead(S, cur) = [sockets EXCEPT ![cur] = r]
    <3>1. S = [sockets EXCEPT ![cur] = t] /\ t.phase = "open"
      BY <1>1, Known DEF Taken, Socket
    <3> HIDE DEF t, S
    <3>2. S[cur] = t /\ Dead(S, cur) = [S EXCEPT ![cur] = Gone(t)]
      BY <3>1, Known DEF Dead, Gone
    <3>3. [S EXCEPT ![cur] = Gone(t)] = [sockets EXCEPT ![cur] = Gone(t)]
      BY <3>1, Known
    <3> QED
      BY <3>1, <3>2, <3>3
  <2>2. r.phase = "dead" /\ ~r.refused
    BY Known DEF Gone, Socket
  <2>3. EmitError(Dead(S, cur))
    BY <1>1, <1>2, <2>1 DEF OnClose
  <2> HIDE DEF r, S
  <2> QED
    BY <1>1, <2>1, <2>2, <2>3, FailsDead
<1>3. CASE OnCloseOk(s)
  <2> DEFINE r == Gone(e)
  <2>1. sockets' = [sockets EXCEPT ![cur] = r] /\ ~scheduled'
    BY <1>1, <1>3, Known DEF OnCloseOk, Taken, End, Dead, Gone, timing
  <2>2. r.phase = "dead" /\ ~r.refused
    BY Known DEF Gone, Socket
  <2> HIDE DEF r
  <2>3. Superseded' /\ sockets'[cur'] = r
    BY <1>1, <2>1, <2>2, Becomes
  <2> QED
    BY <2>1, <2>2, <2>3, DeadFits
<1> QED
  BY <1>2, <1>3

\* An attempt to reconnect: the socket it replaces is dead.
LEMMA TimerFiresCurrent ==
  ASSUME CInv, TimerFires
  PROVE  Superseded' /\ Current'
<1> DEFINE d == [sockets[cur] EXCEPT !.ended = TRUE]
<1>1. /\ cur \in 1..MaxSockets /\ cur + 1 \in 1..MaxSockets /\ MaxSockets \in Nat
      /\ sockets \in [1..MaxSockets -> Socket]
  BY Known DEF TimerFires, Reopen
<1>2. scheduled
  BY Parts DEF TimerFires, CInv, Timed, OneAttempt
<1>3. sockets[cur].phase = "dead"
  BY <1>2 DEF CInv, Current
<1>4. /\ cur' = cur + 1 /\ sockets' = [End(sockets) EXCEPT ![cur + 1] = NewSocket]
      /\ CloseChannels /\ scheduled' = FALSE
  BY DEF TimerFires, Reopen
<1>5. /\ sockets'[cur'] = NewSocket
      /\ \A s \in 1..MaxSockets : s # cur + 1 =>
           sockets'[s] = IF s = cur THEN d ELSE sockets[s]
  BY <1>1, <1>4 DEF End
<1>6. NewSocket.phase = "connecting" /\ NewSocket.ended = FALSE /\ NewSocket.refused = FALSE
  BY DEF NewSocket, NoSocket
<1>7. d.phase = "dead" /\ ~d.refused
  BY <1>3, Known DEF Socket
<1> HIDE DEF d
<1>8. Superseded'
  <2>1. ASSUME NEW s \in 1..MaxSockets PROVE ~sockets'[s].refused
    <3>1. ~sockets[s].refused
      BY DEF CInv, Superseded
    <3>2. sockets'[s] = IF s = cur + 1 THEN NewSocket ELSE IF s = cur THEN d ELSE sockets[s]
      BY <1>4, <1>5
    <3> QED
      BY <1>6, <1>7, <3>1, <3>2
  <2>2. ASSUME NEW s \in 1..(cur' - 1) PROVE sockets'[s].phase = "dead"
    <3>1. s \in 1..MaxSockets /\ s # cur + 1 /\ (s = cur \/ s \in 1..(cur - 1))
      BY <1>1, <1>4
    <3>2. s # cur => sockets[s].phase = "dead"
      BY <3>1 DEF CInv, Superseded
    <3> QED
      BY <1>5, <1>7, <3>1, <3>2
  <2> QED
    BY <2>1, <2>2 DEF Superseded
<1>9. NoneOpen'
  BY <1>4 DEF CloseChannels, NoneOpen
<1>10. NewSocket' = NewSocket
  BY DEF NewSocket, NoSocket, Method
<1> HIDE DEF NewSocket
<1> QED
  BY <1>4, <1>5, <1>6, <1>8, <1>9, <1>10 DEF Current

\* A socket connects: the handshake begins with the header it has been sent.
LEMMA OnConnectCurrent ==
  ASSUME CInv, NEW s \in 1..cur, OnConnect(s)
  PROVE  Superseded' /\ Current'
<1> DEFINE r == [NewSocket EXCEPT !.phase = "open"]
<1>1. s = cur /\ ~scheduled /\ cur' = cur /\ sockets[cur].phase = "connecting"
  BY OnlyCurrent DEF OnConnect
<1>2. sockets[cur] = NewSocket /\ NoneOpen
  BY <1>1 DEF CInv, Current
<1>3. sockets' = [sockets EXCEPT ![cur] = r]
  BY <1>1, <1>2, Known DEF OnConnect
<1>4. /\ r.phase = "open" /\ ~r.ended /\ ~r.refused /\ r.opened = {}
      /\ r.srv = "waiting" /\ r.toServer = Method("header") /\ r.toClient = <<>>
  BY DEF NewSocket, NoSocket
<1> HIDE DEF r
<1>5. Superseded' /\ sockets'[cur'] = r
  BY <1>1, <1>3, <1>4, Becomes
<1>6. parser' /\ ~readyEmitted' /\ ~scheduled' /\ NoneOpen'
  BY <1>1, <1>2 DEF OnConnect, timing, NoneOpen
<1>7. Greeting(r)
  BY <1>4 DEF Greeting, Stage
<1> QED
  BY <1>4, <1>5, <1>6, <1>7 DEF Current

\* What is said of the current socket once it is open.
LEMMA OpenSocket ==
  ASSUME CInv, NEW s \in 1..cur, sockets[s].phase = "open"
  PROVE  /\ s = cur /\ ~scheduled /\ parser /\ ~sockets[cur].ended
         /\ Writable(sockets)
         /\ readyEmitted => Serving(sockets[cur])
         /\ readyEmitted /\ sockets[cur].srv = "open" =>
              \A c \in Channels : channels[c] = "open" => c \in sockets[cur].opened
         /\ ~readyEmitted => Greeting(sockets[cur]) /\ sockets[cur].opened = {} /\ NoneOpen
<1>1. s = cur /\ ~scheduled /\ ~sockets[cur].ended
  BY OnlyCurrent
<1> QED
  BY <1>1 DEF CInv, Current, Writable

\* Still in the handshake.
LEMMA StillGreeting ==
  ASSUME CInv, sockets[cur].phase = "open", ~readyEmitted,
         NEW r, r.phase = "open", r.ended = sockets[cur].ended, ~r.refused, r.opened = {},
         Greeting(r), sockets' = [sockets EXCEPT ![cur] = r],
         UNCHANGED <<cur, channels, parser, readyEmitted, scheduled>>
  PROVE  Superseded' /\ Current'
<1>1. Superseded' /\ sockets'[cur'] = r
  BY Becomes
<1>2. ~scheduled /\ parser /\ ~sockets[cur].ended /\ NoneOpen
  BY Known, OpenSocket
<1>3. NoneOpen'
  BY <1>2 DEF NoneOpen
<1> QED
  BY <1>1, <1>2, <1>3 DEF Current

\* Still past it, or past it from now on.
LEMMA StillServing ==
  ASSUME CInv, sockets[cur].phase = "open", readyEmitted',
         NEW r, r.phase = "open", r.ended = sockets[cur].ended, ~r.refused, Serving(r),
         sockets' = [sockets EXCEPT ![cur] = r],
         r.srv = "open" => \A c \in Channels : channels'[c] = "open" => c \in r.opened,
         UNCHANGED <<cur, parser, scheduled>>
  PROVE  Superseded' /\ Current'
<1>1. Superseded' /\ sockets'[cur'] = r
  BY Becomes
<1>2. ~scheduled /\ parser /\ ~sockets[cur].ended
  BY Known, OpenSocket
<1> QED
  BY <1>1, <1>2 DEF Current

\* The record of a socket whose next method is answered with the methods w, in whole.
Reply(k, w) == [k EXCEPT !.toServer = @ \o w, !.toClient = Tail(@)]

\* Its fields.
LEMMA ReplyIs ==
  ASSUME NEW k \in Socket, NEW w
  PROVE  /\ Reply(k, w).toServer = k.toServer \o w /\ Reply(k, w).toClient = Tail(k.toClient)
         /\ Reply(k, w).phase = k.phase /\ Reply(k, w).ended = k.ended
         /\ Reply(k, w).refused = k.refused /\ Reply(k, w).srv = k.srv
         /\ Reply(k, w).opened = k.opened
BY DEF Reply, Socket

\* The only method on the wire is answered.
LEMMA ReplyStage ==
  ASSUME NEW k \in Socket, NEW srv, NEW m, NEW w \in Seq(Message),
         Stage(k, srv, <<>>, Method(m))
  PROVE  Stage(Reply(k, w), srv, w, <<>>)
<1>1. <<>> \o w = w
  BY OnEmpty
<1>2. k.srv = srv /\ k.toServer = <<>> /\ k.toClient = Method(m)
  BY DEF Stage
<1>3. Tail(Method(m)) = <<>>
  BY Alone
<1>4. Reply(k, w).toServer = w /\ Reply(k, w).toClient = <<>> /\ Reply(k, w).srv = srv
  BY <1>1, <1>2, <1>3, ReplyIs
<1> QED
  BY <1>4 DEF Stage

\* Reading a method of the open socket, with and without an answer.
LEMMA Reading ==
  ASSUME CInv, NEW s \in 1..cur, NEW m, Receive(s, m)
  PROVE  /\ s = cur /\ sockets[cur].phase = "open" /\ ~scheduled /\ parser
         /\ sockets[cur].toClient # <<>> /\ Head(sockets[cur].toClient).m = m
         /\ \A w : Write(Taken(sockets, s), w) = [sockets EXCEPT ![cur] = Reply(sockets[cur], w)]
         /\ Writable(Taken(sockets, s))
<1>1. /\ s = cur /\ sockets[cur].phase = "open" /\ ~scheduled /\ parser
      /\ sockets[cur].toClient # <<>> /\ Head(sockets[cur].toClient).m = m
      /\ ~sockets[cur].ended
  BY OpenSocket DEF Receive, Data
<1> DEFINE S == Taken(sockets, s)
           t == [sockets[cur] EXCEPT !.toClient = Tail(@)]
<1>2. S = [sockets EXCEPT ![cur] = t] /\ t.phase = "open" /\ ~t.ended
  BY <1>1, Known DEF Taken, Socket
<1>3. ASSUME NEW w PROVE [t EXCEPT !.toServer = @ \o w] = Reply(sockets[cur], w)
  BY Known DEF Reply, Socket
<1> HIDE DEF S, t
<1>4. S[cur] = t /\ Writable(S)
  BY <1>2, Known DEF Writable
<1>5. ASSUME NEW w PROVE Write(S, w) = [sockets EXCEPT ![cur] = Reply(sockets[cur], w)]
  <2>1. Write(S, w) = [S EXCEPT ![cur] = [t EXCEPT !.toServer = @ \o w]]
    BY <1>4 DEF Write
  <2> QED
    BY <1>2, <1>3, <2>1, Known
<1> QED
  BY <1>1, <1>4, <1>5 DEF S

\* Before 'ready' the next method is one of the handshake, after it never.
LEMMA NextMethod ==
  ASSUME CInv, NEW s \in 1..cur, NEW m, Receive(s, m)
  PROVE  /\ readyEmitted => Serving(sockets[cur]) /\ m \in {"channelOpenOk", "close", "closeOk"}
         /\ ~readyEmitted =>
              /\ NoneOpen /\ sockets[cur].opened = {}
              /\ \/ m = "start" /\ Stage(sockets[cur], "started", <<>>, Method("start"))
                 \/ m = "tune"  /\ Stage(sockets[cur], "tuned", <<>>, Method("tune"))
                 \/ /\ m = "openOk" /\ sockets[cur].srv = "open" /\ sockets[cur].toServer = <<>>
                    /\ Only(Tail(sockets[cur].toClient), {"close"})
<1> DEFINE k == sockets[cur]
<1>1. /\ s = cur /\ k.phase = "open" /\ k.toClient # <<>> /\ Head(k.toClient).m = m
      /\ k.toClient \in Seq(Message)
  BY Reading, Known
<1>2. CASE readyEmitted
  <2>1. Serving(k)
    BY <1>1, <1>2, OpenSocket
  <2> QED
    BY <1>1, <1>2, <2>1, OnlyWire DEF Serving
<1>3. CASE ~readyEmitted
  <2>1. Greeting(k) /\ k.opened = {} /\ NoneOpen
    BY <1>1, <1>3, OpenSocket
  <2> QED
    BY <1>1, <1>3, <2>1, Alone DEF Greeting, Stage
<1> QED
  BY <1>2, <1>3

\* The client's part of the handshake.
LEMMA OnStartCurrent ==
  ASSUME CInv, NEW s \in 1..cur, OnStart(s) \/ OnTune(s)
  PROVE  Superseded' /\ Current'
<1>1. CASE OnStart(s)
  <2> DEFINE r == Reply(sockets[cur], Method("startOk"))
  <2>1. /\ Receive(s, "start") /\ sockets' = Write(Taken(sockets, s), Method("startOk"))
        /\ UNCHANGED <<cur, channels, parser, readyEmitted, scheduled>>
    BY <1>1 DEF OnStart, timing
  <2>2. ~readyEmitted /\ Stage(sockets[cur], "started", <<>>, Method("start"))
        /\ sockets[cur].opened = {} /\ sockets[cur].phase = "open"
    BY <2>1, NextMethod, Reading
  <2>3. sockets' = [sockets EXCEPT ![cur] = r]
    BY <2>1, Reading
  <2>4. Stage(r, "started", Method("startOk"), <<>>)
    BY <2>2, Known, ReplyStage, Methods
  <2>5. r.phase = "open" /\ r.ended = sockets[cur].ended /\ ~r.refused /\ r.opened = {}
    BY <2>2, Known, ReplyIs
  <2> HIDE DEF r
  <2> QED
    BY <2>1, <2>2, <2>3, <2>4, <2>5, StillGreeting DEF Greeting
<1>2. CASE OnTune(s)
  <2> DEFINE r == Reply(sockets[cur], Method("open"))
  <2>1. /\ Receive(s, "tune") /\ sockets' = Write(Taken(sockets, s), Method("open"))
        /\ UNCHANGED <<cur, channels, parser, readyEmitted, scheduled>>
    BY <1>2 DEF OnTune, timing
  <2>2. ~readyEmitted /\ Stage(sockets[cur], "tuned", <<>>, Method("tune"))
        /\ sockets[cur].opened = {} /\ sockets[cur].phase = "open"
    BY <2>1, NextMethod, Reading
  <2>3. sockets' = [sockets EXCEPT ![cur] = r]
    BY <2>1, Reading
  <2>4. Stage(r, "tuned", Method("open"), <<>>)
    BY <2>2, Known, ReplyStage, Methods
  <2>5. r.phase = "open" /\ r.ended = sockets[cur].ended /\ ~r.refused /\ r.opened = {}
    BY <2>2, Known, ReplyIs
  <2> HIDE DEF r
  <2> QED
    BY <2>1, <2>2, <2>3, <2>4, <2>5, StillGreeting DEF Greeting
<1> QED
  BY <1>1, <1>2

\* Methods for the open socket, whose record is r by now.
LEMMA WriteMore ==
  ASSUME CInv, NEW r \in Socket, r.phase = "open", ~r.ended, NEW w \in Seq(Message),
         NEW S, S = [sockets EXCEPT ![cur] = r]
  PROVE  /\ Write(S, w) = [sockets EXCEPT ![cur] = [r EXCEPT !.toServer = @ \o w]]
         /\ [r EXCEPT !.toServer = @ \o w] \in Socket
<1>1. S[cur] = r /\ Writable(S)
  BY Known DEF Writable
<1>2. Write(S, w) = [S EXCEPT ![cur] = [r EXCEPT !.toServer = @ \o w]]
  BY <1>1 DEF Write
<1>3. r.toServer \in Seq(Message)
  BY DEF Socket
<1>4. r.toServer \o w \in Seq(Message)
  <2> DEFINE v == r.toServer
  <2> HIDE DEF v
  <2>1. v \in Seq(Message) => v \o w \in Seq(Message)
    OBVIOUS
  <2> QED
    BY <1>3, <2>1 DEF v
<1>5. [r EXCEPT !.toServer = @ \o w] \in Socket
  BY <1>4 DEF Socket
<1> QED
  BY <1>2, <1>5, Known

\* The record of a socket whose next method is answered is one.
LEMMA ReplyType ==
  ASSUME NEW k \in Socket, k.toClient # <<>>, NEW w \in Seq(Message)
  PROVE  Reply(k, w) \in Socket
<1> DEFINE t == k.toServer
           u == k.toClient
<1>1. t \in Seq(Message) /\ u \in Seq(Message) /\ u # <<>>
  BY DEF Socket
<1> HIDE DEF t, u
<1>2. t \o w \in Seq(Message) /\ Tail(u) \in Seq(Message)
  BY <1>1
<1> QED
  BY <1>2 DEF Reply, Socket, t, u

\* The connection becomes ready: the server has opened no channel yet, and none counts
\* as open.
LEMMA OnOpenOkCurrent ==
  ASSUME CInv, NEW s \in 1..cur, OnOpenOk(s)
  PROVE  Superseded' /\ Current'
<1> DEFINE k == sockets[cur]
           w == Opens(readyCallback)
           v == IF options.reconnect THEN Opens(Created \cup readyCallback) ELSE <<>>
           q == Reply(k, w)
           r == [q EXCEPT !.toServer = @ \o v]
           T == {"channelOpen", "close"}
<1>1. /\ Receive(s, "openOk")
      /\ sockets' = Write(Write(Taken(sockets, s), w), v)
      /\ channels' = [c \in Channels |-> IF c \in readyCallback THEN "undefined" ELSE channels[c]]
      /\ readyEmitted' /\ UNCHANGED <<cur, parser, scheduled>>
  BY DEF OnOpenOk
<1>2. /\ ~readyEmitted /\ NoneOpen /\ k.opened = {} /\ k.srv = "open" /\ k.toServer = <<>>
      /\ Only(Tail(k.toClient), {"close"})
  BY <1>1, NextMethod
<1>3. /\ k.phase = "open" /\ ~k.ended /\ ~k.refused /\ k \in Socket /\ k.toClient # <<>>
      /\ Tail(k.toClient) \in Seq(Message)
  <2>1. /\ k.phase = "open" /\ k.toClient # <<>>
    BY <1>1, Reading
  <2>2. ~k.ended /\ ~k.refused /\ k \in Socket /\ k.toClient \in Seq(Message)
    BY <2>1, Known, OpenSocket
  <2> HIDE DEF k
  <2> QED
    BY <2>1, <2>2
<1>4. /\ w \in Seq(Message) /\ Only(w, T)
      /\ v \in Seq(Message) /\ Only(v, T)
  BY OpensOnly, Alone
<1>5. q \in Socket /\ q.phase = "open" /\ ~q.ended /\ q.ended = k.ended
  <2> HIDE DEF k, w
  <2> QED
    BY <1>3, <1>4, ReplyType, ReplyIs
<1>6. sockets' = [sockets EXCEPT ![cur] = r] /\ r \in Socket
  <2>1. Write(Taken(sockets, s), w) = [sockets EXCEPT ![cur] = q]
    BY <1>1, Reading
  <2> HIDE DEF q, v, w
  <2> QED
    BY <1>1, <1>4, <1>5, <2>1, WriteMore
<1>7. /\ r.phase = "open" /\ r.ended = k.ended /\ ~r.refused /\ r.srv = "open" /\ r.opened = {}
      /\ r.toServer = w \o v /\ r.toClient = Tail(k.toClient)
  <2>1. /\ q.toServer = w /\ q.toClient = Tail(k.toClient) /\ ~q.refused
        /\ q.srv = "open" /\ q.opened = {}
    <3> HIDE DEF k, w
    <3>1. /\ q.toServer = k.toServer \o w /\ q.toClient = Tail(k.toClient)
          /\ q.refused = k.refused /\ q.srv = k.srv /\ q.opened = k.opened
      BY <1>3, ReplyIs
    <3>2. k.toServer \o w = w
      BY <1>2, <1>4, OnEmpty
    <3> HIDE DEF q
    <3> QED
      BY <1>2, <1>3, <3>1, <3>2
  <2> HIDE DEF q, k, w, v
  <2> QED
    BY <1>5, <2>1 DEF Socket
<1> HIDE DEF r, q, v, w
<1>8. Serving(r)
  <2>1. Only(w \o v, T)
    BY <1>4, OnlyWire
  <2>2. Only(Tail(k.toClient), {"channelOpenOk", "close", "closeOk"})
    BY <1>2 DEF Only
  <2>3. Granted(Tail(k.toClient), {})
    BY <1>2 DEF Only, Granted
  <2> QED
    BY <1>7, <2>1, <2>2, <2>3 DEF Serving
<1>9. \A c \in Channels : channels'[c] # "open"
  <2>1. channels' = [c \in Channels |-> IF c \in readyCallback THEN "undefined" ELSE channels[c]]
    BY <1>1
  <2>2. \A c \in Channels : channels[c] # "open"
    BY <1>2 DEF NoneOpen
  <2> QED
    BY <2>1, <2>2
<1> QED
  BY <1>1, <1>3, <1>6, <1>7, <1>8, <1>9, StillServing

\* A channel is open when the server of this connection has said so.
LEMMA OnChannelOpenOkCurrent ==
  ASSUME CInv, NEW s \in 1..cur, OnChannelOpenOk(s)
  PROVE  Superseded' /\ Current'
<1> DEFINE k == sockets[cur]
           c == Head(k.toClient).c
           r == [k EXCEPT !.toClient = Tail(@)]
<1>1. Receive(s, "channelOpenOk") /\ UNCHANGED <<cur, parser, readyEmitted, scheduled>>
  BY DEF OnChannelOpenOk, timing
<1>2. /\ s = cur /\ k.phase = "open" /\ k.toClient # <<>> /\ Head(k.toClient).m = "channelOpenOk"
      /\ k.toClient \in Seq(Message) /\ ~k.refused /\ k \in Socket
  BY <1>1, Reading, Known
<1>3. readyEmitted /\ Serving(k)
  BY <1>1, NextMethod
<1>4. /\ sockets' = [sockets EXCEPT ![cur] = r]
      /\ channels' = [channels EXCEPT ![c] = IF c \in Created THEN "open" ELSE @]
  BY <1>2, Known DEF OnChannelOpenOk, Taken
<1>5. /\ r.phase = "open" /\ r.ended = k.ended /\ ~r.refused /\ r.srv = k.srv
      /\ r.opened = k.opened /\ r.toServer = k.toServer /\ r.toClient = Tail(k.toClient)
  <2> HIDE DEF k
  <2> QED
    BY <1>2 DEF Socket
<1> HIDE DEF r
<1>6. Serving(r)
  BY <1>2, <1>3, <1>5, OnlyWire, GrantedWire DEF Serving
<1>7. k.srv = "open" => c \in k.opened
  BY <1>2, <1>3, GrantedWire DEF Serving
<1>8. ASSUME r.srv = "open", NEW d \in Channels, channels'[d] = "open" PROVE d \in r.opened
  <2>1. CASE d = c
    BY <1>5, <1>7, <1>8, <2>1
  <2>2. CASE d # c
    <3>1. channels[d] = "open"
      BY <1>4, <1>8, <2>2
    <3> QED
      BY <1>2, <1>3, <1>5, <1>8, <3>1, OpenSocket
  <2> QED
    BY <2>1, <2>2
<1> QED
  BY <1>1, <1>2, <1>3, <1>4, <1>5, <1>6, <1>8, StillServing

\* The record of a socket whose server reads a method and answers v.
Answered(k, v, next, opened) ==
  [k EXCEPT !.toServer = Tail(@), !.toClient = @ \o v, !.srv = next, !.opened = opened]

\* Its fields.
LEMMA AnsweredIs ==
  ASSUME NEW k \in Socket, NEW v, NEW next, NEW opened
  PROVE  LET r == Answered(k, v, next, opened) IN
         /\ r.toServer = Tail(k.toServer) /\ r.toClient = k.toClient \o v
         /\ r.phase = k.phase /\ r.ended = k.ended /\ r.refused = k.refused
         /\ r.srv = next /\ r.opened = opened
BY DEF Answered, Socket

\* The server answers on the current socket.
LEMMA Answering ==
  ASSUME CInv, NEW s \in 1..cur, sockets[s].phase = "open",
         NEW v, NEW next, NEW opened, Answer(s, v, next, opened)
  PROVE  /\ s = cur
         /\ sockets' = [sockets EXCEPT ![cur] = Answered(sockets[cur], v, next, opened)]
         /\ UNCHANGED <<cur, channels, parser, readyEmitted, scheduled>>
<1>1. s = cur
  BY OpenSocket
<1> QED
  BY <1>1 DEF Answer, Answered, sensing, timing

\* The next request is one of the handshake before 'ready', and never after it.
LEMMA NextRequest ==
  ASSUME CInv, NEW s \in 1..cur, NEW m, ServerReads(s, m)
  PROVE  /\ s = cur /\ sockets[cur].phase = "open" /\ sockets[cur].toServer # <<>>
         /\ Head(sockets[cur].toServer).m = m
         /\ readyEmitted => /\ Serving(sockets[cur]) /\ sockets[cur].srv = "open"
                            /\ m \in {"channelOpen", "close"}
         /\ ~readyEmitted =>
              \/ m = "header"  /\ Stage(sockets[cur], "waiting", Method("header"), <<>>)
              \/ m = "startOk" /\ Stage(sockets[cur], "started", Method("startOk"), <<>>)
              \/ m = "open"    /\ Stage(sockets[cur], "tuned", Method("open"), <<>>)
<1> DEFINE k == sockets[cur]
<1>1. /\ s = cur /\ k.phase = "open" /\ k.toServer # <<>> /\ Head(k.toServer).m = m
      /\ k.toServer \in Seq(Message) /\ k.srv # "gone"
  BY OpenSocket, Known DEF ServerReads
<1>2. CASE readyEmitted
  <2>1. Serving(k)
    BY <1>1, <1>2, OpenSocket
  <2> QED
    BY <1>1, <1>2, <2>1, OnlyWire DEF Serving
<1>3. CASE ~readyEmitted
  <2>1. Greeting(k)
    BY <1>1, <1>3, OpenSocket
  <2> QED
    BY <1>1, <1>3, <2>1, Alone DEF Greeting, Stage
<1> QED
  BY <1>1, <1>2, <1>3

\* The server's part of the handshake.
LEMMA SrvHandshakeCurrent ==
  ASSUME CInv, NEW s \in 1..cur, SrvHandshake(s)
  PROVE  Superseded' /\ Current'
<1>1. PICK h \in Handshake : /\ ServerReads(s, h.reads) /\ sockets[s].srv = h.in
                             /\ Answer(s, Method(h.says), h.next, {})
  BY DEF SrvHandshake
<1> DEFINE k == sockets[cur]
           r == Answered(k, Method(h.says), h.next, {})
<1>2. s = cur /\ k.phase = "open" /\ k \in Socket /\ ~k.refused
  BY <1>1, NextRequest, Known
<1>3. h.reads \in {"header", "startOk", "open"}
  BY DEF Handshake
<1>4. /\ ~readyEmitted
      /\ Stage(k, h.in, Method(h.reads), <<>>)
  BY <1>1, <1>2, <1>3, NextRequest DEF Stage
<1>5. /\ sockets' = [sockets EXCEPT ![cur] = r]
      /\ UNCHANGED <<cur, channels, parser, readyEmitted, scheduled>>
  BY <1>1, <1>2, Answering
<1>6. /\ r.phase = "open" /\ r.ended = k.ended /\ ~r.refused /\ r.opened = {}
      /\ r.srv = h.next /\ r.toServer = Tail(k.toServer) /\ r.toClient = k.toClient \o Method(h.says)
  <2> DEFINE v == Method(h.says)
             n == h.next
             o == {}
  <2> HIDE DEF k, v, n, o
  <2>1. LET q == Answered(k, v, n, o) IN
        /\ q.toServer = Tail(k.toServer) /\ q.toClient = k.toClient \o v
        /\ q.phase = k.phase /\ q.ended = k.ended /\ q.refused = k.refused
        /\ q.srv = n /\ q.opened = o
    BY <1>2, AnsweredIs
  <2> QED
    BY <1>2, <2>1 DEF v, n, o
<1>7. Stage(r, h.next, <<>>, Method(h.says))
  <2>1. Method(h.says) \in Seq(Message)
    <3>1. h.says \in {"start", "tune", "openOk"}
      BY DEF Handshake
    <3> QED
      BY <3>1, Methods
  <2>2. <<>> \o Method(h.says) = Method(h.says) /\ Tail(Method(h.reads)) = <<>>
    BY <2>1, OnEmpty, Alone
  <2> HIDE DEF r
  <2> QED
    BY <1>4, <1>6, <2>2 DEF Stage
<1>8. Greeting(r)
  <2> HIDE DEF r
  <2>1. \/ h.next = "started" /\ h.says = "start"
        \/ h.next = "tuned" /\ h.says = "tune"
        \/ h.next = "open" /\ h.says = "openOk"
    BY DEF Handshake
  <2>2. h.says = "openOk" => /\ Method(h.says) # <<>> /\ Head(Method(h.says)).m = "openOk"
                             /\ Only(Tail(Method(h.says)), {"close"})
    BY Alone
  <2> QED
    BY <1>7, <2>1, <2>2 DEF Greeting, Stage
<1> HIDE DEF r
<1> QED
  BY <1>2, <1>4, <1>5, <1>6, <1>8, StillGreeting

\* The server opens a channel and says so, or refuses one it has open; it answers our close.
LEMMA SrvAnswersCurrent ==
  ASSUME CInv, NEW s \in 1..cur, SrvChannelOpen(s) \/ SrvClose(s)
  PROVE  Superseded' /\ Current'
<1> DEFINE k == sockets[cur]
           c == Head(k.toServer).c
           M == {"channelOpenOk", "close", "closeOk"}
           T == {"channelOpen", "close"}
<1>1. /\ s = cur /\ readyEmitted /\ Serving(k) /\ k.srv = "open" /\ k.phase = "open"
      /\ k.toServer # <<>> /\ k \in Socket /\ ~k.refused
      /\ k.toServer \in Seq(Message) /\ k.toClient \in Seq(Message)
  BY NextRequest, Known DEF SrvChannelOpen, SrvClose
<1>2. /\ Only(Tail(k.toServer), T) /\ Only(k.toClient, M) /\ Granted(k.toClient, k.opened)
      /\ \A d \in Channels : channels[d] = "open" => d \in k.opened
  BY <1>1, OnlyWire, OpenSocket DEF Serving
<1>3. ASSUME NEW v \in Seq(Message), NEW next, NEW opened, Answer(s, v, next, opened),
             Only(v, M), next \in {"open", "gone"},
             next = "open" => Granted(v, opened) /\ k.opened \subseteq opened
      PROVE  Superseded' /\ Current'
  <2> DEFINE r == Answered(k, v, next, opened)
  <2>1. /\ sockets' = [sockets EXCEPT ![cur] = r]
        /\ UNCHANGED <<cur, channels, parser, readyEmitted, scheduled>>
    <3>1. sockets[s].phase = "open" /\ Answer(s, v, next, opened)
      BY <1>1, <1>3
    <3> QED
      BY <3>1, Answering
  <2>2. /\ r.phase = "open" /\ r.ended = k.ended /\ ~r.refused /\ r.opened = opened
        /\ r.srv = next /\ r.toServer = Tail(k.toServer) /\ r.toClient = k.toClient \o v
    <3> HIDE DEF k
    <3> QED
      BY <1>1, AnsweredIs
  <2> HIDE DEF r
  <2>3. Only(k.toClient \o v, M)
    BY <1>1, <1>2, <1>3, OnlyWire
  <2>4. next = "open" => Granted(k.toClient \o v, opened)
    BY <1>1, <1>2, <1>3, GrantedWire
  <2>5. Serving(r)
    BY <1>2, <1>3, <2>2, <2>3, <2>4 DEF Serving
  <2> QED
    BY <1>1, <1>2, <1>3, <2>1, <2>2, <2>5, StillServing
<1>4. CASE SrvClose(s)
  BY <1>3, <1>4, Methods, Alone DEF SrvClose
<1>5. CASE SrvChannelOpen(s)
  <2> DEFINE w == <<[m |-> "channelOpenOk", c |-> c]>>
  <2>1. CASE c \in k.opened
    <3>1. Answer(s, Method("close"), "gone", k.opened)
      BY <1>1, <1>5, <2>1 DEF SrvChannelOpen
    <3>2. Method("close") \in Seq(Message) /\ Only(Method("close"), M)
      BY Methods, Alone
    <3> QED
      BY <1>3, <3>1, <3>2
  <2>2. CASE c \notin k.opened
    <3>1. Answer(s, w, "open", k.opened \cup {c})
      BY <1>1, <1>5, <2>2 DEF SrvChannelOpen
    <3>2. c \in Channels
      <4>1. Head(k.toServer).m = "channelOpen"
        BY <1>1, <1>5 DEF SrvChannelOpen, ServerReads
      <4>2. Head(k.toServer) \in Message
        BY <1>1
      <4> HIDE DEF k
      <4> QED
        BY <4>1, <4>2 DEF Message
    <3> HIDE DEF c
    <3>3. w \in Seq(Message)
      BY <3>2 DEF Message
    <3>4. Only(w, M) /\ Granted(w, k.opened \cup {c})
      BY DEF Only, Granted
    <3> HIDE DEF w
    <3> QED
      BY <1>3, <3>1, <3>3, <3>4
  <2> QED
    BY <2>1, <2>2
<1> QED
  BY <1>4, <1>5

\* Nothing out of place is ever sent.
LEMMA NothingUnexpected ==
  ASSUME CInv, NEW s \in 1..cur
  PROVE  ~SrvUnexpected(s)
<1> SUFFICES ASSUME SrvUnexpected(s) PROVE FALSE
  OBVIOUS
<1>1. PICK m : /\ ServerReads(s, m)
               /\ IF m \in {"channelOpen", "close"}
                    THEN sockets[s].srv # "open"
                    ELSE \A h \in Handshake : h.reads = m => sockets[s].srv # h.in
  BY DEF SrvUnexpected
<1>2. s = cur
  BY <1>1, NextRequest
<1>3. CASE readyEmitted
  BY <1>1, <1>2, <1>3, NextRequest
<1>4. CASE ~readyEmitted
  BY <1>1, <1>2, <1>4, NextRequest DEF Stage, Handshake
<1> QED
  BY <1>3, <1>4

\* The server complains out of the blue, with connection.close.
LEMMA SrvComplainsCurrent ==
  ASSUME CInv, Faults \cap HalfDead = {}, NEW s \in 1..cur, SrvComplains(s)
  PROVE  Superseded' /\ Current'
<1> DEFINE k == sockets[cur]
           w == Method("close")
           r == [k EXCEPT !.toClient = @ \o w]
<1>1. /\ s = cur /\ k.phase = "open" /\ k.srv = "open" /\ k \in Socket /\ ~k.refused
      /\ k.toClient \in Seq(Message)
  BY OpenSocket, Known DEF SrvComplains
<1>2. sockets' = [sockets EXCEPT ![s].toClient = @ \o Method("close")]
  BY DEF SrvComplains, Misfortune, HalfDead
<1>3. UNCHANGED <<cur, channels, parser, readyEmitted, scheduled>>
  BY DEF SrvComplains, sensing, timing
<1>4. sockets' = [sockets EXCEPT ![cur] = r]
  BY <1>1, <1>2
<1>5. /\ w \in Seq(Message) /\ \A T : "close" \in T => Only(w, T)
      /\ \A O : Granted(w, O)
  BY Methods, Alone
<1>6. /\ r.phase = "open" /\ r.ended = k.ended /\ ~r.refused /\ r.srv = "open"
      /\ r.opened = k.opened /\ r.toServer = k.toServer /\ r.toClient = k.toClient \o w
  <2> HIDE DEF k, w
  <2> QED
    BY <1>1 DEF Socket
<1> HIDE DEF r, w
<1>7. CASE readyEmitted
  <2>1. Serving(k) /\ \A c \in Channels : channels[c] = "open" => c \in k.opened
    BY <1>1, <1>7, OpenSocket
  <2>2. Serving(r)
    <3>1. Only(k.toClient \o w, {"channelOpenOk", "close", "closeOk"})
      BY <1>1, <1>5, <2>1, OnlyWire DEF Serving
    <3>2. Granted(k.toClient \o w, k.opened)
      BY <1>1, <1>5, <2>1, GrantedWire DEF Serving
    <3> QED
      BY <1>6, <2>1, <3>1, <3>2 DEF Serving
  <2> QED
    BY <1>1, <1>3, <1>4, <1>6, <1>7, <2>1, <2>2, StillServing
<1>8. CASE ~readyEmitted
  <2>1. Greeting(k) /\ k.opened = {}
    BY <1>1, <1>8, OpenSocket
  <2>2. /\ k.toServer = <<>> /\ k.toClient # <<>> /\ Head(k.toClient).m = "openOk"
        /\ Only(Tail(k.toClient), {"close"})
    BY <1>1, <2>1 DEF Greeting, Stage
  <2>3. \A u \in Seq(Message) : u # <<>> =>
          /\ u \o w # <<>> /\ Head(u \o w) = Head(u) /\ Tail(u \o w) = Tail(u) \o w
          /\ Tail(u) \in Seq(Message)
    BY <1>5
  <2>4. Only(Tail(k.toClient) \o w, {"close"})
    BY <1>1, <1>5, <2>2, <2>3, OnlyWire
  <2>5. Greeting(r)
    BY <1>1, <1>6, <2>2, <2>3, <2>4 DEF Greeting
  <2> QED
    BY <1>1, <1>3, <1>4, <1>6, <1>8, <2>1, <2>5, StillGreeting
<1> QED
  BY <1>7, <1>8

\* The application asks for a channel, or for the connection to be closed.
LEMMA AskedCurrent ==
  ASSUME CInv, (\E c \in Channels : CreateChannel(c)) \/ Disconnect
  PROVE  Superseded' /\ Current'
<1> DEFINE k == sockets[cur]
<1>1. /\ k.phase = "open" /\ readyEmitted /\ k \in Socket /\ ~k.refused /\ ~k.ended
      /\ Serving(k) /\ k.toServer \in Seq(Message)
      /\ k.srv = "open" => \A c \in Channels : channels[c] = "open" => c \in k.opened
  <2>1. Ready
    BY DEF CreateChannel, Disconnect
  <2>2. cur \in 1..cur
    BY Known
  <2> QED
    BY <2>1, <2>2, Known, OpenSocket DEF Ready
<1>2. PICK w \in Seq(Message) :
        Only(w, {"channelOpen", "close"}) /\ sockets' = Write(sockets, w)
  <2>1. CASE Disconnect
    BY <2>1, Methods, Alone DEF Disconnect
  <2>2. CASE \E c \in Channels : CreateChannel(c)
    BY <2>2, OpensOnly DEF CreateChannel
  <2> QED
    BY <2>1, <2>2
<1> DEFINE r == [k EXCEPT !.toServer = @ \o w]
<1>3. sockets' = [sockets EXCEPT ![cur] = r]
  <2>1. sockets = [sockets EXCEPT ![cur] = k]
    BY Known
  <2> HIDE DEF k
  <2> QED
    BY <1>1, <1>2, <2>1, WriteMore
<1>4. /\ r.phase = "open" /\ r.ended = k.ended /\ ~r.refused /\ r.srv = k.srv
      /\ r.opened = k.opened /\ r.toServer = k.toServer \o w /\ r.toClient = k.toClient
  <2> HIDE DEF k
  <2> QED
    BY <1>1 DEF Socket
<1> HIDE DEF r
<1>5. Serving(r)
  <2>1. Only(k.toServer \o w, {"channelOpen", "close"})
    BY <1>1, <1>2, OnlyWire DEF Serving
  <2> QED
    BY <1>1, <1>4, <2>1 DEF Serving
<1>6. readyEmitted' /\ UNCHANGED <<cur, parser, scheduled>>
  BY <1>1 DEF CreateChannel, Disconnect, sensing, timing
<1>7. \A c \in Channels : channels'[c] = "open" => channels[c] = "open"
  <2>1. channels \in [Channels -> {"none", "undefined", "open", "closed"}]
    BY Parts DEF CInv, Typed
  <2> QED
    BY <2>1 DEF CreateChannel, Disconnect
<1> QED
  BY <1>1, <1>3, <1>4, <1>5, <1>6, <1>7, StillServing

\* What cannot happen: no method is unknown, a parser is there while the socket is
\* open, no write is refused; and the misfortunes that are left out.
LEMMA Impossible ==
  ASSUME CInv, Faults \cap HalfDead = {}, NEW s \in 1..cur
  PROVE  /\ ~OnFailure(s) /\ ~OnDiscardedData(s) /\ ~WriteAfterEnd(s) /\ ~SrvBadVersion(s)
         /\ ~UserReconnect /\ ~EndConnection /\ ~HeartbeatLost
<1>1. ~OnFailure(s)
  BY NextMethod DEF OnFailure
<1>2. ~OnDiscardedData(s)
  BY OpenSocket DEF OnDiscardedData, Data
<1>3. ~WriteAfterEnd(s)
  <2>1. s \in 1..MaxSockets
    BY Known
  <2> QED
    BY <2>1 DEF CInv, Superseded, WriteAfterEnd
<1>4. ~SrvBadVersion(s) /\ ~UserReconnect /\ ~EndConnection /\ ~HeartbeatLost
  BY DEF SrvBadVersion, UserReconnect, EndConnection, HeartbeatLost, Misfortune, HalfDead
<1> QED
  BY <1>1, <1>2, <1>3, <1>4

\* At first nothing but the header has been sent.
LEMMA InitCurrent == Init => CInv
<1> SUFFICES ASSUME Init PROVE CInv
  OBVIOUS
<1>1. cur = 1 /\ 1 \in 1..MaxSockets /\ MaxSockets \in Nat
  BY BoundsAssumption DEF Init
<1>2. /\ sockets[cur] = NewSocket
      /\ \A s \in 1..MaxSockets : sockets[s] \in {NewSocket, NoSocket}
  BY <1>1 DEF Init
<1>3. /\ NewSocket.phase = "connecting" /\ ~NewSocket.ended /\ ~NewSocket.refused
      /\ ~NoSocket.refused
  BY DEF NewSocket, NoSocket
<1>4. NoneOpen /\ ~scheduled
  BY DEF Init, NoneOpen
<1>5. Superseded
  BY <1>1, <1>2, <1>3 DEF Superseded
<1>6. Current
  <2> HIDE DEF NewSocket
  <2> QED
    BY <1>2, <1>3, <1>4 DEF Current
<1> QED
  BY <1>5, <1>6, InitIInv DEF CInv

\* Every step keeps the invariant.
LEMMA NextCurrent ==
  ASSUME CInv, Faults \cap HalfDead = {}, [Next]_vars
  PROVE  CInv'
<1>1. IInv'
  BY NextKeeps DEF Kept, CInv
<1>2. CASE UNCHANGED vars
  <2>1. UNCHANGED <<cur, sockets, scheduled, parser, readyEmitted, channels>>
    BY <1>2 DEF vars, timing, sensing
  <2>2. Superseded' /\ Current'
    BY <2>1 DEF CInv, Superseded, Current, NoneOpen
  <2> QED
    BY <1>1, <2>2 DEF CInv
<1>3. CASE (\E c \in Channels : CreateChannel(c)) \/ Disconnect
  BY <1>1, <1>3, AskedCurrent DEF CInv
<1>4. CASE TimerFires
  BY <1>1, <1>4, TimerFiresCurrent DEF CInv
<1>5. ~UserReconnect /\ ~EndConnection /\ ~HeartbeatLost
  BY Impossible, Known
<1>6. ASSUME NEW s \in 1..cur,
             \/ OnConnect(s) \/ OnError(s) \/ OnEnd(s) \/ PeerEnds(s)
             \/ WriteAfterEnd(s) \/ OnData(s) \/ ServerStep(s)
             \/ SrvBadVersion(s) \/ SrvComplains(s)
      PROVE  Superseded' /\ Current'
  <2>1. CASE OnConnect(s) \/ OnError(s)
    BY <2>1, OnConnectCurrent, OnErrorCurrent
  <2>2. CASE OnEnd(s) \/ PeerEnds(s)
    BY <2>2, EndOfStreamCurrent DEF OnEnd, PeerEnds
  <2>3. CASE OnData(s)
    BY <2>3, OnStartCurrent, OnOpenOkCurrent, OnChannelOpenOkCurrent, OnCloseCurrent,
       Impossible DEF OnData
  <2>4. CASE ServerStep(s)
    BY <2>4, SrvHandshakeCurrent, SrvAnswersCurrent, NothingUnexpected DEF ServerStep
  <2>5. CASE SrvComplains(s)
    BY <2>5, SrvComplainsCurrent
  <2>6. ~WriteAfterEnd(s) /\ ~SrvBadVersion(s)
    BY Impossible
  <2> QED
    BY <1>6, <2>1, <2>2, <2>3, <2>4, <2>5, <2>6
<1> QED
  BY <1>1, <1>2, <1>3, <1>4, <1>5, <1>6 DEF Next, CInv

\* While no misfortune leaves a socket half alive behind, the driver and the current
\* server agree: a channel that claims to be open is open there, and none does while
\* the connection is down ('error' listeners, reconnect(), _onMethod).
THEOREM OpenChannelsAreReal ==
  ASSUME Faults \cap HalfDead = {}
  PROVE  Spec => []OpenIsReal
<1>1. CInv /\ [Next]_vars => CInv'
  BY NextCurrent
<1>2. CInv => OpenIsReal
  <2> SUFFICES ASSUME CInv PROVE OpenIsReal
    OBVIOUS
  <2>1. NoneOpenWhileDown
    BY DEF CInv, Current, NoneOpenWhileDown, NoneOpen
  <2>2. OpenIsCurrent
    BY DEF CInv, Current, OpenIsCurrent, NoneOpen
  <2> QED
    BY <2>1, <2>2 DEF OpenIsReal
<1> QED
  BY <1>1, <1>2, InitCurrent, PTL DEF Spec

\* Nor is 'ready' ever believed of a socket whose handshake is not complete (onConnect
\* clears readyEmitted, openOk alone sets it).
THEOREM ReadyIsHandshaken ==
  ASSUME Faults \cap HalfDead = {}
  PROVE  Spec => []ReadyMeansHandshaken
<1>1. CInv /\ [Next]_vars => CInv'
  BY NextCurrent
<1>2. CInv => ReadyMeansHandshaken
  BY DEF CInv, Current, Serving, ReadyMeansHandshaken, Ready
<1> QED
  BY <1>1, <1>2, InitCurrent, PTL DEF Spec
=============================================================================
