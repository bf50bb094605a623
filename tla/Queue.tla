--------------------------------- MODULE Queue ---------------------------------
(***************************************************************************)
(* A queue of the client (lib/queue.js): its declaration, its bindings and *)
(* the callback of bind(), its consumers, and how bindings and consumers   *)
(* are restored when the connection comes back (the listeners of           *)
(* lib/connection.js).  The server keeps the queue, its bindings and the   *)
(* consumers of this channel.                                              *)
(*                                                                         *)
(* The exchange of a binding is part of its key.  Consumer tags are drawn  *)
(* at random by the code; here they are numbers, given out in order.       *)
(* purge, flow and the bindings with headers are tasks without an effect   *)
(* on this state; module Channel has them.                                 *)
(***************************************************************************)
EXTENDS Integers, FiniteSets, Sequences, SequencesExt, SeqFilter

CONSTANTS Key,        \* exchange and routing key of a binding
          Sub,        \* the subscriptions the application makes
          None,       \* no key, no subscription
          Options,    \* the options the queue may have been made with
          Faults,     \* what may happen besides the calls of the application
          MaxCalls,   \* bound on the calls
          MaxLosses   \* bound on the connection errors

OptionRecords == [noDeclare : BOOLEAN, closeChannelOnUnsubscribe : BOOLEAN]

FaultKinds == { "error",         \* the connection emits 'error' and reconnects
                "userReconnect", \* the application calls connection.reconnect()
                "refuse",        \* the server answers by channel.close
                "close",         \* the application closes the channel
                "destroy",       \* the application deletes the queue
                "deleted",       \* somebody else does
                "whileDown" }    \* the application calls while the queue is not open

ASSUME NoneAssumption    == None \notin Key \cup Sub
ASSUME OptionsAssumption == Options \subseteq OptionRecords
ASSUME FaultsAssumption  == Faults \subseteq FaultKinds
ASSUME BoundsAssumption  == MaxCalls \in Nat /\ MaxLosses \in Nat

VARIABLES
  options,      \* this.options
  state,        \* this.state, "undefined" counted as "closed"
  tracked,      \* connection.channels[this.channel] === this
  registered,   \* connection.queues[this.name] === this
  bindings,     \* this._bindings
  bindCallback, \* this._bindCallback, as the key it was given for
  consumers,    \* this.consumerTagListeners and consumerTagOptions
  nextTag,      \* the next consumer tag
  tasks,        \* this._tasks
  link,         \* the connection is usable
  losses,       \* connection errors so far
  toServer,     \* methods written and not yet read
  toClient,     \* methods of the server not yet dispatched
  srv,          \* the server's view of the channel
  exists,       \* the queue exists on the server
  srvBindings,  \* its bindings
  srvConsumers, \* the consumers of this channel
  known,        \* the tag the application holds for each subscription, or 0
  calls,        \* calls so far
  wanted,       \* history: the keys bound and not unbound since
  active,       \* history: what became of each subscription
  incidents     \* history: what has happened that excuses a property

channelVars == <<state, tracked, registered>>
bindVars    == <<bindings, bindCallback>>
consumeVars == <<consumers, nextTag>>
linkVars    == <<link, losses>>
brokerVars  == <<srv, exists, srvBindings, srvConsumers>>
appVars     == <<known, calls, wanted, active>>
vars == <<options, channelVars, bindVars, consumeVars, tasks, linkVars, toServer, toClient,
          brokerVars, appVars, incidents>>

-----------------------------------------------------------------------------
(* Types *)

Tag == 1..(nextTag - 1)

\* A task of _tasks: `sub' is the subscription whose promise it holds.
Task == [op : {"consume"}, arg : Tag, sub : Sub \cup {None}, sent : BOOLEAN]
          \cup [op : {"cancel"}, arg : Tag, sub : {None}, sent : BOOLEAN]
          \cup [op : {"unbind"}, arg : Key, sub : {None}, sent : BOOLEAN]
          \cup [op : {"delete"}, arg : {None}, sub : {None}, sent : BOOLEAN]

ToServer == [m : {"channelOpen", "declare", "delete", "close", "closeOk"}, arg : {None}]
              \cup [m : {"bind", "unbind"}, arg : Key]
              \cup [m : {"consume", "cancel"}, arg : Tag]

ToClient == [m : {"channelOpenOk", "declareOk", "bindOk", "unbindOk", "deleteOk",
                  "basicCancel", "close", "closeOk"}, arg : {None}]
              \cup [m : {"consumeOk", "cancelOk"}, arg : Tag]

\* Every variable stays in its domain, and no tag is used twice.
TypeOK ==
  /\ options \in Options
  /\ state \in {"closed", "declare queue", "open", "closing"}
  /\ tracked \in BOOLEAN
  /\ registered \in BOOLEAN
  /\ bindings \in [Key -> Nat]
  /\ bindCallback \in Key \cup {None}
  /\ nextTag \in Nat \ {0}
  /\ consumers \subseteq [tag : Tag, sub : Sub, state : {"opening", "open", "closed"}]
  /\ \A c, d \in consumers : c.tag = d.tag => c = d
  /\ tasks \in Seq(Task)
  /\ link \in BOOLEAN
  /\ losses \in 0..MaxLosses
  /\ toServer \in Seq(ToServer)
  /\ toClient \in Seq(ToClient)
  /\ srv \in {"closed", "open", "refused"}
  /\ exists \in BOOLEAN
  /\ srvBindings \subseteq Key
  /\ srvConsumers \subseteq Tag
  /\ known \in [Sub -> {0} \cup Tag]
  /\ calls \in 0..MaxCalls
  /\ wanted \subseteq Key
  /\ active \in [Sub -> {"idle", "asked", "stopped"}]
  /\ incidents \subseteq {"refuse", "close", "destroy", "deleted", "userReconnect",
                          "cancelLost", "unbindLost", "misdirected", "dropped"}

Init ==
  /\ options \in Options
  /\ state = "closed"
  /\ tracked = TRUE
  /\ registered = FALSE
  /\ bindings = [k \in Key |-> 0]
  /\ bindCallback = None
  /\ consumers = {}
  /\ nextTag = 1
  /\ tasks = <<>>
  /\ link = TRUE
  /\ losses = 0
  /\ toServer = <<[m |-> "channelOpen", arg |-> None]>>
  /\ toClient = <<>>
  /\ srv = "closed"
  /\ exists = options.noDeclare
  /\ srvBindings = {}
  /\ srvConsumers = {}
  /\ known = [s \in Sub |-> 0]
  /\ calls = 0
  /\ wanted = {}
  /\ active = [s \in Sub |-> "idle"]
  /\ incidents = {}

\* Bound: besides connection errors, one misfortune per behaviour.
May(kind) == kind \in Faults /\ incidents \cap FaultKinds = {}

-----------------------------------------------------------------------------
(* Writing, and the flushing of tasks *)

Method(m, arg) == <<[m |-> m, arg |-> arg]>>

\* What is written while the connection is down is lost.
Write(msgs) == toServer' = IF link THEN toServer \o msgs ELSE toServer

Requests(entries) == [i \in 1..Len(entries) |-> [m |-> entries[i].op, arg |-> entries[i].arg]]

NewTask(op, arg, sub) == [op |-> op, arg |-> arg, sub |-> sub, sent |-> FALSE]

Unsent(entries) ==
  Filter(entries, {entries[i] : i \in {j \in 1..Len(entries) : ~entries[j].sent}})

AllSent(entries) == [i \in 1..Len(entries) |-> [entries[i] EXCEPT !.sent = TRUE]]

\* The tags whose consume is written when these tasks are flushed.
DueTags(entries) ==
  {entries[i].arg : i \in {j \in 1..Len(entries) : entries[j].op = "consume" /\ ~entries[j].sent}}

Deletes(entries) == \E i \in 1..Len(entries) : entries[i].op = "delete" /\ ~entries[i].sent

\* The callbacks of the tasks: a written consume marks its options 'open', a
\* written delete takes the queue out of connection.queues.
MarkOpen(cons, entries) ==
  {[c EXCEPT !.state = IF c.tag \in DueTags(entries) THEN "open" ELSE @] : c \in cons}

\* _tasksFlush, after the methods in `before' have been written.
Flush(st, reg, cons, entries, before) ==
  IF st = "open"
    THEN /\ tasks' = AllSent(entries)
         /\ consumers' = MarkOpen(cons, entries)
         /\ registered' = (reg /\ ~Deletes(entries))
         /\ Write(before \o Requests(Unsent(entries)))
    ELSE /\ tasks' = entries
         /\ consumers' = cons
         /\ registered' = reg
         /\ Write(before)

TaskPush(task, cons) == Flush(state, registered, cons, Append(tasks, task), <<>>)

-----------------------------------------------------------------------------
(* The application *)

Calls ==
  /\ calls < MaxCalls
  /\ calls' = calls + 1
  /\ tracked
  /\ state = "open" \/ "whileDown" \in Faults

\* Slip: the binding is not recorded.
BindUnrecorded(k, callback) ==
  /\ Calls
  /\ bindCallback' = IF callback THEN k ELSE bindCallback
  /\ Write(Method("bind", k))
  /\ wanted' = wanted \cup {k}
  /\ UNCHANGED <<options, channelVars, bindings, consumeVars, tasks, linkVars, toClient,
                 brokerVars, known, active, incidents>>

\* bind() writes at once, whatever the state.
Bind(k, callback) ==
  /\ Calls
  /\ bindCallback' = IF callback THEN k ELSE bindCallback
  /\ bindings' = [bindings EXCEPT ![k] = @ + 1]
  /\ Write(Method("bind", k))
  /\ wanted' = wanted \cup {k}
  /\ UNCHANGED <<options, channelVars, consumeVars, tasks, linkVars, toClient, brokerVars,
                 known, active, incidents>>

\* Slip: a missing count is decremented all the same.
UnbindBelowZero(k) ==
  /\ Calls
  /\ bindings' = [bindings EXCEPT ![k] = @ - 1]
  /\ TaskPush(NewTask("unbind", k, None), consumers)
  /\ wanted' = wanted \ {k}
  /\ UNCHANGED <<options, state, tracked, bindCallback, nextTag, linkVars, toClient, brokerVars,
                 known, active, incidents>>

\* Slip: it returns once the record of the key is gone.
UnbindReturnsEarly(k) ==
  /\ Calls
  /\ bindings' = [bindings EXCEPT ![k] = IF @ = 0 THEN 0 ELSE @ - 1]
  /\ wanted' = wanted \ {k}
  /\ IF bindings'[k] > 0
       THEN TaskPush(NewTask("unbind", k, None), consumers)
       ELSE UNCHANGED <<tasks, consumers, registered, toServer>>
  /\ UNCHANGED <<options, state, tracked, bindCallback, nextTag, linkVars, toClient, brokerVars,
                 known, active, incidents>>

\* Decrementing a count that is not there leaves none.
Unbind(k) ==
  /\ Calls
  /\ bindings' = [bindings EXCEPT ![k] = IF @ = 0 THEN 0 ELSE @ - 1]
  /\ TaskPush(NewTask("unbind", k, None), consumers)
  /\ wanted' = wanted \ {k}
  /\ UNCHANGED <<options, state, tracked, bindCallback, nextTag, linkVars, toClient, brokerVars,
                 known, active, incidents>>

\* subscribe() and subscribeRaw(), once per subscription.
Subscribe(s) ==
  /\ Calls
  /\ active[s] = "idle"
  /\ active' = [active EXCEPT ![s] = "asked"]
  /\ nextTag' = nextTag + 1
  /\ TaskPush(NewTask("consume", nextTag, s),
              consumers \cup {[tag |-> nextTag, sub |-> s, state |-> "opening"]})
  /\ UNCHANGED <<options, state, tracked, bindVars, linkVars, toClient, brokerVars,
                 known, wanted, incidents>>

\* Slip: the listener is dropped with the call, not with the answer.
UnsubscribeAtOnce(s) ==
  /\ Calls
  /\ active[s] = "asked"
  /\ known[s] # 0
  /\ active' = [active EXCEPT ![s] = "stopped"]
  /\ TaskPush(NewTask("cancel", known[s], None), {c \in consumers : c.tag # known[s]})
  /\ UNCHANGED <<options, state, tracked, bindVars, nextTag, linkVars, toClient, brokerVars,
                 known, wanted, incidents>>

\* unsubscribe(), with the tag the application holds for s.
Unsubscribe(s) ==
  /\ Calls
  /\ active[s] = "asked"
  /\ known[s] # 0
  /\ active' = [active EXCEPT ![s] = "stopped"]
  /\ TaskPush(NewTask("cancel", known[s], None), consumers)
  /\ incidents' = incidents \cup IF \E c \in consumers : c.tag = known[s] /\ c.sub = s
                                   THEN {} ELSE {"misdirected"}
  /\ UNCHANGED <<options, state, tracked, bindVars, nextTag, linkVars, toClient, brokerVars,
                 known, wanted>>

Destroy ==
  /\ May("destroy")
  /\ Calls
  /\ TaskPush(NewTask("delete", None, None), consumers)
  /\ incidents' = incidents \cup {"destroy"}
  /\ UNCHANGED <<options, state, tracked, bindVars, nextTag, linkVars, toClient, brokerVars,
                 known, wanted, active>>

\* close() on a live connection, and once per opening.
Close ==
  /\ May("close")
  /\ Calls
  /\ link
  /\ state = "open"
  /\ state' = "closing"
  /\ Write(Method("close", None))
  /\ incidents' = incidents \cup {"close"}
  /\ UNCHANGED <<options, tracked, registered, bindVars, consumeVars, tasks, linkVars, toClient,
                 brokerVars, known, wanted, active>>

-----------------------------------------------------------------------------
(* What the connection dispatches to the queue *)

Receive(m) ==
  /\ link
  /\ tracked
  /\ toClient # <<>>
  /\ Head(toClient).m = m
  /\ toClient' = Tail(toClient)

\* A queue that is not declared is open at once: nothing is restored.
OnChannelOpenOk ==
  /\ Receive("channelOpenOk")
  /\ IF options.noDeclare
       THEN state' = "open" /\ Flush("open", registered, consumers, tasks, <<>>)
       ELSE /\ state' = "declare queue"
            /\ Flush("declare queue", registered, consumers, tasks, Method("declare", None))
  /\ UNCHANGED <<options, tracked, bindVars, nextTag, linkVars, brokerVars, appVars, incidents>>

\* The subscriptions marked closed, without those whose first consume is still
\* among the tasks: the resubscription of the eldest writes it.
Resubscribed ==
  LET lost == {c.tag : c \in {d \in consumers : d.state = "closed"}} IN
  {t \in lost : t \notin DueTags(tasks) \/ \A u \in lost : t <= u}

\* Their new tags, in the order of the old.
NewTag(t) == nextTag + Cardinality({u \in Resubscribed : u < t})

Renewed == {[tag |-> NewTag(c.tag), sub |-> c.sub, state |-> "open"] :
              c \in {d \in consumers : d.tag \in Resubscribed}}

\* The queue is open: bindings are written again through bind(), which counts
\* them once more, the closed subscriptions get new tags, tasks are flushed.
\* 'tag.change' tells the application.
OnDeclareOk ==
  /\ Receive("declareOk")
  /\ state' = "open"
  /\ \E keys \in SetToSeqs({k \in Key : bindings[k] > 0}) :
     LET binds == [i \in 1..Len(keys) |-> [m |-> "bind", arg |-> keys[i]]]
         again == [i \in 1..Cardinality(Resubscribed) |->
                     [op |-> "consume", arg |-> nextTag + i - 1, sub |-> None, sent |-> TRUE]]
     IN  /\ Write(binds \o Requests(Unsent(tasks)) \o Requests(again))
         /\ tasks' = AllSent(tasks) \o again
  /\ registered' = ~Deletes(tasks)
  /\ bindings' = [k \in Key |-> IF bindings[k] > 0 THEN bindings[k] + 1 ELSE 0]
  /\ consumers' = {c \in MarkOpen(consumers, tasks) : c.tag \notin Resubscribed} \cup Renewed
  /\ nextTag' = nextTag + Cardinality(Resubscribed)
  /\ known' = [s \in Sub |-> IF known[s] \in Resubscribed THEN NewTag(known[s]) ELSE known[s]]
  /\ UNCHANGED <<options, tracked, bindCallback, linkVars, brokerVars, calls, wanted, active,
                 incidents>>

\* The first task waiting for this reply, sent or not.
Awaiting(op) ==
  {i \in 1..Len(tasks) : tasks[i].op = op /\ \A j \in 1..(i - 1) : tasks[j].op # op}

Without(i) == SubSeq(tasks, 1, i - 1) \o SubSeq(tasks, i + 1, Len(tasks))

\* The promise of subscribe() is given the tag the reply names.
OnConsumeOk ==
  /\ Receive("consumeOk")
  /\ IF Awaiting("consume") = {}
       THEN Flush(state, registered, consumers, tasks, <<>>) /\ UNCHANGED known
       ELSE \E i \in Awaiting("consume") :
              /\ known' = IF tasks[i].sub = None THEN known
                          ELSE [known EXCEPT ![tasks[i].sub] = Head(toClient).arg]
              /\ Flush(state, registered, consumers, Without(i), <<>>)
  /\ UNCHANGED <<options, state, tracked, bindVars, nextTag, linkVars, brokerVars,
                 calls, wanted, active, incidents>>

\* The promise of unsubscribe() forgets the tag of its own task, and closes the
\* channel if that is asked for.
OnCancelOk ==
  /\ Receive("cancelOk")
  /\ \E i \in Awaiting("cancel") :
       LET left == {c \in consumers : c.tag # tasks[i].arg} IN
       IF options.closeChannelOnUnsubscribe
         THEN /\ state' = "closing"
              /\ incidents' = incidents \cup {"close"}
              /\ Flush("closing", registered, left, Without(i), Method("close", None))
         ELSE /\ Flush(state, registered, left, Without(i), <<>>)
              /\ UNCHANGED <<state, incidents>>
  /\ UNCHANGED <<options, tracked, bindVars, nextTag, linkVars, brokerVars, appVars>>

\* Replies without an effect but for their task.
OnReply ==
  /\ \E op \in {"unbind", "delete"} :
       /\ Receive(IF op = "unbind" THEN "unbindOk" ELSE "deleteOk")
       /\ \/ Awaiting(op) = {} /\ Flush(state, registered, consumers, tasks, <<>>)
          \/ \E i \in Awaiting(op) : Flush(state, registered, consumers, Without(i), <<>>)
  /\ UNCHANGED <<options, state, tracked, bindVars, nextTag, linkVars, brokerVars, appVars,
                 incidents>>

OnBindOk ==
  /\ Receive("bindOk")
  /\ bindCallback' = None
  /\ Flush(state, registered, consumers, tasks, <<>>)
  /\ UNCHANGED <<options, state, tracked, bindings, nextTag, linkVars, brokerVars, appVars,
                 incidents>>

\* A consumer the server cancelled: the queue closes its channel.
OnBasicCancel ==
  /\ Receive("basicCancel")
  /\ state' = "closing"
  /\ Flush("closing", registered, consumers, tasks, Method("close", None))
  /\ UNCHANGED <<options, tracked, bindVars, nextTag, linkVars, brokerVars, appVars, incidents>>

OnChannelClose ==
  /\ Receive("close")
  /\ state' = "closed"
  /\ Flush("closed", FALSE, consumers, tasks, Method("closeOk", None))
  /\ UNCHANGED <<options, tracked, bindVars, nextTag, linkVars, brokerVars, appVars, incidents>>

OnChannelCloseOk ==
  /\ Receive("closeOk")
  /\ tracked' = FALSE
  /\ state' = "closed"
  /\ Flush("closed", FALSE, consumers, tasks, <<>>)
  /\ UNCHANGED <<options, bindVars, nextTag, linkVars, brokerVars, appVars, incidents>>

-----------------------------------------------------------------------------
(* The connection *)

Pending(op) == \E i \in 1..Len(tasks) : tasks[i].op = op /\ tasks[i].sent

\* What the server has left after the connection is gone: the consumers never,
\* the queue and its bindings perhaps.
ServerForgets ==
  /\ srv' = "closed"
  /\ srvConsumers' = {}
  /\ \/ UNCHANGED <<exists, srvBindings>>
     \/ ~options.noDeclare /\ exists' = FALSE /\ srvBindings' = {}
  /\ toServer' = <<>>
  /\ toClient' = <<>>

LostRequests == (IF Pending("cancel") THEN {"cancelLost"} ELSE {})
                  \cup (IF Pending("unbind") THEN {"unbindLost"} ELSE {})

\* The channel is closed and what was under way is lost.
LoseChannel ==
  /\ link' = FALSE
  /\ state' = IF tracked THEN "closed" ELSE state
  /\ ServerForgets
  /\ UNCHANGED <<options, tracked, registered, bindVars, nextTag, tasks, appVars>>

\* Slip: subscriptions are not marked closed.
EmitErrorMarksNothing(incident) ==
  /\ LoseChannel
  /\ incidents' = incidents \cup LostRequests \cup incident
  /\ UNCHANGED consumers

\* The 'backoff' listener, for the loss of a connection or an attempt that
\* failed: the subscriptions of a queue that is in connection.queues are marked
\* closed.
EmitError(incident) ==
  /\ LoseChannel
  /\ consumers' = IF registered THEN {[c EXCEPT !.state = "closed"] : c \in consumers}
                                ELSE consumers
  /\ incidents' = incidents \cup LostRequests \cup incident

LinkError ==
  /\ "error" \in Faults
  /\ losses < MaxLosses
  /\ losses' = losses + 1
  /\ EmitError({})

\* connection.reconnect() emits no error: subscriptions are not marked.
UserReconnect ==
  /\ May("userReconnect")
  /\ losses < MaxLosses
  /\ losses' = losses + 1
  /\ link
  /\ LoseChannel
  /\ incidents' = incidents \cup LostRequests \cup {"userReconnect"}
  /\ UNCHANGED consumers

\* The 'ready' listener calls reconnect() of every tracked channel.
LinkReady ==
  /\ ~link
  /\ link' = TRUE
  /\ toServer' = IF tracked THEN Method("channelOpen", None) ELSE <<>>
  /\ UNCHANGED <<options, channelVars, bindVars, consumeVars, tasks, losses, toClient, brokerVars,
                 appVars, incidents>>

-----------------------------------------------------------------------------
(* The server *)

clientVars == <<options, channelVars, bindVars, consumeVars, tasks, linkVars, appVars>>

ServerReads(m) ==
  /\ link
  /\ toServer # <<>>
  /\ Head(toServer).m = m
  /\ toServer' = Tail(toServer)
  /\ UNCHANGED clientVars

Subject == Head(toServer).arg

Answer(m, arg) == toClient' = toClient \o Method(m, arg)

SrvChannelOpen ==
  /\ ServerReads("channelOpen")
  /\ srv = "closed"
  /\ srv' = "open"
  /\ Answer("channelOpenOk", None)
  /\ UNCHANGED <<exists, srvBindings, srvConsumers, incidents>>

SrvDeclare ==
  /\ ServerReads("declare")
  /\ srv = "open"
  /\ exists' = TRUE
  /\ Answer("declareOk", None)
  /\ UNCHANGED <<srv, srvBindings, srvConsumers, incidents>>

SrvBind ==
  /\ ServerReads("bind")
  /\ srv = "open"
  /\ exists
  /\ srvBindings' = srvBindings \cup {Subject}
  /\ Answer("bindOk", None)
  /\ UNCHANGED <<srv, exists, srvConsumers, incidents>>

SrvUnbind ==
  /\ ServerReads("unbind")
  /\ srv = "open"
  /\ srvBindings' = srvBindings \ {Subject}
  /\ Answer("unbindOk", None)
  /\ UNCHANGED <<srv, exists, srvConsumers, incidents>>

SrvConsume ==
  /\ ServerReads("consume")
  /\ srv = "open"
  /\ exists
  /\ srvConsumers' = srvConsumers \cup {Subject}
  /\ Answer("consumeOk", Subject)
  /\ UNCHANGED <<srv, exists, srvBindings, incidents>>

SrvCancel ==
  /\ ServerReads("cancel")
  /\ srv = "open"
  /\ srvConsumers' = srvConsumers \ {Subject}
  /\ Answer("cancelOk", Subject)
  /\ UNCHANGED <<srv, exists, srvBindings, incidents>>

SrvDelete ==
  /\ ServerReads("delete")
  /\ srv = "open"
  /\ exists' = FALSE
  /\ srvBindings' = {}
  /\ srvConsumers' = {}
  /\ Answer("deleteOk", None)
  /\ UNCHANGED <<srv, incidents>>

\* Another declaration, an unknown exchange, or a queue that is gone.
SrvRefuse ==
  /\ \/ \E m \in {"declare", "bind"} : ServerReads(m) /\ May("refuse")
     \/ \E m \in {"bind", "consume"} : ServerReads(m) /\ ~exists
  /\ srv = "open"
  /\ srv' = "refused"
  /\ srvConsumers' = {}
  /\ Answer("close", None)
  /\ incidents' = incidents \cup {"refuse"}
  /\ UNCHANGED <<exists, srvBindings>>

\* What follows on a refused channel is discarded until close-ok.
SrvDiscard ==
  /\ \E m \in {"bind", "unbind", "consume", "cancel", "delete", "declare"} : ServerReads(m)
  /\ srv = "refused"
  /\ UNCHANGED <<toClient, brokerVars, incidents>>

SrvClose ==
  /\ ServerReads("close")
  /\ srv # "closed"
  /\ srv' = IF srv = "refused" THEN srv ELSE "closed"
  /\ srvConsumers' = {}
  /\ Answer("closeOk", None)
  /\ UNCHANGED <<exists, srvBindings, incidents>>

SrvCloseOk ==
  /\ ServerReads("closeOk")
  /\ srv' = "closed"
  /\ UNCHANGED <<toClient, exists, srvBindings, srvConsumers, incidents>>

\* Anything else on a channel that is not open makes it drop the connection.
SrvUnexpected ==
  /\ link
  /\ toServer # <<>>
  /\ srv = "closed"
  /\ Head(toServer).m \notin {"channelOpen", "closeOk"}
  /\ EmitError({"dropped"})
  /\ UNCHANGED losses

\* The queue is deleted by somebody else; its consumers are told.
SrvQueueDeleted ==
  /\ May("deleted")
  /\ exists
  /\ exists' = FALSE
  /\ srvBindings' = {}
  /\ srvConsumers' = {}
  /\ \E tags \in SetToSeqs(srvConsumers) :
       toClient' = toClient \o [i \in 1..Len(tags) |-> [m |-> "basicCancel", arg |-> None]]
  /\ incidents' = incidents \cup {"deleted"}
  /\ UNCHANGED <<clientVars, toServer, srv>>

-----------------------------------------------------------------------------
ClientStep == \/ OnChannelOpenOk \/ OnDeclareOk \/ OnConsumeOk \/ OnCancelOk \/ OnReply
              \/ OnBindOk \/ OnBasicCancel \/ OnChannelClose \/ OnChannelCloseOk

ServerStep == \/ SrvChannelOpen \/ SrvDeclare \/ SrvBind \/ SrvUnbind \/ SrvConsume \/ SrvCancel
              \/ SrvDelete \/ SrvRefuse \/ SrvDiscard \/ SrvClose \/ SrvCloseOk \/ SrvUnexpected

Next == \/ \E k \in Key : Unbind(k) \/ \E callback \in BOOLEAN : Bind(k, callback)
        \/ \E s \in Sub : Subscribe(s) \/ Unsubscribe(s)
        \/ Destroy \/ Close
        \/ ClientStep
        \/ LinkError \/ UserReconnect \/ LinkReady
        \/ ServerStep \/ SrvQueueDeleted

Spec == Init /\ [][Next]_vars

(***************************************************************************)
(* The event loop dispatches what has arrived, a lost connection is        *)
(* re-established, and the server keeps reading.                           *)
(***************************************************************************)
FairSpec == Spec /\ WF_vars(ClientStep) /\ WF_vars(ServerStep) /\ WF_vars(LinkReady)

-----------------------------------------------------------------------------
(* Correctness *)

\* Nothing is under way.
Settled == link /\ tracked /\ state = "open" /\ toServer = <<>> /\ toClient = <<>>

Restores == ~options.noDeclare \/ losses = 0

Listeners(s) == {c.tag : c \in {d \in consumers : d.sub = s}}

DeliveriesAreHeard ==
  srvConsumers \subseteq UNION {Listeners(s) : s \in Sub}

TagIsOwn ==
  \A s \in Sub : \A c \in consumers : c.tag = known[s] => c.sub = s

NeverLost == losses = 0 /\ "dropped" \notin incidents

\* A consumer of the server has its listener in consumerTagListeners, so that what
\* it delivers is not dropped; and as long as the connection was never lost, nor
\* dropped by the server, the tag the application holds for a subscription belongs
\* to it, so that unsubscribe() stops no other.
ListenersAgree == DeliveriesAreHeard /\ (NeverLost => TagIsOwn)

\* After any losses each subscription has one consumer, and one that was
\* stopped has none, unless the unsubscribe was lost with its connection or
\* given the tag of another subscription, or the application reconnected.
OneConsumerEach ==
  Settled /\ Restores /\ incidents \subseteq {"unbindLost"} =>
    \A s \in Sub : Cardinality(srvConsumers \cap Listeners(s)) = IF active[s] = "asked" THEN 1 ELSE 0

\* Incidents that concern consumers, and an unbind that was lost.
Harmless == {"unbindLost", "cancelLost", "misdirected", "userReconnect"}

BindingsRestored ==
  Settled /\ Restores /\ incidents \subseteq Harmless => wanted \subseteq srvBindings

NoForgottenBinding ==
  Settled /\ "unbindLost" \notin incidents => srvBindings \subseteq {k \in Key : bindings[k] > 0}

\* After any losses, those that cost the server the queue included, the keys the
\* application has bound and not unbound are bound, and the server has no binding
\* the client has forgotten, unless the unbind was lost with its connection.
BindingsAgree == BindingsRestored /\ NoForgottenBinding

\* The callback of bind() is called, also when the bind was lost with its
\* connection; not when the key was unbound meanwhile.
BindIsAnswered ==
  \A k \in Key :
    bindCallback = k /\ Restores ~>
      \/ bindCallback # k
      \/ k \notin wanted \/ ~Restores \/ ~(incidents \subseteq Harmless)
=============================================================================
