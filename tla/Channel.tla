-------------------------------- MODULE Channel --------------------------------
(***************************************************************************)
(* The task queue every exchange and queue inherits (lib/channel.js), the  *)
(* promises it hands out (lib/promise.js), and what connection losses,     *)
(* refusals and close() do to it.                                          *)
(*                                                                         *)
(* A task is one call of a method that goes through _taskPush: subscribe,  *)
(* unsubscribe, purge, flow, destroy, unbind, bind_headers, and publish,   *)
(* which expects no reply.  The handshake by which a subclass reaches      *)
(* state 'open' is one message and its answer here; module Exchange has it *)
(* in full.                                                                *)
(***************************************************************************)
EXTENDS Integers, Sequences, SeqFilter

CONSTANTS Task,      \* the calls the application makes
          ReplyOf,   \* the method each of them waits for, or NoReply
          NoReply,
          Timed,     \* the calls whose promise the application gave a timeout
          Faults,    \* the misfortunes that may happen
          MaxLosses  \* bound on the connection losses

FaultKinds == { "error",    \* the connection emits 'error' and reconnects
                "refuse",   \* the server answers a request by channel.close
                "close" }   \* the application closes the channel

Kinds == {ReplyOf[t] : t \in Task} \ {NoReply}

ASSUME ReplyAssumption  == DOMAIN ReplyOf = Task
ASSUME TimedAssumption  == Timed \subseteq Task
ASSUME FaultsAssumption == Faults \subseteq FaultKinds
ASSUME LossesAssumption == MaxLosses \in Nat

VARIABLES
  state,    \* this.state, everything short of open counted as "closed"
  tracked,  \* connection.channels[this.channel] === this
  tasks,    \* this._tasks
  promise,  \* what each returned promise has done
  link,     \* the connection is usable
  losses,   \* connection losses so far
  toServer, \* methods written and not yet read
  toClient, \* methods of the server not yet dispatched
  srv,      \* the server's view of the channel
  pushed,   \* history: the tasks in the order they were pushed
  sent,     \* history: the tasks in the order they were written
  done      \* history: the tasks the server has carried out

histVars == <<pushed, sent, done>>
connVars == <<link, losses>>
vars == <<state, tracked, tasks, promise, connVars, toServer, toClient, srv, histVars>>

-----------------------------------------------------------------------------
(* Types and helpers *)

ToServer == [m : {"open", "close", "closeOk"}] \cup [m : {"request"}, task : Task]

\* `of' names the request a reply answers; the wire does not carry it.
ToClient == [m : {"opened", "close", "closeOk"}]
              \cup [m : {"reply"}, kind : Kinds, of : Task]

\* What _tasks may hold: once sent, only a task that waits for a reply.
Entry == {e \in [task : Task, sent : BOOLEAN] : e.sent => ReplyOf[e.task] # NoReply}

\* Every variable stays in its domain.
TypeOK ==
  /\ state \in {"closed", "open", "closing"}
  /\ tracked \in BOOLEAN
  /\ tasks \in Seq(Entry)
  /\ promise \in [Task -> {"idle", "pending", "fulfilled", "timedOut"}]
  /\ link \in BOOLEAN
  /\ losses \in 0..MaxLosses
  /\ toServer \in Seq(ToServer)
  /\ toClient \in Seq(ToClient)
  /\ srv \in {"closed", "open", "refused"}
  /\ pushed \in Seq(Task)
  /\ sent \in Seq(Task)
  /\ done \subseteq Task

Tasks(entries) == [i \in 1..Len(entries) |-> entries[i].task]

Requests(entries) ==
  [i \in 1..Len(entries) |-> [m |-> "request", task |-> entries[i].task]]

Unsent == {e \in Entry : ~e.sent}
Kept   == {e \in Entry : e.sent \/ ReplyOf[e.task] # NoReply}

MarkSent(entries) == [i \in 1..Len(entries) |-> [entries[i] EXCEPT !.sent = TRUE]]

\* Slip: what has been written is not remembered as sent.
FlushForgets(st, entries, wire) ==
  LET unsent == Filter(entries, Unsent) IN
  IF st = "open"
    THEN /\ tasks' = Filter(entries, {e \in Entry : ReplyOf[e.task] # NoReply})
         /\ toServer' = wire \o Requests(unsent)
         /\ sent' = sent \o Tasks(unsent)
    ELSE tasks' = entries /\ toServer' = wire /\ UNCHANGED sent

\* Slip: a sent task without reply is kept.
FlushKeeps(st, entries, wire) ==
  LET unsent == Filter(entries, Unsent) IN
  IF st = "open"
    THEN /\ tasks' = MarkSent(entries)
         /\ toServer' = wire \o Requests(unsent)
         /\ sent' = sent \o Tasks(unsent)
    ELSE tasks' = entries /\ toServer' = wire /\ UNCHANGED sent

\* _tasksFlush on these entries: an open channel writes the unsent ones in
\* order, and keeps those that wait for a reply.
Flush(st, entries, wire) ==
  LET unsent == Filter(entries, Unsent) IN
  IF st = "open"
    THEN /\ tasks' = MarkSent(Filter(entries, Kept))
         /\ toServer' = wire \o Requests(unsent)
         /\ sent' = sent \o Tasks(unsent)
    ELSE tasks' = entries /\ toServer' = wire /\ UNCHANGED sent

-----------------------------------------------------------------------------
(* The application *)

Init ==
  /\ state = "closed"
  /\ tracked = TRUE
  /\ tasks = <<>>
  /\ promise = [t \in Task |-> "idle"]
  /\ link = TRUE
  /\ losses = 0
  /\ toServer = <<[m |-> "open"]>>
  /\ toClient = <<>>
  /\ srv = "closed"
  /\ pushed = <<>>
  /\ sent = <<>>
  /\ done = {}

TaskPush(t) ==
  /\ promise[t] = "idle"
  /\ promise' = [promise EXCEPT ![t] = "pending"]
  /\ pushed' = Append(pushed, t)
  /\ Flush(state, Append(tasks, [task |-> t, sent |-> FALSE]), toServer)
  /\ UNCHANGED <<state, tracked, connVars, toClient, srv, done>>

\* close() only writes on a live connection, and once per opening.
Close ==
  /\ "close" \in Faults
  /\ link
  /\ tracked
  /\ state = "open"
  /\ state' = "closing"
  /\ toServer' = Append(toServer, [m |-> "close"])
  /\ UNCHANGED <<tracked, tasks, promise, connVars, toClient, srv, histVars>>

\* promise.timeout(): the promise has fired, the task stays where it is.
PromiseTimeout(t) ==
  /\ t \in Timed
  /\ promise[t] = "pending"
  /\ promise' = [promise EXCEPT ![t] = "timedOut"]
  /\ UNCHANGED <<state, tracked, tasks, connVars, toServer, toClient, srv, histVars>>

-----------------------------------------------------------------------------
(* What the connection dispatches to the channel *)

Receive(m) ==
  /\ link
  /\ tracked
  /\ toClient # <<>>
  /\ Head(toClient).m = m
  /\ toClient' = Tail(toClient)

\* Slip: the handler returns before its closing _tasksFlush.
OnOpenedNoFlush ==
  /\ Receive("opened")
  /\ state' = "open"
  /\ UNCHANGED <<tracked, tasks, promise, connVars, toServer, srv, histVars>>

\* The subclass sets state 'open'; its _onMethod ends with _tasksFlush.
OnOpened ==
  /\ Receive("opened")
  /\ state' = "open"
  /\ Flush("open", tasks, toServer)
  /\ UNCHANGED <<tracked, promise, connVars, srv, pushed, done>>

\* Slip: the youngest task of the kind is taken.
AwaitingLast(kind) ==
  {i \in 1..Len(tasks) : /\ ReplyOf[tasks[i].task] = kind
                         /\ \A j \in 1..Len(tasks) : ReplyOf[tasks[j].task] = kind => j <= i}

\* The first task waiting for this method, sent or not.
Awaiting(kind) ==
  {i \in 1..Len(tasks) : /\ ReplyOf[tasks[i].task] = kind
                         /\ \A j \in 1..(i - 1) : ReplyOf[tasks[j].task] # kind}

\* Slip: the settled task stays in the queue.
WithoutNothing(i) == tasks

Without(i) == SubSeq(tasks, 1, i - 1) \o SubSeq(tasks, i + 1, Len(tasks))

\* emitSuccess does nothing on a promise that has fired.
EmitSuccess(t) ==
  promise' = [promise EXCEPT ![t] = IF @ = "pending" THEN "fulfilled" ELSE @]

\* _handleTaskReply; with no task waiting the subclass ignores the method.
OnReply ==
  /\ Receive("reply")
  /\ LET kind == Head(toClient).kind IN
     \/ \E i \in Awaiting(kind) :
          /\ EmitSuccess(tasks[i].task)
          /\ Flush(state, Without(i), toServer)
     \/ /\ Awaiting(kind) = {}
        /\ Flush(state, tasks, toServer)
        /\ UNCHANGED promise
  /\ UNCHANGED <<state, tracked, connVars, srv, pushed, done>>

OnChannelClose ==
  /\ Receive("close")
  /\ state' = "closed"
  /\ toServer' = Append(toServer, [m |-> "closeOk"])
  /\ UNCHANGED <<tracked, tasks, promise, connVars, srv, histVars>>

OnChannelCloseOk ==
  /\ Receive("closeOk")
  /\ tracked' = FALSE
  /\ state' = "closed"
  /\ UNCHANGED <<tasks, promise, connVars, toServer, srv, histVars>>

-----------------------------------------------------------------------------
(* The connection *)

\* Slip: the queue of tasks is emptied with the connection.
LinkErrorDrops ==
  /\ "error" \in Faults
  /\ losses < MaxLosses
  /\ link
  /\ losses' = losses + 1
  /\ link' = FALSE
  /\ state' = "closed"
  /\ tasks' = <<>>
  /\ toServer' = <<>>
  /\ toClient' = <<>>
  /\ srv' = "closed"
  /\ UNCHANGED <<tracked, promise, histVars>>

\* The 'backoff' listener closes the tracked channels; their tasks are kept.
LinkError ==
  /\ "error" \in Faults
  /\ losses < MaxLosses
  /\ link
  /\ losses' = losses + 1
  /\ link' = FALSE
  /\ state' = IF tracked THEN "closed" ELSE state
  /\ toServer' = <<>>
  /\ toClient' = <<>>
  /\ srv' = "closed"
  /\ UNCHANGED <<tracked, tasks, promise, histVars>>

\* The 'ready' listener calls reconnect() of every tracked channel.
LinkReady ==
  /\ ~link
  /\ link' = TRUE
  /\ toServer' = IF tracked THEN <<[m |-> "open"]>> ELSE <<>>
  /\ UNCHANGED <<state, tracked, tasks, promise, losses, toClient, srv, histVars>>

-----------------------------------------------------------------------------
(* The server *)

ServerReads(m) ==
  /\ link
  /\ toServer # <<>>
  /\ Head(toServer).m = m
  /\ toServer' = Tail(toServer)

Answer(m) == toClient' = Append(toClient, [m |-> m])

SrvOpen ==
  /\ ServerReads("open")
  /\ srv = "closed"
  /\ srv' = "open"
  /\ Answer("opened")
  /\ UNCHANGED <<state, tracked, tasks, promise, connVars, histVars>>

SrvRequest ==
  /\ ServerReads("request")
  /\ srv = "open"
  /\ LET t == Head(toServer).task IN
     /\ done' = done \cup {t}
     /\ toClient' = IF ReplyOf[t] = NoReply
                      THEN toClient
                      ELSE Append(toClient, [m |-> "reply", kind |-> ReplyOf[t], of |-> t])
  /\ UNCHANGED <<state, tracked, tasks, promise, connVars, srv, pushed, sent>>

\* The request cannot be carried out: channel.close.
SrvRefuse ==
  /\ "refuse" \in Faults
  /\ ServerReads("request")
  /\ srv = "open"
  /\ srv' = "refused"
  /\ Answer("close")
  /\ UNCHANGED <<state, tracked, tasks, promise, connVars, histVars>>

\* What follows on a refused channel is discarded until close-ok.
SrvDiscard ==
  /\ ServerReads("request")
  /\ srv = "refused"
  /\ UNCHANGED <<state, tracked, tasks, promise, connVars, toClient, srv, histVars>>

SrvClose ==
  /\ ServerReads("close")
  /\ srv' = IF srv = "refused" THEN srv ELSE "closed"
  /\ Answer("closeOk")
  /\ UNCHANGED <<state, tracked, tasks, promise, connVars, histVars>>

SrvCloseOk ==
  /\ ServerReads("closeOk")
  /\ srv' = "closed"
  /\ UNCHANGED <<state, tracked, tasks, promise, connVars, toClient, histVars>>

-----------------------------------------------------------------------------
ClientStep == OnOpened \/ OnReply \/ OnChannelClose \/ OnChannelCloseOk
ServerStep == SrvOpen \/ SrvRequest \/ SrvRefuse \/ SrvDiscard \/ SrvClose \/ SrvCloseOk

Next == \/ \E t \in Task : TaskPush(t) \/ PromiseTimeout(t)
        \/ Close \/ LinkError \/ LinkReady
        \/ ClientStep
        \/ ServerStep

Spec == Init /\ [][Next]_vars

(***************************************************************************)
(* The event loop dispatches what has arrived, a lost connection is        *)
(* re-established, and the server keeps reading.                           *)
(***************************************************************************)
FairSpec == Spec /\ WF_vars(ClientStep) /\ WF_vars(ServerStep) /\ WF_vars(LinkReady)

-----------------------------------------------------------------------------
(* Correctness *)

\* An open channel has nothing left to send: after any history of losses,
\* refusals and closes every queued task has been written (_tasksFlush).
OpenMeansFlushed ==
  state = "open" => \A i \in 1..Len(tasks) : tasks[i].sent

\* Requests are written once each, in the order of the calls, with no gap:
\* a reconnection neither repeats nor overtakes nor skips one.
WrittenInOrder ==
  /\ Len(sent) <= Len(pushed)
  /\ \A i \in 1..Len(sent) : sent[i] = pushed[i]

\* A fulfilled promise means the server did what was asked: the reply was not
\* meant for another task (_handleTaskReply matches by method only).
FulfilledMeansDone ==
  \A t \in Task : promise[t] = "fulfilled" => t \in done

\* That much holds as long as the connection has not been lost: refusals, a
\* close or a promise that timed out before its reply mislead no reply.
FulfilledMeansDoneUntilLoss == losses = 0 => FulfilledMeansDone

\* The channel is being closed, or the server has refused it: what is pushed from
\* then on waits until the connection is lost and comes back, if it ever does.
Shut ==
  \/ ~tracked \/ state = "closing" \/ srv = "refused"
  \/ \E i \in 1..Len(toServer) : toServer[i].m \in {"close", "closeOk"}
  \/ link /\ state = "closed" /\ srv = "closed" /\ toServer = <<>>

\* A task pushed at any moment, also while the connection is down, is written, or
\* the channel is shut.
EveryTaskIsWritten ==
  \A t \in Task :
    promise[t] = "pending" ~> (\E i \in 1..Len(sent) : sent[i] = t) \/ Shut

\* Every promise that waits for a reply is fulfilled, whatever stands before
\* its task in the queue, or has timed out, unless the connection is lost or the
\* channel is shut.
EveryPromiseFires ==
  \A t \in Task :
    promise[t] = "pending" /\ ReplyOf[t] # NoReply
      ~> promise[t] \in {"fulfilled", "timedOut"} \/ losses > 0 \/ Shut
=============================================================================
