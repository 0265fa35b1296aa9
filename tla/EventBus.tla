------------------------------ MODULE EventBus ------------------------------
(***************************************************************************)
(* The domain event bus (internal/app/events/bus.go), the event log behind *)
(* it and one WebSocket event stream subscribed to it                      *)
(* (internal/transport/ws/events.go).                                      *)
(*                                                                         *)
(* Every event has a publisher of its own, a request that calls Publish    *)
(* once.  A task carries one event to the subscribers: a worker of the     *)
(* pool, or the goroutine Publish starts for event e when the queue is     *)
(* full, which is task e.                                                  *)
(***************************************************************************)
EXTENDS Naturals, Sequences, FiniteSets, SequencesExt

CONSTANTS
  Events,     \* the events published
  TypeOf,     \* type of an event, as the sequence of its dotted segments
  TenantOf,   \* tenant of an event
  Handlers,   \* the handlers main registers before the server starts
  PatternOf,  \* pattern of a handler: [any, segs]
  Workers,    \* the pool of workers
  Buffer,     \* capacity of the queue
  StreamCap,  \* capacity of a stream's channel
  User,       \* the tenant who opens the stream
  Admin       \* whether the stream's token carries an administrator's permission

VARIABLES
  publ,      \* how far the Publish of each event is
  stored,    \* the event repository
  queue,     \* eventQueue
  closer,    \* how far Close is
  subs,      \* subscribers
  task,      \* what the workers and the overflow goroutines carry
  handled,   \* how often each handler ran for each event
  stream,    \* the stream's connection and its channel
  shown      \* how often each event was written to the stream's client

busVars == <<publ, stored, queue, closer, subs, task, handled, stream, shown>>

\* The two subscriptions of a stream.
StreamSubs == IF Admin THEN {"tenant", "broadcast"} ELSE {"tenant"}

NoTask == [pc |-> "wait", todo |-> {}, ev |-> CHOOSE e \in Events : TRUE]

Init ==
  /\ publ = [e \in Events |-> "idle"] /\ stored = <<>> /\ queue = <<>>
  /\ closer = "open" /\ subs = Handlers
  /\ task = [t \in Workers \cup Events |-> NoTask]
  /\ handled = [h \in Handlers |-> [e \in Events |-> 0]]
  /\ stream = [pc |-> "dial", ch |-> <<>>] /\ shown = [e \in Events |-> 0]

\* The context is canceled.  Close sets closed, cancels and closes the channel
\* under the lock, so nobody reads closed or the subscribers in between.
Closed == closer # "open"

Locked == closer = "canceled"

\* A send on the channel is still possible.
Sendable == closer \in {"open", "canceled"}

\* "*" matches every type, "a.*" the types below a, other patterns themselves.
matchesPattern(p, type) ==
  \/ p.any /\ (p.segs = <<>> \/ IsStrictPrefix(p.segs, type))
  \/ ~p.any /\ p.segs = type

(***************************************************************************)
(* Publish: the test of closed, the append to the log and the send are     *)
(* three steps, and the two of Close may come between any two of them.     *)
(***************************************************************************)
PublishRefused(e) ==
  /\ publ[e] = "idle" /\ ~Sendable
  /\ publ' = [publ EXCEPT ![e] = "refused"]
  /\ UNCHANGED <<stored, queue, closer, subs, task, handled, stream, shown>>

PublishChecks(e) ==
  /\ publ[e] = "idle" /\ ~Closed
  /\ publ' = [publ EXCEPT ![e] = "checked"]
  /\ UNCHANGED <<stored, queue, closer, subs, task, handled, stream, shown>>

\* The log is appended to; an error is only logged.
Store(e) ==
  /\ publ[e] = "checked"
  /\ publ' = [publ EXCEPT ![e] = "stored"]
  /\ stored' \in {Append(stored, e), stored}
  /\ UNCHANGED <<queue, closer, subs, task, handled, stream, shown>>

\* A send after the cancellation is late: the workers may have left.
Enqueue(e) ==
  /\ publ[e] = "stored" /\ Sendable /\ Len(queue) < Buffer
  /\ queue' = Append(queue, e)
  /\ publ' = [publ EXCEPT ![e] = IF Closed THEN "late" ELSE "queued"]
  /\ UNCHANGED <<stored, closer, subs, task, handled, stream, shown>>

\* Mutant: a saturated queue drops the event.
OverflowDrops(e) ==
  /\ publ[e] = "stored" /\ Sendable /\ Len(queue) = Buffer
  /\ publ' = [publ EXCEPT ![e] = "overflow"]
  /\ UNCHANGED <<stored, queue, closer, subs, task, handled, stream, shown>>

\* A saturated queue: a goroutine of its own, which no wait group knows.
Overflow(e) ==
  /\ publ[e] = "stored" /\ Sendable /\ Len(queue) = Buffer
  /\ task' = [task EXCEPT ![e] = [NoTask EXCEPT !.pc = "got", !.ev = e]]
  /\ publ' = [publ EXCEPT ![e] = "overflow"]
  /\ UNCHANGED <<stored, queue, closer, subs, handled, stream, shown>>

\* A send on the channel Close closed meanwhile panics in the publisher.
SendPanics(e) ==
  /\ publ[e] = "stored" /\ ~Sendable
  /\ publ' = [publ EXCEPT ![e] = "panic"]
  /\ UNCHANGED <<stored, queue, closer, subs, task, handled, stream, shown>>

(***************************************************************************)
(* The workers and dispatchDirect.                                         *)
(***************************************************************************)
\* A receive, in the loop or in the drain after the context is done.
Receive(w) ==
  /\ task[w].pc = "wait" /\ queue # <<>>
  /\ task' = [task EXCEPT ![w].pc = "got", ![w].ev = Head(queue)]
  /\ queue' = Tail(queue)
  /\ UNCHANGED <<publ, stored, closer, subs, handled, stream, shown>>

\* Mutant: a worker returns as soon as the context is done.
WorkerExitsEarly(w) ==
  /\ task[w].pc = "wait" /\ Closed
  /\ task' = [task EXCEPT ![w].pc = "exit"]
  /\ UNCHANGED <<publ, stored, queue, closer, subs, handled, stream, shown>>

\* The context is done and the queue empty, closed or not.
WorkerExits(w) ==
  /\ task[w].pc = "wait" /\ Closed /\ queue = <<>>
  /\ task' = [task EXCEPT ![w].pc = "exit"]
  /\ UNCHANGED <<publ, stored, queue, closer, subs, handled, stream, shown>>

\* The subscribers are copied under the lock and called without it.
CopySubscribers(t) ==
  /\ task[t].pc = "got" /\ ~Locked
  /\ task' = [task EXCEPT ![t].pc = "run", ![t].todo = subs]
  /\ UNCHANGED <<publ, stored, queue, closer, subs, handled, stream, shown>>

\* Mutant: the broadcast does not leave out the tenant's own events.
StreamWantsAll(s, e) == s = "broadcast" \/ TenantOf[e] = User

\* The handlers of a stream: the tenant's own events, and for an
\* administrator everybody else's.
StreamWants(s, e) == IF s = "tenant" THEN TenantOf[e] = User ELSE TenantOf[e] # User

\* A full channel drops the event.
Offer(e) ==
  IF Len(stream.ch) < StreamCap THEN [stream EXCEPT !.ch = Append(@, e)] ELSE stream

\* Subscribers are called one after the other, in the order of a Go map.
CallHandler(t, s) ==
  /\ task[t].pc = "run" /\ s \in task[t].todo
  /\ task' = [task EXCEPT ![t].todo = @ \ {s}]
  /\ LET e == task[t].ev IN
     IF s \in Handlers
     THEN /\ handled' = [handled EXCEPT ![s][e] =
                           IF matchesPattern(PatternOf[s], TypeOf[e]) THEN @ + 1 ELSE @]
          /\ UNCHANGED stream
     ELSE /\ stream' = IF StreamWants(s, e) THEN Offer(e) ELSE stream
          /\ UNCHANGED handled
  /\ UNCHANGED <<publ, stored, queue, closer, subs, shown>>

Dispatched(t) ==
  /\ task[t].pc = "run" /\ task[t].todo = {}
  /\ task' = [task EXCEPT ![t].pc = IF t \in Workers THEN "wait" ELSE "exit"]
  /\ UNCHANGED <<publ, stored, queue, closer, subs, handled, stream, shown>>

\* Close cancels the context, closes the channel and waits for the workers.
Close ==
  /\ closer = "open" /\ closer' = "canceled"
  /\ UNCHANGED <<publ, stored, queue, subs, task, handled, stream, shown>>

CloseChannel ==
  /\ Locked /\ closer' = "waiting"
  /\ UNCHANGED <<publ, stored, queue, subs, task, handled, stream, shown>>

CloseReturns ==
  /\ closer = "waiting" /\ \A w \in Workers : task[w].pc = "exit"
  /\ closer' = "closed"
  /\ UNCHANGED <<publ, stored, queue, subs, task, handled, stream, shown>>

(***************************************************************************)
(* One WebSocket stream: it subscribes once or, for an administrator,      *)
(* twice, and drops both when the client goes.                             *)
(***************************************************************************)
Subscribe(s) ==
  /\ stream.pc = "dial" /\ ~Locked /\ s \in StreamSubs \ subs /\ (s = "tenant" \/ "tenant" \in subs)
  /\ subs' = subs \cup {s}
  /\ stream' = IF StreamSubs \subseteq subs' THEN [stream EXCEPT !.pc = "open"] ELSE stream
  /\ UNCHANGED <<publ, stored, queue, closer, task, handled, shown>>

\* The client is gone.  Deferred calls run last first; a task may still hold
\* a copy of a subscription, and then fills a channel nobody reads.
Unsubscribe(s) ==
  /\ stream.pc \in {"open", "left"} /\ ~Locked
  /\ s \in subs \cap StreamSubs /\ (s = "broadcast" \/ "broadcast" \notin subs)
  /\ subs' = subs \ {s} /\ stream' = [stream EXCEPT !.pc = "left"]
  /\ UNCHANGED <<publ, stored, queue, closer, task, handled, shown>>

WriteMessage ==
  /\ stream.pc = "open" /\ stream.ch # <<>>
  /\ stream' = [stream EXCEPT !.ch = Tail(@)]
  /\ shown' = [shown EXCEPT ![Head(stream.ch)] = @ + 1]
  /\ UNCHANGED <<publ, stored, queue, closer, subs, task, handled>>

Publish(e) ==
  \/ PublishRefused(e) \/ PublishChecks(e) \/ Store(e)
  \/ Enqueue(e) \/ Overflow(e) \/ SendPanics(e)

Carry(t) == CopySubscribers(t) \/ Dispatched(t) \/ \E s \in Handlers \cup StreamSubs : CallHandler(t, s)

Worker(w) == Receive(w) \/ WorkerExits(w) \/ Carry(w)

Next ==
  \/ \E e \in Events : Publish(e) \/ Carry(e)
  \/ \E w \in Workers : Worker(w)
  \/ Close \/ CloseChannel \/ CloseReturns
  \/ \E s \in StreamSubs : Subscribe(s) \/ Unsubscribe(s)
  \/ WriteMessage

Wants(h, e) == matchesPattern(PatternOf[h], TypeOf[e])

\* A handler of main runs once for an event it wants, and never for another.
HandledOnce(e) == \A h \in Handlers : handled[h][e] = IF Wants(h, e) THEN 1 ELSE 0

\* When Close returns, every event that was queued before it canceled the
\* context has been handled, once, by every handler that wants it (Close
\* promises to return "after draining").  A send that overtakes the closing of
\* the channel and an overflowing event have no such promise: the first may be
\* left in the queue, the second with its goroutine.
CloseDrains ==
  closer = "closed" => \A e \in Events : publ[e] = "queued" => HandledOnce(e)

\* The client of a stream sees no event twice, although an administrator's
\* stream has two subscriptions, and another tenant's events only if it is
\* an administrator's.
StreamShowsOnce ==
  \A e \in Events : /\ shown[e] + Cardinality({i \in DOMAIN stream.ch : stream.ch[i] = e}) <= 1
                    /\ shown[e] > 0 => Admin \/ TenantOf[e] = User

\* Publish never blocks and never drops: an event it queued while the bus was
\* open is handled by everyone who wants it, also when Close comes first; one
\* that overflowed is too, unless Close returned and the process ends.
AllHandled ==
  \A e \in Events : /\ publ[e] = "queued" => HandledOnce(e)
                    /\ publ[e] = "overflow" /\ closer # "closed" => HandledOnce(e)

AcceptedIsHandled == <>[]AllHandled

\* The goroutines that Close does not wait for run until the process ends.
CarryWhileUp(e) == closer # "closed" /\ Carry(e)

\* Fairness: Go schedules the workers and the goroutines, Close's too.
Fairness ==
  /\ \A w \in Workers : WF_busVars(Worker(w))
  /\ \A e \in Events : WF_busVars(CarryWhileUp(e))
  /\ WF_busVars(CloseChannel)

Spec == Init /\ [][Next]_busVars

FairSpec == Spec /\ Fairness
=============================================================================
