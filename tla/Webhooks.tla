------------------------------ MODULE Webhooks ------------------------------
(***************************************************************************)
(* One webhook endpoint: the service that manages it                       *)
(* (internal/app/webhook/service.go), the dispatcher that posts events to  *)
(* it and retries (internal/infra/webhooks/dispatcher.go), and the two     *)
(* tables in postgres (internal/infra/postgres/webhook_repo.go).  The      *)
(* in-memory endpoint table writes whole rows back (MemUpdate).            *)
(*                                                                         *)
(* A slot is a goroutine that delivers; Slots bounds how many run at once. *)
(* Time is abstracted: a pending row is due when the worker lists it.  A   *)
(* crash of the server ends the goroutines and the requests; the tables    *)
(* survive it.                                                             *)
(***************************************************************************)
EXTENDS Naturals, Sequences, FiniteSets, SequencesExt

CONSTANTS
  HookEvents,     \* events published to the endpoint's tenant
  Slots,          \* goroutines that may deliver at once
  HookReqs,       \* calls of the management API
  MaxSent,        \* events and pings that are sent
  MaxAttempts,    \* MaxDeliveryAttempts
  MaxCrashes,     \* crashes of the server and updates of rows that fail
  InMemory        \* the endpoint table is the in-memory one

VARIABLES
  endpoint,   \* the row of the endpoint
  call,       \* the management calls
  sent,       \* the events dispatched so far
  slot,       \* the delivering goroutines
  rows,       \* the deliveries table
  batch,      \* what the retry worker listed and has not started yet
  crashes

hookVars == <<endpoint, call, sent, slot, rows, batch, crashes>>

Ping == "webhook.test"

NoEndpoint == [exists |-> FALSE, active |-> FALSE, secret |-> 0, failures |-> 0]

Free == [pc |-> "free", ev |-> Ping, attempt |-> 0, row |-> 0, status |-> "pending"]

NewCall == [pc |-> "idle", op |-> "none", copy |-> NoEndpoint]

Init ==
  /\ endpoint = NoEndpoint /\ call = [r \in HookReqs |-> NewCall] /\ sent = {}
  /\ slot = [g \in Slots |-> Free] /\ rows = <<>> /\ batch = {} /\ crashes = 0

(***************************************************************************)
(* The management API.  Update, rotation and deletion read the endpoint,   *)
(* test its owner, and write: a read and a write in two steps.             *)
(***************************************************************************)
CreateEndpoint(active) ==
  /\ endpoint = NoEndpoint /\ rows = <<>>
  /\ endpoint' = [exists |-> TRUE, active |-> active, secret |-> 1, failures |-> 0]
  /\ UNCHANGED <<call, sent, slot, rows, batch, crashes>>

\* GetByID, which returns a copy of the row.
GetEndpoint(r, op) ==
  /\ call[r].pc = "idle" /\ endpoint.exists
  /\ call' = [call EXCEPT ![r] = [pc |-> "read", op |-> op, copy |-> endpoint]]
  /\ UNCHANGED <<endpoint, sent, slot, rows, batch, crashes>>

\* Update in memory: the whole copy replaces the row, its counters too.
MemUpdate(copy) == copy

\* Update in postgres: name, url, secret, active and types, by id.
SqlUpdate(copy) == [copy EXCEPT !.failures = endpoint.failures]

Update(copy) ==
  IF ~endpoint.exists THEN endpoint
  ELSE IF InMemory THEN MemUpdate(copy) ELSE SqlUpdate(copy)

UpdateEndpoint(r, active) ==
  /\ call[r].pc = "read" /\ call[r].op = "update"
  /\ endpoint' = Update([call[r].copy EXCEPT !.active = active])
  /\ call' = [call EXCEPT ![r].pc = "done"]
  /\ UNCHANGED <<sent, slot, rows, batch, crashes>>

RotateSecret(r) ==
  /\ call[r].pc = "read" /\ call[r].op = "rotate"
  /\ endpoint' = Update([call[r].copy EXCEPT !.secret = 2])
  /\ call' = [call EXCEPT ![r].pc = "done"]
  /\ UNCHANGED <<sent, slot, rows, batch, crashes>>

\* Delete; its deliveries keep their rows.
DeleteEndpoint(r) ==
  /\ call[r].pc = "read" /\ call[r].op = "delete"
  /\ endpoint' = NoEndpoint
  /\ call' = [call EXCEPT ![r].pc = "done"]
  /\ UNCHANGED <<sent, slot, rows, batch, crashes>>

Start(g, ev, attempt, row) ==
  slot' = [slot EXCEPT ![g] = [Free EXCEPT !.pc = "post", !.ev = ev, !.attempt = attempt, !.row = row]]

\* A ping goes to an inactive endpoint as well.
TestEndpoint(r, g) ==
  /\ call[r].pc = "read" /\ call[r].op = "test" /\ slot[g].pc = "free"
  /\ Cardinality(sent) < MaxSent /\ sent' = sent \cup {Ping}
  /\ Start(g, Ping, 1, 0)
  /\ call' = [call EXCEPT ![r].pc = "done"]
  /\ UNCHANGED <<endpoint, rows, batch, crashes>>

(***************************************************************************)
(* The dispatcher.                                                         *)
(***************************************************************************)
\* SubscribesTo: the event's type is among the endpoint's.
Subscribed == endpoint.exists /\ endpoint.active

\* DispatchEvent: the goroutine stores nothing before it has an answer.
DispatchEvent(e, g) ==
  /\ e \notin sent /\ Cardinality(sent) < MaxSent /\ slot[g].pc = "free"
  /\ sent' = sent \cup {e}
  /\ IF Subscribed THEN Start(g, e, 1, 0) ELSE UNCHANGED slot
  /\ UNCHANGED <<endpoint, call, rows, batch, crashes>>

\* UpdateDeliveryStats touches the endpoint if it still exists.  Of the number
\* of failures in a row nothing is kept but whether there are any.
UpdateDeliveryStats(failed) ==
  IF endpoint.exists
  THEN [endpoint EXCEPT !.failures = IF failed THEN 1 ELSE 0] ELSE endpoint

\* Mutant: one attempt too many.
handleFailureLate(attempt, fatal) == IF fatal \/ attempt > MaxAttempts THEN "dead_letter" ELSE "pending"

\* handleFailure: a 4xx other than 408 and 429 is final, and so is the last
\* attempt; otherwise the next retry is scheduled.
handleFailure(attempt, fatal) == IF fatal \/ attempt >= MaxAttempts THEN "dead_letter" ELSE "pending"

\* An error of a write to the deliveries table is dropped.
LostUpdate == ~InMemory /\ crashes < MaxCrashes /\ crashes' = crashes + 1 /\ UNCHANGED rows

Record(g, status) ==
  /\ \/ rows' = Append(rows, [ev |-> slot[g].ev, attempt |-> slot[g].attempt, status |-> status])
     \/ ~InMemory /\ rows' = rows
  /\ slot' = [slot EXCEPT ![g] = IF slot[g].row = 0 THEN Free
                                 ELSE [@ EXCEPT !.pc = "answered", !.status = status]]

\* deliver: the answer, the counters and a row of its own for the attempt
\* (two calls on two tables that no step reads together).
Deliver(g, failed, fatal) ==
  /\ slot[g].pc = "post"
  /\ Record(g, IF failed THEN handleFailure(slot[g].attempt, fatal) ELSE "delivered")
  /\ endpoint' = UpdateDeliveryStats(failed)
  /\ UNCHANGED <<call, sent, batch, crashes>>

\* A refused URL is a dead letter that counts as a failure; an event that
\* cannot be encoded or a malformed request is one that does not.
Undeliverable(g, counted) ==
  /\ slot[g].pc = "post"
  /\ Record(g, "dead_letter")
  /\ endpoint' = IF counted THEN UpdateDeliveryStats(TRUE) ELSE endpoint
  /\ UNCHANGED <<call, sent, batch, crashes>>

\* ListPendingRetries: copies of the rows that are due.
ListPendingRetries ==
  /\ batch = {}
  /\ batch' = {[row |-> i, ev |-> rows[i].ev, attempt |-> rows[i].attempt] :
                 i \in {j \in DOMAIN rows : rows[j].status = "pending"}}
  /\ batch' # {}
  /\ UNCHANGED <<endpoint, call, sent, slot, rows, crashes>>

\* The worker starts a goroutine for a listed row, or gives the row up.
Retry(b, g) ==
  /\ endpoint.exists /\ endpoint.active /\ slot[g].pc = "free"
  /\ Start(g, b.ev, b.attempt + 1, b.row)
  /\ batch' = batch \ {b}
  /\ UNCHANGED <<endpoint, call, sent, rows, crashes>>

\* Mutant: a row whose endpoint is gone is skipped.
SkipInactive(b) ==
  /\ ~(endpoint.exists /\ endpoint.active)
  /\ batch' = batch \ {b}
  /\ UNCHANGED <<endpoint, call, sent, slot, rows, crashes>>

GiveUp(b) ==
  /\ ~(endpoint.exists /\ endpoint.active)
  /\ \/ rows' = [rows EXCEPT ![b.row].status = "dead_letter"] /\ UNCHANGED crashes
     \/ LostUpdate
  /\ batch' = batch \ {b}
  /\ UNCHANGED <<endpoint, call, sent, slot>>

\* The retried row takes over what the new row of the attempt says.
UpdateRow(g) ==
  /\ slot[g].pc = "answered"
  /\ \/ /\ rows' = [rows EXCEPT ![slot[g].row].attempt = slot[g].attempt,
                                ![slot[g].row].status = slot[g].status]
        /\ UNCHANGED crashes
     \/ LostUpdate
  /\ slot' = [slot EXCEPT ![g] = Free]
  /\ UNCHANGED <<endpoint, call, sent, batch>>

\* The process ends and starts again: goroutines, calls and the batch are lost.
Crash ==
  /\ crashes < MaxCrashes /\ crashes' = crashes + 1
  /\ slot' = [g \in Slots |-> Free] /\ batch' = {}
  /\ call' = [r \in HookReqs |-> IF call[r].pc = "read" THEN [call[r] EXCEPT !.pc = "done"] ELSE call[r]]
  /\ UNCHANGED <<endpoint, sent, rows>>

RetryWorker ==
  \/ ListPendingRetries
  \/ \E b \in batch : GiveUp(b) \/ \E g \in Slots : Retry(b, g)

Delivers(g) ==
  \/ \E failed, fatal \in BOOLEAN : (fatal => failed) /\ Deliver(g, failed, fatal)
  \/ \E counted \in BOOLEAN : Undeliverable(g, counted)
  \/ UpdateRow(g)

Manage(r) ==
  \/ \E op \in {"update", "rotate", "delete", "test"} : GetEndpoint(r, op)
  \/ \E active \in BOOLEAN : UpdateEndpoint(r, active)
  \/ RotateSecret(r) \/ DeleteEndpoint(r) \/ \E g \in Slots : TestEndpoint(r, g)

Next ==
  \/ \E active \in BOOLEAN : CreateEndpoint(active)
  \/ \E r \in HookReqs : Manage(r)
  \/ \E e \in HookEvents, g \in Slots : DispatchEvent(e, g)
  \/ \E g \in Slots : Delivers(g)
  \/ RetryWorker
  \/ Crash

\* Whatever the overlap of retries, no post carries an attempt past
\* MaxDeliveryAttempts, and a pending row has been attempted and has a retry
\* interval left: handleFailure indexes retryIntervals with the attempt, and
\* panics outside it and at the interval 0.  How often one event is posted is
\* not bounded by it: a retry stores a second row that is retried as well.
AttemptsInRange ==
  /\ \A g \in Slots : slot[g].pc # "free" => slot[g].attempt \in 1 .. MaxAttempts
  /\ \A i \in DOMAIN rows : rows[i].attempt \in 1 .. MaxAttempts
  /\ \A i \in DOMAIN rows : rows[i].status = "pending" => rows[i].attempt < MaxAttempts

\* Every row settles, also when goroutines retry one row twice and write it
\* out of order, the endpoint goes, a write fails or the server crashes.
AllSettled == \A i \in DOMAIN rows : rows[i].status # "pending"

DeliveriesSettle == <>[]AllSettled

\* Fairness: the ticker fires, Go runs the goroutines, and the HTTP client
\* gives up after its timeout, so a post is answered one way or another.
Fairness == WF_hookVars(RetryWorker) /\ \A g \in Slots : WF_hookVars(Delivers(g))

Spec == Init /\ [][Next]_hookVars

FairSpec == Spec /\ Fairness
=============================================================================
