------------------------------- MODULE Billing -------------------------------
(***************************************************************************)
(* One tenant's billing: plans and subscription                            *)
(* (internal/app/billing/service.go), metering (meter.go), invoices        *)
(* (invoice.go), the simulated payment provider (payment.go) and their     *)
(* tables in memory and in postgres.                                       *)
(*                                                                         *)
(* A call of the service is a goroutine.  The in-memory invoice table has  *)
(* a read-write lock: Go's RWMutex lets no reader in while a writer waits. *)
(***************************************************************************)
EXTENDS Naturals, Sequences, FiniteSets, FiniteSetsExt

CONSTANTS
  Plans,            \* ids a plan may have
  Seeded,           \* the plans the table is seeded with
  BillCalls,        \* calls on plans and on the subscription
  Meters,           \* calls of the metering engine
  Generators,       \* calls of GenerateInvoice, one key and one period
  Quantity,         \* what one metered hour adds to each metric
  Included,         \* what a plan includes of each metric, in the period
  Overage,          \* price of a unit above it
  Period,           \* [from, to] of the invoice, in hours
  MaxSubs,          \* rows of the subscriptions table
  MaxTries,         \* times the caller of the metering engine tries
  InvoicesInMemory  \* the invoice table is the in-memory one

VARIABLES
  plans,      \* the plans table: [exists, active, price]
  subs,       \* the tenant's subscriptions, oldest first: [plan, status]
  bill,       \* the calls on plans and subscription
  usage,      \* the usage table: [hour, metric]
  meter,      \* the metering calls
  gen,        \* the invoice calls
  invoices,   \* the invoice table: rows [id, total, status], one key
  payments,   \* charges of the provider: [key, amount, status]
  lock        \* the invoice table's lock: [readers, waiting]

billVars == <<plans, subs, bill, usage, meter, gen, invoices, payments, lock>>
subVars == <<usage, meter, gen, invoices, payments, lock>>
invVars == <<plans, subs, bill, usage, meter>>

NoPlan == [exists |-> FALSE, active |-> FALSE, price |-> 0]
NoSub == [plan |-> "", status |-> "none"]
NewBill == [pc |-> "idle", op |-> "none", plan |-> "", row |-> NoPlan, at |-> 0, sub |-> NoSub]
Metrics == <<"vcpu", "ram", "storage">>
NoLock == [readers |-> {}, waiting |-> {}]

Init ==
  /\ plans = [p \in Plans |-> IF p \in Seeded THEN [exists |-> TRUE, active |-> TRUE, price |-> 1] ELSE NoPlan]
  /\ subs = <<>>
  /\ bill = [c \in BillCalls |-> NewBill]
  /\ usage = {} /\ meter = [m \in Meters |-> [pc |-> "idle", hour |-> 0, next |-> 1, tries |-> 0]]
  /\ gen = [g \in Generators |-> [pc |-> "idle", total |-> 0, status |-> "open", got |-> ""]]
  /\ invoices = {} /\ payments = {} /\ lock = NoLock

(***************************************************************************)
(* Plans and the subscription.  Each operation reads a copy of the row,    *)
(* changes it, and writes the whole row back.                              *)
(***************************************************************************)
\* plan.Validate: a price is never negative; the rest is not modelled.
Validate(price) == price \in Nat

CreatePlan(c, p, price) ==
  /\ bill[c].pc = "idle" /\ ~plans[p].exists /\ Validate(price)
  /\ plans' = [plans EXCEPT ![p] = [exists |-> TRUE, active |-> TRUE, price |-> price]]
  /\ bill' = [bill EXCEPT ![c].pc = "done"]
  /\ UNCHANGED <<subs, subVars>>

GetPlan(c, op, p) ==
  /\ bill[c].pc = "idle" /\ op \in {"update", "deactivate"}
  /\ bill' = [bill EXCEPT ![c] = IF plans[p].exists
       THEN [@ EXCEPT !.pc = "read", !.op = op, !.plan = p, !.row = plans[p]]
       ELSE [@ EXCEPT !.pc = "done"]]
  /\ UNCHANGED <<plans, subs, subVars>>

UpdatePlan(c, price, active) ==
  /\ bill[c].pc = "read" /\ bill[c].op = "update" /\ Validate(price)
  /\ plans' = [plans EXCEPT ![bill[c].plan] = [bill[c].row EXCEPT !.price = price, !.active = active]]
  /\ bill' = [bill EXCEPT ![c].pc = "done"]
  /\ UNCHANGED <<subs, subVars>>

DeactivatePlan(c) ==
  /\ bill[c].pc = "read" /\ bill[c].op = "deactivate"
  /\ plans' = [plans EXCEPT ![bill[c].plan] = [bill[c].row EXCEPT !.active = FALSE]]
  /\ bill' = [bill EXCEPT ![c].pc = "done"]
  /\ UNCHANGED <<subs, subVars>>

\* GetByTenantID: the newest row.
GetByTenantID == IF subs = <<>> THEN NoSub ELSE subs[Len(subs)]

\* SubscribeTenant, its reads: an active plan, and no active subscription.
SubscribeReads(c, p) ==
  /\ bill[c].pc = "idle"
  /\ bill' = [bill EXCEPT ![c] =
       IF plans[p].exists /\ plans[p].active /\ GetByTenantID.status # "active"
       THEN [@ EXCEPT !.pc = "read", !.op = "subscribe", !.plan = p] ELSE [@ EXCEPT !.pc = "done"]]
  /\ UNCHANGED <<plans, subs, subVars>>

SubscribeTenant(c) ==
  /\ bill[c].pc = "read" /\ bill[c].op = "subscribe" /\ Len(subs) < MaxSubs
  /\ subs' = Append(subs, [plan |-> bill[c].plan, status |-> "active"])
  /\ bill' = [bill EXCEPT ![c].pc = "done"]
  /\ UNCHANGED <<plans, subVars>>

\* ChangePlan, its reads: the tenant's newest row, whatever its status, and
\* an active plan.
ChangeReads(c, p) ==
  /\ bill[c].pc = "idle"
  /\ bill' = [bill EXCEPT ![c] =
       IF subs # <<>> /\ plans[p].exists /\ plans[p].active
       THEN [@ EXCEPT !.pc = "read", !.op = "change", !.plan = p, !.at = Len(subs), !.sub = GetByTenantID]
       ELSE [@ EXCEPT !.pc = "done"]]
  /\ UNCHANGED <<plans, subs, subVars>>

ChangePlan(c) ==
  /\ bill[c].pc = "read" /\ bill[c].op = "change"
  /\ subs' = [subs EXCEPT ![bill[c].at] = [bill[c].sub EXCEPT !.plan = bill[c].plan]]
  /\ bill' = [bill EXCEPT ![c].pc = "done"]
  /\ UNCHANGED <<plans, subVars>>

CancelReads(c) ==
  /\ bill[c].pc = "idle" /\ subs # <<>>
  /\ bill' = [bill EXCEPT ![c].pc = "read", ![c].op = "cancel", ![c].at = Len(subs),
                          ![c].sub = GetByTenantID]
  /\ UNCHANGED <<plans, subs, subVars>>

CancelSubscription(c) ==
  /\ bill[c].pc = "read" /\ bill[c].op = "cancel"
  /\ subs' = [subs EXCEPT ![bill[c].at] = [bill[c].sub EXCEPT !.status = "canceled"]]
  /\ bill' = [bill EXCEPT ![c].pc = "done"]
  /\ UNCHANGED <<plans, subVars>>

(***************************************************************************)
(* Metering: three idempotent rows per instance and hour, in order; the    *)
(* first that fails ends the call, and the caller tries the hour again.    *)
(***************************************************************************)
meterRest == <<plans, subs, bill, gen, invoices, payments, lock>>

RecordUsage(hour, metric) == usage \cup {[hour |-> hour, metric |-> metric]}

MeterStarts(m, hour) ==
  /\ meter[m].pc = "idle"
  /\ meter' = [meter EXCEPT ![m].pc = "run", ![m].hour = hour]
  /\ UNCHANGED <<usage, meterRest>>

\* Mutant: the call returns after its first row.
RecordInstanceUsageLast(m) ==
  /\ meter[m].pc = "run"
  /\ usage' = RecordUsage(meter[m].hour, Metrics[meter[m].next])
  /\ meter' = [meter EXCEPT ![m].pc = "done"]
  /\ UNCHANGED meterRest

RecordInstanceUsage(m) ==
  /\ meter[m].pc = "run"
  /\ usage' = RecordUsage(meter[m].hour, Metrics[meter[m].next])
  /\ meter' = [meter EXCEPT ![m] = IF @.next = Len(Metrics)
       THEN [@ EXCEPT !.pc = "done"] ELSE [@ EXCEPT !.next = meter[m].next + 1]]
  /\ UNCHANGED meterRest

RecordFails(m) ==
  /\ meter[m].pc = "run" /\ meter[m].tries < MaxTries
  /\ meter' = [meter EXCEPT ![m].next = 1, ![m].tries = @ + 1]
  /\ UNCHANGED <<usage, meterRest>>

\* RecordStorageVolumeUsage and RecordNetworkEgress record one row.
RecordOneRow(m, metric) ==
  /\ meter[m].pc = "idle"
  /\ \E hour \in Period.from .. Period.to : usage' = RecordUsage(hour, metric)
  /\ meter' = [meter EXCEPT ![m].pc = "done"]
  /\ UNCHANGED meterRest

\* GetAggregate: a row that touches the window counts whole.
GetAggregate(metric) ==
  Quantity * Cardinality({u \in usage : u.metric = metric /\ u.hour >= Period.from /\ u.hour - 1 <= Period.to})

(***************************************************************************)
(* Invoices.                                                               *)
(***************************************************************************)
\* The lines of an invoice: the base price, and each metric's overage.
OverageOf(metric) ==
  IF GetAggregate(metric) > Included THEN (GetAggregate(metric) - Included) * Overage ELSE 0

Subtotal == plans[GetByTenantID.plan].price +
  MapThenSumSet(OverageOf, {"vcpu", "ram", "storage", "egress"})

Reading(g) == g \in lock.readers

\* GetByIdempotencyKey takes the read lock, and GetByID takes it again.
MemLooks(g) ==
  /\ InvoicesInMemory /\ gen[g].pc = "idle"
  /\ lock.waiting = {} /\ ~Reading(g)
  /\ lock' = [lock EXCEPT !.readers = @ \cup {g}]
  /\ gen' = [gen EXCEPT ![g].pc = "locked"]
  /\ UNCHANGED <<invVars, invoices, payments>>

Found(g) ==
  gen' = [gen EXCEPT ![g] = IF invoices = {} THEN [@ EXCEPT !.pc = "load"]
    ELSE [@ EXCEPT !.pc = "done", !.got = (CHOOSE i \in invoices : TRUE).id]]

GetByIdempotencyKey(g) ==
  /\ InvoicesInMemory /\ gen[g].pc = "locked"
  /\ (invoices = {} \/ lock.waiting = {})
  /\ Found(g)
  /\ lock' = [lock EXCEPT !.readers = @ \ {g}]
  /\ UNCHANGED <<invVars, invoices, payments>>

\* In postgres the lookup is one statement.

SqlLooks(g) ==
  /\ ~InvoicesInMemory /\ gen[g].pc = "idle"
  /\ Found(g)
  /\ UNCHANGED <<invVars, invoices, payments, lock>>

\* Mutant: the error of the missing subscription is not returned.
GenerateInvoiceWaits(g) ==
  /\ gen[g].pc = "load" /\ subs # <<>>
  /\ gen' = [gen EXCEPT ![g].pc = "pay", ![g].total = Subtotal]
  /\ UNCHANGED <<invVars, invoices, payments, lock>>

\* The subscription, its plan and the aggregate; without a subscription the
\* call fails.
GenerateInvoice(g) ==
  /\ gen[g].pc = "load"
  /\ gen' = [gen EXCEPT ![g] = IF subs = <<>> THEN [@ EXCEPT !.pc = "failed"]
       ELSE [@ EXCEPT !.pc = "pay", !.total = Subtotal]]
  /\ UNCHANGED <<invVars, invoices, payments, lock>>

\* CreatePayment: its key is made of the invoice's id, new in every call;
\* a total of zero is not charged.
CreatePayment(g) ==
  /\ gen[g].pc = "pay"
  /\ payments' = IF gen[g].total = 0 THEN payments
                 ELSE payments \cup {[key |-> g, amount |-> gen[g].total, status |-> "succeeded"]}
  /\ gen' = [gen EXCEPT ![g].pc = "create", ![g].status = "paid"]
  /\ UNCHANGED <<invVars, invoices, lock>>

\* Create in memory waits for the readers to leave.
MemWaits(g) ==
  /\ InvoicesInMemory /\ gen[g].pc = "create" /\ g \notin lock.waiting
  /\ lock' = [lock EXCEPT !.waiting = @ \cup {g}]
  /\ UNCHANGED <<invVars, gen, invoices, payments>>

\* The row as the call made it; as a mutant of CreateRow, no test of the key.
CreateAgain(g) ==
  /\ invoices' = invoices \cup {[id |-> g, total |-> gen[g].total, status |-> gen[g].status]}
  /\ gen' = [gen EXCEPT ![g].pc = "done", ![g].got = g]

\* A row with the key exists: the call returns that row.
CreateRow(g) ==
  IF invoices = {} THEN CreateAgain(g)
  ELSE /\ gen' = [gen EXCEPT ![g].pc = "done", ![g].got = (CHOOSE i \in invoices : TRUE).id]
       /\ UNCHANGED invoices

MemCreate(g) ==
  /\ InvoicesInMemory /\ gen[g].pc = "create" /\ g \in lock.waiting
  /\ lock.readers = {}
  /\ CreateRow(g)
  /\ lock' = [lock EXCEPT !.waiting = @ \ {g}]
  /\ UNCHANGED <<invVars, payments>>

SqlCreate(g) ==
  /\ ~InvoicesInMemory /\ gen[g].pc = "create"
  /\ CreateRow(g)
  /\ UNCHANGED <<invVars, payments, lock>>

\* The transaction fails after the charge; the caller may ask again.
SqlCreateFails(g) ==
  /\ ~InvoicesInMemory /\ gen[g].pc = "create"
  /\ gen' = [gen EXCEPT ![g].pc = "failed"]
  /\ UNCHANGED <<invVars, invoices, payments, lock>>

\* VoidInvoice, which in memory waits like every writer: the status alone,
\* whatever was paid.
VoidWaits ==
  /\ InvoicesInMemory /\ invoices # {} /\ lock.waiting = {}
  /\ \E i \in invoices : i.status # "void"
  /\ lock' = [lock EXCEPT !.waiting = {"void"}]
  /\ UNCHANGED <<invVars, gen, invoices, payments>>

VoidInvoice ==
  /\ invoices # {} /\ lock.readers = {} /\ (InvoicesInMemory => "void" \in lock.waiting)
  /\ invoices' = {[i EXCEPT !.status = "void"] : i \in invoices}
  /\ lock' = [lock EXCEPT !.waiting = @ \ {"void"}]
  /\ UNCHANGED <<invVars, gen, payments>>

Next ==
  \/ \E c \in BillCalls, p \in Plans :
       \/ \E n \in 1..2 : CreatePlan(c, p, n)
       \/ \E op \in {"update", "deactivate"} : GetPlan(c, op, p)
       \/ SubscribeReads(c, p) \/ ChangeReads(c, p)
  \/ \E c \in BillCalls :
       \/ \E n \in 0..2, a \in BOOLEAN : UpdatePlan(c, n, a)
       \/ DeactivatePlan(c) \/ SubscribeTenant(c) \/ ChangePlan(c)
       \/ CancelReads(c) \/ CancelSubscription(c)
  \/ \E m \in Meters :
       \/ \E hour \in Period.from .. Period.to + 1 : MeterStarts(m, hour)
       \/ RecordInstanceUsage(m) \/ RecordFails(m)
       \/ \E metric \in {"storage", "egress"} : RecordOneRow(m, metric)
  \/ \E g \in Generators :
       \/ MemLooks(g) \/ GetByIdempotencyKey(g) \/ SqlLooks(g) \/ GenerateInvoice(g)
       \/ CreatePayment(g) \/ MemWaits(g) \/ MemCreate(g) \/ SqlCreate(g) \/ SqlCreateFails(g)
  \/ VoidWaits \/ VoidInvoice

\* The steps a call of GenerateInvoice takes on its own.
GeneratorSteps(g) ==
  \/ MemLooks(g) \/ GetByIdempotencyKey(g) \/ SqlLooks(g) \/ GenerateInvoice(g)
  \/ CreatePayment(g) \/ MemWaits(g) \/ MemCreate(g) \/ SqlCreate(g)

Spec == Init /\ [][Next]_billVars

FairSpec ==
  /\ Spec
  /\ \A g \in Generators : WF_billVars(GeneratorSteps(g))
  /\ WF_billVars(VoidInvoice)

(***************************************************************************)
(* One invoice per key: it is the answer to every call with the key that   *)
(* returns one, calls that overlap included, and if it was paid the        *)
(* provider was charged its total (the replay of GenerateInvoice returns   *)
(* the exact invoice, invoice.go:58 and 222).                              *)
(***************************************************************************)
OneInvoice ==
  /\ \A g \in Generators : gen[g].pc = "done" => {i.id : i \in invoices} = {gen[g].got}
  /\ \A i \in invoices : (i.status = "paid" /\ i.total > 0) =>
       \E q \in payments : q.key = i.id /\ q.amount = i.total

(***************************************************************************)
(* A tenant is charged at most once for a key.  The code does not ensure   *)
(* it: the key of the charge is the id of the invoice, new in every call   *)
(* (invoice.go:211), so calls that overlap, or a call repeated after its   *)
(* insert failed, charge again.                                            *)
(***************************************************************************)
ChargedOnce == Cardinality(payments) <= 1

(***************************************************************************)
(* Every call of GenerateInvoice returns.  It does with postgres; in       *)
(* memory GetByIdempotencyKey takes the read lock twice                    *)
(* (invoice_repo.go:98), and a writer that waits between the two stops it  *)
(* and itself for ever.                                                    *)
(***************************************************************************)
AllReturned == \A g \in Generators : gen[g].pc \in {"done", "failed"}

InvoiceReturns == <>[]AllReturned

(***************************************************************************)
(* A metering call that returned without error has recorded its hour in    *)
(* every metric, whatever failed and was tried again in between.           *)
(***************************************************************************)
MeteredWhole ==
  \A m \in Meters : (meter[m].pc = "done" /\ meter[m].hour > 0) =>
    \A k \in 1..Len(Metrics) : [hour |-> meter[m].hour, metric |-> Metrics[k]] \in usage
====
