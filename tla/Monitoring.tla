------------------------------ MODULE Monitoring ------------------------------
(***************************************************************************)
(* Metrics and alerts of one metric of one resource                        *)
(* (internal/app/monitoring/service.go): the ring buffer the in-memory     *)
(* repository keeps its samples in (internal/infra/telemetry), the table   *)
(* postgres keeps them in, the query that averages them by time step, and  *)
(* the alert events.                                                       *)
(***************************************************************************)
EXTENDS Integers, Sequences, FiniteSets, Functions

CONSTANTS
  Capacity,        \* of the ring buffer
  Times,           \* timestamps of samples
  Values,          \* values of samples
  MaxBatches,      \* calls of IngestMetrics
  Thresholds,      \* [id -> [op, value]], the thresholds that may be created
  MetricsInMemory  \* the samples are kept in the ring buffer

VARIABLES
  ring,       \* [samples, head, size]
  table,      \* the metric_samples table: a sequence of samples
  thresholds, \* [id -> samples ingested before it was created], -1 when it was not
  alerts,     \* alert events: a sequence of [threshold, sample, state]
  evals,      \* the evaluation of each sample ingested: [listed, todo]
  handler,    \* the call on an alert in progress: [pc, alert, to]
  ingested    \* every sample ingested, in order

monVars == <<ring, table, thresholds, alerts, evals, handler, ingested>>

NoSample == [time |-> -1, value |-> 0]
Samples == [time : Times, value : Values]

Init ==
  /\ ring = [samples |-> [i \in 0 .. Capacity - 1 |-> NoSample], head |-> 0, size |-> 0]
  /\ table = <<>> /\ thresholds = [t \in DOMAIN Thresholds |-> -1] /\ alerts = <<>>
  /\ handler = [pc |-> "idle", alert |-> 0, to |-> ""]
  /\ ingested = <<>> /\ evals = <<>>

(***************************************************************************)
(* The ring buffer.                                                        *)
(***************************************************************************)
Push(r, s) ==
  [samples |-> [r.samples EXCEPT ![r.head] = s],
   head |-> (r.head + 1) % Capacity,
   size |-> IF r.size < Capacity THEN r.size + 1 ELSE r.size]

\* PushBatch: the samples of the batch in order, the empty ones skipped.
PushBatch(r, batch) == FoldFunctionOnSet(LAMBDA s, acc : Push(acc, s), r,
                         [i \in DOMAIN batch |-> batch[i]], {i \in DOMAIN batch : batch[i] # NoSample})

\* Mutant: the newest sample is taken to be at the head.
SlotAtHead(r, i) == (r.head - i + Capacity) % Capacity

\* The slot of the i-th newest sample.
Slot(r, i) == (r.head - 1 - i + Capacity) % Capacity

\* QueryRange: the samples in the range, over the slots in use.
RingMatching(r, from, to) ==
  {i \in 0 .. r.size - 1 : LET s == r.samples[Slot(r, i)] IN s # NoSample /\ from <= s.time /\ s.time <= to}

BucketOf(t, step) == (t \div step) * step

\* The points: one for each step of the range that has samples, with the sum
\* and the count that its average is made of.
RingPoints(r, from, to, step) ==
  {p \in {[at |-> k,
           count |-> Cardinality({i \in RingMatching(r, from, to) : BucketOf(r.samples[Slot(r, i)].time, step) = k}),
           sum |-> SumFunctionOnSet([i \in 0 .. r.size - 1 |-> r.samples[Slot(r, i)].value],
                     {i \in RingMatching(r, from, to) : BucketOf(r.samples[Slot(r, i)].time, step) = k})]
          : k \in {BucketOf(from, step) + n * step : n \in 0 .. (BucketOf(to, step) - BucketOf(from, step)) \div step}}
     : p.count > 0}

\* The query of postgres: a row of the table has one sample per timestamp.
SqlPoints(rows, from, to, step) ==
  LET in == {i \in DOMAIN rows : from <= rows[i].time /\ rows[i].time <= to}
  IN  {[at |-> k,
        count |-> Cardinality({i \in in : BucketOf(rows[i].time, step) = k}),
        sum |-> SumFunctionOnSet([i \in DOMAIN rows |-> rows[i].value], {i \in in : BucketOf(rows[i].time, step) = k})]
       : k \in {BucketOf(rows[i].time, step) : i \in in}}

\* InsertSamples in postgres: a sample whose timestamp is taken is skipped.
SqlInsert(rows, s) == IF \E i \in DOMAIN rows : rows[i].time = s.time THEN rows ELSE Append(rows, s)

(***************************************************************************)
(* Alerts.  A threshold's duration is stored, and is not evaluated.        *)
(***************************************************************************)
Evaluate(t, v) ==
  CASE Thresholds[t].op = "gt" -> v > Thresholds[t].value
    [] Thresholds[t].op = "gte" -> v >= Thresholds[t].value
    [] Thresholds[t].op = "lt" -> v < Thresholds[t].value
    [] Thresholds[t].op = "lte" -> v <= Thresholds[t].value
    [] OTHER -> v = Thresholds[t].value

\* Created enabled, whatever the request says.
CreateThreshold(t) ==
  /\ thresholds[t] = -1
  /\ thresholds' = [thresholds EXCEPT ![t] = Len(ingested)]
  /\ UNCHANGED <<ring, table, alerts, evals, handler, ingested>>

\* Mutant: no event for a threshold that has a firing one.
DueOnce(i) ==
  {t \in DOMAIN thresholds : thresholds[t] # -1 /\ Evaluate(t, ingested[i].value) /\
     \A a \in DOMAIN alerts : alerts[a].threshold # t \/ alerts[a].state # "firing"}

\* The thresholds a sample meets, the ones that it met already included.
Due(i) == {t \in DOMAIN thresholds : thresholds[t] # -1 /\ Evaluate(t, ingested[i].value)}

\* Whether a call on the thresholds or the events succeeds: in memory always.
Outcomes == IF MetricsInMemory THEN {TRUE} ELSE BOOLEAN

\* IngestMetrics of a batch of one sample, and an empty one or none after it:
\* the samples are inserted, the thresholds listed and an event created for
\* each one that is met, beside other calls.  In postgres the empty sample
\* makes InsertSamples ask for one result too many: the error ends the call
\* after the sample was stored, before the thresholds are evaluated.
InsertSamples(s, empty) ==
  /\ Len(ingested) < MaxBatches
  /\ ingested' = Append(ingested, s)
  /\ ring' = IF MetricsInMemory
             THEN PushBatch(ring, IF empty THEN <<s, NoSample>> ELSE <<s>>) ELSE ring
  /\ table' = IF MetricsInMemory THEN table ELSE SqlInsert(table, s)
  /\ evals' = Append(evals, [listed |-> empty /\ ~MetricsInMemory, todo |-> {}])
  /\ UNCHANGED <<thresholds, alerts, handler>>

\* A list that fails leaves the sample without events.
ListByResource(i, ok) ==
  /\ ~evals[i].listed
  /\ evals' = [evals EXCEPT ![i] = [listed |-> TRUE, todo |-> IF ok THEN Due(i) ELSE {}]]
  /\ UNCHANGED <<ring, table, thresholds, alerts, handler, ingested>>

\* The error of an event that is not created is dropped.
CreateAlert(i, t, ok) ==
  /\ t \in evals[i].todo
  /\ alerts' = IF ok THEN Append(alerts, [threshold |-> t, sample |-> i, state |-> "firing"]) ELSE alerts
  /\ evals' = [evals EXCEPT ![i].todo = @ \ {t}]
  /\ UNCHANGED <<ring, table, thresholds, handler, ingested>>

\* AcknowledgeAlert and ResolveAlert read the event, and write it back
\* whatever its state has become.
AlertReads(a, to) ==
  /\ handler.pc = "idle" /\ a \in DOMAIN alerts
  /\ handler' = [pc |-> "write", alert |-> a, to |-> to]
  /\ UNCHANGED <<ring, table, thresholds, alerts, evals, ingested>>

AlertUpdate ==
  /\ handler.pc = "write"
  /\ alerts' = [alerts EXCEPT ![handler.alert].state = handler.to]
  /\ handler' = [handler EXCEPT !.pc = "idle"]
  /\ UNCHANGED <<ring, table, thresholds, evals, ingested>>

Next ==
  \/ \E s \in Samples, empty \in BOOLEAN : InsertSamples(s, empty)
  \/ \E i \in DOMAIN evals, ok \in Outcomes :
       ListByResource(i, ok) \/ \E t \in DOMAIN Thresholds : CreateAlert(i, t, ok)
  \/ \E t \in DOMAIN Thresholds : CreateThreshold(t)
  \/ \E a \in DOMAIN alerts, to \in {"acknowledged", "resolved"} : AlertReads(a, to)
  \/ AlertUpdate

Spec == Init /\ [][Next]_monVars

(***************************************************************************)
(* Properties.                                                             *)
(***************************************************************************)
\* What a query returns is what the last Capacity samples ingested say, for
\* every range and step: each of them is counted in one point and one only,
\* however often the buffer wrapped around (telemetry/ringbuffer.go:31-140).
Kept == {i \in DOMAIN ingested : i > Len(ingested) - Capacity}

QueryIsExact ==
  MetricsInMemory =>
    \A from, to \in Times, step \in 1 .. 2 :
      from <= to =>
        RingPoints(ring, from, to, step) =
          LET in == {i \in Kept : from <= ingested[i].time /\ ingested[i].time <= to}
          IN  {[at |-> k,
                count |-> Cardinality({i \in in : BucketOf(ingested[i].time, step) = k}),
                sum |-> SumFunctionOnSet([i \in DOMAIN ingested |-> ingested[i].value],
                          {i \in in : BucketOf(ingested[i].time, step) = k})]
               : k \in {BucketOf(ingested[i].time, step) : i \in in}}

\* A sample raises no event for a threshold it does not meet and none twice,
\* whichever calls overlap and whatever the events become; and, with the
\* in-memory repositories, a sample ingested after a threshold was created
\* that meets it has raised one by the time its call returns, though earlier
\* ones may be firing still (service.go:58-84).
BreachesAlert ==
  /\ \A a, b \in DOMAIN alerts :
       alerts[a].threshold = alerts[b].threshold /\ alerts[a].sample = alerts[b].sample => a = b
  /\ \A a \in DOMAIN alerts : Evaluate(alerts[a].threshold, ingested[alerts[a].sample].value)
  /\ MetricsInMemory =>
       \A t \in DOMAIN Thresholds, i \in DOMAIN ingested :
         /\ thresholds[t] # -1 /\ i > thresholds[t] /\ Evaluate(t, ingested[i].value)
         /\ evals[i].listed /\ evals[i].todo = {}
         => \E a \in DOMAIN alerts : alerts[a].threshold = t /\ alerts[a].sample = i
==============================================================================
