------------------------------- MODULE Quota -------------------------------
(***************************************************************************)
(* The quota engine of one tenant: ReserveQuota, ReleaseQuota and          *)
(* CheckQuota of internal/app/billing/quota.go over the two quota          *)
(* repositories, and the change of plan of internal/app/billing/service.go.*)
(*                                                                         *)
(* A spec gives an amount for each metric, in the order in which the       *)
(* engine reserves them (instances, vCPU, memory, storage); an amount of 0 *)
(* is skipped, a limit of 0 means none.  Each repository call is one step: *)
(* the engine's mutex orders the requests of one server, nothing orders    *)
(* those of two servers over one database.  A released spec has no IPv4    *)
(* addresses: no caller sets them.                                         *)
(***************************************************************************)
EXTENDS Integers, FiniteSets

CONSTANTS
  Callers,      \* requests in flight
  Servers,      \* control plane processes, each with its engine
  ServerOf,     \* the server a caller's request runs on
  NumMetrics,   \* metrics, numbered in the order of reservation
  Specs,        \* the amounts a request may ask for
  Plans,        \* the limits a plan may set
  Repo,         \* "memory" or "postgres"
  Cancellation  \* whether a request's context may end early

Metrics == 1 .. NumMetrics

\* External: no caller; a missing row.
Nobody == "nobody"

NoRow == -1

ASSUME QuotaAssumption ==
  /\ NumMetrics \in Nat \ {0}
  /\ Specs \subseteq [Metrics -> Nat] /\ Plans \subseteq [Metrics -> Nat]
  /\ IsFiniteSet(Callers) /\ Nobody \notin Callers
  /\ ServerOf \in [Callers -> Servers]
  /\ Repo \in {"memory", "postgres"} /\ Cancellation \in BOOLEAN
  /\ Repo = "memory" => \A s, t \in Servers : s = t

VARIABLES
  row,   \* per metric: the stored limit and usage
  plan,  \* the limits of the tenant's plan
  lock,  \* the engine's mutex on each server
  req    \* the requests

vars == <<row, plan, lock, req>>

\* at: the metric the engine is at; failed: the metric that could not be
\* reserved; fits: history, CheckQuota's answer when the lock was taken.
NewReq(s) == [pc |-> "idle", at |-> 1, failed |-> 1, spec |-> s, plan |-> plan,
              alive |-> TRUE, fits |-> FALSE]

Init ==
  /\ row = [m \in Metrics |-> [limit |-> NoRow, used |-> 0]]
  /\ plan \in Plans
  /\ lock = [s \in Servers |-> Nobody]
  /\ \E s \in Specs : req = [p \in Callers |-> NewReq(s)]

(***************************************************************************)
(* The repositories.                                                       *)
(***************************************************************************)
\* Mutant: the new usage is compared before the delta is added.
MemoryReserveLate(r, delta, limit) ==
  LET l  == IF limit > 0 \/ r.limit = NoRow THEN limit ELSE r.limit
      ok == l = 0 \/ r.used <= l
  IN  [ok |-> ok, row |-> [limit |-> l, used |-> IF ok THEN r.used + delta ELSE r.used]]

\* Mutant: a request that reaches the limit exactly is refused.
MemoryReserveStrict(r, delta, limit) ==
  LET l  == IF limit > 0 \/ r.limit = NoRow THEN limit ELSE r.limit
      ok == l = 0 \/ r.used + delta < l
  IN  [ok |-> ok, row |-> [limit |-> l, used |-> IF ok THEN r.used + delta ELSE r.used]]

\* The row is made, and takes the plan's limit, even if the request is refused.
MemoryReserve(r, delta, limit) ==
  LET l  == IF limit > 0 \/ r.limit = NoRow THEN limit ELSE r.limit
      ok == l = 0 \/ r.used + delta <= l
  IN  [ok |-> ok, row |-> [limit |-> l, used |-> IF ok THEN r.used + delta ELSE r.used]]

\* Mutant: the usage may reach the limit before the delta is added.
PostgresReserveOff(r, delta, limit) ==
  [ok |-> r.limit \in {NoRow, 0} \/ r.used < r.limit,
   row |-> [limit |-> IF r.limit = NoRow \/ limit > 0 THEN limit ELSE r.limit,
            used |-> IF r.limit \in {NoRow, 0} \/ r.used < r.limit
                     THEN r.used + delta ELSE r.used]]

\* INSERT ... ON CONFLICT DO UPDATE ... WHERE: an insert has no condition, an
\* update is tested against the row's old limit and leaves no trace when refused.
PostgresReserve(r, delta, limit) ==
  IF r.limit = NoRow THEN [ok |-> TRUE, row |-> [limit |-> limit, used |-> delta]]
  ELSE IF r.limit = 0 \/ r.used + delta <= r.limit
  THEN [ok |-> TRUE, row |-> [limit |-> IF limit > 0 THEN limit ELSE r.limit,
                              used  |-> r.used + delta]]
  ELSE [ok |-> FALSE, row |-> r]

RepoReserve(r, delta, limit) ==
  IF Repo = "memory" THEN MemoryReserve(r, delta, limit) ELSE PostgresReserve(r, delta, limit)

\* Both repositories clamp at zero.
RepoRelease(r, delta) ==
  [r EXCEPT !.used = IF @ > delta THEN @ - delta ELSE 0]

\* Only the database looks at the context; every call after its end fails.
CallFails(p) == Repo = "postgres" /\ ~req[p].alive

(***************************************************************************)
(* The engine.                                                             *)
(***************************************************************************)
\* CheckQuota: every amount asked for fits into the plan.
CheckQuota(s) ==
  \A m \in Metrics : (s[m] > 0 /\ plan[m] > 0) => row[m].used + s[m] <= plan[m]

Mine(p) == lock[ServerOf[p]] = p

\* ReserveQuota takes the mutex and loads the tenant's plan.
LockReserve(p, s) ==
  /\ req[p].pc \in {"idle", "refused"}
  /\ lock[ServerOf[p]] = Nobody
  /\ lock' = [lock EXCEPT ![ServerOf[p]] = p]
  /\ req' = [req EXCEPT ![p] = [NewReq(s) EXCEPT !.pc = "reserving", !.fits = CheckQuota(s)]]
  /\ UNCHANGED <<row, plan>>

\* One metric; a failure starts the rollback.
ReserveMetric(p) ==
  LET q == req[p]
      m == q.at
      r == RepoReserve(row[m], q.spec[m], q.plan[m])
  IN  /\ Mine(p) /\ q.pc = "reserving" /\ m \in Metrics
      /\ IF q.spec[m] = 0
         THEN req' = [req EXCEPT ![p].at = m + 1] /\ UNCHANGED row
         ELSE /\ row' = IF CallFails(p) THEN row ELSE [row EXCEPT ![m] = r.row]
              /\ req' = [req EXCEPT ![p] =
                   IF r.ok /\ ~CallFails(p) THEN [q EXCEPT !.at = m + 1]
                   ELSE [q EXCEPT !.pc = "undoing", !.at = 1, !.failed = m]]
      /\ UNCHANGED <<plan, lock>>

\* The deferred unlock.
Leave(p, pc) ==
  /\ req' = [req EXCEPT ![p].pc = pc]
  /\ lock' = [lock EXCEPT ![ServerOf[p]] = Nobody]
  /\ UNCHANGED <<row, plan>>

ReserveDone(p) ==
  Mine(p) /\ req[p].pc = "reserving" /\ req[p].at > NumMetrics /\ Leave(p, "held")

\* The rollback and the release call the repository for every amount that is
\* not zero and ignore its error.
ReleaseOne(p) ==
  LET q == req[p]
      m == q.at
  IN  /\ row' = IF q.spec[m] = 0 \/ CallFails(p) THEN row
                ELSE [row EXCEPT ![m] = RepoRelease(@, q.spec[m])]
      /\ req' = [req EXCEPT ![p].at = m + 1]
      /\ UNCHANGED <<plan, lock>>

\* Mutant: the metric reserved last is not rolled back.
UndoMetricShort(p) ==
  /\ Mine(p) /\ req[p].pc = "undoing" /\ req[p].at < req[p].failed
  /\ IF req[p].at < req[p].failed - 1 THEN ReleaseOne(p)
     ELSE req' = [req EXCEPT ![p].at = @ + 1] /\ UNCHANGED <<row, plan, lock>>

UndoMetric(p) ==
  Mine(p) /\ req[p].pc = "undoing" /\ req[p].at < req[p].failed /\ ReleaseOne(p)

\* Mutant: the rollback ends in a state no caller knows.
UndoDoneLost(p) ==
  Mine(p) /\ req[p].pc = "undoing" /\ req[p].at = req[p].failed /\ Leave(p, "error")

UndoDone(p) ==
  Mine(p) /\ req[p].pc = "undoing" /\ req[p].at = req[p].failed /\ Leave(p, "refused")

\* ReleaseQuota, called once for a reservation, in a later request.
LockRelease(p) ==
  /\ req[p].pc = "held"
  /\ lock[ServerOf[p]] = Nobody
  /\ lock' = [lock EXCEPT ![ServerOf[p]] = p]
  /\ req' = [req EXCEPT ![p].pc = "releasing", ![p].at = 1, ![p].alive = TRUE]
  /\ UNCHANGED <<row, plan>>

ReleaseMetric(p) ==
  Mine(p) /\ req[p].pc = "releasing" /\ req[p].at \in Metrics /\ ReleaseOne(p)

ReleaseDone(p) ==
  Mine(p) /\ req[p].pc = "releasing" /\ req[p].at > NumMetrics /\ Leave(p, "idle")

\* The client goes away or the request times out.
ContextEnds(p) ==
  /\ Cancellation /\ req[p].alive /\ Mine(p)
  /\ req' = [req EXCEPT ![p].alive = FALSE]
  /\ UNCHANGED <<row, plan, lock>>

\* ChangePlan writes the subscription and takes no mutex; the quota rows keep
\* their limits.
ChangePlan(q) ==
  /\ plan # q
  /\ plan' = q
  /\ UNCHANGED <<row, lock, req>>

Next ==
  \/ \E p \in Callers :
       \/ \E s \in Specs : LockReserve(p, s)
       \/ ReserveMetric(p) \/ ReserveDone(p)
       \/ UndoMetric(p) \/ UndoDone(p)
       \/ LockRelease(p) \/ ReleaseMetric(p) \/ ReleaseDone(p)
       \/ ContextEnds(p)
  \/ \E q \in Plans : ChangePlan(q)

Spec == Init /\ [][Next]_vars

-----------------------------------------------------------------------------
PCs == {"idle", "reserving", "undoing", "held", "refused", "releasing"}

\* Types of the quota rows, the mutexes and the requests in the engine.
TypeOK ==
  /\ row \in [Metrics -> [limit : Nat \cup {NoRow}, used : Nat]]
  /\ plan \in Plans
  /\ lock \in [Servers -> Callers \cup {Nobody}]
  /\ req \in [Callers -> [pc : PCs, at : 1 .. NumMetrics + 1, failed : Metrics,
                          spec : Specs, plan : Plans, alive : BOOLEAN, fits : BOOLEAN]]

\* What a request q has reserved and not yet given back of metric m.
Holds(q, m) ==
  IF \/ q.pc = "held"
     \/ q.pc = "reserving" /\ m < q.at
     \/ q.pc = "undoing" /\ q.at <= m /\ m < q.failed
     \/ q.pc = "releasing" /\ q.at <= m
  THEN q.spec[m] ELSE 0

\* The units of metric m the requests hold, one by one.
Held(m) == UNION {{p} \X (1 .. Holds(req[p], m)) : p \in Callers}

\* The stored usage is what the reservations hold, at every step of every
\* request: a refused reservation leaves no trace, a released one is given back
\* in full and once, and the clamp at zero never hides an excess release.
Accounting == \A m \in Metrics : row[m].used = Cardinality(Held(m))

\* ReserveQuota grants only what CheckQuota would have granted when the engine
\* was locked: capacity is verified for all the metrics although they are
\* reserved one by one.
GrantFits == \A p \in Callers : req[p].pc = "held" => req[p].fits

\* ReserveQuota refuses only what CheckQuota would have refused.
RefusalJustified == \A p \in Callers : req[p].pc = "refused" => ~req[p].fits

\* While no plan changes and nobody asks for more than the limit at once, the
\* usage stays within the limit even with one engine per server.
WithinLimit == \A m \in Metrics : plan[m] > 0 => row[m].used <= plan[m]
=============================================================================
