----------------------------- MODULE QuotaProofs -----------------------------
(***************************************************************************)
(* Invariance proofs for Quota, for any number of requests, servers and    *)
(* metrics, any amounts and any limits.                                    *)
(*                                                                         *)
(* The accounting needs no mutex: each repository call changes one row by  *)
(* what its own request holds.  That grants and refusals agree with        *)
(* CheckQuota needs it: while a request is at work nobody else changes a   *)
(* row, so what it finds is what CheckQuota saw.                           *)
(***************************************************************************)
EXTENDS Quota, FiniteSetTheorems, TLAPS

RowType == [limit : Nat \cup {NoRow}, used : Nat]

ReqType == [pc : PCs, at : 1 .. NumMetrics + 1, failed : Metrics,
            spec : Specs, plan : Plans, alive : BOOLEAN, fits : BOOLEAN]

LEMMA Constants ==
  /\ NumMetrics \in Nat \ {0} /\ 1 \in Metrics /\ 1 \in 1 .. NumMetrics + 1
  /\ \A s \in Specs : \A m \in Metrics : s[m] \in Nat
  /\ \A q \in Plans : \A m \in Metrics : q[m] \in Nat
BY QuotaAssumption DEF Metrics

\* A reservation adds the amount or nothing; a row that was never written has
\* no usage.
LEMMA ReservedRow ==
  ASSUME NEW r \in RowType, NEW delta \in Nat, NEW limit \in Nat,
         r.limit = NoRow => r.used = 0
  PROVE  LET x == RepoReserve(r, delta, limit) IN
         /\ x.ok \in BOOLEAN
         /\ x.row \in RowType
         /\ x.row.used = IF x.ok THEN r.used + delta ELSE r.used
         /\ x.row.limit = NoRow => x.row.used = 0
<1> DEFINE x == RepoReserve(r, delta, limit)
<1> USE DEF RowType, NoRow
<1>1. CASE Repo = "memory"
  <2> DEFINE l == IF limit > 0 \/ r.limit = NoRow THEN limit ELSE r.limit
             ok == l = 0 \/ r.used + delta <= l
             u == IF ok THEN r.used + delta ELSE r.used
  <2>1. l \in Nat /\ u \in Nat /\ ok \in BOOLEAN
    OBVIOUS
  <2>2. x = [ok |-> ok, row |-> [limit |-> l, used |-> u]]
    BY <1>1 DEF RepoReserve, MemoryReserve
  <2>3. x.ok = ok /\ x.row.limit = l /\ x.row.used = u /\ x.row \in RowType
    <3> HIDE DEF l, ok, u
    <3> QED BY <2>1, <2>2
  <2>4. x.row.limit # NoRow
    BY <2>1, <2>3
  <2>5. x.row.used = IF x.ok THEN r.used + delta ELSE r.used
    <3> HIDE DEF l, ok, x
    <3> QED BY <2>3
  <2>6. x.ok \in BOOLEAN
    BY <2>1, <2>3
  <2> HIDE DEF x
  <2>7. /\ x.ok \in BOOLEAN /\ x.row \in RowType
        /\ x.row.used = IF x.ok THEN r.used + delta ELSE r.used
        /\ x.row.limit = NoRow => x.row.used = 0
    BY <2>3, <2>4, <2>5, <2>6
  <2> QED BY <2>7 DEF x
<1>2. CASE Repo # "memory"
  <2>1. CASE r.limit = NoRow
    BY <1>2, <2>1 DEF RepoReserve, PostgresReserve
  <2>2. CASE r.limit # NoRow
    BY <1>2, <2>2 DEF RepoReserve, PostgresReserve
  <2> QED BY <2>1, <2>2
<1> QED BY <1>1, <1>2

\* A release takes the amount away, or what there is.
LEMMA ReleasedRow ==
  ASSUME NEW r \in RowType, NEW delta \in Nat
  PROVE  /\ RepoRelease(r, delta) \in RowType
         /\ RepoRelease(r, delta).limit = r.limit
         /\ RepoRelease(r, delta).used = IF r.used > delta THEN r.used - delta ELSE 0
BY DEF RowType, RepoRelease

------------------------------------------------------------------------------
LEMMA InitTypes == Init => TypeOK
<1> SUFFICES ASSUME Init PROVE TypeOK
  OBVIOUS
<1>1. PICK s \in Specs : req = [p \in Callers |-> NewReq(s)]
  BY DEF Init
<1>2. NewReq(s) \in ReqType
  BY Constants DEF NewReq, ReqType, PCs, Init
<1>3. req \in [Callers -> ReqType]
  BY <1>1, <1>2
<1>4. row \in [Metrics -> RowType]
  BY DEF Init, RowType
<1> QED BY <1>3, <1>4 DEF Init, TypeOK, ReqType, RowType

\* Rows that were never written have no usage; without cancellation every
\* request's context lives.
TypeInv ==
  /\ row \in [Metrics -> RowType]
  /\ plan \in Plans
  /\ lock \in [Servers -> Callers \cup {Nobody}]
  /\ req \in [Callers -> ReqType]
  /\ \A m \in Metrics : row[m].limit = NoRow => row[m].used = 0
  /\ ~Cancellation => \A p \in Callers : req[p].alive

LEMMA StepTypes == TypeInv /\ [Next]_vars => TypeInv'
<1> SUFFICES ASSUME TypeInv, [Next]_vars PROVE TypeInv'
  OBVIOUS
<1> USE DEF TypeInv
<1>a. \A p \in Callers : ServerOf[p] \in Servers
  BY QuotaAssumption
\* The request that moves keeps its shape, and nothing of the others changes.
<1>b. ASSUME NEW p \in Callers, NEW x \in ReqType, req' = [req EXCEPT ![p] = x],
             ~Cancellation => x.alive,
             row' \in [Metrics -> RowType],
             \A m \in Metrics : row'[m].limit = NoRow => row'[m].used = 0,
             lock' \in [Servers -> Callers \cup {Nobody}], plan' = plan
      PROVE  TypeInv'
  BY <1>b
<1>1. ASSUME NEW p \in Callers, NEW s \in Specs, LockReserve(p, s) PROVE TypeInv'
  <2> DEFINE a == NewReq(s)
             b == [a EXCEPT !.pc = "reserving"]
             x == [b EXCEPT !.fits = CheckQuota(s)]
  <2>1. a \in ReqType /\ a.alive
    BY Constants DEF NewReq, ReqType, PCs
  <2>2. CheckQuota(s) \in BOOLEAN
    BY DEF CheckQuota
  <2>3. req' = [req EXCEPT ![p] = x]
    BY <1>1 DEF LockReserve
  <2> HIDE DEF a
  <2>4. b \in ReqType /\ b.alive
    BY <2>1 DEF ReqType, PCs
  <2> HIDE DEF b
  <2>5. x \in ReqType /\ x.alive
    BY <2>2, <2>4 DEF ReqType
  <2> HIDE DEF x
  <2> QED BY <1>1, <1>a, <1>b, <2>3, <2>5 DEF LockReserve
<1>2. ASSUME NEW p \in Callers, ReserveMetric(p) PROVE TypeInv'
  <2> DEFINE q == req[p]
             m == q.at
             r == RepoReserve(row[m], q.spec[m], q.plan[m])
             y == [q EXCEPT !.at = m + 1]
             a == [q EXCEPT !.pc = "undoing"]
             b == [a EXCEPT !.at = 1]
             z == [b EXCEPT !.failed = m]
  <2>1. m \in Metrics /\ m + 1 \in 1 .. NumMetrics + 1
    BY <1>2, Constants DEF ReserveMetric, Metrics
  <2>2. y \in ReqType /\ y.alive = q.alive
    BY <2>1 DEF ReqType
  <2>3. a \in ReqType /\ a.alive = q.alive
    BY DEF ReqType, PCs
  <2>4. b \in ReqType /\ b.alive = q.alive
    <3> HIDE DEF a
    <3> QED BY <2>3, Constants DEF ReqType
  <2>5. z \in ReqType /\ z.alive = q.alive
    <3> HIDE DEF b
    <3> QED BY <2>1, <2>4 DEF ReqType
  <2>6. r.row \in RowType /\ (r.row.limit = NoRow => r.row.used = 0)
    <3>1. q.spec[m] \in Nat /\ q.plan[m] \in Nat /\ row[m] \in RowType
      BY <2>1, Constants DEF ReqType
    <3> QED BY <2>1, <3>1, ReservedRow
  <2>7. req' = [req EXCEPT ![p] = y] \/ req' = [req EXCEPT ![p] = z]
    BY <1>2 DEF ReserveMetric
  <2>8. row' = row \/ row' = [row EXCEPT ![m] = r.row]
    BY <1>2 DEF ReserveMetric
  <2>9. plan' = plan /\ lock' = lock
    BY <1>2 DEF ReserveMetric
  <2>10. q.alive \/ Cancellation
    OBVIOUS
  <2> HIDE DEF y, z, r, m, q
  <2>11. row' \in [Metrics -> RowType] /\ \A k \in Metrics : row'[k].limit = NoRow => row'[k].used = 0
    BY <2>1, <2>6, <2>8
  <2> QED BY <1>b, <2>2, <2>5, <2>7, <2>9, <2>10, <2>11
<1>3. ASSUME NEW p \in Callers, NEW st \in PCs, Leave(p, st) PROVE TypeInv'
  <2>1. [req[p] EXCEPT !.pc = st] \in ReqType /\ [req[p] EXCEPT !.pc = st].alive = req[p].alive
    BY DEF ReqType
  <2> QED BY <1>3, <1>a, <1>b, <2>1 DEF Leave
<1>4. ASSUME NEW p \in Callers, req[p].at \in Metrics, ReleaseOne(p) PROVE TypeInv'
  <2> DEFINE q == req[p]
             m == q.at
             y == [q EXCEPT !.at = m + 1]
  <2>1. m \in Metrics /\ m + 1 \in 1 .. NumMetrics + 1 /\ q.spec[m] \in Nat
    BY <1>4, Constants DEF Metrics, ReqType
  <2>2. y \in ReqType /\ y.alive = q.alive
    BY <2>1 DEF ReqType
  <2>3. LET r == RepoRelease(row[m], q.spec[m]) IN
        r \in RowType /\ (r.limit = NoRow => r.used = 0)
    <3>1. row[m] \in RowType /\ row[m].used \in Nat /\ (row[m].limit = NoRow => row[m].used = 0)
      BY <2>1 DEF RowType
    <3>2. /\ RepoRelease(row[m], q.spec[m]) \in RowType
          /\ RepoRelease(row[m], q.spec[m]).limit = row[m].limit
          /\ RepoRelease(row[m], q.spec[m]).used =
               IF row[m].used > q.spec[m] THEN row[m].used - q.spec[m] ELSE 0
      BY <2>1, <3>1, ReleasedRow
    <3> HIDE DEF m, q
    <3> QED BY <2>1, <3>1, <3>2
  <2>4. req' = [req EXCEPT ![p] = y] /\ plan' = plan /\ lock' = lock
        /\ (row' = row \/ row' = [row EXCEPT ![m] = RepoRelease(row[m], q.spec[m])])
    BY <1>4 DEF ReleaseOne
  <2> HIDE DEF y, m
  <2>5. row' \in [Metrics -> RowType] /\ \A k \in Metrics : row'[k].limit = NoRow => row'[k].used = 0
    BY <2>1, <2>3, <2>4
  <2> QED BY <1>b, <2>2, <2>4, <2>5
<1>5. ASSUME NEW p \in Callers, LockRelease(p) PROVE TypeInv'
  <2> DEFINE a == [req[p] EXCEPT !.pc = "releasing"]
             b == [a EXCEPT !.at = 1]
             x == [b EXCEPT !.alive = TRUE]
  <2>1. a \in ReqType
    BY DEF ReqType, PCs
  <2>2. b \in ReqType
    <3> HIDE DEF a
    <3> QED BY <2>1, Constants DEF ReqType
  <2>3. x \in ReqType /\ x.alive
    <3> HIDE DEF b
    <3> QED BY <2>2 DEF ReqType
  <2>4. req' = [req EXCEPT ![p] = x]
    BY <1>5 DEF LockRelease
  <2> HIDE DEF x
  <2> QED BY <1>5, <1>a, <1>b, <2>3, <2>4 DEF LockRelease
<1>6. ASSUME NEW p \in Callers, ContextEnds(p) PROVE TypeInv'
  <2>1. [req[p] EXCEPT !.alive = FALSE] \in ReqType
    BY DEF ReqType
  <2> QED BY <1>6, <1>b, <2>1 DEF ContextEnds
<1>7. ASSUME NEW q \in Plans, ChangePlan(q) PROVE TypeInv'
  BY <1>7 DEF ChangePlan
<1>8. CASE UNCHANGED vars
  BY <1>8 DEF vars
<1>9. ASSUME NEW p \in Callers, UndoMetric(p) \/ ReleaseMetric(p) PROVE TypeInv'
  <2>1. req[p].at \in Metrics
    BY <1>9, Constants DEF UndoMetric, ReleaseMetric, ReqType, Metrics
  <2> QED BY <1>4, <1>9, <2>1 DEF UndoMetric, ReleaseMetric
<1>10. ASSUME NEW p \in Callers, ReserveDone(p) \/ UndoDone(p) \/ ReleaseDone(p) PROVE TypeInv'
  BY <1>3, <1>10 DEF ReserveDone, UndoDone, ReleaseDone, PCs
<1> QED BY <1>1, <1>2, <1>5, <1>6, <1>7, <1>8, <1>9, <1>10 DEF Next

LEMMA TypesInvariant == Spec => []TypeInv
<1>1. Init => TypeInv
  <2> SUFFICES ASSUME Init PROVE TypeInv
    OBVIOUS
  <2>1. TypeOK
    BY InitTypes
  <2>2. \A m \in Metrics : row[m].used = 0
    BY DEF Init
  <2>3. \A p \in Callers : req[p].alive
    BY DEF Init, NewReq
  <2> QED BY <2>1, <2>2, <2>3 DEF TypeOK, TypeInv, RowType, ReqType
<1> QED BY <1>1, StepTypes, PTL DEF Spec

------------------------------------------------------------------------------
\* The units counted by f, of the callers in C.
Units(f, C) == UNION {{p} \X (1 .. f[p]) : p \in C}

LEMMA CallerUnits ==
  ASSUME NEW p, NEW n \in Nat
  PROVE  IsFiniteSet({p} \X (1 .. n)) /\ Cardinality({p} \X (1 .. n)) = n
<1>1. IsFiniteSet({p}) /\ Cardinality({p}) = 1
  BY FS_Singleton, Zenon
<1>2. 1 \in Int /\ n \in Int
  OBVIOUS
<1>3. IsFiniteSet(1 .. n) /\ Cardinality(1 .. n) = IF 1 > n THEN 0 ELSE n - 1 + 1
  BY <1>2, FS_Interval
<1>4. Cardinality(1 .. n) = n
  BY <1>3
<1>5. /\ IsFiniteSet({p} \X (1 .. n))
      /\ Cardinality({p} \X (1 .. n)) = Cardinality({p}) * Cardinality(1 .. n)
  BY <1>1, <1>3, FS_Product, Zenon
<1> QED BY <1>1, <1>4, <1>5

LEMMA UnitsFinite ==
  ASSUME NEW f \in [Callers -> Nat], NEW C \in SUBSET Callers
  PROVE  IsFiniteSet(Units(f, C)) /\ Cardinality(Units(f, C)) \in Nat
<1> DEFINE T == {{p} \X (1 .. f[p]) : p \in C}
           g == [p \in C |-> {p} \X (1 .. f[p])]
<1>1. IsFiniteSet(C)
  BY QuotaAssumption, FS_Subset
<1>2. g \in Surjection(C, T)
  BY DEF Surjection
<1>3. IsFiniteSet(T)
  BY <1>1, <1>2, FS_Surjection
<1>4. \A t \in T : IsFiniteSet(t)
  <2> SUFFICES ASSUME NEW p \in C PROVE IsFiniteSet({p} \X (1 .. f[p]))
    OBVIOUS
  <2> QED BY CallerUnits
<1>5. IsFiniteSet(UNION T)
  BY <1>3, <1>4, FS_UNION
<1> QED BY <1>5, FS_CardinalityType DEF Units

\* Cardinality counts each caller's units apart from those of the others.
LEMMA UnitsSplit ==
  ASSUME NEW f \in [Callers -> Nat], NEW p \in Callers
  PROVE  Cardinality(Units(f, Callers)) = Cardinality(Units(f, Callers \ {p})) + f[p]
<1> DEFINE R == Units(f, Callers \ {p})
           P == {p} \X (1 .. f[p])
<1>2. IsFiniteSet(P) /\ Cardinality(P) = f[p]
  BY CallerUnits
<1>3. IsFiniteSet(R) /\ Cardinality(R) \in Nat
  BY UnitsFinite
<1>4. Units(f, Callers) = R \cup P
  BY DEF Units
<1>5. R \cap P = {}
  BY DEF Units
<1> HIDE DEF R, P
<1>6. Cardinality(R \cup P) = Cardinality(R) + Cardinality(P) - Cardinality({})
  BY <1>2, <1>3, <1>5, FS_Union
<1>7. Cardinality({}) = 0
  BY FS_EmptySet
<1> QED BY <1>2, <1>3, <1>4, <1>6, <1>7 DEF R

LEMMA UnitsChange ==
  ASSUME NEW f \in [Callers -> Nat], NEW g \in [Callers -> Nat], NEW p \in Callers,
         \A q \in Callers : q # p => g[q] = f[q]
  PROVE  /\ Cardinality(Units(f, Callers)) \in Nat
         /\ f[p] <= Cardinality(Units(f, Callers))
         /\ Cardinality(Units(g, Callers)) = Cardinality(Units(f, Callers)) - f[p] + g[p]
<1>1. Units(f, Callers \ {p}) = Units(g, Callers \ {p})
  BY DEF Units
<1>2. Cardinality(Units(f, Callers \ {p})) \in Nat
  BY UnitsFinite
<1>3. /\ Cardinality(Units(f, Callers)) = Cardinality(Units(f, Callers \ {p})) + f[p]
      /\ Cardinality(Units(g, Callers)) = Cardinality(Units(g, Callers \ {p})) + g[p]
  BY UnitsSplit
<1> QED BY <1>1, <1>2, <1>3

\* A request holds a number of units.
LEMMA HoldsType ==
  ASSUME NEW q \in ReqType, NEW m \in Metrics
  PROVE  Holds(q, m) \in Nat /\ q.spec[m] \in Nat /\ q.at \in Nat /\ q.failed \in Nat /\ m \in Nat
BY Constants DEF Holds, ReqType, Metrics

\* A repository call changes one row by what its own request gains or gives
\* back, so the usage stays the number of units held.
LEMMA StepAccounting ==
  ASSUME Repo = "memory" \/ ~Cancellation
  PROVE  TypeInv /\ Accounting /\ [Next]_vars => Accounting'
<1> SUFFICES ASSUME TypeInv, Accounting, [Next]_vars PROVE Accounting'
  OBVIOUS
<1>b. TypeInv'
  BY StepTypes
<1>c. \A p \in Callers : ~CallFails(p)
  BY DEF CallFails, TypeInv
<1>d. \A p \in Callers : req[p] \in ReqType /\ req'[p] \in ReqType
  BY <1>b DEF TypeInv
\* What one request gains or gives back is added to or taken from the row.
<1>e. ASSUME NEW p \in Callers, \A q \in Callers : q # p => req'[q] = req[q],
             \A m \in Metrics : row'[m].used = row[m].used - Holds(req[p], m) + Holds(req'[p], m)
      PROVE  Accounting'
  <2> SUFFICES ASSUME NEW m \in Metrics PROVE row'[m].used = Cardinality(Held(m)')
    BY DEF Accounting
  <2> DEFINE f == [q \in Callers |-> Holds(req[q], m)]
             g == [q \in Callers |-> Holds(req'[q], m)]
  <2>1. f \in [Callers -> Nat] /\ g \in [Callers -> Nat] /\ \A q \in Callers : q # p => g[q] = f[q]
    BY <1>d, <1>e, HoldsType
  <2>2. Held(m) = Units(f, Callers) /\ Held(m)' = Units(g, Callers)
    BY DEF Held, Units
  <2>3. Cardinality(Units(g, Callers)) = Cardinality(Units(f, Callers)) - f[p] + g[p]
    <3> HIDE DEF f, g
    <3> QED BY <2>1, UnitsChange
  <2> QED BY <1>e, <2>2, <2>3 DEF Accounting
\* A request never holds more than the usage shows.
<1>f. ASSUME NEW p \in Callers, NEW m \in Metrics PROVE Holds(req[p], m) <= row[m].used
  <2> DEFINE f == [q \in Callers |-> Holds(req[q], m)]
  <2>1. f \in [Callers -> Nat]
    BY <1>d, HoldsType
  <2>2. Held(m) = Units(f, Callers)
    BY DEF Held, Units
  <2>3. f[p] <= Cardinality(Units(f, Callers))
    <3> HIDE DEF f
    <3> QED BY <2>1, UnitsChange
  <2> QED BY <2>2, <2>3 DEF Accounting
\* Steps that change no row and nothing of what is held.
<1>g. ASSUME NEW p \in Callers, \A q \in Callers : q # p => req'[q] = req[q], row' = row,
             \A m \in Metrics : Holds(req'[p], m) = Holds(req[p], m)
      PROVE  Accounting'
  <2>1. \A m \in Metrics : Holds(req[p], m) \in Nat /\ row[m].used \in Nat
    BY <1>d, HoldsType DEF TypeInv, RowType
  <2>2. \A m \in Metrics : row'[m].used = row[m].used - Holds(req[p], m) + Holds(req'[p], m)
    BY <1>g, <2>1
  <2> QED BY <1>e, <1>g, <2>2
<1>1. ASSUME NEW p \in Callers, NEW s \in Specs, LockReserve(p, s) PROVE Accounting'
  <2> DEFINE a == [NewReq(s) EXCEPT !.pc = "reserving"]
             x == [a EXCEPT !.fits = CheckQuota(s)]
  <2>1. NewReq(s) \in ReqType /\ NewReq(s).at = 1
    BY Constants DEF NewReq, ReqType, PCs, TypeInv
  <2>2. a \in ReqType /\ a.pc = "reserving" /\ a.at = 1
    BY <2>1 DEF ReqType, PCs
  <2>3. req' = [req EXCEPT ![p] = x] /\ row' = row /\ req[p].pc \in {"idle", "refused"}
    BY <1>1 DEF LockReserve
  <2>4. x.pc = "reserving" /\ x.at = 1
    <3> HIDE DEF a
    <3> QED BY <2>2 DEF ReqType
  <2> HIDE DEF x
  <2>5. req'[p] = x /\ \A q \in Callers : q # p => req'[q] = req[q]
    BY <2>3 DEF TypeInv
  <2>6. \A m \in Metrics : Holds(req'[p], m) = 0 /\ Holds(req[p], m) = 0
    BY <2>3, <2>4, <2>5 DEF Holds, Metrics
  <2> QED BY <1>g, <2>3, <2>5, <2>6
<1>2. ASSUME NEW p \in Callers, ReserveMetric(p) PROVE Accounting'
  <2> DEFINE q == req[p]
             m == q.at
             r == RepoReserve(row[m], q.spec[m], q.plan[m])
             y == [q EXCEPT !.at = m + 1]
             z == [q EXCEPT !.pc = "undoing", !.at = 1, !.failed = m]
  <2>1. m \in Metrics /\ q \in ReqType /\ q.pc = "reserving" /\ q.spec[m] \in Nat /\ m \in Nat
    BY <1>2, <1>d, HoldsType DEF ReserveMetric
  <2>2. y.pc = "reserving" /\ y.at = m + 1 /\ y.spec = q.spec
    BY <2>1 DEF ReqType
  <2>3. z.pc = "undoing" /\ z.at = 1 /\ z.failed = m /\ z.spec = q.spec
    BY <2>1 DEF ReqType
  <2>4. \A k \in Callers : k # p => req'[k] = req[k]
    BY <1>2 DEF ReserveMetric, TypeInv
  <2>5. \/ req'[p] = y /\ row' = row /\ q.spec[m] = 0
        \/ req'[p] = y /\ row' = [row EXCEPT ![m] = r.row] /\ r.ok
        \/ req'[p] = z /\ row' = [row EXCEPT ![m] = r.row] /\ ~r.ok
    BY <1>2, <1>c DEF ReserveMetric, TypeInv
  <2>6. /\ r.row.used = IF r.ok THEN row[m].used + q.spec[m] ELSE row[m].used
        /\ row[m].used \in Nat
    <3>1. q.plan[m] \in Nat /\ row[m] \in RowType /\ (row[m].limit = NoRow => row[m].used = 0)
      BY <2>1, Constants DEF ReqType, TypeInv
    <3>2. row[m].used \in Nat
      BY <3>1 DEF RowType
    <3> QED BY <2>1, <3>1, <3>2, ReservedRow
  <2>7. \A k \in Metrics : /\ k \in Nat /\ k >= 1
                           /\ Holds(q, k) = (IF k < m THEN q.spec[k] ELSE 0)
                           /\ Holds(y, k) = (IF k < m + 1 THEN q.spec[k] ELSE 0)
                           /\ Holds(z, k) = (IF k < m THEN q.spec[k] ELSE 0)
    <3> HIDE DEF y, z, m
    <3> QED BY <2>1, <2>2, <2>3 DEF Holds, Metrics, m
  <2>8. \A k \in Metrics : Holds(q, k) \in Nat /\ q.spec[k] \in Nat /\ row[k].used \in Nat
    BY <1>d, HoldsType DEF TypeInv, RowType
  <2> HIDE DEF y, z, m, r
  <2>9. ASSUME NEW k \in Metrics
        PROVE  row'[k].used = row[k].used - Holds(q, k) + Holds(req'[p], k)
    <3>1. CASE req'[p] = y /\ row' = row /\ q.spec[m] = 0
      BY <2>1, <2>7, <2>8, <3>1
    <3>2. CASE req'[p] = y /\ row' = [row EXCEPT ![m] = r.row] /\ r.ok
      <4>1. row'[k].used = IF k = m THEN row[m].used + q.spec[m] ELSE row[k].used
        BY <2>1, <2>6, <3>2 DEF TypeInv
      <4> QED BY <2>1, <2>7, <2>8, <3>2, <4>1
    <3>3. CASE req'[p] = z /\ row' = [row EXCEPT ![m] = r.row] /\ ~r.ok
      <4>1. row'[k].used = row[k].used
        BY <2>1, <2>6, <3>3 DEF TypeInv
      <4> QED BY <2>1, <2>7, <2>8, <3>3, <4>1
    <3> QED BY <2>5, <3>1, <3>2, <3>3
  <2> QED BY <1>e, <2>4, <2>9
<1>3. ASSUME NEW p \in Callers, req[p].at \in Metrics, ReleaseOne(p),
             \/ req[p].pc = "undoing" /\ req[p].at < req[p].failed
             \/ req[p].pc = "releasing"
      PROVE  Accounting'
  <2> DEFINE q == req[p]
             m == q.at
             y == [q EXCEPT !.at = m + 1]
  <2>1. m \in Metrics /\ q \in ReqType /\ q.spec[m] \in Nat /\ m \in Nat /\ q.failed \in Nat
    BY <1>3, <1>d, HoldsType
  <2>2. y.pc = q.pc /\ y.at = m + 1 /\ y.spec = q.spec /\ y.failed = q.failed
    BY <2>1 DEF ReqType
  <2>3. req'[p] = y /\ \A k \in Callers : k # p => req'[k] = req[k]
    BY <1>3 DEF ReleaseOne, TypeInv
  <2>4. row' = IF q.spec[m] = 0 THEN row ELSE [row EXCEPT ![m] = RepoRelease(row[m], q.spec[m])]
    BY <1>3, <1>c DEF ReleaseOne
  <2>5. Holds(q, m) = q.spec[m] /\ Holds(y, m) = 0
        /\ \A k \in Metrics : k # m => Holds(y, k) = Holds(q, k)
    <3> HIDE DEF y
    <3> QED BY <1>3, <2>1, <2>2 DEF Holds, Metrics
  <2>6. q.spec[m] <= row[m].used
    BY <1>f, <2>1, <2>5
  <2>7. \A k \in Metrics : Holds(q, k) \in Nat /\ row[k].used \in Nat
    BY <1>d, HoldsType DEF TypeInv, RowType
  <2>8. RepoRelease(row[m], q.spec[m]).used = row[m].used - q.spec[m]
    <3>1. row[m] \in RowType
      BY <2>1 DEF TypeInv
    <3>2. RepoRelease(row[m], q.spec[m]).used =
            IF row[m].used > q.spec[m] THEN row[m].used - q.spec[m] ELSE 0
      BY <2>1, <3>1, ReleasedRow
    <3> QED BY <2>1, <2>6, <2>7, <3>2
  <2>9. \A k \in Metrics : row'[k].used = IF k = m THEN row[m].used - q.spec[m] ELSE row[k].used
    BY <2>1, <2>4, <2>7, <2>8 DEF TypeInv
  <2> HIDE DEF y, m
  <2>10. ASSUME NEW k \in Metrics
         PROVE  row'[k].used = row[k].used - Holds(q, k) + Holds(req'[p], k)
    BY <2>1, <2>3, <2>5, <2>7, <2>9
  <2> QED BY <1>e, <2>3, <2>10
<1>4. ASSUME NEW p \in Callers, UndoMetric(p) \/ ReleaseMetric(p) PROVE Accounting'
  <2>1. req[p].at \in Metrics
    BY <1>4, <1>d, Constants DEF UndoMetric, ReleaseMetric, ReqType, Metrics
  <2> QED BY <1>3, <1>4, <2>1 DEF UndoMetric, ReleaseMetric
<1>5. ASSUME NEW p \in Callers, ReserveDone(p) \/ UndoDone(p) \/ ReleaseDone(p) PROVE Accounting'
  <2>1. PICK st \in {"held", "refused", "idle"} :
          /\ Leave(p, st)
          /\ \/ st = "held" /\ req[p].pc = "reserving" /\ req[p].at > NumMetrics
             \/ st = "refused" /\ req[p].pc = "undoing" /\ req[p].at = req[p].failed
             \/ st = "idle" /\ req[p].pc = "releasing" /\ req[p].at > NumMetrics
    BY <1>5 DEF ReserveDone, UndoDone, ReleaseDone
  <2>2. /\ req'[p] = [req[p] EXCEPT !.pc = st] /\ row' = row
        /\ \A q \in Callers : q # p => req'[q] = req[q]
    BY <2>1 DEF Leave, TypeInv
  <2>3. req'[p].pc = st /\ req'[p].spec = req[p].spec
    BY <1>d, <2>2 DEF ReqType
  <2>4. ASSUME NEW m \in Metrics PROVE Holds(req'[p], m) = Holds(req[p], m)
    <3>1. m \in Nat /\ m <= NumMetrics /\ req[p].at \in Nat /\ req[p].failed \in Nat /\ NumMetrics \in Nat
      BY <1>d, HoldsType, Constants DEF Metrics
    <3> QED BY <2>1, <2>3, <3>1 DEF Holds
  <2> QED BY <1>g, <2>2, <2>4
<1>6. ASSUME NEW p \in Callers, LockRelease(p) PROVE Accounting'
  <2>1. /\ req'[p] = [req[p] EXCEPT !.pc = "releasing", !.at = 1, !.alive = TRUE]
        /\ row' = row /\ req[p].pc = "held"
        /\ \A q \in Callers : q # p => req'[q] = req[q]
    BY <1>6 DEF LockRelease, TypeInv
  <2>2. req'[p].pc = "releasing" /\ req'[p].at = 1 /\ req'[p].spec = req[p].spec
    BY <1>d, <2>1 DEF ReqType
  <2>3. \A m \in Metrics : Holds(req'[p], m) = Holds(req[p], m)
    BY <2>1, <2>2 DEF Holds, Metrics
  <2> QED BY <1>g, <2>1, <2>3
<1>7. ASSUME NEW p \in Callers, ContextEnds(p) PROVE Accounting'
  <2>1. /\ req'[p] = [req[p] EXCEPT !.alive = FALSE] /\ row' = row
        /\ \A q \in Callers : q # p => req'[q] = req[q]
    BY <1>7 DEF ContextEnds, TypeInv
  <2>2. /\ req'[p].pc = req[p].pc /\ req'[p].at = req[p].at /\ req'[p].failed = req[p].failed
        /\ req'[p].spec = req[p].spec
    BY <1>d, <2>1 DEF ReqType
  <2>3. \A m \in Metrics : Holds(req'[p], m) = Holds(req[p], m)
    BY <2>2 DEF Holds
  <2> QED BY <1>g, <2>1, <2>3
<1>8. CASE UNCHANGED <<row, req>>
  BY <1>8 DEF Accounting, Held
<1> QED BY <1>1, <1>2, <1>4, <1>5, <1>6, <1>7, <1>8 DEF Next, ChangePlan, vars

\* The stored usage is what the requests in flight hold, at every step: a
\* refused reservation is rolled back in full, a released one given back once,
\* and the clamp at zero of ReleaseQuota never hides an excess release.  For
\* both repositories, with one engine or one per server, as long as no request's
\* context ends inside the database.
THEOREM AccountingCorrect ==
  ASSUME Repo = "memory" \/ ~Cancellation
  PROVE  Spec => []Accounting
<1>1. Init => Accounting
  <2> SUFFICES ASSUME Init, NEW m \in Metrics PROVE row[m].used = Cardinality(Held(m))
    BY DEF Accounting
  <2>1. \A p \in Callers : Holds(req[p], m) = 0
    BY DEF Init, NewReq, Holds
  <2>2. Held(m) = {}
    BY <2>1 DEF Held
  <2>3. row[m].used = 0
    BY DEF Init
  <2> QED BY <2>2, <2>3, FS_EmptySet
<1>2. TypeInv /\ Accounting /\ [Next]_vars => Accounting'
  BY StepAccounting
<1> QED BY <1>1, <1>2, TypesInvariant, PTL DEF Spec

------------------------------------------------------------------------------
\* A request inside the engine holds its server's mutex.
InsideLocked ==
  \A p \in Callers : req[p].pc \in {"reserving", "undoing", "releasing"} => Mine(p)

\* Metric m of request q has room, before its turn; has not been exceeded, after.
Room(q, m) ==
  q.spec[m] > 0 /\ q.plan[m] > 0 =>
    IF m < q.at THEN row[m].used <= q.plan[m] ELSE row[m].used + q.spec[m] <= q.plan[m]

\* While a request is reserving, CheckQuota's answer is still what the rows say,
\* and what it reserved so far fits.
Reserving(q) ==
  /\ q.fits <=> \A m \in Metrics : Room(q, m)
  /\ \A m \in Metrics : m < q.at => Room(q, m)

GrantInv ==
  \A p \in Callers : /\ req[p].pc = "reserving" => Reserving(req[p])
                     /\ req[p].pc = "held" => req[p].fits

\* The limit of a row says whether the plans limit its metric at all.
LimitsAgree ==
  \A m \in Metrics : row[m].limit # NoRow =>
    \A q \in Plans : q[m] = 0 <=> row[m].limit = 0

RefusalInv ==
  /\ LimitsAgree
  /\ \A p \in Callers : req[p].pc \in {"undoing", "refused"} => ~req[p].fits

------------------------------------------------------------------------------
\* The mutex is taken when free and given up by its owner.
LEMMA StepLocked == TypeInv /\ InsideLocked /\ [Next]_vars => InsideLocked'
<1> SUFFICES ASSUME TypeInv, InsideLocked, [Next]_vars PROVE InsideLocked'
  OBVIOUS
<1> DEFINE Inside == {"reserving", "undoing", "releasing"}
<1>a. \A p \in Callers : ServerOf[p] \in Servers /\ p # Nobody
  BY QuotaAssumption
<1>b. lock \in [Servers -> Callers \cup {Nobody}] /\ req \in [Callers -> ReqType]
  BY DEF TypeInv
\* Taking a free mutex, leaving with one's own, or moving on inside.
<1>c. ASSUME NEW p \in Callers, \A q \in Callers : q # p => req'[q] = req[q],
             lock[ServerOf[p]] = Nobody, lock' = [lock EXCEPT ![ServerOf[p]] = p]
      PROVE  InsideLocked'
  BY <1>a, <1>b, <1>c DEF InsideLocked, Mine
<1>d. ASSUME NEW p \in Callers, \A q \in Callers : q # p => req'[q] = req[q],
             Mine(p), req'[p].pc \notin Inside, lock' = [lock EXCEPT ![ServerOf[p]] = Nobody]
      PROVE  InsideLocked'
  BY <1>a, <1>b, <1>d DEF InsideLocked, Mine
<1>e. ASSUME NEW p \in Callers, \A q \in Callers : q # p => req'[q] = req[q],
             Mine(p), lock' = lock
      PROVE  InsideLocked'
  BY <1>a, <1>b, <1>e DEF InsideLocked, Mine
<1>1. ASSUME NEW p \in Callers, NEW s \in Specs, LockReserve(p, s) PROVE InsideLocked'
  BY <1>1, <1>b, <1>c DEF LockReserve
<1>2. ASSUME NEW p \in Callers, LockRelease(p) PROVE InsideLocked'
  BY <1>2, <1>b, <1>c DEF LockRelease
<1>3. ASSUME NEW p \in Callers, ReserveMetric(p) PROVE InsideLocked'
  <2>1. \A q \in Callers : q # p => req'[q] = req[q]
    BY <1>3, <1>b DEF ReserveMetric
  <2> QED BY <1>3, <1>e, <2>1 DEF ReserveMetric
<1>4. ASSUME NEW p \in Callers, UndoMetric(p) \/ ReleaseMetric(p) PROVE InsideLocked'
  BY <1>4, <1>b, <1>e DEF UndoMetric, ReleaseMetric, ReleaseOne
<1>5. ASSUME NEW p \in Callers, ContextEnds(p) PROVE InsideLocked'
  BY <1>5, <1>b, <1>e DEF ContextEnds
<1>6. ASSUME NEW p \in Callers, ReserveDone(p) \/ UndoDone(p) \/ ReleaseDone(p) PROVE InsideLocked'
  <2>1. PICK st \in {"held", "refused", "idle"} : Leave(p, st) /\ Mine(p)
    BY <1>6 DEF ReserveDone, UndoDone, ReleaseDone
  <2>2. req'[p].pc = st
    BY <1>b, <2>1 DEF Leave, ReqType
  <2> QED BY <1>b, <1>d, <2>1, <2>2 DEF Leave
<1>7. CASE UNCHANGED <<lock, req>>
  BY <1>7 DEF InsideLocked, Mine
<1> QED BY <1>1, <1>2, <1>3, <1>4, <1>5, <1>6, <1>7 DEF Next, ChangePlan, vars

\* What the in-memory repository answers.
LEMMA MemoryAnswer ==
  ASSUME Repo = "memory", NEW r \in RowType, NEW delta \in Nat, NEW limit \in Nat
  PROVE  LET x == RepoReserve(r, delta, limit) IN
         /\ limit > 0 => (x.ok <=> r.used + delta <= limit)
         /\ limit = 0 /\ r.limit \in {NoRow, 0} => x.ok
         /\ x.row.limit = IF limit > 0 \/ r.limit = NoRow THEN limit ELSE r.limit
<1> DEFINE l == IF limit > 0 \/ r.limit = NoRow THEN limit ELSE r.limit
           ok == l = 0 \/ r.used + delta <= l
           u == IF ok THEN r.used + delta ELSE r.used
           x == RepoReserve(r, delta, limit)
<1>1. x = [ok |-> ok, row |-> [limit |-> l, used |-> u]]
  BY DEF RepoReserve, MemoryReserve
<1>2. x.ok = ok /\ x.row.limit = l
  <2> HIDE DEF l, ok, u
  <2> QED BY <1>1
<1>3. limit > 0 => (ok <=> r.used + delta <= limit)
  BY DEF RowType
<1>4. limit = 0 /\ r.limit \in {NoRow, 0} => ok
  BY DEF RowType, NoRow
<1> HIDE DEF x, ok
<1>5. /\ limit > 0 => (x.ok <=> r.used + delta <= limit)
      /\ limit = 0 /\ r.limit \in {NoRow, 0} => x.ok
  BY <1>2, <1>3, <1>4
<1> QED BY <1>2, <1>5 DEF x

\* What a step of ReserveMetric does in memory: the metric is skipped, taken
\* or refused.
LEMMA ReserveMetricCases ==
  ASSUME Repo = "memory", TypeInv, NEW p \in Callers, ReserveMetric(p),
         NEW q, q = req[p], NEW m, m = q.at
  PROVE  /\ m \in Metrics /\ q \in ReqType /\ q.pc = "reserving"
         /\ q.spec[m] \in Nat /\ q.plan[m] \in Nat /\ q.plan \in Plans
         /\ row[m].used \in Nat /\ Mine(p)
         /\ \A k \in Callers : k # p => req'[k] = req[k]
         /\ \A k \in Metrics : k # m => row'[k] = row[k]
         /\ req'[p].spec = q.spec /\ req'[p].plan = q.plan /\ req'[p].fits = q.fits
         /\ \/ row'[m] = row[m]
            \/ row'[m].limit = IF q.plan[m] > 0 \/ row[m].limit = NoRow
                               THEN q.plan[m] ELSE row[m].limit
         /\ \/ /\ q.spec[m] = 0 /\ row' = row
               /\ req'[p].pc = "reserving" /\ req'[p].at = m + 1
            \/ /\ q.plan[m] > 0 => row[m].used + q.spec[m] <= q.plan[m]
               /\ row'[m].used = row[m].used + q.spec[m]
               /\ req'[p].pc = "reserving" /\ req'[p].at = m + 1
            \/ /\ q.plan[m] > 0 => row[m].used + q.spec[m] > q.plan[m]
               /\ q.spec[m] > 0
               /\ q.plan[m] = 0 => row[m].limit \notin {NoRow, 0}
               /\ req'[p].pc = "undoing"
<1> DEFINE r == RepoReserve(row[m], q.spec[m], q.plan[m])
           y == [q EXCEPT !.at = m + 1]
           z == [q EXCEPT !.pc = "undoing", !.at = 1, !.failed = m]
<1>1. m \in Metrics /\ q \in ReqType /\ q.pc = "reserving" /\ Mine(p)
  BY DEF ReserveMetric, TypeInv
<1>2. q.spec[m] \in Nat /\ q.plan[m] \in Nat /\ q.plan \in Plans
  BY <1>1, Constants DEF ReqType
<1>3. row[m] \in RowType /\ (row[m].limit = NoRow => row[m].used = 0) /\ row \in [Metrics -> RowType]
  BY <1>1 DEF TypeInv
<1>4. row[m].used \in Nat
  BY <1>3 DEF RowType
<1>5. /\ y.pc = "reserving" /\ y.at = m + 1 /\ y.spec = q.spec /\ y.plan = q.plan /\ y.fits = q.fits
      /\ z.pc = "undoing" /\ z.spec = q.spec /\ z.plan = q.plan /\ z.fits = q.fits
  BY <1>1 DEF ReqType
<1>6. ~CallFails(p)
  BY DEF CallFails
<1>7. \A k \in Callers : k # p => req'[k] = req[k]
  BY DEF ReserveMetric, TypeInv
<1>8. \/ req'[p] = y /\ row' = row /\ q.spec[m] = 0
      \/ req'[p] = y /\ row' = [row EXCEPT ![m] = r.row] /\ r.ok /\ q.spec[m] # 0
      \/ req'[p] = z /\ row' = [row EXCEPT ![m] = r.row] /\ ~r.ok /\ q.spec[m] # 0
  BY <1>6 DEF ReserveMetric, TypeInv
<1>9. r.row.used = IF r.ok THEN row[m].used + q.spec[m] ELSE row[m].used
  BY <1>2, <1>3, ReservedRow
<1>10. /\ q.plan[m] > 0 => (r.ok <=> row[m].used + q.spec[m] <= q.plan[m])
       /\ q.plan[m] = 0 /\ row[m].limit \in {NoRow, 0} => r.ok
       /\ r.row.limit = IF q.plan[m] > 0 \/ row[m].limit = NoRow THEN q.plan[m] ELSE row[m].limit
  BY <1>2, <1>3, MemoryAnswer
<1> HIDE DEF r, y, z
<1>11. CASE req'[p] = y /\ row' = row /\ q.spec[m] = 0
  BY <1>1, <1>2, <1>4, <1>5, <1>7, <1>11
<1>12. CASE req'[p] = y /\ row' = [row EXCEPT ![m] = r.row] /\ r.ok /\ q.spec[m] # 0
  <2>1. row'[m] = r.row /\ \A k \in Metrics : k # m => row'[k] = row[k]
    BY <1>1, <1>3, <1>12
  <2> QED BY <1>1, <1>2, <1>4, <1>5, <1>7, <1>9, <1>10, <1>12, <2>1
<1>13. CASE req'[p] = z /\ row' = [row EXCEPT ![m] = r.row] /\ ~r.ok /\ q.spec[m] # 0
  <2>1. row'[m] = r.row /\ \A k \in Metrics : k # m => row'[k] = row[k]
    BY <1>1, <1>3, <1>13
  <2>2. q.plan[m] > 0 => row[m].used + q.spec[m] > q.plan[m]
    BY <1>2, <1>4, <1>10, <1>13
  <2> QED BY <1>1, <1>2, <1>4, <1>5, <1>7, <1>10, <1>13, <2>1, <2>2
<1> QED BY <1>8, <1>11, <1>12, <1>13

------------------------------------------------------------------------------
\* In memory there is one server: while a request holds the mutex no other one
\* is inside the engine.
LEMMA Alone ==
  ASSUME Repo = "memory", InsideLocked, NEW p \in Callers, Mine(p),
         NEW k \in Callers, k # p
  PROVE  req[k].pc \notin {"reserving", "undoing", "releasing"}
<1>1. ServerOf[k] = ServerOf[p]
  BY QuotaAssumption
<1> QED BY <1>1 DEF InsideLocked, Mine

\* When ReserveQuota has the mutex, CheckQuota's answer is what the rows say.
LEMMA LockedRequest ==
  ASSUME TypeInv, NEW p \in Callers, NEW s \in Specs, LockReserve(p, s)
  PROVE  /\ req'[p].pc = "reserving" /\ req'[p].at = 1
         /\ req'[p].spec = s /\ req'[p].plan = plan
         /\ req'[p].fits = CheckQuota(s)
         /\ row' = row /\ plan' = plan
         /\ \A k \in Callers : k # p => req'[k] = req[k]
<1> DEFINE a == NewReq(s)
           b == [a EXCEPT !.pc = "reserving"]
           x == [b EXCEPT !.fits = CheckQuota(s)]
<1>1. a \in ReqType /\ a.spec = s /\ a.plan = plan /\ a.at = 1
  BY Constants DEF NewReq, ReqType, PCs, TypeInv
<1>2. req' = [req EXCEPT ![p] = x] /\ row' = row /\ plan' = plan
  BY DEF LockReserve
<1> HIDE DEF a
<1>3. b \in ReqType /\ b.pc = "reserving" /\ b.spec = s /\ b.plan = plan /\ b.at = 1
  BY <1>1 DEF ReqType, PCs
<1> HIDE DEF b
<1>4. x.pc = "reserving" /\ x.spec = s /\ x.plan = plan /\ x.at = 1 /\ x.fits = CheckQuota(s)
  BY <1>3 DEF ReqType
<1> HIDE DEF x
<1> QED BY <1>2, <1>4 DEF TypeInv

\* The request that leaves, goes on to release or loses its context.
LEMMA OtherSteps ==
  ASSUME TypeInv, NEW p \in Callers,
         \/ ReserveDone(p) \/ UndoMetric(p) \/ UndoDone(p)
         \/ LockRelease(p) \/ ReleaseMetric(p) \/ ReleaseDone(p) \/ ContextEnds(p)
  PROVE  /\ \A k \in Callers : k # p => req'[k] = req[k]
         /\ row' = row \/ Mine(p)
         /\ req'[p].fits = req[p].fits
         /\ \A m \in Metrics : row'[m].limit = row[m].limit
         /\ \/ req[p].pc = "reserving" /\ req[p].at > NumMetrics /\ req'[p].pc = "held" /\ row' = row
            \/ req[p].pc = "undoing" /\ req'[p].pc \in {"undoing", "refused"}
            \/ req[p].pc \in {"held", "releasing"} /\ req'[p].pc \in {"releasing", "idle"}
            \/ /\ req'[p].pc = req[p].pc /\ row' = row
               /\ req'[p].spec = req[p].spec /\ req'[p].plan = req[p].plan /\ req'[p].at = req[p].at
<1>a. req \in [Callers -> ReqType] /\ row \in [Metrics -> RowType] /\ req[p] \in ReqType
  BY DEF TypeInv
<1>1. ASSUME ReserveDone(p) \/ UndoDone(p) \/ ReleaseDone(p)
      PROVE  /\ \A k \in Callers : k # p => req'[k] = req[k]
             /\ row' = row /\ req'[p].fits = req[p].fits
             /\ \/ req[p].pc = "reserving" /\ req[p].at > NumMetrics /\ req'[p].pc = "held"
                \/ req[p].pc = "undoing" /\ req'[p].pc = "refused"
                \/ req[p].pc = "releasing" /\ req'[p].pc = "idle"
  <2>1. PICK st \in {"held", "refused", "idle"} :
          /\ Leave(p, st)
          /\ \/ st = "held" /\ req[p].pc = "reserving" /\ req[p].at > NumMetrics
             \/ st = "refused" /\ req[p].pc = "undoing"
             \/ st = "idle" /\ req[p].pc = "releasing"
    BY <1>1 DEF ReserveDone, UndoDone, ReleaseDone
  <2>2. /\ req'[p] = [req[p] EXCEPT !.pc = st] /\ row' = row
        /\ \A q \in Callers : q # p => req'[q] = req[q]
    BY <1>a, <2>1 DEF Leave
  <2>3. req'[p].pc = st /\ req'[p].fits = req[p].fits
    BY <1>a, <2>2 DEF ReqType
  <2> QED BY <2>1, <2>2, <2>3
<1>2. ASSUME UndoMetric(p) \/ ReleaseMetric(p)
      PROVE  /\ \A k \in Callers : k # p => req'[k] = req[k]
             /\ Mine(p) /\ req'[p].fits = req[p].fits /\ req'[p].pc = req[p].pc
             /\ req[p].pc \in {"undoing", "releasing"}
             /\ \A m \in Metrics : row'[m].limit = row[m].limit
  <2>1. Mine(p) /\ req[p].pc \in {"undoing", "releasing"} /\ req[p].at \in Metrics /\ ReleaseOne(p)
    BY <1>2, <1>a, Constants DEF UndoMetric, ReleaseMetric, ReqType, Metrics
  <2>2. /\ req'[p] = [req[p] EXCEPT !.at = req[p].at + 1]
        /\ \A q \in Callers : q # p => req'[q] = req[q]
    BY <1>a, <2>1 DEF ReleaseOne
  <2>3. req'[p].fits = req[p].fits /\ req'[p].pc = req[p].pc
    BY <1>a, <2>2 DEF ReqType
  <2>4. PICK j \in Metrics, d \in Nat : row' = row \/ row' = [row EXCEPT ![j] = RepoRelease(row[j], d)]
    BY <1>a, <2>1, Constants DEF ReleaseOne, ReqType
  <2>5. RepoRelease(row[j], d).limit = row[j].limit
    BY <1>a, ReleasedRow
  <2>6. \A m \in Metrics : row'[m].limit = row[m].limit
    BY <1>a, <2>4, <2>5
  <2> QED BY <2>1, <2>2, <2>3, <2>6
<1>3. ASSUME LockRelease(p)
      PROVE  /\ \A k \in Callers : k # p => req'[k] = req[k]
             /\ row' = row /\ req'[p].fits = req[p].fits
             /\ req[p].pc = "held" /\ req'[p].pc = "releasing"
  <2>1. /\ req'[p] = [req[p] EXCEPT !.pc = "releasing", !.at = 1, !.alive = TRUE]
        /\ row' = row /\ req[p].pc = "held"
        /\ \A q \in Callers : q # p => req'[q] = req[q]
    BY <1>3, <1>a DEF LockRelease
  <2> QED BY <1>a, <2>1 DEF ReqType
<1>4. ASSUME ContextEnds(p)
      PROVE  /\ \A k \in Callers : k # p => req'[k] = req[k]
             /\ row' = row /\ req'[p].fits = req[p].fits /\ req'[p].pc = req[p].pc
             /\ req'[p].spec = req[p].spec /\ req'[p].plan = req[p].plan /\ req'[p].at = req[p].at
  <2>1. /\ req'[p] = [req[p] EXCEPT !.alive = FALSE] /\ row' = row
        /\ \A q \in Callers : q # p => req'[q] = req[q]
    BY <1>4, <1>a DEF ContextEnds
  <2> QED BY <1>a, <2>1 DEF ReqType
<1> QED BY <1>1, <1>2, <1>3, <1>4

\* While the mutex is held the rows move only as its owner moves them.
LEMMA StepGrants ==
  ASSUME Repo = "memory"
  PROVE  TypeInv /\ InsideLocked /\ GrantInv /\ [Next]_vars => GrantInv'
<1> SUFFICES ASSUME TypeInv, InsideLocked, GrantInv, [Next]_vars PROVE GrantInv'
  OBVIOUS
<1>a. NumMetrics \in Nat /\ \A m \in Metrics : m \in Nat /\ m >= 1 /\ m <= NumMetrics
  BY Constants DEF Metrics
<1>b. \A m \in Metrics : row[m].used \in Nat
  BY DEF TypeInv, RowType
<1>c. ASSUME NEW k \in Callers, req'[k] = req[k], row' = row
      PROVE  /\ req'[k].pc = "reserving" => Reserving(req[k])'
             /\ req'[k].pc = "held" => req'[k].fits
  BY <1>c DEF GrantInv, Reserving, Room
<1>d. ASSUME NEW p \in Callers, \A k \in Callers : k # p => req'[k] = req[k],
             row' = row \/ Mine(p),
             req'[p].pc = "reserving" => Reserving(req[p])',
             req'[p].pc = "held" => req'[p].fits
      PROVE  GrantInv'
  <2> SUFFICES ASSUME NEW k \in Callers
               PROVE  /\ req'[k].pc = "reserving" => Reserving(req[k])'
                      /\ req'[k].pc = "held" => req'[k].fits
    BY DEF GrantInv
  <2>1. CASE k = p
    BY <1>d, <2>1
  <2>2. CASE k # p /\ row' = row
    BY <1>c, <1>d, <2>2
  <2>3. CASE k # p /\ Mine(p)
    <3>1. req[k].pc # "reserving" /\ req'[k] = req[k]
      BY <1>d, <2>3, Alone
    <3> QED BY <3>1 DEF GrantInv
  <2> QED BY <1>d, <2>1, <2>2, <2>3
<1>1. ASSUME NEW p \in Callers, NEW s \in Specs, LockReserve(p, s) PROVE GrantInv'
  <2>1. /\ req'[p].pc = "reserving" /\ req'[p].at = 1
        /\ req'[p].spec = s /\ req'[p].plan = plan
        /\ req'[p].fits = CheckQuota(s)
        /\ row' = row
        /\ \A k \in Callers : k # p => req'[k] = req[k]
    BY <1>1, LockedRequest
  <2>2. Reserving(req[p])'
    BY <1>a, <1>b, <2>1 DEF Reserving, Room, CheckQuota
  <2> QED BY <1>d, <2>1, <2>2
<1>2. ASSUME NEW p \in Callers, ReserveMetric(p) PROVE GrantInv'
  <2>1. PICK q, m : q = req[p] /\ m = q.at
    OBVIOUS
  <2>2. /\ m \in Metrics /\ q \in ReqType /\ q.pc = "reserving"
        /\ q.spec[m] \in Nat /\ q.plan[m] \in Nat
        /\ row[m].used \in Nat /\ Mine(p)
        /\ \A k \in Callers : k # p => req'[k] = req[k]
        /\ \A k \in Metrics : k # m => row'[k] = row[k]
        /\ req'[p].spec = q.spec /\ req'[p].plan = q.plan /\ req'[p].fits = q.fits
    BY <1>2, <2>1, ReserveMetricCases
  <2>3. \/ /\ req'[p].pc = "reserving" /\ req'[p].at = m + 1
           /\ \/ q.spec[m] = 0 /\ row' = row
              \/ /\ q.plan[m] > 0 => row[m].used + q.spec[m] <= q.plan[m]
                 /\ row'[m].used = row[m].used + q.spec[m]
        \/ req'[p].pc = "undoing"
    BY <1>2, <2>1, ReserveMetricCases
  <2>4. Reserving(q)
    BY <2>1, <2>2 DEF GrantInv
  <2>5. CASE req'[p].pc = "undoing"
    BY <1>d, <2>2, <2>5
  <2>6. CASE req'[p].pc = "reserving" /\ req'[p].at = m + 1
    <3>1. Room(q, m) /\ Room(req[p], m)'
      BY <1>a, <2>1, <2>2, <2>3, <2>6 DEF Room
    <3>2. \A k \in Metrics : k # m => (Room(req[p], k)' <=> Room(q, k))
      <4> SUFFICES ASSUME NEW k \in Metrics, k # m PROVE Room(req[p], k)' <=> Room(q, k)
        OBVIOUS
      <4>1. (k < m + 1) <=> (k < m)
        BY <1>a, <2>2
      <4> QED BY <2>1, <2>2, <2>6, <4>1 DEF Room
    <3>3. \A k \in Metrics : k < m + 1 => k = m \/ k < m
      BY <1>a, <2>2
    <3>4. Reserving(req[p])'
      BY <2>1, <2>2, <2>4, <2>6, <3>1, <3>2, <3>3 DEF Reserving
    <3> QED BY <1>d, <2>2, <2>6, <3>4
  <2> QED BY <2>3, <2>5, <2>6
<1>3. ASSUME NEW p \in Callers,
             \/ ReserveDone(p) \/ UndoMetric(p) \/ UndoDone(p)
             \/ LockRelease(p) \/ ReleaseMetric(p) \/ ReleaseDone(p) \/ ContextEnds(p)
      PROVE  GrantInv'
  <2>1. /\ \A k \in Callers : k # p => req'[k] = req[k]
        /\ row' = row \/ Mine(p)
        /\ req'[p].fits = req[p].fits
        /\ \/ req[p].pc = "reserving" /\ req[p].at > NumMetrics /\ req'[p].pc = "held" /\ row' = row
           \/ req'[p].pc \in {"undoing", "refused", "releasing", "idle"}
           \/ /\ req'[p].pc = req[p].pc /\ row' = row
              /\ req'[p].spec = req[p].spec /\ req'[p].plan = req[p].plan /\ req'[p].at = req[p].at
    BY <1>3, OtherSteps
  <2>2. CASE req[p].pc = "reserving" /\ req[p].at > NumMetrics /\ req'[p].pc = "held"
    <3>1. \A m \in Metrics : m < req[p].at
      BY <1>a, <2>2 DEF TypeInv, ReqType
    <3>2. req[p].fits
      BY <2>2, <3>1 DEF GrantInv, Reserving
    <3> QED BY <1>d, <2>1, <2>2, <3>2
  <2>3. CASE req'[p].pc \in {"undoing", "refused", "releasing", "idle"}
    BY <1>d, <2>1, <2>3
  <2>4. CASE /\ req'[p].pc = req[p].pc /\ row' = row
             /\ req'[p].spec = req[p].spec /\ req'[p].plan = req[p].plan /\ req'[p].at = req[p].at
    <3>1. req'[p].pc = "reserving" => Reserving(req[p])'
      BY <2>1, <2>4 DEF GrantInv, Reserving, Room
    <3> QED BY <1>d, <2>1, <2>4, <3>1 DEF GrantInv
  <2> QED BY <2>1, <2>2, <2>3, <2>4
<1>4. CASE UNCHANGED <<row, req>>
  BY <1>4 DEF GrantInv, Reserving, Room
<1> QED BY <1>1, <1>2, <1>3, <1>4 DEF Next, ChangePlan, vars

\* The plans agree on which metrics they limit.
PlansAgree == \A a, b \in Plans : \A m \in Metrics : a[m] = 0 <=> b[m] = 0

\* A metric that is refused had no room when the mutex was taken.
LEMMA StepRefusals ==
  ASSUME Repo = "memory", PlansAgree
  PROVE  TypeInv /\ GrantInv /\ RefusalInv /\ [Next]_vars => RefusalInv'
<1> SUFFICES ASSUME TypeInv, GrantInv, RefusalInv, [Next]_vars PROVE RefusalInv'
  OBVIOUS
<1>a. ASSUME NEW p \in Callers, \A k \in Callers : k # p => req'[k] = req[k],
             LimitsAgree', req'[p].pc \in {"undoing", "refused"} => ~req'[p].fits
      PROVE  RefusalInv'
  BY <1>a DEF RefusalInv
<1>b. ASSUME \A m \in Metrics : row'[m].limit = row[m].limit PROVE LimitsAgree'
  BY <1>b DEF RefusalInv, LimitsAgree
<1>1. ASSUME NEW p \in Callers, NEW s \in Specs, LockReserve(p, s) PROVE RefusalInv'
  <2>1. /\ req'[p].pc = "reserving" /\ row' = row
        /\ \A k \in Callers : k # p => req'[k] = req[k]
    BY <1>1, LockedRequest
  <2> QED BY <1>a, <1>b, <2>1
<1>2. ASSUME NEW p \in Callers, ReserveMetric(p) PROVE RefusalInv'
  <2>1. PICK q, m : q = req[p] /\ m = q.at
    OBVIOUS
  <2>2. /\ m \in Metrics /\ q.pc = "reserving"
        /\ q.spec[m] \in Nat /\ q.plan[m] \in Nat /\ q.plan \in Plans
        /\ row[m].used \in Nat
        /\ \A k \in Callers : k # p => req'[k] = req[k]
        /\ \A k \in Metrics : k # m => row'[k] = row[k]
        /\ req'[p].fits = q.fits
    BY <1>2, <2>1, ReserveMetricCases
  <2>3. \/ row'[m] = row[m]
        \/ row'[m].limit = IF q.plan[m] > 0 \/ row[m].limit = NoRow
                           THEN q.plan[m] ELSE row[m].limit
    BY <1>2, <2>1, ReserveMetricCases
  <2>4. \/ req'[p].pc = "reserving"
        \/ /\ q.plan[m] > 0 => row[m].used + q.spec[m] > q.plan[m]
           /\ q.spec[m] > 0
           /\ q.plan[m] = 0 => row[m].limit \notin {NoRow, 0}
    BY <1>2, <2>1, ReserveMetricCases
  <2>5. LimitsAgree'
    <3>1. row'[m].limit # NoRow => \A a \in Plans : a[m] = 0 <=> row'[m].limit = 0
      BY <2>2, <2>3 DEF RefusalInv, LimitsAgree, PlansAgree
    <3> QED BY <2>2, <3>1 DEF RefusalInv, LimitsAgree
  <2>6. CASE req'[p].pc = "reserving"
    BY <1>a, <2>2, <2>5, <2>6
  <2>7. CASE /\ q.plan[m] > 0 => row[m].used + q.spec[m] > q.plan[m]
             /\ q.spec[m] > 0
             /\ q.plan[m] = 0 => row[m].limit \notin {NoRow, 0}
    <3>1. q.plan[m] > 0
      BY <2>2, <2>7 DEF RefusalInv, LimitsAgree
    <3>2. ~Room(q, m)
      BY <2>1, <2>2, <2>7, <3>1 DEF Room, Metrics
    <3>3. ~q.fits
      BY <2>1, <2>2, <3>2 DEF GrantInv, Reserving
    <3> QED BY <1>a, <2>2, <2>5, <3>3
  <2> QED BY <2>4, <2>6, <2>7
<1>3. ASSUME NEW p \in Callers,
             \/ ReserveDone(p) \/ UndoMetric(p) \/ UndoDone(p)
             \/ LockRelease(p) \/ ReleaseMetric(p) \/ ReleaseDone(p) \/ ContextEnds(p)
      PROVE  RefusalInv'
  <2>1. /\ \A k \in Callers : k # p => req'[k] = req[k]
        /\ req'[p].fits = req[p].fits
        /\ \A m \in Metrics : row'[m].limit = row[m].limit
        /\ \/ req[p].pc \in {"undoing", "refused"}
           \/ req'[p].pc \notin {"undoing", "refused"}
    BY <1>3, OtherSteps
  <2> QED BY <1>a, <1>b, <2>1 DEF RefusalInv
<1>4. CASE UNCHANGED <<row, req>>
  BY <1>4 DEF RefusalInv, LimitsAgree
<1> QED BY <1>1, <1>2, <1>3, <1>4 DEF Next, ChangePlan, vars

LEMMA InitGrants ==
  Init => InsideLocked /\ GrantInv /\ RefusalInv
<1> SUFFICES ASSUME Init PROVE InsideLocked /\ GrantInv /\ RefusalInv
  OBVIOUS
<1>1. \A p \in Callers : req[p].pc = "idle"
  BY DEF Init, NewReq
<1>2. \A m \in Metrics : row[m].limit = NoRow
  BY DEF Init
<1> QED BY <1>1, <1>2 DEF InsideLocked, GrantInv, RefusalInv, LimitsAgree

\* ReserveQuota grants only what CheckQuota would have granted when the engine
\* was locked, although it reserves the metrics one by one and ChangePlan takes
\* no mutex: with the in-memory repository, for any requests and plans.
THEOREM GrantsCorrect ==
  ASSUME Repo = "memory"
  PROVE  Spec => []GrantFits
<1>1. TypeInv /\ InsideLocked /\ GrantInv /\ [Next]_vars => InsideLocked' /\ GrantInv'
  BY StepLocked, StepGrants
<1>2. GrantInv => GrantFits
  BY DEF GrantInv, GrantFits
<1> QED BY <1>1, <1>2, InitGrants, TypesInvariant, PTL DEF Spec

\* ReserveQuota refuses only what CheckQuota would have refused, as long as the
\* plans agree on which metrics are limited: a row keeps the limit of an earlier
\* plan when the new plan sets none.
THEOREM RefusalsCorrect ==
  ASSUME Repo = "memory", PlansAgree
  PROVE  Spec => []RefusalJustified
<1>1. TypeInv /\ InsideLocked /\ GrantInv /\ RefusalInv /\ [Next]_vars
        => InsideLocked' /\ GrantInv' /\ RefusalInv'
  BY StepLocked, StepGrants, StepRefusals
<1>2. RefusalInv => RefusalJustified
  BY DEF RefusalInv, RefusalJustified
<1> QED BY <1>1, <1>2, InitGrants, TypesInvariant, PTL DEF Spec


------------------------------------------------------------------------------
\* The tenant's plan never changes, and no request asks for more than the plan
\* allows at once.
OnePlan == \A q, r \in Plans : q = r

ModestSpecs == \A s \in Specs, q \in Plans : \A m \in Metrics : q[m] > 0 => s[m] <= q[m]

\* A row stores the plan's limit and is within it.
Bounded ==
  \A m \in Metrics : /\ row[m].limit \in {NoRow, plan[m]}
                     /\ plan[m] > 0 => row[m].used <= plan[m]

\* One call of either repository keeps a row within its limit: the upsert of
\* PostgreSQL tests the stored limit, which is the plan's, or makes the row.
LEMMA ReservedWithin ==
  ASSUME NEW r \in RowType, NEW delta \in Nat, NEW limit \in Nat,
         r.limit = NoRow => r.used = 0,
         r.limit \in {NoRow, limit}, limit > 0 => r.used <= limit, limit > 0 => delta <= limit
  PROVE  LET x == RepoReserve(r, delta, limit).row IN
         x.limit \in {NoRow, limit} /\ (limit > 0 => x.used <= limit)
<1> USE DEF RowType, NoRow
<1>1. CASE Repo = "memory"
  <2> DEFINE ok == limit = 0 \/ r.used + delta <= limit
             u == IF ok THEN r.used + delta ELSE r.used
  <2>1. (IF limit > 0 \/ r.limit = NoRow THEN limit ELSE r.limit) = limit
    OBVIOUS
  <2>2. RepoReserve(r, delta, limit).row = [limit |-> limit, used |-> u]
    BY <1>1, <2>1 DEF RepoReserve, MemoryReserve
  <2>3. limit > 0 => u <= limit
    OBVIOUS
  <2> HIDE DEF u, ok
  <2> QED BY <2>2, <2>3
<1>2. CASE Repo # "memory"
  <2>1. CASE r.limit = NoRow
    BY <1>2, <2>1 DEF RepoReserve, PostgresReserve
  <2>2. CASE r.limit # NoRow
    BY <1>2, <2>2 DEF RepoReserve, PostgresReserve
  <2> QED BY <2>1, <2>2
<1> QED BY <1>1, <1>2

LEMMA StepBounded ==
  ASSUME OnePlan, ModestSpecs
  PROVE  TypeInv /\ Bounded /\ [Next]_vars => Bounded'
<1> SUFFICES ASSUME TypeInv, Bounded, [Next]_vars PROVE Bounded'
  OBVIOUS
<1>a. plan \in Plans /\ row \in [Metrics -> RowType] /\ req \in [Callers -> ReqType]
  BY DEF TypeInv
<1>b. ASSUME NEW k \in Metrics, NEW x \in RowType, plan' = plan, row' = [row EXCEPT ![k] = x],
             x.limit \in {NoRow, plan[k]}, plan[k] > 0 => x.used <= plan[k]
      PROVE  Bounded'
  BY <1>a, <1>b DEF Bounded
<1>c. ASSUME plan' = plan, row' = row PROVE Bounded'
  BY <1>c DEF Bounded
<1>1. ASSUME NEW p \in Callers, ReserveMetric(p) PROVE Bounded'
  <2> DEFINE q == req[p]
             m == q.at
             x == RepoReserve(row[m], q.spec[m], q.plan[m]).row
  <2>1. m \in Metrics /\ q \in ReqType
    BY <1>1, <1>a DEF ReserveMetric
  <2>2. q.spec \in Specs /\ q.plan = plan
    BY <1>a, <2>1 DEF ReqType, OnePlan
  <2>3. /\ q.spec[m] \in Nat /\ plan[m] \in Nat /\ row[m] \in RowType
        /\ plan[m] > 0 => q.spec[m] <= plan[m]
    BY <1>a, <2>1, <2>2, Constants DEF ModestSpecs
  <2>4. row[m].limit = NoRow => row[m].used = 0
    BY <2>1 DEF TypeInv
  <2>5. row[m].limit \in {NoRow, plan[m]} /\ (plan[m] > 0 => row[m].used <= plan[m])
    BY <2>1 DEF Bounded
  <2>6. plan' = plan /\ (row' = row \/ row' = [row EXCEPT ![m] = x])
    BY <1>1 DEF ReserveMetric
  <2>7. x = RepoReserve(row[m], q.spec[m], plan[m]).row
    BY <2>2
  <2> HIDE DEF x, m, q
  <2>8. x.limit \in {NoRow, plan[m]} /\ (plan[m] > 0 => x.used <= plan[m])
    BY <2>3, <2>4, <2>5, <2>7, ReservedWithin
  <2>9. x \in RowType
    BY <2>3, <2>4, <2>7, ReservedRow
  <2> QED BY <1>b, <1>c, <2>1, <2>6, <2>8, <2>9
<1>2. ASSUME NEW p \in Callers, req[p].at \in Metrics, ReleaseOne(p) PROVE Bounded'
  <2> DEFINE m == req[p].at
             d == req[p].spec[m]
  <2>1. m \in Metrics /\ d \in Nat /\ row[m] \in RowType
    BY <1>2, <1>a, Constants DEF ReqType
  <2>2. plan' = plan /\ (row' = row \/ row' = [row EXCEPT ![m] = RepoRelease(row[m], d)])
    BY <1>2 DEF ReleaseOne
  <2>3. row[m].limit \in {NoRow, plan[m]} /\ (plan[m] > 0 => row[m].used <= plan[m])
    BY <2>1 DEF Bounded
  <2> HIDE DEF m, d
  <2> DEFINE x == RepoRelease(row[m], d)
  <2>4. /\ x \in RowType /\ x.limit = row[m].limit
        /\ x.used = IF row[m].used > d THEN row[m].used - d ELSE 0
    BY <2>1, ReleasedRow
  <2>5. plan[m] \in Nat /\ row[m].used \in Nat
    BY <1>a, <2>1, Constants DEF RowType
  <2> HIDE DEF x
  <2>6. plan[m] > 0 => x.used <= plan[m]
    BY <2>1, <2>3, <2>4, <2>5
  <2> QED BY <1>b, <1>c, <2>1, <2>2, <2>3, <2>4, <2>6 DEF x
<1>3. ASSUME NEW p \in Callers, UndoMetric(p) \/ ReleaseMetric(p) PROVE Bounded'
  <2>1. req[p].at \in Metrics
    BY <1>3, <1>a, Constants DEF UndoMetric, ReleaseMetric, ReqType, Metrics
  <2> QED BY <1>2, <1>3, <2>1 DEF UndoMetric, ReleaseMetric
<1>4. ASSUME NEW p \in Callers,
             \/ \E s \in Specs : LockReserve(p, s)
             \/ ReserveDone(p) \/ UndoDone(p) \/ LockRelease(p) \/ ReleaseDone(p) \/ ContextEnds(p)
      PROVE  Bounded'
  <2>1. plan' = plan /\ row' = row
    BY <1>4 DEF LockReserve, ReserveDone, UndoDone, LockRelease, ReleaseDone, ContextEnds, Leave
  <2> QED BY <1>c, <2>1
<1>5. ASSUME NEW q \in Plans, ChangePlan(q) PROVE Bounded'
  BY <1>5, <1>a DEF ChangePlan, OnePlan
<1>6. CASE UNCHANGED vars
  BY <1>6, <1>c DEF vars
<1> QED BY <1>1, <1>3, <1>4, <1>5, <1>6 DEF Next

\* While the plan stays and nobody asks for more than it allows at once, no
\* interleaving of reservations, rollbacks and releases on any number of servers,
\* and no context that ends in their midst, takes the usage over the limit: the
\* conditional upsert decides row by row and needs no mutex.
THEOREM WithinLimitCorrect ==
  ASSUME OnePlan, ModestSpecs
  PROVE  Spec => []WithinLimit
<1>1. Init => Bounded
  BY Constants DEF Init, Bounded
<1>2. TypeInv /\ Bounded /\ [Next]_vars => Bounded'
  BY StepBounded
<1>3. Bounded => WithinLimit
  BY DEF Bounded, WithinLimit
<1> QED BY <1>1, <1>2, <1>3, TypesInvariant, PTL DEF Spec
==============================================================================
