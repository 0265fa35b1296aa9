----------------------------- MODULE Placement -----------------------------
(***************************************************************************)
(* The placement scheduler, internal/app/scheduler/scheduler.go: which     *)
(* nodes can take an instance, and which of them is chosen.                *)
(*                                                                         *)
(* A node is a record of its row (id, status, maintenance, drain, loc,     *)
(* arch, kvm, capacity, over), an instance one of its own (id, node,       *)
(* status, size), a request what is asked for (kind, loc, arch, size,      *)
(* exclude, preferred), with "" where anything will do.  A capacity and a  *)
(* size have the fields cpu, mem and disk; over is the overcommit ratio of *)
(* cpu and mem, a whole number here.                                       *)
(***************************************************************************)
EXTENDS Integers, FiniteSets, FiniteSetsExt

CONSTANTS
  DefaultCap,  \* what a node that reports no capacity is taken to have
  Unit         \* the unit in which available memory and storage are reported

Resources == {"cpu", "mem", "disk"}

IsSchedulable(n) ==
  n.status \in {"online", "degraded"} /\ ~n.maintenance /\ ~n.drain

\* What the instances of a node hold; pending and deleted ones hold nothing.
Allocated(insts, n, res) ==
  MapThenSumSet(LAMBDA i : i.size[res],
    {i \in insts : i.node = n.id /\ i.status \notin {"deleted", "pending"}})

Ratio(n, res) == IF res = "disk" \/ n.over[res] <= 0 THEN 1 ELSE n.over[res]

Ceiling(n, res) ==
  LET c == n.capacity[res] * Ratio(n, res) IN IF c <= 0 THEN DefaultCap[res] ELSE c

Available(insts, n, res) == Ceiling(n, res) - Allocated(insts, n, res)

\* The figure a candidate carries, rounded towards zero as Go divides.
Reported(insts, n, res) ==
  LET a == Available(insts, n, res) IN
  IF res = "cpu" THEN a ELSE IF a >= 0 THEN (a \div Unit) * Unit ELSE -(((-a) \div Unit) * Unit)

Eligible(insts, n, req) ==
  /\ n.id \notin req.exclude
  /\ IsSchedulable(n)
  /\ req.loc \in {"", n.loc}
  /\ req.arch \in {"", n.arch}
  /\ req.kind = "virtual-machine" => n.kvm
  /\ \A res \in Resources : req.size[res] <= Available(insts, n, res)

\* 100 * ((1 - cpu use) / 2 + (1 - memory use) / 2), over the product of the
\* two ceilings, and 15 for the preferred node.
ScoreNum(insts, n, req) ==
  LET c == Ceiling(n, "cpu")
      m == Ceiling(n, "mem")
      use(res) == Allocated(insts, n, res) + req.size[res]
  IN 50 * (2 * c * m - use("cpu") * m - use("mem") * c)
       + (IF req.preferred = n.id THEN 15 * c * m ELSE 0)

ScoreDen(n) == Ceiling(n, "cpu") * Ceiling(n, "mem")

\* sort.Slice is not stable: any node of the best score may be taken.
SelectNode(nodes, insts, req) ==
  LET cands == {n \in nodes : Eligible(insts, n, req)} IN
  {n \in cands : \A o \in cands :
     ScoreNum(insts, n, req) * ScoreDen(o) >= ScoreNum(insts, o, req) * ScoreDen(n)}
=============================================================================
