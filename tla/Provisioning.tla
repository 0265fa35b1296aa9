---------------------------- MODULE Provisioning ----------------------------
(***************************************************************************)
(* The life of an instance: CreateInstance, PowerAction, DeleteInstance    *)
(* and UpdateSpec of internal/app/compute/service.go for one tenant, the   *)
(* commands they send to the nodes, the guests the agents drive, and the   *)
(* reconciler's repair of instances and quotas                             *)
(* (internal/app/reconcile/service.go).                                    *)
(*                                                                         *)
(* A request runs one operation.  The id of an instance is the request     *)
(* that created it, its size stands for the metered resources.  A node's   *)
(* agent executes its commands in order; a guest is known by its name.     *)
(* Reserving and releasing quota is one step here (module Quota takes it   *)
(* apart), and so is a command's way to the agent (module CommandDispatch).*)
(***************************************************************************)
EXTENDS Integers, Sequences, FiniteSets, FiniteSetsExt

CONSTANTS
  Reqs,    \* requests, and ids of the instances they create
  Names,   \* instance names
  NameOf,  \* the name request r gives to the instance it creates
  Nodes,   \* hypervisor nodes
  Sizes,   \* sizes an instance may have
  Limit,   \* the tenant's limit
  Resize,  \* whether UpdateSpec is called
  Faults   \* whether streams break, drivers fail and contexts time out

\* External: no instance, name or node.
None == "none"

ASSUME ProvisioningAssumption ==
  /\ NameOf \in [Reqs -> Names] /\ None \notin Reqs \cup Names \cup Nodes
  /\ Sizes \subseteq Nat \ {0} /\ Limit \in Nat
  /\ Resize \in BOOLEAN /\ Faults \in BOOLEAN

VARIABLES
  used,    \* the quota usage
  rows,    \* the instances table
  req,     \* the requests
  online,  \* the nodes with a live stream
  queue,   \* commands on their way to each node
  guests,  \* what runs on each node
  recon    \* the reconciler

vars == <<used, rows, req, online, queue, guests, recon>>

NoInst == [name |-> None, node |-> None, status |-> None, size |-> 0]

NewReq == [op |-> None, pc |-> "idle", id |-> None, name |-> None, node |-> None,
           size |-> 0, target |-> None, force |-> FALSE, ok |-> FALSE]

Idle == [pc |-> "idle", todo |-> {}, expected |-> 0]

Exists(i) == rows[i] # NoInst

Init ==
  /\ used = 0
  /\ rows = [r \in Reqs |-> NoInst]
  /\ req = [r \in Reqs |-> NewReq]
  /\ online = Nodes
  /\ queue = [n \in Nodes |-> <<>>]
  /\ guests = [n \in Nodes |-> [m \in Names |-> None]]
  /\ recon = Idle

\* UpdateStatus touches a row that exists and reports the others.
UpdateStatus(i, s) ==
  IF Exists(i) THEN [rows EXCEPT ![i].status = s] ELSE rows

\* ReleaseQuota of module Quota: the usage is clamped at zero.  It may fail, and
\* both callers drop the error.
Released(d) == {IF used > d THEN used - d ELSE 0} \cup (IF Faults THEN {used} ELSE {})

(***************************************************************************)
(* CreateInstance.                                                         *)
(***************************************************************************)
\* Reserve first; the target is the power state asked for.
CreateInstance(r, size, target) ==
  /\ req[r].pc = "idle"
  /\ IF used + size <= Limit
     THEN /\ used' = used + size
          /\ req' = [req EXCEPT ![r] = [NewReq EXCEPT !.op = "create", !.pc = "reserved",
               !.id = r, !.name = NameOf[r], !.size = size, !.target = target]]
     ELSE req' = [req EXCEPT ![r].pc = "done"] /\ UNCHANGED used
  /\ UNCHANGED <<rows, online, queue, guests, recon>>

Place(r, n) ==
  /\ req[r].pc = "reserved" /\ n \in online
  /\ req' = [req EXCEPT ![r].node = n, ![r].pc = "placed"]
  /\ UNCHANGED <<used, rows, online, queue, guests, recon>>

\* No node fits, the template or the cloud-init data is refused, or the insert
\* fails: the request returns and keeps what it reserved.
PlaceFails(r) ==
  /\ req[r].pc \in {"reserved", "placed"}
  /\ req' = [req EXCEPT ![r].pc = "done"]
  /\ UNCHANGED <<used, rows, online, queue, guests, recon>>

\* Create: a taken name also returns with the reservation kept.
Persist(r) ==
  LET q == req[r] IN
  /\ q.pc = "placed"
  /\ IF \E i \in Reqs : Exists(i) /\ rows[i].name = q.name
     THEN req' = [req EXCEPT ![r].pc = "done"] /\ UNCHANGED rows
     ELSE /\ rows' = [rows EXCEPT ![r] = [name |-> q.name, node |-> q.node,
                                          status |-> "creating", size |-> q.size]]
          /\ req' = [req EXCEPT ![r].pc = "sending"]
  /\ UNCHANGED <<used, online, queue, guests, recon>>

(***************************************************************************)
(* PowerAction, DeleteInstance and UpdateSpec read the row and send.       *)
(***************************************************************************)
Operate(r, i, op, target, size, force) ==
  /\ req[r].pc = "idle" /\ Exists(i)
  /\ req' = [req EXCEPT ![r] = [NewReq EXCEPT !.op = op, !.pc = "sending", !.id = i,
       !.name = rows[i].name, !.node = rows[i].node, !.size = size,
       !.target = target, !.force = force]]
  /\ UNCHANGED <<used, rows, online, queue, guests, recon>>

\* start and stop refuse an instance that is there already; force-stop and
\* restart do not look (force).
PowerAction(r, i, target, force) ==
  /\ force \/ rows[i].status # target
  /\ Operate(r, i, "power", target, rows[i].size, force)

DeleteInstance(r, i, force) == Operate(r, i, "delete", None, rows[i].size, force)

UpdateSpec(r, i, size) == Resize /\ Operate(r, i, "resize", None, size, FALSE)

\* SendCommand on an offline node fails at once.
Send(r) ==
  LET q == req[r] IN
  /\ q.pc = "sending"
  /\ IF q.node \in online
     THEN /\ queue' = [queue EXCEPT ![q.node] = Append(@, r)]
          /\ req' = [req EXCEPT ![r].pc = "waiting"]
     ELSE /\ req' = [req EXCEPT ![r].pc = "answered"]
          /\ UNCHANGED queue
  /\ UNCHANGED <<used, rows, online, guests, recon>>

\* The context of the command ends; the command stays where it is.
TimesOut(r) ==
  /\ Faults /\ req[r].pc = "waiting"
  /\ req' = [req EXCEPT ![r].pc = "answered"]
  /\ UNCHANGED <<used, rows, online, queue, guests, recon>>

(***************************************************************************)
(* The agent and its driver.                                               *)
(***************************************************************************)
\* The power states a guest may be in once Incus has accepted what it was asked;
\* an empty set when it refuses.  A guest that was asked to start after its
\* creation may stay stopped: the driver drops that error.  Power and deletion
\* are operations whose end the driver waits for without looking at the result:
\* one that failed leaves the guest as it is and is reported as done.
Outcomes(q) ==
  LET g == guests[q.node][q.name]
      OrFailed(S, x) == IF Faults THEN S \cup {x} ELSE S IN
  CASE q.op = "create" -> IF g # None THEN {} ELSE OrFailed({q.target}, "stopped")
    [] q.op = "power"  -> IF g = None THEN {} ELSE OrFailed({q.target}, g)
    [] q.op = "delete" -> IF g = None \/ (g = "running" /\ ~q.force) THEN {}
                          ELSE OrFailed({None}, g)
    [] q.op = "resize" -> IF g = None THEN {} ELSE {g}

\* The answer reaches the request if it still waits.
Answer(r, ok) ==
  req' = IF req[r].pc = "waiting" THEN [req EXCEPT ![r].pc = "answered", ![r].ok = ok] ELSE req

\* Mutant: the agent reports success whatever its driver says.
AgentRefusesSilently(n) ==
  /\ queue[n] # <<>>
  /\ Outcomes(req[Head(queue[n])]) = {} \/ Faults
  /\ Answer(Head(queue[n]), TRUE)
  /\ queue' = [queue EXCEPT ![n] = Tail(@)]
  /\ UNCHANGED <<used, rows, online, guests, recon>>

\* The driver's call fails without effect.
AgentRefuses(n) ==
  /\ queue[n] # <<>>
  /\ Outcomes(req[Head(queue[n])]) = {} \/ Faults
  /\ Answer(Head(queue[n]), FALSE)
  /\ queue' = [queue EXCEPT ![n] = Tail(@)]
  /\ UNCHANGED <<used, rows, online, guests, recon>>

\* It succeeds; CreateInstance then reads the guest back, which may fail.
AgentExecutes(n) ==
  /\ queue[n] # <<>>
  /\ LET r == Head(queue[n]) IN
     \E g \in Outcomes(req[r]) :
       /\ guests' = [guests EXCEPT ![n][req[r].name] = g]
       /\ \E ok \in {TRUE} \cup (IF Faults /\ req[r].op = "create" THEN {FALSE} ELSE {}) :
            Answer(r, ok)
  /\ queue' = [queue EXCEPT ![n] = Tail(@)]
  /\ UNCHANGED <<used, rows, online, recon>>

\* A stream breaks and loses what is on it; guests run on.
NodeDown(n) ==
  /\ Faults /\ n \in online
  /\ online' = online \ {n}
  /\ queue' = [queue EXCEPT ![n] = <<>>]
  /\ UNCHANGED <<used, rows, req, guests, recon>>

NodeUp(n) ==
  /\ n \notin online
  /\ online' = online \cup {n}
  /\ UNCHANGED <<used, rows, req, queue, guests, recon>>

(***************************************************************************)
(* After the answer.                                                       *)
(***************************************************************************)
Answered(r, op) == req[r].pc = "answered" /\ req[r].op = op

\* A start that was asked for is taken for done.
CreateSucceeds(r) ==
  /\ Answered(r, "create") /\ req[r].ok
  /\ rows' = UpdateStatus(r, req[r].target)
  /\ req' = [req EXCEPT ![r].pc = "done"]
  /\ UNCHANGED <<used, online, queue, guests, recon>>

\* The quota is given back, the row stays with status error.
CreateFails(r) ==
  /\ Answered(r, "create") /\ ~req[r].ok
  /\ used' \in Released(req[r].size)
  /\ req' = [req EXCEPT ![r].pc = "failing"]
  /\ UNCHANGED <<rows, online, queue, guests, recon>>

MarkError(r) ==
  /\ req[r].pc = "failing"
  /\ rows' = UpdateStatus(r, "error")
  /\ req' = [req EXCEPT ![r].pc = "done"]
  /\ UNCHANGED <<used, online, queue, guests, recon>>

\* Mutant: the status is written with an upsert, from the row read earlier.
PowerDoneUpsert(r) ==
  /\ Answered(r, "power")
  /\ rows' = IF req[r].ok
             THEN [rows EXCEPT ![req[r].id] = [name |-> req[r].name, node |-> req[r].node,
                                 status |-> req[r].target, size |-> req[r].size]]
             ELSE rows
  /\ req' = [req EXCEPT ![r].pc = "done"]
  /\ UNCHANGED <<used, online, queue, guests, recon>>

PowerDone(r) ==
  /\ Answered(r, "power")
  /\ rows' = IF req[r].ok THEN UpdateStatus(req[r].id, req[r].target) ELSE rows
  /\ req' = [req EXCEPT ![r].pc = "done"]
  /\ UNCHANGED <<used, online, queue, guests, recon>>

SpecDone(r) ==
  /\ Answered(r, "resize")
  /\ rows' = IF req[r].ok /\ Exists(req[r].id)
             THEN [rows EXCEPT ![req[r].id].size = req[r].size] ELSE rows
  /\ req' = [req EXCEPT ![r].pc = "done"]
  /\ UNCHANGED <<used, online, queue, guests, recon>>

\* UpdateStatus or UpdateSpec fails; the error is dropped.
UpdateLost(r) ==
  /\ Faults
  /\ \/ req[r].pc = "failing"
     \/ Answered(r, "create") /\ req[r].ok
     \/ Answered(r, "power") \/ Answered(r, "resize")
  /\ req' = [req EXCEPT ![r].pc = "done"]
  /\ UNCHANGED <<used, rows, online, queue, guests, recon>>

\* Mutant: a row that is already gone counts as deleted.
DeleteRowTwice(r) ==
  /\ Answered(r, "delete")
  /\ rows' = [rows EXCEPT ![req[r].id] = NoInst]
  /\ req' = [req EXCEPT ![r].pc = "releasing"]
  /\ UNCHANGED <<used, online, queue, guests, recon>>

\* The node's answer and the force flag play no part.
DeleteRow(r) ==
  /\ Answered(r, "delete")
  /\ rows' = [rows EXCEPT ![req[r].id] = NoInst]
  /\ req' = [req EXCEPT ![r].pc = IF Exists(req[r].id) THEN "releasing" ELSE "done"]
  /\ UNCHANGED <<used, online, queue, guests, recon>>

\* Delete fails, its context having ended: the caller gets the error, and the
\* row stays whatever the node did (target: history).
DeleteRowFails(r) ==
  /\ Faults /\ Answered(r, "delete")
  /\ req' = [req EXCEPT ![r].pc = "done", ![r].target = "kept"]
  /\ UNCHANGED <<used, rows, online, queue, guests, recon>>

\* Mutant: the request ends in a state nothing leaves.
DeleteReleaseLost(r) ==
  /\ req[r].pc = "releasing"
  /\ used' \in Released(req[r].size)
  /\ req' = [req EXCEPT ![r].pc = "deleted"]
  /\ UNCHANGED <<rows, online, queue, guests, recon>>

\* What is released is the size read at the start (target: history).
DeleteRelease(r) ==
  /\ req[r].pc = "releasing"
  /\ used' \in Released(req[r].size)
  /\ req' = [req EXCEPT ![r].pc = "done", ![r].target = "gone"]
  /\ UNCHANGED <<rows, online, queue, guests, recon>>

(***************************************************************************)
(* Reconcile.                                                              *)
(***************************************************************************)
Live(i) == rows[i].status \in {"running", "stopped"}

LiveUsage == MapThenSumSet(LAMBDA i : rows[i].size, {i \in Reqs : Live(i)})

\* The nodes and the instances are listed once.
ReconcileList ==
  /\ recon.pc = "idle"
  /\ recon' = [pc |-> "repairing", expected |-> LiveUsage,
               todo |-> {i \in Reqs : rows[i].status = "running" /\ rows[i].node \notin online}]
  /\ UNCHANGED <<used, rows, req, online, queue, guests>>

ReconcileInstance(i) ==
  /\ recon.pc = "repairing" /\ i \in recon.todo
  /\ rows' \in {UpdateStatus(i, "error")} \cup (IF Faults THEN {rows} ELSE {})
  /\ recon' = [recon EXCEPT !.todo = @ \ {i}]
  /\ UNCHANGED <<used, req, online, queue, guests>>

\* The metric under which usage is stored, and the key the reconciler uses.
QuotaMetric == "vcpu_hours"
ReconcileKey == "vcpu"

ReconcileQuotas ==
  /\ recon.pc = "repairing" /\ recon.todo = {}
  /\ used' = IF ReconcileKey = QuotaMetric /\ recon.expected > 0
             THEN recon.expected ELSE used
  /\ recon' = Idle
  /\ UNCHANGED <<rows, req, online, queue, guests>>

Next ==
  \/ \E r \in Reqs :
       \/ \E s \in Sizes, t \in {"running", "stopped"} : CreateInstance(r, s, t)
       \/ \E n \in Nodes : Place(r, n)
       \/ PlaceFails(r) \/ Persist(r) \/ Send(r) \/ TimesOut(r)
       \/ \E i \in Reqs :
            \/ \E t \in {"running", "stopped"}, f \in BOOLEAN : PowerAction(r, i, t, f)
            \/ \E f \in BOOLEAN : DeleteInstance(r, i, f)
            \/ \E s \in Sizes : UpdateSpec(r, i, s)
       \/ CreateSucceeds(r) \/ CreateFails(r) \/ MarkError(r)
       \/ PowerDone(r) \/ SpecDone(r) \/ UpdateLost(r)
       \/ DeleteRow(r) \/ DeleteRowFails(r) \/ DeleteRelease(r)
  \/ \E n \in Nodes : AgentExecutes(n) \/ AgentRefuses(n) \/ NodeDown(n) \/ NodeUp(n)
  \/ ReconcileList \/ (\E i \in Reqs : ReconcileInstance(i)) \/ ReconcileQuotas

Spec == Init /\ [][Next]_vars

-----------------------------------------------------------------------------
Statuses == {"creating", "running", "stopped", "error"}

PCs == {"idle", "reserved", "placed", "sending", "waiting", "answered", "failing",
        "releasing", "done"}

\* Types of the tables, the requests and the reconciler.
TypeOK ==
  /\ used \in 0 .. Limit
  /\ rows \in [Reqs -> [name : Names, node : Nodes, status : Statuses, size : Sizes]
                         \cup {NoInst}]
  /\ req \in [Reqs -> [op : {None, "create", "power", "delete", "resize"}, pc : PCs,
                       id : Reqs \cup {None}, name : Names \cup {None},
                       node : Nodes \cup {None}, size : Sizes \cup {0},
                       target : {None, "running", "stopped", "gone", "kept"},
                       force : BOOLEAN, ok : BOOLEAN]]
  /\ online \subseteq Nodes
  /\ queue \in [Nodes -> Seq(Reqs)]
  /\ guests \in [Nodes -> [Names -> {None, "running", "stopped"}]]
  /\ recon \in [pc : {"idle", "repairing"}, todo : SUBSET Reqs, expected : Nat]

\* An instance whose row says that it runs or is stopped has its guest on its
\* node, unless a deletion of that very instance is under way or its DELETE of
\* the row failed: no timeout, late answer, lost command, dropped error or
\* repair makes up an instance.
BackedRows ==
  \A i \in Reqs : Live(i) =>
    \/ guests[rows[i].node][rows[i].name] # None
    \/ \E r \in Reqs : /\ req[r].op = "delete" /\ req[r].id = i
                       /\ req[r].pc # "done" \/ req[r].target = "kept"

\* Of several deletions of one instance one at most releases its quota.
DeleteOnce ==
  \A i \in Reqs : Cardinality({r \in Reqs :
    req[r].op = "delete" /\ req[r].id = i /\ (req[r].pc = "releasing" \/ req[r].target = "gone")}) <= 1

\* A deleted instance stays deleted: the status writes of requests and of the
\* reconciler that read the row before do not bring it back.
NoResurrection ==
  [][\A i \in Reqs : (rows[i] = NoInst /\ rows'[i] # NoInst) => req[i].pc = "placed"]_vars

\* The record of an instance whose node did not confirm the deletion goes away
\* only when the deletion was forced (the comment in DeleteInstance).
\* Does not hold.
UnforcedKeepsRecord ==
  [][\A r \in Reqs : (req[r].pc = "answered" /\ req'[r].pc = "releasing")
                       => (req[r].ok \/ req[r].force)]_vars

Quiet == \A r \in Reqs : req[r].pc \in {"idle", "done"}

\* When no request is under way the usage covers the provisioned instances:
\* what ReleaseQuota gave back was destroyed or downsized.
\* Does not hold when the answer to a creation is lost.
UsageCovers ==
  Quiet => used >= LiveUsage

\* When no request is under way and no creation was refused half-way the usage
\* follows the sizes of the instances, downsizing included.
\* Does not hold.
UsageFollowsSize ==
  (\A r \in Reqs : \/ req[r].pc = "idle"
                   \/ req[r].pc = "done" /\ (req[r].op = "create" => Live(r)))
    => used <= LiveUsage

\* Reconciliation repairs a usage that drifted from the provisioned instances,
\* when no request is under way.
\* Does not hold.
ReconcileRepairsQuota ==
  [][(/\ recon.pc = "repairing" /\ recon'.pc = "idle" /\ Quiet
      /\ recon.expected = LiveUsage /\ recon.expected > 0)
       => used' = LiveUsage]_vars
=============================================================================
