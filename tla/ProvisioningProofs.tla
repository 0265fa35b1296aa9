------------------------- MODULE ProvisioningProofs -------------------------
(***************************************************************************)
(* Invariance proofs for Provisioning, for any number of requests, nodes   *)
(* and names and with every fault of the model.                            *)
(*                                                                         *)
(* What a request knows of an instance it read from the row, so it names   *)
(* the guest the row names (Links); a success was reported by the agent    *)
(* that saw the guest, which only a deletion of that instance removes      *)
(* since (Backing); and a deletion that got to the release found the row,  *)
(* which no later step writes again (Deletions).                           *)
(***************************************************************************)
EXTENDS Provisioning, FiniteSetTheorems, TLAPS

InstType == [name : Names, node : Nodes, status : Statuses, size : Nat]

ReqType == [op : {None, "create", "power", "delete", "resize"}, pc : PCs,
            id : Reqs \cup {None}, name : Names \cup {None},
            node : Nodes \cup {None}, size : Nat,
            target : {None, "running", "stopped", "gone", "kept"},
            force : BOOLEAN, ok : BOOLEAN]

\* The states of a request before its instance has a row.
Early == {"idle", "reserved", "placed"}

Operations == {"power", "delete", "resize"}

TypeInv ==
  /\ rows \in [Reqs -> InstType \cup {NoInst}]
  /\ req \in [Reqs -> ReqType]
  /\ queue \in [Nodes -> Seq(Reqs)]
  /\ guests \in [Nodes -> [Names -> {None, "running", "stopped"}]]
  /\ recon.todo \subseteq Reqs
  /\ online \subseteq Nodes
  /\ \A r \in Reqs : req[r].pc = "idle" => req[r].op = None
  /\ \A r \in Reqs : req[r].pc = "reserved" => req[r].op = "create"
  /\ \A r \in Reqs : req[r].pc = "placed" => req[r].op = "create" /\ req[r].node \in Nodes
  /\ \A r \in Reqs : req[r].op # None => req[r].name \in Names
  /\ \A r \in Reqs : req[r].pc = "sending" => req[r].op # None /\ req[r].node \in Nodes
  /\ \A r \in Reqs : req[r].pc = "releasing" => req[r].op = "delete"
  /\ \A r \in Reqs : req[r].pc = "failing" => req[r].op = "create"
  /\ \A r \in Reqs : req[r].ok => req[r].pc \notin Early /\ req[r].node \in Nodes
  /\ \A r \in Reqs : req[r].op \in {"create", "power"} => req[r].target \in {"running", "stopped"}

\* A row names the guest of the request that created it, and an operation the
\* guest of the row it read.
Links ==
  /\ \A r \in Reqs : req[r].op = "create" => req[r].id = r /\ req[r].name = NameOf[r]
  /\ \A i \in Reqs : Exists(i) =>
       /\ req[i].op = "create" /\ req[i].pc \notin Early
       /\ rows[i].name = NameOf[i] /\ rows[i].node = req[i].node
  /\ \A r \in Reqs : req[r].op \in Operations =>
       /\ req[r].id \in Reqs /\ req[r].name = NameOf[req[r].id]
       /\ req[r].node = req[req[r].id].node
       /\ req[req[r].id].op = "create" /\ req[req[r].id].pc \notin Early

\* A command waits at the node its request was sent to.
Queued ==
  \A n \in Nodes : \A k \in 1 .. Len(queue[n]) :
    LET q == req[queue[n][k]] IN
      q.op # None /\ q.node = n /\ q.pc \notin Early \cup {"sending"}

Deleting(i) == \E r \in Reqs : req[r].op = "delete" /\ req[r].id = i

\* A creation or a power action that succeeded has left its guest behind.
Backing ==
  \A r \in Reqs : (req[r].ok /\ req[r].op \in {"create", "power"}) =>
    guests[req[r].node][req[r].name] # None \/ Deleting(req[r].id)

\* A deletion that released, or is about to.
Releases(r) == req[r].op = "delete" /\ (req[r].pc = "releasing" \/ req[r].target = "gone")

\* A deletion that ended, or is about to, with the row gone.
Finished(r) ==
  req[r].op = "delete" /\ (req[r].pc = "releasing" \/ (req[r].pc = "done" /\ req[r].target # "kept"))

\* A live row has its guest, or was asked to be deleted.
Backed ==
  \A i \in Reqs : Live(i) => guests[rows[i].node][rows[i].name] # None \/ Deleting(i)

Deletions ==
  /\ \A r \in Reqs : Finished(r) => ~Exists(req[r].id)
  /\ \A r \in Reqs : Releases(r) => ~Exists(req[r].id)
  /\ \A r, s \in Reqs : (Releases(r) /\ Releases(s) /\ req[r].id = req[s].id) => r = s

OwnName == \A r, s \in Reqs : NameOf[r] = NameOf[s] => r = s

ProvInv == TypeInv /\ Links /\ Queued /\ Backing /\ Backed /\ Deletions

-----------------------------------------------------------------------------
(***************************************************************************)
(* What a step does to a request.                                          *)
(***************************************************************************)
Same(r) ==
  /\ req'[r].op = req[r].op /\ req'[r].id = req[r].id
  /\ req'[r].name = req[r].name /\ req'[r].node = req[r].node

Created(r) ==
  /\ req[r].pc = "idle" /\ req'[r].pc = "reserved" /\ req'[r].op = "create" /\ req'[r].id = r
  /\ req'[r].name = NameOf[r] /\ req'[r].target \in {"running", "stopped"} /\ ~req'[r].ok

Opened(r, i) ==
  /\ req[r].pc = "idle" /\ req'[r].pc = "sending" /\ req'[r].op \in Operations
  /\ Exists(i) /\ req'[r].id = i /\ req'[r].name = rows[i].name /\ req'[r].node = rows[i].node
  /\ req'[r].op = "power" => req'[r].target \in {"running", "stopped"}
  /\ req'[r].op = "delete" => req'[r].target = None
  /\ ~req'[r].ok

Placed(r) ==
  /\ req[r].pc = "reserved" /\ req'[r].pc = "placed"
  /\ req'[r].op = req[r].op /\ req'[r].id = req[r].id /\ req'[r].name = req[r].name
  /\ req'[r].node \in Nodes /\ req'[r].target = req[r].target /\ req'[r].ok = req[r].ok

\* The agent executes the command of request r.
Executed(r) ==
  \E n \in Nodes : queue[n] # <<>> /\ Head(queue[n]) = r /\ AgentExecutes(n)

Advanced(r) ==
  /\ Same(r) /\ req'[r].pc \notin Early
  /\ req'[r].ok => req[r].ok \/ Executed(r)
  /\ \/ req'[r].target = req[r].target
     \/ req[r].op = "delete" /\ (req[r].pc = "releasing" \/ req'[r].target = "kept")
  /\ req'[r].pc = "failing" => req[r].op = "create"
  /\ (req'[r].pc = "done" /\ req[r].op = "delete" /\ req'[r].target # "kept") =>
       req[r].pc = "releasing" \/ rows'[req[r].id] = NoInst
  /\ req'[r].pc = "sending" => req[r].pc = "placed"
  /\ req'[r].pc = "releasing" =>
       DeleteRow(r) /\ req[r].op = "delete" /\ Exists(req[r].id) /\ rows'[req[r].id] = NoInst

Moves(r) ==
  \/ req'[r] = req[r]
  \/ Created(r)
  \/ \E i \in Reqs : Opened(r, i)
  \/ Placed(r)
  \/ Advanced(r)

LEMMA Constants ==
  /\ \A r \in Reqs : NameOf[r] \in Names /\ r # None
  /\ None \notin Names /\ None \notin Nodes
  /\ \A s \in Sizes : s \in Nat
BY ProvisioningAssumption

LEMMA Update ==
  ASSUME req \in [Reqs -> ReqType], NEW r \in Reqs, NEW x \in ReqType,
         req' = [req EXCEPT ![r] = x]
  PROVE  /\ req' \in [Reqs -> ReqType]
         /\ req'[r] = x
         /\ \A k \in Reqs : k # r => req'[k] = req[k]
OBVIOUS

LEMMA SetPc ==
  ASSUME NEW q \in ReqType, NEW s \in PCs
  PROVE  LET x == [q EXCEPT !.pc = s] IN
         /\ x \in ReqType /\ x.pc = s /\ x.op = q.op /\ x.id = q.id /\ x.name = q.name
         /\ x.node = q.node /\ x.target = q.target /\ x.ok = q.ok
BY DEF ReqType

\* A request that moves on and learns nothing.
LEMMA PcMoves ==
  ASSUME req \in [Reqs -> ReqType], NEW r \in Reqs, NEW s \in PCs \ Early,
         req' = [req EXCEPT ![r].pc = s],
         s = "sending" => req[r].pc = "placed",
         s = "failing" => req[r].op = "create",
         (s = "done" /\ req[r].op = "delete") => rows'[req[r].id] = NoInst,
         s = "releasing" =>
           DeleteRow(r) /\ req[r].op = "delete" /\ Exists(req[r].id) /\ rows'[req[r].id] = NoInst
  PROVE  req' \in [Reqs -> ReqType] /\ \A k \in Reqs : Moves(k)
<1> DEFINE x == [req[r] EXCEPT !.pc = s]
<1>1. /\ x \in ReqType /\ x.pc = s /\ x.op = req[r].op /\ x.id = req[r].id /\ x.name = req[r].name
      /\ x.node = req[r].node /\ x.target = req[r].target /\ x.ok = req[r].ok
  BY SetPc
<1>2. req' = [req EXCEPT ![r] = x]
  OBVIOUS
<1> HIDE DEF x
<1>3. req' \in [Reqs -> ReqType] /\ req'[r] = x /\ \A k \in Reqs : k # r => req'[k] = req[k]
  BY <1>1, <1>2, Update
<1>4. Advanced(r)
  BY <1>1, <1>3 DEF Advanced, Same
<1> QED BY <1>3, <1>4 DEF Moves

\* An answer reaches a request that waits.
LEMMA AnswerMoves ==
  ASSUME req \in [Reqs -> ReqType], NEW r \in Reqs, NEW ok \in BOOLEAN, Answer(r, ok),
         ok => Executed(r)
  PROVE  /\ req' \in [Reqs -> ReqType]
         /\ \A k \in Reqs : Moves(k)
<1>1. CASE req[r].pc # "waiting"
  BY <1>1 DEF Answer, Moves
<1>2. CASE req[r].pc = "waiting"
  <2> DEFINE y == [req[r] EXCEPT !.pc = "answered"]
             x == [y EXCEPT !.ok = ok]
  <2>1. req' = [req EXCEPT ![r] = x]
    BY <1>2 DEF Answer
  <2>2. /\ y \in ReqType /\ y.pc = "answered" /\ y.op = req[r].op /\ y.id = req[r].id
        /\ y.name = req[r].name /\ y.node = req[r].node /\ y.target = req[r].target
    BY SetPc DEF PCs
  <2> HIDE DEF y
  <2>3. /\ x \in ReqType /\ x.pc = "answered" /\ x.op = req[r].op /\ x.id = req[r].id /\ x.ok = ok
        /\ x.name = req[r].name /\ x.node = req[r].node /\ x.target = req[r].target
    BY <2>2 DEF ReqType
  <2> HIDE DEF x
  <2>4. req' \in [Reqs -> ReqType] /\ req'[r] = x /\ \A k \in Reqs : k # r => req'[k] = req[k]
    BY <2>1, <2>3, Update
  <2>5. Advanced(r)
    BY <1>2, <2>3, <2>4 DEF Advanced, Same, Early
  <2> QED BY <2>3, <2>4, <2>5 DEF Moves
<1> QED BY <1>1, <1>2

LEMMA NewReqType ==
  NewReq \in ReqType /\ NewReq.target = None /\ NewReq.ok = FALSE
BY DEF NewReq, ReqType, PCs

LEMMA CreateMoves ==
  ASSUME TypeInv, NEW r \in Reqs, NEW size \in Sizes, NEW target \in {"running", "stopped"},
         CreateInstance(r, size, target)
  PROVE  req' \in [Reqs -> ReqType] /\ \A k \in Reqs : Moves(k)
<1>1. CASE used + size <= Limit
  <2> DEFINE a == [NewReq EXCEPT !.op = "create", !.pc = "reserved", !.id = r]
             x == [a EXCEPT !.name = NameOf[r], !.size = size, !.target = target]
  <2>1. req' = [req EXCEPT ![r] = x] /\ req[r].pc = "idle"
    BY <1>1 DEF CreateInstance
  <2>2. a \in ReqType /\ a.op = "create" /\ a.pc = "reserved" /\ a.id = r /\ a.ok = FALSE
    BY NewReqType DEF ReqType, PCs
  <2> HIDE DEF a
  <2>3. /\ x \in ReqType /\ x.op = "create" /\ x.pc = "reserved" /\ x.id = r /\ x.ok = FALSE
        /\ x.name = NameOf[r] /\ x.target = target
    BY <2>2, Constants DEF ReqType
  <2> HIDE DEF x
  <2>5. req' \in [Reqs -> ReqType] /\ req'[r] = x /\ \A k \in Reqs : k # r => req'[k] = req[k]
    BY <2>1, <2>3, Update DEF TypeInv
  <2>6. Created(r)
    BY <2>1, <2>3, <2>5 DEF Created
  <2> QED BY <2>5, <2>6 DEF Moves
<1>2. CASE ~(used + size <= Limit)
  <2>1. req[r].op # "delete" /\ req' = [req EXCEPT ![r].pc = "done"]
    BY <1>2 DEF CreateInstance, TypeInv, None
  <2>2. "done" \in PCs \ Early
    BY DEF PCs, Early
  <2> QED BY <2>1, <2>2, PcMoves DEF TypeInv
<1> QED BY <1>1, <1>2

LEMMA OperateMoves ==
  ASSUME TypeInv, NEW r \in Reqs, NEW i \in Reqs, NEW op \in Operations, NEW target,
         NEW size \in Nat, NEW force \in BOOLEAN, Operate(r, i, op, target, size, force),
         op = "power" => target \in {"running", "stopped"},
         op # "power" => target = None
  PROVE  req' \in [Reqs -> ReqType] /\ \A k \in Reqs : Moves(k)
<1> DEFINE a == [NewReq EXCEPT !.op = op, !.pc = "sending", !.id = i]
           b == [a EXCEPT !.name = rows[i].name, !.node = rows[i].node, !.size = size]
           x == [b EXCEPT !.target = target, !.force = force]
<1>1. req' = [req EXCEPT ![r] = x] /\ req[r].pc = "idle" /\ Exists(i)
  BY DEF Operate
<1>2. rows[i] \in InstType
  BY <1>1 DEF TypeInv, Exists
<1>3. rows[i].name \in Names /\ rows[i].node \in Nodes
  BY <1>2 DEF InstType
<1>4. a \in ReqType /\ a.op = op /\ a.pc = "sending" /\ a.id = i /\ a.ok = FALSE
  BY NewReqType DEF ReqType, PCs, Operations
<1> HIDE DEF a
<1>5. /\ b \in ReqType /\ b.op = op /\ b.pc = "sending" /\ b.id = i /\ b.ok = FALSE
      /\ b.name = rows[i].name /\ b.node = rows[i].node
  BY <1>3, <1>4 DEF ReqType
<1> HIDE DEF b
<1>6. /\ x \in ReqType /\ x.op = op /\ x.pc = "sending" /\ x.id = i /\ x.ok = FALSE
      /\ x.name = rows[i].name /\ x.node = rows[i].node /\ x.target = target
  BY <1>5 DEF ReqType, Operations
<1> HIDE DEF x
<1>8. req' \in [Reqs -> ReqType] /\ req'[r] = x /\ \A k \in Reqs : k # r => req'[k] = req[k]
  BY <1>1, <1>6, Update DEF TypeInv
<1>9. Opened(r, i)
  BY <1>1, <1>6, <1>8 DEF Opened
<1> QED BY <1>8, <1>9 DEF Moves

\* The steps, in groups.
Starts ==
  \/ \E r \in Reqs, s \in Sizes, t \in {"running", "stopped"} : CreateInstance(r, s, t)
  \/ \E r \in Reqs, n \in Nodes : Place(r, n)
  \/ \E r \in Reqs, i \in Reqs :
       \/ \E t \in {"running", "stopped"}, f \in BOOLEAN : PowerAction(r, i, t, f)
       \/ \E f \in BOOLEAN : DeleteInstance(r, i, f)
       \/ \E s \in Sizes : UpdateSpec(r, i, s)

Continues ==
  \E r \in Reqs :
    \/ PlaceFails(r) \/ Persist(r) \/ Send(r) \/ TimesOut(r)
    \/ CreateSucceeds(r) \/ CreateFails(r) \/ MarkError(r)
    \/ PowerDone(r) \/ SpecDone(r) \/ UpdateLost(r)
    \/ DeleteRow(r) \/ DeleteRowFails(r) \/ DeleteRelease(r)

NodeSteps ==
  \E n \in Nodes : AgentExecutes(n) \/ AgentRefuses(n) \/ NodeDown(n) \/ NodeUp(n)

Repairs == ReconcileList \/ (\E i \in Reqs : ReconcileInstance(i)) \/ ReconcileQuotas

LEMMA StepCases ==
  [Next]_vars => Starts \/ Continues \/ NodeSteps \/ Repairs \/ UNCHANGED vars
<1>1. ASSUME NEW r \in Reqs,
             \/ \E s \in Sizes, t \in {"running", "stopped"} : CreateInstance(r, s, t)
             \/ \E n \in Nodes : Place(r, n)
             \/ \E i \in Reqs :
                  \/ \E t \in {"running", "stopped"}, f \in BOOLEAN : PowerAction(r, i, t, f)
                  \/ \E f \in BOOLEAN : DeleteInstance(r, i, f)
                  \/ \E s \in Sizes : UpdateSpec(r, i, s)
      PROVE  Starts
  BY <1>1, Zenon DEF Starts
<1>2. ASSUME NEW r \in Reqs,
             \/ PlaceFails(r) \/ Persist(r) \/ Send(r) \/ TimesOut(r)
             \/ CreateSucceeds(r) \/ CreateFails(r) \/ MarkError(r)
             \/ PowerDone(r) \/ SpecDone(r) \/ UpdateLost(r)
             \/ DeleteRow(r) \/ DeleteRowFails(r) \/ DeleteRelease(r)
      PROVE  Continues
  BY <1>2, Zenon DEF Continues
<1> QED BY <1>1, <1>2, Zenon DEF Next, NodeSteps, Repairs

\* The command an agent takes from its queue.
LEMMA HeadOfQueue ==
  ASSUME TypeInv, NEW n \in Nodes, queue[n] # <<>>
  PROVE  /\ Head(queue[n]) \in Reqs /\ Head(queue[n]) = queue[n][1]
         /\ 1 \in 1 .. Len(queue[n])
BY DEF TypeInv

LEMMA StepMoves ==
  TypeInv /\ Links /\ [Next]_vars => req' \in [Reqs -> ReqType] /\ \A k \in Reqs : Moves(k)
<1> SUFFICES ASSUME TypeInv, Links, [Next]_vars
             PROVE  req' \in [Reqs -> ReqType] /\ \A k \in Reqs : Moves(k)
  OBVIOUS
<1> DEFINE Goal == req' \in [Reqs -> ReqType] /\ \A k \in Reqs : Moves(k)
<1>a. req \in [Reqs -> ReqType]
  BY DEF TypeInv
<1>b. ASSUME req' = req PROVE Goal
  BY <1>a, <1>b DEF Moves
<1>1. ASSUME NEW r \in Reqs, NEW s \in Sizes, NEW t \in {"running", "stopped"},
             CreateInstance(r, s, t)
      PROVE  Goal
  BY <1>1, CreateMoves
<1>2. ASSUME NEW r \in Reqs, NEW n \in Nodes, Place(r, n) PROVE Goal
  <2> DEFINE y == [req[r] EXCEPT !.node = n]
             x == [y EXCEPT !.pc = "placed"]
  <2>1. req' = [req EXCEPT ![r] = x] /\ req[r].pc = "reserved"
    BY <1>2 DEF Place
  <2>2. /\ y \in ReqType /\ y.op = req[r].op /\ y.id = req[r].id /\ y.name = req[r].name
        /\ y.node = n /\ y.target = req[r].target /\ y.ok = req[r].ok
    BY <1>a DEF ReqType
  <2> HIDE DEF y
  <2>3. /\ x \in ReqType /\ x.op = req[r].op /\ x.id = req[r].id /\ x.name = req[r].name
        /\ x.node = n /\ x.target = req[r].target /\ x.ok = req[r].ok /\ x.pc = "placed"
    BY <2>2, SetPc DEF PCs
  <2> HIDE DEF x
  <2>4. req' \in [Reqs -> ReqType] /\ req'[r] = x /\ \A k \in Reqs : k # r => req'[k] = req[k]
    BY <1>a, <2>1, <2>3, Update
  <2>5. Placed(r)
    BY <2>1, <2>3, <2>4 DEF Placed
  <2> QED BY <2>4, <2>5 DEF Moves
<1>3. ASSUME NEW r \in Reqs,
             \/ PlaceFails(r) \/ TimesOut(r) \/ CreateSucceeds(r)
             \/ CreateFails(r) \/ MarkError(r) \/ PowerDone(r) \/ SpecDone(r) \/ UpdateLost(r)
      PROVE  Goal
  <2>1. PICK s \in {"done", "answered", "failing"} :
          /\ req' = [req EXCEPT ![r].pc = s]
          /\ s = "failing" => req[r].op = "create"
          /\ s = "done" => req[r].op # "delete"
    BY <1>3 DEF PlaceFails, TimesOut, CreateSucceeds, CreateFails, MarkError, PowerDone, SpecDone,
                UpdateLost, Answered, TypeInv
  <2>2. s \in PCs \ Early /\ s # "sending" /\ s # "releasing"
    BY DEF PCs, Early
  <2> QED BY <1>a, <2>1, <2>2, PcMoves
<1>4. ASSUME NEW r \in Reqs, Persist(r) PROVE Goal
  <2>1. PICK s \in {"done", "sending"} :
          req' = [req EXCEPT ![r].pc = s] /\ req[r].pc = "placed" /\ req[r].op = "create"
    BY <1>4 DEF Persist, TypeInv
  <2>2. s \in PCs \ Early /\ s # "releasing"
    BY DEF PCs, Early
  <2> QED BY <1>a, <2>1, <2>2, PcMoves
<1>5. ASSUME NEW r \in Reqs, Send(r) PROVE Goal
  <2>1. PICK s \in {"waiting", "answered"} : req' = [req EXCEPT ![r].pc = s]
    BY <1>5 DEF Send
  <2>2. s \in PCs \ Early /\ s # "sending" /\ s # "releasing"
    BY DEF PCs, Early
  <2> QED BY <1>a, <2>1, <2>2, PcMoves
<1>6. ASSUME NEW r \in Reqs, DeleteRow(r) PROVE Goal
  <2>1. req[r].op = "delete"
    BY <1>6 DEF DeleteRow, Answered
  <2>2. req[r].id \in Reqs
    BY <2>1 DEF Links, Operations
  <2>3. rows'[req[r].id] = NoInst
    BY <1>6, <2>2 DEF DeleteRow, TypeInv
  <2>4. PICK s \in {"done", "releasing"} : /\ req' = [req EXCEPT ![r].pc = s]
                                           /\ s = "releasing" => Exists(req[r].id)
    BY <1>6 DEF DeleteRow
  <2>5. s \in PCs \ Early /\ s # "sending"
    BY DEF PCs, Early
  <2> QED BY <1>6, <1>a, <2>1, <2>3, <2>4, <2>5, PcMoves
<1>17. ASSUME NEW r \in Reqs, DeleteRowFails(r) PROVE Goal
  <2> DEFINE y == [req[r] EXCEPT !.pc = "done"]
             x == [y EXCEPT !.target = "kept"]
  <2>1. req' = [req EXCEPT ![r] = x] /\ req[r].op = "delete"
    BY <1>17 DEF DeleteRowFails, Answered
  <2>2. /\ y \in ReqType /\ y.op = req[r].op /\ y.id = req[r].id /\ y.name = req[r].name
        /\ y.node = req[r].node /\ y.pc = "done" /\ y.ok = req[r].ok
    BY <1>a, SetPc DEF PCs
  <2> HIDE DEF y
  <2>3. /\ x \in ReqType /\ x.op = req[r].op /\ x.id = req[r].id /\ x.name = req[r].name
        /\ x.node = req[r].node /\ x.pc = "done" /\ x.ok = req[r].ok /\ x.target = "kept"
    BY <2>2 DEF ReqType
  <2> HIDE DEF x
  <2>4. req' \in [Reqs -> ReqType] /\ req'[r] = x /\ \A k \in Reqs : k # r => req'[k] = req[k]
    BY <1>a, <2>1, <2>3, Update
  <2>5. Advanced(r)
    BY <2>1, <2>3, <2>4 DEF Advanced, Same, Early
  <2> QED BY <2>4, <2>5 DEF Moves
<1>7. ASSUME NEW r \in Reqs, DeleteRelease(r) PROVE Goal
  <2> DEFINE y == [req[r] EXCEPT !.pc = "done"]
             x == [y EXCEPT !.target = "gone"]
  <2>1. req' = [req EXCEPT ![r] = x] /\ req[r].pc = "releasing"
    BY <1>7 DEF DeleteRelease
  <2>2. /\ y \in ReqType /\ y.op = req[r].op /\ y.id = req[r].id /\ y.name = req[r].name
        /\ y.node = req[r].node /\ y.pc = "done" /\ y.ok = req[r].ok
    BY <1>a, SetPc DEF PCs
  <2> HIDE DEF y
  <2>3. /\ x \in ReqType /\ x.op = req[r].op /\ x.id = req[r].id /\ x.name = req[r].name
        /\ x.node = req[r].node /\ x.pc = "done" /\ x.ok = req[r].ok
    BY <2>2 DEF ReqType
  <2> HIDE DEF x
  <2>4. req' \in [Reqs -> ReqType] /\ req'[r] = x /\ \A k \in Reqs : k # r => req'[k] = req[k]
    BY <1>a, <2>1, <2>3, Update
  <2>5. req[r].op = "delete"
    BY <2>1 DEF TypeInv
  <2>6. Advanced(r)
    BY <2>1, <2>3, <2>4, <2>5 DEF Advanced, Same, Early
  <2> QED BY <2>4, <2>6 DEF Moves
<1>8. ASSUME NEW r \in Reqs, NEW i \in Reqs,
             \/ \E t \in {"running", "stopped"}, f \in BOOLEAN : PowerAction(r, i, t, f)
             \/ \E f \in BOOLEAN : DeleteInstance(r, i, f)
             \/ \E s \in Sizes : UpdateSpec(r, i, s)
      PROVE  Goal
  <2>1. Exists(i)
    BY <1>8 DEF PowerAction, DeleteInstance, UpdateSpec, Operate
  <2>2. rows[i].size \in Nat
    BY <2>1 DEF TypeInv, Exists, InstType
  <2>3. PICK op \in Operations, t \in {None, "running", "stopped"}, s \in Nat, f \in BOOLEAN :
          /\ Operate(r, i, op, t, s, f)
          /\ op = "power" => t \in {"running", "stopped"}
          /\ op # "power" => t = None
    BY <1>8, <2>2, Constants DEF PowerAction, DeleteInstance, UpdateSpec, Operations
  <2> QED BY <2>3, OperateMoves
<1>9. ASSUME NEW n \in Nodes, AgentExecutes(n) \/ AgentRefuses(n) PROVE Goal
  <2>1. queue[n] # <<>>
    BY <1>9 DEF AgentExecutes, AgentRefuses
  <2>2. PICK ok \in BOOLEAN : Answer(Head(queue[n]), ok) /\ (ok => AgentExecutes(n))
    <3>1. CASE AgentExecutes(n)
      BY <3>1 DEF AgentExecutes
    <3>2. CASE AgentRefuses(n)
      BY <3>2 DEF AgentRefuses
    <3> QED BY <1>9, <3>1, <3>2
  <2>3. ok => Executed(Head(queue[n]))
    BY <2>1, <2>2 DEF Executed
  <2> QED BY <1>a, <2>1, <2>2, <2>3, HeadOfQueue, AnswerMoves
<1>10. ASSUME NEW n \in Nodes, NodeDown(n) \/ NodeUp(n) PROVE Goal
  BY <1>10, <1>b DEF NodeDown, NodeUp
<1>11. ASSUME Repairs PROVE Goal
  BY <1>11, <1>b DEF Repairs, ReconcileList, ReconcileInstance, ReconcileQuotas
<1>12. ASSUME UNCHANGED vars PROVE Goal
  BY <1>12, <1>b DEF vars
<1> HIDE DEF Goal
<1>13. ASSUME Starts PROVE Goal
  BY <1>1, <1>2, <1>8, <1>13 DEF Starts
<1>14. ASSUME Continues PROVE Goal
  BY <1>3, <1>4, <1>5, <1>6, <1>7, <1>14, <1>17 DEF Continues
<1>15. ASSUME NodeSteps PROVE Goal
  BY <1>9, <1>10, <1>15 DEF NodeSteps
<1>16. Goal
  BY <1>11, <1>12, <1>13, <1>14, <1>15, StepCases
<1> QED BY <1>16 DEF Goal

-----------------------------------------------------------------------------
(***************************************************************************)
(* What a step does to a row.                                              *)
(***************************************************************************)
\* A write to a row that exists; it comes alive only by a reported success.
Written(i) ==
  /\ Exists(i) /\ rows'[i] # NoInst
  /\ rows'[i].name = rows[i].name /\ rows'[i].node = rows[i].node
  /\ \/ rows'[i].status \in {rows[i].status, "error"}
     \/ \E r \in Reqs : /\ req[r].ok /\ req[r].op \in {"create", "power"} /\ req[r].id = i

Persisted(i) ==
  /\ req[i].pc = "placed" /\ req'[i].pc = "sending"
  /\ rows'[i].name = req[i].name /\ rows'[i].node = req[i].node
  /\ rows'[i].status = "creating"

RowMoves(i) ==
  \/ rows'[i] = rows[i]
  \/ rows'[i] = NoInst
  \/ Written(i)
  \/ Persisted(i)

LEMMA StatusWrite ==
  ASSUME rows \in [Reqs -> InstType \cup {NoInst}], NEW i \in Reqs, NEW s \in Statuses,
         rows' = UpdateStatus(i, s),
         \/ s = "error"
         \/ \E r \in Reqs : req[r].ok /\ req[r].op \in {"create", "power"} /\ req[r].id = i
  PROVE  rows' \in [Reqs -> InstType \cup {NoInst}] /\ \A k \in Reqs : RowMoves(k)
<1>1. CASE ~Exists(i)
  BY <1>1 DEF UpdateStatus, RowMoves
<1>2. CASE Exists(i)
  <2> DEFINE x == [rows[i] EXCEPT !.status = s]
  <2>1. rows' = [rows EXCEPT ![i] = x] /\ rows[i] \in InstType
    BY <1>2 DEF UpdateStatus, Exists
  <2>2. x \in InstType /\ x.status = s /\ x.name = rows[i].name /\ x.node = rows[i].node
    BY <2>1 DEF InstType
  <2> HIDE DEF x
  <2>3. x # NoInst
    BY <2>2, Constants DEF InstType, NoInst
  <2>4. rows'[i] = x /\ (\A k \in Reqs : k # i => rows'[k] = rows[k])
    BY <2>1
  <2>5. rows' \in [Reqs -> InstType \cup {NoInst}]
    BY <2>1, <2>2
  <2>6. Written(i)
    BY <1>2, <2>2, <2>3, <2>4 DEF Written
  <2> QED BY <2>4, <2>5, <2>6 DEF RowMoves
<1> QED BY <1>1, <1>2

LEMMA StepRows ==
  TypeInv /\ Links /\ [Next]_vars =>
    rows' \in [Reqs -> InstType \cup {NoInst}] /\ \A k \in Reqs : RowMoves(k)
<1> SUFFICES ASSUME TypeInv, Links, [Next]_vars
             PROVE  rows' \in [Reqs -> InstType \cup {NoInst}] /\ \A k \in Reqs : RowMoves(k)
  OBVIOUS
<1> DEFINE Goal == rows' \in [Reqs -> InstType \cup {NoInst}] /\ \A k \in Reqs : RowMoves(k)
<1>a. rows \in [Reqs -> InstType \cup {NoInst}] /\ req \in [Reqs -> ReqType]
  BY DEF TypeInv
<1>b. ASSUME rows' = rows PROVE Goal
  BY <1>a, <1>b DEF RowMoves
<1>1. ASSUME NEW r \in Reqs, Persist(r) PROVE Goal
  <2>1. CASE \E i \in Reqs : Exists(i) /\ rows[i].name = req[r].name
    BY <1>1, <1>b, <2>1 DEF Persist
  <2>2. CASE ~\E i \in Reqs : Exists(i) /\ rows[i].name = req[r].name
    <3> DEFINE x == [name |-> req[r].name, node |-> req[r].node,
                     status |-> "creating", size |-> req[r].size]
    <3>1. /\ rows' = [rows EXCEPT ![r] = x] /\ req[r].pc = "placed"
          /\ req' = [req EXCEPT ![r].pc = "sending"]
      BY <1>1, <2>2 DEF Persist
    <3>a. req[r].op = "create" /\ req[r].node \in Nodes
      BY <3>1 DEF TypeInv
    <3>b. req[r].name \in Names
      BY <3>a DEF TypeInv, None
    <3>c. req[r].size \in Nat
      BY <1>a DEF ReqType
    <3>2. req[r].name \in Names /\ req[r].node \in Nodes /\ req[r].size \in Nat
      BY <3>a, <3>b, <3>c
    <3>3. x \in InstType
      BY <3>2 DEF InstType, Statuses
    <3>4. req'[r].pc = "sending"
      BY <1>a, <3>1 DEF ReqType
    <3>5. Persisted(r)
      BY <1>a, <3>1, <3>4 DEF Persisted
    <3>6. \A k \in Reqs : k # r => rows'[k] = rows[k]
      BY <1>a, <3>1
    <3>7. rows' \in [Reqs -> InstType \cup {NoInst}]
      <4> HIDE DEF x
      <4> QED BY <1>a, <3>1, <3>3
    <3> QED BY <3>5, <3>6, <3>7 DEF RowMoves
  <2> QED BY <2>1, <2>2
<1>2. ASSUME NEW r \in Reqs, CreateSucceeds(r) PROVE Goal
  <2>1. /\ rows' = UpdateStatus(r, req[r].target) /\ req[r].op = "create" /\ req[r].ok
    BY <1>2 DEF CreateSucceeds, Answered
  <2>2. req[r].id = r /\ req[r].target \in Statuses
    BY <2>1 DEF Links, TypeInv, Statuses
  <2> QED BY <1>a, <2>1, <2>2, StatusWrite
<1>3. ASSUME NEW r \in Reqs, MarkError(r) PROVE Goal
  BY <1>3, <1>a, StatusWrite DEF MarkError, Statuses
<1>4. ASSUME NEW r \in Reqs, PowerDone(r) PROVE Goal
  <2>1. CASE ~req[r].ok
    BY <1>4, <1>b, <2>1 DEF PowerDone
  <2>2. CASE req[r].ok
    <3>1. rows' = UpdateStatus(req[r].id, req[r].target) /\ req[r].op = "power"
      BY <1>4, <2>2 DEF PowerDone, Answered
    <3>2. req[r].id \in Reqs /\ req[r].target \in Statuses
      BY <3>1 DEF Links, TypeInv, Statuses, Operations
    <3> QED BY <1>a, <2>2, <3>1, <3>2, StatusWrite
  <2> QED BY <2>1, <2>2
<1>5. ASSUME NEW r \in Reqs, SpecDone(r) PROVE Goal
  <2>1. CASE ~(req[r].ok /\ Exists(req[r].id))
    BY <1>5, <1>b, <2>1 DEF SpecDone
  <2>2. CASE req[r].ok /\ Exists(req[r].id)
    <3>1. PICK i \in Reqs : i = req[r].id
      BY <1>5 DEF SpecDone, Answered, Links, Operations
    <3> DEFINE x == [rows[i] EXCEPT !.size = req[r].size]
    <3>2. rows' = [rows EXCEPT ![i] = x] /\ rows[i] \in InstType
      BY <1>5, <1>a, <2>2, <3>1 DEF SpecDone, Exists
    <3>3. /\ x \in InstType /\ x.status = rows[i].status /\ x.name = rows[i].name
          /\ x.node = rows[i].node
      BY <1>a, <3>2 DEF InstType, ReqType
    <3> HIDE DEF x
    <3>4. x # NoInst
      BY <3>3, Constants DEF InstType, NoInst
    <3>5. rows'[i] = x /\ (\A k \in Reqs : k # i => rows'[k] = rows[k])
      BY <1>a, <3>2
    <3>6. rows' \in [Reqs -> InstType \cup {NoInst}]
      BY <1>a, <3>2, <3>3
    <3>7. Written(i)
      BY <2>2, <3>1, <3>3, <3>4, <3>5 DEF Written
    <3> QED BY <3>5, <3>6, <3>7 DEF RowMoves
  <2> QED BY <2>1, <2>2
<1>6. ASSUME NEW r \in Reqs, DeleteRow(r) PROVE Goal
  <2>1. PICK i \in Reqs : i = req[r].id
    BY <1>6 DEF DeleteRow, Answered, Links, Operations
  <2>2. rows' = [rows EXCEPT ![i] = NoInst]
    BY <1>6, <2>1 DEF DeleteRow
  <2>3. rows' \in [Reqs -> InstType \cup {NoInst}]
    BY <1>a, <2>2
  <2>4. \A k \in Reqs : rows'[k] = rows[k] \/ rows'[k] = NoInst
    BY <1>a, <2>2
  <2> QED BY <2>3, <2>4 DEF RowMoves
<1>7. ASSUME NEW i \in Reqs, ReconcileInstance(i) PROVE Goal
  <2>1. rows' = rows \/ rows' = UpdateStatus(i, "error")
    BY <1>7 DEF ReconcileInstance
  <2>2. CASE rows' = UpdateStatus(i, "error")
    BY <1>a, <2>2, StatusWrite DEF Statuses
  <2> QED BY <1>b, <2>1, <2>2
<1>8. ASSUME Starts PROVE Goal
  <2>1. rows' = rows
    BY <1>8 DEF Starts, CreateInstance, Place, PowerAction, DeleteInstance, UpdateSpec, Operate
  <2> QED BY <1>b, <2>1
<1>9. ASSUME NodeSteps PROVE Goal
  <2>1. rows' = rows
    BY <1>9 DEF NodeSteps, AgentExecutes, AgentRefuses, NodeDown, NodeUp
  <2> QED BY <1>b, <2>1
<1>10. ASSUME NEW r \in Reqs,
              \/ PlaceFails(r) \/ Send(r) \/ TimesOut(r) \/ CreateFails(r)
              \/ UpdateLost(r) \/ DeleteRowFails(r) \/ DeleteRelease(r)
       PROVE  Goal
  <2>1. rows' = rows
    BY <1>10 DEF PlaceFails, Send, TimesOut, CreateFails, UpdateLost, DeleteRowFails, DeleteRelease
  <2> QED BY <1>b, <2>1
<1>11. ASSUME ReconcileList \/ ReconcileQuotas \/ UNCHANGED vars PROVE Goal
  BY <1>11, <1>b DEF ReconcileList, ReconcileQuotas, vars
<1> HIDE DEF Goal
<1>12. ASSUME Continues PROVE Goal
  BY <1>1, <1>2, <1>3, <1>4, <1>5, <1>6, <1>10, <1>12 DEF Continues
<1>13. ASSUME Repairs PROVE Goal
  BY <1>7, <1>11, <1>13 DEF Repairs
<1>14. Goal
  BY <1>8, <1>9, <1>11, <1>12, <1>13, StepCases
<1> QED BY <1>14 DEF Goal

-----------------------------------------------------------------------------
(***************************************************************************)
(* What a step does to the queues and the guests.                          *)
(***************************************************************************)
\* A command in a queue was there before, or is being sent.
QueueMoves(n) ==
  \A k \in 1 .. Len(queue'[n]) :
    \/ \E j \in 1 .. Len(queue[n]) : queue'[n][k] = queue[n][j]
    \/ \E r \in Reqs : /\ queue'[n][k] = r /\ req[r].node = n /\ req[r].pc = "sending"
                       /\ req'[r].pc = "waiting"

LEMMA StepQueues ==
  TypeInv /\ [Next]_vars => queue' \in [Nodes -> Seq(Reqs)] /\ \A n \in Nodes : QueueMoves(n)
<1> SUFFICES ASSUME TypeInv, [Next]_vars
             PROVE  queue' \in [Nodes -> Seq(Reqs)] /\ \A n \in Nodes : QueueMoves(n)
  OBVIOUS
<1> DEFINE Goal == queue' \in [Nodes -> Seq(Reqs)] /\ \A n \in Nodes : QueueMoves(n)
<1>a. queue \in [Nodes -> Seq(Reqs)] /\ req \in [Reqs -> ReqType]
  BY DEF TypeInv
<1>b. ASSUME queue' = queue PROVE Goal
  BY <1>a, <1>b DEF QueueMoves
\* The queue of one node changes.
<1>c. ASSUME NEW n \in Nodes, NEW q \in Seq(Reqs), queue' = [queue EXCEPT ![n] = q],
             \A k \in 1 .. Len(q) :
               \/ \E j \in 1 .. Len(queue[n]) : q[k] = queue[n][j]
               \/ \E r \in Reqs : /\ q[k] = r /\ req[r].node = n /\ req[r].pc = "sending"
                                  /\ req'[r].pc = "waiting"
      PROVE  Goal
  <2>1. queue' \in [Nodes -> Seq(Reqs)] /\ queue'[n] = q
    BY <1>a, <1>c
  <2>2. \A m \in Nodes : m # n => queue'[m] = queue[m]
    BY <1>a, <1>c
  <2>3. QueueMoves(n)
    BY <1>c, <2>1 DEF QueueMoves
  <2>4. \A m \in Nodes : m # n => QueueMoves(m)
    BY <2>2 DEF QueueMoves
  <2> QED BY <2>1, <2>3, <2>4
<1>1. ASSUME NEW r \in Reqs, Send(r) PROVE Goal
  <2>1. CASE req[r].node \notin online
    BY <1>1, <1>b, <2>1 DEF Send
  <2>2. CASE req[r].node \in online
    <3>1. PICK n \in Nodes : n = req[r].node
      BY <2>2 DEF TypeInv
    <3> DEFINE q == Append(queue[n], r)
    <3>2. /\ queue' = [queue EXCEPT ![n] = q] /\ req[r].pc = "sending"
          /\ req' = [req EXCEPT ![r].pc = "waiting"]
      BY <1>1, <2>2, <3>1 DEF Send
    <3>3. req'[r].pc = "waiting"
      BY <1>a, <3>2 DEF ReqType
    <3>4. /\ q \in Seq(Reqs) /\ Len(q) = Len(queue[n]) + 1 /\ q[Len(queue[n]) + 1] = r
          /\ Len(queue[n]) \in Nat
          /\ \A k \in 1 .. Len(queue[n]) : q[k] = queue[n][k]
      BY <1>a
    <3> HIDE DEF q
    <3>5. \A k \in 1 .. Len(q) : k \in 1 .. Len(queue[n]) \/ k = Len(queue[n]) + 1
      BY <3>4
    <3>6. ASSUME NEW k \in 1 .. Len(q)
          PROVE  \/ \E j \in 1 .. Len(queue[n]) : q[k] = queue[n][j]
                 \/ \E s \in Reqs : /\ q[k] = s /\ req[s].node = n /\ req[s].pc = "sending"
                                    /\ req'[s].pc = "waiting"
      BY <3>1, <3>2, <3>3, <3>4, <3>5
    <3> QED BY <1>c, <3>2, <3>4, <3>6
  <2> QED BY <2>1, <2>2
<1>2. ASSUME NEW n \in Nodes, AgentExecutes(n) \/ AgentRefuses(n) PROVE Goal
  <2> DEFINE q == Tail(queue[n])
  <2>1. queue' = [queue EXCEPT ![n] = q] /\ queue[n] # <<>>
    BY <1>2 DEF AgentExecutes, AgentRefuses
  <2>2. /\ q \in Seq(Reqs) /\ Len(q) = Len(queue[n]) - 1 /\ Len(queue[n]) \in Nat
        /\ \A k \in 1 .. Len(q) : q[k] = queue[n][k + 1]
    BY <1>a, <2>1
  <2> HIDE DEF q
  <2>3. \A k \in 1 .. Len(q) : k + 1 \in 1 .. Len(queue[n])
    BY <2>2
  <2> QED BY <1>c, <2>1, <2>2, <2>3
<1>3. ASSUME NEW n \in Nodes, NodeDown(n) PROVE Goal
  <2>1. queue' = [queue EXCEPT ![n] = <<>>]
    BY <1>3 DEF NodeDown
  <2>2. <<>> \in Seq(Reqs) /\ \A k \in 1 .. Len(<<>>) : FALSE
    OBVIOUS
  <2> QED BY <1>c, <2>1, <2>2
<1>4. ASSUME NEW n \in Nodes, NodeUp(n) PROVE Goal
  BY <1>4, <1>b DEF NodeUp
<1>5. ASSUME Starts PROVE Goal
  <2>1. queue' = queue
    BY <1>5 DEF Starts, CreateInstance, Place, PowerAction, DeleteInstance, UpdateSpec, Operate
  <2> QED BY <1>b, <2>1
<1>6. ASSUME NEW r \in Reqs,
             \/ PlaceFails(r) \/ Persist(r) \/ TimesOut(r)
             \/ CreateSucceeds(r) \/ CreateFails(r) \/ MarkError(r)
             \/ PowerDone(r) \/ SpecDone(r) \/ UpdateLost(r)
             \/ DeleteRow(r) \/ DeleteRowFails(r) \/ DeleteRelease(r)
      PROVE  Goal
  <2>1. queue' = queue
    BY <1>6 DEF PlaceFails, Persist, TimesOut, CreateSucceeds, CreateFails, MarkError, PowerDone,
                SpecDone, UpdateLost, DeleteRow, DeleteRowFails, DeleteRelease
  <2> QED BY <1>b, <2>1
<1>7. ASSUME Repairs \/ UNCHANGED vars PROVE Goal
  BY <1>7, <1>b DEF Repairs, ReconcileList, ReconcileInstance, ReconcileQuotas, vars
<1> HIDE DEF Goal
<1>8. ASSUME Continues PROVE Goal
  BY <1>1, <1>6, <1>8 DEF Continues
<1>9. ASSUME NodeSteps PROVE Goal
  BY <1>2, <1>3, <1>4, <1>9 DEF NodeSteps
<1>10. Goal
  BY <1>5, <1>7, <1>8, <1>9, StepCases
<1> QED BY <1>10 DEF Goal

\* What the agent does to the guest its command names.
LEMMA ExecutedGuest ==
  ASSUME TypeInv, Queued, NEW n \in Nodes, AgentExecutes(n)
  PROVE  \E r \in Reqs, g \in {None, "running", "stopped"} :
           /\ r = Head(queue[n]) /\ req[r].node = n /\ req[r].name \in Names
           /\ guests' = [guests EXCEPT ![n][req[r].name] = g]
           /\ req[r].op \in {"create", "power"} => g # None
           /\ g = None => req[r].op = "delete"
<1>1. queue[n] # <<>>
  BY DEF AgentExecutes
<1>2. PICK r \in Reqs : r = Head(queue[n]) /\ r = queue[n][1] /\ 1 \in 1 .. Len(queue[n])
  BY <1>1, HeadOfQueue
<1>3. req[r].node = n /\ req[r].op # None
  BY <1>2 DEF Queued
<1>4. req[r].name \in Names
  BY <1>3 DEF TypeInv
<1>5. req[r].op \in {"create", "power", "delete", "resize"}
  BY <1>3 DEF TypeInv, ReqType
<1>6. PICK g \in Outcomes(req[r]) : guests' = [guests EXCEPT ![n][req[r].name] = g]
  BY <1>2 DEF AgentExecutes
<1> DEFINE old == guests[req[r].node][req[r].name]
<1>7. old \in {None, "running", "stopped"}
  BY <1>3, <1>4 DEF TypeInv
<1>8. CASE req[r].op = "create"
  <2>1. req[r].target \in {"running", "stopped"}
    BY <1>8 DEF TypeInv
  <2>2. g \in {"running", "stopped"}
    BY <1>6, <1>8, <2>1 DEF Outcomes
  <2> QED BY <1>2, <1>3, <1>4, <1>6, <1>8, <2>2 DEF None
<1>9. CASE req[r].op = "power"
  <2>1. req[r].target \in {"running", "stopped"}
    BY <1>9 DEF TypeInv
  <2>2. g \in {"running", "stopped"}
    BY <1>6, <1>7, <1>9, <2>1 DEF Outcomes
  <2> QED BY <1>2, <1>3, <1>4, <1>6, <1>9, <2>2 DEF None
<1>10. CASE req[r].op = "delete"
  <2>1. g \in {None, old}
    BY <1>6, <1>10 DEF Outcomes
  <2> QED BY <1>2, <1>3, <1>4, <1>6, <1>7, <1>10, <2>1
<1>11. CASE req[r].op = "resize"
  <2>1. g = old /\ old # None
    BY <1>6, <1>11 DEF Outcomes
  <2> QED BY <1>2, <1>3, <1>4, <1>6, <1>7, <1>11, <2>1
<1> QED BY <1>5, <1>8, <1>9, <1>10, <1>11

\* A guest goes away only by a deletion that names it.
LEMMA StepGuests ==
  TypeInv /\ Queued /\ [Next]_vars =>
    /\ guests' \in [Nodes -> [Names -> {None, "running", "stopped"}]]
    /\ \A n \in Nodes, m \in Names :
         (guests[n][m] # None /\ guests'[n][m] = None) =>
           \E r \in Reqs : req[r].op = "delete" /\ req[r].name = m
<1> SUFFICES ASSUME TypeInv, Queued, [Next]_vars
             PROVE  /\ guests' \in [Nodes -> [Names -> {None, "running", "stopped"}]]
                    /\ \A n \in Nodes, m \in Names :
                         (guests[n][m] # None /\ guests'[n][m] = None) =>
                           \E r \in Reqs : req[r].op = "delete" /\ req[r].name = m
  OBVIOUS
<1>a. guests \in [Nodes -> [Names -> {None, "running", "stopped"}]]
  BY DEF TypeInv
<1>1. CASE \E n \in Nodes : AgentExecutes(n)
  <2>1. PICK n \in Nodes : AgentExecutes(n)
    BY <1>1
  <2>2. PICK r \in Reqs, g \in {None, "running", "stopped"} :
          /\ req[r].name \in Names
          /\ guests' = [guests EXCEPT ![n][req[r].name] = g]
          /\ g = None => req[r].op = "delete"
    BY <2>1, ExecutedGuest
  <2> QED BY <1>a, <2>2
<1>2. CASE guests' = guests
  BY <1>a, <1>2
<1>3. ASSUME Starts \/ Repairs \/ UNCHANGED vars PROVE guests' = guests
  BY <1>3 DEF Starts, Repairs, vars, CreateInstance, Place, PowerAction, DeleteInstance,
              UpdateSpec, Operate, ReconcileList, ReconcileInstance, ReconcileQuotas
<1>4. ASSUME Continues PROVE guests' = guests
  BY <1>4 DEF Continues, PlaceFails, Persist, Send, TimesOut, CreateSucceeds, CreateFails,
              MarkError, PowerDone, SpecDone, UpdateLost, DeleteRow, DeleteRowFails, DeleteRelease
<1>5. ASSUME NodeSteps PROVE guests' = guests \/ \E n \in Nodes : AgentExecutes(n)
  BY <1>5 DEF NodeSteps, AgentRefuses, NodeDown, NodeUp
<1> QED BY <1>1, <1>2, <1>3, <1>4, <1>5, StepCases

\* A success an agent reports for a creation or a power action.
LEMMA ExecutedBacks ==
  ASSUME TypeInv, Queued, NEW r \in Reqs, Executed(r), req[r].op \in {"create", "power"}
  PROVE  guests'[req[r].node][req[r].name] # None
<1>1. PICK n \in Nodes : Head(queue[n]) = r /\ AgentExecutes(n)
  BY DEF Executed
<1>2. PICK g \in {None, "running", "stopped"} :
        /\ req[r].node = n /\ req[r].name \in Names
        /\ guests' = [guests EXCEPT ![n][req[r].name] = g] /\ g # None
  BY <1>1, ExecutedGuest
<1> QED BY <1>2 DEF TypeInv

-----------------------------------------------------------------------------
(***************************************************************************)
(* The invariant is inductive.                                             *)
(***************************************************************************)
LEMMA StepTypes == TypeInv /\ Links /\ Queued /\ [Next]_vars => TypeInv'
<1> SUFFICES ASSUME TypeInv, Links, Queued, [Next]_vars PROVE TypeInv'
  OBVIOUS
<1>1. req' \in [Reqs -> ReqType] /\ \A k \in Reqs : Moves(k)
  BY StepMoves
<1>2. rows' \in [Reqs -> InstType \cup {NoInst}]
  BY StepRows
<1>3. queue' \in [Nodes -> Seq(Reqs)]
  BY StepQueues
<1>4. guests' \in [Nodes -> [Names -> {None, "running", "stopped"}]]
  BY StepGuests
<1>5. online' \subseteq Nodes /\ recon'.todo \subseteq Reqs
  <2>1. online' \in {online} \cup {online \cup {n} : n \in Nodes} \cup {online \ {n} : n \in Nodes}
    <3>1. ASSUME Starts \/ Repairs \/ UNCHANGED vars PROVE online' = online
      BY <3>1 DEF Starts, Repairs, vars, CreateInstance, Place, PowerAction, DeleteInstance,
                  UpdateSpec, Operate, ReconcileList, ReconcileInstance, ReconcileQuotas
    <3>2. ASSUME Continues PROVE online' = online
      BY <3>2 DEF Continues, PlaceFails, Persist, Send, TimesOut, CreateSucceeds, CreateFails,
                  MarkError, PowerDone, SpecDone, UpdateLost, DeleteRow, DeleteRowFails, DeleteRelease
    <3>3. ASSUME NodeSteps
          PROVE  online' \in {online} \cup {online \cup {n} : n \in Nodes} \cup {online \ {n} : n \in Nodes}
      BY <3>3 DEF NodeSteps, AgentExecutes, AgentRefuses, NodeDown, NodeUp
    <3> QED BY <3>1, <3>2, <3>3, StepCases
  <2>2. recon'.todo \subseteq Reqs
    <3>a. recon.todo \subseteq Reqs
      BY DEF TypeInv
    <3>1. ASSUME Starts \/ UNCHANGED vars PROVE recon' = recon
      BY <3>1 DEF Starts, vars, CreateInstance, Place, PowerAction, DeleteInstance,
                  UpdateSpec, Operate
    <3>2. ASSUME Continues PROVE recon' = recon
      BY <3>2 DEF Continues, PlaceFails, Persist, Send, TimesOut, CreateSucceeds, CreateFails,
                  MarkError, PowerDone, SpecDone, UpdateLost, DeleteRow, DeleteRowFails, DeleteRelease
    <3>3. ASSUME NodeSteps PROVE recon' = recon
      BY <3>3 DEF NodeSteps, AgentExecutes, AgentRefuses, NodeDown, NodeUp
    <3>4. ASSUME Repairs PROVE recon'.todo \subseteq Reqs
      <4>1. CASE ReconcileList
        BY <4>1 DEF ReconcileList
      <4>2. CASE \E i \in Reqs : ReconcileInstance(i)
        BY <3>a, <4>2 DEF ReconcileInstance
      <4>3. CASE ReconcileQuotas
        BY <4>3 DEF ReconcileQuotas, Idle
      <4> QED BY <3>4, <4>1, <4>2, <4>3 DEF Repairs
    <3> QED BY <3>a, <3>1, <3>2, <3>3, <3>4, StepCases
  <2> QED BY <2>1, <2>2 DEF TypeInv
<1>6. ASSUME NEW r \in Reqs
      PROVE  /\ req'[r].pc = "idle" => req'[r].op = None
             /\ req'[r].pc = "reserved" => req'[r].op = "create"
             /\ req'[r].pc = "placed" => req'[r].op = "create" /\ req'[r].node \in Nodes
             /\ req'[r].op # None => req'[r].name \in Names
             /\ req'[r].pc = "sending" => req'[r].op # None /\ req'[r].node \in Nodes
             /\ req'[r].pc = "releasing" => req'[r].op = "delete"
             /\ req'[r].pc = "failing" => req'[r].op = "create"
             /\ req'[r].ok => req'[r].pc \notin Early /\ req'[r].node \in Nodes
             /\ req'[r].op \in {"create", "power"} => req'[r].target \in {"running", "stopped"}
  <2> USE DEF TypeInv
  <2>1. CASE req'[r] = req[r]
    BY <2>1
  <2>2. CASE Created(r)
    BY <2>2, Constants DEF Created
  <2>3. CASE \E i \in Reqs : Opened(r, i)
    <3>1. PICK i \in Reqs : Opened(r, i)
      BY <2>3
    <3>2. rows[i].name \in Names /\ rows[i].node \in Nodes
      BY <3>1 DEF Opened, Exists, InstType
    <3>3. req'[r].op \in Operations /\ req'[r].op # None
      BY <3>1 DEF Opened, Operations, None
    <3> QED BY <3>1, <3>2, <3>3 DEF Opened, Operations
  <2>4. CASE Placed(r)
    BY <2>4 DEF Placed, Early
  <2>5. CASE Advanced(r)
    <3>1. Executed(r) => req[r].node \in Nodes
      BY ExecutedGuest DEF Executed
    <3> QED BY <2>5, <3>1 DEF Advanced, Same, Early, None
  <2> QED BY <1>1, <2>1, <2>2, <2>3, <2>4, <2>5 DEF Moves
<1> QED BY <1>1, <1>2, <1>3, <1>4, <1>5, <1>6 DEF TypeInv

LEMMA StepLinks == TypeInv /\ Links /\ [Next]_vars => Links'
<1> SUFFICES ASSUME TypeInv, Links, [Next]_vars PROVE Links'
  OBVIOUS
<1>1. \A k \in Reqs : Moves(k)
  BY StepMoves
<1>2. \A k \in Reqs : RowMoves(k)
  BY StepRows
\* A request that has a row keeps what the row was made from.
<1>3. ASSUME NEW i \in Reqs, req[i].op = "create", req[i].pc \notin Early
      PROVE  req'[i].op = "create" /\ req'[i].pc \notin Early /\ req'[i].node = req[i].node
  BY <1>1, <1>3 DEF Moves, Created, Opened, Placed, Advanced, Same, Early
<1>4. ASSUME NEW r \in Reqs, req'[r].op = "create"
      PROVE  req'[r].id = r /\ req'[r].name = NameOf[r]
  <2>1. CASE req'[r] = req[r]
    BY <1>4, <2>1 DEF Links
  <2>2. CASE Created(r)
    BY <2>2 DEF Created
  <2>3. CASE \E i \in Reqs : Opened(r, i)
    BY <1>4, <2>3 DEF Opened, Operations
  <2>4. CASE Placed(r) \/ Advanced(r)
    BY <1>4, <2>4 DEF Placed, Advanced, Same, Links
  <2> QED BY <1>1, <2>1, <2>2, <2>3, <2>4 DEF Moves
<1>5. ASSUME NEW i \in Reqs, rows'[i] # NoInst
      PROVE  /\ req'[i].op = "create" /\ req'[i].pc \notin Early
             /\ rows'[i].name = NameOf[i] /\ rows'[i].node = req'[i].node
  <2>1. CASE Exists(i) /\ (rows'[i] = rows[i] \/ Written(i))
    <3>1. /\ req[i].op = "create" /\ req[i].pc \notin Early
          /\ rows[i].name = NameOf[i] /\ rows[i].node = req[i].node
      BY <2>1 DEF Links
    <3>2. rows'[i].name = rows[i].name /\ rows'[i].node = rows[i].node
      BY <2>1 DEF Written
    <3> QED BY <1>3, <3>1, <3>2
  <2>2. CASE Persisted(i)
    <3>1. /\ req[i].pc = "placed" /\ req'[i].pc = "sending"
          /\ rows'[i].name = req[i].name /\ rows'[i].node = req[i].node
      BY <2>2 DEF Persisted
    <3>2. req[i].op = "create"
      BY <3>1 DEF TypeInv
    <3>3. Advanced(i)
      BY <1>1, <3>1 DEF Moves, Created, Opened, Placed
    <3> QED BY <3>1, <3>2, <3>3 DEF Advanced, Same, Early, Links
  <2> QED BY <1>2, <1>5, <2>1, <2>2 DEF RowMoves, Written, Exists
<1>6. ASSUME NEW r \in Reqs, req'[r].op \in Operations
      PROVE  /\ req'[r].id \in Reqs /\ req'[r].name = NameOf[req'[r].id]
             /\ req'[r].node = req'[req'[r].id].node
             /\ req'[req'[r].id].op = "create" /\ req'[req'[r].id].pc \notin Early
  <2>1. CASE Same(r)
    <3>1. PICK i \in Reqs : /\ i = req[r].id /\ req[r].name = NameOf[i] /\ req[r].node = req[i].node
                            /\ req[i].op = "create" /\ req[i].pc \notin Early
      BY <1>6, <2>1 DEF Links, Same
    <3> QED BY <1>3, <2>1, <3>1 DEF Same
  <2>2. CASE \E i \in Reqs : Opened(r, i)
    <3>1. PICK i \in Reqs : Opened(r, i)
      BY <2>2
    <3>2. /\ req[i].op = "create" /\ req[i].pc \notin Early
          /\ rows[i].name = NameOf[i] /\ rows[i].node = req[i].node
      BY <3>1 DEF Opened, Links
    <3> QED BY <1>3, <3>1, <3>2 DEF Opened
  <2>3. CASE Created(r)
    BY <1>6, <2>3 DEF Created, Operations
  <2>4. CASE Placed(r)
    <3>1. req'[r].op = "create"
      BY <2>4 DEF Placed, TypeInv
    <3> QED BY <1>6, <3>1 DEF Operations
  <2> QED BY <1>1, <2>1, <2>2, <2>3, <2>4 DEF Moves, Advanced, Same
<1> QED BY <1>4, <1>5, <1>6 DEF Links, Exists

LEMMA StepQueued == TypeInv /\ Links /\ Queued /\ [Next]_vars => Queued'
<1> SUFFICES ASSUME TypeInv, Links, Queued, [Next]_vars,
                    NEW n \in Nodes, NEW k \in 1 .. Len(queue'[n])
             PROVE  /\ req'[queue'[n][k]].op # None /\ req'[queue'[n][k]].node = n
                    /\ req'[queue'[n][k]].pc \notin Early \cup {"sending"}
  BY DEF Queued
<1>1. \A r \in Reqs : Moves(r)
  BY StepMoves
<1>2. QueueMoves(n)
  BY StepQueues
<1>3. queue[n] \in Seq(Reqs)
  BY DEF TypeInv
<1>4. CASE \E j \in 1 .. Len(queue[n]) : queue'[n][k] = queue[n][j]
  <2>1. PICK j \in 1 .. Len(queue[n]), r \in Reqs : queue'[n][k] = r /\ queue[n][j] = r
    BY <1>3, <1>4
  <2>2. req[r].op # None /\ req[r].node = n /\ req[r].pc \notin Early \cup {"sending"}
    BY <2>1 DEF Queued
  <2>3. req'[r] = req[r] \/ Advanced(r)
    BY <1>1, <2>2 DEF Moves, Created, Opened, Placed, Early
  <2>4. req'[r].op # None /\ req'[r].node = n /\ req'[r].pc \notin Early \cup {"sending"}
    BY <2>2, <2>3 DEF Advanced, Same, Early
  <2> QED BY <2>1, <2>4
<1>5. CASE \E r \in Reqs : /\ queue'[n][k] = r /\ req[r].node = n /\ req[r].pc = "sending"
                           /\ req'[r].pc = "waiting"
  <2>1. PICK r \in Reqs : /\ queue'[n][k] = r /\ req[r].node = n /\ req[r].pc = "sending"
                          /\ req'[r].pc = "waiting"
    BY <1>5
  <2>2. Advanced(r)
    BY <1>1, <2>1 DEF Moves, Created, Opened, Placed
  <2>3. req[r].op # None
    BY <2>1 DEF TypeInv
  <2> QED BY <2>1, <2>2, <2>3 DEF Advanced, Same, Early
<1> QED BY <1>2, <1>4, <1>5 DEF QueueMoves

\* A deletion stays one.
LEMMA DeletingStays ==
  ASSUME TypeInv, Links, [Next]_vars, NEW i, Deleting(i)
  PROVE  Deleting(i)'
<1>1. PICK r \in Reqs : req[r].op = "delete" /\ req[r].id = i
  BY DEF Deleting
<1>2. req[r].pc \notin {"idle", "reserved"}
  BY <1>1 DEF TypeInv, None
<1>3. req'[r].op = "delete" /\ req'[r].id = i
  BY <1>1, <1>2, StepMoves DEF Moves, Created, Opened, Placed, Advanced, Same
<1> QED BY <1>3 DEF Deleting

\* The guest of an instance is there until a deletion of that instance takes it:
\* no other instance has its name.
LEMMA GuestStays ==
  ASSUME TypeInv, Links, Queued, OwnName, [Next]_vars, NEW i \in Reqs, NEW n \in Nodes,
         guests[n][NameOf[i]] # None \/ Deleting(i)
  PROVE  guests'[n][NameOf[i]] # None \/ Deleting(i)'
<1>1. CASE Deleting(i)
  BY <1>1, DeletingStays
<1>2. CASE guests[n][NameOf[i]] # None /\ guests'[n][NameOf[i]] = None
  <2>1. PICK r \in Reqs : req[r].op = "delete" /\ req[r].name = NameOf[i]
    BY <1>2, StepGuests, Constants
  <2>2. req[r].id \in Reqs /\ NameOf[req[r].id] = NameOf[i]
    BY <2>1 DEF Links, Operations
  <2>3. Deleting(i)
    BY <2>1, <2>2 DEF OwnName, Deleting
  <2> QED BY <2>3, DeletingStays
<1> QED BY <1>1, <1>2

LEMMA StepBacking ==
  ASSUME OwnName
  PROVE  TypeInv /\ Links /\ Queued /\ Backing /\ [Next]_vars => Backing'
<1> SUFFICES ASSUME TypeInv, Links, Queued, Backing, [Next]_vars, NEW r \in Reqs,
                    req'[r].ok, req'[r].op \in {"create", "power"}
             PROVE  guests'[req'[r].node][req'[r].name] # None \/ Deleting(req[r].id)'
  BY DEF Backing
<1>1. Moves(r)
  BY StepMoves
<1>2. ~Created(r) /\ ~Placed(r) /\ ~\E i \in Reqs : Opened(r, i)
  BY DEF Created, Placed, Opened, TypeInv, Early
<1>3. Same(r) /\ (req[r].ok \/ Executed(r))
  BY <1>1, <1>2 DEF Moves, Advanced, Same
<1>4. CASE Executed(r)
  BY <1>3, <1>4, ExecutedBacks DEF Same
<1>5. CASE req[r].ok
  <2>1. req[r].op \in {"create", "power"} /\ req[r].node \in Nodes
    BY <1>3, <1>5 DEF Same, TypeInv
  <2>2. PICK i \in Reqs : i = req[r].id /\ req[r].name = NameOf[i]
    BY <2>1 DEF Links, Operations
  <2>3. guests[req[r].node][NameOf[i]] # None \/ Deleting(i)
    BY <1>5, <2>1, <2>2 DEF Backing
  <2>4. PICK n \in Nodes : n = req[r].node
    BY <2>1
  <2>5. guests'[n][NameOf[i]] # None \/ Deleting(i)'
    BY <2>3, <2>4, GuestStays
  <2> QED BY <1>3, <2>2, <2>4, <2>5 DEF Same, Deleting
<1> QED BY <1>3, <1>4, <1>5

LEMMA StepBacked ==
  ASSUME OwnName
  PROVE  TypeInv /\ Links /\ Queued /\ Backing /\ Backed /\ [Next]_vars => Backed'
<1> SUFFICES ASSUME TypeInv, Links, Queued, Backing, Backed, [Next]_vars, NEW i \in Reqs,
                    Live(i)'
             PROVE  guests'[rows'[i].node][rows'[i].name] # None \/ Deleting(i)'
  BY DEF Backed, Deleting
<1>1. RowMoves(i)
  BY StepRows
<1>2. rows'[i] # NoInst /\ ~Persisted(i) /\ rows'[i].status # "error"
  BY DEF Live, NoInst, Persisted, None
<1>3. Exists(i) /\ rows'[i].name = rows[i].name /\ rows'[i].node = rows[i].node
  BY <1>1, <1>2 DEF RowMoves, Written, Exists
<1>4. rows[i].name = NameOf[i] /\ rows[i].node = req[i].node
  BY <1>3 DEF Links
<1>5. rows[i].node \in Nodes
  BY <1>3 DEF TypeInv, Exists, InstType
<1>6. CASE Live(i)
  <2>1. guests[rows[i].node][NameOf[i]] # None \/ Deleting(i)
    BY <1>4, <1>6 DEF Backed, Deleting
  <2>2. PICK n \in Nodes : n = rows[i].node
    BY <1>5
  <2>3. guests'[n][NameOf[i]] # None \/ Deleting(i)'
    BY <2>1, <2>2, GuestStays
  <2> QED BY <1>3, <1>4, <2>2, <2>3
<1>7. CASE \E r \in Reqs : req[r].ok /\ req[r].op \in {"create", "power"} /\ req[r].id = i
  <2>1. PICK r \in Reqs : req[r].ok /\ req[r].op \in {"create", "power"} /\ req[r].id = i
    BY <1>7
  <2>2. guests[req[r].node][req[r].name] # None \/ Deleting(i)
    BY <2>1 DEF Backing
  <2>3. req[r].name = NameOf[i] /\ req[r].node = rows[i].node
    BY <1>4, <2>1 DEF Links, Operations
  <2>4. PICK n \in Nodes : n = rows[i].node
    BY <1>5
  <2>5. guests'[n][NameOf[i]] # None \/ Deleting(i)'
    BY <2>2, <2>3, <2>4, GuestStays
  <2> QED BY <1>3, <1>4, <2>4, <2>5
<1>8. Live(i) \/ \E r \in Reqs : req[r].ok /\ req[r].op \in {"create", "power"} /\ req[r].id = i
  BY <1>1, <1>2 DEF RowMoves, Written, Live
<1> QED BY <1>6, <1>7, <1>8

LEMMA StepDeletions == TypeInv /\ Links /\ Deletions /\ [Next]_vars => Deletions'
<1> SUFFICES ASSUME TypeInv, Links, Deletions, [Next]_vars PROVE Deletions'
  OBVIOUS
<1>a. \A k \in Reqs : Moves(k) /\ RowMoves(k)
  BY StepMoves, StepRows
<1>1. ASSUME NEW r \in Reqs, Releases(r)'
      PROVE  /\ req'[r].id = req[r].id /\ req[r].id \in Reqs
             /\ req[req[r].id].pc \notin Early
             /\ \/ Releases(r)
                \/ DeleteRow(r) /\ Exists(req[r].id) /\ rows'[req[r].id] = NoInst
  <2>1. ~Created(r) /\ ~Placed(r) /\ ~\E i \in Reqs : Opened(r, i)
    BY <1>1 DEF Releases, Created, Placed, Opened, TypeInv, None
  <2>2. req'[r] = req[r] \/ Advanced(r)
    BY <1>a, <2>1 DEF Moves
  <2>3. Same(r) /\ req[r].op = "delete"
    BY <1>1, <2>2 DEF Advanced, Same, Releases
  <2>4. req[r].id \in Reqs /\ req[req[r].id].pc \notin Early
    BY <2>3 DEF Links, Operations
  <2> QED BY <1>1, <2>2, <2>3, <2>4 DEF Advanced, Same, Releases
<1>2. ASSUME NEW i \in Reqs, ~Exists(i), req[i].pc \notin Early PROVE rows'[i] = NoInst
  BY <1>a, <1>2 DEF RowMoves, Written, Persisted, Exists, Early
<1>5. ASSUME NEW r \in Reqs, Finished(r)' PROVE ~Exists(req[r].id)'
  <2>1. ~Created(r) /\ ~Placed(r) /\ ~\E i \in Reqs : Opened(r, i)
    BY <1>5 DEF Finished, Created, Placed, Opened, TypeInv, None
  <2>2. req'[r] = req[r] \/ Advanced(r)
    BY <1>a, <2>1 DEF Moves
  <2>3. Same(r) /\ req[r].op = "delete"
    BY <1>5, <2>2 DEF Advanced, Same, Finished
  <2>4. PICK i \in Reqs : i = req[r].id /\ i = req'[r].id /\ req[i].pc \notin Early
    BY <2>3 DEF Links, Operations, Same
  <2>5. CASE Finished(r)
    BY <1>2, <2>4, <2>5 DEF Deletions, Exists
  <2>6. CASE ~Finished(r)
    <3>1. Advanced(r)
      BY <1>5, <2>2, <2>6 DEF Finished
    <3>2. rows'[i] = NoInst
      BY <1>5, <2>3, <2>4, <2>6, <3>1 DEF Finished, Advanced
    <3> QED BY <2>4, <3>2 DEF Exists
  <2> QED BY <2>5, <2>6
<1>3. ASSUME NEW r \in Reqs, Releases(r)' PROVE ~Exists(req[r].id)'
  <2>1. CASE Releases(r)
    BY <1>1, <1>2, <1>3, <2>1 DEF Deletions, Exists
  <2> QED BY <1>1, <1>3, <2>1 DEF Exists
<1>4. ASSUME NEW r \in Reqs, NEW s \in Reqs, Releases(r)', Releases(s)', req'[r].id = req'[s].id
      PROVE  r = s
  <2>1. CASE Releases(r) /\ Releases(s)
    BY <1>1, <1>4, <2>1 DEF Deletions
  <2>2. CASE Releases(r) /\ ~Releases(s)
    BY <1>1, <1>4, <2>2 DEF Deletions
  <2>3. CASE ~Releases(r) /\ Releases(s)
    BY <1>1, <1>4, <2>3 DEF Deletions
  <2>4. CASE ~Releases(r) /\ ~Releases(s) /\ r # s
    <3>1. DeleteRow(r) /\ DeleteRow(s)
      BY <1>1, <1>4, <2>4
    <3>2. req'[s] = req[s]
      BY <2>4, <3>1 DEF DeleteRow, TypeInv
    <3> QED BY <1>4, <2>4, <3>2 DEF Releases
  <2> QED BY <2>1, <2>2, <2>3, <2>4
<1> QED BY <1>3, <1>4, <1>5 DEF Deletions

LEMMA InitInv == Init => ProvInv
<1> SUFFICES ASSUME Init PROVE ProvInv
  OBVIOUS
<1>1. \A r \in Reqs : rows[r] = NoInst /\ req[r] = NewReq
  BY DEF Init
<1>2. NewReq.pc = "idle" /\ NewReq.op = None /\ NewReq.ok = FALSE /\ NewReq \in ReqType
  BY NewReqType DEF NewReq
<1>3. \A r \in Reqs : req[r].pc = "idle" /\ req[r].op = None /\ req[r].ok = FALSE
  BY <1>1, <1>2
<1>4. \A n \in Nodes : queue[n] = <<>>
  BY DEF Init
<1>5. TypeInv
  <2>1. req \in [Reqs -> ReqType]
    BY <1>2 DEF Init
  <2>2. queue \in [Nodes -> Seq(Reqs)] /\ recon.todo = {} /\ online = Nodes
    BY DEF Init, Idle
  <2>3. /\ rows \in [Reqs -> InstType \cup {NoInst}]
        /\ guests \in [Nodes -> [Names -> {None, "running", "stopped"}]]
    BY DEF Init
  <2> QED BY <1>3, <2>1, <2>2, <2>3 DEF TypeInv, None
<1>6. Links
  BY <1>1, <1>3 DEF Links, Operations, Exists, None
<1>7. Queued
  BY <1>4 DEF Queued
<1>8. Backed
  BY <1>1 DEF Backed, Live, NoInst, None
<1>9. Backing /\ Deletions
  BY <1>3 DEF Backing, Deletions, Releases, Finished, None
<1> QED BY <1>5, <1>6, <1>7, <1>8, <1>9 DEF ProvInv

\* What holds whatever the names are.
BaseInv == TypeInv /\ Links /\ Queued /\ Deletions

LEMMA BaseInvariant == Spec => []BaseInv
<1>1. Init => BaseInv
  BY InitInv DEF BaseInv, ProvInv
<1>2. BaseInv /\ [Next]_vars => BaseInv'
  BY StepTypes, StepLinks, StepQueued, StepDeletions DEF BaseInv
<1> QED BY <1>1, <1>2, PTL DEF Spec

\* A row that says the instance runs or is stopped has its guest on its node, or
\* a deletion of that instance is under way or failed to delete the row, through
\* every broken stream, failed driver call, timeout, late answer and dropped
\* error.  It is proved for instances that have names of their own: with a name
\* used again it does not hold.
THEOREM BackedRowsCorrect ==
  ASSUME OwnName
  PROVE  Spec => []BackedRows
<1>1. Init => ProvInv
  BY InitInv
<1>2. ProvInv /\ [Next]_vars => ProvInv'
  BY StepTypes, StepLinks, StepQueued, StepBacking, StepBacked, StepDeletions DEF ProvInv
<1>3. ProvInv => BackedRows
  <2> SUFFICES ASSUME ProvInv, NEW i \in Reqs, Live(i), guests[rows[i].node][rows[i].name] = None
               PROVE  \E r \in Reqs : /\ req[r].op = "delete" /\ req[r].id = i
                                      /\ req[r].pc # "done" \/ req[r].target = "kept"
    BY DEF BackedRows
  <2>1. Exists(i)
    BY DEF Live, Exists, NoInst, None
  <2> QED BY <2>1 DEF ProvInv, Backed, Deleting, Deletions, Finished
<1> QED BY <1>1, <1>2, <1>3, PTL DEF Spec

\* Of any number of concurrent deletions of one instance, one at most gets to
\* release its quota: the one that found the row.
THEOREM DeleteOnceCorrect == Spec => []DeleteOnce
<1>1. BaseInv => DeleteOnce
  <2> SUFFICES ASSUME BaseInv, NEW i \in Reqs
               PROVE  Cardinality({r \in Reqs : /\ req[r].op = "delete" /\ req[r].id = i
                                                /\ (req[r].pc = "releasing" \/ req[r].target = "gone")}) <= 1
    BY DEF DeleteOnce
  <2> DEFINE S == {r \in Reqs : /\ req[r].op = "delete" /\ req[r].id = i
                                /\ (req[r].pc = "releasing" \/ req[r].target = "gone")}
  <2>1. \A r, s \in S : r = s
    BY DEF BaseInv, Deletions, Releases
  <2> HIDE DEF S
  <2>2. CASE S = {}
    BY <2>2, FS_EmptySet DEF S
  <2>3. CASE S # {}
    <3>1. PICK r \in S : TRUE
      BY <2>3
    <3>2. S = {r}
      BY <2>1, <3>1
    <3>3. Cardinality(S) = 1
      BY <3>2, FS_Singleton
    <3> QED BY <3>3 DEF S
  <2> QED BY <2>2, <2>3
<1> QED BY <1>1, BaseInvariant, PTL

\* A deleted instance stays deleted: the status writes of power actions, of
\* failed creations and of the reconciler touch only rows that exist, so a row
\* appears only where its own creation stores it.
THEOREM NoResurrectionCorrect == Spec => NoResurrection
<1>1. BaseInv /\ [Next]_vars =>
        [\A i \in Reqs : (rows[i] = NoInst /\ rows'[i] # NoInst) => req[i].pc = "placed"]_vars
  <2> SUFFICES ASSUME BaseInv, [Next]_vars, NEW i \in Reqs, rows[i] = NoInst, rows'[i] # NoInst
               PROVE  req[i].pc = "placed"
    OBVIOUS
  <2>1. RowMoves(i)
    BY StepRows DEF BaseInv
  <2> QED BY <2>1 DEF RowMoves, Written, Persisted, Exists
<1> QED BY <1>1, BaseInvariant, PTL DEF Spec, NoResurrection
=============================================================================
