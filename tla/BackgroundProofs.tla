-------------------------- MODULE BackgroundProofs --------------------------
(***************************************************************************)
(* Proofs about the work the control plane does behind its requests:       *)
(* migrations of instances, upgrades of the schema, webhooks, events,      *)
(* invoices and consoles.                                                  *)
(*                                                                         *)
(* The components share no state. Each theorem is about one of them and    *)
(* holds for every value of its constants that the theorem's hypotheses    *)
(* allow; constants that two of them have under one name are declared      *)
(* once, and variables have the names that Background gives them.          *)
(***************************************************************************)
EXTENDS Integers, Sequences, FiniteSets, FiniteSetTheorems, WellFoundedInduction, TLAPS

CONSTANTS
  DefaultCap, Unit, Migs, Insts, SizeOf, NodeFacts, Home, Asked, Drained, MaxCrashes, Migrators,
  FilesOf, Broken, LockMayDrop, MaxRestarts, HookEvents, Slots, HookReqs, MaxSent, MaxAttempts,
  InMemory, Events, TypeOf, TenantOf, Handlers, PatternOf, Workers, Buffer, StreamCap, User,
  Admin, Plans, Seeded, BillCalls, Meters, Generators, Quantity, Included, Overage, Period,
  MaxSubs, MaxTries, InvoicesInMemory, Inputs, Window, InboundCap, ResizeCap, Beats

VARIABLES
  instances, guests, nodeRow, mig, evac, migCrashes, lost, lockHolder, schema, recorded, upgrade,
  restarts, endpoint, call, sent, slot, deliveries, batch, crashes, publ, stored, queue, closer,
  subs, task, handled, stream, shown, plans, subscriptions, bill, usage, meter, gen, invoices,
  payments, tableLock, session, client, down, up, serverAcks, active, stdin, driver, stdout,
  drained, inbound, screen, notice, resizes, beats

Moves == INSTANCE Migration WITH rows <- instances, crashes <- migCrashes
Schema == INSTANCE Migrator WITH up <- upgrade
Hooks == INSTANCE Webhooks WITH rows <- deliveries
Bus == INSTANCE EventBus
Invoices == INSTANCE Billing WITH subs <- subscriptions, lock <- tableLock
Terminal == INSTANCE Console WITH shown <- screen

-----------------------------------------------------------------------------
(***************************************************************************)
(* Facts about sequences, cardinalities and natural numbers that several   *)
(* components need.                                                        *)
(***************************************************************************)
LEMMA ReplacedInSeq ==
  ASSUME NEW S, NEW t \in Seq(S), NEW k \in DOMAIN t, NEW x \in S
  PROVE  /\ [t EXCEPT ![k] = x] \in Seq(S) /\ Len([t EXCEPT ![k] = x]) = Len(t)
         /\ DOMAIN [t EXCEPT ![k] = x] = DOMAIN t
         /\ \A n \in DOMAIN t : [t EXCEPT ![k] = x][n] = IF n = k THEN x ELSE t[n]
OBVIOUS

LEMMA LeastOf ==
  ASSUME NEW S \in SUBSET Nat, S # {}
  PROVE  \E x \in S : \A y \in S : x <= y
<1> DEFINE R == OpToRel(<, Nat)
<1>1. IsWellFoundedOn(R, Nat)
  BY NatLessThanWellFounded
<1> HIDE DEF R
<1>2. PICK x \in S : \A y \in S : ~ (<<y, x>> \in R)
  BY <1>1, WFMin
<1>3. R = {ss \in Nat \X Nat : ss[1] < ss[2]}
  BY DEF R, OpToRel
<1>4. \A y \in S : y < x => <<y, x>> \in R
  BY <1>3
<1>5. \A y \in S : ~(y < x) /\ y \in Nat /\ x \in Nat
  BY <1>2, <1>4
<1> QED BY <1>5

-----------------------------------------------------------------------------
(***************************************************************************)
(* Migration keeps its promise about guests for any number of migrations,  *)
(* instances and nodes, with every fault of the model, as long as no two   *)
(* migrations of an instance that overlap lead back to a node one of them  *)
(* leaves; only an instance whose own move of the row failed is excepted.  *)
(*                                                                         *)
(* The row's guest is safe because a migration holds two facts between its *)
(* steps: the new guest is there until the row points at it (Copied), and  *)
(* the row points elsewhere before the old guest goes (Moved). Neither is  *)
(* a fact about one migration: another one deletes guests and moves rows,  *)
(* and only the absence of chains keeps its hands off these two.           *)
(***************************************************************************)
GuestStates == {"absent", "stopped", "running"}

\* The steps of a call or goroutine that still has something to do.
Working == {"checked", "start", "stop", "create", "rollback", "restart",
            "verify", "move", "restate", "cleanup", "complete"}

MigPCs == Working \cup {"unused", "done", "waiting"}

MigStatuses == {"", "active", "completed", "rolled_back"}

MigType == [pc : MigPCs, inst : Insts \cup {""}, src : Moves!Nodes \cup {""}, dst : Moves!Nodes \cup {""},
            type : {"", "live", "cold"}, run : BOOLEAN, status : MigStatuses]

EvacType == [pc : {"idle", "listing", "moving", "done"}, node : Drained \cup {""},
             dst : Asked \cup {""}, todo : SUBSET Insts, call : Migs \cup {""}]

MovesTyped ==
  /\ instances \in [Insts -> [node : Moves!Nodes, status : {"running"}]]
  /\ guests \in [Moves!Nodes -> [Insts -> GuestStates]]
  /\ nodeRow \in [Moves!Nodes -> [status : {"online"}, drain : BOOLEAN]]
  /\ mig \in [Migs -> MigType]
  /\ evac \in EvacType
  /\ \A m \in Migs : mig[m].pc \in Working =>
       /\ mig[m].inst \in Insts /\ mig[m].src \in Moves!Nodes /\ mig[m].dst \in Moves!Nodes
       /\ mig[m].src # mig[m].dst

\* From the creation of the new guest to the move of the row, the guest is there.
Copied ==
  \A m \in Migs : mig[m].pc \in {"verify", "move"} => guests[mig[m].dst][mig[m].inst] # "absent"

\* From the move of the row to the deletion of the old guest, the row points
\* at another node, unless the move failed.
Moved ==
  \A m \in Migs : mig[m].pc \in {"restate", "cleanup"} =>
    mig[m].inst \in Moves!Astray \/ instances[mig[m].inst].node # mig[m].src

MigInv == MovesTyped /\ Moves!RowBacked /\ Copied /\ Moved

\* What the theorem asks of the constants: instances start on nodes, and callers
\* name nodes or leave the choice to the scheduler.
Deployment == Home \in [Insts -> Moves!Nodes] /\ Asked \subseteq Moves!Nodes \cup {""}

-----------------------------------------------------------------------------
LEMMA InitInv == ASSUME Deployment PROVE Moves!Init => MigInv
<1> SUFFICES ASSUME Moves!Init PROVE MigInv
  OBVIOUS
<1> USE DEF Moves!Init, Deployment, Moves!NoMig, Moves!NoEvac
<1>1. MovesTyped
  <2>1. instances \in [Insts -> [node : Moves!Nodes, status : {"running"}]]
    OBVIOUS
  <2>2. guests \in [Moves!Nodes -> [Insts -> GuestStates]]
    BY DEF GuestStates
  <2>3. nodeRow \in [Moves!Nodes -> [status : {"online"}, drain : BOOLEAN]]
    OBVIOUS
  <2>4. mig \in [Migs -> MigType]
    BY DEF MigType, MigPCs, MigStatuses
  <2>5. evac \in EvacType
    BY DEF EvacType
  <2> QED BY <2>1, <2>2, <2>3, <2>4, <2>5 DEF MovesTyped, Working
<1>2. Moves!RowBacked
  BY DEF Moves!RowBacked
<1>3. Copied /\ Moved
  BY DEF Copied, Moved
<1> QED BY <1>1, <1>2, <1>3 DEF MigInv

\* A destination is a node, and not the one the instance is on.
LEMMA DestinationsAreNodes ==
  ASSUME Deployment, NEW i \in Insts, NEW dst \in Asked \cup {""}, NEW read \in BOOLEAN,
         NEW d \in Moves!Destinations(i, dst, read)
  PROVE  d \in Moves!Nodes /\ d # instances[i].node
<1>1. d # instances[i].node
  BY DEF Moves!Destinations
<1>2. CASE dst = ""
  <2>1. PICK r \in Moves!SelectNode({Moves!NodeRec(n) : n \in Moves!Nodes}, Moves!InstRecs, Moves!Request(i, {instances[i].node})) :
          d = r.id
    BY <1>2 DEF Moves!Destinations
  <2>2. r \in {Moves!NodeRec(n) : n \in Moves!Nodes}
    BY <2>1 DEF Moves!SelectNode
  <2>3. PICK n \in Moves!Nodes : r = Moves!NodeRec(n)
    BY <2>2
  <2>4. Moves!NodeRec(n).id = n
    BY DEF Moves!NodeRec
  <2> QED BY <1>1, <2>1, <2>3, <2>4
<1>3. CASE dst # ""
  BY <1>1, <1>3 DEF Moves!Destinations, Deployment
<1> QED BY <1>2, <1>3

\* What Step does to the migrations.
LEMMA StepOfGoroutine ==
  ASSUME MovesTyped, NEW m \in Migs, NEW from \in Working, NEW to \in MigPCs \ {"unused"},
         NEW s \in MigStatuses, Moves!Step(m, from, to, s)
  PROVE  /\ mig[m].pc = from
         /\ mig' \in [Migs -> MigType]
         /\ \A k \in Migs \ {m} : mig'[k] = mig[k]
         /\ mig'[m].pc = to
         /\ to # "done" => /\ mig'[m].inst = mig[m].inst
                           /\ mig'[m].src = mig[m].src /\ mig'[m].dst = mig[m].dst
<1> DEFINE new == IF to = "done" THEN Moves!Over(m, s) ELSE [mig[m] EXCEPT !.pc = to, !.status = s]
<1>1. mig[m].pc = from /\ mig' = [mig EXCEPT ![m] = new] /\ mig \in [Migs -> MigType]
  BY DEF Moves!Step, MovesTyped
<1>2. new \in MigType /\ new.pc = to
  BY <1>1 DEF Moves!Over, Moves!NoMig, MigType, MigStatuses
<1>3. to # "done" => new.inst = mig[m].inst /\ new.src = mig[m].src /\ new.dst = mig[m].dst
  BY <1>1 DEF MigType
<1> HIDE DEF new
<1> QED BY <1>1, <1>2, <1>3

-----------------------------------------------------------------------------
\* Rows stay on their nodes, no guest goes and no failed write is forgotten.
Steady ==
  /\ Moves!Astray \subseteq Moves!Astray'
  /\ instances' \in [Insts -> [node : Moves!Nodes, status : {"running"}]]
  /\ guests' \in [Moves!Nodes -> [Insts -> GuestStates]]
  /\ nodeRow' \in [Moves!Nodes -> [status : {"online"}, drain : BOOLEAN]]
  /\ evac' \in EvacType
  /\ \A i \in Insts : instances'[i].node = instances[i].node
  /\ \A n \in Moves!Nodes, i \in Insts : guests[n][i] # "absent" => guests'[n][i] # "absent"

\* A migration stays as it is, ends, is checked, or goes on without anything
\* more to say about its guests than before.
Continues(k) ==
  \/ mig'[k] = mig[k]
  \/ mig'[k].pc \notin Working
  \/ /\ mig'[k].pc \in Working \ {"verify", "move", "restate", "cleanup"}
     /\ mig'[k].inst \in Insts /\ mig'[k].src \in Moves!Nodes /\ mig'[k].dst \in Moves!Nodes
     /\ mig'[k].src # mig'[k].dst
  \/ /\ mig[k].pc \in Working
     /\ mig'[k].inst = mig[k].inst /\ mig'[k].src = mig[k].src /\ mig'[k].dst = mig[k].dst
     /\ \/ mig'[k].pc \in {"verify", "move"} /\ mig[k].pc \in {"verify", "move"}
        \/ mig'[k].pc = "verify" /\ guests'[mig[k].dst][mig[k].inst] # "absent"
        \/ mig'[k].pc \in {"restate", "cleanup"} /\ mig[k].pc \in {"restate", "cleanup"}

LEMMA MovesQuietStep ==
  ASSUME MigInv, Steady, mig' \in [Migs -> MigType], \A k \in Migs : Continues(k)
  PROVE  MigInv'
<1> USE DEF MigInv
<1>1. \A k \in Migs : mig'[k].pc \in Working =>
        /\ mig'[k].inst \in Insts /\ mig'[k].src \in Moves!Nodes /\ mig'[k].dst \in Moves!Nodes
        /\ mig'[k].src # mig'[k].dst
  BY DEF Continues, MovesTyped
<1>2. MovesTyped'
  BY <1>1 DEF MovesTyped, Steady
<1>3. Moves!RowBacked'
  BY DEF Moves!RowBacked, Steady, MovesTyped
<1>4. Copied'
  <2> SUFFICES ASSUME NEW k \in Migs, mig'[k].pc \in {"verify", "move"}
               PROVE  guests'[mig'[k].dst][mig'[k].inst] # "absent"
    BY DEF Copied
  <2>1. mig'[k].inst \in Insts /\ mig'[k].dst \in Moves!Nodes
    BY <1>1 DEF Working
  <2>2. \/ mig'[k] = mig[k]
        \/ /\ mig'[k].inst = mig[k].inst /\ mig'[k].dst = mig[k].dst
           /\ \/ mig[k].pc \in {"verify", "move"}
              \/ guests'[mig[k].dst][mig[k].inst] # "absent"
    BY DEF Continues, Working
  <2> QED BY <2>1, <2>2 DEF Copied, Steady
<1>5. Moved'
  <2> SUFFICES ASSUME NEW k \in Migs, mig'[k].pc \in {"restate", "cleanup"}
               PROVE  mig'[k].inst \in Moves!Astray' \/ instances'[mig'[k].inst].node # mig'[k].src
    BY DEF Moved
  <2>1. mig'[k].inst \in Insts
    BY <1>1 DEF Working
  <2>2. \/ mig'[k] = mig[k]
        \/ /\ mig'[k].inst = mig[k].inst /\ mig'[k].src = mig[k].src
           /\ mig[k].pc \in {"restate", "cleanup"}
    BY DEF Continues, Working
  <2> QED BY <2>1, <2>2 DEF Moved, Steady
<1> QED BY <1>2, <1>3, <1>4, <1>5

\* Nothing that Steady is about changes.
LEMMA SteadyStutter ==
  ASSUME MigInv, UNCHANGED <<instances, guests, nodeRow, evac>>, lost \subseteq lost'
  PROVE  Steady
BY DEF MigInv, MovesTyped, Steady, Moves!Astray

LEMMA CheckQuiet ==
  ASSUME MigInv, Deployment, NEW m \in Migs, NEW i \in Insts, NEW dst \in Asked \cup {""},
         NEW type \in {"live", "cold"}, Moves!MigrateCheck(m, i, dst, type)
  PROVE  mig' \in [Migs -> MigType] /\ \A k \in Migs : Continues(k)
<1>0. MovesTyped
  BY DEF MigInv
<1>1. CASE \E read \in BOOLEAN : \E d \in Moves!Destinations(i, dst, read) :
             mig' = [mig EXCEPT ![m] = [pc |-> "checked", inst |-> i, src |-> instances[i].node,
                       dst |-> d, type |-> type, run |-> instances[i].status = "running",
                       status |-> ""]]
  <2>0. PICK read \in BOOLEAN : \E d \in Moves!Destinations(i, dst, read) :
             mig' = [mig EXCEPT ![m] = [pc |-> "checked", inst |-> i, src |-> instances[i].node,
                       dst |-> d, type |-> type, run |-> instances[i].status = "running",
                       status |-> ""]]
    BY <1>1
  <2>1. PICK d \in Moves!Destinations(i, dst, read) :
             mig' = [mig EXCEPT ![m] = [pc |-> "checked", inst |-> i, src |-> instances[i].node,
                       dst |-> d, type |-> type, run |-> instances[i].status = "running",
                       status |-> ""]]
    BY <2>0
  <2> DEFINE new == [pc |-> "checked", inst |-> i, src |-> instances[i].node, dst |-> d, type |-> type,
                     run |-> instances[i].status = "running", status |-> ""]
  <2>2. d \in Moves!Nodes /\ d # instances[i].node
    BY DestinationsAreNodes
  <2>3. instances[i].node \in Moves!Nodes
    BY <1>0 DEF MovesTyped
  <2>4. new \in MigType
    BY <2>2, <2>3 DEF MigType, MigPCs, Working, MigStatuses
  <2>5. /\ new.pc \in Working \ {"verify", "move", "restate", "cleanup"}
        /\ new.inst \in Insts /\ new.src \in Moves!Nodes /\ new.dst \in Moves!Nodes /\ new.src # new.dst
    BY <2>2, <2>3 DEF Working
  <2> HIDE DEF new
  <2>6. mig' = [mig EXCEPT ![m] = new] /\ mig \in [Migs -> MigType]
    BY <1>0, <2>1 DEF new, MovesTyped
  <2> QED BY <2>4, <2>5, <2>6 DEF Continues
<1>2. CASE mig' = [mig EXCEPT ![m] = Moves!Over(m, "")]
  <2>1. mig \in [Migs -> MigType]
    BY <1>0 DEF MovesTyped
  <2>2. Moves!Over(m, "") \in MigType /\ Moves!Over(m, "").pc = "done"
    BY <2>1 DEF Moves!Over, Moves!NoMig, MigType, MigPCs, Working, MigStatuses
  <2> QED BY <1>2, <2>1, <2>2 DEF Continues, Working
<1> QED BY <1>1, <1>2 DEF Moves!MigrateCheck

\* A status write, whose steps leave the facts about guests as they are.
LEMMA GoroutineQuiet ==
  ASSUME MigInv, NEW m \in Migs, NEW from \in Working, NEW to \in MigPCs \ {"unused"},
         NEW s \in MigStatuses, Moves!Step(m, from, to, s),
         \/ to \notin {"verify", "move", "restate", "cleanup"}
         \/ from \in {"verify", "move"} /\ to \in {"verify", "move"}
         \/ to = "verify" /\ guests'[mig[m].dst][mig[m].inst] # "absent"
         \/ from \in {"restate", "cleanup"} /\ to \in {"restate", "cleanup"}
  PROVE  mig' \in [Migs -> MigType] /\ \A k \in Migs : Continues(k)
<1>0. MovesTyped
  BY DEF MigInv
<1>1. /\ mig[m].pc = from
      /\ mig' \in [Migs -> MigType]
      /\ \A k \in Migs \ {m} : mig'[k] = mig[k]
      /\ mig'[m].pc = to
      /\ to # "done" => /\ mig'[m].inst = mig[m].inst
                        /\ mig'[m].src = mig[m].src /\ mig'[m].dst = mig[m].dst
  BY <1>0, StepOfGoroutine
<1>2. /\ mig[m].inst \in Insts /\ mig[m].src \in Moves!Nodes /\ mig[m].dst \in Moves!Nodes
      /\ mig[m].src # mig[m].dst
  BY <1>0, <1>1 DEF MovesTyped
<1>3. Continues(m)
  <2>1. CASE to = "done"
    BY <1>1, <2>1 DEF Continues, Working
  <2>2. CASE to # "done" /\ to \notin {"verify", "move", "restate", "cleanup"}
    BY <1>1, <1>2, <2>2 DEF Continues
  <2>3. CASE to \in {"verify", "move", "restate", "cleanup"}
    BY <1>1, <2>3 DEF Continues
  <2> QED BY <2>1, <2>2, <2>3
<1> QED BY <1>1, <1>3 DEF Continues

-----------------------------------------------------------------------------
LEMMA StatusWriteStep ==
  ASSUME MigInv, NEW m \in Migs,
         Moves!Transferring(m) \/ Moves!RollBack(m) \/ Moves!Verifying(m) \/ Moves!Completed(m) \/ Moves!MigrateCreate(m)
  PROVE  MigInv'
<1>0. mig[m] \in MigType /\ MovesTyped /\ mig[m].status \in MigStatuses
  BY DEF MigInv, MovesTyped, MigType
<1>1. CASE Moves!Transferring(m)
  <2> DEFINE to == IF mig[m].type = "cold" /\ mig[m].run THEN "stop" ELSE "create"
             new == [mig[m] EXCEPT !.type = "", !.pc = to]
  <2>1. mig' = [mig EXCEPT ![m] = new] /\ mig[m].pc = "start" /\ mig \in [Migs -> MigType]
    BY <1>0, <1>1 DEF Moves!Transferring, MovesTyped
  <2>2. /\ new \in MigType /\ new.pc \in {"stop", "create"} /\ new.inst = mig[m].inst
        /\ new.src = mig[m].src /\ new.dst = mig[m].dst
    BY <1>0 DEF MigType, MigPCs, Working, MigStatuses
  <2>3. /\ mig[m].inst \in Insts /\ mig[m].src \in Moves!Nodes /\ mig[m].dst \in Moves!Nodes
        /\ mig[m].src # mig[m].dst
    BY <1>0, <2>1 DEF MovesTyped, Working
  <2> HIDE DEF new
  <2>4. mig' \in [Migs -> MigType] /\ \A k \in Migs : Continues(k)
    BY <2>1, <2>2, <2>3 DEF Continues, Working
  <2> QED BY <1>1, <2>4, MovesQuietStep, SteadyStutter DEF Moves!Transferring
<1>2. CASE Moves!RollBack(m)
  <2>1. PICK to \in {"restart", "done"}, s \in {"rolled_back", mig[m].status} :
          Moves!Step(m, "rollback", to, s)
    BY <1>2 DEF Moves!RollBack, Moves!UpdateStatus, Moves!Goroutine
  <2>2. mig' \in [Migs -> MigType] /\ \A k \in Migs : Continues(k)
    BY <1>0, <2>1, GoroutineQuiet DEF Working, MigPCs, MigStatuses
  <2>3. UNCHANGED <<instances, guests, nodeRow, evac>> /\ lost \subseteq lost'
    BY <1>2 DEF Moves!RollBack, Moves!UpdateStatus, Moves!Lose
  <2> QED BY <2>2, <2>3, MovesQuietStep, SteadyStutter
<1>3. CASE Moves!Verifying(m)
  <2>1. mig' \in [Migs -> MigType] /\ \A k \in Migs : Continues(k)
    BY <1>0, <1>3, GoroutineQuiet DEF Moves!Verifying, Moves!Goroutine, Working, MigPCs
  <2> QED BY <1>3, <2>1, MovesQuietStep, SteadyStutter DEF Moves!Verifying
<1>4. CASE Moves!Completed(m)
  <2>1. PICK s \in {"completed", mig[m].status} : Moves!Step(m, "complete", "done", s)
    BY <1>4 DEF Moves!Completed, Moves!UpdateStatus, Moves!Goroutine
  <2>2. mig' \in [Migs -> MigType] /\ \A k \in Migs : Continues(k)
    BY <1>0, <2>1, GoroutineQuiet DEF Working, MigPCs, MigStatuses
  <2>3. UNCHANGED <<instances, guests, nodeRow, evac>> /\ lost \subseteq lost'
    BY <1>4 DEF Moves!Completed, Moves!UpdateStatus, Moves!Lose
  <2> QED BY <2>2, <2>3, MovesQuietStep, SteadyStutter
<1>5. CASE Moves!MigrateCreate(m)
  <2> DEFINE new == [mig[m] EXCEPT !.status = "active", !.pc = "start"]
  <2>1. mig' = [mig EXCEPT ![m] = new] /\ mig[m].pc = "checked" /\ mig \in [Migs -> MigType]
    BY <1>0, <1>5 DEF Moves!MigrateCreate, MovesTyped
  <2>2. /\ new \in MigType /\ new.pc = "start" /\ new.inst = mig[m].inst
        /\ new.src = mig[m].src /\ new.dst = mig[m].dst
    BY <1>0 DEF MigType, MigPCs, Working, MigStatuses
  <2>3. /\ mig[m].inst \in Insts /\ mig[m].src \in Moves!Nodes /\ mig[m].dst \in Moves!Nodes
        /\ mig[m].src # mig[m].dst
    BY <1>0, <2>1 DEF MovesTyped, Working
  <2> HIDE DEF new
  <2>4. mig' \in [Migs -> MigType] /\ \A k \in Migs : Continues(k)
    BY <2>1, <2>2, <2>3 DEF Continues, Working
  <2> QED BY <1>5, <2>4, MovesQuietStep, SteadyStutter DEF Moves!MigrateCreate
<1> QED BY <1>1, <1>2, <1>3, <1>4, <1>5

\* A command that turns a guest that is there into another guest.
LEMMA CommandSteady ==
  ASSUME MigInv, NEW n \in Moves!Nodes, NEW i \in Insts, NEW g \in {"stopped", "running"}, Moves!Command(n, i, g)
  PROVE  Steady
<1>0. MovesTyped
  BY DEF MigInv
<1>1. CASE guests' = guests
  BY <1>1, SteadyStutter DEF Moves!Command
<1>2. CASE guests' = [guests EXCEPT ![n][i] = g]
  <2>1. guests' \in [Moves!Nodes -> [Insts -> GuestStates]]
    BY <1>0, <1>2 DEF MovesTyped, GuestStates
  <2>2. \A o \in Moves!Nodes, j \in Insts : guests[o][j] # "absent" => guests'[o][j] # "absent"
    BY <1>0, <1>2 DEF MovesTyped
  <2> QED BY <1>0, <2>1, <2>2 DEF Moves!Command, Steady, MovesTyped, Moves!Astray
<1> QED BY <1>1, <1>2 DEF Moves!Command

LEMMA CommandStep ==
  ASSUME MigInv, NEW m \in Migs, Moves!StopSource(m) \/ Moves!RestartSource(m)
  PROVE  MigInv'
<1>0. mig[m] \in MigType /\ MovesTyped
  BY DEF MigInv, MovesTyped
<1>1. mig[m].status \in MigStatuses
  BY <1>0 DEF MigType
<1>2. mig[m].inst \in Insts /\ mig[m].src \in Moves!Nodes
  BY <1>0 DEF Moves!StopSource, Moves!RestartSource, Moves!Goroutine, Moves!Step, MovesTyped, Working
<1>3. Steady
  BY <1>2, CommandSteady DEF Moves!StopSource, Moves!RestartSource
<1>4. mig' \in [Migs -> MigType] /\ \A k \in Migs : Continues(k)
  <2>1. CASE Moves!StopSource(m)
    BY <2>1, <1>1, GoroutineQuiet DEF Moves!StopSource, Moves!Goroutine, Working, MigPCs
  <2>2. CASE Moves!RestartSource(m)
    BY <2>2, <1>1, GoroutineQuiet DEF Moves!RestartSource, Moves!Goroutine, Working, MigPCs
  <2> QED BY <2>1, <2>2
<1> QED BY <1>3, <1>4, MovesQuietStep

LEMMA CreateStep ==
  ASSUME MigInv, NEW m \in Migs, Moves!CreateDest(m)
  PROVE  MigInv'
<1>0. mig[m] \in MigType /\ MovesTyped
  BY DEF MigInv, MovesTyped
<1>1. mig[m].status \in MigStatuses
  BY <1>0 DEF MigType
<1>2. mig[m].inst \in Insts /\ mig[m].dst \in Moves!Nodes
  BY <1>0 DEF Moves!CreateDest, MovesTyped, Working
<1>3. \/ guests' = guests /\ Moves!Goroutine(m, "create", "rollback")
      \/ \E g \in {"stopped", "running"} :
           /\ guests' = [guests EXCEPT ![mig[m].dst][mig[m].inst] = g]
           /\ Moves!Goroutine(m, "create", "verify") \/ Moves!Goroutine(m, "create", "rollback")
  BY DEF Moves!CreateDest
<1>4. CASE guests' = guests /\ Moves!Goroutine(m, "create", "rollback")
  <2>1. Steady
    BY <1>4, SteadyStutter DEF Moves!CreateDest
  <2>2. mig' \in [Migs -> MigType] /\ \A k \in Migs : Continues(k)
    BY <1>1, <1>4, GoroutineQuiet DEF Moves!Goroutine, Working, MigPCs
  <2> QED BY <2>1, <2>2, MovesQuietStep
<1>5. CASE \E g \in {"stopped", "running"} :
             /\ guests' = [guests EXCEPT ![mig[m].dst][mig[m].inst] = g]
             /\ Moves!Goroutine(m, "create", "verify") \/ Moves!Goroutine(m, "create", "rollback")
  <2>1. PICK g \in {"stopped", "running"} :
             /\ guests' = [guests EXCEPT ![mig[m].dst][mig[m].inst] = g]
             /\ Moves!Goroutine(m, "create", "verify") \/ Moves!Goroutine(m, "create", "rollback")
    BY <1>5
  <2>2. guests' \in [Moves!Nodes -> [Insts -> GuestStates]]
    BY <1>0, <2>1 DEF MovesTyped, GuestStates
  <2>3. \A n \in Moves!Nodes, i \in Insts : guests[n][i] # "absent" => guests'[n][i] # "absent"
    BY <1>0, <2>1 DEF MovesTyped
  <2>4. Steady
    BY <1>0, <2>2, <2>3 DEF Steady, MovesTyped, Moves!CreateDest, Moves!Astray
  <2>5. guests'[mig[m].dst][mig[m].inst] # "absent"
    BY <1>0, <1>2, <2>1 DEF MovesTyped
  <2>6. mig' \in [Migs -> MigType] /\ \A k \in Migs : Continues(k)
    <3>1. CASE Moves!Goroutine(m, "create", "verify")
      BY <1>1, <2>5, <3>1, GoroutineQuiet DEF Moves!Goroutine, Working, MigPCs
    <3>2. CASE Moves!Goroutine(m, "create", "rollback")
      BY <1>1, <3>2, GoroutineQuiet DEF Moves!Goroutine, Working, MigPCs
    <3> QED BY <2>1, <3>1, <3>2
  <2> QED BY <2>4, <2>6, MovesQuietStep
<1> QED BY <1>3, <1>4, <1>5

LEMMA RestateStep ==
  ASSUME MigInv, NEW m \in Migs, Moves!RestateRow(m)
  PROVE  MigInv'
<1>0. mig[m] \in MigType /\ MovesTyped
  BY DEF MigInv, MovesTyped
<1>1. mig' \in [Migs -> MigType] /\ \A k \in Migs : Continues(k)
  <2>1. mig[m].status \in MigStatuses
    BY <1>0 DEF MigType
  <2> QED BY <2>1, GoroutineQuiet DEF Moves!RestateRow, Moves!Goroutine, Working, MigPCs
<1>2. CASE instances' = instances
  BY <1>1, <1>2, SteadyStutter, MovesQuietStep DEF Moves!RestateRow
<1>3. CASE instances' = [instances EXCEPT ![mig[m].inst].status = "running"]
  <2>1. /\ instances' \in [Insts -> [node : Moves!Nodes, status : {"running"}]]
        /\ \A i \in Insts : instances'[i].node = instances[i].node
    BY <1>0, <1>3 DEF MovesTyped
  <2>2. Steady
    BY <1>0, <2>1 DEF Steady, MovesTyped, Moves!RestateRow, Moves!Astray
  <2> QED BY <1>1, <2>2, MovesQuietStep
<1> QED BY <1>2, <1>3 DEF Moves!RestateRow

-----------------------------------------------------------------------------
\* The row moves to the guest the migration made; by NoChain no other migration
\* is about to delete that guest as its source.
LEMMA MoveStep ==
  ASSUME MigInv, Moves!NoChain, NEW m \in Migs, Moves!MoveRow(m)
  PROVE  MigInv'
<1>0. mig[m] \in MigType /\ MovesTyped
  BY DEF MigInv, MovesTyped
<1>1. PICK to \in {"restate", "cleanup"} : Moves!Step(m, "move", to, mig[m].status)
  BY DEF Moves!MoveRow, Moves!Goroutine
<1>2. /\ mig[m].pc = "move"
      /\ mig' \in [Migs -> MigType]
      /\ \A k \in Migs \ {m} : mig'[k] = mig[k]
      /\ mig'[m].pc = to
      /\ mig'[m].inst = mig[m].inst /\ mig'[m].src = mig[m].src /\ mig'[m].dst = mig[m].dst
  <2>1. mig[m].status \in MigStatuses
    BY <1>0 DEF MigType
  <2>2. "move" \in Working /\ to \in MigPCs \ {"unused"} /\ to # "done"
    BY DEF Working, MigPCs
  <2> QED BY <1>0, <1>1, <2>1, <2>2, StepOfGoroutine
<1> DEFINE i == mig[m].inst
           d == mig[m].dst
<1>3. i \in Insts /\ mig[m].src \in Moves!Nodes /\ d \in Moves!Nodes /\ mig[m].src # d
  BY <1>0, <1>2 DEF MovesTyped, Working
<1>4. guests[d][i] # "absent"
  BY <1>2 DEF MigInv, Copied
<1>5. \A k \in Migs : mig[k].pc \in {"restate", "cleanup"} /\ mig[k].inst = i => mig[k].src # d
  <2>1. m \in Moves!InFlight(i)
    BY <1>2 DEF Moves!InFlight
  <2>2. \A k \in Migs : mig[k].pc \in {"restate", "cleanup"} /\ mig[k].inst = i => k \in Moves!InFlight(i)
    BY DEF Moves!InFlight
  <2> QED BY <1>3, <2>1, <2>2 DEF Moves!NoChain
<1>6. /\ UNCHANGED <<guests, nodeRow, evac>>
      /\ \/ instances' = [instances EXCEPT ![i].node = d] /\ UNCHANGED lost
         \/ instances' = instances /\ lost' = lost \cup {<<"move", i>>}
  BY DEF Moves!MoveRow, Moves!Lose
<1> HIDE DEF i, d
<1>7. /\ instances' \in [Insts -> [node : Moves!Nodes, status : {"running"}]]
      /\ Moves!Astray \subseteq Moves!Astray'
      /\ \/ instances'[i].node = d
         \/ instances' = instances /\ i \in Moves!Astray'
      /\ \A j \in Insts \ {i} : instances'[j].node = instances[j].node
  <2>1. CASE instances' = [instances EXCEPT ![i].node = d] /\ UNCHANGED lost
    <3>1. Moves!Astray' = Moves!Astray
      BY <2>1 DEF Moves!Astray
    <3> QED BY <1>0, <1>3, <2>1, <3>1 DEF MovesTyped
  <2>2. CASE instances' = instances /\ lost' = lost \cup {<<"move", i>>}
    <3>1. Moves!Astray \subseteq Moves!Astray' /\ i \in Moves!Astray'
      BY <1>3, <2>2 DEF Moves!Astray
    <3> QED BY <1>0, <2>2, <3>1 DEF MovesTyped
  <2> QED BY <1>6, <2>1, <2>2
<1>8. MovesTyped'
  <2>1. \A k \in Migs : mig'[k].pc \in Working =>
          /\ mig'[k].inst \in Insts /\ mig'[k].src \in Moves!Nodes /\ mig'[k].dst \in Moves!Nodes
          /\ mig'[k].src # mig'[k].dst
    BY <1>0, <1>2, <1>3 DEF MovesTyped, i, d
  <2> QED BY <1>0, <1>2, <1>6, <1>7, <2>1 DEF MovesTyped
<1>9. Moves!RowBacked'
  BY <1>4, <1>6, <1>7 DEF MigInv, Moves!RowBacked
<1>10. Copied'
  BY <1>2, <1>6 DEF MigInv, Copied
<1>11. Moved'
  <2> SUFFICES ASSUME NEW k \in Migs, mig'[k].pc \in {"restate", "cleanup"}
               PROVE  mig'[k].inst \in Moves!Astray' \/ instances'[mig'[k].inst].node # mig'[k].src
    BY DEF Moved
  <2>1. CASE k = m
    BY <1>2, <1>3, <1>7, <2>1 DEF i, d
  <2>2. CASE k # m
    <3>1. /\ mig'[k] = mig[k] /\ mig[k].inst \in Insts /\ mig[k].pc \in {"restate", "cleanup"}
          /\ mig[k].inst \in Moves!Astray \/ instances[mig[k].inst].node # mig[k].src
      BY <1>0, <1>2, <2>2 DEF MigInv, Moved, MovesTyped, Working
    <3> QED BY <1>5, <1>7, <3>1
  <2> QED BY <2>1, <2>2
<1> QED BY <1>8, <1>9, <1>10, <1>11 DEF MigInv

\* The old guest goes; the row points elsewhere and, by NoChain, no other
\* migration took that guest for the one it made.
LEMMA DeletionStep ==
  ASSUME MigInv, Moves!NoChain, NEW m \in Migs, mig[m].pc = "cleanup",
         mig' \in [Migs -> MigType],
         \A k \in Migs \ {m} : mig'[k] = mig[k],
         \/ mig'[m].pc \notin Working
         \/ /\ mig'[m].pc = "complete" /\ mig'[m].inst = mig[m].inst
            /\ mig'[m].src = mig[m].src /\ mig'[m].dst = mig[m].dst,
         guests' = [guests EXCEPT ![mig[m].src][mig[m].inst] = "absent"],
         UNCHANGED <<instances, nodeRow, evac, lost>>
  PROVE  MigInv'
<1>0. MovesTyped
  BY DEF MigInv
<1> DEFINE i == mig[m].inst
           n == mig[m].src
<1>1. i \in Insts /\ n \in Moves!Nodes /\ mig[m].dst \in Moves!Nodes /\ n # mig[m].dst
  BY <1>0 DEF MovesTyped, Working
<1>2. i \in Moves!Astray \/ instances[i].node # n
  BY DEF MigInv, Moved
<1>a. Moves!Astray' = Moves!Astray
  BY DEF Moves!Astray
<1>3. \A k \in Migs : mig[k].pc \in {"verify", "move"} /\ mig[k].inst = i => mig[k].dst # n
  <2>1. m \in Moves!InFlight(i)
    BY DEF Moves!InFlight
  <2>2. \A k \in Migs : mig[k].pc \in {"verify", "move"} /\ mig[k].inst = i => k \in Moves!InFlight(i)
    BY DEF Moves!InFlight
  <2> QED BY <1>1, <2>1, <2>2 DEF Moves!NoChain
<1>4. guests' = [guests EXCEPT ![n][i] = "absent"]
  OBVIOUS
<1> HIDE DEF i, n
<1>5. /\ guests' \in [Moves!Nodes -> [Insts -> GuestStates]]
      /\ \A o \in Moves!Nodes, j \in Insts : o # n \/ j # i => guests'[o][j] = guests[o][j]
  <2>1. guests' \in [Moves!Nodes -> [Insts -> GuestStates]]
    <3>1. guests \in [Moves!Nodes -> [Insts -> GuestStates]] /\ "absent" \in GuestStates
      BY <1>0 DEF MovesTyped, GuestStates
    <3>2. [guests[n] EXCEPT ![i] = "absent"] \in [Insts -> GuestStates]
      BY <1>1, <3>1
    <3>3. guests' = [guests EXCEPT ![n] = [guests[n] EXCEPT ![i] = "absent"]]
      BY <1>4
    <3> QED BY <3>1, <3>2, <3>3
  <2>2. \A o \in Moves!Nodes, j \in Insts : o # n \/ j # i => guests'[o][j] = guests[o][j]
    BY <1>0, <1>4 DEF MovesTyped
  <2> QED BY <2>1, <2>2
<1>6. MovesTyped'
  <2>1. \A k \in Migs : mig'[k].pc \in Working =>
          /\ mig'[k].inst \in Insts /\ mig'[k].src \in Moves!Nodes /\ mig'[k].dst \in Moves!Nodes
          /\ mig'[k].src # mig'[k].dst
    BY <1>0, <1>1 DEF MovesTyped, i, n
  <2> QED BY <1>0, <1>5, <2>1 DEF MovesTyped
<1>7. Moves!RowBacked'
  <2> SUFFICES ASSUME NEW j \in Insts \ Moves!Astray PROVE guests'[instances[j].node][j] # "absent"
    BY <1>a DEF Moves!RowBacked
  <2>1. instances[j].node \in Moves!Nodes
    BY <1>0 DEF MovesTyped
  <2> QED BY <1>2, <1>5, <2>1 DEF MigInv, Moves!RowBacked
<1>8. Copied'
  <2> SUFFICES ASSUME NEW k \in Migs, mig'[k].pc \in {"verify", "move"}
               PROVE  guests'[mig'[k].dst][mig'[k].inst] # "absent"
    BY DEF Copied
  <2>1. k # m /\ mig'[k] = mig[k]
    BY DEF Working
  <2>2. mig[k].inst \in Insts /\ mig[k].dst \in Moves!Nodes /\ guests[mig[k].dst][mig[k].inst] # "absent"
    BY <1>0, <2>1 DEF MovesTyped, Working, MigInv, Copied
  <2> QED BY <1>3, <1>5, <2>1, <2>2
<1>9. Moved'
  <2> SUFFICES ASSUME NEW k \in Migs, mig'[k].pc \in {"restate", "cleanup"}
               PROVE  mig'[k].inst \in Moves!Astray \/ instances[mig'[k].inst].node # mig'[k].src
    BY <1>a DEF Moved
  <2>1. k # m /\ mig'[k] = mig[k]
    BY DEF Working
  <2> QED BY <2>1 DEF MigInv, Moved
<1> QED BY <1>6, <1>7, <1>8, <1>9 DEF MigInv

LEMMA DeleteSourceStep ==
  ASSUME MigInv, Moves!NoChain, NEW m \in Migs, Moves!DeleteSource(m)
  PROVE  MigInv'
<1>0. mig[m] \in MigType /\ MovesTyped
  BY DEF MigInv, MovesTyped
<1>1. mig[m].status \in MigStatuses
  BY <1>0 DEF MigType
<1>2. CASE guests' = guests
  <2>1. Steady
    BY <1>2, SteadyStutter DEF Moves!DeleteSource, Moves!Command
  <2>2. mig' \in [Migs -> MigType] /\ \A k \in Migs : Continues(k)
    BY <1>1, GoroutineQuiet DEF Moves!DeleteSource, Moves!Goroutine, Working, MigPCs
  <2> QED BY <2>1, <2>2, MovesQuietStep
<1>3. CASE guests' = [guests EXCEPT ![mig[m].src][mig[m].inst] = "absent"]
  <2>1. Moves!Step(m, "cleanup", "complete", mig[m].status)
    BY DEF Moves!DeleteSource, Moves!Goroutine
  <2>2. /\ mig[m].pc = "cleanup" /\ mig' \in [Migs -> MigType]
        /\ \A k \in Migs \ {m} : mig'[k] = mig[k]
        /\ mig'[m].pc = "complete" /\ mig'[m].inst = mig[m].inst
        /\ mig'[m].src = mig[m].src /\ mig'[m].dst = mig[m].dst
    <3>1. "cleanup" \in Working /\ "complete" \in MigPCs \ {"unused"} /\ "complete" # "done"
      BY DEF Working, MigPCs
    <3> QED BY <1>0, <1>1, <2>1, <3>1, StepOfGoroutine
  <2> QED BY <1>3, <2>2, DeletionStep DEF Moves!DeleteSource, Moves!Command
<1> QED BY <1>2, <1>3 DEF Moves!DeleteSource, Moves!Command

LEMMA AnswerLostStep ==
  ASSUME MigInv, Moves!NoChain, NEW m \in Migs, Moves!AnswerLost(m)
  PROVE  MigInv'
<1>0. mig[m] \in MigType /\ MovesTyped
  BY DEF MigInv, MovesTyped
<1> DEFINE new == [Moves!Over(m, mig[m].status) EXCEPT !.pc = "waiting"]
           i == mig[m].inst
           at == IF mig[m].pc = "create" THEN mig[m].dst ELSE mig[m].src
<1>1. new \in MigType /\ new.pc = "waiting"
  BY <1>0 DEF Moves!Over, Moves!NoMig, MigType, MigPCs, Working
<1>2. mig' = [mig EXCEPT ![m] = new] /\ UNCHANGED <<instances, nodeRow, evac, lost>>
  BY DEF Moves!AnswerLost
<1>3. i \in Insts /\ at \in Moves!Nodes
  BY <1>0 DEF Moves!AnswerLost, MovesTyped, Working
<1>4. \/ guests' = guests
      \/ \E g \in Moves!Outcome(m) : guests' = [guests EXCEPT ![at][i] = g]
  BY DEF Moves!AnswerLost
<1> HIDE DEF new
<1>5. /\ mig' \in [Migs -> MigType] /\ mig'[m].pc \notin Working
      /\ \A k \in Migs \ {m} : mig'[k] = mig[k]
  BY <1>0, <1>1, <1>2 DEF MovesTyped, Working
<1>6. \A k \in Migs : Continues(k)
  BY <1>5 DEF Continues
<1>7. CASE guests' = guests
  BY <1>2, <1>5, <1>6, <1>7, SteadyStutter, MovesQuietStep
<1>8. CASE mig[m].pc = "cleanup" /\ guests' # guests
  <2>1. Moves!Outcome(m) = {"absent"}
    BY <1>8 DEF Moves!Outcome
  <2>2. guests' = [guests EXCEPT ![mig[m].src][mig[m].inst] = "absent"]
    BY <1>4, <1>8, <2>1
  <2> QED BY <1>2, <1>5, <1>8, <2>2, DeletionStep
<1>9. CASE mig[m].pc # "cleanup" /\ guests' # guests
  <2>1. Moves!Outcome(m) \subseteq {"stopped", "running"}
    BY <1>9 DEF Moves!Outcome
  <2>2. PICK g \in {"stopped", "running"} : guests' = [guests EXCEPT ![at][i] = g]
    BY <1>4, <1>9, <2>1
  <2> HIDE DEF at, i
  <2>3. guests' \in [Moves!Nodes -> [Insts -> GuestStates]]
    BY <1>0, <2>2 DEF MovesTyped, GuestStates
  <2>4. \A n \in Moves!Nodes, j \in Insts : guests[n][j] # "absent" => guests'[n][j] # "absent"
    BY <1>0, <2>2 DEF MovesTyped
  <2>5. Steady
    BY <1>0, <1>2, <2>3, <2>4 DEF Steady, MovesTyped, Moves!Astray
  <2> QED BY <1>5, <1>6, <2>5, MovesQuietStep
<1> QED BY <1>7, <1>8, <1>9

LEMMA RequestStep ==
  ASSUME MigInv, Deployment, NEW m \in Migs, NEW i \in Insts,
         \/ \E dst \in Asked, type \in {"live", "cold"} : Moves!RequestMigration(m, i, dst, type)
         \/ Moves!EvacuateNext(m, i)
  PROVE  MigInv'
<1>0. MovesTyped
  BY DEF MigInv
<1>1. CASE \E dst \in Asked, type \in {"live", "cold"} : Moves!RequestMigration(m, i, dst, type)
  <2>1. PICK dst \in Asked, type \in {"live", "cold"} : Moves!RequestMigration(m, i, dst, type)
    BY <1>1
  <2>2. mig' \in [Migs -> MigType] /\ \A k \in Migs : Continues(k)
    BY <2>1, CheckQuiet DEF Moves!RequestMigration
  <2>3. Steady
    BY <2>1, SteadyStutter DEF Moves!RequestMigration, Moves!MigrateCheck
  <2> QED BY <2>2, <2>3, MovesQuietStep
<1>2. CASE Moves!EvacuateNext(m, i)
  <2>1. evac.dst \in Asked \cup {""}
    BY <1>0 DEF MovesTyped, EvacType
  <2>2. mig' \in [Migs -> MigType] /\ \A k \in Migs : Continues(k)
    BY <1>2, <2>1, CheckQuiet DEF Moves!EvacuateNext
  <2>3. evac' \in EvacType
    BY <1>0, <1>2 DEF Moves!EvacuateNext, MovesTyped, EvacType
  <2>4. Steady
    BY <1>0, <1>2, <2>3 DEF Steady, MovesTyped, Moves!EvacuateNext, Moves!MigrateCheck, Moves!Astray
  <2> QED BY <2>2, <2>4, MovesQuietStep
<1> QED BY <1>1, <1>2

\* What the evacuation does besides its calls of Migrate, and draining.
EvacuateStep ==
  \/ \E n \in Drained, dst \in Asked : Moves!EvacuateNode(n, dst)
  \/ Moves!EvacuateList \/ Moves!EvacuateReturn \/ Moves!EvacuateDone

LEMMA DrainStep ==
  ASSUME MigInv, \/ EvacuateStep
                 \/ \E n \in Drained, on \in BOOLEAN : Moves!DrainNode(n, on)
  PROVE  MigInv'
<1>0. MovesTyped
  BY DEF MigInv
<1>1. UNCHANGED <<instances, guests, mig, lost>>
  BY DEF EvacuateStep, Moves!EvacuateNode, Moves!EvacuateList, Moves!EvacuateReturn, Moves!EvacuateDone, Moves!DrainNode
<1>2. nodeRow' \in [Moves!Nodes -> [status : {"online"}, drain : BOOLEAN]]
  <2>1. nodeRow' = nodeRow \/ \E n \in Drained, on \in BOOLEAN : nodeRow' = [nodeRow EXCEPT ![n].drain = on]
    BY DEF EvacuateStep, Moves!EvacuateNode, Moves!EvacuateList, Moves!EvacuateReturn, Moves!EvacuateDone, Moves!DrainNode
  <2>2. CASE nodeRow' = nodeRow
    BY <1>0, <2>2 DEF MovesTyped
  <2>3. ASSUME NEW n \in Drained, NEW on \in BOOLEAN, nodeRow' = [nodeRow EXCEPT ![n].drain = on]
        PROVE  nodeRow' \in [Moves!Nodes -> [status : {"online"}, drain : BOOLEAN]]
    BY <1>0, <2>3 DEF MovesTyped
  <2> QED BY <2>1, <2>2, <2>3
<1>3. evac' \in EvacType
  <2>0. evac \in EvacType
    BY <1>0 DEF MovesTyped
  <2>1. ASSUME NEW n \in Drained, NEW dst \in Asked, Moves!EvacuateNode(n, dst) PROVE evac' \in EvacType
    BY <2>1 DEF Moves!EvacuateNode, EvacType
  <2>2. CASE Moves!EvacuateList
    <3>1. {i \in Insts : instances[i].node = evac.node} \in SUBSET Insts
      OBVIOUS
    <3> QED BY <2>0, <2>2, <3>1 DEF Moves!EvacuateList, EvacType
  <2>3. CASE Moves!EvacuateReturn
    BY <2>0, <2>3 DEF Moves!EvacuateReturn, EvacType
  <2>4. CASE Moves!EvacuateDone
    BY <2>4 DEF Moves!EvacuateDone, Moves!NoEvac, EvacType
  <2>5. CASE \E n \in Drained, on \in BOOLEAN : Moves!DrainNode(n, on)
    BY <2>0, <2>5 DEF Moves!DrainNode
  <2> QED BY <2>1, <2>2, <2>3, <2>4, <2>5 DEF EvacuateStep
<1>4. Steady
  BY <1>0, <1>1, <1>2, <1>3 DEF Steady, MovesTyped, Moves!Astray
<1>5. mig' \in [Migs -> MigType] /\ \A k \in Migs : Continues(k)
  BY <1>0, <1>1 DEF MovesTyped, Continues
<1> QED BY <1>4, <1>5, MovesQuietStep

LEMMA CrashStep == ASSUME MigInv, Moves!Crash PROVE MigInv'
<1>0. MovesTyped
  BY DEF MigInv
<1>1. \A m \in Migs : Moves!Over(m, mig[m].status) \in MigType /\ Moves!Over(m, mig[m].status).pc = "done"
  BY <1>0 DEF Moves!Over, Moves!NoMig, MovesTyped, MigType, MigPCs, Working
<1>2. Moves!NoMig \in MigType /\ Moves!NoMig.pc = "unused"
  BY DEF Moves!NoMig, MigType, MigPCs, MigStatuses
<1>3. mig' \in [Migs -> MigType] /\ \A k \in Migs : Continues(k)
  BY <1>1, <1>2 DEF Moves!Crash, Continues, Working
<1>4. evac' \in EvacType
  BY DEF Moves!Crash, Moves!NoEvac, EvacType
<1>5. Steady
  BY <1>0, <1>4 DEF Moves!Crash, Steady, MovesTyped, Moves!Astray
<1> QED BY <1>3, <1>5, MovesQuietStep

LEMMA MigStep ==
  ASSUME Deployment, MigInv, Moves!NoChain, [Moves!Next]_(Moves!migVars)
  PROVE  MigInv'
<1>1. CASE \E m \in Migs : Moves!executeMigration(m) \/ Moves!MigrateCreate(m) \/ Moves!AnswerLost(m)
  BY <1>1, StatusWriteStep, CommandStep, CreateStep, RestateStep, MoveStep, DeleteSourceStep,
     AnswerLostStep DEF Moves!executeMigration
<1>2. CASE \E m \in Migs, i \in Insts :
             \/ \E dst \in Asked, type \in {"live", "cold"} : Moves!RequestMigration(m, i, dst, type)
             \/ Moves!EvacuateNext(m, i)
  BY <1>2, RequestStep
<1>3. CASE EvacuateStep \/ \E n \in Drained, on \in BOOLEAN : Moves!DrainNode(n, on)
  BY <1>3, DrainStep
<1>4. CASE Moves!Crash
  BY <1>4, CrashStep
<1>5. CASE UNCHANGED Moves!migVars
  BY <1>5 DEF Moves!migVars, MigInv, MovesTyped, Moves!RowBacked, Moves!Astray, Copied, Moved
<1> QED BY <1>1, <1>2, <1>3, <1>4, <1>5 DEF Moves!Next, EvacuateStep

\* No migration, rollback, lost answer or crash between two of the goroutine's
\* steps, and no second or third migration of the same instance beside it,
\* leaves a row without its guest, as long as no two migrations in flight lead
\* back to a node one of them leaves; an instance whose UpdateNodeID failed is the
\* only exception, whatever became of the others.  The check in Migrate does not ensure the
\* condition (check and insert are two steps), and without it the property fails.
THEOREM MovesCorrect ==
  ASSUME Deployment
  PROVE  Moves!Spec => Moves!MovesKeepGuests
<1>1. Moves!Init => MigInv
  BY InitInv
<1>2. MigInv /\ Moves!NoChain /\ [Moves!Next]_(Moves!migVars) => MigInv'
  BY MigStep
<1>3. MigInv => Moves!RowBacked
  BY DEF MigInv
<1> QED BY <1>1, <1>2, <1>3, PTL DEF Moves!Spec, Moves!MovesKeepGuests

-----------------------------------------------------------------------------
(***************************************************************************)
(* The schema stays sound for any number of servers, releases, broken      *)
(* files, deaths and lost locks, as long as of two releases one extends    *)
(* the other.                                                              *)
(*                                                                         *)
(* The invariant says nothing of the advisory lock. That MAX(version)      *)
(* stands for every file up to it (Closed) is kept by the order of the     *)
(* files and by the unique key of schema_migrations alone: a migrator that *)
(* lost its lock applies the next file before the others do, or fails.     *)
(***************************************************************************)
AllFiles == UNION {FilesOf[m] : m \in Migrators}

\* Versions are positive numbers, and a directory that has a file has every file
\* of any release that is numbered below it.
Releases ==
  /\ FilesOf \in [Migrators -> SUBSET (Nat \ {0})]
  /\ \A m \in Migrators : \A v \in FilesOf[m], w \in AllFiles : w < v => w \in FilesOf[m]

UpType == [pc : {"start", "version", "apply", "done", "failed", "dead"},
           current : Nat, next : Nat, applied : Nat]

SchemaTyped ==
  /\ upgrade \in [Migrators -> UpType]
  /\ schema \in Seq(Nat)
  /\ recorded \subseteq AllFiles

\* schema_migrations lists what took effect, in ascending order.
Ledger ==
  /\ recorded = {schema[i] : i \in DOMAIN schema}
  /\ \A i, j \in DOMAIN schema : i < j => schema[i] < schema[j]

\* Every file below a recorded one is recorded.
Closed == \A w \in recorded, v \in AllFiles : v < w => v \in recorded

\* What a migrator takes for done is recorded.
Known == \A m \in Migrators : upgrade[m].current \in recorded \cup {0} /\ upgrade[m].next \in recorded \cup {0}

Complete == \A m \in Migrators : upgrade[m].pc = "done" => FilesOf[m] \subseteq recorded

SchemaInv == SchemaTyped /\ Ledger /\ Closed /\ Known /\ Complete

-----------------------------------------------------------------------------
LEMMA NaturalMin ==
  ASSUME NEW S \in SUBSET Nat, S # {}
  PROVE  Schema!Min(S) \in S /\ \A y \in S : Schema!Min(S) <= y
BY LeastOf DEF Schema!Min

\* MAX(version) of a table in ascending order is its last row, or none.
LEMMA LatestVersion ==
  ASSUME SchemaTyped, Ledger
  PROVE  Schema!Max(recorded \cup {0}) \in recorded \cup {0}
<1> DEFINE n == Len(schema)
           x == IF n = 0 THEN 0 ELSE schema[n]
<1>1. n \in Nat /\ DOMAIN schema = 1 .. n /\ \A i \in 1 .. n : schema[i] \in Nat
  BY DEF SchemaTyped
<1>2. x \in recorded \cup {0}
  BY <1>1 DEF Ledger
<1>3. \A y \in recorded \cup {0} : x >= y
  <2> SUFFICES ASSUME NEW y \in recorded \cup {0} PROVE x >= y
    OBVIOUS
  <2>1. CASE y = 0
    BY <1>1, <2>1
  <2>2. CASE y # 0
    <3>1. PICK i \in 1 .. n : y = schema[i]
      BY <1>1, <2>2 DEF Ledger
    <3>2. i = n \/ i < n
      <4> HIDE DEF n
      <4> QED BY <1>1
    <3>3. n \in DOMAIN schema /\ n # 0
      <4> HIDE DEF n
      <4> QED BY <1>1, <3>1
    <3>4. schema[i] \in Nat /\ schema[n] \in Nat
      BY <1>1, <3>1, <3>3
    <3>5. i < n => schema[i] < schema[n]
      BY <1>1, <3>1, <3>3 DEF Ledger
    <3> QED BY <3>1, <3>2, <3>3, <3>4, <3>5
  <2> QED BY <2>1, <2>2
<1>4. \E z \in recorded \cup {0} : \A y \in recorded \cup {0} : z >= y
  BY <1>2, <1>3
<1> QED BY <1>4 DEF Schema!Max

LEMMA FilesAreNumbers ==
  ASSUME Releases, NEW m \in Migrators
  PROVE  /\ FilesOf[m] \subseteq AllFiles /\ FilesOf[m] \subseteq Nat \ {0}
         /\ AllFiles \subseteq Nat \ {0}
BY DEF Releases, AllFiles

\* What a migrator skips, it finds recorded.
LEMMA SkippedIsRecorded ==
  ASSUME Releases, SchemaInv, NEW m \in Migrators, NEW v \in FilesOf[m], v \notin Schema!Pending(m)
  PROVE  v \in recorded
<1>1. v \in AllFiles /\ v \in Nat \ {0}
  BY FilesAreNumbers
<1>2. upgrade[m].current \in Nat /\ upgrade[m].next \in Nat
  BY DEF SchemaInv, SchemaTyped, UpType
<1>3. PICK c \in {upgrade[m].current, upgrade[m].next} : v <= c
  BY <1>1, <1>2 DEF Schema!Pending
<1>4. c \in recorded /\ c \in Nat
  BY <1>1, <1>2, <1>3 DEF SchemaInv, Known
<1>5. v = c \/ v < c
  BY <1>1, <1>3, <1>4
<1> QED BY <1>1, <1>4, <1>5 DEF SchemaInv, Closed

\* A step of Up that writes no row.
LEMMA SchemaQuietStep ==
  ASSUME SchemaInv, UNCHANGED <<schema, recorded>>, upgrade' \in [Migrators -> UpType], Known', Complete'
  PROVE  SchemaInv'
BY DEF SchemaInv, SchemaTyped, Ledger, Closed

LEMMA EndStep ==
  ASSUME SchemaInv, NEW m \in Migrators, NEW outcome \in {"failed", "dead", "done"},
         Schema!End(m, outcome), UNCHANGED <<schema, recorded>>,
         outcome = "done" => FilesOf[m] \subseteq recorded
  PROVE  SchemaInv'
<1> DEFINE new == [upgrade[m] EXCEPT !.pc = outcome]
<1>1. upgrade' = [upgrade EXCEPT ![m] = new] /\ upgrade \in [Migrators -> UpType]
  BY DEF Schema!End, SchemaInv, SchemaTyped
<1>2. /\ new \in UpType /\ new.pc = outcome
      /\ new.current = upgrade[m].current /\ new.next = upgrade[m].next
  BY <1>1 DEF UpType
<1> HIDE DEF new
<1>3. upgrade' \in [Migrators -> UpType]
  BY <1>1, <1>2
<1>4. Known'
  BY <1>1, <1>2 DEF SchemaInv, Known
<1>5. Complete'
  BY <1>1, <1>2 DEF SchemaInv, Complete
<1> QED BY <1>3, <1>4, <1>5, SchemaQuietStep

\* One file more: the lowest this migrator has not seen done.  Whatever lies
\* below it is recorded, and nothing above it is.
LEMMA ApplyStep ==
  ASSUME Releases, SchemaInv, NEW m \in Migrators, Schema!Pending(m) # {},
         Schema!NextFile(m) \notin recorded,
         schema' = Append(schema, Schema!NextFile(m)), recorded' = recorded \cup {Schema!NextFile(m)},
         upgrade' = [upgrade EXCEPT ![m].next = Schema!NextFile(m), ![m].applied = @ + 1]
  PROVE  SchemaInv'
<1> DEFINE v == Schema!NextFile(m)
<1>1. v \in Schema!Pending(m) /\ \A w \in Schema!Pending(m) : v <= w
  <2>1. Schema!Pending(m) \in SUBSET Nat
    BY FilesAreNumbers DEF Schema!Pending
  <2> QED BY <2>1, NaturalMin DEF Schema!NextFile
<1>2. v \in FilesOf[m] /\ v \in AllFiles /\ v \in Nat
  BY <1>1, FilesAreNumbers DEF Schema!Pending
<1> HIDE DEF v
<1>3. \A w \in AllFiles : w < v => w \in recorded
  <2> SUFFICES ASSUME NEW w \in AllFiles, w < v PROVE w \in recorded
    OBVIOUS
  <2>1. w \in FilesOf[m] /\ w \in Nat
    BY <1>2, FilesAreNumbers DEF Releases
  <2>2. w \notin Schema!Pending(m)
    BY <1>1, <1>2, <2>1
  <2> QED BY <2>1, <2>2, SkippedIsRecorded
<1>4. \A w \in recorded : w \in Nat /\ w < v
  <2> SUFFICES ASSUME NEW w \in recorded PROVE w \in Nat /\ w < v
    OBVIOUS
  <2>1. w \in Nat
    BY FilesAreNumbers DEF SchemaInv, SchemaTyped
  <2>2. w # v /\ ~ (v < w)
    BY <1>2 DEF v, SchemaInv, Closed
  <2> QED BY <1>2, <2>1, <2>2
<1>5. SchemaTyped'
  <2>1. schema' \in Seq(Nat)
    BY <1>2 DEF SchemaInv, SchemaTyped, v
  <2>2. recorded' \subseteq AllFiles
    BY <1>2 DEF SchemaInv, SchemaTyped, v
  <2>3. upgrade' \in [Migrators -> UpType]
    <3> DEFINE a == [upgrade[m] EXCEPT !.next = v]
               b == [a EXCEPT !.applied = @ + 1]
    <3>1. upgrade \in [Migrators -> UpType] /\ a \in UpType
      BY <1>2 DEF SchemaInv, SchemaTyped, UpType
    <3>2. upgrade' = [upgrade EXCEPT ![m] = b]
      BY DEF v
    <3> HIDE DEF a
    <3>3. b \in UpType
      BY <3>1 DEF UpType
    <3> HIDE DEF b
    <3> QED BY <3>1, <3>2, <3>3
  <2> QED BY <2>1, <2>2, <2>3 DEF SchemaTyped
<1>6. Ledger'
  <2>1. schema \in Seq(Nat) /\ schema' = Append(schema, v) /\ recorded' = recorded \cup {v}
    BY DEF SchemaInv, SchemaTyped, v
  <2> DEFINE n == Len(schema)
  <2>2. n \in Nat /\ DOMAIN schema = 1 .. n /\ DOMAIN schema' = 1 .. n + 1
    BY <1>2, <2>1
  <2>3. schema'[n + 1] = v /\ \A i \in 1 .. n : schema'[i] = schema[i]
    BY <1>2, <2>1
  <2>4. \A i \in 1 .. n : schema[i] \in recorded
    BY <2>2 DEF SchemaInv, Ledger
  <2> HIDE DEF n
  <2>5. recorded' = {schema'[i] : i \in DOMAIN schema'}
    <3>1. recorded = {schema[i] : i \in 1 .. n}
      BY <2>2 DEF SchemaInv, Ledger
    <3>2. \A i \in 1 .. n + 1 : i \in 1 .. n \/ i = n + 1
      BY <2>2
    <3>3. 1 .. n \subseteq 1 .. n + 1 /\ n + 1 \in 1 .. n + 1
      BY <2>2
    <3> QED BY <2>1, <2>2, <2>3, <3>1, <3>2, <3>3
  <2>6. ASSUME NEW i \in DOMAIN schema', NEW j \in DOMAIN schema', i < j
        PROVE  schema'[i] < schema'[j]
    <3>1. i \in 1 .. n /\ (j \in 1 .. n \/ j = n + 1)
      BY <2>2, <2>6
    <3>2. CASE j \in 1 .. n
      BY <2>2, <2>3, <2>6, <3>1, <3>2 DEF SchemaInv, Ledger
    <3>3. CASE j = n + 1
      BY <1>4, <2>3, <2>4, <3>1, <3>3
    <3> QED BY <3>1, <3>2, <3>3
  <2> QED BY <2>5, <2>6 DEF Ledger
<1>7. Closed'
  <2>1. recorded' = recorded \cup {v}
    BY DEF v
  <2> QED BY <1>3, <2>1 DEF SchemaInv, Closed
<1>8. Known'
  <2>1. /\ \A k \in Migrators : upgrade'[k].current = upgrade[k].current
        /\ \A k \in Migrators : upgrade'[k].next \in {upgrade[k].next, v}
    BY DEF SchemaInv, SchemaTyped, UpType, v
  <2>2. recorded' = recorded \cup {v}
    BY DEF v
  <2> QED BY <2>1, <2>2 DEF SchemaInv, Known
<1>9. Complete'
  <2>1. \A k \in Migrators : upgrade'[k].pc = upgrade[k].pc
    BY DEF SchemaInv, SchemaTyped, UpType
  <2> QED BY <2>1 DEF SchemaInv, Complete
<1> QED BY <1>5, <1>6, <1>7, <1>8, <1>9 DEF SchemaInv

LEMMA SchemaStep ==
  ASSUME Releases
  PROVE  SchemaInv /\ [Schema!Next]_(Schema!migrVars) => SchemaInv'
<1> SUFFICES ASSUME SchemaInv, [Schema!Next]_(Schema!migrVars) PROVE SchemaInv'
  OBVIOUS
<1>a. upgrade \in [Migrators -> UpType]
  BY DEF SchemaInv, SchemaTyped
<1>1. ASSUME NEW m \in Migrators, Schema!AcquireAdvisoryLock(m) PROVE SchemaInv'
  <2>1. upgrade' \in [Migrators -> UpType]
    BY <1>1, <1>a DEF Schema!AcquireAdvisoryLock, UpType
  <2>2. Known' /\ Complete'
    BY <1>1, <1>a DEF Schema!AcquireAdvisoryLock, UpType, SchemaInv, Known, Complete
  <2> QED BY <1>1, <2>1, <2>2, SchemaQuietStep DEF Schema!AcquireAdvisoryLock
<1>2. ASSUME NEW m \in Migrators, Schema!CurrentVersion(m) PROVE SchemaInv'
  <2> DEFINE x == Schema!Max(recorded \cup {0})
  <2>1. x \in recorded \cup {0}
    BY LatestVersion DEF SchemaInv
  <2>2. x \in Nat
    BY <2>1, FilesAreNumbers DEF SchemaInv, SchemaTyped
  <2>3. upgrade' = [upgrade EXCEPT ![m].pc = "apply", ![m].current = x] /\ UNCHANGED <<schema, recorded>>
    BY <1>2 DEF Schema!CurrentVersion
  <2> HIDE DEF x
  <2>4. upgrade' \in [Migrators -> UpType]
    BY <1>a, <2>2, <2>3 DEF UpType
  <2>5. Known' /\ Complete'
    BY <1>a, <2>1, <2>3 DEF UpType, SchemaInv, Known, Complete
  <2> QED BY <2>3, <2>4, <2>5, SchemaQuietStep
<1>3. ASSUME NEW m \in Migrators, Schema!ApplyMigration(m) PROVE SchemaInv'
  <2>1. CASE Schema!NextFile(m) \in Broken \/ Schema!NextFile(m) \in recorded
    BY <1>3, <2>1, EndStep DEF Schema!ApplyMigration
  <2>2. CASE ~(Schema!NextFile(m) \in Broken \/ Schema!NextFile(m) \in recorded)
    BY <1>3, <2>2, ApplyStep DEF Schema!ApplyMigration
  <2> QED BY <2>1, <2>2
<1>4. ASSUME NEW m \in Migrators, Schema!UpDone(m) PROVE SchemaInv'
  <2>1. FilesOf[m] \subseteq recorded
    BY <1>4, SkippedIsRecorded DEF Schema!UpDone
  <2> QED BY <1>4, <2>1, EndStep DEF Schema!UpDone
<1>5. ASSUME NEW m \in Migrators, Schema!MigratorDies(m) PROVE SchemaInv'
  BY <1>5, EndStep DEF Schema!MigratorDies
<1>6. ASSUME NEW m \in Migrators, Schema!Restart(m) PROVE SchemaInv'
  <2>1. upgrade' \in [Migrators -> UpType]
    BY <1>6, <1>a DEF Schema!Restart, Schema!NotRunning, UpType
  <2>2. Known' /\ Complete'
    BY <1>6, <1>a DEF Schema!Restart, Schema!NotRunning, SchemaInv, Known, Complete
  <2> QED BY <1>6, <2>1, <2>2, SchemaQuietStep DEF Schema!Restart
<1>7. ASSUME NEW m \in Migrators, Schema!LockDrops(m) PROVE SchemaInv'
  BY <1>7, <1>a, SchemaQuietStep DEF Schema!LockDrops, SchemaInv, Known, Complete
<1>8. CASE UNCHANGED Schema!migrVars
  BY <1>8, <1>a, SchemaQuietStep DEF Schema!migrVars, SchemaInv, Known, Complete
<1> QED BY <1>1, <1>2, <1>3, <1>4, <1>5, <1>6, <1>7, <1>8 DEF Schema!Next, Schema!UpSteps

\* However many servers of however many releases start, die and start again, and
\* whenever a lock's connection is lost, the schema grows by each file at most
\* once and in ascending order, and a server whose Up returned without an error
\* finds all its files applied.
THEOREM SchemaCorrect ==
  ASSUME Releases
  PROVE  Schema!Spec => []Schema!VerifiedIsComplete
<1>1. Schema!Init => SchemaInv
  <2> SUFFICES ASSUME Schema!Init PROVE SchemaInv
    OBVIOUS
  <2>1. SchemaTyped
    BY DEF Schema!Init, SchemaTyped, Schema!NotRunning, UpType
  <2>2. Ledger /\ Closed /\ Known /\ Complete
    BY DEF Schema!Init, Ledger, Closed, Known, Complete, Schema!NotRunning
  <2> QED BY <2>1, <2>2 DEF SchemaInv
<1>2. SchemaInv /\ [Schema!Next]_(Schema!migrVars) => SchemaInv'
  BY SchemaStep
<1>3. SchemaInv => Schema!VerifiedIsComplete
  BY DEF SchemaInv, Ledger, Complete, Schema!VerifiedIsComplete
<1> QED BY <1>1, <1>2, <1>3, PTL DEF Schema!Spec

-----------------------------------------------------------------------------
(***************************************************************************)
(* Webhooks: no post carries an attempt past the limit. A retry stores a   *)
(* second row and then writes the first one, so the count is in three      *)
(* places: the rows, the goroutines that deliver, and the batch the retry  *)
(* worker listed. The invariant bounds what each of them may still write.  *)
(***************************************************************************)
HookNames == HookEvents \cup {Hooks!Ping}
HookStatus == {"pending", "delivered", "dead_letter"}
RowType == [ev : HookNames, attempt : Nat, status : HookStatus]
SlotType ==
  [pc : {"free", "post", "answered"}, ev : HookNames, attempt : Nat, row : Nat, status : HookStatus]

HookType ==
  /\ slot \in [Slots -> SlotType] /\ deliveries \in Seq(RowType)
  /\ batch \subseteq [row : Nat, ev : HookNames, attempt : Nat]

\* A goroutine: its attempt is within the budget, the row it retries exists,
\* and what it will write over that row leaves a retry of it possible.
SlotSound(x, last) ==
  /\ x.pc # "free" => x.attempt \in 1 .. MaxAttempts
  /\ x.pc # "free" => x.row \in 0 .. last
  /\ x.pc = "answered" => x.row # 0 /\ (x.status = "pending" => x.attempt < MaxAttempts)

RowSound(x) == x.attempt \in 1 .. MaxAttempts /\ (x.status = "pending" => x.attempt < MaxAttempts)

\* The copies of the retry worker were pending rows, with an attempt left.
HookInv ==
  /\ HookType
  /\ \A g \in Slots : SlotSound(slot[g], Len(deliveries))
  /\ \A i \in DOMAIN deliveries : RowSound(deliveries[i])
  /\ \A b \in batch : b.row \in DOMAIN deliveries /\ b.attempt \in 1 .. MaxAttempts - 1

LEMMA HookFacts ==
  ASSUME HookInv
  PROVE  /\ deliveries \in Seq(RowType) /\ Len(deliveries) \in Nat /\ DOMAIN deliveries = 1 .. Len(deliveries)
         /\ \A i \in DOMAIN deliveries : deliveries[i] \in RowType /\ RowSound(deliveries[i])
         /\ slot \in [Slots -> SlotType] /\ \A g \in Slots : slot[g] \in SlotType /\ SlotSound(slot[g], Len(deliveries))
         /\ batch \subseteq [row : Nat, ev : HookNames, attempt : Nat]
         /\ \A b \in batch : b.row \in DOMAIN deliveries /\ b.attempt \in 1 .. MaxAttempts - 1
<1>1. deliveries \in Seq(RowType) /\ slot \in [Slots -> SlotType] /\ batch \subseteq [row : Nat, ev : HookNames, attempt : Nat]
  BY DEF HookInv, HookType
<1>2. Len(deliveries) \in Nat /\ DOMAIN deliveries = 1 .. Len(deliveries) /\ \A i \in DOMAIN deliveries : deliveries[i] \in RowType
  BY <1>1
<1>3. \A g \in Slots : slot[g] \in SlotType
  BY <1>1
<1> QED BY <1>1, <1>2, <1>3 DEF HookInv

\* One slot changes.
LEMMA SlotStep ==
  ASSUME HookInv, NEW g \in Slots, NEW new \in SlotType, SlotSound(new, Len(deliveries)),
         slot' = [slot EXCEPT ![g] = new], deliveries' = deliveries, batch' \subseteq batch
  PROVE  HookInv'
<1>1. slot' \in [Slots -> SlotType] /\ slot'[g] = new /\ \A h \in Slots \ {g} : slot'[h] = slot[h]
  BY HookFacts
<1>2. HookType'
  BY <1>1, HookFacts DEF HookType
<1>3. \A h \in Slots : SlotSound(slot'[h], Len(deliveries))
  BY <1>1, HookFacts
<1>4. \A b \in batch' : b.row \in DOMAIN deliveries /\ b.attempt \in 1 .. MaxAttempts - 1
  BY HookFacts
<1> HIDE DEF SlotSound, RowSound
<1>5. \A h \in Slots : SlotSound(slot[h], Len(deliveries))'
  BY <1>3 DEF SlotSound
<1>6. \A i \in DOMAIN deliveries' : RowSound(deliveries[i])'
  BY HookFacts DEF RowSound
<1> QED BY <1>2, <1>4, <1>5, <1>6 DEF HookInv

LEMMA FreeSlot ==
  Hooks!Free \in SlotType /\ \A n \in Nat : SlotSound(Hooks!Free, n)
BY DEF Hooks!Free, SlotType, HookNames, HookStatus, SlotSound, Hooks!Ping

LEMMA Started ==
  ASSUME NEW ev \in HookNames, NEW a \in Nat, NEW r \in Nat, NEW n \in Nat, a \in 1 .. MaxAttempts, r <= n,
         NEW new, new = [Hooks!Free EXCEPT !.pc = "post", !.ev = ev, !.attempt = a, !.row = r]
  PROVE  new \in SlotType /\ SlotSound(new, n)
<1>1. new = [pc |-> "post", ev |-> ev, attempt |-> a, row |-> r, status |-> "pending"]
  BY DEF Hooks!Free
<1>2. new \in SlotType /\ new.pc = "post" /\ new.attempt = a /\ new.row = r
  BY <1>1 DEF SlotType, HookStatus
<1> QED BY <1>2 DEF SlotSound

\* A row of its own for the attempt.
LEMMA RecordStep ==
  ASSUME HookInv, MaxAttempts \in Nat, NEW g \in Slots, slot[g].pc = "post", NEW st \in HookStatus,
         st = "pending" => slot[g].attempt < MaxAttempts, Hooks!Record(g, st), batch' = batch
  PROVE  HookInv'
<1> DEFINE x == slot[g]
<1>0. x \in SlotType /\ SlotSound(x, Len(deliveries)) /\ x.pc = "post"
  BY HookFacts
<1> DEFINE e == [ev |-> slot[g].ev, attempt |-> slot[g].attempt, status |-> st]
<1> DEFINE new == IF x.row = 0 THEN Hooks!Free ELSE [x EXCEPT !.pc = "answered", !.status = st]
<1>1. e \in RowType /\ RowSound(e)
  BY <1>0 DEF SlotType, RowType, RowSound, SlotSound
<1>2. (deliveries' = Append(deliveries, e) \/ deliveries' = deliveries) /\ slot' = [slot EXCEPT ![g] = new]
  BY HookFacts DEF Hooks!Record
<1>3. Len(deliveries) \in Nat
  BY HookFacts
<1>4. new \in SlotType /\ SlotSound(new, Len(deliveries))
  <2>1. CASE x.row = 0
    BY <1>3, <2>1, FreeSlot
  <2>2. CASE x.row # 0
    <3> DEFINE y == [x EXCEPT !.pc = "answered", !.status = st]
    <3>1. /\ y \in SlotType /\ y.pc = "answered" /\ y.status = st /\ y.attempt = x.attempt
          /\ y.row = x.row
      BY <1>0 DEF SlotType
    <3>2. new = y
      BY <2>2
    <3> HIDE DEF y, new
    <3> QED BY <1>0, <2>2, <3>1, <3>2 DEF SlotSound
  <2> QED BY <2>1, <2>2
<1> HIDE DEF e, new, x
<1>l. CASE deliveries' = deliveries
  BY <1>2, <1>4, <1>l, SlotStep
<1> SUFFICES ASSUME deliveries' = Append(deliveries, e) PROVE HookInv'
  BY <1>2, <1>l
<1>5. /\ deliveries' \in Seq(RowType) /\ Len(deliveries') = Len(deliveries) + 1 /\ DOMAIN deliveries' = 1 .. Len(deliveries) + 1
      /\ \A i \in DOMAIN deliveries : i \in DOMAIN deliveries' /\ deliveries'[i] = deliveries[i]
      /\ deliveries'[Len(deliveries) + 1] = e
  BY <1>1, <1>2, HookFacts
<1>6. slot' \in [Slots -> SlotType] /\ slot'[g] = new /\ \A h \in Slots \ {g} : slot'[h] = slot[h]
  BY <1>2, <1>4, HookFacts
<1>7. HookType'
  BY <1>5, <1>6, HookFacts DEF HookType
<1>8. \A y : SlotSound(y, Len(deliveries)) => SlotSound(y, Len(deliveries) + 1)
  BY <1>3 DEF SlotSound
<1>9. \A h \in Slots : SlotSound(slot'[h], Len(deliveries'))
  BY <1>4, <1>5, <1>6, <1>8, HookFacts
<1>10. \A i \in DOMAIN deliveries' : RowSound(deliveries'[i])
  BY <1>1, <1>3, <1>5, HookFacts
<1>11. \A b \in batch' : b.row \in DOMAIN deliveries' /\ b.attempt \in 1 .. MaxAttempts - 1
  BY <1>5, HookFacts
<1>12. \A h \in Slots : SlotSound(slot[h], Len(deliveries))'
  BY <1>9 DEF SlotSound
<1>13. \A i \in DOMAIN deliveries' : RowSound(deliveries[i])'
  BY <1>10 DEF RowSound
<1> QED BY <1>7, <1>11, <1>12, <1>13 DEF HookInv

\* A row that exists is written again.
LEMMA RowStep ==
  ASSUME HookInv, NEW k \in DOMAIN deliveries, NEW new \in RowType, RowSound(new),
         deliveries' = [deliveries EXCEPT ![k] = new], slot' \in [Slots -> SlotType],
         \A h \in Slots : slot'[h] = slot[h] \/ slot'[h] = Hooks!Free, batch' \subseteq batch
  PROVE  HookInv'
<1>1. /\ deliveries' \in Seq(RowType) /\ Len(deliveries') = Len(deliveries) /\ DOMAIN deliveries' = DOMAIN deliveries
      /\ \A n \in DOMAIN deliveries : deliveries'[n] = IF n = k THEN new ELSE deliveries[n]
  BY HookFacts, ReplacedInSeq
<1>2. HookType'
  BY <1>1, HookFacts DEF HookType
<1>3. \A h \in Slots : SlotSound(slot'[h], Len(deliveries'))
  BY <1>1, HookFacts, FreeSlot
<1>4. \A i \in DOMAIN deliveries' : RowSound(deliveries'[i])
  BY <1>1, HookFacts
<1>5. \A b \in batch' : b.row \in DOMAIN deliveries' /\ b.attempt \in 1 .. MaxAttempts - 1
  BY <1>1, HookFacts
<1>6. \A h \in Slots : SlotSound(slot[h], Len(deliveries))'
  BY <1>3 DEF SlotSound
<1>7. \A i \in DOMAIN deliveries' : RowSound(deliveries[i])'
  BY <1>4 DEF RowSound
<1> QED BY <1>2, <1>5, <1>6, <1>7 DEF HookInv

LEMMA HookStep ==
  ASSUME MaxAttempts \in Nat \ {0}, HookInv, [Hooks!Next]_(Hooks!hookVars)
  PROVE  HookInv'
<1>1. CASE slot' = slot /\ deliveries' = deliveries /\ batch' \subseteq [row : Nat, ev : HookNames, attempt : Nat]
           /\ \A b \in batch' : b.row \in DOMAIN deliveries /\ b.attempt \in 1 .. MaxAttempts - 1
  <2>1. HookType'
    BY <1>1, HookFacts DEF HookType
  <2>2. \A h \in Slots : SlotSound(slot[h], Len(deliveries))'
    BY <1>1, HookFacts DEF SlotSound
  <2>3. \A i \in DOMAIN deliveries' : RowSound(deliveries[i])'
    BY <1>1, HookFacts DEF RowSound
  <2> QED BY <1>1, <2>1, <2>2, <2>3 DEF HookInv
<1>a. ASSUME UNCHANGED <<slot, deliveries, batch>> PROVE HookInv'
  BY <1>1, <1>a, HookFacts
<1>2. ASSUME NEW on \in BOOLEAN, Hooks!CreateEndpoint(on) PROVE HookInv'
  BY <1>2, <1>a DEF Hooks!CreateEndpoint
<1>3. ASSUME NEW r \in HookReqs, Hooks!Manage(r) PROVE HookInv'
  <2>1. ASSUME NEW op, Hooks!GetEndpoint(r, op) PROVE HookInv'
    BY <2>1, <1>a DEF Hooks!GetEndpoint
  <2>2. ASSUME NEW on, Hooks!UpdateEndpoint(r, on) PROVE HookInv'
    BY <2>2, <1>a DEF Hooks!UpdateEndpoint
  <2>3. CASE Hooks!RotateSecret(r)
    BY <2>3, <1>a DEF Hooks!RotateSecret
  <2>4. CASE Hooks!DeleteEndpoint(r)
    BY <2>4, <1>a DEF Hooks!DeleteEndpoint
  <2>5. ASSUME NEW g \in Slots, Hooks!TestEndpoint(r, g) PROVE HookInv'
    <3> DEFINE new == [Hooks!Free EXCEPT !.pc = "post", !.ev = Hooks!Ping, !.attempt = 1, !.row = 0]
    <3>1. slot' = [slot EXCEPT ![g] = new] /\ deliveries' = deliveries /\ batch' = batch
      BY <2>5 DEF Hooks!TestEndpoint, Hooks!Start
    <3>2. Hooks!Ping \in HookNames /\ Len(deliveries) \in Nat /\ 0 <= Len(deliveries) /\ 1 \in 1 .. MaxAttempts
      BY HookFacts DEF HookNames
    <3>3. new \in SlotType /\ SlotSound(new, Len(deliveries))
      BY <3>2, Started
    <3> HIDE DEF new
    <3> QED BY <3>1, <3>3, SlotStep
  <2> QED BY <1>3, <2>1, <2>2, <2>3, <2>4, <2>5 DEF Hooks!Manage
<1>4. ASSUME NEW e \in HookEvents, NEW g \in Slots, Hooks!DispatchEvent(e, g) PROVE HookInv'
  <2>1. CASE Hooks!Subscribed
    <3> DEFINE new == [Hooks!Free EXCEPT !.pc = "post", !.ev = e, !.attempt = 1, !.row = 0]
    <3>1. slot' = [slot EXCEPT ![g] = new] /\ deliveries' = deliveries /\ batch' = batch
      BY <1>4, <2>1 DEF Hooks!DispatchEvent, Hooks!Start
    <3>2. e \in HookNames /\ Len(deliveries) \in Nat /\ 0 <= Len(deliveries) /\ 1 \in 1 .. MaxAttempts
      BY HookFacts DEF HookNames
    <3>3. new \in SlotType /\ SlotSound(new, Len(deliveries))
      BY <3>2, Started
    <3> HIDE DEF new
    <3> QED BY <3>1, <3>3, SlotStep
  <2>2. CASE ~Hooks!Subscribed
    BY <1>4, <2>2, <1>a DEF Hooks!DispatchEvent
  <2> QED BY <2>1, <2>2
<1>5. ASSUME NEW g \in Slots, Hooks!Delivers(g) PROVE HookInv'
  <2>0. slot[g] \in SlotType /\ SlotSound(slot[g], Len(deliveries)) /\ Len(deliveries) \in Nat
    BY HookFacts
  <2>1. ASSUME NEW failed \in BOOLEAN, NEW fatal \in BOOLEAN, Hooks!Deliver(g, failed, fatal) PROVE HookInv'
    <3> DEFINE st == IF failed THEN Hooks!handleFailure(slot[g].attempt, fatal) ELSE "delivered"
    <3>1. slot[g].pc = "post" /\ Hooks!Record(g, st) /\ batch' = batch
      BY <2>1 DEF Hooks!Deliver
    <3>2. slot[g].attempt \in Nat
      BY <2>0 DEF SlotType
    <3>3. st \in HookStatus /\ (st = "pending" => slot[g].attempt < MaxAttempts)
      BY <3>2 DEF Hooks!handleFailure, HookStatus
    <3> HIDE DEF st
    <3> QED BY <3>1, <3>3, RecordStep
  <2>2. ASSUME NEW counted, Hooks!Undeliverable(g, counted) PROVE HookInv'
    <3>1. slot[g].pc = "post" /\ Hooks!Record(g, "dead_letter") /\ batch' = batch
      BY <2>2 DEF Hooks!Undeliverable
    <3> QED BY <3>1, RecordStep DEF HookStatus
  <2>3. CASE Hooks!UpdateRow(g)
    <3> DEFINE k == slot[g].row
    <3> DEFINE new == [deliveries[k] EXCEPT !.attempt = slot[g].attempt, !.status = slot[g].status]
    <3>1. k \in DOMAIN deliveries
      BY <2>0, <2>3, HookFacts DEF Hooks!UpdateRow, SlotSound
    <3>2. deliveries[k] \in RowType
      BY <3>1, HookFacts
    <3>3. new \in RowType /\ new.attempt = slot[g].attempt /\ new.status = slot[g].status
      BY <2>0, <3>2 DEF RowType, SlotType
    <3>4. RowSound(new)
      BY <2>0, <2>3, <3>3 DEF Hooks!UpdateRow, SlotSound, RowSound
    <3>5. /\ deliveries' = [deliveries EXCEPT ![k] = new] \/ deliveries' = deliveries
          /\ slot' = [slot EXCEPT ![g] = Hooks!Free] /\ batch' = batch
      BY <2>3 DEF Hooks!UpdateRow, Hooks!LostUpdate
    <3>6. slot' \in [Slots -> SlotType] /\ \A h \in Slots : slot'[h] = slot[h] \/ slot'[h] = Hooks!Free
      BY <3>5, HookFacts, FreeSlot
    <3> HIDE DEF new, k
    <3>7. CASE deliveries' = deliveries
      BY <2>0, <3>5, <3>7, FreeSlot, SlotStep
    <3> QED BY <3>1, <3>3, <3>4, <3>5, <3>6, <3>7, RowStep
  <2> QED BY <1>5, <2>1, <2>2, <2>3 DEF Hooks!Delivers
<1>6. CASE Hooks!RetryWorker
  <2>1. CASE Hooks!ListPendingRetries
    <3>1. /\ batch' = {[row |-> i, ev |-> deliveries[i].ev, attempt |-> deliveries[i].attempt] :
                       i \in {j \in DOMAIN deliveries : deliveries[j].status = "pending"}}
          /\ slot' = slot /\ deliveries' = deliveries
      BY <2>1 DEF Hooks!ListPendingRetries
    <3>2. ASSUME NEW b \in batch'
          PROVE  /\ b \in [row : Nat, ev : HookNames, attempt : Nat]
                 /\ b.row \in DOMAIN deliveries /\ b.attempt \in 1 .. MaxAttempts - 1
      <4>1. PICK i \in DOMAIN deliveries : deliveries[i].status = "pending" /\ b = [row |-> i, ev |-> deliveries[i].ev, attempt |-> deliveries[i].attempt]
        BY <3>1
      <4>2. deliveries[i] \in RowType /\ RowSound(deliveries[i]) /\ i \in Nat
        BY HookFacts
      <4>3. deliveries[i].ev \in HookNames /\ deliveries[i].attempt \in Nat /\ deliveries[i].attempt \in 1 .. MaxAttempts - 1
        BY <4>1, <4>2 DEF RowType, RowSound
      <4> QED BY <4>1, <4>2, <4>3
    <3>3. batch' \subseteq [row : Nat, ev : HookNames, attempt : Nat]
      BY <3>2
    <3> QED BY <1>1, <3>1, <3>2, <3>3
  <2>2. ASSUME NEW b \in batch, Hooks!GiveUp(b) PROVE HookInv'
    <3> DEFINE k == b.row
    <3> DEFINE new == [deliveries[k] EXCEPT !.status = "dead_letter"]
    <3>1. k \in DOMAIN deliveries /\ deliveries[k] \in RowType /\ RowSound(deliveries[k])
      BY HookFacts
    <3>2. new \in RowType /\ new.status = "dead_letter" /\ new.attempt = deliveries[k].attempt
      BY <3>1 DEF RowType, HookStatus
    <3>3. RowSound(new)
      BY <3>1, <3>2 DEF RowSound
    <3>4. /\ deliveries' = [deliveries EXCEPT ![k] = new] \/ deliveries' = deliveries
          /\ slot' = slot /\ batch' \subseteq batch
      BY <2>2 DEF Hooks!GiveUp, Hooks!LostUpdate
    <3> HIDE DEF new, k
    <3>5. CASE deliveries' = deliveries
      BY <1>1, <3>4, <3>5, HookFacts
    <3> QED BY <3>1, <3>2, <3>3, <3>4, <3>5, RowStep, HookFacts
  <2>3. ASSUME NEW b \in batch, NEW g \in Slots, Hooks!Retry(b, g) PROVE HookInv'
    <3> DEFINE new == [Hooks!Free EXCEPT !.pc = "post", !.ev = b.ev, !.attempt = b.attempt + 1, !.row = b.row]
    <3>1. slot' = [slot EXCEPT ![g] = new] /\ deliveries' = deliveries /\ batch' \subseteq batch
      BY <2>3 DEF Hooks!Retry, Hooks!Start
    <3>2. /\ b.ev \in HookNames /\ b.attempt + 1 \in Nat /\ b.row \in Nat /\ b.attempt + 1 \in 1 .. MaxAttempts
          /\ b.row <= Len(deliveries) /\ Len(deliveries) \in Nat
      <4>1. b \in [row : Nat, ev : HookNames, attempt : Nat] /\ b.row \in DOMAIN deliveries /\ b.attempt \in 1 .. MaxAttempts - 1
        BY HookFacts
      <4> QED BY <4>1, HookFacts
    <3>3. new \in SlotType /\ SlotSound(new, Len(deliveries))
      BY <3>2, Started
    <3> HIDE DEF new
    <3> QED BY <3>1, <3>3, SlotStep
  <2> QED BY <1>6, <2>1, <2>2, <2>3 DEF Hooks!RetryWorker
<1>7. CASE Hooks!Crash
  <2>1. slot' = [g \in Slots |-> Hooks!Free] /\ batch' = {} /\ deliveries' = deliveries
    BY <1>7 DEF Hooks!Crash
  <2>2. slot' \in [Slots -> SlotType]
    BY <2>1, FreeSlot
  <2>3. HookType'
    BY <2>1, <2>2, HookFacts DEF HookType
  <2>4. \A h \in Slots : SlotSound(slot'[h], Len(deliveries))
    BY <2>1, HookFacts, FreeSlot
  <2>5. \A h \in Slots : SlotSound(slot[h], Len(deliveries))'
    BY <2>1, <2>4 DEF SlotSound
  <2>6. \A i \in DOMAIN deliveries' : RowSound(deliveries[i])'
    BY <2>1, HookFacts DEF RowSound
  <2> QED BY <2>1, <2>3, <2>5, <2>6 DEF HookInv
<1> QED BY <1>a, <1>2, <1>3, <1>4, <1>5, <1>6, <1>7 DEF Hooks!Next, Hooks!hookVars

\* Retries that overlap, rows that are written twice, endpoints that go and
\* crashes: no post carries an attempt past MaxDeliveryAttempts, and a pending
\* row was attempted and has an interval left (dispatcher.go, handleFailure).
THEOREM AttemptsCorrect ==
  ASSUME MaxAttempts \in Nat \ {0}
  PROVE  Hooks!Spec => []Hooks!AttemptsInRange
<1>1. Hooks!Init => HookInv
  <2> SUFFICES ASSUME Hooks!Init PROVE HookInv
    OBVIOUS
  <2>1. slot = [g \in Slots |-> Hooks!Free] /\ deliveries = <<>> /\ batch = {}
    BY DEF Hooks!Init
  <2>2. deliveries \in Seq(RowType) /\ Len(deliveries) = 0 /\ \A i \in DOMAIN deliveries : FALSE
    BY <2>1
  <2>3. slot \in [Slots -> SlotType] /\ \A g \in Slots : SlotSound(slot[g], Len(deliveries))
    BY <2>1, <2>2, FreeSlot
  <2> QED BY <2>1, <2>2, <2>3 DEF HookInv, HookType
<1>2. HookInv /\ [Hooks!Next]_(Hooks!hookVars) => HookInv'
  BY HookStep
<1>3. HookInv => Hooks!AttemptsInRange
  BY HookFacts DEF Hooks!AttemptsInRange, SlotSound, RowSound
<1> QED BY <1>1, <1>2, <1>3, PTL DEF Hooks!Spec

-----------------------------------------------------------------------------
(***************************************************************************)
(* The event bus: Close leaves nothing behind that was queued before it    *)
(* began, and a stream shows an event once. An event that Publish took is  *)
(* in one place at a time: stored, in the queue, with an overflow goroutine *)
(* or with a worker (PlaceInv); Close waits for the workers, and once a    *)
(* worker has ended only late events are queued (ExitInv). A stream with   *)
(* two subscriptions gets an event from one of them, because the wildcard's *)
(* handler skips what the tenant's one takes (AdminInv).                   *)
(***************************************************************************)
\* The cardinality that the module refers to is that of FiniteSets.
LEMMA BusCard ==
  ASSUME NEW S
  PROVE  Bus!Cardinality(S) = Cardinality(S)
BY DEF Cardinality, Bus!Cardinality

LEMMA AppendFacts ==
  ASSUME NEW S, NEW q \in Seq(S), NEW x \in S
  PROVE  /\ Append(q, x) \in Seq(S) /\ Len(q) \in Nat /\ DOMAIN q = 1 .. Len(q)
         /\ DOMAIN Append(q, x) = 1 .. Len(q) + 1 /\ Len(Append(q, x)) = Len(q) + 1
         /\ \A i \in 1 .. Len(q) : Append(q, x)[i] = q[i]
         /\ Append(q, x)[Len(q) + 1] = x
OBVIOUS

LEMMA TailFacts ==
  ASSUME NEW S, NEW q \in Seq(S), q # <<>>
  PROVE  /\ Len(q) \in Nat /\ Len(q) > 0 /\ DOMAIN q = 1 .. Len(q) /\ Head(q) = q[1] /\ q[1] \in S
         /\ Tail(q) \in Seq(S) /\ DOMAIN Tail(q) = 1 .. Len(q) - 1 /\ Len(Tail(q)) = Len(q) - 1
         /\ \A i \in 1 .. Len(q) - 1 : Tail(q)[i] = q[i + 1]
OBVIOUS

BusTasks == Workers \cup Events

\* Every name a subscription can have.
AllSubs == Handlers \cup {"tenant", "broadcast"}

TaskType == [pc : {"wait", "got", "run", "exit"}, todo : SUBSET AllSubs, ev : Events \cup {Bus!NoTask.ev}]

BusType ==
  /\ publ \in [Events -> {"idle", "refused", "checked", "stored", "queued", "late", "overflow", "panic"}]
  /\ queue \in Seq(Events) /\ closer \in {"open", "canceled", "waiting", "closed"}
  /\ subs \subseteq Handlers \cup Bus!StreamSubs /\ Handlers \subseteq subs
  /\ task \in [BusTasks -> TaskType] /\ handled \in [Handlers -> [Events -> Nat]]
  /\ stream \in [pc : {"dial", "open", "left"}, ch : Seq(Events)] /\ shown \in [Events -> Nat]

Active(x) == x.pc \in {"got", "run"}

Queued(e) == \E i \in DOMAIN queue : queue[i] = e

Carried(e) == \E t \in BusTasks : Active(task[t]) /\ task[t].ev = e

\* The stream has not seen the event; it sees it once.
Fresh(e) == shown[e] = 0 /\ \A i \in DOMAIN stream.ch : stream.ch[i] # e

Once(e) ==
  /\ shown[e] \in {0, 1}
  /\ \A i, j \in DOMAIN stream.ch : stream.ch[i] = e /\ stream.ch[j] = e => i = j
  /\ shown[e] = 1 => \A i \in DOMAIN stream.ch : stream.ch[i] # e

\* The one subscription of a stream that wants the event.
SubOf(e) == IF TenantOf[e] = User THEN "tenant" ELSE "broadcast"

\* The subscribers outside T have been called for the event, once, and those of
\* T have not.
Called(e, T) ==
  /\ \A h \in Handlers : handled[h][e] = IF h \notin T /\ Bus!Wants(h, e) THEN 1 ELSE 0
  /\ Once(e) /\ (SubOf(e) \in T => Fresh(e))

\* Who is still to be called by a task.
ToCall(x) == IF x.pc = "got" THEN AllSubs ELSE x.todo

\* An event is in the queue, or carried by one task, or done.
PlaceInv ==
  /\ \A i, j \in DOMAIN queue : queue[i] = queue[j] => i = j
  /\ \A t \in BusTasks : Active(task[t]) =>
       /\ task[t].ev \in Events /\ ~Queued(task[t].ev) /\ publ[task[t].ev] \in {"queued", "late", "overflow"}
       /\ Called(task[t].ev, ToCall(task[t]))
  /\ \A t, u \in BusTasks : Active(task[t]) /\ Active(task[u]) /\ task[t].ev = task[u].ev => t = u
  /\ \A e \in Events : Queued(e) => publ[e] \in {"queued", "late"} /\ Called(e, AllSubs)
  /\ \A e \in Events : publ[e] \notin {"queued", "late", "overflow"} => Called(e, AllSubs)
  /\ \A e \in Events : publ[e] \in {"queued", "late", "overflow"} /\ ~Queued(e) /\ ~Carried(e) => Called(e, {})
  /\ \A e \in Events : Active(task[e]) => task[e].ev = e /\ publ[e] = "overflow"

\* A worker that returned left an empty queue, which only late events enter.
ExitInv ==
  /\ \A w \in Workers : task[w].pc = "exit" => Bus!Closed /\ \A e \in Events : Queued(e) => publ[e] = "late"
  /\ closer = "closed" => \A w \in Workers : task[w].pc = "exit"

AdminInv ==
  \A e \in Events : shown[e] > 0 \/ (\E i \in DOMAIN stream.ch : stream.ch[i] = e) => Admin \/ TenantOf[e] = User

BusInv == BusType /\ PlaceInv /\ ExitInv /\ AdminInv

LEMMA CalledSame ==
  ASSUME handled' = handled, shown' = shown, stream'.ch = stream.ch
  PROVE  /\ \A e, T : Called(e, T)' <=> Called(e, T)
         /\ AdminInv => AdminInv'
BY DEF Called, Once, Fresh, AdminInv

\* Fewer stream subscriptions to call: less is promised.
LEMMA CalledLess ==
  ASSUME NEW e, NEW T, NEW U, U \subseteq T, T \cap Handlers = U \cap Handlers, Called(e, T)
  PROVE  Called(e, U)
BY DEF Called

\* A step of one task, which goes on with its event or drops it when done.
LEMMA TaskStep ==
  ASSUME BusInv, NEW t \in BusTasks, NEW new \in TaskType, task' = [task EXCEPT ![t] = new],
         publ' = publ, queue' = queue, closer' = closer, subs' = subs,
         handled' \in [Handlers -> [Events -> Nat]], shown' = shown,
         stream' \in [pc : {"dial", "open", "left"}, ch : Seq(Events)], AdminInv',
         NEW e, e = task[t].ev, Active(task[t]), new.ev = e,
         \A d \in Events : d # e => \A T : Called(d, T)' <=> Called(d, T),
         Active(new) => Called(e, ToCall(new))', ~Active(new) => Called(e, {})',
         new.pc = "exit" => t \notin Workers
  PROVE  BusInv'
<1>1. BusType' /\ task' \in [BusTasks -> TaskType] /\ task'[t] = new /\ \A u \in BusTasks \ {t} : task'[u] = task[u]
  BY DEF BusInv, BusType
<1>3. \A d : Queued(d)' <=> Queued(d)
  BY DEF Queued
<1>4. e \in Events /\ publ[e] \in {"queued", "late", "overflow"} /\ ~Queued(e)
  BY DEF BusInv, PlaceInv
<1>5. \A d \in Events : d # e => (Carried(d)' <=> Carried(d))
  <2> TAKE d \in Events
  <2> HAVE d # e
  <2> QED BY <1>1 DEF Carried
<1>6. Active(new) => Carried(e)'
  BY <1>1 DEF Carried
<1>p. PlaceInv
  BY DEF BusInv
<1>7. \A i, j \in DOMAIN queue' : queue'[i] = queue'[j] => i = j
  BY <1>p DEF PlaceInv
<1>8. \A u \in BusTasks : (Active(task[u]) =>
            /\ task[u].ev \in Events /\ ~Queued(task[u].ev) /\ publ[task[u].ev] \in {"queued", "late", "overflow"}
            /\ Called(task[u].ev, ToCall(task[u])))'
  <2> SUFFICES ASSUME NEW u \in BusTasks
               PROVE  (Active(task[u]) =>
                         /\ task[u].ev \in Events /\ ~Queued(task[u].ev) /\ publ[task[u].ev] \in {"queued", "late", "overflow"}
                         /\ Called(task[u].ev, ToCall(task[u])))'
    OBVIOUS
  <2>1. CASE u = t
    BY <1>1, <1>3, <1>4, <2>1 DEF Active, ToCall
  <2>2. CASE u # t
    <3>1. task'[u] = task[u]
      BY <1>1, <2>2
    <3>2. Active(task[u]) => task[u].ev # e
      BY <1>p, <2>2 DEF PlaceInv
    <3>3. Active(task[u]) =>
            /\ task[u].ev \in Events /\ ~Queued(task[u].ev) /\ publ[task[u].ev] \in {"queued", "late", "overflow"}
            /\ Called(task[u].ev, ToCall(task[u]))
      BY <1>p DEF PlaceInv
    <3> QED BY <1>3, <3>1, <3>2, <3>3 DEF Active, ToCall
  <2> QED BY <2>1, <2>2
<1>9. \A u, v \in BusTasks : Active(task'[u]) /\ Active(task'[v]) /\ task'[u].ev = task'[v].ev => u = v
  BY <1>1, <1>p DEF PlaceInv
<1>10. \A d \in Events : publ[d] \in {"queued", "late", "overflow"} /\ ~Queued(d) /\ ~Carried(d)' => Called(d, {})'
  BY <1>5, <1>6, <1>p DEF PlaceInv
<1>11. \A d \in Events : Active(task'[d]) => task'[d].ev = d /\ publ[d] = "overflow"
  <2>1. Events \subseteq BusTasks
    BY DEF BusTasks
  <2> QED BY <1>1, <1>p, <2>1 DEF PlaceInv
<1>12. \A d \in Events : Queued(d) \/ publ[d] \notin {"queued", "late", "overflow"} => d # e
  BY <1>4
<1>15. \A d \in Events : /\ Queued(d) => publ[d] \in {"queued", "late"} /\ Called(d, AllSubs)'
                         /\ publ[d] \notin {"queued", "late", "overflow"} => Called(d, AllSubs)'
  BY <1>12, <1>p DEF PlaceInv
<1>13. PlaceInv'
  BY <1>3, <1>7, <1>8, <1>9, <1>10, <1>11, <1>15 DEF PlaceInv, Active
<1>14. ExitInv'
  <2>1. \A w \in Workers : w \in BusTasks /\ (task'[w].pc = "exit" <=> task[w].pc = "exit" /\ w # t)
    BY <1>1 DEF BusTasks, Active
  <2>2. closer = "closed" => t \notin Workers
    BY DEF BusInv, ExitInv, Active
  <2> QED BY <1>3, <2>1, <2>2 DEF BusInv, ExitInv, Bus!Closed
<1> QED BY <1>1, <1>13, <1>14 DEF BusInv

\* An event that is not accepted is nowhere.
LEMMA NotAccepted ==
  ASSUME BusInv, NEW e \in Events, publ[e] \notin {"queued", "late", "overflow"}
  PROVE  ~Queued(e) /\ ~Carried(e) /\ Called(e, AllSubs)
BY DEF BusInv, PlaceInv, Carried

\* A step of Publish before the event is sent, or one that sends nothing.
LEMMA PublishStep ==
  ASSUME BusInv, NEW e \in Events, NEW p \in {"refused", "checked", "stored", "panic"},
         publ[e] \notin {"queued", "late", "overflow"}, publ' = [publ EXCEPT ![e] = p],
         task' = task, queue' = queue, closer' = closer, subs' = subs, handled' = handled,
         shown' = shown, stream' = stream
  PROVE  BusInv'
<1>1. BusType' /\ publ'[e] = p /\ \A d \in Events \ {e} : publ'[d] = publ[d]
  BY DEF BusInv, BusType
<1>2. /\ \A d, T : Called(d, T)' <=> Called(d, T)
      /\ AdminInv'
  BY CalledSame DEF BusInv
<1>3. \A d : (Queued(d)' <=> Queued(d)) /\ (Carried(d)' <=> Carried(d))
  BY DEF Queued, Carried
<1>4. ~Queued(e) /\ ~Carried(e) /\ Called(e, AllSubs)
  BY NotAccepted
<1>5. \A t \in BusTasks : Active(task[t]) => task[t].ev # e
  BY <1>4 DEF Carried
<1>p. PlaceInv
  BY DEF BusInv
<1>6. \A u \in BusTasks : Active(task[u]) =>
        /\ task[u].ev \in Events /\ ~Queued(task[u].ev) /\ publ'[task[u].ev] \in {"queued", "late", "overflow"}
        /\ Called(task[u].ev, ToCall(task[u]))
  BY <1>1, <1>5, <1>p DEF PlaceInv
<1>7. \A u \in BusTasks : (Active(task[u]) =>
            /\ task[u].ev \in Events /\ ~Queued(task[u].ev) /\ publ[task[u].ev] \in {"queued", "late", "overflow"}
            /\ Called(task[u].ev, ToCall(task[u])))'
  BY <1>2, <1>3, <1>6
<1>8. \A d \in Events : Active(task[d]) => task[d].ev = d /\ publ'[d] = "overflow"
  <2>1. Events \subseteq BusTasks
    BY DEF BusTasks
  <2> QED BY <1>1, <1>5, <1>p, <2>1 DEF PlaceInv
<1>9. PlaceInv'
  BY <1>1, <1>2, <1>3, <1>4, <1>7, <1>8, <1>p DEF PlaceInv
<1>10. ExitInv'
  BY <1>1, <1>3, <1>4 DEF BusInv, ExitInv, Bus!Closed
<1> QED BY <1>1, <1>2, <1>9, <1>10 DEF BusInv

LEMMA EnqueueStep ==
  ASSUME BusInv, NEW e \in Events, Bus!Enqueue(e)
  PROVE  BusInv'
<1>s. PICK s \in {"queued", "late"} : s = IF Bus!Closed THEN "late" ELSE "queued"
  OBVIOUS
<1>0. /\ publ[e] = "stored" /\ queue' = Append(queue, e) /\ publ' = [publ EXCEPT ![e] = s]
      /\ task' = task /\ closer' = closer /\ subs' = subs /\ handled' = handled
      /\ shown' = shown /\ stream' = stream
  BY <1>s DEF Bus!Enqueue
<1>a. queue \in Seq(Events)
  BY DEF BusInv, BusType
<1>b. /\ queue' \in Seq(Events) /\ Len(queue) \in Nat /\ DOMAIN queue = 1 .. Len(queue)
      /\ DOMAIN queue' = 1 .. Len(queue) + 1
      /\ \A i \in 1 .. Len(queue) : queue'[i] = queue[i]
      /\ queue'[Len(queue) + 1] = e
  BY <1>0, <1>a, AppendFacts
<1>1. BusType' /\ publ'[e] = s /\ \A d \in Events \ {e} : publ'[d] = publ[d]
  BY <1>0, <1>b DEF BusInv, BusType
<1>2. /\ \A d, T : Called(d, T)' <=> Called(d, T)
      /\ AdminInv'
  BY <1>0, CalledSame DEF BusInv
<1>3. \A d : Carried(d)' <=> Carried(d)
  BY <1>0 DEF Carried
<1>c. \A d : Queued(d)' <=> Queued(d) \/ d = e
  BY <1>b DEF Queued
<1>4. ~Queued(e) /\ ~Carried(e) /\ Called(e, AllSubs)
  BY <1>0, NotAccepted
<1>5. \A t \in BusTasks : Active(task[t]) => task[t].ev # e
  BY <1>4 DEF Carried
<1>p. PlaceInv
  BY DEF BusInv
<1>6. \A u \in BusTasks : Active(task[u]) =>
        /\ task[u].ev \in Events /\ ~Queued(task[u].ev)' /\ publ'[task[u].ev] \in {"queued", "late", "overflow"}
        /\ Called(task[u].ev, ToCall(task[u]))
  BY <1>0, <1>1, <1>5, <1>c, <1>p DEF PlaceInv
<1>7. \A u \in BusTasks : (Active(task[u]) =>
            /\ task[u].ev \in Events /\ ~Queued(task[u].ev) /\ publ[task[u].ev] \in {"queued", "late", "overflow"}
            /\ Called(task[u].ev, ToCall(task[u])))'
  BY <1>0, <1>2, <1>6
<1>8. \A d \in Events : Active(task[d]) => task[d].ev = d /\ publ'[d] = "overflow"
  <2>1. Events \subseteq BusTasks
    BY DEF BusTasks
  <2> QED BY <1>1, <1>5, <1>p, <2>1 DEF PlaceInv
<1>9. \A i, j \in DOMAIN queue' : queue'[i] = queue'[j] => i = j
  BY <1>4, <1>b, <1>p DEF PlaceInv, Queued
<1>10. \A d \in Events : Queued(d)' => publ'[d] \in {"queued", "late"} /\ Called(d, AllSubs)
  BY <1>1, <1>4, <1>c, <1>p DEF PlaceInv
<1>11. \A d \in Events : publ'[d] \in {"queued", "late", "overflow"} /\ ~Queued(d)' /\ ~Carried(d) => Called(d, {})
  BY <1>1, <1>c, <1>p DEF PlaceInv
<1>12. \A d \in Events : publ'[d] \notin {"queued", "late", "overflow"} => Called(d, AllSubs)
  BY <1>1, <1>p DEF PlaceInv
<1>13. PlaceInv'
  BY <1>0, <1>2, <1>3, <1>7, <1>8, <1>9, <1>10, <1>11, <1>12, <1>p DEF PlaceInv
<1>14. ExitInv'
  BY <1>0, <1>1, <1>c, <1>s DEF BusInv, ExitInv, Bus!Closed
<1> QED BY <1>1, <1>2, <1>13, <1>14 DEF BusInv

\* A goroutine of its own for the event: its task was not carrying anything.
LEMMA OverflowStep ==
  ASSUME BusInv, Workers \cap Events = {}, NEW e \in Events, Bus!Overflow(e)
  PROVE  BusInv'
<1> DEFINE new == [Bus!NoTask EXCEPT !.pc = "got", !.ev = e]
<1>0. /\ publ[e] = "stored" /\ queue' = queue /\ publ' = [publ EXCEPT ![e] = "overflow"]
      /\ task' = [task EXCEPT ![e] = new] /\ closer' = closer /\ subs' = subs /\ handled' = handled
      /\ shown' = shown /\ stream' = stream
  BY DEF Bus!Overflow
<1>a. new \in TaskType /\ new.pc = "got" /\ new.ev = e
  BY DEF Bus!NoTask, TaskType
<1>b. Active(new) /\ ToCall(new) = AllSubs
  BY <1>a DEF Active, ToCall
<1> HIDE DEF new
<1>t. e \in BusTasks /\ Events \subseteq BusTasks /\ Workers \subseteq BusTasks
  BY DEF BusTasks
<1>1. /\ BusType' /\ publ'[e] = "overflow" /\ \A d \in Events \ {e} : publ'[d] = publ[d]
      /\ task'[e] = new /\ \A t \in BusTasks \ {e} : task'[t] = task[t]
  BY <1>0, <1>a, <1>t DEF BusInv, BusType
<1>2. /\ \A d, T : Called(d, T)' <=> Called(d, T)
      /\ AdminInv'
  BY <1>0, CalledSame DEF BusInv
<1>3. \A d : Queued(d)' <=> Queued(d)
  BY <1>0 DEF Queued
<1>4. ~Queued(e) /\ ~Carried(e) /\ Called(e, AllSubs)
  BY <1>0, NotAccepted
<1>5. \A t \in BusTasks : Active(task[t]) => task[t].ev # e
  BY <1>4 DEF Carried
<1>p. PlaceInv
  BY DEF BusInv
<1>c. ~Active(task[e])
  BY <1>5, <1>t, <1>p DEF PlaceInv
<1>d. \A d : Carried(d)' <=> Carried(d) \/ d = e
  BY <1>1, <1>a, <1>b, <1>c, <1>t DEF Carried
<1>6. \A u \in BusTasks : Active(task'[u]) =>
        /\ task'[u].ev \in Events /\ ~Queued(task'[u].ev) /\ publ'[task'[u].ev] \in {"queued", "late", "overflow"}
        /\ Called(task'[u].ev, ToCall(task'[u]))
  BY <1>1, <1>4, <1>5, <1>a, <1>b, <1>p DEF PlaceInv
<1>7. \A u \in BusTasks : (Active(task[u]) =>
            /\ task[u].ev \in Events /\ ~Queued(task[u].ev) /\ publ[task[u].ev] \in {"queued", "late", "overflow"}
            /\ Called(task[u].ev, ToCall(task[u])))'
  BY <1>2, <1>3, <1>6 DEF Active, ToCall
<1>8. \A d \in Events : Active(task'[d]) => task'[d].ev = d /\ publ'[d] = "overflow"
  BY <1>1, <1>a, <1>t, <1>p DEF PlaceInv
<1>9. \A u, v \in BusTasks : Active(task'[u]) /\ Active(task'[v]) /\ task'[u].ev = task'[v].ev => u = v
  BY <1>1, <1>5, <1>a, <1>p DEF PlaceInv
<1>10. \A d \in Events : Queued(d) => publ'[d] \in {"queued", "late"} /\ Called(d, AllSubs)
  BY <1>1, <1>4, <1>p DEF PlaceInv
<1>11. \A d \in Events : publ'[d] \in {"queued", "late", "overflow"} /\ ~Queued(d) /\ ~Carried(d)' => Called(d, {})
  BY <1>1, <1>d, <1>p DEF PlaceInv
<1>12. \A d \in Events : publ'[d] \notin {"queued", "late", "overflow"} => Called(d, AllSubs)
  BY <1>1, <1>p DEF PlaceInv
<1>13. PlaceInv'
  BY <1>0, <1>2, <1>3, <1>7, <1>8, <1>9, <1>10, <1>11, <1>12, <1>p DEF PlaceInv, Active
<1>14. ExitInv'
  <2>1. \A w \in Workers : task'[w] = task[w]
    BY <1>1, <1>t
  <2> QED BY <1>0, <1>1, <1>3, <1>4, <2>1 DEF BusInv, ExitInv, Bus!Closed
<1> QED BY <1>1, <1>2, <1>13, <1>14 DEF BusInv

LEMMA ReceiveStep ==
  ASSUME BusInv, Workers \cap Events = {}, NEW w \in Workers, Bus!Receive(w)
  PROVE  BusInv'
<1>e. PICK e : e = Head(queue)
  OBVIOUS
<1> DEFINE new == [task[w] EXCEPT !.pc = "got", !.ev = e]
<1>0. /\ task[w].pc = "wait" /\ queue # <<>> /\ queue' = Tail(queue) /\ publ' = publ
      /\ task' = [task EXCEPT ![w] = new] /\ closer' = closer /\ subs' = subs /\ handled' = handled
      /\ shown' = shown /\ stream' = stream
  BY <1>e DEF Bus!Receive
<1>q. queue \in Seq(Events) /\ task \in [BusTasks -> TaskType]
  BY DEF BusInv, BusType
<1>r. /\ Len(queue) \in Nat /\ Len(queue) > 0 /\ DOMAIN queue = 1 .. Len(queue) /\ e = queue[1] /\ e \in Events
      /\ queue' \in Seq(Events) /\ DOMAIN queue' = 1 .. Len(queue) - 1
      /\ \A i \in 1 .. Len(queue) - 1 : queue'[i] = queue[i + 1]
  BY <1>0, <1>e, <1>q, TailFacts
<1>t. w \in BusTasks /\ Events \subseteq BusTasks /\ Workers \subseteq BusTasks /\ w \notin Events
  BY DEF BusTasks
<1>a. new \in TaskType /\ new.pc = "got" /\ new.ev = e
  <2>1. PICK x \in TaskType : x = task[w]
    BY <1>q, <1>t
  <2>2. [x EXCEPT !.pc = "got", !.ev = e] \in TaskType
    BY <1>r DEF TaskType
  <2>3. [x EXCEPT !.pc = "got", !.ev = e].pc = "got" /\ [x EXCEPT !.pc = "got", !.ev = e].ev = e
    BY DEF TaskType
  <2> QED BY <2>1, <2>2, <2>3
<1>b. Active(new) /\ ToCall(new) = AllSubs /\ ~Active(task[w])
  BY <1>0, <1>a DEF Active, ToCall
<1> HIDE DEF new
<1>1. /\ BusType' /\ task'[w] = new /\ \A t \in BusTasks \ {w} : task'[t] = task[t]
  BY <1>0, <1>a, <1>r, <1>t DEF BusInv, BusType
<1>2. /\ \A d, T : Called(d, T)' <=> Called(d, T)
      /\ AdminInv'
  BY <1>0, CalledSame DEF BusInv
<1>p. PlaceInv
  BY DEF BusInv
<1>3. /\ Queued(e) /\ \A d : Queued(d)' => Queued(d) /\ d # e
      /\ \A d : Queued(d) => d = e \/ Queued(d)'
  <2>1. Queued(e)
    BY <1>r DEF Queued
  <2>2. \A i, j \in DOMAIN queue : queue[i] = queue[j] => i = j
    BY <1>p DEF PlaceInv
  <2>3. \A i \in DOMAIN queue' : i + 1 \in DOMAIN queue /\ i + 1 # 1 /\ queue'[i] = queue[i + 1]
    BY <1>r
  <2>4. \A d : Queued(d)' => Queued(d) /\ d # e
    BY <1>r, <2>2, <2>3 DEF Queued
  <2>5. \A i \in DOMAIN queue : i = 1 \/ (i - 1 \in DOMAIN queue' /\ queue'[i - 1] = queue[i])
    BY <1>r
  <2>6. \A d : Queued(d) => d = e \/ Queued(d)'
    BY <1>r, <2>5 DEF Queued
  <2> QED BY <2>1, <2>4, <2>6
<1>4. publ[e] \in {"queued", "late"} /\ Called(e, AllSubs)
  BY <1>3, <1>r, <1>p DEF PlaceInv
<1>5. \A t \in BusTasks : Active(task[t]) => task[t].ev # e
  BY <1>3, <1>p DEF PlaceInv
<1>d. \A d : Carried(d)' <=> Carried(d) \/ d = e
  BY <1>1, <1>a, <1>b, <1>t DEF Carried
<1>6. \A u \in BusTasks : Active(task'[u]) =>
        /\ task'[u].ev \in Events /\ (\A d : d = task'[u].ev => ~Queued(d)') /\ publ[task'[u].ev] \in {"queued", "late", "overflow"}
        /\ Called(task'[u].ev, ToCall(task'[u]))
  <2> SUFFICES ASSUME NEW u \in BusTasks, Active(task'[u])
               PROVE  /\ task'[u].ev \in Events /\ (\A d : d = task'[u].ev => ~Queued(d)') /\ publ[task'[u].ev] \in {"queued", "late", "overflow"}
                      /\ Called(task'[u].ev, ToCall(task'[u]))
    OBVIOUS
  <2>1. CASE u = w
    <3>1. task'[u] = new
      BY <1>1, <2>1
    <3>3. \A d : d = e => ~Queued(d)'
      BY <1>3
    <3> QED BY <1>4, <1>a, <1>b, <1>r, <3>1, <3>3
  <2>2. CASE u # w
    <3>1. task'[u] = task[u]
      BY <1>1, <2>2
    <3>2. /\ task[u].ev \in Events /\ ~Queued(task[u].ev) /\ publ[task[u].ev] \in {"queued", "late", "overflow"}
          /\ Called(task[u].ev, ToCall(task[u]))
      BY <1>p, <3>1 DEF PlaceInv
    <3>3. \A d : ~Queued(d) => ~Queued(d)'
      BY <1>3
    <3> QED BY <3>1, <3>2, <3>3
  <2> QED BY <2>1, <2>2
<1>7. \A u \in BusTasks : (Active(task[u]) =>
            /\ task[u].ev \in Events /\ ~Queued(task[u].ev) /\ publ[task[u].ev] \in {"queued", "late", "overflow"}
            /\ Called(task[u].ev, ToCall(task[u])))'
  BY <1>0, <1>2, <1>6 DEF Active, ToCall
<1>8. \A d \in Events : Active(task'[d]) => task'[d].ev = d /\ publ[d] = "overflow"
  BY <1>1, <1>t, <1>p DEF PlaceInv
<1>9. \A u, v \in BusTasks : Active(task'[u]) /\ Active(task'[v]) /\ task'[u].ev = task'[v].ev => u = v
  BY <1>1, <1>5, <1>a, <1>p DEF PlaceInv
<1>10. \A d \in Events : Queued(d)' => publ[d] \in {"queued", "late"} /\ Called(d, AllSubs)
  BY <1>3, <1>p DEF PlaceInv
<1>11. \A d \in Events : publ[d] \in {"queued", "late", "overflow"} /\ ~Queued(d)' /\ ~Carried(d)' => Called(d, {})
  BY <1>3, <1>d, <1>p DEF PlaceInv
<1>12. \A i, j \in DOMAIN queue' : queue'[i] = queue'[j] => i = j
  <2> SUFFICES ASSUME NEW i \in 1 .. Len(queue) - 1, NEW j \in 1 .. Len(queue) - 1, queue'[i] = queue'[j] PROVE i = j
    BY <1>r
  <2>1. queue[i + 1] = queue[j + 1]
    BY <1>r
  <2>2. i + 1 \in DOMAIN queue /\ j + 1 \in DOMAIN queue
    BY <1>r
  <2>3. i + 1 = j + 1
    BY <1>p, <2>1, <2>2 DEF PlaceInv
  <2> QED BY <2>3
<1>13. PlaceInv'
  BY <1>0, <1>2, <1>7, <1>8, <1>9, <1>10, <1>11, <1>12, <1>p DEF PlaceInv, Active
<1>14. ExitInv'
  <2>1. closer # "closed"
    BY <1>0 DEF BusInv, ExitInv
  <2>2. \A x \in Workers : task'[x].pc = "exit" => task[x].pc = "exit"
    BY <1>1, <1>a, <1>t
  <2> QED BY <1>0, <1>3, <2>1, <2>2 DEF BusInv, ExitInv, Bus!Closed
<1> QED BY <1>1, <1>2, <1>13, <1>14 DEF BusInv

LEMMA CopyStep ==
  ASSUME BusInv, NEW t \in BusTasks, Bus!CopySubscribers(t)
  PROVE  BusInv'
<1> DEFINE new == [task[t] EXCEPT !.pc = "run", !.todo = subs]
<1>e. PICK e : e = task[t].ev
  OBVIOUS
<1>0. /\ task[t].pc = "got" /\ task' = [task EXCEPT ![t] = new] /\ publ' = publ /\ queue' = queue
      /\ closer' = closer /\ subs' = subs /\ handled' = handled /\ stream' = stream /\ shown' = shown
  BY DEF Bus!CopySubscribers
<1>1. /\ task[t] \in TaskType /\ handled \in [Handlers -> [Events -> Nat]] /\ subs \subseteq AllSubs /\ Handlers \subseteq subs
      /\ stream \in [pc : {"dial", "open", "left"}, ch : Seq(Events)] /\ AdminInv
  BY DEF BusInv, BusType, AllSubs, Bus!StreamSubs
<1>2. new \in TaskType /\ new.pc = "run" /\ new.todo = subs /\ new.ev = e
  BY <1>1, <1>e DEF TaskType
<1>3. Active(task[t]) /\ Active(new) /\ ToCall(new) = subs /\ ToCall(task[t]) = AllSubs
  BY <1>0, <1>2 DEF Active, ToCall
<1>4. Called(e, AllSubs)
  BY <1>3, <1>e DEF BusInv, PlaceInv
<1>5. Called(e, subs)
  BY <1>1, <1>4, CalledLess
<1> HIDE DEF new
<1>6. (\A d, T : Called(d, T)' <=> Called(d, T)) /\ AdminInv'
  BY <1>0, <1>1, CalledSame
<1>7. \A T : T = ToCall(new) => Called(e, T)'
  BY <1>3, <1>5, <1>6
<1>n. PICK x : x = new
  OBVIOUS
<1>8. Called(e, ToCall(x))'
  BY <1>7, <1>n
<1> QED BY <1>0, <1>1, <1>2, <1>3, <1>6, <1>8, <1>e, <1>n, TaskStep

LEMMA DispatchedStep ==
  ASSUME BusInv, NEW t \in BusTasks, Bus!Dispatched(t)
  PROVE  BusInv'
<1> DEFINE p == IF t \in Workers THEN "wait" ELSE "exit"
<1> DEFINE new == [task[t] EXCEPT !.pc = p]
<1>e. PICK e : e = task[t].ev
  OBVIOUS
<1>0. /\ task[t].pc = "run" /\ task[t].todo = {} /\ task' = [task EXCEPT ![t] = new] /\ publ' = publ /\ queue' = queue
      /\ closer' = closer /\ subs' = subs /\ handled' = handled /\ stream' = stream /\ shown' = shown
  BY DEF Bus!Dispatched
<1>1. /\ task[t] \in TaskType /\ handled \in [Handlers -> [Events -> Nat]]
      /\ stream \in [pc : {"dial", "open", "left"}, ch : Seq(Events)] /\ AdminInv
  BY DEF BusInv, BusType
<1>p. p \in {"wait", "exit"} /\ (p = "exit" => t \notin Workers)
  OBVIOUS
<1> HIDE DEF p
<1>2. new \in TaskType /\ new.pc = p /\ new.ev = e
  BY <1>1, <1>e, <1>p DEF TaskType
<1>3. Active(task[t]) /\ ~Active(new) /\ ToCall(task[t]) = {}
  BY <1>0, <1>2, <1>p DEF Active, ToCall
<1>4. Called(e, {})
  BY <1>3, <1>e DEF BusInv, PlaceInv
<1> HIDE DEF new
<1>6. (\A d, T : Called(d, T)' <=> Called(d, T)) /\ AdminInv'
  BY <1>0, <1>1, CalledSame
<1>n. PICK x : x = new
  OBVIOUS
<1> QED BY <1>0, <1>1, <1>2, <1>3, <1>4, <1>6, <1>e, <1>n, <1>p, TaskStep

\* A subscriber is called: one name fewer to call.
LEMMA CallHandlerStep ==
  ASSUME BusInv, Handlers \cap {"tenant", "broadcast"} = {}, NEW t \in BusTasks,
         NEW s \in Handlers \cup Bus!StreamSubs, Bus!CallHandler(t, s)
  PROVE  BusInv'
<1> DEFINE new == [task[t] EXCEPT !.todo = task[t].todo \ {s}]
<1>e. PICK e : e = task[t].ev
  OBVIOUS
<1>0. /\ task[t].pc = "run" /\ s \in task[t].todo /\ task' = [task EXCEPT ![t] = new] /\ publ' = publ /\ queue' = queue
      /\ closer' = closer /\ subs' = subs /\ shown' = shown
  BY DEF Bus!CallHandler
<1>1. /\ task[t] \in TaskType /\ handled \in [Handlers -> [Events -> Nat]]
      /\ stream \in [pc : {"dial", "open", "left"}, ch : Seq(Events)] /\ AdminInv
  BY DEF BusInv, BusType
<1>2. new \in TaskType /\ new.pc = "run" /\ new.todo = task[t].todo \ {s} /\ new.ev = e
  BY <1>0, <1>1, <1>e DEF TaskType
<1>3. Active(task[t]) /\ Active(new) /\ ToCall(task[t]) = task[t].todo /\ ToCall(new) = task[t].todo \ {s}
  BY <1>0, <1>2 DEF Active, ToCall
<1>4. Called(e, task[t].todo) /\ e \in Events
  BY <1>3, <1>e DEF BusInv, PlaceInv
<1> HIDE DEF new
<1>n. PICK x : x = new
  OBVIOUS
<1>u. PICK U : U = task[t].todo
  OBVIOUS
<1>5. CASE s \in Handlers
  <2>1. /\ handled' = [handled EXCEPT ![s][e] = IF Bus!Wants(s, e) THEN @ + 1 ELSE @]
        /\ stream' = stream
    BY <1>5, <1>e DEF Bus!CallHandler, Bus!Wants
  <2>2. handled[s][e] = 0
    BY <1>0, <1>4, <1>5 DEF Called
  <2> DEFINE row == [handled[s] EXCEPT ![e] = IF Bus!Wants(s, e) THEN 1 ELSE 0]
  <2>3. handled' = [handled EXCEPT ![s] = row]
    BY <2>1, <2>2, <1>1, <1>4, <1>5
  <2>4. row \in [Events -> Nat] /\ row[e] = (IF Bus!Wants(s, e) THEN 1 ELSE 0) /\ \A d \in Events \ {e} : row[d] = handled[s][d]
    BY <1>1, <1>4, <1>5
  <2> HIDE DEF row
  <2>5. /\ handled' \in [Handlers -> [Events -> Nat]] /\ handled'[s] = row
        /\ \A h \in Handlers \ {s} : handled'[h] = handled[h]
    BY <1>1, <1>5, <2>3, <2>4
  <2>6. \A d \in Events : d # e => \A h \in Handlers : handled'[h][d] = handled[h][d]
    BY <2>4, <2>5
  <2>7. \A d \in Events : d # e => \A T : Called(d, T)' <=> Called(d, T)
    BY <1>0, <2>1, <2>6 DEF Called, Once, Fresh
  <2>8. \A h \in Handlers : handled'[h][e] = IF h \notin U \ {s} /\ Bus!Wants(h, e) THEN 1 ELSE 0
    BY <1>4, <1>u, <2>4, <2>5 DEF Called
  <2>9. Once(e) /\ (SubOf(e) \in U \ {s} => Fresh(e))
    BY <1>4, <1>u DEF Called
  <2>10. Once(e)' /\ (SubOf(e) \in U \ {s} => Fresh(e)')
    BY <1>0, <2>1, <2>9 DEF Once, Fresh
  <2>11. Called(e, U \ {s})'
    BY <2>8, <2>10 DEF Called
  <2>12. AdminInv'
    BY <1>0, <1>1, <2>1 DEF AdminInv
  <2>13. Called(e, ToCall(x))'
    BY <1>3, <1>n, <1>u, <2>11
  <2> QED BY <1>0, <1>1, <1>2, <1>3, <1>e, <1>n, <2>1, <2>5, <2>7, <2>12, <2>13, TaskStep
<1>6. CASE s \notin Handlers
  <2>0. s \in Bus!StreamSubs /\ handled' = handled
    BY <1>6 DEF Bus!CallHandler
  <2>s. s \in {"tenant", "broadcast"} /\ (s = "broadcast" => Admin)
    BY <2>0 DEF Bus!StreamSubs
  <2>1. CASE stream' = stream
    <3>1. (\A d, T : Called(d, T)' <=> Called(d, T)) /\ AdminInv'
      BY <1>0, <1>1, <2>0, <2>1, CalledSame
    <3>2. Called(e, U \ {s})
      BY <1>4, <1>6, <1>u, CalledLess
    <3>3. Called(e, ToCall(x))'
      BY <1>3, <1>n, <1>u, <3>1, <3>2
    <3> QED BY <1>0, <1>1, <1>2, <1>3, <1>e, <1>n, <2>0, <2>1, <3>1, <3>3, TaskStep
  <2>2. CASE stream' # stream
    <3>1. Bus!StreamWants(s, e) /\ stream' = [stream EXCEPT !.ch = Append(@, e)]
      BY <1>6, <1>e, <2>2 DEF Bus!CallHandler, Bus!Offer
    <3>2. s = SubOf(e)
      BY <2>s, <3>1 DEF Bus!StreamWants, SubOf
    <3>3. Fresh(e) /\ \A h \in Handlers : handled[h][e] = IF h \notin U /\ Bus!Wants(h, e) THEN 1 ELSE 0
      BY <1>0, <1>4, <1>u, <3>2 DEF Called
    <3>4. stream.ch \in Seq(Events)
      BY <1>1
    <3>5. /\ stream'.ch \in Seq(Events) /\ Len(stream.ch) \in Nat /\ DOMAIN stream.ch = 1 .. Len(stream.ch)
          /\ DOMAIN stream'.ch = 1 .. Len(stream.ch) + 1
          /\ \A i \in 1 .. Len(stream.ch) : stream'.ch[i] = stream.ch[i]
          /\ stream'.ch[Len(stream.ch) + 1] = e
          /\ stream' \in [pc : {"dial", "open", "left"}, ch : Seq(Events)]
      <4>1. Append(stream.ch, e) \in Seq(Events)
        BY <1>4, <3>4, AppendFacts
      <4>2. stream'.ch = Append(stream.ch, e) /\ stream' \in [pc : {"dial", "open", "left"}, ch : Seq(Events)]
        BY <1>1, <3>1, <4>1
      <4> QED BY <1>4, <3>4, <4>2, AppendFacts
    <3>6. \A d \in Events : d # e => (Once(d)' <=> Once(d)) /\ (Fresh(d)' <=> Fresh(d))
      <4> TAKE d \in Events
      <4> HAVE d # e
      <4>1. /\ \A i \in DOMAIN stream.ch : i \in DOMAIN stream'.ch /\ stream'.ch[i] = stream.ch[i]
            /\ \A i \in DOMAIN stream'.ch : stream'.ch[i] = d => i \in DOMAIN stream.ch
        BY <3>5
      <4>2. Fresh(d)' <=> Fresh(d)
        BY <1>0, <4>1 DEF Fresh
      <4>3. Once(d)' <=> Once(d)
        BY <1>0, <4>1 DEF Once
      <4> QED BY <4>2, <4>3
    <3>7. \A d \in Events : d # e => \A T : Called(d, T)' <=> Called(d, T)
      BY <2>0, <3>6 DEF Called
    <3>8. Once(e)'
      BY <1>0, <3>3, <3>5 DEF Once, Fresh
    <3>9. \A h \in Handlers : handled'[h][e] = IF h \notin U \ {s} /\ Bus!Wants(h, e) THEN 1 ELSE 0
      BY <1>6, <2>0, <3>3
    <3>10. Called(e, U \ {s})'
      BY <3>2, <3>8, <3>9 DEF Called
    <3>11. Called(e, ToCall(x))'
      BY <1>3, <1>n, <1>u, <3>10
    <3>12. Admin \/ TenantOf[e] = User
      BY <2>s, <3>1 DEF Bus!StreamWants
    <3>13. AdminInv'
      <4>1. \A i \in DOMAIN stream'.ch : stream'.ch[i] = e \/ (i \in DOMAIN stream.ch /\ stream'.ch[i] = stream.ch[i])
        BY <3>5
      <4> QED BY <1>0, <1>1, <3>12, <4>1 DEF AdminInv
    <3> QED BY <1>0, <1>1, <1>2, <1>3, <1>e, <1>n, <2>0, <3>5, <3>7, <3>11, <3>13, TaskStep
  <2> QED BY <2>1, <2>2
<1> QED BY <1>5, <1>6

LEMMA WorkerExitsStep ==
  ASSUME BusInv, Workers \cap Events = {}, NEW w \in Workers, Bus!WorkerExits(w)
  PROVE  BusInv'
<1> DEFINE new == [task[w] EXCEPT !.pc = "exit"]
<1>0. /\ task[w].pc = "wait" /\ Bus!Closed /\ queue = <<>> /\ task' = [task EXCEPT ![w] = new] /\ publ' = publ
      /\ queue' = queue /\ closer' = closer /\ subs' = subs /\ handled' = handled /\ stream' = stream /\ shown' = shown
  BY DEF Bus!WorkerExits
<1>t. w \in BusTasks /\ Events \subseteq BusTasks /\ Workers \subseteq BusTasks /\ w \notin Events
  BY DEF BusTasks
<1>1. task[w] \in TaskType
  BY <1>t DEF BusInv, BusType
<1>2. new \in TaskType /\ new.pc = "exit"
  BY <1>1 DEF TaskType
<1>3. ~Active(task[w]) /\ ~Active(new)
  BY <1>0, <1>2 DEF Active
<1> HIDE DEF new
<1>4. BusType' /\ task'[w] = new /\ \A u \in BusTasks \ {w} : task'[u] = task[u]
  BY <1>0, <1>2, <1>t DEF BusInv, BusType
<1>5. (\A d, T : Called(d, T)' <=> Called(d, T)) /\ AdminInv'
  BY <1>0, CalledSame DEF BusInv
<1>6. \A d : (Queued(d)' <=> Queued(d)) /\ (Carried(d)' <=> Carried(d))
  BY <1>0, <1>3, <1>4, <1>t DEF Queued, Carried
<1>p. PlaceInv
  BY DEF BusInv
<1>7. \A u \in BusTasks : (Active(task[u]) =>
            /\ task[u].ev \in Events /\ ~Queued(task[u].ev) /\ publ[task[u].ev] \in {"queued", "late", "overflow"}
            /\ Called(task[u].ev, ToCall(task[u])))'
  <2>1. \A u \in BusTasks : Active(task'[u]) =>
            /\ task'[u].ev \in Events /\ ~Queued(task'[u].ev) /\ publ[task'[u].ev] \in {"queued", "late", "overflow"}
            /\ Called(task'[u].ev, ToCall(task'[u]))
    BY <1>3, <1>4, <1>p DEF PlaceInv
  <2> QED BY <1>0, <1>5, <1>6, <2>1 DEF Active, ToCall
<1>8. \A u, v \in BusTasks : Active(task'[u]) /\ Active(task'[v]) /\ task'[u].ev = task'[v].ev => u = v
  BY <1>3, <1>4, <1>p DEF PlaceInv
<1>9. \A d \in Events : task'[d] = task[d]
  BY <1>4, <1>t
<1>10. PlaceInv'
  BY <1>0, <1>5, <1>6, <1>7, <1>8, <1>9, <1>p DEF PlaceInv, Active
<1>11. ExitInv'
  <2>1. closer # "closed"
    BY <1>0 DEF BusInv, ExitInv
  <2>2. \A d : ~Queued(d)'
    BY <1>0 DEF Queued
  <2> QED BY <1>0, <2>1, <2>2 DEF ExitInv, Bus!Closed
<1> QED BY <1>4, <1>5, <1>10, <1>11 DEF BusInv

\* What leaves the events where they are.
LEMMA PlaceStays ==
  ASSUME PlaceInv, publ' = publ, queue' = queue, task' = task, \A e \in Events : \A T : Called(e, T)' <=> Called(e, T)
  PROVE  PlaceInv'
<1>1. \A d : (Queued(d)' <=> Queued(d)) /\ (Carried(d)' <=> Carried(d))
  BY DEF Queued, Carried
<1>2. \A u \in BusTasks : (Active(task[u]) =>
            /\ task[u].ev \in Events /\ ~Queued(task[u].ev) /\ publ[task[u].ev] \in {"queued", "late", "overflow"}
            /\ Called(task[u].ev, ToCall(task[u])))'
  <2>1. \A u \in BusTasks : Active(task[u]) =>
            /\ task[u].ev \in Events /\ ~Queued(task[u].ev) /\ publ[task[u].ev] \in {"queued", "late", "overflow"}
            /\ Called(task[u].ev, ToCall(task[u]))
    BY DEF PlaceInv
  <2> QED BY <1>1, <2>1
<1> QED BY <1>1, <1>2 DEF PlaceInv

\* The client is sent the first message of the channel.
LEMMA WriteStep ==
  ASSUME BusInv, Bus!WriteMessage
  PROVE  BusInv'
<1> DEFINE rest == Tail(stream.ch)
<1>e. PICK e : e = Head(stream.ch)
  OBVIOUS
<1>0. /\ stream.ch # <<>> /\ stream' = [stream EXCEPT !.ch = rest]
      /\ shown' = [shown EXCEPT ![e] = @ + 1] /\ publ' = publ /\ queue' = queue /\ closer' = closer
      /\ subs' = subs /\ task' = task /\ handled' = handled
  BY <1>e DEF Bus!WriteMessage
<1>1. /\ stream \in [pc : {"dial", "open", "left"}, ch : Seq(Events)] /\ stream.ch \in Seq(Events)
      /\ shown \in [Events -> Nat] /\ AdminInv
  BY DEF BusInv, BusType
<1>2. /\ Len(stream.ch) \in Nat /\ Len(stream.ch) > 0 /\ DOMAIN stream.ch = 1 .. Len(stream.ch)
      /\ e = stream.ch[1] /\ e \in Events /\ rest \in Seq(Events) /\ DOMAIN rest = 1 .. Len(stream.ch) - 1
      /\ \A i \in 1 .. Len(stream.ch) - 1 : rest[i] = stream.ch[i + 1]
  BY <1>0, <1>1, <1>e, TailFacts
<1> HIDE DEF rest
<1>3. stream'.ch = rest /\ stream' \in [pc : {"dial", "open", "left"}, ch : Seq(Events)]
  BY <1>0, <1>1, <1>2
<1>4. shown' \in [Events -> Nat] /\ shown'[e] = shown[e] + 1 /\ \A d \in Events \ {e} : shown'[d] = shown[d]
  BY <1>0, <1>1, <1>2
<1>5. BusType'
  BY <1>0, <1>3, <1>4 DEF BusInv, BusType
<1>a. \A i \in DOMAIN rest : i + 1 \in DOMAIN stream.ch /\ i + 1 # 1 /\ rest[i] = stream.ch[i + 1] /\ i \in Nat
  BY <1>2
<1>b. \A i \in DOMAIN stream.ch : i = 1 \/ (i - 1 \in DOMAIN rest /\ rest[i - 1] = stream.ch[i])
  BY <1>2
<1>6. ASSUME NEW d \in Events, d # e PROVE (Once(d)' <=> Once(d)) /\ (Fresh(d)' <=> Fresh(d))
  <2>1. shown'[d] = shown[d]
    BY <1>4, <1>6
  <2>2. (\A i \in DOMAIN rest : rest[i] # d) <=> (\A i \in DOMAIN stream.ch : stream.ch[i] # d)
    BY <1>2, <1>a, <1>b, <1>6
  <2>3. (\A i, j \in DOMAIN rest : rest[i] = d /\ rest[j] = d => i = j) <=>
        (\A i, j \in DOMAIN stream.ch : stream.ch[i] = d /\ stream.ch[j] = d => i = j)
    <3>1. ASSUME \A i, j \in DOMAIN rest : rest[i] = d /\ rest[j] = d => i = j,
                 NEW i \in DOMAIN stream.ch, NEW j \in DOMAIN stream.ch, stream.ch[i] = d, stream.ch[j] = d
          PROVE  i = j
      <4>1. i # 1 /\ j # 1
        BY <1>2, <1>6, <3>1
      <4>2. i - 1 \in DOMAIN rest /\ rest[i - 1] = d /\ j - 1 \in DOMAIN rest /\ rest[j - 1] = d
        BY <1>b, <3>1, <4>1
      <4>3. i - 1 = j - 1
        BY <3>1, <4>2
      <4> QED BY <1>2, <4>3
    <3>2. ASSUME \A i, j \in DOMAIN stream.ch : stream.ch[i] = d /\ stream.ch[j] = d => i = j,
                 NEW i \in DOMAIN rest, NEW j \in DOMAIN rest, rest[i] = d, rest[j] = d
          PROVE  i = j
      <4>1. i + 1 = j + 1
        BY <1>a, <3>2
      <4> QED BY <1>a, <4>1
    <3> QED BY <3>1, <3>2
  <2> QED BY <1>3, <2>1, <2>2, <2>3 DEF Once, Fresh
<1>7. Once(e) => Once(e)'
  <2> SUFFICES ASSUME Once(e) PROVE Once(e)'
    OBVIOUS
  <2>1. shown[e] = 0 /\ \A i, j \in DOMAIN stream.ch : stream.ch[i] = e /\ stream.ch[j] = e => i = j
    BY <1>2 DEF Once
  <2>2. \A i \in DOMAIN rest : rest[i] # e
    BY <1>2, <1>a, <2>1
  <2> QED BY <1>3, <1>4, <2>1, <2>2 DEF Once
<1>8. ~Fresh(e) /\ ~Fresh(e)'
  <2>1. 1 \in DOMAIN stream.ch /\ stream.ch[1] = e /\ shown'[e] # 0
    BY <1>1, <1>2, <1>4
  <2> QED BY <2>1 DEF Fresh
<1>9. \A T : Called(e, T) => Called(e, T)'
  BY <1>0, <1>7, <1>8 DEF Called
<1>10. \A d \in Events : d # e => \A T : Called(d, T)' <=> Called(d, T)
  BY <1>0, <1>6 DEF Called
<1>11. \A d \in Events : \A T : Called(d, T) => Called(d, T)'
  BY <1>9, <1>10
<1>12. AdminInv'
  <2>1. \A d \in Events : shown'[d] > 0 => shown[d] > 0 \/ d = e
    BY <1>4
  <2>2. \A d \in Events : (\E i \in DOMAIN rest : rest[i] = d) => \E i \in DOMAIN stream.ch : stream.ch[i] = d
    BY <1>a
  <2>3. \E i \in DOMAIN stream.ch : stream.ch[i] = e
    BY <1>2
  <2> QED BY <1>1, <1>2, <1>3, <2>1, <2>2, <2>3 DEF AdminInv
<1>13. PlaceInv'
  <2>p. PlaceInv
    BY DEF BusInv
  <2>1. \A d : (Queued(d)' <=> Queued(d)) /\ (Carried(d)' <=> Carried(d))
    BY <1>0 DEF Queued, Carried
  <2>2. \A u \in BusTasks : (Active(task[u]) =>
            /\ task[u].ev \in Events /\ ~Queued(task[u].ev) /\ publ[task[u].ev] \in {"queued", "late", "overflow"}
            /\ Called(task[u].ev, ToCall(task[u])))'
    <3>1. \A u \in BusTasks : Active(task[u]) =>
            /\ task[u].ev \in Events /\ ~Queued(task[u].ev) /\ publ[task[u].ev] \in {"queued", "late", "overflow"}
            /\ Called(task[u].ev, ToCall(task[u]))
      BY <2>p DEF PlaceInv
    <3> QED BY <1>0, <1>11, <2>1, <3>1
  <2> QED BY <1>0, <1>11, <2>p, <2>1, <2>2 DEF PlaceInv
<1>14. ExitInv'
  BY <1>0 DEF BusInv, ExitInv, Bus!Closed, Queued
<1> QED BY <1>5, <1>12, <1>13, <1>14 DEF BusInv

LEMMA BusStep ==
  ASSUME Workers \cap Events = {}, Handlers \cap {"tenant", "broadcast"} = {}, BusInv, [Bus!Next]_(Bus!busVars)
  PROVE  BusInv'
<1>0. Events \subseteq BusTasks /\ Workers \subseteq BusTasks /\ PlaceInv /\ AdminInv
  BY DEF BusTasks, BusInv
<1>1. ASSUME NEW e \in Events, Bus!Publish(e) PROVE BusInv'
  <2>1. CASE Bus!PublishRefused(e)
    BY <2>1, PublishStep DEF Bus!PublishRefused
  <2>2. CASE Bus!PublishChecks(e)
    BY <2>2, PublishStep DEF Bus!PublishChecks
  <2>3. CASE Bus!Store(e)
    BY <2>3, PublishStep DEF Bus!Store
  <2>4. CASE Bus!SendPanics(e)
    BY <2>4, PublishStep DEF Bus!SendPanics
  <2> QED BY <1>1, <2>1, <2>2, <2>3, <2>4, EnqueueStep, OverflowStep DEF Bus!Publish
<1>2. ASSUME NEW t \in BusTasks, Bus!Carry(t) PROVE BusInv'
  BY <1>2, CopyStep, DispatchedStep, CallHandlerStep DEF Bus!Carry
<1>3. ASSUME NEW w \in Workers, Bus!Worker(w) PROVE BusInv'
  BY <1>0, <1>2, <1>3, ReceiveStep, WorkerExitsStep DEF Bus!Worker
\* The steps that move no event.
<1>4. ASSUME publ' = publ, queue' = queue, task' = task, handled' = handled, shown' = shown,
             stream'.ch = stream.ch, BusType', ExitInv'
      PROVE  BusInv'
  <2>1. (\A d, T : Called(d, T)' <=> Called(d, T)) /\ AdminInv'
    BY <1>0, <1>4, CalledSame
  <2>2. PlaceInv'
    BY <1>0, <1>4, <2>1, PlaceStays
  <2> QED BY <1>4, <2>1, <2>2 DEF BusInv
<1>5. CASE Bus!Close \/ Bus!CloseChannel
  <2>1. /\ closer \in {"open", "canceled"} /\ closer' \in {"canceled", "waiting"} /\ publ' = publ /\ queue' = queue /\ task' = task
        /\ handled' = handled /\ shown' = shown /\ stream' = stream /\ subs' = subs
    BY <1>5 DEF Bus!Close, Bus!CloseChannel, Bus!Locked
  <2>2. BusType'
    BY <2>1 DEF BusInv, BusType
  <2>3. ExitInv'
    BY <2>1 DEF BusInv, ExitInv, Bus!Closed, Queued
  <2> QED BY <1>4, <2>1, <2>2, <2>3
<1>6. CASE Bus!CloseReturns
  <2>1. /\ closer = "waiting" /\ closer' = "closed" /\ publ' = publ /\ queue' = queue /\ task' = task
        /\ handled' = handled /\ shown' = shown /\ stream' = stream /\ subs' = subs
        /\ \A w \in Workers : task[w].pc = "exit"
    BY <1>6 DEF Bus!CloseReturns
  <2>2. BusType'
    BY <2>1 DEF BusInv, BusType
  <2>3. ExitInv'
    BY <2>1 DEF BusInv, ExitInv, Bus!Closed, Queued
  <2> QED BY <1>4, <2>1, <2>2, <2>3
<1>7. ASSUME NEW s \in Bus!StreamSubs, Bus!Subscribe(s) \/ Bus!Unsubscribe(s) PROVE BusInv'
  <2>1. stream \in [pc : {"dial", "open", "left"}, ch : Seq(Events)]
    BY DEF BusInv, BusType
  <2>2. /\ publ' = publ /\ queue' = queue /\ task' = task /\ handled' = handled /\ shown' = shown /\ closer' = closer
        /\ subs' = subs \cup {s} \/ subs' = subs \ {s}
        /\ stream' = stream \/ stream' = [stream EXCEPT !.pc = "open"] \/ stream' = [stream EXCEPT !.pc = "left"]
    BY <1>7 DEF Bus!Subscribe, Bus!Unsubscribe
  <2>3. stream' \in [pc : {"dial", "open", "left"}, ch : Seq(Events)] /\ stream'.ch = stream.ch
    BY <2>1, <2>2
  <2>4. s \notin Handlers
    BY DEF Bus!StreamSubs
  <2>5. subs' \subseteq Handlers \cup Bus!StreamSubs /\ Handlers \subseteq subs'
    BY <2>2, <2>4 DEF BusInv, BusType
  <2>6. BusType'
    BY <2>2, <2>3, <2>5 DEF BusInv, BusType
  <2>7. ExitInv'
    BY <2>2 DEF BusInv, ExitInv, Bus!Closed, Queued
  <2> QED BY <1>4, <2>2, <2>3, <2>6, <2>7
<1>8. CASE UNCHANGED Bus!busVars
  <2>1. /\ publ' = publ /\ queue' = queue /\ task' = task /\ handled' = handled /\ shown' = shown
        /\ stream' = stream /\ subs' = subs /\ closer' = closer
    BY <1>8 DEF Bus!busVars
  <2>2. BusType'
    BY <2>1 DEF BusInv, BusType
  <2>3. ExitInv'
    BY <2>1 DEF BusInv, ExitInv, Bus!Closed, Queued
  <2> QED BY <1>4, <2>1, <2>2, <2>3
<1> QED BY <1>0, <1>1, <1>2, <1>3, <1>5, <1>6, <1>7, <1>8, WriteStep DEF Bus!Next

LEMMA BusInit ==
  ASSUME Bus!Init
  PROVE  BusInv
<1>1. /\ publ = [e \in Events |-> "idle"] /\ queue = <<>> /\ closer = "open" /\ subs = Handlers
      /\ task = [t \in BusTasks |-> Bus!NoTask] /\ handled = [h \in Handlers |-> [e \in Events |-> 0]]
      /\ stream = [pc |-> "dial", ch |-> <<>>] /\ shown = [e \in Events |-> 0]
  BY DEF Bus!Init, BusTasks
<1>2. Bus!NoTask \in TaskType /\ Bus!NoTask.pc = "wait"
  BY DEF Bus!NoTask, TaskType
<1>3. queue \in Seq(Events) /\ DOMAIN queue = {} /\ stream.ch \in Seq(Events) /\ DOMAIN stream.ch = {}
  BY <1>1
<1>4. BusType
  BY <1>1, <1>2, <1>3 DEF BusType
<1>5. \A t \in BusTasks : ~Active(task[t]) /\ task[t].pc = "wait"
  BY <1>1, <1>2 DEF Active
<1>6. \A e \in Events : ~Queued(e) /\ ~Carried(e)
  BY <1>3, <1>5 DEF Queued, Carried
<1>7. \A e \in Events : Called(e, AllSubs)
  BY <1>1, <1>3 DEF Called, Once, Fresh, AllSubs
<1>8. PlaceInv
  <2>1. Events \subseteq BusTasks
    BY DEF BusTasks
  <2> QED BY <1>1, <1>3, <1>5, <1>6, <1>7, <2>1 DEF PlaceInv
<1>9. ExitInv
  <2>1. Workers \subseteq BusTasks
    BY DEF BusTasks
  <2> QED BY <1>1, <1>5, <2>1 DEF ExitInv
<1>10. AdminInv
  BY <1>1, <1>3 DEF AdminInv
<1> QED BY <1>4, <1>8, <1>9, <1>10 DEF BusInv

\* When Close returns, every event that was queued before it canceled the context
\* has run every handler that wants it exactly once, for every set of events,
\* handlers and workers and every buffer (bus.go, Publish, worker and Close),
\* although workers leave and publishers send between the cancellation and the
\* closing of the channel. There is a worker, and no handler has the name of a
\* stream's subscription.
THEOREM DrainCorrect ==
  ASSUME Workers # {}, Workers \cap Events = {}, Handlers \cap {"tenant", "broadcast"} = {}
  PROVE  Bus!Spec => []Bus!CloseDrains
<1>1. Bus!Init => BusInv
  BY BusInit
<1>2. BusInv /\ [Bus!Next]_(Bus!busVars) => BusInv'
  BY BusStep
<1>3. BusInv => Bus!CloseDrains
  <2> SUFFICES ASSUME BusInv, closer = "closed"
               PROVE  \A e \in Events : publ[e] = "queued" => Bus!HandledOnce(e)
    BY DEF Bus!CloseDrains
  <2>1. (\A w \in Workers : task[w].pc = "exit") /\ \A e \in Events : Queued(e) => publ[e] = "late"
    BY DEF BusInv, ExitInv
  <2>2. ASSUME NEW e \in Events, publ[e] = "queued" PROVE Bus!HandledOnce(e)
    <3>1. ~Queued(e)
      BY <2>1, <2>2
    <3>2. ~Carried(e)
      <4> SUFFICES ASSUME NEW t \in BusTasks, Active(task[t]), task[t].ev = e PROVE FALSE
        BY DEF Carried
      <4>1. t \notin Workers
        BY <2>1 DEF Active
      <4>2. t \in Events
        BY <4>1 DEF BusTasks
      <4> QED BY <2>2, <4>2 DEF BusInv, PlaceInv
    <3>3. Called(e, {})
      BY <2>2, <3>1, <3>2 DEF BusInv, PlaceInv
    <3> QED BY <3>3 DEF Called, Bus!HandledOnce
  <2> QED BY <2>1, <2>2
<1> QED BY <1>1, <1>2, <1>3, PTL DEF Bus!Spec

\* A stream with two subscriptions shows its client no event twice, and another
\* tenant's events only to an administrator (events.go), for every set of
\* events and every capacity of the channel.
THEOREM StreamCorrect ==
  ASSUME Workers \cap Events = {}, Handlers \cap {"tenant", "broadcast"} = {}
  PROVE  Bus!Spec => []Bus!StreamShowsOnce
<1>1. Bus!Init => BusInv
  BY BusInit
<1>2. BusInv /\ [Bus!Next]_(Bus!busVars) => BusInv'
  BY BusStep
<1>3. BusInv => Bus!StreamShowsOnce
  <2> SUFFICES ASSUME BusInv, NEW e \in Events
               PROVE  /\ shown[e] + Cardinality({i \in DOMAIN stream.ch : stream.ch[i] = e}) <= 1
                      /\ shown[e] > 0 => Admin \/ TenantOf[e] = User
    BY BusCard DEF Bus!StreamShowsOnce
  <2>1. Once(e)
    <3>1. CASE Queued(e)
      BY <3>1 DEF BusInv, PlaceInv, Called
    <3>2. CASE Carried(e)
      BY <3>2 DEF BusInv, PlaceInv, Called, Carried
    <3>3. CASE ~Queued(e) /\ ~Carried(e)
      BY <3>3 DEF BusInv, PlaceInv, Called
    <3> QED BY <3>1, <3>2, <3>3
  <2> DEFINE I == {i \in DOMAIN stream.ch : stream.ch[i] = e}
  <2>2. CASE I = {}
    <3>1. Cardinality(I) = 0
      BY <2>2, FS_EmptySet
    <3> QED BY <2>1, <3>1 DEF Once, BusInv, AdminInv
  <2>3. CASE I # {}
    <3>1. PICK i \in I : TRUE
      BY <2>3
    <3>2. I = {i} /\ shown[e] = 0
      BY <2>1, <3>1 DEF Once
    <3>3. Cardinality(I) = 1
      BY <3>2, FS_Singleton
    <3> QED BY <3>2, <3>3
  <2> QED BY <2>2, <2>3
<1> QED BY <1>1, <1>2, <1>3, PTL DEF Bus!Spec

-----------------------------------------------------------------------------
(***************************************************************************)
(* Billing: every call for one key and period is answered with one         *)
(* invoice, charged as it says, and a metering call that returned has      *)
(* recorded its hour in every metric. The unique key of the table decides  *)
(* between overlapping calls: a call between its charge and its insert     *)
(* holds an amount that nobody answers yet, and whoever loses the insert   *)
(* answers the row that is there.                                          *)
(***************************************************************************)
GenPcs == {"idle", "locked", "load", "pay", "create", "done", "failed"}

GenType(T, G) == [pc : GenPcs, total : T, status : {"open", "paid"}, got : G]

GenTyped(T, G) == gen \in [Generators -> GenType(T, G)]

RowTyped(i, T) == i \in [id : Generators, total : T, status : {"open", "paid", "void"}]

Charged(g, amount) == amount = 0 \/ \E q \in payments : q.key = g /\ q.amount = amount

\* The table holds one row at most, a call that is done has its id, and a call
\* that has paid, and the row it makes, have their charge.
InvoiceInv ==
  /\ \E T, G : GenTyped(T, G) /\ \A i \in invoices : RowTyped(i, T)
  /\ \A i, j \in invoices : i = j
  /\ \A g \in Generators : gen[g].pc = "done" => {i.id : i \in invoices} = {gen[g].got}
  /\ \A g \in Generators : gen[g].pc = "create" => gen[g].status = "paid" /\ Charged(g, gen[g].total)
  /\ \A i \in invoices : i.status = "paid" => Charged(i.id, i.total)

LEMMA GenWider ==
  ASSUME NEW T, NEW G, NEW U, NEW H, T \subseteq U, G \subseteq H, GenTyped(T, G),
         \A i \in invoices : RowTyped(i, T)
  PROVE  GenTyped(U, H) /\ \A i \in invoices : RowTyped(i, U)
<1>1. GenType(T, G) \subseteq GenType(U, H)
  BY DEF GenType
<1>2. [id : Generators, total : T, status : {"open", "paid", "void"}] \subseteq [id : Generators, total : U, status : {"open", "paid", "void"}]
  OBVIOUS
<1> QED BY <1>1, <1>2 DEF GenTyped, RowTyped

\* The table and the charges stay, and the call that moves is where it may be.
LEMMA GenStep ==
  ASSUME InvoiceInv, NEW T, NEW G, GenTyped(T, G), \A i \in invoices : RowTyped(i, T), NEW g \in Generators,
         NEW new \in GenType(T, G), gen' = [gen EXCEPT ![g] = new],
         invoices' = invoices, payments \subseteq payments',
         new.pc = "done" => {i.id : i \in invoices} = {new.got},
         new.pc = "create" => new.status = "paid" /\ Charged(g, new.total)'
  PROVE  InvoiceInv'
<1>1. GenTyped(T, G)' /\ gen'[g] = new /\ \A h \in Generators \ {g} : gen'[h] = gen[h]
  BY DEF GenTyped
<1>2. \A h, a : Charged(h, a) => Charged(h, a)'
  BY DEF Charged
<1>3. \A i \in invoices' : RowTyped(i, T)'
  BY DEF RowTyped
<1>4. \A h \in Generators : gen'[h].pc = "done" => {i.id : i \in invoices'} = {gen'[h].got}
  BY <1>1 DEF InvoiceInv
<1>5. \A h \in Generators : gen'[h].pc = "create" => gen'[h].status = "paid" /\ \A a : a = gen'[h].total => Charged(h, a)'
  BY <1>1, <1>2 DEF InvoiceInv
<1>6. \A i \in invoices' : i.status = "paid" => Charged(i.id, i.total)'
  BY <1>2 DEF InvoiceInv
<1>7. \A i, j \in invoices' : i = j
  BY DEF InvoiceInv
<1>8. \A h \in Generators : (gen[h].pc = "create" => gen[h].status = "paid" /\ Charged(h, gen[h].total))'
  BY <1>5
<1> QED BY <1>1, <1>3, <1>4, <1>6, <1>7, <1>8 DEF InvoiceInv

\* The id of the one row there is.
LEMMA RowFound ==
  ASSUME \A i, j \in invoices : i = j, invoices # {}
  PROVE  {i.id : i \in invoices} = {(CHOOSE i \in invoices : TRUE).id}
<1> DEFINE c == CHOOSE i \in invoices : TRUE
<1>1. c \in invoices
  OBVIOUS
<1> HIDE DEF c
<1>2. invoices = {c}
  BY <1>1
<1> QED BY <1>2 DEF c

LEMMA FoundStep ==
  ASSUME InvoiceInv, NEW g \in Generators, Invoices!Found(g), invoices' = invoices, payments' = payments
  PROVE  InvoiceInv'
<1>1. PICK T, G : GenTyped(T, G) /\ \A i \in invoices : RowTyped(i, T)
  BY DEF InvoiceInv
<1> DEFINE c == (CHOOSE i \in invoices : TRUE).id
<1>2. PICK H : H = G \cup {c}
  OBVIOUS
<1>3. GenTyped(T, H) /\ \A i \in invoices : RowTyped(i, T)
  BY <1>1, <1>2, GenWider
<1>4. gen[g] \in GenType(T, H) /\ c \in H
  BY <1>2, <1>3 DEF GenTyped
<1>5. invoices # {} => {i.id : i \in invoices} = {c}
  BY RowFound DEF InvoiceInv
<1>6. gen' = [gen EXCEPT ![g] = IF invoices = {} THEN [gen[g] EXCEPT !.pc = "load"]
                                ELSE [gen[g] EXCEPT !.pc = "done", !.got = c]]
  <2>1. gen \in [Generators -> GenType(T, G)]
    BY <1>1 DEF GenTyped
  <2> QED BY <2>1 DEF Invoices!Found
<1> HIDE DEF c
<1>7. CASE invoices = {}
  <2> DEFINE new == [gen[g] EXCEPT !.pc = "load"]
  <2>1. new \in GenType(T, H) /\ new.pc = "load"
    BY <1>4 DEF GenPcs, GenType
  <2>2. gen' = [gen EXCEPT ![g] = new]
    BY <1>6, <1>7
  <2> HIDE DEF new
  <2> QED BY <1>3, <2>1, <2>2, GenStep
<1>8. CASE invoices # {}
  <2> DEFINE new == [gen[g] EXCEPT !.pc = "done", !.got = c]
  <2>1. new \in GenType(T, H) /\ new.pc = "done" /\ new.got = c
    BY <1>4 DEF GenPcs, GenType
  <2>2. gen' = [gen EXCEPT ![g] = new]
    BY <1>6, <1>8
  <2> HIDE DEF new
  <2> QED BY <1>3, <1>5, <1>8, <2>1, <2>2, GenStep
<1> QED BY <1>7, <1>8

LEMMA CreateRowStep ==
  ASSUME InvoiceInv, NEW g \in Generators, gen[g].pc = "create", Invoices!CreateRow(g), payments' = payments
  PROVE  InvoiceInv'
<1>1. PICK T, G : GenTyped(T, G) /\ \A i \in invoices : RowTyped(i, T)
  BY DEF InvoiceInv
<1>2. CASE invoices = {}
  <2>1. PICK H : H = G \cup {g}
    OBVIOUS
  <2>2. GenTyped(T, H) /\ \A i \in invoices : RowTyped(i, T)
    BY <1>1, <2>1, GenWider
  <2> DEFINE new == [gen[g] EXCEPT !.pc = "done", !.got = g]
  <2> DEFINE r == [id |-> g, total |-> gen[g].total, status |-> gen[g].status]
  <2>3. gen[g] \in GenType(T, H) /\ g \in H
    BY <2>1, <2>2 DEF GenTyped
  <2>4. new \in GenType(T, H) /\ new.pc = "done" /\ new.got = g
    BY <2>3 DEF GenPcs, GenType
  <2>5. gen' = [gen EXCEPT ![g] = new] /\ invoices' = {r}
    BY <1>2 DEF Invoices!CreateRow, Invoices!CreateAgain
  <2>6. RowTyped(r, T) /\ r.id = g /\ r.status = gen[g].status /\ r.total = gen[g].total
    BY <2>3 DEF RowTyped, GenType
  <2> HIDE DEF new, r
  <2>7. GenTyped(T, H)' /\ gen'[g] = new /\ \A h \in Generators \ {g} : gen'[h] = gen[h]
    BY <2>2, <2>4, <2>5 DEF GenTyped
  <2>8. \A i \in invoices' : RowTyped(i, T)'
    BY <2>5, <2>6 DEF RowTyped
  <2>9. \A h \in Generators : gen[h].pc # "done"
    BY <1>2 DEF InvoiceInv
  <2>10. {i.id : i \in invoices'} = {g}
    BY <2>5, <2>6
  <2>11. \A h, a : Charged(h, a) => Charged(h, a)'
    BY DEF Charged
  <2>12. Charged(g, gen[g].total)
    BY DEF InvoiceInv
  <2>13. \A i \in invoices' : i.status = "paid" => Charged(i.id, i.total)'
    <3>1. \A x, y : x = g /\ y = gen[g].total => Charged(x, y)'
      BY <2>11, <2>12
    <3> QED BY <2>5, <2>6, <3>1
  <2>14. \A h \in Generators : gen'[h].pc = "done" => {i.id : i \in invoices'} = {gen'[h].got}
    BY <2>4, <2>7, <2>9, <2>10
  <2>15. \A h \in Generators : gen'[h].pc = "create" => gen'[h].status = "paid" /\ \A a : a = gen'[h].total => Charged(h, a)'
    BY <2>4, <2>7, <2>11 DEF InvoiceInv
  <2>16. \A i, j \in invoices' : i = j
    BY <2>5
  <2> QED BY <2>7, <2>8, <2>13, <2>14, <2>15, <2>16 DEF InvoiceInv, Charged
<1>3. CASE invoices # {}
  <2> DEFINE c == (CHOOSE i \in invoices : TRUE).id
  <2>1. PICK H : H = G \cup {c}
    OBVIOUS
  <2>2. GenTyped(T, H) /\ \A i \in invoices : RowTyped(i, T)
    BY <1>1, <2>1, GenWider
  <2>3. gen' = [gen EXCEPT ![g].pc = "done", ![g].got = c] /\ invoices' = invoices
    BY <1>3 DEF Invoices!CreateRow
  <2>4. {i.id : i \in invoices} = {c}
    BY <1>3, RowFound DEF InvoiceInv
  <2>5. gen[g] \in GenType(T, H) /\ c \in H
    BY <2>1, <2>2 DEF GenTyped
  <2> HIDE DEF c
  <2> DEFINE new == [gen[g] EXCEPT !.pc = "done", !.got = c]
  <2>6. new \in GenType(T, H) /\ new.pc = "done" /\ new.got = c
    BY <2>5 DEF GenPcs, GenType
  <2>7. gen' = [gen EXCEPT ![g] = new]
    BY <2>3
  <2> HIDE DEF new
  <2> QED BY <2>2, <2>3, <2>4, <2>6, <2>7, GenStep
<1> QED BY <1>2, <1>3

LEMMA InvoiceStep ==
  ASSUME InvoiceInv, [Invoices!Next]_(Invoices!billVars)
  PROVE  InvoiceInv'
<1>1. PICK T, G : GenTyped(T, G) /\ \A i \in invoices : RowTyped(i, T)
  BY DEF InvoiceInv
<1>a. CASE gen' = gen /\ invoices' = invoices /\ payments' = payments
  <2>1. GenTyped(T, G)' /\ \A i \in invoices : RowTyped(i, T)'
    BY <1>1, <1>a DEF GenTyped, RowTyped
  <2>2. \A h, a : Charged(h, a)' <=> Charged(h, a)
    BY <1>a DEF Charged
  <2> QED BY <1>a, <2>1, <2>2 DEF InvoiceInv
\* The steps of one call that leave the table alone.
<1>b. ASSUME NEW g \in Generators, NEW p \in {"locked", "failed", "load"}, gen' = [gen EXCEPT ![g].pc = p],
             invoices' = invoices, payments' = payments
      PROVE  InvoiceInv'
  <2> DEFINE new == [gen[g] EXCEPT !.pc = p]
  <2>1. gen[g] \in GenType(T, G)
    BY <1>1 DEF GenTyped
  <2>2. new \in GenType(T, G) /\ new.pc = p
    BY <2>1 DEF GenPcs, GenType
  <2>3. gen' = [gen EXCEPT ![g] = new]
    BY <1>b
  <2> HIDE DEF new
  <2> QED BY <1>1, <1>b, <2>2, <2>3, GenStep
<1>2. ASSUME NEW c \in BillCalls, NEW p \in Plans,
             \/ \E n \in 1..2 : Invoices!CreatePlan(c, p, n)
             \/ \E op \in {"update", "deactivate"} : Invoices!GetPlan(c, op, p)
             \/ Invoices!SubscribeReads(c, p) \/ Invoices!ChangeReads(c, p)
      PROVE  InvoiceInv'
  <2>1. gen' = gen /\ invoices' = invoices /\ payments' = payments
    BY <1>2 DEF Invoices!CreatePlan, Invoices!GetPlan, Invoices!SubscribeReads, Invoices!ChangeReads, Invoices!subVars
  <2> QED BY <1>a, <2>1
<1>3. ASSUME NEW c \in BillCalls,
             \/ \E n \in 0..2, a \in BOOLEAN : Invoices!UpdatePlan(c, n, a)
             \/ Invoices!DeactivatePlan(c) \/ Invoices!SubscribeTenant(c) \/ Invoices!ChangePlan(c)
             \/ Invoices!CancelReads(c) \/ Invoices!CancelSubscription(c)
      PROVE  InvoiceInv'
  <2>1. gen' = gen /\ invoices' = invoices /\ payments' = payments
    BY <1>3 DEF Invoices!UpdatePlan, Invoices!DeactivatePlan, Invoices!SubscribeTenant, Invoices!ChangePlan, Invoices!CancelReads, Invoices!CancelSubscription, Invoices!subVars
  <2> QED BY <1>a, <2>1
<1>4. ASSUME NEW m \in Meters,
             \/ \E hour \in Period.from .. Period.to + 1 : Invoices!MeterStarts(m, hour)
             \/ Invoices!RecordInstanceUsage(m) \/ Invoices!RecordFails(m)
             \/ \E metric \in {"storage", "egress"} : Invoices!RecordOneRow(m, metric)
      PROVE  InvoiceInv'
  <2>1. gen' = gen /\ invoices' = invoices /\ payments' = payments
    BY <1>4 DEF Invoices!MeterStarts, Invoices!RecordInstanceUsage, Invoices!RecordFails, Invoices!RecordOneRow, Invoices!meterRest
  <2> QED BY <1>a, <2>1
<1>5. ASSUME NEW g \in Generators, Invoices!MemLooks(g) PROVE InvoiceInv'
  BY <1>5, <1>b DEF Invoices!MemLooks
<1>6. ASSUME NEW g \in Generators, Invoices!GetByIdempotencyKey(g) \/ Invoices!SqlLooks(g) PROVE InvoiceInv'
  BY <1>6, FoundStep DEF Invoices!GetByIdempotencyKey, Invoices!SqlLooks
<1>7. ASSUME NEW g \in Generators, Invoices!GenerateInvoice(g) PROVE InvoiceInv'
  <2>1. PICK U : U = T \cup {Invoices!Subtotal}
    OBVIOUS
  <2>2. PICK s : s = Invoices!Subtotal
    OBVIOUS
  <2>3. GenTyped(U, G) /\ \A i \in invoices : RowTyped(i, U)
    BY <1>1, <2>1, GenWider
  <2>4. gen[g] \in GenType(U, G) /\ s \in U
    BY <2>1, <2>2, <2>3 DEF GenTyped
  <2>5. gen' = [gen EXCEPT ![g] = IF subscriptions = <<>> THEN [gen[g] EXCEPT !.pc = "failed"]
                                   ELSE [gen[g] EXCEPT !.pc = "pay", !.total = s]]
        /\ invoices' = invoices /\ payments' = payments
    <3>1. gen \in [Generators -> GenType(T, G)]
      BY <1>1 DEF GenTyped
    <3> QED BY <1>7, <2>2, <3>1 DEF Invoices!GenerateInvoice
  <2>6. CASE subscriptions = <<>>
    <3>1. gen' = [gen EXCEPT ![g].pc = "failed"]
      BY <2>5, <2>6
    <3> QED BY <1>b, <2>5, <3>1
  <2>7. CASE subscriptions # <<>>
    <3> DEFINE new == [gen[g] EXCEPT !.pc = "pay", !.total = s]
    <3>1. new \in GenType(U, G) /\ new.pc = "pay"
      BY <2>4 DEF GenPcs, GenType
    <3>2. gen' = [gen EXCEPT ![g] = new]
      BY <2>5, <2>7
    <3> HIDE DEF new
    <3> QED BY <2>3, <2>5, <3>1, <3>2, GenStep
  <2> QED BY <2>6, <2>7
<1>8. ASSUME NEW g \in Generators, Invoices!CreatePayment(g) PROVE InvoiceInv'
  <2> DEFINE new == [gen[g] EXCEPT !.pc = "create", !.status = "paid"]
  <2>0. gen[g] \in GenType(T, G)
    BY <1>1 DEF GenTyped
  <2>1. /\ new \in GenType(T, G) /\ new.pc = "create"
        /\ new.status = "paid" /\ new.total = gen[g].total
    BY <2>0 DEF GenPcs, GenType
  <2>2. /\ gen' = [gen EXCEPT ![g] = new] /\ invoices' = invoices
        /\ payments' = IF gen[g].total = 0 THEN payments
                       ELSE payments \cup {[key |-> g, amount |-> gen[g].total, status |-> "succeeded"]}
    BY <1>8 DEF Invoices!CreatePayment
  <2> HIDE DEF new
  <2>3. PICK a : a = gen[g].total
    OBVIOUS
  <2>4. Charged(g, a)'
    <3>1. CASE a = 0
      BY <3>1 DEF Charged
    <3>2. CASE a # 0
      <4> DEFINE q == [key |-> g, amount |-> a, status |-> "succeeded"]
      <4>1. q \in payments' /\ q.key = g /\ q.amount = a
        BY <2>2, <2>3, <3>2
      <4> HIDE DEF q
      <4> QED BY <4>1 DEF Charged
    <3> QED BY <3>1, <3>2
  <2>5. PICK x : x = new
    OBVIOUS
  <2>6. Charged(g, x.total)' /\ payments \subseteq payments'
    BY <2>1, <2>2, <2>3, <2>4, <2>5
  <2> QED BY <1>1, <2>1, <2>2, <2>5, <2>6, GenStep
<1>9. ASSUME NEW g \in Generators, Invoices!MemWaits(g) PROVE InvoiceInv'
  BY <1>9, <1>a DEF Invoices!MemWaits
<1>10. ASSUME NEW g \in Generators, Invoices!MemCreate(g) \/ Invoices!SqlCreate(g) PROVE InvoiceInv'
  BY <1>10, CreateRowStep DEF Invoices!MemCreate, Invoices!SqlCreate
<1>11. ASSUME NEW g \in Generators, Invoices!SqlCreateFails(g) PROVE InvoiceInv'
  BY <1>11, <1>b DEF Invoices!SqlCreateFails
<1>12. CASE Invoices!VoidWaits
  BY <1>12, <1>a DEF Invoices!VoidWaits
<1>13. CASE Invoices!VoidInvoice
  <2>1. invoices' = {[i EXCEPT !.status = "void"] : i \in invoices} /\ gen' = gen /\ payments' = payments
    BY <1>13 DEF Invoices!VoidInvoice
  <2>2. \A i \in invoices : /\ RowTyped([i EXCEPT !.status = "void"], T) /\ [i EXCEPT !.status = "void"].id = i.id
                            /\ [i EXCEPT !.status = "void"].status = "void"
    BY <1>1 DEF RowTyped
  <2>3. \A i \in invoices' : RowTyped(i, T) /\ i.status = "void"
    BY <2>1, <2>2
  <2>4. {i.id : i \in invoices'} = {i.id : i \in invoices}
    BY <2>1, <2>2
  <2>5. \A i, j \in invoices' : i = j
    BY <2>1 DEF InvoiceInv
  <2>6. GenTyped(T, G)' /\ \A i \in invoices' : RowTyped(i, T)'
    BY <1>1, <2>1, <2>3 DEF GenTyped, RowTyped
  <2>7. \A h, a : Charged(h, a)' <=> Charged(h, a)
    BY <2>1 DEF Charged
  <2> QED BY <2>1, <2>3, <2>4, <2>5, <2>6, <2>7 DEF InvoiceInv
<1>14. CASE UNCHANGED Invoices!billVars
  BY <1>14, <1>a DEF Invoices!billVars
<1> QED BY <1>2, <1>3, <1>4, <1>5, <1>6, <1>7, <1>8, <1>9, <1>10, <1>11, <1>12, <1>13, <1>14 DEF Invoices!Next

\* The calls of GenerateInvoice for a key that return one return the same
\* invoice, and the provider was charged its total if it is paid, however the
\* calls, the inserts that fail and a void overlap, for every number of calls
\* and over either table (invoice.go, GenerateInvoice).
THEOREM InvoicesCorrect == Invoices!Spec => []Invoices!OneInvoice
<1>1. Invoices!Init => InvoiceInv
  <2> SUFFICES ASSUME Invoices!Init PROVE InvoiceInv
    OBVIOUS
  <2>1. \E x : /\ gen = [g \in Generators |-> [pc |-> "idle", total |-> 0, status |-> "open", got |-> x]]
               /\ invoices = {} /\ payments = {}
    BY Zenon DEF Invoices!Init
  <2>2. PICK x : /\ gen = [g \in Generators |-> [pc |-> "idle", total |-> 0, status |-> "open", got |-> x]]
                 /\ invoices = {} /\ payments = {}
    BY <2>1
  <2>3. GenTyped({0}, {x})
    BY <2>2 DEF GenTyped, GenType, GenPcs
  <2> QED BY <2>2, <2>3 DEF InvoiceInv
<1>2. InvoiceInv /\ [Invoices!Next]_(Invoices!billVars) => InvoiceInv'
  BY InvoiceStep
<1>3. InvoiceInv => Invoices!OneInvoice
  <2> SUFFICES ASSUME InvoiceInv PROVE Invoices!OneInvoice
    OBVIOUS
  <2>1. \A i \in invoices : (i.status = "paid" /\ i.total > 0) => \E q \in payments : q.key = i.id /\ q.amount = i.total
    BY DEF InvoiceInv, Charged
  <2> QED BY <2>1 DEF InvoiceInv, Invoices!OneInvoice
<1> QED BY <1>1, <1>2, <1>3, PTL DEF Invoices!Spec

MeterType == [pc : {"idle", "run", "done"}, hour : Int, next : 1 .. 3, tries : Nat]

Row(h, k) == [hour |-> h, metric |-> Invoices!Metrics[k]]

\* A call that runs has recorded the metrics before the next one.
MeterInv ==
  /\ meter \in [Meters -> MeterType]
  /\ \A m \in Meters : meter[m].pc = "idle" => meter[m].hour = 0 /\ meter[m].next = 1
  /\ \A m \in Meters : meter[m].pc = "run" => \A k \in 1 .. meter[m].next - 1 : Row(meter[m].hour, k) \in usage
  /\ \A m \in Meters : (meter[m].pc = "done" /\ meter[m].hour > 0) => \A k \in 1 .. 3 : Row(meter[m].hour, k) \in usage

LEMMA MeterStep ==
  ASSUME MeterInv, NEW m \in Meters, NEW new \in MeterType, meter' = [meter EXCEPT ![m] = new], usage \subseteq usage',
         new.pc # "idle",
         new.pc = "run" => \A k \in 1 .. new.next - 1 : Row(new.hour, k) \in usage',
         (new.pc = "done" /\ new.hour > 0) => \A k \in 1 .. 3 : Row(new.hour, k) \in usage'
  PROVE  MeterInv'
<1>1. meter' \in [Meters -> MeterType] /\ meter'[m] = new /\ \A n \in Meters \ {m} : meter'[n] = meter[n]
  BY DEF MeterInv
<1>2. \A n \in Meters : meter'[n].pc = "idle" => meter'[n].hour = 0 /\ meter'[n].next = 1
  BY <1>1 DEF MeterInv
<1>3. \A n \in Meters : meter'[n].pc = "run" => \A k \in 1 .. meter'[n].next - 1 : Row(meter'[n].hour, k) \in usage'
  BY <1>1 DEF MeterInv
<1>4. \A n \in Meters : (meter'[n].pc = "done" /\ meter'[n].hour > 0) => \A k \in 1 .. 3 : Row(meter'[n].hour, k) \in usage'
  BY <1>1 DEF MeterInv
<1> QED BY <1>1, <1>2, <1>3, <1>4 DEF MeterInv, Row

\* A metering call that returned has recorded its hour in every metric, however
\* often a row failed and the hour was tried again, for every number of calls
\* (meter.go, RecordInstanceUsage).
THEOREM MeteringCorrect == Invoices!Spec => []Invoices!MeteredWhole
<1>0. Len(Invoices!Metrics) = 3
  BY DEF Invoices!Metrics
<1>1. Invoices!Init => MeterInv
  <2> SUFFICES ASSUME Invoices!Init PROVE MeterInv
    OBVIOUS
  <2>1. meter = [m \in Meters |-> [pc |-> "idle", hour |-> 0, next |-> 1, tries |-> 0]]
    BY Zenon DEF Invoices!Init
  <2> QED BY <2>1 DEF MeterInv, MeterType
<1>2. ASSUME MeterInv, [Invoices!Next]_(Invoices!billVars) PROVE MeterInv'
  <2>a. CASE meter' = meter /\ usage' = usage
    BY <2>a, <1>2 DEF MeterInv, Row
  <2>1. ASSUME NEW c \in BillCalls, NEW p \in Plans,
               \/ \E n \in 1..2 : Invoices!CreatePlan(c, p, n)
               \/ \E op \in {"update", "deactivate"} : Invoices!GetPlan(c, op, p)
               \/ Invoices!SubscribeReads(c, p) \/ Invoices!ChangeReads(c, p)
        PROVE  MeterInv'
    <3>1. meter' = meter /\ usage' = usage
      BY <2>1 DEF Invoices!CreatePlan, Invoices!GetPlan, Invoices!SubscribeReads, Invoices!ChangeReads, Invoices!subVars
    <3> QED BY <2>a, <3>1
  <2>2. ASSUME NEW c \in BillCalls,
               \/ \E n \in 0..2, a \in BOOLEAN : Invoices!UpdatePlan(c, n, a)
               \/ Invoices!DeactivatePlan(c) \/ Invoices!SubscribeTenant(c) \/ Invoices!ChangePlan(c)
               \/ Invoices!CancelReads(c) \/ Invoices!CancelSubscription(c)
        PROVE  MeterInv'
    <3>1. meter' = meter /\ usage' = usage
      BY <2>2 DEF Invoices!UpdatePlan, Invoices!DeactivatePlan, Invoices!SubscribeTenant, Invoices!ChangePlan, Invoices!CancelReads, Invoices!CancelSubscription, Invoices!subVars
    <3> QED BY <2>a, <3>1
  <2>m. ASSUME NEW m \in Meters PROVE meter[m] \in MeterType
    BY <1>2 DEF MeterInv
  <2>3. ASSUME NEW m \in Meters, NEW hour \in Period.from .. Period.to + 1, Invoices!MeterStarts(m, hour) PROVE MeterInv'
    <3> DEFINE new == [meter[m] EXCEPT !.pc = "run", !.hour = hour]
    <3>1. new \in MeterType /\ new.pc = "run" /\ new.next = meter[m].next
      <4>1. hour \in Int
        OBVIOUS
      <4> QED BY <2>m, <4>1 DEF MeterType
    <3>2. meter[m].next = 1
      BY <1>2, <2>3 DEF Invoices!MeterStarts, MeterInv
    <3>3. meter' = [meter EXCEPT ![m] = new] /\ usage' = usage
      BY <2>3 DEF Invoices!MeterStarts
    <3> HIDE DEF new
    <3>4. \A k \in 1 .. new.next - 1 : FALSE
      BY <3>1, <3>2
    <3> QED BY <1>2, <3>1, <3>3, <3>4, MeterStep
  <2>4. ASSUME NEW m \in Meters, Invoices!RecordInstanceUsage(m) PROVE MeterInv'
    <3>1. /\ meter[m].pc = "run" /\ usage' = usage \cup {Row(meter[m].hour, meter[m].next)}
          /\ meter' = [meter EXCEPT ![m] = IF meter[m].next = 3
               THEN [meter[m] EXCEPT !.pc = "done"] ELSE [meter[m] EXCEPT !.next = meter[m].next + 1]]
      <4>1. meter \in [Meters -> MeterType]
        BY <1>2 DEF MeterInv
      <4>2. meter[m].pc = "run" /\ usage' = usage \cup {Row(meter[m].hour, meter[m].next)}
        BY <2>4 DEF Invoices!RecordInstanceUsage, Invoices!RecordUsage, Row
      <4>3. meter' = [meter EXCEPT ![m] = IF meter[m].next = Len(Invoices!Metrics)
               THEN [meter[m] EXCEPT !.pc = "done"] ELSE [meter[m] EXCEPT !.next = meter[m].next + 1]]
        BY <2>4 DEF Invoices!RecordInstanceUsage
      <4> QED BY <1>0, <4>2, <4>3
    <3>2. \A k \in 1 .. meter[m].next - 1 : Row(meter[m].hour, k) \in usage
      BY <1>2, <3>1 DEF MeterInv
    <3>3. meter[m].next \in 1 .. 3 /\ meter[m].hour \in Int
      BY <2>m DEF MeterType
    <3>4. \A k \in 1 .. meter[m].next : Row(meter[m].hour, k) \in usage'
      BY <3>1, <3>2, <3>3
    <3>5. CASE meter[m].next = 3
      <4> DEFINE new == [meter[m] EXCEPT !.pc = "done"]
      <4>1. new \in MeterType /\ new.pc = "done" /\ new.hour = meter[m].hour
        BY <2>m DEF MeterType
      <4>2. meter' = [meter EXCEPT ![m] = new]
        BY <3>1, <3>5
      <4> HIDE DEF new
      <4> QED BY <1>2, <3>1, <3>4, <3>5, <4>1, <4>2, MeterStep
    <3>6. CASE meter[m].next # 3
      <4> DEFINE new == [meter[m] EXCEPT !.next = meter[m].next + 1]
      <4>1. new \in MeterType /\ new.pc = "run" /\ new.hour = meter[m].hour /\ new.next = meter[m].next + 1
        BY <2>m, <3>1, <3>3, <3>6 DEF MeterType
      <4>2. meter' = [meter EXCEPT ![m] = new]
        BY <3>1, <3>6
      <4> HIDE DEF new
      <4>3. \A k \in 1 .. new.next - 1 : Row(new.hour, k) \in usage'
        BY <3>3, <3>4, <4>1
      <4> QED BY <1>2, <3>1, <4>1, <4>2, <4>3, MeterStep
    <3> QED BY <3>5, <3>6
  <2>5. ASSUME NEW m \in Meters, Invoices!RecordFails(m) PROVE MeterInv'
    <3> DEFINE new == [meter[m] EXCEPT !.next = 1, !.tries = meter[m].tries + 1]
    <3>1. new \in MeterType /\ new.pc = meter[m].pc /\ new.next = 1
      <4>1. meter[m].tries + 1 \in Nat
        BY <2>m DEF MeterType
      <4>2. 1 \in 1 .. 3
        OBVIOUS
      <4> QED BY <2>m, <4>1, <4>2 DEF MeterType
    <3>2. meter' = [meter EXCEPT ![m] = new] /\ usage' = usage /\ meter[m].pc = "run"
      BY <2>5 DEF Invoices!RecordFails
    <3> HIDE DEF new
    <3>3. \A k \in 1 .. new.next - 1 : FALSE
      BY <3>1
    <3> QED BY <1>2, <3>1, <3>2, <3>3, MeterStep
  <2>6. ASSUME NEW m \in Meters, NEW metric, Invoices!RecordOneRow(m, metric) PROVE MeterInv'
    <3> DEFINE new == [meter[m] EXCEPT !.pc = "done"]
    <3>1. new \in MeterType /\ new.pc = "done" /\ new.hour = meter[m].hour
      BY <2>m DEF MeterType
    <3>2. meter' = [meter EXCEPT ![m] = new] /\ usage \subseteq usage' /\ meter[m].pc = "idle"
      BY <2>6 DEF Invoices!RecordOneRow, Invoices!RecordUsage
    <3>3. meter[m].hour = 0
      BY <1>2, <3>2 DEF MeterInv
    <3> HIDE DEF new
    <3>4. ~(new.hour > 0)
      BY <3>1, <3>3
    <3> QED BY <1>2, <3>1, <3>2, <3>4, MeterStep
  <2>7. ASSUME NEW g \in Generators,
               \/ Invoices!MemLooks(g) \/ Invoices!GetByIdempotencyKey(g) \/ Invoices!SqlLooks(g) \/ Invoices!GenerateInvoice(g)
               \/ Invoices!CreatePayment(g) \/ Invoices!MemWaits(g) \/ Invoices!MemCreate(g) \/ Invoices!SqlCreate(g) \/ Invoices!SqlCreateFails(g)
        PROVE  MeterInv'
    <3>1. meter' = meter /\ usage' = usage
      BY <2>7 DEF Invoices!MemLooks, Invoices!GetByIdempotencyKey, Invoices!SqlLooks, Invoices!GenerateInvoice, Invoices!CreatePayment, Invoices!MemWaits, Invoices!MemCreate,
                  Invoices!SqlCreate, Invoices!SqlCreateFails, Invoices!invVars
    <3> QED BY <2>a, <3>1
  <2>8. CASE Invoices!VoidWaits \/ Invoices!VoidInvoice \/ UNCHANGED Invoices!billVars
    <3>1. meter' = meter /\ usage' = usage
      BY <2>8 DEF Invoices!VoidWaits, Invoices!VoidInvoice, Invoices!invVars, Invoices!billVars
    <3> QED BY <2>a, <3>1
  <2> QED BY <1>2, <2>1, <2>2, <2>3, <2>4, <2>5, <2>6, <2>7, <2>8 DEF Invoices!Next
<1>3. MeterInv => Invoices!MeteredWhole
  BY <1>0 DEF MeterInv, Invoices!MeteredWhole, Row
<1> QED BY <1>1, <1>2, <1>3, PTL DEF Invoices!Spec

-----------------------------------------------------------------------------
(***************************************************************************)
(* The console: what the client sees is what it typed, in that order. Six  *)
(* queues and places lie between the two; the invariant cuts the inputs at *)
(* six numbers, so that every stage holds later inputs than all the stages *)
(* after it. A step hands the least input of a stage to the next one, or   *)
(* drops it, and moves one cut.                                            *)
(***************************************************************************)
ConKinds == {"START", "DATA", "RESIZE", "CLOSE", "ACK", "BEAT", "NOTICE"}

ShellPcs == {"none", "banner", "read", "write", "bye", "exit"}

ConMsg == [kind : ConKinds, n : Nat]

\* A queue whose inputs rise and lie between two cuts.
Queue(q, lo, hi) ==
  /\ q \in Seq(ConMsg)
  /\ \A i \in DOMAIN q : q[i].kind = "DATA" => lo < q[i].n /\ q[i].n <= hi
  /\ \A i, j \in DOMAIN q : i < j /\ q[i].kind = "DATA" /\ q[j].kind = "DATA" => q[i].n < q[j].n

\* A place for one input, 0 when it is empty.
Slot(x, lo, hi) == x \in Nat /\ (x # 0 => lo < x /\ x <= hi)

Screen(s, hi) ==
  /\ s \in Seq(Nat)
  /\ \A i \in DOMAIN s : s[i] <= hi
  /\ \A i, j \in DOMAIN s : i < j => s[i] < s[j]

Echoing == IF driver.pc = "write" THEN driver.n ELSE 0

\* The whole way of an input, in the order in which it was typed: every
\* stage holds later inputs than the ones it has handed on.
Pipeline(a, b, c, d, e, f) ==
  /\ a \in Nat /\ b \in Nat /\ c \in Nat /\ d \in Nat /\ e \in Nat /\ f \in Nat
  /\ a <= b /\ b <= c /\ c <= d /\ d <= e /\ e <= f /\ f <= client.typed
  /\ Screen(screen, a)
  /\ Queue(inbound, a, b)
  /\ Queue(up, b, c)
  /\ Slot(stdout, c, d)
  /\ Slot(Echoing, d, e)
  /\ Slot(stdin, e, f)
  /\ Queue(down, f, client.typed)

ConType ==
  /\ client \in [open : BOOLEAN, typed : Nat]
  /\ driver \in [pc : ShellPcs, n : Nat]

ConInv == ConType /\ \E a, b, c, d, e, f : Pipeline(a, b, c, d, e, f)

LEMMA Enqueued ==
  ASSUME NEW q, NEW lo \in Nat, NEW hi \in Nat, Queue(q, lo, hi), lo <= hi, NEW m \in ConMsg, NEW top \in Nat,
         hi <= top, m.kind = "DATA" => hi < m.n /\ m.n <= top
  PROVE  Queue(Append(q, m), lo, top)
<1>1. q \in Seq(ConMsg)
  BY DEF Queue
<1>2. /\ Append(q, m) \in Seq(ConMsg) /\ DOMAIN Append(q, m) = 1 .. Len(q) + 1 /\ DOMAIN q = 1 .. Len(q)
      /\ Len(q) \in Nat
      /\ \A i \in 1 .. Len(q) : Append(q, m)[i] = q[i]
      /\ Append(q, m)[Len(q) + 1] = m
  BY <1>1
<1>3. \A i \in 1 .. Len(q) : q[i].n \in Nat /\ (q[i].kind = "DATA" => lo < q[i].n /\ q[i].n <= hi)
  <2>1. \A i \in 1 .. Len(q) : q[i] \in ConMsg
    BY <1>1
  <2> QED BY <1>2, <2>1 DEF Queue, ConMsg
<1>4. m.n \in Nat
  BY DEF ConMsg
<1>5. ASSUME NEW i \in DOMAIN Append(q, m), Append(q, m)[i].kind = "DATA"
      PROVE  lo < Append(q, m)[i].n /\ Append(q, m)[i].n <= top
  <2>1. CASE i \in 1 .. Len(q)
    BY <1>2, <1>3, <1>5, <2>1
  <2>2. CASE i = Len(q) + 1
    BY <1>2, <1>4, <1>5, <2>2
  <2> QED BY <1>2, <2>1, <2>2
<1>6. ASSUME NEW i \in DOMAIN Append(q, m), NEW j \in DOMAIN Append(q, m), i < j,
             Append(q, m)[i].kind = "DATA", Append(q, m)[j].kind = "DATA"
      PROVE  Append(q, m)[i].n < Append(q, m)[j].n
  <2>1. i \in 1 .. Len(q)
    BY <1>2, <1>6
  <2>2. CASE j \in 1 .. Len(q)
    BY <1>2, <1>6, <2>1, <2>2 DEF Queue
  <2>3. CASE j = Len(q) + 1
    BY <1>2, <1>3, <1>4, <1>6, <2>1, <2>3
  <2> QED BY <1>2, <2>2, <2>3
<1> QED BY <1>2, <1>5, <1>6 DEF Queue

LEMMA Dequeued ==
  ASSUME NEW q, NEW lo \in Nat, NEW hi \in Nat, Queue(q, lo, hi), q # <<>>
  PROVE  /\ Head(q) \in ConMsg /\ Queue(Tail(q), lo, hi)
         /\ Head(q).kind = "DATA" =>
              lo < Head(q).n /\ Head(q).n <= hi /\ Head(q).n \in Nat /\ Queue(Tail(q), Head(q).n, hi)
<1>1. q \in Seq(ConMsg)
  BY DEF Queue
<1>2. /\ Tail(q) \in Seq(ConMsg) /\ DOMAIN Tail(q) = 1 .. Len(q) - 1 /\ DOMAIN q = 1 .. Len(q)
      /\ Len(q) \in Nat /\ Len(q) > 0 /\ Head(q) = q[1] /\ q[1] \in ConMsg
      /\ \A i \in 1 .. Len(q) - 1 : Tail(q)[i] = q[i + 1] /\ i + 1 \in 1 .. Len(q)
  BY <1>1
<1>3. Queue(Tail(q), lo, hi)
  <2>1. \A i, j \in 1 .. Len(q) - 1 : i < j => i + 1 < j + 1
    OBVIOUS
  <2> QED BY <1>2, <2>1 DEF Queue
<1>4. ASSUME Head(q).kind = "DATA"
      PROVE  lo < Head(q).n /\ Head(q).n <= hi /\ Head(q).n \in Nat /\ Queue(Tail(q), Head(q).n, hi)
  <2>1. 1 \in DOMAIN q /\ q[1].kind = "DATA" /\ q[1].n \in Nat
    BY <1>2, <1>4 DEF ConMsg
  <2>2. lo < q[1].n /\ q[1].n <= hi
    BY <2>1 DEF Queue
  <2>3. \A j \in DOMAIN q : 1 < j /\ q[j].kind = "DATA" => q[1].n < q[j].n
    BY <2>1 DEF Queue
  <2>4. \A i \in 1 .. Len(q) - 1 : 1 < i + 1
    BY <1>2
  <2>5. \A i \in DOMAIN Tail(q) : Tail(q)[i].kind = "DATA" => q[1].n < Tail(q)[i].n
    BY <1>2, <2>3, <2>4
  <2> QED BY <1>2, <1>3, <2>1, <2>2, <2>5 DEF Queue
<1> QED BY <1>2, <1>3, <1>4

LEMMA Shown ==
  ASSUME NEW s, NEW hi \in Nat, Screen(s, hi), NEW n \in Nat, hi < n
  PROVE  Screen(Append(s, n), n)
<1>1. s \in Seq(Nat)
  BY DEF Screen
<1>2. /\ Append(s, n) \in Seq(Nat) /\ DOMAIN Append(s, n) = 1 .. Len(s) + 1 /\ DOMAIN s = 1 .. Len(s)
      /\ Len(s) \in Nat /\ Append(s, n)[Len(s) + 1] = n
      /\ \A i \in 1 .. Len(s) : Append(s, n)[i] = s[i] /\ s[i] \in Nat
  BY <1>1
<1>3. \A i \in 1 .. Len(s) : s[i] <= hi
  BY <1>2 DEF Screen
<1>4. \A i \in DOMAIN Append(s, n) : Append(s, n)[i] <= n
  BY <1>2, <1>3
<1>5. ASSUME NEW i \in DOMAIN Append(s, n), NEW j \in DOMAIN Append(s, n), i < j
      PROVE  Append(s, n)[i] < Append(s, n)[j]
  <2>1. i \in 1 .. Len(s)
    BY <1>2, <1>5
  <2>2. CASE j \in 1 .. Len(s)
    BY <1>2, <1>5, <2>1, <2>2 DEF Screen
  <2>3. CASE j = Len(s) + 1
    BY <1>2, <1>3, <1>5, <2>1, <2>3
  <2> QED BY <1>2, <2>2, <2>3
<1> QED BY <1>2, <1>4, <1>5 DEF Screen

\* A message that the server sends to the node.
LEMMA Sent ==
  ASSUME ConType, NEW a, NEW b, NEW c, NEW d, NEW e, NEW f, Pipeline(a, b, c, d, e, f),
         NEW m \in ConMsg, down' = Append(down, m), client' \in [open : BOOLEAN, typed : Nat],
         client'.typed \in {client.typed, client.typed + 1},
         m.kind = "DATA" => m.n = client.typed + 1 /\ client'.typed = client.typed + 1,
         UNCHANGED <<up, stdin, driver, stdout, inbound, screen>>
  PROVE  ConInv'
<1>1. client.typed \in Nat /\ client'.typed \in Nat /\ client.typed <= client'.typed
  BY DEF ConType
<1>2. f \in Nat /\ f <= client.typed /\ Queue(down, f, client.typed)
  BY DEF Pipeline
<1>3. m.kind = "DATA" => client.typed < m.n /\ m.n <= client'.typed
  BY <1>1
<1>4. PICK t : t = client'.typed
  OBVIOUS
<1>5. Queue(down', f, t)
  BY <1>1, <1>2, <1>3, <1>4, Enqueued
<1>6. /\ up' = up /\ stdin' = stdin /\ driver' = driver /\ stdout' = stdout /\ inbound' = inbound /\ screen' = screen
  OBVIOUS
<1>7. Echoing' = Echoing
  BY <1>6 DEF Echoing
<1>8. a <= b /\ b <= c /\ c <= d /\ d <= e /\ e <= f /\ f <= client'.typed
  BY <1>1, <1>2 DEF Pipeline
<1>9. Pipeline(a, b, c, d, e, f)'
  BY <1>4, <1>5, <1>6, <1>7, <1>8 DEF Pipeline
<1>10. ConType'
  BY <1>6 DEF ConType
<1> QED BY <1>9, <1>10 DEF ConInv

LEMMA TunnelStep ==
  ASSUME ConInv,
         \/ Terminal!StartSession \/ Terminal!SendData \/ Terminal!ResizeTerminal \/ Terminal!ClientLeaves \/ Terminal!CloseSession \/ Terminal!ServerAcks
  PROVE  ConInv'
<1>1. PICK a, b, c, d, e, f : Pipeline(a, b, c, d, e, f)
  BY DEF ConInv
<1>2. ConType /\ client.typed \in Nat /\ client \in [open : BOOLEAN, typed : Nat]
  BY DEF ConInv, ConType
<1>3. ASSUME NEW k \in ConKinds \ {"DATA"} PROVE Terminal!Msg(k, 0) \in ConMsg /\ Terminal!Msg(k, 0).kind # "DATA"
  BY DEF ConMsg, Terminal!Msg
<1>4. CASE Terminal!StartSession
  <2>1. Terminal!Msg("START", 0) \in ConMsg /\ Terminal!Msg("START", 0).kind # "DATA"
    BY <1>3 DEF ConKinds
  <2>2. /\ down' = Append(down, Terminal!Msg("START", 0)) /\ client' = client
        /\ UNCHANGED <<up, stdin, driver, stdout, inbound, screen>>
    BY <1>4 DEF Terminal!StartSession, Terminal!sendToNode
  <2>3. PICK m : m = Terminal!Msg("START", 0)
    OBVIOUS
  <2> QED BY <1>1, <1>2, <2>1, <2>2, <2>3, Sent
<1>5. CASE Terminal!CloseSession
  <2>1. Terminal!Msg("CLOSE", 0) \in ConMsg /\ Terminal!Msg("CLOSE", 0).kind # "DATA"
    BY <1>3 DEF ConKinds
  <2>2. /\ down' = Append(down, Terminal!Msg("CLOSE", 0)) /\ client' = client
        /\ UNCHANGED <<up, stdin, driver, stdout, inbound, screen>>
    BY <1>5 DEF Terminal!CloseSession, Terminal!sendToNode
  <2> QED BY <1>1, <1>2, <2>1, <2>2, Sent
<1>6. CASE Terminal!ServerAcks
  <2>1. Terminal!Msg("ACK", 0) \in ConMsg /\ Terminal!Msg("ACK", 0).kind # "DATA"
    BY <1>3 DEF ConKinds
  <2>2. /\ down' = Append(down, Terminal!Msg("ACK", 0)) /\ client' = client
        /\ UNCHANGED <<up, stdin, driver, stdout, inbound, screen>>
    BY <1>6 DEF Terminal!ServerAcks, Terminal!sendToNode
  <2> QED BY <1>1, <1>2, <2>1, <2>2, Sent
<1>7. CASE Terminal!ResizeTerminal
  <2>1. Terminal!Msg("RESIZE", 0) \in ConMsg /\ Terminal!Msg("RESIZE", 0).kind # "DATA"
    BY <1>3 DEF ConKinds
  <2>2. /\ down' = Append(down, Terminal!Msg("RESIZE", 0)) /\ client' = [client EXCEPT !.typed = @ + 1]
        /\ UNCHANGED <<up, stdin, driver, stdout, inbound, screen>>
    BY <1>7 DEF Terminal!ResizeTerminal, Terminal!sendToNode
  <2>3. client' \in [open : BOOLEAN, typed : Nat] /\ client'.typed = client.typed + 1
    BY <1>2, <2>2
  <2> QED BY <1>1, <1>2, <2>1, <2>2, <2>3, Sent
<1>8. CASE Terminal!SendData
  <2>1. PICK m : m = Terminal!Msg("DATA", client.typed + 1)
    OBVIOUS
  <2>0. client.typed + 1 \in Nat
    BY <1>2
  <2>2. m \in ConMsg /\ m.kind = "DATA" /\ m.n = client.typed + 1
    BY <2>0, <2>1 DEF ConMsg, ConKinds, Terminal!Msg
  <2>3. /\ down' = Append(down, m) /\ client' = [client EXCEPT !.typed = @ + 1]
        /\ UNCHANGED <<up, stdin, driver, stdout, inbound, screen>>
    BY <1>8, <2>1 DEF Terminal!SendData, Terminal!sendToNode
  <2>4. client' \in [open : BOOLEAN, typed : Nat] /\ client'.typed = client.typed + 1
    BY <1>2, <2>3
  <2> QED BY <1>1, <1>2, <2>2, <2>3, <2>4, Sent
<1>9. CASE Terminal!ClientLeaves
  <2>1. client' = [client EXCEPT !.open = FALSE] /\ UNCHANGED <<down, up, stdin, driver, stdout, inbound, screen>>
    BY <1>9 DEF Terminal!ClientLeaves
  <2>2. client' \in [open : BOOLEAN, typed : Nat] /\ client'.typed = client.typed
    BY <1>2, <2>1
  <2>3. Pipeline(a, b, c, d, e, f)'
    BY <1>1, <2>1, <2>2 DEF Pipeline, Echoing
  <2> QED BY <1>2, <2>1, <2>2, <2>3 DEF ConInv, ConType
<1> QED BY <1>4, <1>5, <1>6, <1>7, <1>8, <1>9

LEMMA SessionReceiveStep ==
  ASSUME ConInv, Terminal!ServerReceives \/ Terminal!WriteClient
  PROVE  ConInv'
<1>1. PICK a, b, c, d, e, f : Pipeline(a, b, c, d, e, f)
  BY DEF ConInv
<1>2. /\ ConType /\ a \in Nat /\ b \in Nat /\ c \in Nat /\ a <= b /\ b <= c
      /\ Queue(inbound, a, b) /\ Queue(up, b, c) /\ Screen(screen, a)
  BY <1>1 DEF ConInv, Pipeline
<1>3. down' = down /\ stdin' = stdin /\ driver' = driver /\ stdout' = stdout
  BY DEF Terminal!ServerReceives, Terminal!WriteClient
<1>4. Echoing' = Echoing
  BY <1>3 DEF Echoing
<1>5. CASE Terminal!ServerReceives
  <2>1. PICK m : m = Head(up)
    OBVIOUS
  <2>2. /\ up # <<>> /\ up' = Tail(up) /\ client' = client /\ screen' = screen
        /\ \/ inbound' = inbound
           \/ inbound' = Append(inbound, m)
    BY <1>5, <2>1 DEF Terminal!ServerReceives, Terminal!HandleNodeMessage
  <2>3. /\ m \in ConMsg /\ Queue(up', b, c)
        /\ m.kind = "DATA" => b < m.n /\ m.n <= c /\ m.n \in Nat /\ Queue(up', m.n, c)
    BY <1>2, <2>1, <2>2, Dequeued
  <2>4. CASE inbound' = inbound
    <3>1. Pipeline(a, b, c, d, e, f)'
      BY <1>1, <1>3, <1>4, <2>2, <2>3, <2>4 DEF Pipeline
    <3> QED BY <1>2, <1>3, <2>2, <3>1 DEF ConInv, ConType
  <2>5. CASE inbound' = Append(inbound, m) /\ m.kind # "DATA"
    <3>1. Queue(inbound', a, b)
      BY <1>2, <2>3, <2>5, Enqueued
    <3>2. Pipeline(a, b, c, d, e, f)'
      BY <1>1, <1>3, <1>4, <2>2, <2>3, <3>1 DEF Pipeline
    <3> QED BY <1>2, <1>3, <2>2, <3>2 DEF ConInv, ConType
  <2>6. CASE inbound' = Append(inbound, m) /\ m.kind = "DATA"
    <3>0. PICK n \in Nat : n = m.n
      BY <2>3, <2>6
    <3>1. Queue(inbound', a, n)
      BY <1>2, <2>3, <2>6, <3>0, Enqueued
    <3>2. a <= n /\ n <= c /\ Queue(up', n, c)
      BY <1>2, <2>3, <2>6, <3>0
    <3>3. Pipeline(a, n, c, d, e, f)'
      BY <1>1, <1>3, <1>4, <2>2, <3>1, <3>2 DEF Pipeline
    <3> QED BY <1>2, <1>3, <2>2, <3>3 DEF ConInv, ConType
  <2> QED BY <2>2, <2>4, <2>5, <2>6
<1>6. CASE Terminal!WriteClient
  <2>1. PICK m : m = Head(inbound)
    OBVIOUS
  <2>2. /\ inbound # <<>> /\ inbound' = Tail(inbound) /\ client' = [client EXCEPT !.open = m.kind # "CLOSE"]
        /\ up' = up /\ screen' = IF m.kind = "DATA" THEN Append(screen, m.n) ELSE screen
    BY <1>6, <2>1 DEF Terminal!WriteClient
  <2>3. /\ m \in ConMsg /\ Queue(inbound', a, b)
        /\ m.kind = "DATA" => a < m.n /\ m.n <= b /\ m.n \in Nat /\ Queue(inbound', m.n, b)
    BY <1>2, <2>1, <2>2, Dequeued
  <2>4. client \in [open : BOOLEAN, typed : Nat] /\ (m.kind # "CLOSE") \in BOOLEAN
    BY <1>2 DEF ConType
  <2>5. client' \in [open : BOOLEAN, typed : Nat] /\ client'.typed = client.typed
    BY <2>2, <2>4
  <2>6. CASE m.kind # "DATA"
    <3>1. Pipeline(a, b, c, d, e, f)'
      BY <1>1, <1>3, <1>4, <2>2, <2>3, <2>5, <2>6 DEF Pipeline
    <3> QED BY <1>2, <1>3, <2>5, <3>1 DEF ConInv, ConType
  <2>7. CASE m.kind = "DATA"
    <3>0. PICK n \in Nat : n = m.n
      BY <2>3, <2>7
    <3>1. Screen(screen', n)
      BY <1>2, <2>2, <2>3, <2>7, <3>0, Shown
    <3>2. n <= b /\ Queue(inbound', n, b)
      BY <2>3, <2>7, <3>0
    <3>3. Pipeline(n, b, c, d, e, f)'
      BY <1>1, <1>3, <1>4, <2>2, <2>5, <3>1, <3>2 DEF Pipeline
    <3> QED BY <1>2, <1>3, <2>5, <3>3 DEF ConInv, ConType
  <2> QED BY <2>6, <2>7
<1> QED BY <1>5, <1>6

LEMMA AgentStep ==
  ASSUME ConInv, Terminal!AgentReceives
  PROVE  ConInv'
<1>1. PICK a, b, c, d, e, f : Pipeline(a, b, c, d, e, f)
  BY DEF ConInv
<1>2. /\ ConType /\ d \in Nat /\ e \in Nat /\ f \in Nat /\ e <= f /\ client.typed \in Nat
      /\ Queue(down, f, client.typed) /\ driver \in [pc : ShellPcs, n : Nat]
  BY <1>1 DEF ConInv, ConType, Pipeline
<1>3. client' = client /\ up' = up /\ stdout' = stdout /\ inbound' = inbound /\ screen' = screen
  BY DEF Terminal!AgentReceives, Terminal!AgentStarts, Terminal!AgentWrites, Terminal!AgentCloses, Terminal!AgentResizes, Terminal!AgentIgnores
<1>4. PICK m : m = Head(down)
  OBVIOUS
<1>5. /\ down # <<>> /\ down' = Tail(down) /\ stdin = 0
      /\ stdin' = 0 \/ (m.kind = "DATA" /\ stdin' = m.n /\ driver' = driver)
  BY <1>4 DEF Terminal!AgentReceives, Terminal!AgentStarts, Terminal!AgentWrites, Terminal!AgentCloses, Terminal!AgentResizes, Terminal!AgentIgnores
<1>6. /\ m \in ConMsg /\ Queue(down', f, client.typed)
      /\ m.kind = "DATA" => f < m.n /\ m.n <= client.typed /\ m.n \in Nat /\ Queue(down', m.n, client.typed)
  BY <1>2, <1>4, <1>5, Dequeued
<1>7. /\ driver' \in [pc : ShellPcs, n : Nat]
      /\ Echoing' \in {Echoing, 0}
  <2>1. CASE Terminal!AgentStarts
    BY <2>1 DEF Terminal!AgentStarts, Echoing, ShellPcs
  <2>2. CASE Terminal!AgentCloses
    <3>1. driver.pc = "read" => driver' = [driver EXCEPT !.pc = "exit"]
      BY <2>2 DEF Terminal!AgentCloses
    <3>2. driver.pc # "read" => driver' = driver
      BY <2>2 DEF Terminal!AgentCloses
    <3> QED BY <1>2, <3>1, <3>2 DEF Echoing, ShellPcs
  <2>3. CASE Terminal!AgentWrites \/ Terminal!AgentResizes \/ Terminal!AgentIgnores
    BY <1>2, <2>3 DEF Terminal!AgentWrites, Terminal!AgentResizes, Terminal!AgentIgnores, Echoing
  <2> QED BY <2>1, <2>2, <2>3 DEF Terminal!AgentReceives
<1>8. ConType' /\ Slot(Echoing', d, e)
  BY <1>1, <1>2, <1>3, <1>7 DEF ConType, Pipeline, Slot
<1>9. CASE stdin' = 0
  <2>1. Slot(stdin', e, f)
    BY <1>9 DEF Slot
  <2>2. Pipeline(a, b, c, d, e, f)'
    BY <1>1, <1>3, <1>6, <1>8, <2>1 DEF Pipeline
  <2> QED BY <1>8, <2>2 DEF ConInv
<1>10. CASE m.kind = "DATA" /\ stdin' = m.n
  <2>0. PICK n \in Nat : n = m.n
    BY <1>6, <1>10
  <2>1. Slot(stdin', e, n) /\ e <= n /\ n <= client.typed /\ Queue(down', n, client.typed)
    BY <1>2, <1>6, <1>10, <2>0 DEF Slot
  <2>2. Pipeline(a, b, c, d, e, n)'
    BY <1>1, <1>3, <1>8, <2>1 DEF Pipeline
  <2> QED BY <1>8, <2>2 DEF ConInv
<1> QED BY <1>5, <1>9, <1>10

LEMMA ShellStep ==
  ASSUME ConInv, Terminal!Shell \/ Terminal!ResizeAnswered \/ Terminal!OutputSends \/ Terminal!AgentBeats
  PROVE  ConInv'
<1>1. PICK a, b, c, d, e, f : Pipeline(a, b, c, d, e, f)
  BY DEF ConInv
<1>2. /\ ConType /\ b \in Nat /\ c \in Nat /\ d \in Nat /\ e \in Nat /\ f \in Nat
      /\ b <= c /\ c <= d /\ d <= e /\ e <= f
      /\ Queue(up, b, c) /\ Slot(stdout, c, d) /\ Slot(Echoing, d, e) /\ Slot(stdin, e, f)
      /\ driver \in [pc : ShellPcs, n : Nat]
  BY <1>1 DEF ConInv, ConType, Pipeline
<1>3. client' = client /\ down' = down /\ inbound' = inbound /\ screen' = screen
  BY DEF Terminal!Shell, Terminal!ShellReads, Terminal!ShellNotifies, Terminal!ShellEchoes, Terminal!ResizeAnswered,
         Terminal!OutputSends, Terminal!AgentBeats
<1>4. CASE Terminal!ShellReads
  <2>1. /\ driver.pc = "read" /\ stdin # 0 /\ stdin' = 0 /\ driver' = [pc |-> "write", n |-> stdin]
        /\ up' = up /\ stdout' = stdout
    BY <1>4 DEF Terminal!ShellReads
  <2>2. PICK n \in Nat : n = stdin /\ e < n /\ n <= f
    BY <1>2, <2>1 DEF Slot
  <2>3. driver' \in [pc : ShellPcs, n : Nat] /\ Echoing' = n
    BY <2>1, <2>2 DEF Echoing, ShellPcs
  <2>4. Slot(Echoing', d, n) /\ Slot(stdin', n, f) /\ d <= n
    BY <1>2, <2>1, <2>2, <2>3 DEF Slot
  <2>5. Pipeline(a, b, c, d, n, f)'
    BY <1>1, <1>3, <2>1, <2>2, <2>4 DEF Pipeline
  <2> QED BY <1>2, <1>3, <2>3, <2>5 DEF ConInv, ConType
<1>5. ASSUME NEW exits \in BOOLEAN, Terminal!ShellEchoes(exits) PROVE ConInv'
  <2> DEFINE p == IF exits THEN "exit" ELSE IF active THEN "read" ELSE "bye"
  <2>1. /\ driver.pc = "write" /\ stdout = 0 /\ stdout' = driver.n
        /\ driver' = [driver EXCEPT !.pc = p] /\ stdin' \in {0, stdin} /\ up' = up
    BY <1>5 DEF Terminal!ShellEchoes, Terminal!OutputReads
  <2>2. /\ driver' \in [pc : ShellPcs, n : Nat] /\ Echoing' = 0
        /\ Echoing = driver.n
    BY <1>2, <2>1 DEF Echoing, ShellPcs
  <2>3. Slot(stdin', e, f)
    BY <1>2, <2>1 DEF Slot
  <2>4. CASE driver.n = 0
    <3>1. Slot(stdout', c, d) /\ Slot(Echoing', d, e)
      BY <2>1, <2>2, <2>4 DEF Slot
    <3>2. Pipeline(a, b, c, d, e, f)'
      BY <1>1, <1>3, <2>1, <2>3, <3>1 DEF Pipeline
    <3> QED BY <1>2, <1>3, <2>2, <3>2 DEF ConInv, ConType
  <2>5. CASE driver.n # 0
    <3>1. PICK n \in Nat : n = driver.n /\ d < n /\ n <= e
      BY <1>2, <2>2, <2>5 DEF Slot
    <3>2. Slot(stdout', c, n) /\ Slot(Echoing', n, e) /\ c <= n
      BY <1>2, <2>1, <2>2, <3>1 DEF Slot
    <3>3. Pipeline(a, b, c, n, e, f)'
      BY <1>1, <1>3, <2>1, <2>3, <3>1, <3>2 DEF Pipeline
    <3> QED BY <1>2, <1>3, <2>2, <3>3 DEF ConInv, ConType
  <2> QED BY <2>4, <2>5
<1>6. ASSUME NEW m \in ConMsg, m.kind # "DATA", up' = Append(up, m), UNCHANGED <<stdout, driver, stdin>>
      PROVE  ConInv'
  <2>1. Queue(up', b, c)
    BY <1>2, <1>6, Enqueued
  <2>2. Echoing' = Echoing
    BY <1>6 DEF Echoing
  <2>3. Pipeline(a, b, c, d, e, f)'
    BY <1>1, <1>3, <1>6, <2>1, <2>2 DEF Pipeline
  <2> QED BY <1>2, <1>3, <1>6, <2>3 DEF ConInv, ConType
<1>9. CASE Terminal!ResizeAnswered \/ Terminal!ShellNotifies
  <2>1. /\ up' = up /\ stdout' = stdout /\ stdin' = stdin
        /\ driver' = driver \/ (driver.pc \in {"banner", "bye"} /\ \E p \in {"read", "bye", "exit"} : driver' = [driver EXCEPT !.pc = p])
    BY <1>9 DEF Terminal!ResizeAnswered, Terminal!ShellNotifies
  <2>2. driver' \in [pc : ShellPcs, n : Nat] /\ Echoing' = Echoing
    BY <1>2, <2>1 DEF Echoing, ShellPcs
  <2>3. Pipeline(a, b, c, d, e, f)'
    BY <1>1, <1>3, <2>1, <2>2 DEF Pipeline
  <2> QED BY <1>2, <1>3, <2>2, <2>3 DEF ConInv, ConType
<1>7. CASE Terminal!AgentBeats
  <2>1. Terminal!Msg("BEAT", 0) \in ConMsg /\ Terminal!Msg("BEAT", 0).kind # "DATA"
    BY DEF ConMsg, ConKinds, Terminal!Msg
  <2> QED BY <1>6, <1>7, <2>1 DEF Terminal!AgentBeats
<1>8. CASE Terminal!OutputSends
  <2>1. \A k \in {"CLOSE", "NOTICE"} : Terminal!Msg(k, 0) \in ConMsg /\ Terminal!Msg(k, 0).kind # "DATA"
    BY DEF ConMsg, ConKinds, Terminal!Msg
  <2>2. CASE \E k \in {"CLOSE", "NOTICE"} : up' = Append(up, Terminal!Msg(k, 0)) /\ UNCHANGED <<stdout, driver, stdin>>
    BY <1>6, <2>1, <2>2
  <2>3. CASE stdout # 0 /\ up' = Append(up, Terminal!Msg("DATA", stdout)) /\ stdout' = 0
    <3>1. PICK n \in Nat : n = stdout /\ c < n /\ n <= d
      BY <1>2, <2>3 DEF Slot
    <3>2. up' = Append(up, Terminal!Msg("DATA", n)) /\ stdout' = 0 /\ driver' = driver /\ stdin' = stdin
      BY <1>8, <2>3, <3>1 DEF Terminal!OutputSends
    <3>3. Terminal!Msg("DATA", n) \in ConMsg /\ Terminal!Msg("DATA", n).n = n
      BY DEF ConMsg, ConKinds, Terminal!Msg
    <3>4. Queue(up', b, n) /\ b <= n
      BY <1>2, <3>1, <3>2, <3>3, Enqueued
    <3>5. Slot(stdout', n, d) /\ Echoing' = Echoing
      BY <3>2 DEF Slot, Echoing
    <3>6. Pipeline(a, b, n, d, e, f)'
      BY <1>1, <1>3, <3>1, <3>2, <3>4, <3>5 DEF Pipeline
    <3> QED BY <1>2, <1>3, <3>2, <3>6 DEF ConInv, ConType
  <2> QED BY <1>8, <2>2, <2>3 DEF Terminal!OutputSends
<1> QED BY <1>4, <1>5, <1>7, <1>8, <1>9 DEF Terminal!Shell

\* What the client sees of a console session is what it typed, in order.
THEOREM EchoCorrect == Terminal!Spec => []Terminal!EchoInOrder
<1>1. Terminal!Init => ConInv
  <2> SUFFICES ASSUME Terminal!Init PROVE ConInv
    OBVIOUS
  <2>1. /\ client = [open |-> TRUE, typed |-> 0] /\ driver = [pc |-> "none", n |-> 0]
        /\ down = <<>> /\ up = <<>> /\ stdin = 0 /\ stdout = 0 /\ inbound = <<>> /\ screen = <<>>
    BY DEF Terminal!Init
  <2>2. ConType /\ Echoing = 0 /\ client.typed = 0
    BY <2>1 DEF ConType, Echoing, ShellPcs
  <2>3. Queue(<<>>, 0, 0) /\ Screen(<<>>, 0) /\ Slot(0, 0, 0)
    BY DEF Queue, Screen, Slot
  <2>4. Pipeline(0, 0, 0, 0, 0, 0)
    BY <2>1, <2>2, <2>3 DEF Pipeline
  <2> QED BY <2>2, <2>4 DEF ConInv
<1>2. ConInv /\ [Terminal!Next]_(Terminal!consVars) => ConInv'
  <2>1. ASSUME ConInv, UNCHANGED Terminal!consVars PROVE ConInv'
    <3>1. PICK a, b, c, d, e, f : Pipeline(a, b, c, d, e, f)
      BY <2>1 DEF ConInv
    <3>2. /\ client' = client /\ down' = down /\ up' = up /\ stdin' = stdin /\ driver' = driver
          /\ stdout' = stdout /\ inbound' = inbound /\ screen' = screen
      BY <2>1 DEF Terminal!consVars
    <3>3. Pipeline(a, b, c, d, e, f)' /\ ConType'
      BY <2>1, <3>1, <3>2 DEF Pipeline, Echoing, ConInv, ConType
    <3> QED BY <3>3 DEF ConInv
  <2> QED BY <2>1, TunnelStep, SessionReceiveStep, AgentStep, ShellStep DEF Terminal!Next, Terminal!Server, Terminal!Handler
<1>3. ConInv => Terminal!EchoInOrder
  <2> SUFFICES ASSUME ConInv PROVE Terminal!EchoInOrder
    OBVIOUS
  <2>1. PICK a \in Nat : Screen(screen, a) /\ a <= client.typed
    BY DEF ConInv, ConType, Pipeline
  <2>2. client.typed \in Nat /\ \A i \in DOMAIN screen : screen[i] \in Nat
    BY <2>1 DEF ConInv, ConType, Screen
  <2> QED BY <2>1, <2>2 DEF Screen, Terminal!EchoInOrder
<1> QED BY <1>1, <1>2, <1>3, PTL DEF Terminal!Spec
=============================================================================
