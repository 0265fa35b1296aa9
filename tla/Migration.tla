----------------------------- MODULE Migration -----------------------------
(***************************************************************************)
(* Moving instances between nodes: Migrate and executeMigration            *)
(* (internal/app/migration/service.go), DrainNode and EvacuateNode         *)
(* (internal/app/evacuation/service.go), with the nodes' guests.           *)
(*                                                                         *)
(* A call of Migrate is named by the migration it would create.  Its       *)
(* check and its insert are two steps; the goroutine it starts is not tied *)
(* to the request and dies with the server.  A guest is known by the       *)
(* instance it belongs to, since names are unique.                         *)
(***************************************************************************)
EXTENDS Placement

CONSTANTS
  Migs,        \* migrations that may be asked for
  Insts,       \* instances
  SizeOf,      \* their sizes
  NodeFacts,   \* loc, arch, kvm, capacity and over of each node
  Home,        \* the node each instance starts on
  Asked,       \* the destinations callers name, "" to leave it to the scheduler
  Drained,     \* the nodes an administrator drains and evacuates
  MaxCrashes   \* how often the server dies or a write fails

Nodes == DOMAIN NodeFacts

VARIABLES
  rows,     \* node and status of each instance
  guests,   \* guests[n][i]: absent, stopped or running
  nodeRow,  \* status and drain flag of each node
  mig,      \* the migrations and the calls and goroutines behind them
  evac,     \* one evacuation
  crashes,
  lost      \* history: the writes that failed, each with its migration or instance

migVars == <<rows, guests, nodeRow, mig, evac, crashes, lost>>

NoMig == [pc |-> "unused", inst |-> "", src |-> "", dst |-> "", type |-> "",
          run |-> FALSE, status |-> ""]

NoEvac == [pc |-> "idle", node |-> "", dst |-> "", todo |-> {}, call |-> ""]

Init ==
  /\ rows = [i \in Insts |-> [node |-> Home[i], status |-> "running"]]
  /\ guests = [n \in Nodes |-> [i \in Insts |-> IF Home[i] = n THEN "running" ELSE "absent"]]
  /\ nodeRow = [n \in Nodes |-> [status |-> "online", drain |-> FALSE]]
  /\ mig = [m \in Migs |-> NoMig] /\ evac = NoEvac /\ crashes = 0
  /\ lost = {}

\* Nothing tells reserving, transferring and verifying apart: all are active, and
\* so a write of one over another changes nothing, whether it fails or not.
IsTerminal(s) == s \in {"completed", "failed", "canceled", "rolled_back"}

\* GetActiveForInstance.
Active(i) == {m \in Migs : mig[m].inst = i /\ mig[m].status # "" /\ ~IsTerminal(mig[m].status)}

\* The history takes note of a write that fails.
Lose(what) == crashes + Cardinality(lost) < MaxCrashes /\ lost' = lost \cup {what}

\* A migration nothing works on any more; only its status is read again.
Over(m, s) == [NoMig EXCEPT !.pc = "done", !.inst = mig[m].inst, !.status = s]

(***************************************************************************)
(* What the scheduler and the preflight check read.                        *)
(***************************************************************************)
NodeRec(n) ==
  LET f == NodeFacts[n] IN
  [id |-> n, maintenance |-> FALSE, status |-> nodeRow[n].status, drain |-> nodeRow[n].drain,
   loc |-> f.loc, arch |-> f.arch, kvm |-> f.kvm, capacity |-> f.capacity, over |-> f.over]

InstRecs == {[id |-> i, size |-> SizeOf[i], node |-> rows[i].node, status |-> rows[i].status] :
               i \in Insts}

Request(i, exclude) == [kind |-> "container", loc |-> "", arch |-> "", size |-> SizeOf[i],
                        exclude |-> exclude, preferred |-> ""]

\* Passed() of what PreflightCheck reports; it asks nothing of the capacity when
\* the scheduler could not read the nodes and instances.
PreflightCheck(i, dst, read) ==
  LET n == NodeRec(dst) IN
  /\ IsSchedulable(n)
  /\ NodeFacts[rows[i].node].arch = n.arch
  /\ read => /\ Eligible(InstRecs, n, Request(i, {}))
             /\ \A res \in Resources : Reported(InstRecs, n, res) >= SizeOf[i][res]

\* The destinations a call may end up with.
Destinations(i, dst, read) ==
  {d \in IF dst = "" THEN {n.id : n \in SelectNode({NodeRec(n) : n \in Nodes}, InstRecs,
                                                   Request(i, {rows[i].node}))}
         ELSE {dst} : d # rows[i].node /\ PreflightCheck(i, d, read)}

(***************************************************************************)
(* Migrate.                                                                *)
(***************************************************************************)
\* Every reason to refuse is found before the insert, a read that fails included.
MigrateCheck(m, i, dst, type) ==
  /\ mig[m].pc = "unused"
  /\ \/ /\ Active(i) = {}
        /\ \E read \in BOOLEAN : \E d \in Destinations(i, dst, read) :
             mig' = [mig EXCEPT ![m] = [pc |-> "checked", inst |-> i, src |-> rows[i].node,
                       dst |-> d, type |-> type, run |-> rows[i].status = "running",
                       status |-> ""]]
     \/ mig' = [mig EXCEPT ![m] = Over(m, "")]
  /\ UNCHANGED <<rows, guests, nodeRow, crashes, lost>>

RequestMigration(m, i, dst, type) == MigrateCheck(m, i, dst, type) /\ UNCHANGED evac

MigrateCreate(m) ==
  /\ mig[m].pc = "checked"
  /\ mig' = [mig EXCEPT ![m].status = "active", ![m].pc = "start"]
  /\ UNCHANGED <<rows, guests, nodeRow, evac, crashes, lost>>

(***************************************************************************)
(* executeMigration.  SendCommand has no deadline of its own and gets none *)
(* from its caller: it returns an answer or the failure to send, and waits *)
(* for ever when the stream breaks in between.                             *)
(***************************************************************************)
\* The write of a status and the step of the goroutine that follows it.
Step(m, from, to, s) ==
  /\ mig[m].pc = from
  /\ mig' = [mig EXCEPT ![m] = IF to = "done" THEN Over(m, s) ELSE [@ EXCEPT !.pc = to, !.status = s]]

Goroutine(m, from, to) == Step(m, from, to, mig[m].status)

\* A final status. Nobody looks at the error of UpdateStatus: the goroutine goes on.
UpdateStatus(m, from, to, s) ==
  /\ \/ Step(m, from, to, s) /\ UNCHANGED lost
     \/ Goroutine(m, from, to) /\ Lose(<<s, m>>)
  /\ UNCHANGED <<rows, guests, nodeRow, evac, crashes>>

\* A guest that is there changes, or the command fails: the caller ignores it.
Command(n, i, state) ==
  /\ guests' \in {guests} \cup
       (IF guests[n][i] # "absent" THEN {[guests EXCEPT ![n][i] = state]} ELSE {})
  /\ UNCHANGED <<rows, nodeRow, evac, crashes, lost>>

\* Nothing reads the type again.
Transferring(m) ==
  /\ mig[m].pc = "start"
  /\ mig' = [mig EXCEPT ![m].type = "",
               ![m].pc = IF mig[m].type = "cold" /\ mig[m].run THEN "stop" ELSE "create"]
  /\ UNCHANGED <<rows, guests, nodeRow, evac, crashes, lost>>

StopSource(m) ==
  /\ Goroutine(m, "stop", "create")
  /\ Command(mig[m].src, mig[m].inst, "stopped")

\* An existing guest of that name is refused.  The start after the creation
\* may fail unnoticed, and so may the answer of a creation that happened.
CreateDest(m) ==
  LET i == mig[m].inst
      d == mig[m].dst
  IN /\ mig[m].pc = "create"
     /\ \/ /\ guests[d][i] = "absent"
           /\ \E g \in {"stopped"} \cup (IF mig[m].run THEN {"running"} ELSE {}) :
                guests' = [guests EXCEPT ![d][i] = g]
           /\ \E next \in {"verify", "rollback"} : Goroutine(m, "create", next)
        \/ /\ UNCHANGED guests
           /\ Goroutine(m, "create", "rollback")
     /\ UNCHANGED <<rows, nodeRow, evac, crashes, lost>>

RollBack(m) ==
  UpdateStatus(m, "rollback", IF mig[m].run THEN "restart" ELSE "done", "rolled_back")

RestartSource(m) ==
  /\ Goroutine(m, "restart", "done")
  /\ Command(mig[m].src, mig[m].inst, "running")

Verifying(m) ==
  /\ Goroutine(m, "verify", "move")
  /\ UNCHANGED <<rows, guests, nodeRow, evac, crashes, lost>>

\* Mutant: the source goes before the row points away from it.
MoveRowLast(m) ==
  /\ Goroutine(m, "move", "cleanup")
  /\ guests' = [guests EXCEPT ![mig[m].src][mig[m].inst] = "absent"]
  /\ UNCHANGED <<rows, nodeRow, evac, crashes, lost>>

\* UpdateNodeID of the instance, then UpdateStatus; whether they fail or not,
\* the source is deleted next.
MoveRow(m) ==
  /\ Goroutine(m, "move", IF mig[m].run THEN "restate" ELSE "cleanup")
  /\ \/ rows' = [rows EXCEPT ![mig[m].inst].node = mig[m].dst] /\ UNCHANGED lost
     \/ UNCHANGED rows /\ Lose(<<"move", mig[m].inst>>)
  /\ UNCHANGED <<guests, nodeRow, evac, crashes>>

RestateRow(m) ==
  /\ Goroutine(m, "restate", "cleanup")
  /\ rows' \in {rows, [rows EXCEPT ![mig[m].inst].status = "running"]}
  /\ UNCHANGED <<guests, nodeRow, evac, crashes, lost>>

DeleteSource(m) ==
  /\ Goroutine(m, "cleanup", "complete")
  /\ Command(mig[m].src, mig[m].inst, "absent")

\* Mutant: the last write is skipped when the source was not deleted.
CompletedIfClean(m) ==
  /\ UpdateStatus(m, "complete", "done", "completed")
  /\ guests[mig[m].src][mig[m].inst] = "absent"

\* The event and the audit record follow; neither is read here.
Completed(m) == UpdateStatus(m, "complete", "done", "completed")

executeMigration(m) ==
  \/ Transferring(m) \/ StopSource(m) \/ CreateDest(m) \/ RollBack(m) \/ RestartSource(m)
  \/ Verifying(m) \/ MoveRow(m) \/ RestateRow(m) \/ DeleteSource(m) \/ Completed(m)

\* What the command of a step may make of the guest.
Outcome(m) ==
  CASE mig[m].pc = "stop" -> {"stopped"}
    [] mig[m].pc = "restart" -> {"running"}
    [] mig[m].pc = "cleanup" -> {"absent"}
    [] OTHER -> {"stopped"} \cup (IF mig[m].run THEN {"running"} ELSE {})

\* The stream breaks after a command was sent, executed or not: nothing ends
\* the wait of the goroutine.
AnswerLost(m) ==
  LET i  == mig[m].inst
      at == IF mig[m].pc = "create" THEN mig[m].dst ELSE mig[m].src
  IN /\ mig[m].pc \in {"stop", "create", "restart", "cleanup"}
     /\ \/ UNCHANGED guests
        \/ /\ guests[at][i] = "absent" <=> mig[m].pc = "create"
           /\ \E g \in Outcome(m) : guests' = [guests EXCEPT ![at][i] = g]
     /\ mig' = [mig EXCEPT ![m] = [Over(m, mig[m].status) EXCEPT !.pc = "waiting"]]
     /\ UNCHANGED <<rows, nodeRow, evac, crashes, lost>>

(***************************************************************************)
(* Draining and evacuation.                                                *)
(***************************************************************************)
\* UpdateDrainMode: PostgreSQL keeps the status, the in-memory repository
\* turns online into draining and back; IsSchedulable reads both fields.
DrainNode(n, on) ==
  /\ nodeRow' = [nodeRow EXCEPT ![n].drain = on]
  /\ UNCHANGED <<rows, guests, mig, evac, crashes, lost>>

\* The node is drained first, then its instances are listed.
EvacuateNode(n, dst) ==
  /\ evac.pc = "idle"
  /\ nodeRow' = [nodeRow EXCEPT ![n].drain = TRUE]
  /\ evac' = [pc |-> "listing", node |-> n, dst |-> dst, todo |-> {}, call |-> ""]
  /\ UNCHANGED <<rows, guests, mig, crashes, lost>>

EvacuateList ==
  /\ evac.pc = "listing"
  /\ evac' = [evac EXCEPT !.pc = "moving", !.todo = {i \in Insts : rows[i].node = evac.node}]
  /\ UNCHANGED <<rows, guests, nodeRow, mig, crashes, lost>>

\* One call of Migrate after the other; a refusal is counted and passed over.
EvacuateNext(m, i) ==
  /\ evac.pc = "moving" /\ i \in evac.todo /\ evac.call = ""
  /\ MigrateCheck(m, i, evac.dst, "cold")
  /\ evac' = [evac EXCEPT !.todo = @ \ {i}, !.call = m]

EvacuateReturn ==
  /\ evac.call # "" /\ mig[evac.call].pc # "checked"
  /\ evac' = [evac EXCEPT !.call = ""]
  /\ UNCHANGED <<rows, guests, nodeRow, mig, crashes, lost>>

EvacuateDone ==
  /\ evac.pc = "moving" /\ evac.todo = {} /\ evac.call = ""
  /\ evac' = [NoEvac EXCEPT !.pc = "done"]
  /\ UNCHANGED <<rows, guests, nodeRow, mig, crashes, lost>>

\* The server dies with every call and goroutine; rows and guests stay.
Crash ==
  /\ crashes + Cardinality(lost) < MaxCrashes
  /\ crashes' = crashes + 1
  /\ mig' = [m \in Migs |-> IF mig[m].pc = "unused" THEN NoMig ELSE Over(m, mig[m].status)]
  /\ evac' = IF evac.pc = "idle" THEN NoEvac ELSE [NoEvac EXCEPT !.pc = "done"]
  /\ UNCHANGED <<rows, guests, nodeRow, lost>>

Next ==
  \/ \E m \in Migs :
       \/ \E i \in Insts, dst \in Asked, type \in {"live", "cold"} :
            RequestMigration(m, i, dst, type)
       \/ MigrateCreate(m) \/ executeMigration(m) \/ AnswerLost(m)
       \/ \E i \in Insts : EvacuateNext(m, i)
  \/ \E n \in Drained, on \in BOOLEAN : DrainNode(n, on)
  \/ \E n \in Drained, dst \in Asked : EvacuateNode(n, dst)
  \/ EvacuateList \/ EvacuateReturn \/ EvacuateDone \/ Crash

\* A started goroutine runs on; a handler may give up before the insert.
Fairness == \A m \in Migs : WF_migVars(MigrateCreate(m) \/ executeMigration(m))

Spec == Init /\ [][Next]_migVars

FairSpec == Spec /\ Fairness

-----------------------------------------------------------------------------
\* The calls and goroutines that still move instance i.
InFlight(i) == {m \in Migs : mig[m].inst = i /\ mig[m].pc \notin {"unused", "done", "waiting"}}

\* No two overlapping migrations of an instance are chained, one going back to
\* the node the other left.
NoChain == \A i \in Insts : \A m, k \in InFlight(i) : mig[m].src # mig[k].dst

\* The instances whose row a failed UpdateNodeID left where the guest goes.
Astray == {i \in Insts : <<"move", i>> \in lost}

\* The row of an instance points at a node with its guest.  Three calls of
\* Migrate break it: one is past its check when a second moves the instance
\* away and a third moves it back, and then deletes what it takes for the source.
\* So does one call whose UpdateNodeID fails: that instance is astray.
RowBacked == \A i \in Insts \ Astray : guests[rows[i].node][i] # "absent"

\* As long as overlapping migrations are not chained, no migration, no rollback,
\* no lost answer, no two migrations of one instance from one node side by side
\* and no crash between two of their steps leaves a row without its guest: the
\* row moves between the creation of the new guest and the deletion of the old.
\* An instance is excepted once its own UpdateNodeID failed; the others are not.
MovesKeepGuests == []NoChain => []RowBacked

\* A migration whose goroutine lives and waits for no lost answer reaches a
\* final status, whatever commands fail and whatever the other migrations of
\* the instance wait for, unless the write of that status fails; what a crash,
\* a lost answer or a failed write leaves behind, nothing picks up again.
AllEnded ==
  crashes > 0 \/ \A i \in Insts : \A m \in Active(i) :
    mig[m].pc = "waiting" \/ \E s \in {"completed", "rolled_back"} : <<s, m>> \in lost

MigrationsEnd == <>[]AllEnded

\* "workload is already undergoing active migration": an instance has one
\* migration at a time.  Does not hold: check and insert are two steps.
OneActive == \A i \in Insts : Cardinality(Active(i)) <= 1
=============================================================================
