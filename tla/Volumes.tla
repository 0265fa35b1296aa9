------------------------------- MODULE Volumes -------------------------------
(***************************************************************************)
(* Volumes of one pool (internal/app/storage/service.go), their tables     *)
(* and the node's storage driver.  A call reads the volume's row, then the *)
(* pool's, writes whole rows back and tells the node; the node's answer is *)
(* dropped.  Calls of several clients interleave between those steps.      *)
(***************************************************************************)
EXTENDS Integers, FiniteSets, Functions

CONSTANTS
  Vols,           \* ids of volumes
  NameOf,         \* their names; a name is free again once its volume is deleted
  Guests,         \* instances, all on the pool's node
  Sizes,          \* sizes a request may ask for
  SnapNames,
  Clients,        \* clients, each with one call in progress
  MaxCalls,       \* calls made
  TableInMemory   \* the tables are the in-memory ones

VARIABLES
  pool,      \* the pool's row: [exists, used]
  vols,      \* the volumes table: [Vols -> row]
  snaps,     \* the snapshots table: a set of [vol, name]
  nodeVols,  \* the node: sizes of the volumes by name, 0 when there is none
  nodeDisks, \* the node: pairs of a guest and the name of a volume it has
  nodeSnaps, \* the node: pairs of a volume's name and a snapshot's
  call,      \* the clients' calls
  calls,
  clean,     \* no two calls overlapped, and no command was lost
  booked     \* no write of the pool's row was lost

volVars == <<pool, vols, snaps, nodeVols, nodeDisks, nodeSnaps, call, calls, clean, booked>>

\* The empty id: no guest, no volume, no name.
NoId == ""

NoRow == [status |-> "none", inst |-> NoId, size |-> 0]
Deleted == [NoRow EXCEPT !.status = "deleted"]
VolNames == {NameOf[v] : v \in Vols}
Idle == [pc |-> "idle", op |-> NoId, vol |-> NoId, arg |-> [guest |-> NoId, size |-> 0, snap |-> NoId],
         row |-> NoRow, used |-> 0]
NoArg == Idle.arg

Init ==
  /\ pool = [exists |-> FALSE, used |-> 0]
  /\ vols = [v \in Vols |-> NoRow] /\ snaps = {}
  /\ nodeVols = [n \in VolNames |-> 0] /\ nodeDisks = {} /\ nodeSnaps = {}
  /\ call = [c \in Clients |-> Idle] /\ calls = 0 /\ clean = TRUE /\ booked = TRUE

Exists(v) == vols[v].status \in {"ready", "attached"}
IsAttached(row) == row.inst # NoId /\ row.status = "attached"

rows == <<pool, vols, snaps>>
node == <<nodeVols, nodeDisks, nodeSnaps>>

CreateStoragePool ==
  /\ ~pool.exists
  /\ pool' = [pool EXCEPT !.exists = TRUE]
  /\ UNCHANGED <<vols, snaps, node, call, calls, clean, booked>>

(***************************************************************************)
(* A call begins: it reads the volume's row, and returns early unless      *)
(* Admits.  CreateVolume has no row to read.                               *)
(***************************************************************************)
Starts(c, op, v, arg) ==
  /\ pool.exists /\ call[c].pc = "idle" /\ calls < MaxCalls
  /\ call' = [call EXCEPT ![c] = [pc |-> "pool", op |-> op, vol |-> v, arg |-> arg, row |-> vols[v], used |-> 0]]
  /\ calls' = calls + 1
  /\ clean' = (clean /\ \A d \in Clients : call[d].pc = "idle")
  /\ UNCHANGED <<rows, node, booked>>

CreateVolume(c, v, size) == vols[v].status = "none" /\ Starts(c, "create", v, [NoArg EXCEPT !.size = size])

AttachVolume(c, v, g) ==
  Exists(v) /\ ~IsAttached(vols[v]) /\ Starts(c, "attach", v, [NoArg EXCEPT !.guest = g])

DetachVolume(c, v) ==
  Exists(v) /\ IsAttached(vols[v]) /\ Starts(c, "detach", v, [NoArg EXCEPT !.guest = vols[v].inst])

ResizeVolume(c, v, size) ==
  Exists(v) /\ size >= vols[v].size /\ Starts(c, "resize", v, [NoArg EXCEPT !.size = size])

DeleteVolume(c, v) == Exists(v) /\ ~IsAttached(vols[v]) /\ Starts(c, "delete", v, NoArg)

CreateSnapshot(c, v, s) == Exists(v) /\ Starts(c, "snapshot", v, [NoArg EXCEPT !.snap = s])

\* The snapshot is found by its id: it may be of another volume.
RestoreSnapshot(c, v, s) ==
  Exists(v) /\ s \in snaps /\ Starts(c, "restore", v, [NoArg EXCEPT !.snap = s.name])

DeleteSnapshot(c, v, s) ==
  Exists(v) /\ s \in snaps /\ Starts(c, "drop", v, [NoArg EXCEPT !.snap = s.name, !.guest = s.vol])

\* The pool's row is read.
PoolGetByID(c) ==
  /\ call[c].pc = "pool"
  /\ call' = [call EXCEPT ![c].used = pool.used,
       ![c].pc = IF call[c].op = "restore" THEN "send" ELSE "row"]
  /\ UNCHANGED <<rows, node, calls, clean, booked>>

(***************************************************************************)
(* The table is written.  An Update or a Delete of a row that is gone      *)
(* ends the call with an error.                                            *)
(***************************************************************************)
NewRow(k) ==
  CASE k.op = "create" -> [status |-> "ready", inst |-> NoId, size |-> k.arg.size]
    [] k.op = "attach" -> [k.row EXCEPT !.inst = k.arg.guest, !.status = "attached"]
    [] k.op = "detach" -> [k.row EXCEPT !.inst = NoId, !.status = "ready"]
    [] k.op = "resize" -> [k.row EXCEPT !.size = k.arg.size]
    [] OTHER -> Deleted

Writes == {"create", "attach", "detach", "resize", "delete"}

\* Mutant: the row is written whether or not it is there.
VolumeWritableAlways(k) == TRUE

\* Create: the name is free in the pool; Update and Delete: the row is there.
VolumeWritable(k) ==
  IF k.op = "create"
  THEN vols[k.vol].status = "none" /\ \A v \in Vols : Exists(v) => NameOf[v] # NameOf[k.vol]
  ELSE Exists(k.vol)

\* The snapshots of a deleted volume go with it in postgres alone.
Cascade(k) ==
  IF k.op = "delete" /\ ~TableInMemory THEN {s \in snaps : s.vol # k.vol} ELSE snaps

VolumeWrite(c) ==
  /\ call[c].pc = "row" /\ call[c].op \in Writes
  /\ IF VolumeWritable(call[c])
     THEN /\ vols' = [vols EXCEPT ![call[c].vol] = NewRow(call[c])]
          /\ snaps' = Cascade(call[c])
          /\ call' = [call EXCEPT ![c].pc = IF call[c].op \in {"attach", "detach"} THEN "send" ELSE "used"]
     ELSE call' = [call EXCEPT ![c] = Idle] /\ UNCHANGED <<vols, snaps>>
  /\ UNCHANGED <<pool, node, calls, clean, booked>>

Snap(k) == [vol |-> IF k.op = "drop" THEN k.arg.guest ELSE k.vol, name |-> k.arg.snap]

\* Create refuses a name the volume has; in postgres it refuses a volume
\* that is gone.  Delete refuses an id that is gone.
SnapshotWritable(k) ==
  IF k.op = "drop" THEN Snap(k) \in snaps
  ELSE Snap(k) \notin snaps /\ (TableInMemory \/ Exists(k.vol))

SnapshotWrite(c) ==
  /\ call[c].pc = "row" /\ call[c].op \in {"snapshot", "drop"}
  /\ IF SnapshotWritable(call[c])
     THEN /\ snaps' = IF call[c].op = "drop" THEN snaps \ {Snap(call[c])} ELSE snaps \cup {Snap(call[c])}
          /\ call' = [call EXCEPT ![c].pc = "send"]
     ELSE call' = [call EXCEPT ![c] = Idle] /\ UNCHANGED snaps
  /\ UNCHANGED <<pool, vols, node, calls, clean, booked>>

\* Mutant: a deletion leaves the pool's count.
UsedAfterKeeps(k) == k.used + (IF k.op = "create" THEN k.arg.size ELSE IF k.op = "resize" THEN k.arg.size - k.row.size ELSE 0)

\* The pool's space: what was read of it, plus or minus the volume's.
UsedAfter(k) ==
  CASE k.op = "create" -> k.used + k.arg.size
    [] k.op = "resize" -> k.used + (k.arg.size - k.row.size)
    [] OTHER -> IF k.used < k.row.size THEN 0 ELSE k.used - k.row.size

\* A statement may fail in postgres; the in-memory tables always answer.
Outcomes == IF TableInMemory THEN {TRUE} ELSE BOOLEAN

\* The error of the pool's write is dropped: the call goes on.
PoolUpdate(c, ok) ==
  /\ call[c].pc = "used"
  /\ pool' = IF ok THEN [pool EXCEPT !.used = UsedAfter(call[c])] ELSE pool
  /\ call' = [call EXCEPT ![c].pc = "send"]
  /\ booked' = (booked /\ ok)
  /\ UNCHANGED <<vols, snaps, node, calls, clean>>

\* A statement before that one fails: the call returns its error.
StatementFails(c) ==
  /\ ~TableInMemory /\ call[c].pc \in {"pool", "row"}
  /\ call' = [call EXCEPT ![c] = Idle]
  /\ UNCHANGED <<rows, node, calls, clean, booked>>

(***************************************************************************)
(* The command reaches the node's driver and is done, or not: the gateway  *)
(* has no stream, the driver refuses, or the Incus daemon accepts it (202) *)
(* and its operation fails later.  The call drops the error, if there is   *)
(* one.                                                                    *)
(***************************************************************************)
DriverVolumes(k) ==
  LET n == NameOf[k.vol]
  IN  CASE k.op \in {"create", "resize"} -> [nodeVols EXCEPT ![n] = k.arg.size]
        [] k.op = "delete" -> [nodeVols EXCEPT ![n] = 0]
        [] OTHER -> nodeVols

DriverDisks(k) ==
  CASE k.op = "attach" -> nodeDisks \cup {<<k.arg.guest, NameOf[k.vol]>>}
    [] k.op = "detach" -> nodeDisks \ {<<k.arg.guest, NameOf[k.vol]>>}
    [] OTHER -> nodeDisks

DriverSnapshots(k) ==
  CASE k.op = "snapshot" -> nodeSnaps \cup {<<NameOf[k.vol], k.arg.snap>>}
    [] k.op = "drop" -> nodeSnaps \ {<<NameOf[k.vol], k.arg.snap>>}
    [] OTHER -> nodeSnaps

SendCommand(c, sent) ==
  /\ call[c].pc = "send"
  /\ nodeVols' = IF sent THEN DriverVolumes(call[c]) ELSE nodeVols
  /\ nodeDisks' = IF sent THEN DriverDisks(call[c]) ELSE nodeDisks
  /\ nodeSnaps' = IF sent THEN DriverSnapshots(call[c]) ELSE nodeSnaps
  /\ call' = [call EXCEPT ![c] = Idle]
  /\ clean' = (clean /\ sent)
  /\ UNCHANGED <<rows, calls, booked>>

Next ==
  \/ CreateStoragePool
  \/ \E c \in Clients :
       \/ PoolGetByID(c) \/ VolumeWrite(c) \/ SnapshotWrite(c) \/ StatementFails(c)
       \/ \E ok \in Outcomes : PoolUpdate(c, ok)
       \/ \E sent \in BOOLEAN : SendCommand(c, sent)
       \/ \E v \in Vols :
            \/ DetachVolume(c, v) \/ DeleteVolume(c, v)
            \/ \E g \in Guests : AttachVolume(c, v, g)
            \/ \E size \in Sizes : CreateVolume(c, v, size) \/ ResizeVolume(c, v, size)
            \/ \E n \in SnapNames : CreateSnapshot(c, v, n)
            \/ \E s \in snaps : RestoreSnapshot(c, v, s) \/ DeleteSnapshot(c, v, s)

Spec == Init /\ [][Next]_volVars

(***************************************************************************)
(* Properties.                                                             *)
(***************************************************************************)
Live == {v \in Vols : Exists(v)}

\* While no two calls overlapped and no command was lost, the tables and the
\* node agree between calls, whichever statements failed: the node has the
\* volumes with their sizes, and the disks of the guests are the attached
\* volumes; and the pool's used space is the sum of the sizes unless a write
\* of it failed, whose error is dropped (storage/service.go:134-441, whose
\* writes are spread over three stores).
StoresAgree ==
  clean /\ (\A c \in Clients : call[c].pc = "idle") =>
    /\ booked => pool.used = SumFunctionOnSet([v \in Vols |-> vols[v].size], Live)
    /\ \A v \in Live : nodeVols[NameOf[v]] = vols[v].size
    /\ \A n \in VolNames : nodeVols[n] # 0 => \E v \in Live : NameOf[v] = n
    /\ nodeDisks = {<<vols[v].inst, NameOf[v]>> : v \in {w \in Live : IsAttached(vols[w])}}

\* A deleted volume's row never comes back, whichever calls still hold a copy
\* of it, and no two rows of the pool share a name (Update and Delete of a
\* missing row fail, storage_repo.go:211-234, and Create tests the name under
\* the lock).
DeletedStaysDeleted ==
  [][ /\ \A v \in Vols : vols[v].status = "deleted" => vols'[v] = vols[v]
      /\ \A v, w \in Live' : NameOf[v] = NameOf[w] => v = w ]_volVars

\* A size is never lowered (ErrVolumeResizeDownNotAllowed).  Does not hold:
\* an attach that read the row before a resize writes the old size back.
NeverShrinks == [][\A v \in Vols : Exists(v) /\ Exists(v)' => vols'[v].size >= vols[v].size]_volVars

\* A volume is a disk of one guest at most.  Does not hold: two attaches
\* both read the row as unattached, and the node is told of both.
OneGuest == \A d, e \in nodeDisks : d[2] = e[2] => d = e
==============================================================================
