------------------------------- MODULE Backups -------------------------------
(***************************************************************************)
(* Backups (internal/app/backup/service.go), the recovery coordinator      *)
(* (internal/app/recovery/coordinator.go), the rotation of keys            *)
(* (internal/app/keyrotation/service.go), their tables and the object      *)
(* store.  A backup is one artifact in the store and one record; deletion  *)
(* in memory is atomic, in postgres it is three statements.                *)
(***************************************************************************)
EXTENDS Naturals, FiniteSets, FiniteSetsExt

CONSTANTS
  BackupIds,        \* ids of backups
  Checkers,         \* calls of VerifyBackup, DryRunRecovery, ExecuteRestore
  Deleters,         \* calls of DeleteBackup and ApplyRetentionPolicy
  Keys,             \* ids of keys of one type
  MaxPlans,         \* restore plans that are saved
  MaxFaults,        \* artifacts the store loses or corrupts
  RecordsInMemory   \* the tables are the in-memory ones

VARIABLES
  record,    \* the backups table: [status, protected], "none" when absent
  object,    \* the object store: "none", "good" or "bad"
  creator,   \* where CreateBackup is, per backup
  checker,   \* the verifying calls
  deleter,   \* the deleting calls
  restores,  \* saved restore plans: [backup, dryRun, status]
  faults,    \* artifacts lost or damaged so far
  blamed,    \* a check has marked a backup failed
  marked,    \* a check has marked a backup verified
  key,       \* the key table: [status, version]
  lostSaves  \* new keys saved after RotateKey dropped an error of GetActive or Save

backupVars == <<record, object, creator, checker, deleter, restores, faults, blamed, marked, key, lostSaves>>
recordRest == <<checker, deleter, restores, faults, key, lostSaves>>

NoRecord == [status |-> "none", protected |-> FALSE]
NoDelete == [pc |-> "idle", todo |-> {}, seen |-> NoRecord]
NoKey == [status |-> "none", version |-> 0]

Init ==
  /\ record = [b \in BackupIds |-> NoRecord] /\ object = [b \in BackupIds |-> "none"]
  /\ creator = [b \in BackupIds |-> "idle"]
  /\ checker = [c \in Checkers |-> [pc |-> "idle", op |-> "none", backup |-> CHOOSE b \in BackupIds : TRUE]]
  /\ deleter = [d \in Deleters |-> NoDelete]
  /\ restores = {} /\ faults = 0 /\ blamed = FALSE /\ marked = FALSE
  /\ key = [k \in Keys |-> NoKey] /\ lostSaves = 0

(***************************************************************************)
(* The tables and the store.                                               *)
(***************************************************************************)
Exists(b) == record[b].status # "none"

\* Whether a call of the repository succeeds: in memory always.
Outcomes == IF RecordsInMemory THEN {TRUE} ELSE BOOLEAN

\* UpdateStatus: no row or an error, no effect; every caller drops the error.
UpdateStatus(b, status, ok) == IF ok /\ Exists(b) THEN [record EXCEPT ![b].status = status] ELSE record

SetProtectedPoint(b, ok) == IF ok /\ Exists(b) THEN [record EXCEPT ![b].protected = TRUE] ELSE record

\* What a check that read the store writes, and what is remembered of it.
Mark(b, verdict, ok) ==
  /\ record' = UpdateStatus(b, IF verdict = "good" THEN "verified" ELSE "failed", ok)
  /\ marked' = (marked \/ (ok /\ Exists(b) /\ verdict = "good"))
  /\ blamed' = (blamed \/ verdict = "bad")

CountVerified == Cardinality({b \in BackupIds : record[b].status = "verified"})

OthersVerified(b) == Cardinality({c \in BackupIds \ {b} : record[c].status = "verified"})

\* Get of the store compares the hash it kept with the data it reads.
Get(b) == object[b] = "good"

(***************************************************************************)
(* CreateBackup: a record that runs, the artifact, the check, and the      *)
(* protection of the first verified backup.                                *)
(***************************************************************************)
CreateRecord(b) ==
  /\ creator[b] = "idle"
  /\ record' = [record EXCEPT ![b] = [status |-> "running", protected |-> FALSE]]
  /\ creator' = [creator EXCEPT ![b] = "put"]
  /\ UNCHANGED <<object, blamed, marked, recordRest>>

\* An artifact that is not stored, a record that cannot be read and a check
\* that fails all end in "undo", the last write of a call that fails.
Put(b, ok) ==
  /\ creator[b] = "put"
  /\ object' = IF ok THEN [object EXCEPT ![b] = "good"] ELSE object
  /\ creator' = [creator EXCEPT ![b] = IF ok THEN "read" ELSE "undo"]
  /\ UNCHANGED <<record, blamed, marked, recordRest>>

\* VerifyBackup as CreateBackup calls it: the record, the artifact, the mark.
CreateReads(b, ok) ==
  /\ creator[b] = "read"
  /\ creator' = [creator EXCEPT ![b] = IF ok /\ Exists(b) THEN "get" ELSE "undo"]
  /\ UNCHANGED <<record, object, blamed, marked, recordRest>>

CreateGets(b) ==
  /\ creator[b] = "get"
  /\ creator' = [creator EXCEPT ![b] = IF Get(b) THEN "good" ELSE "bad"]
  /\ UNCHANGED <<record, object, blamed, marked, recordRest>>

\* A record deleted since it was read, or a write that fails, leaves no
\* verified record behind a call that goes on as if there were one.
CreateMarks(b, ok) ==
  /\ creator[b] \in {"good", "bad"}
  /\ Mark(b, creator[b], ok)
  /\ creator' = [creator EXCEPT ![b] = IF @ = "good" THEN "count" ELSE "undo"]
  /\ UNCHANGED <<object, recordRest>>

CreateFails(b, ok) ==
  /\ creator[b] = "undo"
  /\ Mark(b, "bad", ok)
  /\ creator' = [creator EXCEPT ![b] = "failed"]
  /\ UNCHANGED <<object, recordRest>>

\* The count of verified backups and the protection are two statements; a
\* count that fails is taken as 0.
CreateCounts(b, ok) ==
  /\ creator[b] = "count"
  /\ creator' = [creator EXCEPT ![b] = IF ok /\ CountVerified > 1 THEN "created" ELSE "protect"]
  /\ UNCHANGED <<record, object, blamed, marked, recordRest>>

CreateProtects(b, ok) ==
  /\ creator[b] = "protect"
  /\ record' = SetProtectedPoint(b, ok)
  /\ creator' = [creator EXCEPT ![b] = "created"]
  /\ UNCHANGED <<object, blamed, marked, recordRest>>

(***************************************************************************)
(* VerifyBackup, alone or as the first step of a recovery.                 *)
(***************************************************************************)
checkRest == <<object, creator, deleter, faults, key, lostSaves>>

VerifyReads(c, op, b) ==
  /\ checker[c].pc = "idle" /\ Exists(b) /\ (op = "verify" \/ Cardinality(restores) < MaxPlans)
  /\ (op = "restore" => \A o \in Checkers : ~(checker[o].op = "restore" /\ checker[o].pc # "idle"))
  /\ checker' = [checker EXCEPT ![c] = [pc |-> "get", op |-> op, backup |-> b]]
  /\ UNCHANGED <<record, restores, blamed, marked, checkRest>>

VerifyBackup(c) ==
  /\ checker[c].pc = "get"
  /\ checker' = [checker EXCEPT ![c].pc = IF Get(checker[c].backup) THEN "good" ELSE "bad"]
  /\ UNCHANGED <<record, restores, blamed, marked, checkRest>>

\* A check that fails marks the backup failed and ends the call.
VerifyWrites(c, ok) ==
  /\ checker[c].pc \in {"good", "bad"}
  /\ Mark(checker[c].backup, checker[c].pc, ok)
  /\ checker' = [checker EXCEPT ![c].pc = IF checker[c].pc = "good" /\ checker[c].op # "verify" THEN "plan" ELSE "idle"]
  /\ UNCHANGED <<restores, checkRest>>

\* GetBackup: without the record no plan is saved.  A dry run has its plan;
\* a restore downloads the artifact, its record read once more.
RestoreReads(c, ok) ==
  /\ checker[c].pc = "plan"
  /\ checker' = [checker EXCEPT ![c].pc =
       IF ~(ok /\ Exists(checker[c].backup)) THEN "idle" ELSE IF checker[c].op = "dry" THEN "completed" ELSE "row"]
  /\ UNCHANGED <<record, restores, blamed, marked, checkRest>>

DownloadBackup(c, ok) ==
  /\ checker[c].pc \in {"row", "data"}
  /\ checker' = [checker EXCEPT ![c].pc =
       IF @ = "row" THEN (IF ok /\ Exists(checker[c].backup) THEN "data" ELSE "failed")
       ELSE (IF Get(checker[c].backup) THEN "completed" ELSE "failed")]
  /\ UNCHANGED <<record, restores, blamed, marked, checkRest>>

\* The plan and its end are saved, the error dropped.  Reconciliation and the
\* audit check do not fail a restore.
SaveRestorePlan(c, ok) ==
  /\ checker[c].pc \in {"completed", "failed"}
  /\ restores' = IF ok THEN restores \cup {[backup |-> checker[c].backup,
                    dryRun |-> checker[c].op = "dry", status |-> checker[c].pc]} ELSE restores
  /\ checker' = [checker EXCEPT ![c].pc = "idle"]
  /\ UNCHANGED <<record, blamed, marked, checkRest>>

(***************************************************************************)
(* DeleteBackup and ApplyRetentionPolicy, which deletes what it listed.    *)
(***************************************************************************)
delRest == <<creator, checker, restores, faults, blamed, marked, key, lostSaves>>

DeleteBackup(d, b) ==
  /\ deleter[d].pc = "idle" /\ Exists(b)
  /\ deleter' = [deleter EXCEPT ![d] = [NoDelete EXCEPT !.pc = "delete", !.todo = {b}]]
  /\ UNCHANGED <<record, object, delRest>>

\* Every backup is past its retention here: the cutoff is a clock's.
ApplyRetentionPolicy(d) ==
  /\ deleter[d].pc = "idle"
  /\ \E todo \in {{b \in BackupIds : Exists(b) /\ ~record[b].protected}} :
       /\ todo # {}
       /\ deleter' = [deleter EXCEPT ![d] = [NoDelete EXCEPT !.pc = "delete", !.todo = todo]]
  /\ UNCHANGED <<record, object, delRest>>

Refused(row, others) == row.protected \/ (row.status = "verified" /\ others = 0)

\* The call is over with one backup; retention goes on to the next.
After(d, b) ==
  IF deleter[d].todo = {b} THEN NoDelete
  ELSE [NoDelete EXCEPT !.pc = "delete", !.todo = deleter[d].todo \ {b}]

\* Mutant: only a protected backup is kept.
MemDeleteUncounted(d, b) ==
  /\ RecordsInMemory /\ deleter[d].pc = "delete" /\ b \in deleter[d].todo
  /\ IF ~Exists(b) \/ record[b].protected
     THEN record' = record /\ deleter' = [deleter EXCEPT ![d] = After(d, b)]
     ELSE /\ record' = [record EXCEPT ![b] = NoRecord]
          /\ deleter' = [deleter EXCEPT ![d].pc = "object", ![d].todo = {b} \cup @]
  /\ UNCHANGED <<object, delRest>>

\* Delete in memory: the tests and the deletion under one lock.
MemDelete(d, b) ==
  /\ RecordsInMemory /\ deleter[d].pc = "delete" /\ b \in deleter[d].todo
  /\ IF ~Exists(b) \/ Refused(record[b], OthersVerified(b))
     THEN record' = record /\ deleter' = [deleter EXCEPT ![d] = After(d, b)]
     ELSE /\ record' = [record EXCEPT ![b] = NoRecord]
          /\ deleter' = [deleter EXCEPT ![d].pc = "object"]
  /\ UNCHANGED <<object, delRest>>

\* Delete in postgres: the row, the count of the others, the deletion.
SqlDeleteReads(d, b) ==
  /\ ~RecordsInMemory /\ deleter[d].pc = "delete" /\ b \in deleter[d].todo
  /\ deleter' = [deleter EXCEPT ![d] = IF ~Exists(b) \/ record[b].protected THEN After(d, b)
       ELSE [@ EXCEPT !.pc = "count", !.seen = record[b]]]
  /\ UNCHANGED <<record, object, delRest>>

SqlDeleteCounts(d, b) ==
  /\ deleter[d].pc = "count" /\ b \in deleter[d].todo
  /\ deleter' = [deleter EXCEPT ![d] =
       IF Refused(deleter[d].seen, OthersVerified(b)) THEN After(d, b) ELSE [@ EXCEPT !.pc = "row"]]
  /\ UNCHANGED <<record, object, delRest>>

SqlDelete(d, b) ==
  /\ deleter[d].pc = "row" /\ b \in deleter[d].todo
  /\ record' = [record EXCEPT ![b] = NoRecord]
  /\ deleter' = [deleter EXCEPT ![d] = IF Exists(b) THEN [@ EXCEPT !.pc = "object"] ELSE After(d, b)]
  /\ UNCHANGED <<object, delRest>>

\* The artifact goes after its record; an error is dropped.
StorageDelete(d, b) ==
  /\ deleter[d].pc = "object" /\ b \in deleter[d].todo /\ ~Exists(b)
  /\ object' = [object EXCEPT ![b] = "none"]
  /\ deleter' = [deleter EXCEPT ![d] = After(d, b)]
  /\ UNCHANGED <<record, delRest>>

\* The store loses or damages an artifact.
Fault(b) ==
  /\ faults < MaxFaults /\ object[b] = "good"
  /\ \E s \in {"none", "bad"} : object' = [object EXCEPT ![b] = s]
  /\ faults' = faults + 1
  /\ UNCHANGED <<record, creator, checker, deleter, restores, blamed, marked, key, lostSaves>>

(***************************************************************************)
(* Keys of one type.  RotateKey and RevokeKey hold the service's mutex.    *)
(***************************************************************************)
keyRest == <<record, object, creator, checker, deleter, restores, faults, blamed, marked>>

\* GetActive: the highest version that is active or in its grace period.
GetActive == {k \in Keys : key[k].status \in {"active", "grace"} /\
  \A j \in Keys : key[j].status \in {"active", "grace"} => key[j].version <= key[k].version}

\* Mutant: the old key keeps its status.
SaveGraceNever(k) == key

\* Save of the old key with its grace period.
SaveGrace(k) == [key EXCEPT ![k].status = "grace"]

\* Save of the new key, after the old one's: an error ends the call.
SaveNew(new, aged, version, saved) ==
  key' = IF saved THEN [aged EXCEPT ![new] = [status |-> "active", version |-> version]] ELSE aged

\* The errors of GetActive and of the old key's save are dropped; a read that
\* fails finds no key.
RotateKey(new, found, graceSaved, newSaved) ==
  /\ key[new].status = "none"
  /\ \/ \E k \in GetActive :
          found /\ SaveNew(new, IF graceSaved THEN SaveGrace(k) ELSE key, key[k].version + 1, newSaved)
     \/ (GetActive = {} \/ ~found) /\ SaveNew(new, key, 1, newSaved)
  /\ lostSaves' = IF newSaved /\ GetActive # {} /\ ~(found /\ graceSaved) THEN lostSaves + 1 ELSE lostSaves
  /\ UNCHANGED keyRest

RevokeKey(k) ==
  /\ key[k].status \notin {"none", "revoked"}
  /\ key' = [key EXCEPT ![k].status = "revoked"]
  /\ UNCHANGED <<lostSaves, keyRest>>

NextBackup ==
  \/ \E b \in BackupIds : CreateRecord(b) \/ (\E ok \in BOOLEAN : Put(b, ok)) \/ CreateGets(b) \/ Fault(b)
  \/ \E b \in BackupIds, ok \in Outcomes :
       \/ CreateReads(b, ok) \/ CreateMarks(b, ok) \/ CreateFails(b, ok) \/ CreateCounts(b, ok) \/ CreateProtects(b, ok)
  \/ \E c \in Checkers :
       \/ \E op \in {"verify", "dry", "restore"}, b \in BackupIds : VerifyReads(c, op, b)
       \/ VerifyBackup(c)
       \/ \E ok \in Outcomes :
            VerifyWrites(c, ok) \/ RestoreReads(c, ok) \/ DownloadBackup(c, ok) \/ SaveRestorePlan(c, ok)
  \/ \E d \in Deleters : ApplyRetentionPolicy(d) \/ \E b \in BackupIds :
       \/ DeleteBackup(d, b) \/ MemDelete(d, b) \/ SqlDeleteReads(d, b) \/ SqlDeleteCounts(d, b)
       \/ SqlDelete(d, b) \/ StorageDelete(d, b)

NextKey ==
  \E k \in Keys : RevokeKey(k) \/ \E f, g, n \in BOOLEAN : RotateKey(k, f, g, n)

Next == NextBackup \/ NextKey

Spec == Init /\ [][Next]_backupVars

(***************************************************************************)
(* Once a record was marked verified, while the store keeps what it is     *)
(* given and no check has marked a backup failed (a check that read the    *)
(* store before the artifact was there does so to a good one,              *)
(* service.go:216), a verified record with its artifact remains, whatever  *)
(* is deleted by hand or by retention meanwhile ("system must retain at    *)
(* least one valid recovery point", domain/backup/backup.go:15).  It holds *)
(* in memory; in postgres two deletions may each count the other's backup. *)
(* That a CreateBackup which returned left a verified record does not      *)
(* hold: a deletion between its check's calls takes the unverified record. *)
(***************************************************************************)
KeepsRecoveryPoint ==
  (faults = 0 /\ ~blamed /\ marked) =>
    \E b \in BackupIds : record[b].status = "verified" /\ object[b] = "good"

(***************************************************************************)
(* At most one key of a type is active, plus one for every new key saved   *)
(* after an error that RotateKey dropped (keyrotation/service.go:67, :88). *)
(***************************************************************************)
OneActiveKey == Cardinality({k \in Keys : key[k].status = "active"}) <= 1 + lostSaves
=============================================================================
