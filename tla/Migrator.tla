------------------------------ MODULE Migrator ------------------------------
(***************************************************************************)
(* Schema migrations at start-up (internal/infra/postgres/migrator.go,     *)
(* called from cmd/aurora-server/main.go): Up takes an advisory lock in a  *)
(* transaction that stays open, reads the highest applied version, and     *)
(* applies every later file in a transaction of its own that also records  *)
(* it.  Several servers start at once and any of them may die.             *)
(*                                                                         *)
(* The lock and the migration are held by different connections: the lock  *)
(* connection may be lost, and the lock with it, while the migrator goes   *)
(* on, since it looks at that connection only when it ends.                *)
(***************************************************************************)
EXTENDS Naturals, Sequences, FiniteSets, FiniteSetsExt

CONSTANTS
  Migrators,   \* server processes that start
  FilesOf,     \* server -> the versions in its migrations directory
  Broken,      \* versions whose up file is missing or fails
  LockMayDrop, \* whether the lock's connection may be lost
  MaxRestarts  \* bound on restarts

VARIABLES
  lockHolder,  \* {} or the migrator whose transaction has the lock
  schema,      \* versions applied to the schema, in the order they took effect
  recorded,    \* rows of schema_migrations
  up,          \* migrator -> where its Up stands
  restarts

migrVars == <<lockHolder, schema, recorded, up, restarts>>

NotRunning == [pc |-> "start", current |-> 0, next |-> 0, applied |-> 0]

Init ==
  /\ lockHolder = {} /\ schema = <<>> /\ recorded = {}
  /\ up = [m \in Migrators |-> NotRunning] /\ restarts = 0

\* BeginTx and pg_advisory_xact_lock, which waits.
AcquireAdvisoryLock(m) ==
  /\ up[m].pc = "start" /\ lockHolder = {}
  /\ lockHolder' = {m} /\ up' = [up EXCEPT ![m].pc = "version"]
  /\ UNCHANGED <<schema, recorded, restarts>>

\* EnsureSchemaTable, then MAX(version).
CurrentVersion(m) ==
  /\ up[m].pc = "version"
  /\ up' = [up EXCEPT ![m].pc = "apply", ![m].current = Max(recorded \cup {0})]
  /\ UNCHANGED <<lockHolder, schema, recorded, restarts>>

\* LoadMigrations sorts by version; the loop skips what is not later.
Pending(m) == {v \in FilesOf[m] : v > up[m].current /\ v > up[m].next}
\* Mutant: the files in no ascending order.
PendingLast(m) == Max(Pending(m))
NextFile(m) == Min(Pending(m))

\* Mutant: only a clean end commits the lock's transaction.
EndKeepsLock(m, outcome) ==
  /\ up' = [up EXCEPT ![m].pc = outcome]
  /\ lockHolder' = IF outcome = "failed" THEN lockHolder ELSE lockHolder \ {m}

\* The deferred rollback, or the commit: either frees the lock.
End(m, outcome) ==
  /\ up' = [up EXCEPT ![m].pc = outcome]
  /\ lockHolder' = lockHolder \ {m}

\* One file: its SQL and its row commit together.  The row's key is unique.
ApplyMigration(m) ==
  /\ up[m].pc = "apply" /\ Pending(m) # {}
  /\ LET v == NextFile(m) IN
       IF v \in Broken \/ v \in recorded
         THEN End(m, "failed") /\ UNCHANGED <<schema, recorded>>
         ELSE /\ schema' = Append(schema, v) /\ recorded' = recorded \cup {v}
              /\ up' = [up EXCEPT ![m].next = v, ![m].applied = @ + 1]
              /\ UNCHANGED lockHolder
  /\ UNCHANGED restarts

UpDone(m) ==
  /\ up[m].pc = "apply" /\ Pending(m) = {}
  /\ End(m, "done") /\ UNCHANGED <<schema, recorded, restarts>>

\* The process dies at any point: its transactions roll back.
MigratorDies(m) ==
  /\ up[m].pc \notin {"start", "dead"} /\ restarts < MaxRestarts
  /\ End(m, "dead") /\ restarts' = restarts + 1 /\ UNCHANGED <<schema, recorded>>

Restart(m) ==
  /\ up[m].pc = "dead" /\ up' = [up EXCEPT ![m] = NotRunning]
  /\ UNCHANGED <<lockHolder, schema, recorded, restarts>>

LockDrops(m) ==
  /\ LockMayDrop /\ m \in lockHolder /\ lockHolder' = {}
  /\ UNCHANGED <<schema, recorded, up, restarts>>

UpSteps(m) == AcquireAdvisoryLock(m) \/ CurrentVersion(m) \/ ApplyMigration(m) \/ UpDone(m)
                \/ Restart(m)

Next == \E m \in Migrators : UpSteps(m) \/ MigratorDies(m) \/ LockDrops(m)

Spec == Init /\ [][Next]_migrVars

FairSpec == Spec /\ \A m \in Migrators : WF_migrVars(UpSteps(m))

-----------------------------------------------------------------------------

\* Whatever died in between, and even when the lock's connection was lost, the
\* schema grew by each file at most once and in ascending order, and a server
\* that reports "verified" finds its files in it.  (It needs directories of which
\* one extends the other: MAX(version) stands for "everything up to it", so a file
\* numbered below an applied one is skipped for ever.)
VerifiedIsComplete ==
  /\ \A i, j \in DOMAIN schema : i < j => schema[i] < schema[j]
  /\ \A m \in Migrators : up[m].pc = "done" => FilesOf[m] \subseteq {schema[i] : i \in DOMAIN schema}

\* No server waits for the lock for ever: every Up ends.
AllUp == \A m \in Migrators : up[m].pc \in {"done", "failed"}

UpEnds == <>[]AllUp
=============================================================================
