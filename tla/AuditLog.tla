------------------------------ MODULE AuditLog ------------------------------
(***************************************************************************)
(* The audit trail and its export: Record of internal/app/audit/service.go *)
(* over the in-memory or the postgres table, the verification of the hash  *)
(* chain, and the SIEM forwarder (internal/infra/siem/dispatcher.go).      *)
(*                                                                         *)
(* A hash is the tuple of what is hashed, so that two hashes are equal     *)
(* exactly when the hashed contents are.  Times are nanoseconds; a         *)
(* timestamptz column keeps microseconds, Micro nanoseconds each.          *)
(***************************************************************************)
EXTENDS Naturals, Sequences, FiniteSets, SequencesExt

CONSTANTS
  Recorders,      \* operations that record one entry each
  Clock,          \* nanoseconds at which entry r is created
  Micro,          \* nanoseconds in a microsecond
  TableInMemory,  \* the in-memory repositories, or postgres
  Targets,        \* SIEM destinations that may be registered
  SiemBuffer      \* capacity of logChan

VARIABLES
  trail,      \* the audit_logs table
  rec,        \* how far each recorder is
  logChan,    \* entries for the SIEM worker
  siem,       \* the worker: what it forwards and to whom
  dests,      \* siem_destinations
  received,   \* what each destination got
  siemUp      \* the dispatcher is not closed

auditVars == <<trail, rec, logChan, siem, dests, received, siemUp>>

NoHash == <<>>

Waiting == [busy |-> FALSE, entry |-> CHOOSE r \in Recorders : TRUE, todo |-> {}]

Init ==
  /\ trail = <<>> /\ rec = [r \in Recorders |-> [pc |-> "idle", prev |-> NoHash]]
  /\ logChan = <<>> /\ siem = Waiting /\ dests = {} /\ siemUp = TRUE
  /\ received = [d \in Targets |-> <<>>]

ComputeHash(prev, who, ns) == <<prev, who, ns>>

\* What a reader gets back: the table keeps the time in its own resolution.
Stored(ns) == IF TableInMemory THEN ns ELSE (ns \div Micro) * Micro

LastHash == IF trail = <<>> THEN NoHash ELSE Last(trail).hash

Entry(r, prev) ==
  [who |-> r, ns |-> Stored(Clock[r]), prev |-> prev, hash |-> ComputeHash(prev, r, Clock[r])]

\* Mutant: the hash is computed before the link to the previous entry is set.
MemRecordUnlinked(r) ==
  /\ TableInMemory /\ rec[r].pc = "idle"
  /\ trail' = Append(trail, [Entry(r, NoHash) EXCEPT !.prev = LastHash])
  /\ rec' = [rec EXCEPT ![r].pc = "stored"]
  /\ UNCHANGED <<logChan, siem, dests, received, siemUp>>

\* In memory the link and the append are one critical section.
MemRecord(r) ==
  /\ TableInMemory /\ rec[r].pc = "idle"
  /\ trail' = Append(trail, Entry(r, LastHash))
  /\ rec' = [rec EXCEPT ![r].pc = "stored"]
  /\ UNCHANGED <<logChan, siem, dests, received, siemUp>>

\* In postgres the latest entry is read, ...
GetLatestLog(r) ==
  /\ ~TableInMemory /\ rec[r].pc = "idle"
  /\ rec' = [rec EXCEPT ![r] = [pc |-> "read", prev |-> LastHash]]
  /\ UNCHANGED <<trail, logChan, siem, dests, received, siemUp>>

\* ... and a row is inserted that links to what was read, or fails.
SqlRecord(r, ok) ==
  /\ rec[r].pc = "read"
  /\ trail' = IF ok THEN Append(trail, Entry(r, rec[r].prev)) ELSE trail
  /\ rec' = [rec EXCEPT ![r].pc = IF ok THEN "stored" ELSE "failed"]
  /\ UNCHANGED <<logChan, siem, dests, received, siemUp>>

\* VerifyHash and the link to the entry before.
Intact(i) ==
  /\ trail[i].hash = ComputeHash(trail[i].prev, trail[i].who, trail[i].ns)
  /\ i = 1 \/ trail[i].prev = trail[i - 1].hash

\* VerifyChainIntegrity: the newest limit entries in memory, ...
MemVerify(limit) ==
  \A i \in DOMAIN trail : (limit = 0 \/ i > Len(trail) - limit) => Intact(i)

\* ... the oldest in postgres (a limit of zero stands for 1000).
SqlVerify(limit) ==
  \A i \in DOMAIN trail : (limit = 0 \/ i <= limit) => Intact(i)

VerifyAuditChain(limit) == IF TableInMemory THEN MemVerify(limit) ELSE SqlVerify(limit)

(***************************************************************************)
(* The SIEM forwarder.                                                     *)
(***************************************************************************)
\* Dispatch never waits: a full channel drops the entry, a closed one panics.
Dispatch(r) ==
  /\ rec[r].pc = "stored"
  /\ rec' = [rec EXCEPT ![r].pc = IF ~siemUp THEN "panic"
                                  ELSE IF Len(logChan) < SiemBuffer THEN "sent" ELSE "dropped"]
  /\ logChan' = IF rec'[r].pc = "sent" THEN Append(logChan, r) ELSE logChan
  /\ UNCHANGED <<trail, siem, dests, received, siemUp>>

\* The worker lists the destinations of the moment.  Close has cancelled the
\* context it lists with, which fails the query in postgres.
WorkerTakes ==
  /\ ~siem.busy /\ logChan # <<>>
  /\ logChan' = Tail(logChan)
  /\ siem' = IF siemUp \/ TableInMemory
             THEN [busy |-> TRUE, entry |-> Head(logChan), todo |-> dests] ELSE Waiting
  /\ UNCHANGED <<trail, rec, dests, received, siemUp>>

\* forward: one attempt, whose error is dropped; a webhook fails after Close.
Forward(d, ok) ==
  /\ siem.busy /\ d \in siem.todo /\ (ok => siemUp)
  /\ siem' = [siem EXCEPT !.todo = @ \ {d}]
  /\ received' = IF ok THEN [received EXCEPT ![d] = Append(@, siem.entry)] ELSE received
  /\ UNCHANGED <<trail, rec, logChan, dests, siemUp>>

\* Mutant: an entry no destination accepted is put back.
WorkerRequeues ==
  /\ siem.busy /\ siem.todo = {}
  /\ siem' = Waiting /\ logChan' \in {logChan, Append(logChan, siem.entry)}
  /\ UNCHANGED <<trail, rec, dests, received, siemUp>>

WorkerDone ==
  /\ siem.busy /\ siem.todo = {} /\ siem' = Waiting
  /\ UNCHANGED <<trail, rec, logChan, dests, received, siemUp>>

CreateSIEMDestination(d) ==
  /\ d \notin dests /\ dests' = dests \cup {d}
  /\ UNCHANGED <<trail, rec, logChan, siem, received, siemUp>>

DeleteSIEMDestination(d) ==
  /\ d \in dests /\ dests' = dests \ {d}
  /\ UNCHANGED <<trail, rec, logChan, siem, received, siemUp>>

CloseSIEM ==
  /\ siemUp /\ siemUp' = FALSE
  /\ UNCHANGED <<trail, rec, logChan, siem, dests, received>>

SiemWorker == WorkerTakes \/ WorkerDone \/ \E d \in Targets, ok \in BOOLEAN : Forward(d, ok)

Next ==
  \/ \E r \in Recorders :
       \/ MemRecord(r) \/ GetLatestLog(r) \/ Dispatch(r)
       \/ \E ok \in BOOLEAN : SqlRecord(r, ok)
  \/ SiemWorker
  \/ \E d \in Targets : CreateSIEMDestination(d) \/ DeleteSIEMDestination(d)
  \/ CloseSIEM

\* Concurrent recorders never break the chain: whatever the limit, a
\* verification of an untouched trail succeeds.
ChainVerifies == \A limit \in 0 .. Cardinality(Recorders) : VerifyAuditChain(limit)

\* A destination gets an entry at most once, only after it is in the trail,
\* and never one that was dropped or whose record failed.
ForwardedOnce ==
  \A d \in Targets :
    /\ IsInjective(received[d])
    /\ \A i \in DOMAIN received[d] :
         /\ rec[received[d][i]].pc = "sent"
         /\ \E j \in DOMAIN trail : trail[j].who = received[d][i]

Spec == Init /\ [][Next]_auditVars
=============================================================================
