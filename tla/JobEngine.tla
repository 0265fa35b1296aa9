------------------------------ MODULE JobEngine ------------------------------
(***************************************************************************)
(* The durable job queue: the engine of internal/app/job/engine.go over    *)
(* the job repositories of internal/infra/{memory,postgres}/job_repo.go.   *)
(*                                                                         *)
(* Several engine processes share one job table.  Every engine runs a few  *)
(* worker goroutines ("slots") under ONE worker id; a slot claims a row    *)
(* under a lease, runs a handler outside any lock while a goroutine renews *)
(* the lease, and finally marks the row.  Each repository call is one      *)
(* atomic step; what happens between two calls may interleave.             *)
(*                                                                         *)
(* Time is relative: a row keeps how far its locked_until and next_retry_at*)
(* lie ahead, and Tick moves them all.  Values that no comparison of the   *)
(* code can tell apart are clipped, so the state space is finite without   *)
(* a bound on the length of a behaviour.                                   *)
(***************************************************************************)
EXTENDS Integers, FiniteSets, Sequences

CONSTANTS
  NumJobs,      \* how many jobs may be submitted; created_at follows the id
  Handled,      \* the jobs whose type has a registered handler
  Engines,      \* engine incarnations: a restart is another incarnation
  WorkerCount,  \* worker goroutines per engine
  Callers,      \* API callers of CancelJob and RetryJob
  MaxRetries,   \* jobs.max_retries
  RetryCap,     \* retry counts above this bound are not told apart
  Lease,        \* leaseDuration, in ticks
  RenewEvery,   \* the renew ticker's period (leaseDuration / 2), in ticks
  MaxDrops,     \* bound: errors of the SQL repository that are dropped
  BaseDelays,   \* calculateBackoff's table, in ticks
  Postgres,     \* TRUE: PostgreSQL repository; FALSE: in-memory repository
  Prompt,       \* TRUE: the renewals of an engine that is up fire on time
  Heeding       \* TRUE: handlers return when their context is canceled

Jobs == 1..NumJobs
Slots == Engines \X (1..WorkerCount)

\* External: the zero value of a worker id, a job id or a pointer.
None == "none"

Statuses == {"absent", "pending", "running", "retrying",
             "succeeded", "failed", "canceled"}

Terminal == {"succeeded", "failed", "canceled"}

\* The table of calculateBackoff is as long as the code says, and never empty.
ASSUME ConstAssumption ==
  /\ NumJobs \in Nat
  /\ Handled \subseteq Jobs
  /\ None \notin Engines
  /\ WorkerCount \in Nat
  /\ MaxRetries \in Nat
  /\ RetryCap \in Nat /\ MaxRetries + 1 < RetryCap
  /\ Lease \in Nat /\ RenewEvery \in Nat
  /\ 0 < RenewEvery /\ RenewEvery <= Lease
  /\ MaxDrops \in Nat
  /\ BaseDelays \in Seq(Nat) /\ Len(BaseDelays) > 0
  /\ Postgres \in BOOLEAN /\ Prompt \in BOOLEAN /\ Heeding \in BOOLEAN

VARIABLES
  jobs,      \* the jobs table
  attempts,  \* job_attempts: the attempt numbers recorded for each job
  unrecorded,\* history: the attempt numbers whose insert failed
  drops,     \* how many errors of the SQL repository were dropped so far
  engine,    \* life of each engine process
  slot,      \* each worker goroutine, with its renewal goroutine
  call,      \* each API caller inside RetryJob
  sweep      \* the reconciliation service saw a stale job and will reclaim

vars == <<jobs, attempts, unrecorded, drops, engine, slot, call, sweep>>

\* One row of the table; lockLeft is locked_until - now, retryLeft is
\* next_retry_at - now.
NewRow == [status |-> "absent", retryCount |-> 0, lockedBy |-> None,
           lockLeft |-> 0, retryLeft |-> 0, progress |-> 0]

IdleSlot == [pc |-> "idle", job |-> 0, count |-> 0, renewLeft |-> 0]

IdleCall == [pc |-> "idle", job |-> 0, count |-> 0, reply |-> None]

Init ==
  /\ jobs = [j \in Jobs |-> NewRow]
  /\ attempts = [j \in Jobs |-> {}]
  /\ unrecorded = [j \in Jobs |-> {}]
  /\ drops = 0
  /\ engine = [e \in Engines |-> "new"]
  /\ slot = [s \in Slots |-> IdleSlot]
  /\ call = [c \in Callers |-> IdleCall]
  /\ sweep = FALSE

Bump(n) == IF n < RetryCap THEN n + 1 ELSE n

(***************************************************************************)
(* The repository: one operator per method, giving the new row.            *)
(***************************************************************************)
Unlocked(r, st) == [r EXCEPT !.status = st, !.lockedBy = None, !.lockLeft = 0]

\* Mutant: the lease of a running row is not looked at.
EligibleAnyRunning(r) ==
  \/ r.status \in {"pending", "running"}
  \/ r.status = "retrying" /\ r.retryLeft <= 0

\* Mutant: AND and OR of the WHERE clause associate the wrong way.
EligibleMisgrouped(r) ==
  \/ r.status = "pending"
  \/ r.status # "absent" /\ r.lockedBy = None /\ r.retryLeft <= 0
  \/ r.status = "running" /\ r.lockLeft < 0

\* The WHERE clause of ClaimNextPending.
Eligible(r) ==
  \/ r.status = "pending"
  \/ r.status = "retrying" /\ r.retryLeft <= 0
  \/ r.status = "running" /\ r.lockLeft < 0

\* PostgreSQL orders the candidates by created_at; the in-memory repository
\* iterates over a Go map, in any order.
Claimable ==
  LET candidates == {j \in Handled : Eligible(jobs[j])} IN
  IF Postgres THEN {j \in candidates : \A k \in candidates : j <= k}
              ELSE candidates

Claimed(r, w) == [r EXCEPT !.status = "running", !.lockedBy = w, !.lockLeft = Lease]

\* Mutant: the new expiry is computed and not written.
RenewedNothing(r, w) == r

\* RenewLease matches the row by id and worker, whatever its status.
Renewed(r, w) == IF r.lockedBy = w THEN [r EXCEPT !.lockLeft = Lease] ELSE r

\* Mutants: a status the domain does not know; progress left as reported.
MarkCompleted(r) == [Unlocked(r, "completed") EXCEPT !.progress = 100]

MarkSucceededPartial(r) == Unlocked(r, "succeeded")

\* MarkSucceeded matches the row by id alone.
MarkSucceeded(r) == [Unlocked(r, "succeeded") EXCEPT !.progress = 100]

\* Mutant: max_retries is not compared with the count.
MarkFailedForever(r, d) ==
  [Unlocked(r, "retrying") EXCEPT !.retryCount = Bump(@), !.retryLeft = d]

\* MarkFailed with a retry delay d, as executeJob always calls it.  The
\* in-memory repository compares the new count with MaxRetries, the SQL does not.
MarkFailed(r, d) ==
  LET n == Bump(r.retryCount) IN
  IF Postgres \/ n <= MaxRetries
  THEN [Unlocked(r, "retrying") EXCEPT !.retryCount = n, !.retryLeft = d]
  ELSE [Unlocked(r, "failed") EXCEPT !.retryCount = n]

\* ReclaimAbandonedJobs(now - age).
Reclaimed(r, age) ==
  IF r.status = "running" /\ r.lockLeft < -age THEN Unlocked(r, "pending") ELSE r

\* calculateBackoff: the table entry, give or take a fifth.
CalculateBackoff(attempt) ==
  LET base == BaseDelays[IF attempt > Len(BaseDelays) THEN Len(BaseDelays) ELSE attempt]
  IN  ((4 * base) \div 5)..((6 * base) \div 5)

(***************************************************************************)
(* Client calls.                                                           *)
(***************************************************************************)
Submit(j) ==
  /\ jobs[j].status = "absent"
  /\ \A k \in Jobs : k < j => jobs[k].status # "absent"
  /\ jobs' = [jobs EXCEPT ![j].status = "pending"]
  /\ UNCHANGED <<attempts, unrecorded, drops, engine, slot, call, sweep>>

\* Mutants: canceling leaves the lock on the row; canceling spells the status
\* in a way the domain does not know.
CancelJobKeepsLock(c, j) ==
  /\ call[c].pc = "idle"
  /\ jobs[j].status \notin Terminal \cup {"absent"}
  /\ jobs' = [jobs EXCEPT ![j].status = "canceled"]
  /\ UNCHANGED <<attempts, unrecorded, drops, engine, slot, call, sweep>>

CancelJobMisspelt(c, j) ==
  /\ call[c].pc = "idle"
  /\ jobs[j].status \notin Terminal \cup {"absent"}
  /\ jobs' = [jobs EXCEPT ![j] = Unlocked(@, "cancelled")]
  /\ UNCHANGED <<attempts, unrecorded, drops, engine, slot, call, sweep>>

\* GetJob, then MarkCanceled, which refuses a terminal row.  The running
\* handler is not told.
CancelJob(c, j) ==
  /\ call[c].pc = "idle"
  /\ jobs[j].status \notin Terminal \cup {"absent"}
  /\ jobs' = [jobs EXCEPT ![j] = Unlocked(@, "canceled")]
  /\ UNCHANGED <<attempts, unrecorded, drops, engine, slot, call, sweep>>

\* RetryJob reads the row and checks its status ...
RetryJobRead(c, j) ==
  /\ call[c].pc = "idle"
  /\ jobs[j].status \in {"failed", "canceled"}
  /\ call' = [call EXCEPT ![c] = [pc |-> "retry", job |-> j, reply |-> None,
                                  count |-> jobs[j].retryCount]]
  /\ UNCHANGED <<jobs, attempts, unrecorded, drops, engine, slot, sweep>>

\* ... and hands the copy to Create: the in-memory repository replaces the
\* row by it, the INSERT of the SQL repository hits the primary key.
RetryJobCreate(c) ==
  LET j == call[c].job IN
  /\ call[c].pc = "retry"
  /\ IF Postgres
     THEN /\ call' = [call EXCEPT ![c] = [IdleCall EXCEPT !.reply = "error"]]
          /\ UNCHANGED jobs
     ELSE /\ call' = [call EXCEPT ![c] = [IdleCall EXCEPT !.reply = "ok"]]
          /\ jobs' = [jobs EXCEPT ![j] = [NewRow EXCEPT !.status = "pending",
                                                        !.retryCount = call[c].count]]
  /\ UNCHANGED <<attempts, unrecorded, drops, engine, slot, sweep>>

(***************************************************************************)
(* Engine processes.                                                       *)
(***************************************************************************)
\* NewEngine.  The in-memory store lives in the one process that made it.
Start(e) ==
  /\ engine[e] = "new"
  /\ Postgres \/ \A f \in Engines : engine[f] = "new"
  /\ engine' = [engine EXCEPT ![e] = "up"]
  /\ UNCHANGED <<jobs, attempts, unrecorded, drops, slot, call, sweep>>

\* Close cancels the engine's context: slots stop claiming, renewals stop.
Close(e) ==
  /\ engine[e] = "up"
  /\ engine' = [engine EXCEPT ![e] = "closing"]
  /\ UNCHANGED <<jobs, attempts, unrecorded, drops, slot, call, sweep>>

\* ... waits for the worker loops and the heartbeat loop.  (The worker_leases
\* table is written here and by the heartbeat, and nothing reads it.)
Closed(e) ==
  /\ engine[e] = "closing"
  /\ \A i \in 1..WorkerCount : slot[<<e, i>>].pc = "idle"
  /\ engine' = [engine EXCEPT ![e] = "down"]
  /\ UNCHANGED <<jobs, attempts, unrecorded, drops, slot, call, sweep>>

\* The process dies: its goroutines are gone, its rows stay.
Crash(e) ==
  /\ Postgres
  /\ engine[e] \in {"up", "closing"}
  /\ engine' = [engine EXCEPT ![e] = "down"]
  /\ slot' = [s \in Slots |-> IF s[1] = e THEN IdleSlot ELSE slot[s]]
  /\ UNCHANGED <<jobs, attempts, unrecorded, drops, call, sweep>>

\* Mutant: the heartbeat extends every running row, not this worker's own.
HeartbeatRenewsAll(e) ==
  /\ engine[e] \in {"up", "closing"}
  /\ jobs' = [j \in Jobs |-> IF jobs[j].status = "running"
                             THEN [jobs[j] EXCEPT !.lockLeft = Lease] ELSE jobs[j]]
  /\ UNCHANGED <<attempts, unrecorded, drops, engine, slot, call, sweep>>

\* One turn of heartbeatAndRecoveryLoop.  The loop's select may still pick a
\* tick that was ready when the context was canceled.
Heartbeat(e) ==
  /\ engine[e] \in {"up", "closing"}
  /\ jobs' = [j \in Jobs |-> Reclaimed(jobs[j], Lease)]
  /\ UNCHANGED <<attempts, unrecorded, drops, engine, slot, call, sweep>>

\* Step 3 of the reconciliation service: having listed a job whose lease
\* ended more than 30 seconds (one lease) ago ...
ReconcileList ==
  /\ \E j \in Jobs : jobs[j].status = "running" /\ jobs[j].lockLeft < -Lease
  /\ sweep' = TRUE
  /\ UNCHANGED <<jobs, attempts, unrecorded, drops, engine, slot, call>>

\* ... it reclaims every job whose lease has ended by now.
ReconcileReclaim ==
  /\ sweep
  /\ sweep' = FALSE
  /\ jobs' = [j \in Jobs |-> Reclaimed(jobs[j], 0)]
  /\ UNCHANGED <<attempts, unrecorded, drops, engine, slot, call>>

(***************************************************************************)
(* Worker goroutines.                                                      *)
(***************************************************************************)
\* processNextJob: a canceled context fails the SQL transaction, while the
\* in-memory repository does not look at it.
Claim(s) ==
  /\ slot[s].pc = "idle"
  /\ \/ engine[s[1]] = "up"
     \/ engine[s[1]] = "closing" /\ ~Postgres
  /\ \E j \in Claimable :
       /\ jobs' = [jobs EXCEPT ![j] = Claimed(@, s[1])]
       /\ slot' = [slot EXCEPT ![s] = [pc |-> "run", job |-> j,
                                       count |-> jobs[j].retryCount,
                                       renewLeft |-> RenewEvery]]
  /\ UNCHANGED <<attempts, unrecorded, drops, engine, call, sweep>>

\* The renewal goroutine's ticker; an error is ignored.
RenewLease(s) ==
  /\ slot[s].pc # "idle"
  /\ slot[s].renewLeft = 0
  /\ engine[s[1]] = "up"
  /\ jobs' = [jobs EXCEPT ![slot[s].job] = Renewed(@, s[1])]
  /\ slot' = [slot EXCEPT ![s].renewLeft = RenewEvery]
  /\ UNCHANGED <<attempts, unrecorded, drops, engine, call, sweep>>

\* The call does not reach the database, or the ticker drops a tick.
RenewLost(s) ==
  /\ ~Prompt
  /\ slot[s].pc # "idle"
  /\ slot[s].renewLeft = 0
  /\ engine[s[1]] = "up"
  /\ slot' = [slot EXCEPT ![s].renewLeft = RenewEvery]
  /\ UNCHANGED <<jobs, attempts, unrecorded, drops, engine, call, sweep>>

\* A handler reports progress, by job id alone.
UpdateProgress(s) ==
  /\ slot[s].pc = "run"
  /\ jobs' = [jobs EXCEPT ![slot[s].job].progress = 50]
  /\ UNCHANGED <<attempts, unrecorded, drops, engine, slot, call, sweep>>

\* Mutant: only successful attempts are recorded.
HandlerReturnsSilently(s, outcome) ==
  /\ slot[s].pc = "run"
  /\ attempts' = IF outcome = "failed" THEN attempts
                 ELSE [attempts EXCEPT ![slot[s].job] = @ \cup {Bump(slot[s].count)}]
  /\ slot' = [slot EXCEPT ![s].pc = outcome]
  /\ UNCHANGED <<jobs, unrecorded, drops, engine, call, sweep>>

\* A statement fails and executeJob does not look at the error.
DropError == Postgres /\ drops < MaxDrops /\ drops' = drops + 1

\* The handler returns (or panics, which is an error); RecordAttempt.  The
\* error of a failed INSERT is dropped, and executeJob goes on to the mark.
HandlerReturns(s, outcome) ==
  /\ slot[s].pc = "run"
  /\ \/ /\ attempts' = [attempts EXCEPT ![slot[s].job] = @ \cup {Bump(slot[s].count)}]
        /\ UNCHANGED <<unrecorded, drops>>
     \/ /\ DropError
        /\ unrecorded' = [unrecorded EXCEPT ![slot[s].job] = @ \cup {Bump(slot[s].count)}]
        /\ UNCHANGED attempts
  /\ slot' = [slot EXCEPT ![s].pc = outcome]
  /\ UNCHANGED <<jobs, engine, call, sweep>>

\* MarkFailed or MarkSucceeded ends executeJob; the slot goes back to its loop.
FinishFailed(s) ==
  /\ slot[s].pc = "failed"
  /\ \E d \in CalculateBackoff(slot[s].count + 1) :
       jobs' = [jobs EXCEPT ![slot[s].job] = MarkFailed(@, d)]
  /\ slot' = [slot EXCEPT ![s] = IdleSlot]
  /\ UNCHANGED <<attempts, unrecorded, drops, engine, call, sweep>>

FinishSucceeded(s) ==
  /\ slot[s].pc = "succeeded"
  /\ jobs' = [jobs EXCEPT ![slot[s].job] = MarkSucceeded(@)]
  /\ slot' = [slot EXCEPT ![s] = IdleSlot]
  /\ UNCHANGED <<attempts, unrecorded, drops, engine, call, sweep>>

\* The UPDATE of the mark fails: its error is dropped too, and the row stays
\* as it is until its lease has ended.
MarkLost(s) ==
  /\ DropError
  /\ slot[s].pc \in {"failed", "succeeded"}
  /\ slot' = [slot EXCEPT ![s] = IdleSlot]
  /\ UNCHANGED <<jobs, attempts, unrecorded, engine, call, sweep>>

(***************************************************************************)
(* Time.                                                                   *)
(***************************************************************************)
Aged(r) ==
  [r EXCEPT !.lockLeft  = IF r.status = "running" /\ @ >= -Lease THEN @ - 1 ELSE @,
            !.retryLeft = IF @ > 0 THEN @ - 1 ELSE @]

\* With Prompt, the due renewal of an engine that is up fires before time moves
\* on.  Close stops the renewals and waits for the handlers: with Heeding they
\* return at once, the context they were given being canceled; without it they
\* may run on past their lease.
Overdue(s) ==
  /\ slot[s].pc # "idle"
  /\ \/ Prompt /\ engine[s[1]] = "up" /\ slot[s].renewLeft = 0
     \/ Heeding /\ engine[s[1]] = "closing"

Tick ==
  /\ \A s \in Slots : ~Overdue(s)
  /\ jobs' = [j \in Jobs |-> Aged(jobs[j])]
  /\ slot' = [s \in Slots |->
                IF slot[s].renewLeft > 0 THEN [slot[s] EXCEPT !.renewLeft = @ - 1]
                                         ELSE slot[s]]
  /\ UNCHANGED <<attempts, unrecorded, drops, engine, call, sweep>>

------------------------------------------------------------------------------
SlotStep(s) ==
  \/ Claim(s)
  \/ RenewLease(s)
  \/ RenewLost(s)
  \/ UpdateProgress(s)
  \/ \E outcome \in {"failed", "succeeded"} : HandlerReturns(s, outcome)
  \/ FinishFailed(s)
  \/ FinishSucceeded(s)
  \/ MarkLost(s)

EngineStep(e) == Start(e) \/ Close(e) \/ Closed(e) \/ Crash(e) \/ Heartbeat(e)

CallerStep(c) ==
  \/ \E j \in Jobs : CancelJob(c, j) \/ RetryJobRead(c, j)
  \/ RetryJobCreate(c)

Next ==
  \/ \E j \in Jobs : Submit(j)
  \/ \E c \in Callers : CallerStep(c)
  \/ \E e \in Engines : EngineStep(e)
  \/ \E s \in Slots : SlotStep(s)
  \/ ReconcileList \/ ReconcileReclaim
  \/ Tick

Spec == Init /\ [][Next]_vars

\* The scheduling the Go runtime gives: every loop keeps turning and every
\* handler returns.  Nobody has to submit, cancel, close, crash or restart.
Fairness ==
  /\ WF_vars(Tick)
  /\ \A e \in Engines : WF_vars(Heartbeat(e)) /\ WF_vars(Closed(e))
  /\ \A s \in Slots :
       /\ WF_vars(Claim(s))
       /\ WF_vars(\E outcome \in {"failed", "succeeded"} : HandlerReturns(s, outcome))
       /\ WF_vars(FinishFailed(s))
       /\ WF_vars(FinishSucceeded(s))

FairSpec == Spec /\ Fairness

------------------------------------------------------------------------------
(***************************************************************************)
(* Properties.                                                             *)
(***************************************************************************)
Busy(s) == slot[s].pc # "idle"

\* The shape of the table, of the goroutines and of the callers.
TypeOK ==
  /\ jobs \in [Jobs -> [status : Statuses, retryCount : 0..RetryCap,
                        lockedBy : Engines \cup {None}, lockLeft : Int,
                        retryLeft : Nat, progress : {0, 50, 100}]]
  /\ attempts \in [Jobs -> SUBSET (1..RetryCap)]
  /\ unrecorded \in [Jobs -> SUBSET (1..RetryCap)]
  /\ drops \in 0..MaxDrops
  /\ engine \in [Engines -> {"new", "up", "closing", "down"}]
  /\ slot \in [Slots -> [pc : {"idle", "run", "failed", "succeeded"},
                         job : Jobs \cup {0}, count : 0..RetryCap,
                         renewLeft : 0..RenewEvery]]
  /\ call \in [Callers -> [pc : {"idle", "retry"}, job : Jobs \cup {0},
                           count : 0..RetryCap, reply : {None, "ok", "error"}]]
  /\ sweep \in BOOLEAN

\* A row is locked exactly while it is running: whichever of claim, renewal,
\* cancel, reclaim, user retry and the two unfenced marks come in whatever
\* order, none leaves a claimable row with an owner or a running row that
\* no lease expiry can ever free.
LockMatchesStatus ==
  \A j \in Jobs : jobs[j].status = "running" <=> jobs[j].lockedBy # None

\* While renewals are on time and handlers heed a canceled context, no job of
\* the SQL repository is executed by two goroutines at once, across claims,
\* retries, cancels, crashes, reclaims, closes and marks that are lost.
ExclusiveExecution ==
  \A s, t \in Slots : Busy(s) /\ Busy(t) /\ slot[s].job = slot[t].job => s = t

\* ... because an executing goroutine owns a running row whose lease outlives
\* the next renewal by at least Lease - RenewEvery, unless the job was canceled
\* under it.
LeaseHeld ==
  \A s \in Slots : Busy(s) =>
    LET r == jobs[slot[s].job] IN
    /\ engine[s[1]] \in {"up", "closing"}
    /\ r.retryCount = slot[s].count
    /\ \/ r.status = "canceled"
       \/ /\ r.status = "running"
          /\ r.lockedBy = s[1]
          /\ r.lockLeft >= slot[s].renewLeft + (Lease - RenewEvery)

\* Every failure counted in retry_count has its row in job_attempts, or is one
\* whose insert failed and was not reported: no claim, reclaim, crash or lost
\* mark makes executeJob count a failure under a number it did not record.
FailuresAreRecorded ==
  \A j \in Jobs : \A n \in 1..jobs[j].retryCount : n \in attempts[j] \cup unrecorded[j]

\* A job that succeeded shows all of its progress: no late report of another
\* execution overwrites it.
SucceededIsComplete ==
  \A j \in Jobs : jobs[j].status = "succeeded" => jobs[j].progress = 100

\* A status for which IsTerminal holds is left only by RetryJob.
\* Does not hold with a caller: the mark of the handler that was running when
\* CancelJob came turns the canceled job into another.
TerminalIsFinal ==
  [][\A j \in Jobs :
       jobs[j].status \in Terminal =>
         \/ jobs'[j].status = jobs[j].status
         \/ \E c \in Callers : /\ call[c].pc = "retry" /\ call[c].job = j
                               /\ call'[c].pc = "idle"]_vars

\* On the SQL repository, with renewals on time and handlers that heed Close, the
\* engine implements the abstract queue: one holder at a time across claims,
\* retries, cancels, crashes, lost marks and reclaims, a job whose executor died is open for another, a done job is
\* never touched again, and only its own executor can undo the cancel of a job.
HoldersOf(j) == {s \in Slots : Busy(s) /\ slot[s].job = j}

QueueState(j) ==
  LET st == jobs[j].status IN
  IF st = "absent" THEN "absent"
  ELSE IF st \notin Terminal THEN "open"
  ELSE IF HoldersOf(j) = {} THEN "done" ELSE "canceling"

Queue == INSTANCE JobQueue WITH
  Executors <- Slots,
  state <- [j \in Jobs |-> QueueState(j)],
  holders <- [j \in Jobs |-> HoldersOf(j)]

ImplementsQueue == Queue!QSpec

\* A job waits for an automatic retry only while its failures do not exceed
\* max_retries.
RetryBudget ==
  \A j \in Jobs : jobs[j].status = "retrying" => jobs[j].retryCount <= MaxRetries

\* RetryJob on a failed or canceled job resets it, it does not fail.
\* Does not hold on the SQL repository.
RetryAccepted ==
  \A c \in Callers : call[c].reply # "error"

\* As long as some engine stays up, a job whose owner crashed or closed does
\* not stay running under that owner's name.
Orphaned(j) ==
  /\ jobs[j].status = "running"
  /\ jobs[j].lockedBy \in {e \in Engines : engine[e] = "down"}

AbandonedJobsAreRecovered ==
  (<>[](\E e \in Engines : engine[e] = "up"))
    => \A j \in Jobs : Orphaned(j) ~> ~Orphaned(j)

\* As long as its engine stays up, every submitted job with a handler
\* eventually finishes: retries are bounded and claims do not starve.
EveryJobFinishes ==
  (<>[](\E e \in Engines : engine[e] = "up"))
    => \A j \in Handled : (jobs[j].status # "absent") ~> (jobs[j].status \in Terminal)

==============================================================================
