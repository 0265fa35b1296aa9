--------------------------- MODULE JobEngineProofs ---------------------------
(***************************************************************************)
(* Invariance proofs for JobEngine, for any number of jobs, engines,       *)
(* goroutines and callers, and for both repositories.                      *)
(***************************************************************************)
EXTENDS JobEngine, TLAPS

Row == [status : Statuses, retryCount : 0..RetryCap,
        lockedBy : Engines \cup {None}, lockLeft : Int,
        retryLeft : Nat, progress : {0, 50, 100}]

SlotRec == [pc : {"idle", "run", "failed", "succeeded"},
            job : Jobs \cup {0}, count : 0..RetryCap, renewLeft : 0..RenewEvery]

CallRec == [pc : {"idle", "retry"}, job : Jobs \cup {0},
            count : 0..RetryCap, reply : {None, "ok", "error"}]

\* A busy goroutine works on a row of the table, and so does a caller
\* inside RetryJob.
BusyOnJob ==
  /\ \A s \in Slots : slot[s].pc # "idle" => slot[s].job \in Jobs
  /\ \A c \in Callers : call[c].pc = "retry" => call[c].job \in Jobs

TypeInv ==
  /\ jobs \in [Jobs -> Row]
  /\ attempts \in [Jobs -> SUBSET (1..RetryCap)]
  /\ unrecorded \in [Jobs -> SUBSET (1..RetryCap)]
  /\ drops \in 0..MaxDrops
  /\ engine \in [Engines -> {"new", "up", "closing", "down"}]
  /\ slot \in [Slots -> SlotRec]
  /\ call \in [Callers -> CallRec]
  /\ sweep \in BOOLEAN
  /\ BusyOnJob

\* The count saturates at RetryCap and never drops.
LEMMA BumpType ==
  ASSUME NEW n \in 0..RetryCap
  PROVE  Bump(n) \in 1..RetryCap /\ n <= Bump(n)
BY ConstAssumption DEF Bump

\* Releasing a row, with any status, gives a row.
LEMMA UnlockedRow ==
  ASSUME NEW r \in Row, NEW st \in Statuses
  PROVE  /\ Unlocked(r, st) \in Row
         /\ Unlocked(r, st).status = st
         /\ Unlocked(r, st).lockedBy = None
         /\ Unlocked(r, st).retryCount = r.retryCount
<1> DEFINE a == [r EXCEPT !.status = st]
           b == [a EXCEPT !.lockedBy = None]
<1>1. a \in Row /\ a.status = st /\ a.retryCount = r.retryCount
  BY DEF Row
<1> HIDE DEF a
<1>2. b \in Row /\ b.status = st /\ b.lockedBy = None /\ b.retryCount = r.retryCount
  BY <1>1 DEF Row
<1> HIDE DEF b
<1>3. [b EXCEPT !.lockLeft = 0] = Unlocked(r, st)
  BY DEF a, b, Unlocked
<1> QED BY <1>2, <1>3 DEF Row

\* Submitting fills a row; RetryJob's two answers end the call.
LEMMA PendingRow ==
  ASSUME NEW r \in Row
  PROVE  [r EXCEPT !.status = "pending"] \in Row
BY DEF Row, Statuses

LEMMA AnsweredCalls ==
  /\ [IdleCall EXCEPT !.reply = "error"] \in CallRec
  /\ [IdleCall EXCEPT !.reply = "ok"] \in CallRec
  /\ [IdleCall EXCEPT !.reply = "error"].pc = "idle"
  /\ [IdleCall EXCEPT !.reply = "ok"].pc = "idle"
BY ConstAssumption DEF CallRec, IdleCall

\* Claiming and renewing give a row that is running, or as running as before.
LEMMA ClaimedRow ==
  ASSUME NEW r \in Row, NEW w \in Engines
  PROVE  /\ Claimed(r, w) \in Row
         /\ Claimed(r, w).status = "running"
         /\ Claimed(r, w).lockedBy = w
         /\ Claimed(r, w).lockLeft = Lease
         /\ Claimed(r, w).retryCount = r.retryCount
<1> DEFINE a == [r EXCEPT !.status = "running"]
           b == [a EXCEPT !.lockedBy = w]
<1>1. a \in Row /\ a.status = "running" /\ a.retryCount = r.retryCount
  BY DEF Row, Statuses
<1> HIDE DEF a
<1>2. b \in Row /\ b.status = "running" /\ b.lockedBy = w /\ b.retryCount = r.retryCount
  BY <1>1 DEF Row
<1> HIDE DEF b
<1>3. [b EXCEPT !.lockLeft = Lease] = Claimed(r, w)
  BY DEF a, b, Claimed
<1>4. Lease \in Int
  BY ConstAssumption
<1> QED BY <1>2, <1>3, <1>4 DEF Row

LEMMA RenewedRow ==
  ASSUME NEW r \in Row, NEW w \in Engines
  PROVE  /\ Renewed(r, w) \in Row
         /\ Renewed(r, w).status = r.status
         /\ Renewed(r, w).lockedBy = r.lockedBy
         /\ Renewed(r, w).retryCount = r.retryCount
         /\ r.lockedBy = w => Renewed(r, w).lockLeft = Lease
<1>1. CASE r.lockedBy = w
  <2>1. PICK x : x = [r EXCEPT !.lockLeft = Lease]
    OBVIOUS
  <2>2. /\ x \in Row /\ x.status = r.status /\ x.lockedBy = r.lockedBy
        /\ x.retryCount = r.retryCount /\ x.lockLeft = Lease
    <3>1. Lease \in Int
      BY ConstAssumption
    <3>2. x.status = r.status /\ x.lockedBy = r.lockedBy /\ x.retryCount = r.retryCount /\ x.lockLeft = Lease
      BY <2>1 DEF Row
    <3>3. x \in Row
      BY <2>1, <3>1 DEF Row
    <3> QED BY <3>2, <3>3
  <2> QED BY <1>1, <2>1, <2>2 DEF Renewed
<1>2. CASE r.lockedBy # w
  BY <1>2 DEF Renewed
<1> QED BY <1>1, <1>2

\* Both marks release the row; a failed one counts the failure, and only the
\* in-memory repository compares the count with MaxRetries.
LEMMA MarkedRow ==
  ASSUME NEW r \in Row, NEW d \in Nat
  PROVE  /\ MarkSucceeded(r) \in Row
         /\ MarkSucceeded(r).status = "succeeded"
         /\ MarkSucceeded(r).lockedBy = None
         /\ MarkSucceeded(r).retryCount = r.retryCount
         /\ MarkFailed(r, d) \in Row
         /\ MarkFailed(r, d).status \in {"retrying", "failed"}
         /\ MarkFailed(r, d).lockedBy = None
         /\ MarkFailed(r, d).retryCount = Bump(r.retryCount)
         /\ Postgres => MarkFailed(r, d).status = "retrying"
         /\ ~Postgres /\ MarkFailed(r, d).status = "retrying"
              => MarkFailed(r, d).retryCount <= MaxRetries
<1>1. /\ MarkSucceeded(r) \in Row
      /\ MarkSucceeded(r).status = "succeeded"
      /\ MarkSucceeded(r).lockedBy = None
      /\ MarkSucceeded(r).retryCount = r.retryCount
  <2> DEFINE a == Unlocked(r, "succeeded")
  <2>1. a \in Row /\ a.status = "succeeded" /\ a.lockedBy = None /\ a.retryCount = r.retryCount
    BY UnlockedRow DEF Statuses
  <2> HIDE DEF a
  <2>2. [a EXCEPT !.progress = 100] = MarkSucceeded(r)
    BY DEF a, MarkSucceeded
  <2> QED BY <2>1, <2>2 DEF Row
<1> DEFINE n == Bump(r.retryCount)
           a == Unlocked(r, "retrying")
           b == [a EXCEPT !.retryCount = n]
           x == [b EXCEPT !.retryLeft = d]
           f == Unlocked(r, "failed")
           y == [f EXCEPT !.retryCount = n]
<1>2. n \in 0..RetryCap
  BY BumpType DEF Row
<1>3. /\ a \in Row /\ a.status = "retrying" /\ a.lockedBy = None
      /\ f \in Row /\ f.status = "failed" /\ f.lockedBy = None
  BY UnlockedRow DEF Statuses
<1>4. MarkFailed(r, d) = IF Postgres \/ n <= MaxRetries THEN x ELSE y
  BY DEF MarkFailed
<1> HIDE DEF n, a, f
<1>5. b \in Row /\ b.status = "retrying" /\ b.lockedBy = None /\ b.retryCount = n
  BY <1>2, <1>3 DEF Row
<1>6. y \in Row /\ y.status = "failed" /\ y.lockedBy = None /\ y.retryCount = n
  BY <1>2, <1>3 DEF Row
<1> HIDE DEF b
<1>7. x \in Row /\ x.status = "retrying" /\ x.lockedBy = None /\ x.retryCount = n
  BY <1>5 DEF Row
<1> HIDE DEF x, y
<1>8. CASE Postgres \/ n <= MaxRetries
  BY <1>1, <1>4, <1>7, <1>8 DEF n
<1>9. CASE ~(Postgres \/ n <= MaxRetries)
  BY <1>1, <1>4, <1>6, <1>9 DEF n
<1> QED BY <1>8, <1>9

\* Reclaiming touches only running rows; the clock touches no status.
LEMMA ReclaimedRow ==
  ASSUME NEW r \in Row, NEW a \in Int
  PROVE  /\ Reclaimed(r, a) \in Row
         /\ \/ Reclaimed(r, a) = r
            \/ /\ r.status = "running" /\ r.lockLeft < -a
               /\ Reclaimed(r, a).status = "pending"
               /\ Reclaimed(r, a).lockedBy = None
         /\ Reclaimed(r, a).retryCount = r.retryCount
BY UnlockedRow DEF Reclaimed, Statuses

LEMMA AgedRow ==
  ASSUME NEW r \in Row
  PROVE  /\ Aged(r) \in Row
         /\ Aged(r).status = r.status
         /\ Aged(r).lockedBy = r.lockedBy
         /\ Aged(r).retryCount = r.retryCount
         /\ Aged(r).lockLeft >= r.lockLeft - 1
<1> DEFINE l == IF r.status = "running" /\ r.lockLeft >= -Lease THEN r.lockLeft - 1 ELSE r.lockLeft
           t == IF r.retryLeft > 0 THEN r.retryLeft - 1 ELSE r.retryLeft
           a == [r EXCEPT !.lockLeft = l]
<1>1. l \in Int /\ l >= r.lockLeft - 1 /\ t \in Nat
  BY ConstAssumption DEF Row
<1>2. Aged(r) = [a EXCEPT !.retryLeft = t]
  BY DEF Aged, Row
<1> HIDE DEF l, t
<1>3. /\ a \in Row /\ a.status = r.status /\ a.lockedBy = r.lockedBy
      /\ a.retryCount = r.retryCount /\ a.lockLeft = l
  BY <1>1 DEF Row
<1> HIDE DEF a
<1> QED BY <1>1, <1>2, <1>3 DEF Row

------------------------------------------------------------------------------
\* The backoff delay is a number of ticks.
LEMMA BackoffType ==
  ASSUME NEW n \in 1..(RetryCap + 1)
  PROVE  CalculateBackoff(n) \subseteq Nat
<1> DEFINE i == IF n > Len(BaseDelays) THEN Len(BaseDelays) ELSE n
           base == BaseDelays[i]
<1>1. Len(BaseDelays) \in Nat /\ Len(BaseDelays) > 0 /\ RetryCap \in Nat
  BY ConstAssumption
<1>2. i \in 1..Len(BaseDelays)
  BY <1>1
<1>3. base \in Nat
  BY <1>2, ConstAssumption
<1>4. CalculateBackoff(n) = ((4 * base) \div 5)..((6 * base) \div 5)
  BY DEF CalculateBackoff
<1> HIDE DEF base
<1>5. (4 * base) \div 5 \in Nat
  BY <1>3
<1> QED BY <1>3, <1>4, <1>5

LEMMA InitTypes == Init => TypeInv
<1> SUFFICES ASSUME Init PROVE TypeInv
  OBVIOUS
<1>1. NewRow \in Row
  BY ConstAssumption DEF NewRow, Row, Statuses
<1>2. IdleSlot \in SlotRec
  BY ConstAssumption DEF IdleSlot, SlotRec
<1>3. IdleCall \in CallRec
  BY ConstAssumption DEF IdleCall, CallRec
<1>5. 0 \in 0..MaxDrops
  BY ConstAssumption
<1>4. BusyOnJob
  BY DEF Init, BusyOnJob, IdleSlot, IdleCall
<1> QED BY <1>1, <1>2, <1>3, <1>4, <1>5 DEF Init, TypeInv

LEMMA StepTypes == TypeInv /\ [Next]_vars => TypeInv'
<1> SUFFICES ASSUME TypeInv, [Next]_vars PROVE TypeInv'
  OBVIOUS
<1> USE DEF TypeInv
<1>c. \A s \in Slots : s[1] \in Engines
  BY DEF Slots
<1>d. IdleSlot \in SlotRec /\ IdleSlot.pc = "idle"
  BY ConstAssumption DEF IdleSlot, SlotRec
<1>e. RenewEvery \in 0..RenewEvery
  BY ConstAssumption
<1>1. ASSUME NEW j \in Jobs, Submit(j) PROVE TypeInv'
  <2>1. [jobs[j] EXCEPT !.status = "pending"] \in Row
    BY PendingRow
  <2> QED BY <1>1, <2>1 DEF Submit, BusyOnJob
<1>2. ASSUME NEW c \in Callers, NEW j \in Jobs, CancelJob(c, j) PROVE TypeInv'
  <2>1. Unlocked(jobs[j], "canceled") \in Row
    BY UnlockedRow DEF Statuses
  <2> QED BY <1>2, <2>1 DEF CancelJob, BusyOnJob
<1>3. ASSUME NEW c \in Callers, NEW j \in Jobs, RetryJobRead(c, j) PROVE TypeInv'
  <2> DEFINE x == [pc |-> "retry", job |-> j, reply |-> None, count |-> jobs[j].retryCount]
  <2>1. x \in CallRec /\ x.job = j
    BY DEF CallRec, Row
  <2>2. call' = [call EXCEPT ![c] = x]
    BY <1>3 DEF RetryJobRead
  <2> HIDE DEF x
  <2> QED BY <1>3, <2>1, <2>2 DEF RetryJobRead, BusyOnJob
<1>4. ASSUME NEW c \in Callers, RetryJobCreate(c) PROVE TypeInv'
  <2> DEFINE j == call[c].job
             n0 == [NewRow EXCEPT !.status = "pending"]
             n1 == [n0 EXCEPT !.retryCount = call[c].count]
             ce == [IdleCall EXCEPT !.reply = "error"]
             co == [IdleCall EXCEPT !.reply = "ok"]
  <2>1. j \in Jobs /\ call[c].count \in 0..RetryCap
    BY <1>4 DEF RetryJobCreate, BusyOnJob, CallRec
  <2>2. NewRow \in Row
    BY ConstAssumption DEF NewRow, Row, Statuses
  <2>3. n0 \in Row
    BY <2>2 DEF Row, Statuses
  <2>4. n1 \in Row
    <3> HIDE DEF n0
    <3> QED BY <2>1, <2>3 DEF Row
  <2>5. ce \in CallRec /\ co \in CallRec /\ ce.pc = "idle" /\ co.pc = "idle"
    BY AnsweredCalls
  <2>6. /\ call' = [call EXCEPT ![c] = ce] \/ call' = [call EXCEPT ![c] = co]
        /\ jobs' = jobs \/ jobs' = [jobs EXCEPT ![j] = n1]
        /\ UNCHANGED <<attempts, unrecorded, drops, engine, slot, sweep>>
    BY <1>4 DEF RetryJobCreate
  <2> HIDE DEF ce, co, n1, j
  <2> QED BY <2>1, <2>4, <2>5, <2>6 DEF BusyOnJob
<1>5. ASSUME NEW e \in Engines, EngineStep(e) PROVE TypeInv'
  <2>1. CASE Start(e)
    BY <2>1 DEF Start, BusyOnJob
  <2>2. CASE Close(e)
    BY <2>2 DEF Close, BusyOnJob
  <2>3. CASE Closed(e)
    BY <2>3 DEF Closed, BusyOnJob
  <2>4. CASE Crash(e)
    BY <2>4, <1>d DEF Crash, BusyOnJob
  <2>5. CASE Heartbeat(e)
    <3>1. \A j \in Jobs : Reclaimed(jobs[j], Lease) \in Row
      BY ReclaimedRow, ConstAssumption
    <3> QED BY <2>5, <3>1 DEF Heartbeat, BusyOnJob
  <2> QED BY <1>5, <2>1, <2>2, <2>3, <2>4, <2>5 DEF EngineStep
<1>6. ASSUME NEW s \in Slots, Claim(s) PROVE TypeInv'
  <2>1. PICK j \in Claimable :
          /\ jobs' = [jobs EXCEPT ![j] = Claimed(@, s[1])]
          /\ slot' = [slot EXCEPT ![s] = [pc |-> "run", job |-> j,
                                          count |-> jobs[j].retryCount,
                                          renewLeft |-> RenewEvery]]
    BY <1>6 DEF Claim
  <2>2. j \in Jobs
    BY ConstAssumption DEF Claimable
  <2>3. Claimed(jobs[j], s[1]) \in Row
    BY <1>c, <2>2, ClaimedRow
  <2> DEFINE x == [pc |-> "run", job |-> j, count |-> jobs[j].retryCount,
                   renewLeft |-> RenewEvery]
  <2>4. x \in SlotRec /\ x.job = j
    BY <2>2, ConstAssumption DEF SlotRec, Row
  <2>5. slot' = [slot EXCEPT ![s] = x]
    BY <2>1
  <2> HIDE DEF x
  <2> QED BY <1>6, <2>1, <2>2, <2>3, <2>4, <2>5 DEF Claim, BusyOnJob
<1>7. ASSUME NEW s \in Slots, RenewLease(s) PROVE TypeInv'
  <2>1. slot[s].job \in Jobs
    BY <1>7 DEF RenewLease, BusyOnJob
  <2>2. Renewed(jobs[slot[s].job], s[1]) \in Row
    BY <1>c, <2>1, RenewedRow
  <2>3. [slot[s] EXCEPT !.renewLeft = RenewEvery] \in SlotRec
    BY <1>e DEF SlotRec
  <2> QED BY <1>7, <2>1, <2>2, <2>3 DEF RenewLease, BusyOnJob, SlotRec
<1>8. ASSUME NEW s \in Slots, RenewLost(s) PROVE TypeInv'
  <2>1. [slot[s] EXCEPT !.renewLeft = RenewEvery] \in SlotRec
    BY <1>e DEF SlotRec
  <2> QED BY <1>8, <2>1 DEF RenewLost, BusyOnJob, SlotRec
<1>9. ASSUME NEW s \in Slots, UpdateProgress(s) PROVE TypeInv'
  <2>1. slot[s].job \in Jobs
    BY <1>9 DEF UpdateProgress, BusyOnJob
  <2>2. [jobs[slot[s].job] EXCEPT !.progress = 50] \in Row
    BY <2>1 DEF Row
  <2> QED BY <1>9, <2>1, <2>2 DEF UpdateProgress, BusyOnJob
<1>10. ASSUME NEW s \in Slots, NEW outcome \in {"failed", "succeeded"},
              HandlerReturns(s, outcome)
       PROVE  TypeInv'
  <2>1. slot[s].job \in Jobs
    BY <1>10 DEF HandlerReturns, BusyOnJob
  <2>2. Bump(slot[s].count) \in 1..RetryCap
    BY BumpType DEF SlotRec
  <2>3. [slot[s] EXCEPT !.pc = outcome] \in SlotRec
    BY DEF SlotRec
  <2>4. BusyOnJob' /\ UNCHANGED <<jobs, engine, call, sweep>> /\ slot' \in [Slots -> SlotRec]
    BY <1>10, <2>1, <2>3 DEF HandlerReturns, BusyOnJob, SlotRec
  <2>5. /\ attempts' \in [Jobs -> SUBSET (1..RetryCap)]
        /\ unrecorded' \in [Jobs -> SUBSET (1..RetryCap)]
        /\ drops' \in 0..MaxDrops
    <3> DEFINE j == slot[s].job
               b == Bump(slot[s].count)
    <3>1. \/ attempts' = [attempts EXCEPT ![j] = @ \cup {b}] /\ UNCHANGED <<unrecorded, drops>>
          \/ /\ unrecorded' = [unrecorded EXCEPT ![j] = @ \cup {b}] /\ UNCHANGED attempts
             /\ drops < MaxDrops /\ drops' = drops + 1
      BY <1>10 DEF HandlerReturns, DropError
    <3>2. /\ attempts[j] \cup {b} \in SUBSET (1..RetryCap)
          /\ unrecorded[j] \cup {b} \in SUBSET (1..RetryCap)
      BY <2>1, <2>2
    <3>3. drops < MaxDrops => drops + 1 \in 0..MaxDrops
      BY ConstAssumption
    <3> HIDE DEF j, b
    <3> QED BY <3>1, <3>2, <3>3
  <2> QED BY <2>4, <2>5
<1>11. ASSUME NEW s \in Slots, FinishFailed(s) PROVE TypeInv'
  <2>1. slot[s].job \in Jobs
    BY <1>11 DEF FinishFailed, BusyOnJob
  <2>2. slot[s].count + 1 \in 1..(RetryCap + 1)
    BY ConstAssumption DEF SlotRec
  <2>3. PICK d \in CalculateBackoff(slot[s].count + 1) :
          jobs' = [jobs EXCEPT ![slot[s].job] = MarkFailed(@, d)]
    BY <1>11 DEF FinishFailed
  <2>4. d \in Nat
    BY <2>2, <2>3, BackoffType
  <2>5. MarkFailed(jobs[slot[s].job], d) \in Row
    BY <2>1, <2>4, MarkedRow
  <2> QED BY <1>11, <2>1, <2>3, <2>5, <1>d DEF FinishFailed, BusyOnJob
<1>12. ASSUME NEW s \in Slots, FinishSucceeded(s) PROVE TypeInv'
  <2>1. slot[s].job \in Jobs
    BY <1>12 DEF FinishSucceeded, BusyOnJob
  <2>2. MarkSucceeded(jobs[slot[s].job]) \in Row
    BY <2>1, MarkedRow
  <2> QED BY <1>12, <2>1, <2>2, <1>d DEF FinishSucceeded, BusyOnJob
<1>17. ASSUME NEW s \in Slots, MarkLost(s) PROVE TypeInv'
  BY <1>17, <1>d, ConstAssumption DEF MarkLost, DropError, BusyOnJob
<1>13. CASE ReconcileList
  BY <1>13 DEF ReconcileList, BusyOnJob
<1>14. CASE ReconcileReclaim
  <2>1. \A j \in Jobs : Reclaimed(jobs[j], 0) \in Row
    BY ReclaimedRow
  <2> QED BY <1>14, <2>1 DEF ReconcileReclaim, BusyOnJob
<1>15. CASE Tick
  <2>1. \A j \in Jobs : Aged(jobs[j]) \in Row
    BY AgedRow
  <2>2. ASSUME NEW s \in Slots PROVE
          /\ slot'[s] \in SlotRec
          /\ slot'[s].pc = slot[s].pc /\ slot'[s].job = slot[s].job
    <3>1. slot[s].renewLeft > 0 => slot[s].renewLeft - 1 \in 0..RenewEvery
      BY ConstAssumption DEF SlotRec
    <3>2. slot[s].renewLeft > 0 =>
            LET x == [slot[s] EXCEPT !.renewLeft = slot[s].renewLeft - 1]
            IN  x \in SlotRec /\ x.pc = slot[s].pc /\ x.job = slot[s].job
      BY <3>1 DEF SlotRec
    <3>3. slot'[s] = IF slot[s].renewLeft > 0
                       THEN [slot[s] EXCEPT !.renewLeft = slot[s].renewLeft - 1]
                       ELSE slot[s]
      BY <1>15 DEF Tick
    <3> QED BY <3>2, <3>3
  <2>3. slot' = [s \in Slots |-> slot'[s]]
    BY <1>15 DEF Tick
  <2>4. slot' \in [Slots -> SlotRec]
    BY <2>2, <2>3
  <2> QED BY <1>15, <2>1, <2>2, <2>4 DEF Tick, BusyOnJob
<1>16. CASE UNCHANGED vars
  BY <1>16 DEF vars, BusyOnJob
<1> QED
  BY <1>1, <1>2, <1>3, <1>4, <1>5, <1>6, <1>7, <1>8, <1>9, <1>10, <1>11,
     <1>12, <1>13, <1>14, <1>15, <1>16, <1>17 DEF Next, CallerStep, SlotStep

\* Every reachable table, goroutine and caller has the shape TypeOK gives it:
\* no method of either repository writes a malformed row.
THEOREM TypeCorrect == Spec => []TypeOK
<1>1. Spec => []TypeInv
  BY InitTypes, StepTypes, PTL DEF Spec
<1>2. TypeInv => TypeOK
  BY DEF TypeInv, TypeOK, Row, SlotRec, CallRec
<1> QED BY <1>1, <1>2, PTL

------------------------------------------------------------------------------
LEMMA StepLocks == TypeInv /\ LockMatchesStatus /\ [Next]_vars => LockMatchesStatus'
<1> SUFFICES ASSUME TypeInv, LockMatchesStatus, [Next]_vars, NEW k \in Jobs
             PROVE  jobs'[k].status = "running" <=> jobs'[k].lockedBy # None
  BY DEF LockMatchesStatus
<1> DEFINE Goal == jobs'[k].status = "running" <=> jobs'[k].lockedBy # None
<1>a. jobs[k].status = "running" <=> jobs[k].lockedBy # None
  BY DEF LockMatchesStatus
<1>b. jobs \in [Jobs -> Row]
  BY DEF TypeInv
<1>c. CASE UNCHANGED jobs
  BY <1>a, <1>c
<1>1. ASSUME NEW j \in Jobs, Submit(j) PROVE Goal
  BY <1>1, <1>a, <1>b DEF Submit, Row
<1>2. ASSUME NEW c \in Callers, NEW j \in Jobs, CancelJob(c, j) PROVE Goal
  BY <1>2, <1>a, <1>b, UnlockedRow DEF CancelJob, Statuses
<1>3. ASSUME NEW c \in Callers, RetryJobCreate(c) PROVE Goal
  <2> DEFINE n == [NewRow EXCEPT !.status = "pending", !.retryCount = call[c].count]
  <2>1. n.status = "pending" /\ n.lockedBy = None
    BY DEF NewRow
  <2>2. jobs' = jobs \/ jobs' = [jobs EXCEPT ![call[c].job] = n]
    BY <1>3 DEF RetryJobCreate
  <2> HIDE DEF n
  <2> QED BY <1>a, <1>b, <2>1, <2>2
<1>4. ASSUME NEW e \in Engines, Heartbeat(e) PROVE Goal
  <2>1. Lease \in Int /\ jobs[k] \in Row
    BY <1>b, ConstAssumption
  <2>2. jobs'[k] = Reclaimed(jobs[k], Lease)
    BY <1>4 DEF Heartbeat
  <2> QED BY <1>a, <1>b, <2>1, <2>2, ReclaimedRow
<1>5. ASSUME NEW s \in Slots, Claim(s) PROVE Goal
  <2>1. PICK j \in Claimable : jobs' = [jobs EXCEPT ![j] = Claimed(@, s[1])]
    BY <1>5 DEF Claim
  <2>2. s[1] \in Engines /\ s[1] # None
    BY ConstAssumption DEF Slots
  <2> QED BY <1>a, <1>b, <2>1, <2>2, ClaimedRow
<1>6. ASSUME NEW s \in Slots, RenewLease(s) PROVE Goal
  <2>1. s[1] \in Engines
    BY DEF Slots
  <2> QED BY <1>6, <1>a, <1>b, <2>1, RenewedRow DEF RenewLease
<1>7. ASSUME NEW s \in Slots, UpdateProgress(s) PROVE Goal
  BY <1>7, <1>a, <1>b DEF UpdateProgress, Row
<1>8. ASSUME NEW s \in Slots, FinishFailed(s) PROVE Goal
  <2>1. slot[s].count + 1 \in 1..(RetryCap + 1)
    BY ConstAssumption DEF TypeInv, SlotRec
  <2>2. PICK d \in CalculateBackoff(slot[s].count + 1) :
          jobs' = [jobs EXCEPT ![slot[s].job] = MarkFailed(@, d)]
    BY <1>8 DEF FinishFailed
  <2>3. d \in Nat
    BY <2>1, <2>2, BackoffType
  <2> QED BY <1>a, <1>b, <2>2, <2>3, MarkedRow
<1>9. ASSUME NEW s \in Slots, FinishSucceeded(s) PROVE Goal
  <2>1. 0 \in Nat
    OBVIOUS
  <2> QED BY <1>9, <1>a, <1>b, <2>1, MarkedRow DEF FinishSucceeded
<1>10. CASE ReconcileReclaim
  BY <1>10, <1>a, <1>b, ReclaimedRow DEF ReconcileReclaim
<1>11. CASE Tick
  BY <1>11, <1>a, <1>b, AgedRow DEF Tick
<1> QED
  BY <1>1, <1>2, <1>3, <1>4, <1>5, <1>6, <1>7, <1>8, <1>9, <1>10, <1>11, <1>c
  DEF Next, CallerStep, EngineStep, SlotStep, vars, RetryJobRead, Start, Close,
      Closed, Crash, ReconcileList, RenewLost, MarkLost, HandlerReturns

\* In both repositories, whatever the interleaving of claims, renewals, marks,
\* cancels, retries and reclaims, a row is locked exactly while it is running.
THEOREM LocksCorrect == Spec => []LockMatchesStatus
<1>1. Init => LockMatchesStatus
  BY DEF Init, LockMatchesStatus, NewRow
<1>2. Spec => []TypeInv
  BY InitTypes, StepTypes, PTL DEF Spec
<1> QED BY <1>1, <1>2, StepLocks, PTL DEF Spec

------------------------------------------------------------------------------
LeaseInv == LeaseHeld /\ ExclusiveExecution

\* A row some goroutine is executing under the invariant cannot be claimed
\* or reclaimed by anyone.
LEMMA HeldRowsStay ==
  ASSUME TypeInv, LeaseHeld, NEW s \in Slots, Busy(s)
  PROVE  /\ slot[s].job \in Jobs
         /\ jobs[slot[s].job] \in Row
         /\ ~Eligible(jobs[slot[s].job])
         /\ Reclaimed(jobs[slot[s].job], Lease) = jobs[slot[s].job]
         /\ Reclaimed(jobs[slot[s].job], 0) = jobs[slot[s].job]
<1> DEFINE r == jobs[slot[s].job]
<1>1. slot[s].job \in Jobs /\ r \in Row
  BY DEF TypeInv, BusyOnJob, Busy
<1>2. slot[s].renewLeft \in Nat /\ Lease \in Nat /\ Lease - RenewEvery >= 0
      /\ Lease - RenewEvery \in Int
  BY ConstAssumption DEF TypeInv, SlotRec
<1>3. \/ r.status = "canceled"
      \/ /\ r.status = "running"
         /\ r.lockLeft >= slot[s].renewLeft + (Lease - RenewEvery)
  BY DEF LeaseHeld
<1> HIDE DEF r
<1>4. r.lockLeft \in Int
  BY <1>1 DEF Row
<1>5. r.status = "canceled" \/ (r.status = "running" /\ r.lockLeft >= 0)
  BY <1>2, <1>3, <1>4
<1>6. ~Eligible(r) /\ Reclaimed(r, Lease) = r /\ Reclaimed(r, 0) = r
  BY <1>2, <1>4, <1>5 DEF Eligible, Reclaimed
<1> QED BY <1>1, <1>6 DEF r

LEMMA StepLeases ==
  ASSUME Prompt, Heeding, Postgres
  PROVE  TypeInv /\ LeaseInv /\ [Next]_vars => LeaseInv'
<1> SUFFICES ASSUME TypeInv, LeaseHeld, ExclusiveExecution, [Next]_vars PROVE LeaseInv'
  BY DEF LeaseInv
<1> DEFINE Held(s) ==
      LET r == jobs[slot[s].job] IN
      /\ engine[s[1]] \in {"up", "closing"}
      /\ r.retryCount = slot[s].count
      /\ \/ r.status = "canceled"
         \/ /\ r.status = "running"
            /\ r.lockedBy = s[1]
            /\ r.lockLeft >= slot[s].renewLeft + (Lease - RenewEvery)
<1>a. \A s \in Slots : Busy(s) => Held(s)
  BY DEF LeaseHeld
<1>b. \A s \in Slots : Busy(s) => slot[s].job \in Jobs
  BY DEF TypeInv, BusyOnJob, Busy
<1>c. /\ jobs \in [Jobs -> Row] /\ slot \in [Slots -> SlotRec]
      /\ engine \in [Engines -> {"new", "up", "closing", "down"}]
  BY DEF TypeInv
<1>d. \A s \in Slots : s[1] \in Engines
  BY DEF Slots
\* An action that changes no goroutine, and no row or engine a goroutine uses.
<1>e. ASSUME UNCHANGED slot,
             \A s \in Slots : Busy(s) => /\ jobs'[slot[s].job] = jobs[slot[s].job]
                                         /\ engine'[s[1]] \in {"up", "closing"}
      PROVE  LeaseInv'
  BY <1>e, <1>a DEF LeaseInv, LeaseHeld, ExclusiveExecution, Busy
<1>1. ASSUME NEW j \in Jobs, Submit(j) PROVE LeaseInv'
  <2>1. \A s \in Slots : Busy(s) => slot[s].job # j
    BY <1>1, <1>a DEF Submit
  <2> QED BY <1>1, <1>a, <1>b, <1>c, <1>e, <2>1 DEF Submit
<1>2. ASSUME NEW c \in Callers, NEW j \in Jobs, CancelJob(c, j) PROVE LeaseInv'
  <2> DEFINE r == Unlocked(jobs[j], "canceled")
  <2>1. r.status = "canceled" /\ r.retryCount = jobs[j].retryCount
    BY <1>c, UnlockedRow DEF Statuses
  <2>2. jobs' = [jobs EXCEPT ![j] = r] /\ UNCHANGED <<slot, engine>>
    BY <1>2 DEF CancelJob
  <2> HIDE DEF r
  <2> QED BY <1>a, <1>b, <1>c, <2>1, <2>2 DEF LeaseInv, LeaseHeld, ExclusiveExecution, Busy
<1>3. ASSUME NEW c \in Callers, RetryJobCreate(c) PROVE LeaseInv'
  BY <1>3, <1>a, <1>e DEF RetryJobCreate
<1>4. ASSUME NEW e \in Engines, Start(e) PROVE LeaseInv'
  BY <1>4, <1>a, <1>c, <1>d, <1>e DEF Start
<1>5. ASSUME NEW e \in Engines, Close(e) PROVE LeaseInv'
  BY <1>5, <1>a, <1>c, <1>d, <1>e DEF Close
<1>6. ASSUME NEW e \in Engines, Closed(e) PROVE LeaseInv'
  <2>1. ASSUME NEW s \in Slots, Busy(s) PROVE s[1] # e
    <3>1. s = <<s[1], s[2]>> /\ s[2] \in 1..WorkerCount
      BY DEF Slots
    <3> QED BY <1>6, <2>1, <3>1 DEF Closed, Busy
  <2> QED BY <1>6, <1>a, <1>c, <1>d, <1>e, <2>1 DEF Closed
<1>7. ASSUME NEW e \in Engines, Crash(e) PROVE LeaseInv'
  <2>1. ASSUME NEW s \in Slots, Busy(s)'
        PROVE  s[1] # e /\ slot'[s] = slot[s] /\ Busy(s)
    BY <1>7, <2>1 DEF Crash, Busy, IdleSlot
  <2> QED BY <1>7, <1>a, <1>c, <1>d, <2>1 DEF Crash, LeaseInv, LeaseHeld, ExclusiveExecution
<1>8. ASSUME NEW e \in Engines, Heartbeat(e) PROVE LeaseInv'
  BY <1>8, <1>a, <1>b, <1>e, HeldRowsStay DEF Heartbeat
<1>9. CASE ReconcileReclaim
  BY <1>9, <1>a, <1>b, <1>e, HeldRowsStay DEF ReconcileReclaim
<1>10. ASSUME NEW s \in Slots, Claim(s) PROVE LeaseInv'
  <2> DEFINE x(j) == [pc |-> "run", job |-> j, count |-> jobs[j].retryCount,
                      renewLeft |-> RenewEvery]
  <2>1. PICK j \in Claimable :
          /\ jobs' = [jobs EXCEPT ![j] = Claimed(@, s[1])]
          /\ slot' = [slot EXCEPT ![s] = x(j)]
    BY <1>10 DEF Claim
  <2>2. j \in Jobs /\ Eligible(jobs[j])
    BY ConstAssumption DEF Claimable
  <2>3. \A t \in Slots : Busy(t) => slot[t].job # j
    BY <2>2, HeldRowsStay
  <2>4. /\ Claimed(jobs[j], s[1]).status = "running"
        /\ Claimed(jobs[j], s[1]).lockedBy = s[1]
        /\ Claimed(jobs[j], s[1]).lockLeft = Lease
        /\ Claimed(jobs[j], s[1]).retryCount = jobs[j].retryCount
    BY <1>c, <1>d, <2>2, ClaimedRow
  <2>5. slot'[s] = x(j) /\ jobs'[j] = Claimed(jobs[j], s[1])
    BY <1>c, <2>1, <2>2
  <2>6. Lease >= RenewEvery + (Lease - RenewEvery)
    BY ConstAssumption
  <2>7. Held(s)'
    BY <1>10, <2>4, <2>5, <2>6 DEF Claim
  <2>8. ASSUME NEW t \in Slots, t # s
        PROVE  slot'[t] = slot[t] /\ (Busy(t) => jobs'[slot[t].job] = jobs[slot[t].job])
    BY <1>b, <1>c, <2>1, <2>2, <2>3, <2>8
  <2>9. LeaseHeld'
    BY <1>10, <1>a, <2>7, <2>8 DEF Claim, LeaseHeld, Busy
  <2>10. ExclusiveExecution'
    BY <2>3, <2>5, <2>8 DEF ExclusiveExecution, Busy
  <2> QED BY <2>9, <2>10 DEF LeaseInv
<1>11. ASSUME NEW s \in Slots, RenewLease(s) PROVE LeaseInv'
  <2>1. Busy(s) /\ slot[s].job \in Jobs
    BY <1>11, <1>b DEF RenewLease, Busy
  <2> DEFINE r == jobs[slot[s].job]
  <2>2. /\ Renewed(r, s[1]).status = r.status
        /\ Renewed(r, s[1]).lockedBy = r.lockedBy
        /\ Renewed(r, s[1]).retryCount = r.retryCount
        /\ r.lockedBy = s[1] => Renewed(r, s[1]).lockLeft = Lease
    BY <1>c, <1>d, <2>1, RenewedRow
  <2>3. /\ slot'[s].pc = slot[s].pc /\ slot'[s].job = slot[s].job
        /\ slot'[s].count = slot[s].count /\ slot'[s].renewLeft = RenewEvery
    BY <1>11, <1>c DEF RenewLease, SlotRec
  <2>4. jobs'[slot[s].job] = Renewed(r, s[1])
    BY <1>11, <1>c, <2>1 DEF RenewLease
  <2>5. Lease >= RenewEvery + (Lease - RenewEvery)
    BY ConstAssumption
  <2>6. Held(s)'
    BY <1>11, <1>a, <2>1, <2>2, <2>3, <2>4, <2>5 DEF RenewLease
  <2>7. ASSUME NEW t \in Slots, t # s
        PROVE  slot'[t] = slot[t] /\ (Busy(t) => jobs'[slot[t].job] = jobs[slot[t].job])
    BY <1>11, <1>b, <1>c, <2>1, <2>7 DEF RenewLease, ExclusiveExecution
  <2>8. LeaseHeld'
    BY <1>11, <1>a, <2>6, <2>7 DEF RenewLease, LeaseHeld, Busy
  <2>9. ExclusiveExecution'
    BY <2>1, <2>3, <2>7 DEF ExclusiveExecution, Busy
  <2> QED BY <2>8, <2>9 DEF LeaseInv
<1>12. ASSUME NEW s \in Slots, RenewLost(s) PROVE LeaseInv'
  BY <1>12 DEF RenewLost
<1>13. ASSUME NEW s \in Slots, UpdateProgress(s) PROVE LeaseInv'
  <2>1. slot[s].job \in Jobs
    BY <1>13, <1>b DEF UpdateProgress, Busy
  <2>2. ASSUME NEW j \in Jobs
        PROVE  /\ jobs'[j].status = jobs[j].status
               /\ jobs'[j].lockedBy = jobs[j].lockedBy
               /\ jobs'[j].lockLeft = jobs[j].lockLeft
               /\ jobs'[j].retryCount = jobs[j].retryCount
    BY <1>13, <1>c, <2>1 DEF UpdateProgress, Row
  <2> QED BY <1>13, <1>a, <1>b, <2>2
          DEF UpdateProgress, LeaseInv, LeaseHeld, ExclusiveExecution, Busy
<1>14. ASSUME NEW s \in Slots, NEW outcome \in {"failed", "succeeded"},
              HandlerReturns(s, outcome)
       PROVE  LeaseInv'
  <2>1. ASSUME NEW t \in Slots
        PROVE  /\ slot'[t].job = slot[t].job /\ slot'[t].count = slot[t].count
               /\ slot'[t].renewLeft = slot[t].renewLeft
               /\ (Busy(t)' <=> Busy(t))
    BY <1>14, <1>c DEF HandlerReturns, SlotRec, Busy
  <2> QED BY <1>14, <1>a, <2>1 DEF HandlerReturns, LeaseInv, LeaseHeld, ExclusiveExecution
\* The end of executeJob changes one row; the goroutines still busy use others.
<1>15. ASSUME NEW s \in Slots, Busy(s), NEW r,
              jobs' = [jobs EXCEPT ![slot[s].job] = r],
              slot' = [slot EXCEPT ![s] = IdleSlot], UNCHANGED engine
       PROVE  LeaseInv'
  <2>1. ~Busy(s)'
    BY <1>15, <1>c DEF Busy, IdleSlot
  <2>2. ASSUME NEW t \in Slots, t # s
        PROVE  slot'[t] = slot[t] /\ (Busy(t) => jobs'[slot[t].job] = jobs[slot[t].job])
    BY <1>15, <1>b, <1>c, <2>2 DEF ExclusiveExecution
  <2> QED BY <1>15, <1>a, <2>1, <2>2 DEF LeaseInv, LeaseHeld, ExclusiveExecution, Busy
<1>16. ASSUME NEW s \in Slots, FinishFailed(s) PROVE LeaseInv'
  BY <1>15, <1>16 DEF FinishFailed, Busy
<1>17. ASSUME NEW s \in Slots, FinishSucceeded(s) PROVE LeaseInv'
  BY <1>15, <1>17 DEF FinishSucceeded, Busy
<1>20. ASSUME NEW s \in Slots, MarkLost(s) PROVE LeaseInv'
  <2>1. ~Busy(s)' /\ \A t \in Slots : t # s => slot'[t] = slot[t]
    BY <1>20, <1>c DEF MarkLost, Busy, IdleSlot
  <2> QED BY <1>20, <1>a, <2>1 DEF MarkLost, LeaseInv, LeaseHeld, ExclusiveExecution, Busy
<1>18. CASE Tick
  <2>1. ASSUME NEW s \in Slots, Busy(s)
        PROVE  slot[s].renewLeft > 0 /\ slot[s].renewLeft \in Nat
    <3>1. engine[s[1]] \in {"up", "closing"}
      BY <1>a, <2>1
    <3> QED BY <1>18, <1>c, <2>1, <3>1, ConstAssumption DEF Tick, Overdue, Busy, SlotRec
  <2>2. ASSUME NEW s \in Slots
        PROVE  /\ slot'[s].pc = slot[s].pc /\ slot'[s].job = slot[s].job
               /\ slot'[s].count = slot[s].count
               /\ Busy(s) => slot'[s].renewLeft = slot[s].renewLeft - 1
    BY <1>18, <1>c, <2>1 DEF Tick, SlotRec
  <2>3. ASSUME NEW j \in Jobs
        PROVE  /\ jobs'[j].status = jobs[j].status
               /\ jobs'[j].lockedBy = jobs[j].lockedBy
               /\ jobs'[j].retryCount = jobs[j].retryCount
               /\ jobs'[j].lockLeft >= jobs[j].lockLeft - 1
               /\ jobs[j].lockLeft \in Int /\ jobs'[j].lockLeft \in Int
    BY <1>18, <1>c, AgedRow DEF Tick, Row
  <2>4. ASSUME NEW s \in Slots, Busy(s) PROVE Held(s)'
    <3>1. slot[s].job \in Jobs
      BY <1>b, <2>4
    <3>2. Lease - RenewEvery \in Int
      BY ConstAssumption
    <3>3. jobs[slot[s].job].status = "running" =>
            jobs[slot[s].job].lockLeft >= slot[s].renewLeft + (Lease - RenewEvery)
      BY <1>a, <2>4
    <3>4. jobs[slot[s].job].status = "running" =>
            jobs'[slot[s].job].lockLeft >= (slot[s].renewLeft - 1) + (Lease - RenewEvery)
      BY <2>1, <2>3, <2>4, <3>1, <3>2, <3>3
    <3> QED BY <1>18, <1>a, <2>2, <2>3, <2>4, <3>1, <3>4 DEF Tick
  <2> QED BY <1>18, <2>2, <2>4 DEF LeaseInv, LeaseHeld, ExclusiveExecution, Busy
<1>19. CASE UNCHANGED <<jobs, engine, slot>>
  BY <1>19, <1>a, <1>e
<1> QED
  BY <1>1, <1>2, <1>3, <1>4, <1>5, <1>6, <1>7, <1>8, <1>9, <1>10, <1>11, <1>12,
     <1>13, <1>14, <1>16, <1>17, <1>18, <1>19, <1>20
  DEF Next, CallerStep, EngineStep, SlotStep, vars, RetryJobRead, ReconcileList

\* The leases are an invariant of the SQL repository with renewals on time.
LEMMA LeasesInvariant ==
  ASSUME Prompt, Heeding, Postgres
  PROVE  Spec => [](TypeInv /\ LeaseInv)
<1>1. Init => LeaseInv
  BY DEF Init, LeaseInv, LeaseHeld, ExclusiveExecution, Busy, IdleSlot
<1>2. TypeInv /\ LeaseInv /\ [Next]_vars => LeaseInv'
  BY StepLeases
<1> QED BY <1>1, <1>2, InitTypes, StepTypes, PTL DEF Spec

\* With the SQL repository, renewals on time and handlers that return when Close
\* cancels their context, no job is ever executed by
\* two goroutines at once: for every number of engines and goroutines, every
\* lease length and renewal period, and every interleaving of crashes, closes,
\* cancels and reclaims.
THEOREM ExclusionCorrect ==
  ASSUME Prompt, Heeding, Postgres
  PROVE  Spec => []ExclusiveExecution
<1>1. TypeInv /\ LeaseInv => ExclusiveExecution
  BY DEF LeaseInv
<1> QED BY <1>1, LeasesInvariant, PTL

\* ... and every executing goroutine's lease outlives its next renewal by
\* Lease - RenewEvery, so that neither ClaimNextPending nor ReclaimAbandonedJobs
\* can take the row.
THEOREM LeasesCorrect ==
  ASSUME Prompt, Heeding, Postgres
  PROVE  Spec => []LeaseHeld
<1>1. TypeInv /\ LeaseInv => LeaseHeld
  BY DEF LeaseInv
<1> QED BY <1>1, LeasesInvariant, PTL

------------------------------------------------------------------------------
\* Rows, as far as the retry count goes: a step counts a failure of the
\* goroutine that marks, or leaves the count of every row alone.
LEMMA StepCounts ==
  ASSUME TypeInv, Postgres, [Next]_vars, NEW k \in Jobs
  PROVE  \/ jobs'[k].retryCount = jobs[k].retryCount
         \/ /\ jobs'[k].retryCount = Bump(jobs[k].retryCount)
            /\ \E s \in Slots : slot[s].pc = "failed" /\ slot[s].job = k
            /\ UNCHANGED <<attempts, unrecorded>>
<1> DEFINE Goal == \/ jobs'[k].retryCount = jobs[k].retryCount
                   \/ /\ jobs'[k].retryCount = Bump(jobs[k].retryCount)
                      /\ \E s \in Slots : slot[s].pc = "failed" /\ slot[s].job = k
                      /\ UNCHANGED <<attempts, unrecorded>>
<1>a. jobs \in [Jobs -> Row]
  BY DEF TypeInv
<1>b. CASE UNCHANGED jobs
  BY <1>b
<1>1. ASSUME NEW j \in Jobs, Submit(j) PROVE Goal
  BY <1>1, <1>a DEF Submit, Row
<1>2. ASSUME NEW c \in Callers, NEW j \in Jobs, CancelJob(c, j) PROVE Goal
  BY <1>2, <1>a, UnlockedRow DEF CancelJob, Statuses
<1>3. ASSUME NEW e \in Engines, Heartbeat(e) PROVE Goal
  BY <1>3, <1>a, ReclaimedRow, ConstAssumption DEF Heartbeat
<1>4. ASSUME NEW s \in Slots, Claim(s) PROVE Goal
  <2>1. PICK j \in Claimable : jobs' = [jobs EXCEPT ![j] = Claimed(@, s[1])]
    BY <1>4 DEF Claim
  <2>2. s[1] \in Engines
    BY DEF Slots
  <2> QED BY <1>a, <2>1, <2>2, ClaimedRow
<1>5. ASSUME NEW s \in Slots, RenewLease(s) PROVE Goal
  <2>1. s[1] \in Engines
    BY DEF Slots
  <2> QED BY <1>5, <1>a, <2>1, RenewedRow DEF RenewLease
<1>6. ASSUME NEW s \in Slots, UpdateProgress(s) PROVE Goal
  BY <1>6, <1>a DEF UpdateProgress, Row
<1>7. ASSUME NEW s \in Slots, FinishFailed(s) PROVE Goal
  <2>1. slot[s].count + 1 \in 1..(RetryCap + 1)
    BY ConstAssumption DEF TypeInv, SlotRec
  <2>2. PICK d \in CalculateBackoff(slot[s].count + 1) :
          jobs' = [jobs EXCEPT ![slot[s].job] = MarkFailed(@, d)]
    BY <1>7 DEF FinishFailed
  <2>3. d \in Nat
    BY <2>1, <2>2, BackoffType
  <2>4. slot[s].pc = "failed" /\ UNCHANGED <<attempts, unrecorded>>
    BY <1>7 DEF FinishFailed
  <2>5. CASE k = slot[s].job
    <3>1. jobs[k] \in Row /\ jobs'[k] = MarkFailed(jobs[k], d)
      BY <1>a, <2>2, <2>5
    <3>2. jobs'[k].retryCount = Bump(jobs[k].retryCount)
      BY <2>3, <3>1, MarkedRow
    <3> QED BY <2>4, <2>5, <3>2
  <2>6. CASE k # slot[s].job
    BY <1>a, <2>2, <2>6
  <2> QED BY <2>5, <2>6
<1>8. ASSUME NEW s \in Slots, FinishSucceeded(s) PROVE Goal
  <2>1. 0 \in Nat
    OBVIOUS
  <2> QED BY <1>8, <1>a, <2>1, MarkedRow DEF FinishSucceeded
<1>9. CASE ReconcileReclaim
  BY <1>9, <1>a, ReclaimedRow DEF ReconcileReclaim
<1>10. CASE Tick
  BY <1>10, <1>a, AgedRow DEF Tick
<1> QED
  BY <1>1, <1>2, <1>3, <1>4, <1>5, <1>6, <1>7, <1>8, <1>9, <1>10, <1>b
  DEF Next, CallerStep, EngineStep, SlotStep, vars, RetryJobRead, RetryJobCreate, Start,
      Close, Closed, Crash, ReconcileList, RenewLost, MarkLost, HandlerReturns

\* The attempt numbers accounted for: recorded, or lost with a dropped error.
Made(j) == attempts[j] \cup unrecorded[j]

\* A goroutine that is about to mark its row has made its attempt known, or
\* dropped the error of the insert.
AttemptsMade ==
  \A s \in Slots : slot[s].pc = "failed" => Bump(slot[s].count) \in Made(slot[s].job)

\* RecordAttempt comes before the mark and no attempt is ever deleted.
LEMMA StepAttempts ==
  ASSUME TypeInv, AttemptsMade, [Next]_vars
  PROVE  AttemptsMade' /\ \A j \in Jobs : Made(j) \subseteq Made(j)'
<1> DEFINE Grow == \A j \in Jobs : Made(j) \subseteq Made(j)'
<1>a. /\ slot \in [Slots -> SlotRec] /\ attempts \in [Jobs -> SUBSET (1..RetryCap)]
      /\ unrecorded \in [Jobs -> SUBSET (1..RetryCap)]
      /\ \A s \in Slots : slot[s].pc # "idle" => slot[s].job \in Jobs
  BY DEF TypeInv, BusyOnJob
<1>1. ASSUME NEW s \in Slots, NEW outcome \in {"failed", "succeeded"}, HandlerReturns(s, outcome)
      PROVE  AttemptsMade' /\ Grow
  <2> DEFINE j == slot[s].job
             b == Bump(slot[s].count)
  <2>1. /\ j \in Jobs
        /\ \/ attempts' = [attempts EXCEPT ![j] = @ \cup {b}] /\ unrecorded' = unrecorded
           \/ unrecorded' = [unrecorded EXCEPT ![j] = @ \cup {b}] /\ attempts' = attempts
    BY <1>1, <1>a DEF HandlerReturns
  <2> HIDE DEF b
  <2>2. Grow /\ b \in (attempts'[j] \cup unrecorded'[j])
    <3>1. CASE attempts' = [attempts EXCEPT ![j] = @ \cup {b}] /\ unrecorded' = unrecorded
      <4>1. attempts'[j] = attempts[j] \cup {b} /\ \A i \in Jobs : i # j => attempts'[i] = attempts[i]
        BY <1>a, <2>1, <3>1
      <4> QED BY <2>1, <3>1, <4>1 DEF Made
    <3>2. CASE unrecorded' = [unrecorded EXCEPT ![j] = @ \cup {b}] /\ attempts' = attempts
      <4>1. unrecorded'[j] = unrecorded[j] \cup {b} /\ \A i \in Jobs : i # j => unrecorded'[i] = unrecorded[i]
        BY <1>a, <2>1, <3>2
      <4> QED BY <2>1, <3>2, <4>1 DEF Made
    <3> QED BY <2>1, <3>1, <3>2
  <2>3. /\ slot'[s].job = j /\ slot'[s].count = slot[s].count
        /\ \A t \in Slots : t # s => slot'[t] = slot[t]
    BY <1>1, <1>a DEF HandlerReturns, SlotRec
  <2>4. ASSUME NEW t \in Slots, slot'[t].pc = "failed"
        PROVE  Bump(slot'[t].count) \in (attempts'[slot'[t].job] \cup unrecorded'[slot'[t].job])
    <3>1. CASE t = s
      BY <2>2, <2>3, <3>1 DEF Made, b
    <3>2. CASE t # s
      <4>1. slot'[t] = slot[t] /\ slot[t].pc = "failed" /\ slot[t].job \in Jobs
        BY <1>a, <2>3, <2>4, <3>2
      <4>2. Bump(slot[t].count) \in Made(slot[t].job)
        BY <4>1 DEF AttemptsMade
      <4>3. Made(slot[t].job) \subseteq attempts'[slot[t].job] \cup unrecorded'[slot[t].job]
        BY <2>2, <4>1 DEF Made
      <4> QED BY <4>1, <4>2, <4>3
    <3> QED BY <3>1, <3>2
  <2>5. AttemptsMade'
    BY <2>4 DEF AttemptsMade, Bump, Made
  <2> QED BY <2>2, <2>5
\* No other step leaves a goroutine with a result it did not have before.
<1>2. ASSUME attempts' = attempts, unrecorded' = unrecorded,
             \A t \in Slots : slot'[t].pc = "failed" =>
               /\ slot[t].pc = "failed"
               /\ slot'[t].count = slot[t].count /\ slot'[t].job = slot[t].job
      PROVE  AttemptsMade' /\ Grow
  BY <1>2 DEF AttemptsMade, Bump, Made
<1>3. CASE UNCHANGED slot /\ UNCHANGED <<attempts, unrecorded>>
  BY <1>2, <1>3
<1>4. ASSUME NEW e \in Engines, Crash(e) PROVE AttemptsMade' /\ Grow
  <2>1. \A t \in Slots : slot'[t] = slot[t] \/ slot'[t].pc = "idle"
    BY <1>4 DEF Crash, IdleSlot
  <2> QED BY <1>2, <1>4, <2>1 DEF Crash
<1>5. ASSUME NEW s \in Slots, Claim(s) PROVE AttemptsMade' /\ Grow
  <2>1. \A t \in Slots : slot'[t] = slot[t] \/ slot'[t].pc = "run"
    BY <1>5, <1>a DEF Claim
  <2> QED BY <1>2, <1>5, <2>1 DEF Claim
<1>6. ASSUME NEW s \in Slots, slot' = [slot EXCEPT ![s].renewLeft = RenewEvery],
             attempts' = attempts, unrecorded' = unrecorded
      PROVE  AttemptsMade' /\ Grow
  <2>1. \A t \in Slots : slot'[t].pc = slot[t].pc /\ slot'[t].count = slot[t].count
                         /\ slot'[t].job = slot[t].job
    BY <1>6, <1>a DEF SlotRec
  <2> QED BY <1>2, <1>6, <2>1
<1>7. ASSUME NEW s \in Slots, slot' = [slot EXCEPT ![s] = IdleSlot],
             attempts' = attempts, unrecorded' = unrecorded
      PROVE  AttemptsMade' /\ Grow
  <2>1. \A t \in Slots : slot'[t] = slot[t] \/ slot'[t].pc = "idle"
    BY <1>7, <1>a DEF IdleSlot
  <2> QED BY <1>2, <1>7, <2>1
<1>8. CASE Tick
  <2>1. \A t \in Slots : slot'[t].pc = slot[t].pc /\ slot'[t].count = slot[t].count
                         /\ slot'[t].job = slot[t].job
    BY <1>8, <1>a DEF Tick, SlotRec
  <2> QED BY <1>2, <1>8, <2>1 DEF Tick
<1> QED
  BY <1>1, <1>3, <1>4, <1>5, <1>6, <1>7, <1>8
  DEF Next, CallerStep, EngineStep, SlotStep, vars, Submit, CancelJob, RetryJobRead,
      RetryJobCreate, Start, Close, Closed, Heartbeat, ReconcileList, ReconcileReclaim,
      RenewLease, RenewLost, UpdateProgress, FinishFailed, FinishSucceeded, MarkLost

\* The failure executeJob counts is the one it recorded: while the lease holds,
\* the row's count is still the one the goroutine claimed it with.
LEMMA StepFailures ==
  ASSUME Prompt, Heeding, Postgres, TypeInv, LeaseInv, AttemptsMade, FailuresAreRecorded, [Next]_vars
  PROVE  FailuresAreRecorded'
<1> SUFFICES ASSUME NEW k \in Jobs, NEW n \in 1..jobs'[k].retryCount PROVE n \in Made(k)'
  BY DEF FailuresAreRecorded, Made
<1>1. jobs[k].retryCount \in Nat /\ Made(k) \subseteq Made(k)'
  BY StepAttempts, ConstAssumption DEF TypeInv, Row
<1>2. CASE jobs'[k].retryCount = jobs[k].retryCount
  BY <1>1, <1>2 DEF FailuresAreRecorded, Made
<1>3. CASE /\ jobs'[k].retryCount = Bump(jobs[k].retryCount)
           /\ \E s \in Slots : slot[s].pc = "failed" /\ slot[s].job = k
  <2>1. PICK s \in Slots : slot[s].pc = "failed" /\ slot[s].job = k
    BY <1>3
  <2>2. jobs[k].retryCount = slot[s].count
    BY <2>1 DEF LeaseInv, LeaseHeld, Busy
  <2>3. Bump(jobs[k].retryCount) \in Made(k)
    BY <2>1, <2>2 DEF AttemptsMade
  <2>4. n \in 1..jobs[k].retryCount \/ n = Bump(jobs[k].retryCount)
    BY <1>1, <1>3 DEF Bump
  <2>5. n \in 1..jobs[k].retryCount => n \in Made(k)
    BY DEF FailuresAreRecorded, Made
  <2> QED BY <1>1, <2>3, <2>4, <2>5
<1> QED BY <1>2, <1>3, StepCounts

\* With the SQL repository, renewals on time and handlers that heed Close,
\* retry_count and job_attempts agree: every failure MarkFailed counted has the
\* row RecordAttempt wrote under that number, or was made with an insert whose
\* error was dropped.
THEOREM FailuresCorrect ==
  ASSUME Prompt, Heeding, Postgres
  PROVE  Spec => []FailuresAreRecorded
<1>1. Init => AttemptsMade /\ FailuresAreRecorded
  BY DEF Init, AttemptsMade, FailuresAreRecorded, NewRow, IdleSlot
<1>2. TypeInv /\ AttemptsMade /\ [Next]_vars => AttemptsMade'
  BY StepAttempts
<1>3. TypeInv /\ LeaseInv /\ AttemptsMade /\ FailuresAreRecorded /\ [Next]_vars
        => FailuresAreRecorded'
  BY StepFailures
<1> QED BY <1>1, <1>2, <1>3, LeasesInvariant, PTL DEF Spec

------------------------------------------------------------------------------
\* Of all steps only MarkFailed makes a row wait for a retry.
LEMMA StepBudget ==
  ASSUME ~Postgres
  PROVE  TypeInv /\ RetryBudget /\ [Next]_vars => RetryBudget'
<1> SUFFICES ASSUME TypeInv, RetryBudget, [Next]_vars, NEW k \in Jobs,
                    jobs'[k].status = "retrying"
             PROVE  jobs'[k].retryCount <= MaxRetries
  BY DEF RetryBudget
<1> DEFINE Goal == jobs'[k].retryCount <= MaxRetries
<1>a. jobs \in [Jobs -> Row]
  BY DEF TypeInv
<1>b. ASSUME jobs'[k].status = jobs[k].status, jobs'[k].retryCount = jobs[k].retryCount PROVE Goal
  BY <1>b DEF RetryBudget
<1>1. ASSUME NEW j \in Jobs, Submit(j) PROVE Goal
  BY <1>1, <1>a, <1>b DEF Submit, Row
<1>2. ASSUME NEW c \in Callers, NEW j \in Jobs, CancelJob(c, j) PROVE Goal
  BY <1>2, <1>a, <1>b, UnlockedRow DEF CancelJob, Statuses
<1>3. ASSUME NEW c \in Callers, RetryJobCreate(c) PROVE Goal
  <2> DEFINE n == [NewRow EXCEPT !.status = "pending", !.retryCount = call[c].count]
  <2>1. n.status = "pending"
    BY DEF NewRow
  <2>2. jobs' = [jobs EXCEPT ![call[c].job] = n]
    BY <1>3 DEF RetryJobCreate
  <2> HIDE DEF n
  <2> QED BY <1>a, <1>b, <2>1, <2>2
<1>4. ASSUME NEW e \in Engines, Heartbeat(e) PROVE Goal
  <2>1. Lease \in Int /\ jobs[k] \in Row
    BY <1>a, ConstAssumption
  <2>2. jobs'[k] = Reclaimed(jobs[k], Lease)
    BY <1>4 DEF Heartbeat
  <2> QED BY <1>a, <1>b, <2>1, <2>2, ReclaimedRow
<1>5. ASSUME NEW s \in Slots, Claim(s) PROVE Goal
  <2>1. PICK j \in Claimable : jobs' = [jobs EXCEPT ![j] = Claimed(@, s[1])]
    BY <1>5 DEF Claim
  <2>2. s[1] \in Engines
    BY DEF Slots
  <2> QED BY <1>a, <1>b, <2>1, <2>2, ClaimedRow
<1>6. ASSUME NEW s \in Slots, RenewLease(s) PROVE Goal
  <2>1. s[1] \in Engines
    BY DEF Slots
  <2> QED BY <1>6, <1>a, <1>b, <2>1, RenewedRow DEF RenewLease
<1>7. ASSUME NEW s \in Slots, UpdateProgress(s) PROVE Goal
  BY <1>7, <1>a, <1>b DEF UpdateProgress, Row
<1>8. ASSUME NEW s \in Slots, FinishFailed(s) PROVE Goal
  <2>1. slot[s].count + 1 \in 1..(RetryCap + 1)
    BY ConstAssumption DEF TypeInv, SlotRec
  <2>2. PICK d \in CalculateBackoff(slot[s].count + 1) :
          jobs' = [jobs EXCEPT ![slot[s].job] = MarkFailed(@, d)]
    BY <1>8 DEF FinishFailed
  <2>3. d \in Nat
    BY <2>1, <2>2, BackoffType
  <2> QED BY <1>a, <1>b, <2>2, <2>3, MarkedRow
<1>9. ASSUME NEW s \in Slots, FinishSucceeded(s) PROVE Goal
  <2>1. 0 \in Nat
    OBVIOUS
  <2> QED BY <1>9, <1>a, <1>b, <2>1, MarkedRow DEF FinishSucceeded
<1>10. CASE ReconcileReclaim
  BY <1>10, <1>a, <1>b, ReclaimedRow DEF ReconcileReclaim
<1>11. CASE Tick
  BY <1>11, <1>a, <1>b, AgedRow DEF Tick
<1>12. CASE UNCHANGED jobs
  BY <1>b, <1>12
<1> QED
  BY <1>1, <1>2, <1>3, <1>4, <1>5, <1>6, <1>7, <1>8, <1>9, <1>10, <1>11, <1>12
  DEF Next, CallerStep, EngineStep, SlotStep, vars, RetryJobRead, Start, Close,
      Closed, Crash, ReconcileList, RenewLost, MarkLost, HandlerReturns

\* On the in-memory repository no job waits for a retry beyond max_retries,
\* through lapsed leases, two goroutines failing the same job and RetryJob
\* putting an old count back.
THEOREM BudgetCorrect ==
  ASSUME ~Postgres
  PROVE  Spec => []RetryBudget
<1>1. Init => RetryBudget
  BY DEF Init, RetryBudget, NewRow
<1>2. TypeInv /\ RetryBudget /\ [Next]_vars => RetryBudget'
  BY StepBudget
<1> QED BY <1>1, <1>2, InitTypes, StepTypes, PTL DEF Spec

------------------------------------------------------------------------------
\* The abstract queue, seen through the refinement mapping.
AbsState == [j \in Jobs |-> QueueState(j)]
AbsHolders == [j \in Jobs |-> HoldersOf(j)]

\* A job some goroutine executes has that goroutine as its only holder.
LEMMA SoleHolder ==
  ASSUME TypeInv, LeaseInv, NEW s \in Slots, Busy(s)
  PROVE  /\ slot[s].job \in Jobs
         /\ HoldersOf(slot[s].job) = {s}
         /\ jobs[slot[s].job].status \in {"running", "canceled"}
<1>1. slot[s].job \in Jobs
  BY DEF TypeInv, BusyOnJob, Busy
<1>2. jobs[slot[s].job].status \in {"running", "canceled"}
  BY DEF LeaseInv, LeaseHeld
<1>3. HoldersOf(slot[s].job) = {s}
  BY DEF HoldersOf, LeaseInv, ExclusiveExecution
<1> QED BY <1>1, <1>2, <1>3

\* A step that neither changes which goroutine executes what nor moves a row
\* between absent, open and terminal is a stutter of the queue.
LEMMA QueueStutters ==
  ASSUME \A s \in Slots : (Busy(s)' <=> Busy(s)) /\ slot'[s].job = slot[s].job,
         \A j \in Jobs : \/ jobs'[j].status = jobs[j].status
                         \/ /\ jobs[j].status \notin Terminal \cup {"absent"}
                            /\ jobs'[j].status \notin Terminal \cup {"absent"}
  PROVE  UNCHANGED <<AbsState, AbsHolders>>
<1>1. \A j \in Jobs : HoldersOf(j)' = HoldersOf(j)
  BY DEF HoldersOf
<1>2. \A j \in Jobs : QueueState(j)' = QueueState(j)
  BY <1>1 DEF QueueState
<1> QED BY <1>1, <1>2 DEF AbsState, AbsHolders

\* Every step of the engine is a step of the queue, or a stutter.
LEMMA StepQueue ==
  ASSUME Prompt, Heeding, Postgres, TypeInv, LeaseInv, [Next]_vars
  PROVE  [Queue!QNext]_(Queue!qvars)
<1> DEFINE Stutter == UNCHANGED <<AbsState, AbsHolders>>
           Keeps == \A s \in Slots : (Busy(s)' <=> Busy(s)) /\ slot'[s].job = slot[s].job
<1>a. /\ jobs \in [Jobs -> Row] /\ slot \in [Slots -> SlotRec]
      /\ \A s \in Slots : s[1] \in Engines
  BY DEF TypeInv, Slots
<1>b. UNCHANGED slot => Keeps /\ \A j \in Jobs : HoldersOf(j)' = HoldersOf(j)
  BY DEF HoldersOf, Busy
<1>c. Stutter => UNCHANGED Queue!qvars
  BY DEF Queue!qvars, AbsState, AbsHolders
<1>1. ASSUME NEW j \in Jobs, Submit(j) PROVE Queue!Enqueue(j)
  <2>1. \A k \in Jobs : HoldersOf(k)' = HoldersOf(k)
    BY <1>1, <1>b DEF Submit
  <2>2. jobs[j].status = "absent" /\ jobs'[j].status = "pending"
    BY <1>1, <1>a DEF Submit, Row
  <2>3. \A k \in Jobs : k # j => jobs'[k] = jobs[k]
    BY <1>1, <1>a DEF Submit
  <2>4. QueueState(j) = "absent" /\ QueueState(j)' = "open"
    BY <2>2 DEF QueueState, Terminal
  <2>5. \A k \in Jobs : k # j => QueueState(k)' = QueueState(k)
    BY <2>1, <2>3 DEF QueueState
  <2> QED BY <2>1, <2>4, <2>5 DEF Queue!Enqueue
<1>2. ASSUME NEW c \in Callers, NEW j \in Jobs, CancelJob(c, j) PROVE Queue!Cancel(j)
  <2>1. \A k \in Jobs : HoldersOf(k)' = HoldersOf(k)
    BY <1>2, <1>b DEF CancelJob
  <2>2. jobs[j].status \notin Terminal \cup {"absent"} /\ jobs'[j].status = "canceled"
    BY <1>2, <1>a, UnlockedRow DEF CancelJob, Statuses
  <2>3. \A k \in Jobs : k # j => jobs'[k] = jobs[k]
    BY <1>2, <1>a DEF CancelJob
  <2>4. /\ QueueState(j) = "open"
        /\ QueueState(j)' = IF HoldersOf(j) = {} THEN "done" ELSE "canceling"
    BY <2>1, <2>2 DEF QueueState, Terminal
  <2>5. \A k \in Jobs : k # j => QueueState(k)' = QueueState(k)
    BY <2>1, <2>3 DEF QueueState
  <2> QED BY <2>1, <2>4, <2>5 DEF Queue!Cancel
<1>3. ASSUME NEW s \in Slots, Claim(s) PROVE \E j \in Jobs : Queue!Take(j, s)
  <2> DEFINE x(j) == [pc |-> "run", job |-> j, count |-> jobs[j].retryCount,
                      renewLeft |-> RenewEvery]
  <2>1. PICK j \in Claimable :
          /\ jobs' = [jobs EXCEPT ![j] = Claimed(@, s[1])]
          /\ slot' = [slot EXCEPT ![s] = x(j)]
    BY <1>3 DEF Claim
  <2>2. j \in Jobs /\ Eligible(jobs[j]) /\ ~Busy(s)
    BY <1>3, ConstAssumption DEF Claimable, Claim, Busy
  <2>3. \A t \in Slots : Busy(t) => slot[t].job # j
    BY <2>2, HeldRowsStay DEF LeaseInv
  <2>4. slot'[s].job = j /\ slot'[s].pc = "run" /\ \A t \in Slots : t # s => slot'[t] = slot[t]
    BY <1>a, <2>1
  <2>5. /\ HoldersOf(j) = {} /\ HoldersOf(j)' = {s}
        /\ \A k \in Jobs : s \notin HoldersOf(k)
        /\ \A k \in Jobs : k # j => HoldersOf(k)' = HoldersOf(k)
    BY <2>2, <2>3, <2>4 DEF HoldersOf, Busy
  <2>6. jobs'[j].status = "running" /\ \A k \in Jobs : k # j => jobs'[k] = jobs[k]
    BY <1>a, <2>1, <2>2, ClaimedRow
  <2>7. QueueState(j) = "open" /\ QueueState(j)' = "open"
    BY <2>2, <2>6 DEF QueueState, Terminal, Eligible
  <2>8. \A k \in Jobs : k # j => QueueState(k)' = QueueState(k)
    BY <2>5, <2>6 DEF QueueState
  <2>9. Queue!Take(j, s)
    BY <2>2, <2>5, <2>7, <2>8 DEF Queue!Take
  <2> QED BY <2>2, <2>9
\* The end of executeJob frees the job of one goroutine and no other.
<1>4. ASSUME NEW s \in Slots, NEW j \in Jobs, NEW r, Busy(s), slot[s].job = j,
             jobs' = [jobs EXCEPT ![j] = r], slot' = [slot EXCEPT ![s] = IdleSlot]
      PROVE  /\ HoldersOf(j) = {s} /\ HoldersOf(j)' = {}
             /\ QueueState(j) \in {"open", "canceling"}
             /\ jobs'[j] = r
             /\ \A k \in Jobs : k # j => HoldersOf(k)' = HoldersOf(k) /\ s \notin HoldersOf(k)
             /\ \A k \in Jobs : k # j => QueueState(k)' = QueueState(k)
  <2>1. HoldersOf(j) = {s} /\ jobs[j].status \in {"running", "canceled"}
    BY <1>4, SoleHolder
  <2>2. ~Busy(s)' /\ \A t \in Slots : t # s => slot'[t] = slot[t]
    BY <1>4, <1>a DEF Busy, IdleSlot
  <2>3. HoldersOf(j)' = {}
    BY <2>1, <2>2 DEF HoldersOf, Busy
  <2>4. \A k \in Jobs : k # j => HoldersOf(k)' = HoldersOf(k) /\ s \notin HoldersOf(k)
    BY <1>4, <2>2 DEF HoldersOf, Busy
  <2>5. QueueState(j) \in {"open", "canceling"}
    BY <2>1 DEF QueueState, Terminal
  <2>6. jobs'[j] = r /\ \A k \in Jobs : k # j => jobs'[k] = jobs[k]
    BY <1>4, <1>a
  <2>7. \A k \in Jobs : k # j => QueueState(k)' = QueueState(k)
    BY <2>4, <2>6 DEF QueueState
  <2> QED BY <2>1, <2>3, <2>4, <2>5, <2>6, <2>7
<1>5. ASSUME NEW s \in Slots, FinishSucceeded(s)
      PROVE  \E j \in Jobs : Queue!Finish(j, s)
  <2>1. PICK j \in Jobs : j = slot[s].job
    BY <1>5, SoleHolder DEF FinishSucceeded, Busy
  <2>2. /\ Busy(s) /\ jobs' = [jobs EXCEPT ![j] = MarkSucceeded(jobs[j])]
        /\ slot' = [slot EXCEPT ![s] = IdleSlot]
    BY <1>5, <2>1 DEF FinishSucceeded, Busy
  <2>3. /\ HoldersOf(j) = {s} /\ HoldersOf(j)' = {} /\ jobs'[j] = MarkSucceeded(jobs[j])
        /\ QueueState(j) \in {"open", "canceling"}
        /\ \A k \in Jobs : k # j => HoldersOf(k)' = HoldersOf(k)
        /\ \A k \in Jobs : k # j => QueueState(k)' = QueueState(k)
    BY <1>4, <2>1, <2>2
  <2>4. jobs'[j].status = "succeeded"
    <3>1. 0 \in Nat /\ jobs[j] \in Row
      BY <1>a
    <3> QED BY <2>3, <3>1, MarkedRow
  <2>5. QueueState(j)' = "done"
    BY <2>3, <2>4 DEF QueueState, Terminal
  <2>6. Queue!Finish(j, s)
    BY <2>3, <2>5 DEF Queue!Finish
  <2> QED BY <2>6
<1>6. ASSUME NEW s \in Slots, FinishFailed(s) PROVE Queue!Release({s})
  <2>1. PICK j \in Jobs : j = slot[s].job
    BY <1>6, SoleHolder DEF FinishFailed, Busy
  <2>2. slot[s].count + 1 \in 1..(RetryCap + 1)
    BY ConstAssumption DEF TypeInv, SlotRec
  <2>3. PICK d \in CalculateBackoff(slot[s].count + 1) :
          jobs' = [jobs EXCEPT ![j] = MarkFailed(jobs[j], d)]
    BY <1>6, <2>1 DEF FinishFailed
  <2>4. d \in Nat
    BY <2>2, <2>3, BackoffType
  <2>5. Busy(s) /\ slot' = [slot EXCEPT ![s] = IdleSlot]
    BY <1>6 DEF FinishFailed, Busy
  <2>6. /\ HoldersOf(j) = {s} /\ HoldersOf(j)' = {} /\ jobs'[j] = MarkFailed(jobs[j], d)
        /\ QueueState(j) \in {"open", "canceling"}
        /\ \A k \in Jobs : k # j => HoldersOf(k)' = HoldersOf(k) /\ s \notin HoldersOf(k)
        /\ \A k \in Jobs : k # j => QueueState(k)' = QueueState(k)
    BY <1>4, <2>1, <2>3, <2>5
  <2>7. jobs'[j].status = "retrying"
    <3>1. jobs[j] \in Row
      BY <1>a
    <3> QED BY <2>4, <2>6, <3>1, MarkedRow
  <2>8. QueueState(j)' = "open"
    BY <2>7 DEF QueueState, Terminal
  <2>9. \A k \in Jobs : QueueState(k) = "canceling" => HoldersOf(k) # {}
    BY DEF QueueState
  <2>10. \A k \in Jobs : HoldersOf(k)' = HoldersOf(k) \ {s}
    BY <2>6
  <2>11. \A k \in Jobs : QueueState(k)' =
           IF QueueState(k) = "canceling" /\ HoldersOf(k) \subseteq {s}
           THEN IF k \in {j} THEN "open" ELSE "done" ELSE QueueState(k)
    BY <2>6, <2>8, <2>9
  <2> QED BY <2>10, <2>11 DEF Queue!Release
<1>19. ASSUME NEW s \in Slots, MarkLost(s) PROVE Queue!Release({s})
  <2>1. \A t \in Slots : IF t \in {s} THEN ~Busy(t)' ELSE slot'[t] = slot[t]
    BY <1>19, <1>a DEF MarkLost, Busy, IdleSlot
  <2>2. \A k \in Jobs : HoldersOf(k)' = HoldersOf(k) \ {s}
    BY <2>1 DEF HoldersOf, Busy
  <2>3. jobs' = jobs
    BY <1>19 DEF MarkLost
  <2>4. \A k \in Jobs : QueueState(k)' =
          IF QueueState(k) = "canceling" /\ HoldersOf(k) \subseteq {s}
          THEN IF k \in {} THEN "open" ELSE "done" ELSE QueueState(k)
    BY <2>2, <2>3 DEF QueueState
  <2> QED BY <2>2, <2>4 DEF Queue!Release
<1>7. ASSUME NEW e \in Engines, Crash(e)
      PROVE  \E X \in SUBSET Slots : Queue!Release(X)
  <2> DEFINE X == {s \in Slots : s[1] = e}
  <2>1. \A s \in Slots : IF s \in X THEN ~Busy(s)' ELSE slot'[s] = slot[s]
    BY <1>7 DEF Crash, Busy, IdleSlot
  <2>2. \A k \in Jobs : HoldersOf(k)' = HoldersOf(k) \ X
    BY <2>1 DEF HoldersOf, Busy
  <2>3. jobs' = jobs
    BY <1>7 DEF Crash
  <2> HIDE DEF X
  <2>4. \A k \in Jobs : QueueState(k)' =
          IF QueueState(k) = "canceling" /\ HoldersOf(k) \subseteq X
          THEN IF k \in {} THEN "open" ELSE "done" ELSE QueueState(k)
    BY <2>2, <2>3 DEF QueueState
  <2>5. Queue!Release(X)
    BY <2>2, <2>4 DEF Queue!Release
  <2> QED BY <2>5 DEF X
<1>8. ASSUME NEW e \in Engines, Heartbeat(e) PROVE Stutter
  <2>1. Lease \in Int
    BY ConstAssumption
  <2>2. \A j \in Jobs : jobs[j] \in Row /\ jobs'[j] = Reclaimed(jobs[j], Lease)
    BY <1>8, <1>a DEF Heartbeat
  <2>3. \A j \in Jobs : jobs'[j] = jobs[j]
                        \/ (jobs[j].status = "running" /\ jobs'[j].status = "pending")
    BY <2>1, <2>2, ReclaimedRow
  <2> QED BY <1>8, <1>b, <2>3, QueueStutters DEF Heartbeat, Terminal
<1>9. CASE ReconcileReclaim
  <2>1. \A j \in Jobs : jobs[j] \in Row /\ jobs'[j] = Reclaimed(jobs[j], 0)
    BY <1>9, <1>a DEF ReconcileReclaim
  <2>2. \A j \in Jobs : jobs'[j] = jobs[j]
                        \/ (jobs[j].status = "running" /\ jobs'[j].status = "pending")
    BY <2>1, ReclaimedRow
  <2>3. Stutter
    BY <1>9, <1>b, <2>2, QueueStutters DEF ReconcileReclaim, Terminal
  <2> QED BY <1>c, <2>3
<1>10. ASSUME NEW s \in Slots, RenewLease(s) PROVE Stutter
  <2>1. Keeps
    BY <1>10, <1>a DEF RenewLease, SlotRec, Busy
  <2>2. \A j \in Jobs : jobs'[j].status = jobs[j].status
    BY <1>10, <1>a, RenewedRow DEF RenewLease
  <2> QED BY <2>1, <2>2, QueueStutters
<1>11. ASSUME NEW s \in Slots, RenewLost(s) \/ \E o \in {"failed", "succeeded"} : HandlerReturns(s, o)
       PROVE  Stutter
  <2>1. Keeps
    BY <1>11, <1>a DEF RenewLost, HandlerReturns, SlotRec, Busy
  <2>2. jobs' = jobs
    BY <1>11 DEF RenewLost, HandlerReturns
  <2> QED BY <2>1, <2>2, QueueStutters
<1>12. ASSUME NEW s \in Slots, UpdateProgress(s) PROVE Stutter
  <2>1. \A j \in Jobs : jobs'[j].status = jobs[j].status
    BY <1>12, <1>a DEF UpdateProgress, Row
  <2> QED BY <1>12, <1>b, <2>1, QueueStutters DEF UpdateProgress
<1>13. CASE Tick
  <2>1. Keeps
    BY <1>13, <1>a DEF Tick, SlotRec, Busy
  <2>2. \A j \in Jobs : jobs'[j].status = jobs[j].status
    BY <1>13, <1>a, AgedRow DEF Tick
  <2> QED BY <1>c, <2>1, <2>2, QueueStutters
<1>14. CASE UNCHANGED <<jobs, slot>>
  <2>1. Stutter
    BY <1>14, <1>b, QueueStutters
  <2> QED BY <1>c, <2>1
<1>15. CASE \E j \in Jobs : Submit(j)
  BY <1>1, <1>15 DEF Queue!QNext
<1>16. ASSUME NEW c \in Callers, CallerStep(c) PROVE [Queue!QNext]_(Queue!qvars)
  <2>1. CASE \E j \in Jobs : CancelJob(c, j)
    BY <1>2, <2>1 DEF Queue!QNext
  <2>2. CASE UNCHANGED <<jobs, slot>>
    BY <1>14, <2>2
  <2> QED BY <1>16, <2>1, <2>2 DEF CallerStep, RetryJobRead, RetryJobCreate
<1>17. ASSUME NEW e \in Engines, EngineStep(e) PROVE [Queue!QNext]_(Queue!qvars)
  <2>1. CASE Crash(e)
    BY <1>7, <2>1 DEF Queue!QNext
  <2>2. CASE Heartbeat(e)
    BY <1>8, <1>c, <2>2
  <2>3. CASE UNCHANGED <<jobs, slot>>
    BY <1>14, <2>3
  <2> QED BY <1>17, <2>1, <2>2, <2>3 DEF EngineStep, Start, Close, Closed
<1>18. ASSUME NEW s \in Slots, SlotStep(s) PROVE [Queue!QNext]_(Queue!qvars)
  <2>1. CASE Claim(s)
    BY <1>3, <2>1 DEF Queue!QNext
  <2>2. CASE FinishSucceeded(s)
    BY <1>5, <2>2 DEF Queue!QNext
  <2>3. CASE FinishFailed(s)
    <3>1. {s} \in SUBSET Slots /\ Queue!Release({s})
      BY <1>6, <2>3
    <3> QED BY <3>1 DEF Queue!QNext
  <2>4. CASE Stutter
    BY <1>c, <2>4
  <2>5. CASE MarkLost(s)
    <3>1. {s} \in SUBSET Slots /\ Queue!Release({s})
      BY <1>19, <2>5
    <3> QED BY <3>1 DEF Queue!QNext
  <2> QED BY <1>10, <1>11, <1>12, <1>18, <2>1, <2>2, <2>3, <2>4, <2>5 DEF SlotStep
<1> QED BY <1>9, <1>13, <1>14, <1>15, <1>16, <1>17, <1>18 DEF Next, ReconcileList, vars

\* On the SQL repository, with renewals on time and heeding handlers, the engine
\* implements the abstract queue JobQueue: the initial table maps to an empty queue and every
\* step of engines, goroutines, callers, reconciliation and the clock to a step
\* of the queue or to none.
THEOREM QueueCorrect ==
  ASSUME Prompt, Heeding, Postgres
  PROVE  Spec => ImplementsQueue
<1>1. Init => Queue!QInit
  <2> SUFFICES ASSUME Init PROVE Queue!QInit
    OBVIOUS
  <2>1. \A j \in Jobs : HoldersOf(j) = {}
    BY DEF Init, HoldersOf, Busy, IdleSlot
  <2>2. \A j \in Jobs : QueueState(j) = "absent"
    BY DEF Init, QueueState, NewRow
  <2> QED BY <2>1, <2>2 DEF Queue!QInit
<1>2. TypeInv /\ LeaseInv /\ [Next]_vars => [Queue!QNext]_(Queue!qvars)
  BY StepQueue
<1> QED BY <1>1, <1>2, LeasesInvariant, PTL DEF Spec, ImplementsQueue, Queue!QSpec

==============================================================================
