------------------------------- MODULE JobQueue -------------------------------
(***************************************************************************)
(* What the job engine promises its clients, without leases, clocks,       *)
(* retries or repositories: a job is queued, then held by exactly one      *)
(* executor at a time, goes back to the queue when its executor fails or   *)
(* dies, and once done is never touched again.  A cancel ends a waiting    *)
(* job; the executor of a running one is not told, nobody else takes the   *)
(* job meanwhile, and it is that executor's end that settles what becomes  *)
(* of it: done, or queued again when the executor fails.                   *)
(***************************************************************************)
CONSTANTS Jobs, Executors

VARIABLES
  state,   \* "absent", "open", "canceling" (under its executor) or "done"
  holders  \* the executors running each job

qvars == <<state, holders>>

QInit ==
  /\ state = [j \in Jobs |-> "absent"]
  /\ holders = [j \in Jobs |-> {}]

Enqueue(j) ==
  /\ state[j] = "absent"
  /\ state' = [state EXCEPT ![j] = "open"]
  /\ UNCHANGED holders

Take(j, x) ==
  /\ state[j] = "open" /\ holders[j] = {}
  /\ \A k \in Jobs : x \notin holders[k]
  /\ holders' = [holders EXCEPT ![j] = {x}]
  /\ UNCHANGED state

Cancel(j) ==
  /\ state[j] = "open"
  /\ state' = [state EXCEPT ![j] = IF holders[j] = {} THEN "done" ELSE "canceling"]
  /\ UNCHANGED holders

\* Executors stop: by failing, or by the death of their process.  Of the jobs
\* canceled under them, some go back to the queue.
Release(X) ==
  /\ holders' = [j \in Jobs |-> holders[j] \ X]
  /\ \E back \in SUBSET Jobs :
       state' = [j \in Jobs |->
                   IF state[j] = "canceling" /\ holders[j] \subseteq X
                   THEN IF j \in back THEN "open" ELSE "done"
                   ELSE state[j]]

Finish(j, x) ==
  /\ state[j] \in {"open", "canceling"} /\ holders[j] = {x}
  /\ state' = [state EXCEPT ![j] = "done"]
  /\ holders' = [holders EXCEPT ![j] = {}]

QNext ==
  \/ \E j \in Jobs : Enqueue(j) \/ Cancel(j)
  \/ \E j \in Jobs, x \in Executors : Take(j, x) \/ Finish(j, x)
  \/ \E X \in SUBSET Executors : Release(X)

QSpec == QInit /\ [][QNext]_qvars

==============================================================================
