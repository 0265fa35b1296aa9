----------------------------- MODULE RateLimit -----------------------------
(***************************************************************************)
(* The token bucket behind RateLimitMiddleware for one client and one      *)
(* rule: the in-memory limiter and the statement of the PostgreSQL one     *)
(* (internal/infra/memory/ratelimit_repo.go,                               *)
(* internal/infra/postgres/ratelimit_repo.go).  Both decide in one step.   *)
(***************************************************************************)
EXTENDS Integers, Sequences, FiniteSets

CONSTANTS
  Limit, Window,   \* the rule
  MaxTime,         \* when the model stops
  MaxCalls,        \* calls in it
  BucketInMemory   \* which of the two limiters

VARIABLES
  now,
  bucket,   \* tokens and time of the last refill, "none" before the first call
  calls,    \* the calls so far
  passed    \* history: the times of the calls that were let through

rateVars == <<now, bucket, calls, passed>>

NoBucket == [known |-> FALSE, tokens |-> 0, refill |-> 0]

Init == now = 0 /\ bucket = NoBucket /\ calls = 0 /\ passed = <<>>

Tick == now < MaxTime /\ now' = now + 1 /\ UNCHANGED <<bucket, calls, passed>>

Due == now - bucket.refill >= Window

\* A fresh bucket is full; a full window since the last refill fills it again.
MemBucket ==
  IF ~bucket.known \/ Due THEN [known |-> TRUE, tokens |-> Limit, refill |-> now] ELSE bucket

\* Mutant: a refill does not restart the window.
MemAllowDrifts ==
  LET b == [MemBucket EXCEPT !.refill = IF bucket.known THEN bucket.refill ELSE now] IN
  /\ bucket' = [b EXCEPT !.tokens = IF @ > 0 THEN @ - 1 ELSE @]
  /\ passed' = IF b.tokens > 0 THEN Append(passed, now) ELSE passed

MemAllow ==
  LET b == MemBucket IN
  /\ bucket' = [b EXCEPT !.tokens = IF @ > 0 THEN @ - 1 ELSE @]
  /\ passed' = IF b.tokens > 0 THEN Append(passed, now) ELSE passed

\* The upsert: the insert and the refill take a token, an empty bucket stays at
\* zero.  The call is let through when the number returned is not negative.
SqlAllow ==
  LET b == IF ~bucket.known \/ Due
           THEN [known |-> TRUE, tokens |-> Limit - 1, refill |-> now]
           ELSE [bucket EXCEPT !.tokens = IF @ > 0 THEN @ - 1 ELSE 0]
  IN /\ bucket' = b
     /\ passed' = IF b.tokens >= 0 THEN Append(passed, now) ELSE passed

\* CheckLimit of one request of the middleware.
CheckLimit ==
  /\ calls < MaxCalls /\ calls' = calls + 1
  /\ IF BucketInMemory THEN MemAllow ELSE SqlAllow
  /\ UNCHANGED now

\* The limiter fails, which lets the request through: the history does not
\* count it against the limiter.
LimiterFails ==
  /\ calls < MaxCalls /\ calls' = calls + 1
  /\ UNCHANGED <<now, bucket, passed>>

Next == Tick \/ CheckLimit \/ LimiterFails

Spec == Init /\ [][Next]_rateVars

-----------------------------------------------------------------------------
\* Of the calls of any Window time units at most 2 * Limit pass: a bucket that is
\* refilled at once admits two windows' worth around the refill and never more.
\* Holds in memory only: the PostgreSQL statement never returns a negative number.
WindowBound ==
  \A t \in 0 .. MaxTime :
    Cardinality({k \in DOMAIN passed : passed[k] \in t .. t + Window - 1}) <= 2 * Limit
=============================================================================
