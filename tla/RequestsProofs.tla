--------------------------- MODULE RequestsProofs ---------------------------
(***************************************************************************)
(* Proofs about what overlapping requests do to the tables of the control  *)
(* plane: addresses, keys, accounts, the audit trail, limits,              *)
(* notifications, lists, metrics, backups, volumes and enrollment.         *)
(*                                                                         *)
(* The components share no state. Each theorem is about one of them and    *)
(* holds for every value of its constants that the theorem's hypotheses    *)
(* allow; constants that two of them have under one name are declared      *)
(* once, and variables have the names that Requests gives them.            *)
(***************************************************************************)
EXTENDS Integers, Sequences, FiniteSets, Functions, FiniteSetTheorems, WellFoundedInduction, TLAPS

CONSTANTS
  HostBits, Gateway, Allocators, Firewalls, Configurers, MaxRows, MaxPower, TableInMemory,
  ApiKeys, KeyUser, RolesOf, PermsOf, Wanted, ScopeSets, KeyRequests, InMemory, Users, Servers,
  Calls, Secrets, MaxSessions, Recorders, Clock, Micro, Targets, SiemBuffer, Limit, LimitWindow,
  MaxTime, MaxCalls, BucketInMemory, Notices, OwnerOf, Readers, ListRows, PageSizes,
  DefaultSize, ListClock, Names, Capacity, Times, Values, MaxBatches, Thresholds,
  MetricsInMemory, BackupIds, Checkers, Deleters, Keys, MaxPlans, MaxFaults, RecordsInMemory,
  Vols, NameOf, Guests, Sizes, SnapNames, Clients, MaxStorageCalls, Hosts, Tokens, TokenOf,
  WriteFaults, MaxKeys, MaxBoots

VARIABLES
  ipPool, allocs, allocator, rules, nodeRules, firewall, inst, nodeIp, config, power, keyRow,
  reqs, touches, revoked, account, lock, sessions, logins, slack, uncounted, trail, rec, logChan, siem,
  dests, received, siemUp, now, bucket, limited, passed, pref, notices, handling, mails,
  confirmed, listName, listAsked, listSize, listed, reader, ring, table, thresholds, alerts, evals,
  handler, ingested, record, object, creator, checker, deleter, restores, faults, blamed, marked, key,
  lostSaves, pool, vols, snaps, nodeVols, nodeDisks, nodeSnaps, storageCall, storageCalls,
  clean, booked, authority, secret, nodeRows, request, disk, agent, lapsed,
  barred

Addresses == INSTANCE Network WITH pool <- ipPool
KeyUse == INSTANCE Access WITH Requests <- KeyRequests
Accounts == INSTANCE Identity WITH calls <- logins
Audit == INSTANCE AuditLog
Limiter == INSTANCE RateLimit WITH calls <- limited, Window <- LimitWindow
Notes == INSTANCE Notifications
Lists == INSTANCE Listing WITH MaxRows <- ListRows, Clock <- ListClock, name <- listName, asked <- listAsked, size <- listSize, rows <- listed
Metrics == INSTANCE Monitoring
Points == INSTANCE Backups
Storage == INSTANCE Volumes WITH call <- storageCall, calls <- storageCalls, MaxCalls <- MaxStorageCalls
Enroll == INSTANCE Enrollment

-----------------------------------------------------------------------------
(***************************************************************************)
(* Facts about sequences, cardinalities and natural numbers that several   *)
(* components need.                                                        *)
(***************************************************************************)
LEMMA LenIsNat ==
  ASSUME NEW S, NEW t \in Seq(S)
  PROVE  Len(t) \in Nat
OBVIOUS

LEMMA ReplacedInSeq ==
  ASSUME NEW S, NEW t \in Seq(S), NEW k \in DOMAIN t, NEW x \in S
  PROVE  /\ [t EXCEPT ![k] = x] \in Seq(S) /\ Len([t EXCEPT ![k] = x]) = Len(t)
         /\ DOMAIN [t EXCEPT ![k] = x] = DOMAIN t
         /\ \A n \in DOMAIN t : [t EXCEPT ![k] = x][n] = IF n = k THEN x ELSE t[n]
OBVIOUS

LEMMA CardSub ==
  ASSUME NEW S, IsFiniteSet(S), NEW T, T \subseteq S
  PROVE  IsFiniteSet(T) /\ Cardinality(T) \in Nat /\ Cardinality(S) \in Nat /\ Cardinality(T) <= Cardinality(S)
BY FS_Subset, FS_CardinalityType

LEMMA CardGrow ==
  ASSUME NEW S, IsFiniteSet(S), NEW x, NEW T, T \subseteq S \cup {x}
  PROVE  Cardinality(T) \in Nat /\ Cardinality(S) \in Nat /\ Cardinality(T) <= Cardinality(S) + 1
<1>1. IsFiniteSet(S \cup {x}) /\ Cardinality(S) \in Nat /\ Cardinality(S \cup {x}) \in Nat
  BY FS_AddElement, FS_CardinalityType
<1>2. Cardinality(S \cup {x}) <= Cardinality(S) + 1
  BY <1>1, FS_AddElement
<1>3. Cardinality(T) \in Nat /\ Cardinality(T) <= Cardinality(S \cup {x})
  BY <1>1, CardSub
<1> QED BY <1>1, <1>2, <1>3

LEMMA CardShrink ==
  ASSUME NEW S, IsFiniteSet(S), NEW x \in S, NEW T, T \subseteq S \ {x}
  PROVE  Cardinality(T) \in Nat /\ Cardinality(S) \in Nat /\ Cardinality(T) + 1 <= Cardinality(S)
<1>1. IsFiniteSet(S \ {x}) /\ Cardinality(S) \in Nat /\ Cardinality(S \ {x}) = Cardinality(S) - 1
  BY FS_RemoveElement, FS_CardinalityType
<1>2. Cardinality(T) \in Nat /\ Cardinality(T) <= Cardinality(S \ {x})
  BY <1>1, CardSub
<1> QED BY <1>1, <1>2

LEMMA CardUnion ==
  ASSUME NEW S, IsFiniteSet(S), NEW T, IsFiniteSet(T)
  PROVE  IsFiniteSet(S \cup T) /\ Cardinality(S \cup T) <= Cardinality(S) + Cardinality(T)
<1>1. IsFiniteSet(S \cap T)
  BY FS_Subset
<1>2. Cardinality(S) \in Nat /\ Cardinality(T) \in Nat /\ Cardinality(S \cap T) \in Nat
  BY <1>1, FS_CardinalityType
<1>3. /\ IsFiniteSet(S \cup T)
      /\ Cardinality(S \cup T) = Cardinality(S) + Cardinality(T) - Cardinality(S \cap T)
  BY FS_Union
<1> QED BY <1>2, <1>3

LEMMA CardCovered ==
  ASSUME NEW S, NEW R, IsFiniteSet(R), NEW g, \A x \in S : \E c \in R : g[c] = x
  PROVE  IsFiniteSet(S) /\ Cardinality(S) <= Cardinality(R)
<1> DEFINE h == [c \in R |-> g[c]]
<1> DEFINE T == {g[c] : c \in R}
<1>1. h \in Surjection(R, T)
  BY DEF Surjection
<1>2. IsFiniteSet(T) /\ Cardinality(T) <= Cardinality(R)
  BY <1>1, FS_Surjection
<1>3. S \subseteq T
  OBVIOUS
<1> HIDE DEF T
<1>4. IsFiniteSet(S) /\ Cardinality(S) <= Cardinality(T) /\ Cardinality(S) \in Nat /\ Cardinality(T) \in Nat
  BY <1>2, <1>3, CardSub
<1>5. Cardinality(R) \in Nat
  BY FS_CardinalityType
<1> QED BY <1>2, <1>4, <1>5

LEMMA LeastOf ==
  ASSUME NEW S \in SUBSET Nat, S # {}
  PROVE  \E x \in S : \A y \in S : x <= y
<1> DEFINE R == OpToRel(<, Nat)
<1>1. IsWellFoundedOn(R, Nat)
  BY NatLessThanWellFounded
<1> HIDE DEF R
<1>2. PICK x \in S : \A y \in S : ~ (<<y, x>> \in R)
  BY <1>1, WFMin
<1>3. R = {ss \in Nat \X Nat : ss[1] < ss[2]}
  BY DEF R, OpToRel
<1>4. \A y \in S : y < x => <<y, x>> \in R
  BY <1>3
<1>5. \A y \in S : ~(y < x) /\ y \in Nat /\ x \in Nat
  BY <1>2, <1>4
<1> QED BY <1>5

-----------------------------------------------------------------------------
(***************************************************************************)
(* Sums over finite sets. SumFunctionOnSet is a fold with CHOOSE: that the *)
(* function it is defined by exists, and that the order of choice does not *)
(* matter, are inductions over the cardinality, written with a least       *)
(* counterexample.                                                         *)
(***************************************************************************)
Any(s) == CHOOSE x \in s : TRUE

\* The function that the fold of a sum is defined by.
Folds(g, f, S) == g = [s \in SUBSET S |-> IF s = {} THEN 0 ELSE f[Any(s)] + g[s \ {Any(s)}]]

LEMMA SumIsFold ==
  ASSUME NEW f, NEW S, \E g : Folds(g, f, S)
  PROVE  \E g : Folds(g, f, S) /\ SumFunctionOnSet(f, S) = g[S]
<1> DEFINE h == CHOOSE g : Folds(g, f, S)
<1>1. Folds(h, f, S)
  OBVIOUS
<1>2. SumFunctionOnSet(f, S) = h[S]
  BY DEF SumFunctionOnSet, FoldFunctionOnSet, MapThenFoldSet, Folds, Any
<1> QED BY <1>1, <1>2

LEMMA AnyIn ==
  ASSUME NEW s, s # {}
  PROVE  Any(s) \in s
BY DEF Any

\* Removing an element makes a finite set smaller.
LEMMA LessOne ==
  ASSUME NEW S, IsFiniteSet(S), NEW s \in SUBSET S, NEW x \in s
  PROVE  /\ s \ {x} \in SUBSET S /\ Cardinality(s) \in Nat \ {0}
         /\ Cardinality(s \ {x}) = Cardinality(s) - 1
<1>1. IsFiniteSet(s) /\ Cardinality(s) \in Nat
  BY CardSub
<1>2. Cardinality(s) # 0
  BY <1>1, FS_EmptySet
<1> QED BY <1>1, <1>2, FS_RemoveElement

LEMMA FoldExists ==
  ASSUME NEW f, NEW S, IsFiniteSet(S)
  PROVE  \E g : Folds(g, f, S)
<1> DEFINE D(n) == {s \in SUBSET S : Cardinality(s) <= n}
           Partial(g, n) == g = [s \in D(n) |-> IF s = {} THEN 0 ELSE f[Any(s)] + g[s \ {Any(s)}]]
           N == {n \in Nat : ~ \E g : Partial(g, n)}
<1>0. \A s \in SUBSET S : Cardinality(s) \in Nat /\ IsFiniteSet(s) /\ (Cardinality(s) = 0 <=> s = {})
  BY CardSub, FS_EmptySet
<1>1. N = {}
  <2> SUFFICES ASSUME N # {} PROVE FALSE
    OBVIOUS
  <2>1. PICK n \in N : \A m \in N : n <= m
    <3>1. N \in SUBSET Nat
      OBVIOUS
    <3> HIDE DEF N
    <3> QED BY <3>1, LeastOf
  <2>2. CASE n = 0
    <3> DEFINE g == [s \in D(0) |-> 0]
    <3>1. \A s \in D(0) : s = {}
      BY <1>0
    <3>2. g = [s \in D(0) |-> IF s = {} THEN 0 ELSE f[Any(s)] + g[s \ {Any(s)}]]
      BY <3>1
    <3> QED BY <2>1, <2>2, <3>2
  <2>3. CASE n # 0
    <3>1. n - 1 \in Nat /\ n - 1 \notin N
      <4>1. n \in Nat /\ n - 1 \in Nat /\ ~(n <= n - 1)
        BY <2>1, <2>3
      <4> HIDE DEF N
      <4> QED BY <2>1, <4>1
    <3>2. PICK g : Partial(g, n - 1)
      BY <3>1
    <3> DEFINE h == [s \in D(n) |-> IF s = {} THEN 0 ELSE f[Any(s)] + g[s \ {Any(s)}]]
    <3>3. \A s \in D(n) : s # {} => s \ {Any(s)} \in D(n - 1)
      <4> SUFFICES ASSUME NEW s \in D(n), s # {} PROVE s \ {Any(s)} \in D(n - 1)
        OBVIOUS
      <4>1. Any(s) \in s /\ s \in SUBSET S
        BY AnyIn
      <4>2. s \ {Any(s)} \in SUBSET S /\ Cardinality(s \ {Any(s)}) = Cardinality(s) - 1 /\ Cardinality(s) \in Nat
        BY <4>1, LessOne
      <4> QED BY <3>1, <4>2
    <3>4. \A s \in D(n - 1) : s \in D(n)
      BY <1>0, <3>1
    <3>5. \A s \in D(n - 1) : h[s] = g[s]
      BY <3>2, <3>4
    <3>6. \A s \in D(n) : s # {} => h[s \ {Any(s)}] = g[s \ {Any(s)}]
      BY <3>3, <3>5
    <3>7. h = [s \in D(n) |-> IF s = {} THEN 0 ELSE f[Any(s)] + h[s \ {Any(s)}]]
      BY <3>6
    <3>8. Partial(h, n)
      BY <3>7
    <3> HIDE DEF h, Partial
    <3> QED BY <2>1, <3>8
  <2> QED BY <2>2, <2>3
<1>2. Cardinality(S) \in Nat /\ D(Cardinality(S)) = SUBSET S
  BY CardSub
<1>3. PICK g : Partial(g, Cardinality(S))
  BY <1>1, <1>2
<1> QED BY <1>2, <1>3 DEF Folds

LEMMA FoldUnique ==
  ASSUME NEW f, NEW S, IsFiniteSet(S), NEW T \in SUBSET S, NEW g, NEW h, Folds(g, f, S), Folds(h, f, T)
  PROVE  g[T] = h[T]
<1> DEFINE N == {n \in Nat : \E s \in SUBSET T : Cardinality(s) = n /\ g[s] # h[s]}
<1>0. IsFiniteSet(T)
  BY CardSub
<1>1. N = {}
  <2> SUFFICES ASSUME N # {} PROVE FALSE
    OBVIOUS
  <2>1. PICK n \in N : \A m \in N : n <= m
    <3>1. N \in SUBSET Nat
      OBVIOUS
    <3> HIDE DEF N
    <3> QED BY <3>1, LeastOf
  <2>2. PICK s \in SUBSET T : Cardinality(s) = n /\ g[s] # h[s]
    BY <2>1
  <2>3. s \in SUBSET S
    BY <2>2
  <2>4. s # {}
    BY <2>2, <2>3 DEF Folds
  <2>5. Any(s) \in s
    BY <2>4, AnyIn
  <2>6. s \ {Any(s)} \in SUBSET T /\ Cardinality(s) \in Nat \ {0} /\ Cardinality(s \ {Any(s)}) = Cardinality(s) - 1
    BY <1>0, <2>5, LessOne
  <2>7. g[s \ {Any(s)}] = h[s \ {Any(s)}]
    <3>1. n - 1 \in Nat /\ ~(n <= n - 1)
      BY <2>2, <2>6
    <3>2. n - 1 \notin N
      BY <2>1, <3>1
    <3> QED BY <2>2, <2>6, <3>1, <3>2
  <2>8. g[s] = f[Any(s)] + g[s \ {Any(s)}] /\ h[s] = f[Any(s)] + h[s \ {Any(s)}]
    BY <2>3, <2>4 DEF Folds
  <2> QED BY <2>2, <2>7, <2>8
<1>2. Cardinality(T) \in Nat /\ T \in SUBSET T
  BY <1>0, FS_CardinalityType
<1> QED BY <1>1, <1>2

LEMMA SumEmpty ==
  ASSUME NEW f
  PROVE  SumFunctionOnSet(f, {}) = 0
<1>1. PICK g : Folds(g, f, {}) /\ SumFunctionOnSet(f, {}) = g[{}]
  BY FS_EmptySet, FoldExists, SumIsFold
<1> QED BY <1>1 DEF Folds

LEMMA SumAny ==
  ASSUME NEW f, NEW S, IsFiniteSet(S), S # {}
  PROVE  SumFunctionOnSet(f, S) = f[Any(S)] + SumFunctionOnSet(f, S \ {Any(S)})
<1> DEFINE T == S \ {Any(S)}
<1>0. T \in SUBSET S /\ IsFiniteSet(T)
  BY CardSub
<1>1. PICK g : Folds(g, f, S) /\ SumFunctionOnSet(f, S) = g[S]
  BY FoldExists, SumIsFold
<1>2. PICK h : Folds(h, f, T) /\ SumFunctionOnSet(f, T) = h[T]
  BY <1>0, FoldExists, SumIsFold
<1> HIDE DEF T
<1>3. g[T] = h[T]
  BY <1>0, <1>1, <1>2, FoldUnique
<1>4. g[S] = f[Any(S)] + g[T]
  BY <1>1 DEF Folds, T
<1> QED BY <1>1, <1>2, <1>3, <1>4 DEF T

LEMMA SumInt ==
  ASSUME NEW f, NEW S, IsFiniteSet(S), \A x \in S : f[x] \in Int, NEW T \in SUBSET S
  PROVE  SumFunctionOnSet(f, T) \in Int
<1> DEFINE N == {n \in Nat : \E U \in SUBSET S : Cardinality(U) = n /\ SumFunctionOnSet(f, U) \notin Int}
<1>1. N = {}
  <2> SUFFICES ASSUME N # {} PROVE FALSE
    OBVIOUS
  <2>1. PICK n \in N : \A m \in N : n <= m
    <3>1. N \in SUBSET Nat
      OBVIOUS
    <3> HIDE DEF N
    <3> QED BY <3>1, LeastOf
  <2>2. PICK U \in SUBSET S : Cardinality(U) = n /\ SumFunctionOnSet(f, U) \notin Int
    BY <2>1
  <2>3. U # {}
    BY <2>2, SumEmpty
  <2>4. Any(U) \in U /\ f[Any(U)] \in Int /\ IsFiniteSet(U)
    BY <2>3, AnyIn, CardSub
  <2>5. U \ {Any(U)} \in SUBSET S /\ Cardinality(U \ {Any(U)}) = n - 1 /\ n \in Nat \ {0}
    BY <2>2, <2>4, LessOne
  <2>6. SumFunctionOnSet(f, U \ {Any(U)}) \in Int
    <3>1. n - 1 \in Nat /\ ~(n <= n - 1)
      BY <2>5
    <3>2. n - 1 \notin N
      BY <2>1, <3>1
    <3> QED BY <2>5, <3>1, <3>2
  <2> QED BY <2>2, <2>3, <2>4, <2>6, SumAny
<1>2. Cardinality(T) \in Nat
  BY CardSub
<1> QED BY <1>1, <1>2

\* Any element may be taken out first.
LEMMA SumTakes ==
  ASSUME NEW f, NEW S, IsFiniteSet(S), \A x \in S : f[x] \in Int
  PROVE  /\ SumFunctionOnSet(f, S) \in Int
         /\ \A x \in S : SumFunctionOnSet(f, S) = f[x] + SumFunctionOnSet(f, S \ {x})
<1> DEFINE Good(T) == /\ SumFunctionOnSet(f, T) \in Int
                      /\ \A x \in T : SumFunctionOnSet(f, T) = f[x] + SumFunctionOnSet(f, T \ {x})
           N == {n \in Nat : \E T \in SUBSET S : Cardinality(T) = n /\ ~Good(T)}
<1>1. N = {}
  <2> SUFFICES ASSUME N # {} PROVE FALSE
    OBVIOUS
  <2>1. PICK n \in N : \A m \in N : n <= m
    <3>1. N \in SUBSET Nat
      OBVIOUS
    <3> HIDE DEF N
    <3> QED BY <3>1, LeastOf
  <2>2. PICK T \in SUBSET S : Cardinality(T) = n /\ ~Good(T)
    BY <2>1
  <2>3. IsFiniteSet(T) /\ n \in Nat
    BY <2>2, CardSub
  <2>4. \A U \in SUBSET S : Cardinality(U) = n - 1 /\ n - 1 \in Nat => Good(U)
    <3> SUFFICES ASSUME NEW U \in SUBSET S, Cardinality(U) = n - 1, n - 1 \in Nat, ~Good(U) PROVE FALSE
      OBVIOUS
    <3>1. n - 1 \in N
      OBVIOUS
    <3>2. ~(n <= n - 1)
      BY <2>3
    <3> HIDE DEF N
    <3> QED BY <2>1, <3>1, <3>2
  <2>5. CASE T = {}
    BY <2>2, <2>5, SumEmpty
  <2>6. CASE T # {}
    <3> DEFINE y == Any(T)
               Y == T \ {y}
    <3>1. y \in T /\ f[y] \in Int
      BY <2>6, AnyIn
    <3>2. Y \in SUBSET S /\ Cardinality(Y) = n - 1 /\ n - 1 \in Nat
      BY <2>2, <3>1, LessOne
    <3>3. SumFunctionOnSet(f, T) = f[y] + SumFunctionOnSet(f, Y)
      BY <2>3, <2>6, SumAny
    <3>4. Good(Y)
      BY <2>4, <3>2
    <3>5. SumFunctionOnSet(f, T) \in Int
      BY <3>1, <3>3, <3>4
    <3>6. ASSUME NEW x \in T PROVE SumFunctionOnSet(f, T) = f[x] + SumFunctionOnSet(f, T \ {x})
      <4>1. CASE x = y
        BY <3>3, <4>1
      <4>2. CASE x # y
        <5> DEFINE X == T \ {x}
                   Z == T \ {x, y}
        <5>1. X \in SUBSET S /\ Cardinality(X) = n - 1
          BY <2>2, LessOne
        <5>2. Good(X)
          BY <2>4, <3>2, <5>1
        <5>3. x \in Y /\ y \in X /\ Y \ {x} = Z /\ X \ {y} = Z /\ f[x] \in Int
          BY <3>1, <4>2
        <5> HIDE DEF X, Y, Z, y
        <5>4. SumFunctionOnSet(f, Y) = f[x] + SumFunctionOnSet(f, Z)
          BY <3>4, <5>3
        <5>5. SumFunctionOnSet(f, X) = f[y] + SumFunctionOnSet(f, Z)
          BY <5>2, <5>3
        <5>6. Z \in SUBSET S /\ SumFunctionOnSet(f, Z) \in Int
          <6>1. Y \ {x} \in SUBSET S /\ Cardinality(Y) \in Nat \ {0} /\ Cardinality(Y \ {x}) = Cardinality(Y) - 1
            BY <3>2, <5>3, LessOne
          <6> QED BY <5>3, <6>1, SumInt
        <5>7. SumFunctionOnSet(f, T) = f[x] + SumFunctionOnSet(f, X)
          BY <3>1, <3>3, <5>3, <5>4, <5>5, <5>6
        <5> QED BY <5>7 DEF X
      <4> QED BY <4>1, <4>2
    <3> QED BY <2>2, <3>5, <3>6
  <2> QED BY <2>5, <2>6
<1>2. Cardinality(S) \in Nat /\ S \in SUBSET S
  BY FS_CardinalityType
<1> QED BY <1>1, <1>2

\* The sum does not change when its terms do not, even under other names.
LEMMA SumMoved ==
  ASSUME NEW f, NEW g, NEW b, NEW S, IsFiniteSet(S), \A x \in S : f[x] \in Int,
         \A x, y \in S : b[x] = b[y] => x = y, \A x \in S : g[b[x]] = f[x]
  PROVE  SumFunctionOnSet(g, {b[x] : x \in S}) = SumFunctionOnSet(f, S)
<1> DEFINE I(T) == {b[x] : x \in T}
           Same(T) == SumFunctionOnSet(g, I(T)) = SumFunctionOnSet(f, T)
           N == {n \in Nat : \E T \in SUBSET S : Cardinality(T) = n /\ ~Same(T)}
<1>1. N = {}
  <2> SUFFICES ASSUME N # {} PROVE FALSE
    OBVIOUS
  <2>1. PICK n \in N : \A m \in N : n <= m
    <3>1. N \in SUBSET Nat
      OBVIOUS
    <3> HIDE DEF N
    <3> QED BY <3>1, LeastOf
  <2>2. PICK T \in SUBSET S : Cardinality(T) = n /\ ~Same(T)
    BY <2>1
  <2>3. IsFiniteSet(T) /\ n \in Nat
    BY <2>2, CardSub
  <2>4. \A U \in SUBSET S : Cardinality(U) = n - 1 /\ n - 1 \in Nat => Same(U)
    <3> SUFFICES ASSUME NEW U \in SUBSET S, Cardinality(U) = n - 1, n - 1 \in Nat, ~Same(U) PROVE FALSE
      OBVIOUS
    <3>1. n - 1 \in N
      OBVIOUS
    <3>2. ~(n <= n - 1)
      BY <2>3
    <3> HIDE DEF N
    <3> QED BY <2>1, <3>1, <3>2
  <2>5. CASE T = {}
    <3>1. I(T) = {}
      BY <2>5
    <3> HIDE DEF I
    <3> QED BY <2>2, <2>5, <3>1, SumEmpty
  <2>6. CASE T # {}
    <3> DEFINE y == Any(T)
               Y == T \ {y}
    <3>1. y \in T
      BY <2>6, AnyIn
    <3>2. Y \in SUBSET S /\ Cardinality(Y) = n - 1 /\ n - 1 \in Nat
      BY <2>2, <3>1, LessOne
    <3>3. SumFunctionOnSet(f, T) = f[y] + SumFunctionOnSet(f, Y)
      BY <2>3, <2>6, SumAny
    <3>4. Same(Y)
      BY <2>4, <3>2
    <3>5. b[y] \in I(T) /\ g[b[y]] = f[y]
      BY <3>1
    <3>6. I(T) \ {b[y]} = I(Y)
      BY <3>1
    <3>7. IsFiniteSet(I(T)) /\ \A z \in I(T) : g[z] \in Int
      <4>1. IsFiniteSet(I(T))
        <5>1. \A z \in I(T) : \E x \in T : b[x] = z
          OBVIOUS
        <5> HIDE DEF I
        <5> QED BY <2>3, <5>1, CardCovered
      <4> QED BY <4>1
    <3> HIDE DEF I, y, Y
    <3>8. SumFunctionOnSet(g, I(T)) = g[b[y]] + SumFunctionOnSet(g, I(T) \ {b[y]})
      BY <3>5, <3>7, SumTakes
    <3> QED BY <2>2, <3>3, <3>4, <3>5, <3>6, <3>8
  <2> QED BY <2>5, <2>6
<1>2. Cardinality(S) \in Nat /\ S \in SUBSET S
  BY FS_CardinalityType
<1> QED BY <1>1, <1>2

\* The sum of terms that two functions share is the same.
LEMMA SumSame ==
  ASSUME NEW f, NEW g, NEW S, IsFiniteSet(S), \A x \in S : f[x] \in Int /\ g[x] = f[x]
  PROVE  SumFunctionOnSet(g, S) = SumFunctionOnSet(f, S)
<1> DEFINE b == [x \in S |-> x]
<1>1. {b[x] : x \in S} = S /\ (\A x, y \in S : b[x] = b[y] => x = y) /\ \A x \in S : g[b[x]] = f[x]
  OBVIOUS
<1>2. PICK c : c = b
  OBVIOUS
<1>3. {c[x] : x \in S} = S /\ (\A x, y \in S : c[x] = c[y] => x = y) /\ \A x \in S : g[c[x]] = f[x]
  BY <1>1, <1>2
<1>4. SumFunctionOnSet(g, {c[x] : x \in S}) = SumFunctionOnSet(f, S)
  BY <1>3, SumMoved
<1> QED BY <1>3, <1>4

\* A sum of natural numbers is one.
LEMMA SumNat ==
  ASSUME NEW f, NEW S, IsFiniteSet(S), \A x \in S : f[x] \in Nat
  PROVE  SumFunctionOnSet(f, S) \in Nat
<1> DEFINE N == {n \in Nat : \E U \in SUBSET S : Cardinality(U) = n /\ SumFunctionOnSet(f, U) \notin Nat}
<1>1. N = {}
  <2> SUFFICES ASSUME N # {} PROVE FALSE
    OBVIOUS
  <2>1. PICK n \in N : \A m \in N : n <= m
    <3>1. N \in SUBSET Nat
      OBVIOUS
    <3> HIDE DEF N
    <3> QED BY <3>1, LeastOf
  <2>2. PICK U \in SUBSET S : Cardinality(U) = n /\ SumFunctionOnSet(f, U) \notin Nat
    BY <2>1
  <2>3. U # {}
    BY <2>2, SumEmpty
  <2>4. Any(U) \in U /\ f[Any(U)] \in Nat /\ IsFiniteSet(U)
    BY <2>3, AnyIn, CardSub
  <2>5. U \ {Any(U)} \in SUBSET S /\ Cardinality(U \ {Any(U)}) = n - 1 /\ n \in Nat \ {0}
    BY <2>2, <2>4, LessOne
  <2>6. SumFunctionOnSet(f, U \ {Any(U)}) \in Nat
    <3>1. n - 1 \in Nat /\ ~(n <= n - 1)
      BY <2>5
    <3>2. n - 1 \notin N
      BY <2>1, <3>1
    <3> QED BY <2>5, <3>1, <3>2
  <2> QED BY <2>2, <2>3, <2>4, <2>6, SumAny
<1>2. Cardinality(S) \in Nat /\ S \in SUBSET S
  BY FS_CardinalityType
<1> QED BY <1>1, <1>2

-----------------------------------------------------------------------------
(***************************************************************************)
(* Addresses: the choice and the insert are two steps, and only the insert *)
(* decides. A call about to insert holds an address a host may have; that  *)
(* it is still free is the key's business.                                 *)
(***************************************************************************)
AllocType == [ip : Nat, released : BOOLEAN]

AllocatorType == [pc : {"idle", "insert", "exhausted"}, ip : Nat]

\* A call that is about to insert has chosen an address that hosts may have.
AddressInv ==
  /\ allocs \in Seq(AllocType)
  /\ allocator \in [Allocators -> AllocatorType]
  /\ \A c \in Allocators : allocator[c].pc = "insert" => allocator[c].ip \in Addresses!HostAddresses \ Addresses!Reserved
  /\ \A i, j \in DOMAIN allocs :
       (i # j /\ ~allocs[i].released /\ ~allocs[j].released) => allocs[i].ip # allocs[j].ip
  /\ Addresses!Taken \subseteq Addresses!HostAddresses \ Addresses!Reserved

LEMMA LeastNatural ==
  ASSUME NEW S \in SUBSET Nat, S # {}
  PROVE  Addresses!Min(S) \in S
BY LeastOf DEF Addresses!Min

\* An insert that the key lets through is of an address nobody has.
LEMMA InsertedIsFree ==
  ASSUME AddressInv, NEW ip, Addresses!Insertable(ip)
  PROVE  \A i \in DOMAIN allocs : ~allocs[i].released => allocs[i].ip # ip
BY DEF Addresses!Insertable, Addresses!MemInsertable, Addresses!SqlInsertable, Addresses!Taken

LEMMA AddressStep == AddressInv /\ [Addresses!Next]_(Addresses!netVars) => AddressInv'
<1> SUFFICES ASSUME AddressInv, [Addresses!Next]_(Addresses!netVars) PROVE AddressInv'
  OBVIOUS
<1>0. /\ allocs \in Seq(AllocType) /\ allocator \in [Allocators -> AllocatorType]
  BY DEF AddressInv
<1>1. CASE UNCHANGED <<ipPool, allocs, allocator>>
  BY <1>1 DEF AddressInv, Addresses!Taken, Addresses!Reserved
<1>2. ASSUME NEW c \in Allocators, Addresses!AllocateIP(c) PROVE AddressInv'
  <2>0. ipPool' = ipPool
    BY <1>2 DEF Addresses!AllocateIP
  <2>1. CASE Addresses!findNextAvailableIP(Addresses!Taken) = 0
    <3>1. allocator' = [allocator EXCEPT ![c] = [pc |-> "exhausted", ip |-> 0]] /\ allocs' = allocs
      BY <1>2, <2>1 DEF Addresses!AllocateIP
    <3>2. [pc |-> "exhausted", ip |-> 0] \in AllocatorType
      BY DEF AllocatorType
    <3> QED BY <1>0, <2>0, <3>1, <3>2 DEF AddressInv, Addresses!Taken, Addresses!Reserved
  <2>2. CASE Addresses!findNextAvailableIP(Addresses!Taken) # 0
    <3> DEFINE a == Addresses!findNextAvailableIP(Addresses!Taken)
    <3>1. Addresses!Available(Addresses!Taken) # {} /\ a = Addresses!Min(Addresses!Available(Addresses!Taken))
      BY <2>2 DEF Addresses!findNextAvailableIP
    <3>2. Addresses!Available(Addresses!Taken) \subseteq Nat
      BY DEF Addresses!Available, Addresses!HostAddresses
    <3>3. a \in Addresses!Available(Addresses!Taken)
      BY <3>1, <3>2, LeastNatural
    <3>4. a \in Addresses!HostAddresses \ Addresses!Reserved /\ a \in Nat
      BY <3>2, <3>3 DEF Addresses!Available
    <3>5. allocator' = [allocator EXCEPT ![c] = [pc |-> "insert", ip |-> a]] /\ allocs' = allocs
      BY <1>2, <2>2 DEF Addresses!AllocateIP
    <3>6. [pc |-> "insert", ip |-> a] \in AllocatorType
      BY <3>4 DEF AllocatorType
    <3> HIDE DEF a
    <3> QED BY <1>0, <2>0, <3>4, <3>5, <3>6 DEF AddressInv, Addresses!Taken, Addresses!Reserved
  <2> QED BY <2>1, <2>2
<1>3. ASSUME NEW c \in Allocators, Addresses!AllocationCreate(c) PROVE AddressInv'
  <2>0. ipPool' = ipPool
    BY <1>3 DEF Addresses!AllocationCreate
  <2> DEFINE new == [ip |-> allocator[c].ip, released |-> FALSE]
  <2>1. /\ allocator' \in [Allocators -> AllocatorType]
        /\ \A d \in Allocators : allocator'[d].pc = "insert" =>
             allocator'[d].ip \in Addresses!HostAddresses \ Addresses!Reserved
    BY <1>0, <1>3 DEF Addresses!AllocationCreate, AllocatorType, AddressInv
  <2>2. CASE ~Addresses!Insertable(allocator[c].ip)
    <3>1. allocs' = allocs
      BY <1>3, <2>2 DEF Addresses!AllocationCreate
    <3> QED BY <1>0, <2>0, <2>1, <3>1 DEF AddressInv, Addresses!Taken, Addresses!Reserved
  <2>3. CASE Addresses!Insertable(allocator[c].ip)
    <3>1. allocs' = Append(allocs, new) /\ new \in AllocType
      BY <1>0, <1>3, <2>3 DEF Addresses!AllocationCreate, AllocType, AllocatorType
    <3>2. new.ip \in Addresses!HostAddresses \ Addresses!Reserved /\ new.ip = allocator[c].ip
      BY <1>3 DEF Addresses!AllocationCreate, AddressInv
    <3>3. \A i \in DOMAIN allocs : ~allocs[i].released => allocs[i].ip # new.ip
      BY <2>3, <3>2, InsertedIsFree
    <3> HIDE DEF new
    <3>4. /\ allocs' \in Seq(AllocType) /\ Len(allocs') = Len(allocs) + 1
          /\ DOMAIN allocs' = 1 .. Len(allocs) + 1 /\ DOMAIN allocs = 1 .. Len(allocs)
          /\ Len(allocs) \in Nat /\ allocs'[Len(allocs) + 1] = new
          /\ \A i \in 1 .. Len(allocs) : allocs'[i] = allocs[i]
      BY <1>0, <3>1
    <3>5. \A i \in DOMAIN allocs' : i \in DOMAIN allocs \/ allocs'[i] = new
      BY <3>4
    <3>6. \A i \in DOMAIN allocs : allocs'[i] = allocs[i]
      BY <3>4
    <3>7. \A i, j \in DOMAIN allocs' :
            (i # j /\ ~allocs'[i].released /\ ~allocs'[j].released) => allocs'[i].ip # allocs'[j].ip
      <4> SUFFICES ASSUME NEW i \in DOMAIN allocs', NEW j \in DOMAIN allocs', i # j,
                          ~allocs'[i].released, ~allocs'[j].released
                   PROVE  allocs'[i].ip # allocs'[j].ip
        OBVIOUS
      <4>1. i \in DOMAIN allocs \/ j \in DOMAIN allocs
        BY <3>4
      <4>2. CASE i \in DOMAIN allocs /\ j \in DOMAIN allocs
        BY <3>6, <4>2 DEF AddressInv
      <4> QED BY <3>3, <3>5, <3>6, <4>1, <4>2
    <3>8. Addresses!Taken' \subseteq Addresses!HostAddresses \ Addresses!Reserved
      BY <3>2, <3>5, <3>6 DEF Addresses!Taken, AddressInv
    <3> QED BY <2>0, <2>1, <3>4, <3>7, <3>8 DEF AddressInv, Addresses!HostAddresses, Addresses!Reserved
  <2> QED BY <2>2, <2>3
<1>4. ASSUME NEW c \in Allocators, Addresses!AllocateEnds(c) PROVE AddressInv'
  BY <1>0, <1>4 DEF Addresses!AllocateEnds, AddressInv, Addresses!Taken, Addresses!Reserved, AllocatorType
<1>5. ASSUME NEW k \in 1 .. MaxRows, Addresses!ReleaseIP(k) PROVE AddressInv'
  <2> DEFINE new == [allocs[k] EXCEPT !.released = TRUE]
  <2>1. /\ k \in DOMAIN allocs /\ allocs[k] \in AllocType /\ ~allocs[k].released
        /\ allocs' = [allocs EXCEPT ![k] = new] /\ allocator' = allocator
    BY <1>0, <1>5 DEF Addresses!ReleaseIP
  <2>2. new \in AllocType /\ new.released
    BY <2>1 DEF AllocType
  <2> HIDE DEF new
  <2>3. allocs' \in Seq(AllocType)
    BY <1>0, <2>1, <2>2
  <2>4. /\ DOMAIN allocs' = DOMAIN allocs
        /\ \A i \in DOMAIN allocs : ~allocs'[i].released => allocs'[i] = allocs[i]
    BY <1>0, <2>1, <2>2
  <2>6. Addresses!Taken' \subseteq Addresses!Taken
    BY <2>4 DEF Addresses!Taken
  <2>5. ipPool' = ipPool
    BY <1>5 DEF Addresses!ReleaseIP
  <2> QED BY <1>0, <2>1, <2>3, <2>4, <2>5, <2>6 DEF AddressInv, Addresses!HostAddresses, Addresses!Reserved
<1>6. ASSUME NEW spelling, Addresses!CreatePool(spelling) PROVE AddressInv'
  <2>1. Addresses!Reserved' \subseteq Addresses!Reserved /\ UNCHANGED <<allocs, allocator>>
    BY <1>6 DEF Addresses!CreatePool, Addresses!Reserved
  <2> QED BY <2>1 DEF AddressInv, Addresses!Taken, Addresses!HostAddresses
<1>7. CASE Addresses!NextInterface
  BY <1>1, <1>7 DEF Addresses!NextInterface, Addresses!ReplaceInstanceRules, Addresses!ApplyFirewallRules,
     Addresses!ConfigureReads, Addresses!ConfigureWrites, Addresses!ConfigureNetwork, Addresses!PowerChange, Addresses!fwRest, Addresses!cfgRest
<1> QED BY <1>1, <1>2, <1>3, <1>4, <1>5, <1>6, <1>7 DEF Addresses!Next, Addresses!NextAddress, Addresses!netVars

\* AllocateIP chooses an address and stores it in two steps, on any number of
\* servers: still no address is in use twice, and none in use is the network's,
\* the broadcast one or a gateway written the way addresses are printed.  Over
\* either table, for any block and any number of calls: the unique key decides,
\* not the choice.
THEOREM AddressesCorrect == Addresses!Spec => []Addresses!NoSharedAddress
<1>1. Addresses!Init => AddressInv
  <2> SUFFICES ASSUME Addresses!Init PROVE AddressInv
    OBVIOUS
  <2>1. allocs = <<>> /\ DOMAIN allocs = {} /\ allocs \in Seq(AllocType)
    BY DEF Addresses!Init
  <2>2. [pc |-> "idle", ip |-> 0] \in AllocatorType
    BY DEF AllocatorType
  <2> QED BY <2>1, <2>2 DEF Addresses!Init, AddressInv, Addresses!Taken
<1>2. AddressInv => Addresses!NoSharedAddress
  BY DEF AddressInv, Addresses!NoSharedAddress, Addresses!Reserved
<1> QED BY <1>1, <1>2, AddressStep, PTL DEF Addresses!Spec

\* In memory the address that the next call would choose can be inserted: the
\* choice leaves out what is in use, and nothing else is refused.
THEOREM FreeCorrect ==
  ASSUME TableInMemory
  PROVE  Addresses!Spec => []Addresses!FreeIsUsable
<1>1. Addresses!FreeIsUsable
  <2> SUFFICES ASSUME Addresses!findNextAvailableIP(Addresses!Taken) # 0 PROVE Addresses!findNextAvailableIP(Addresses!Taken) \notin Addresses!Taken
    BY DEF Addresses!FreeIsUsable, Addresses!Insertable, Addresses!MemInsertable
  <2>1. Addresses!Available(Addresses!Taken) # {} /\ Addresses!findNextAvailableIP(Addresses!Taken) = Addresses!Min(Addresses!Available(Addresses!Taken))
    BY DEF Addresses!findNextAvailableIP
  <2>2. Addresses!Available(Addresses!Taken) \subseteq Nat
    BY DEF Addresses!Available, Addresses!HostAddresses
  <2>3. Addresses!findNextAvailableIP(Addresses!Taken) \in Addresses!Available(Addresses!Taken)
    BY <2>1, <2>2, LeastNatural
  <2> QED BY <2>3 DEF Addresses!Available
<1> QED BY <1>1, PTL

-----------------------------------------------------------------------------
(***************************************************************************)
(* API keys: a revocation that was answered is final, though the writes of *)
(* the last use are late, and a key acts within its scopes and its user's  *)
(* permissions.                                                            *)
(***************************************************************************)
RowType == [state : {"none", "live", "revoked"}, expired : BOOLEAN, scopes : ScopeSets \cup {{}}]

SubjectType ==
  [user : KeyUse!KeyUsers \cup {""}, roles : {RolesOf[u] : u \in KeyUse!KeyUsers} \cup {{}},
   perms : {KeyUse!GetUserPermissions(u) : u \in KeyUse!KeyUsers} \cup {{}}, scopes : ScopeSets \cup {{}}]

ReqType ==
  [pc : {"idle", "key", "subject", "admitted", "denied"}, key : ApiKeys \cup {""}, row : RowType,
   wants : Wanted \cup {KeyUse!Open}, subject : SubjectType, late : BOOLEAN]

\* A row of a revoked key is never live again; what a request that has passed
\* a check read and carries is what the check was about.
AccessInv ==
  /\ keyRow \in [ApiKeys -> RowType] /\ reqs \in [KeyRequests -> ReqType]
  /\ \A k \in revoked : k \in ApiKeys => keyRow[k].state # "live"
  /\ \A r \in KeyRequests :
       /\ reqs[r].pc = "key" => reqs[r].key \in ApiKeys
       /\ reqs[r].pc \in {"key", "subject", "admitted"} => ~reqs[r].late
       /\ (reqs[r].pc \in {"subject", "admitted"} /\ reqs[r].key # "") =>
            /\ reqs[r].key \in ApiKeys
            /\ reqs[r].subject = KeyUse!KeySubject(KeyUser[reqs[r].key], reqs[r].row.scopes)
       /\ reqs[r].pc = "admitted" =>
            reqs[r].wants = KeyUse!Open \/ KeyUse!Authorize(reqs[r].subject, reqs[r].wants)

LEMMA AccessConstants ==
  /\ KeyUse!NoRow \in RowType /\ KeyUse!NoSubject \in SubjectType /\ KeyUse!Idle \in ReqType
  /\ KeyUse!Idle.pc = "idle" /\ KeyUse!Idle.key = "" /\ ~KeyUse!Idle.late
  /\ KeyUse!NoRow.state = "none"
<1>1. KeyUse!NoRow \in RowType /\ KeyUse!NoRow.state = "none"
  BY DEF KeyUse!NoRow, RowType
<1>2. KeyUse!NoSubject \in SubjectType
  BY DEF KeyUse!NoSubject, SubjectType
<1> QED BY <1>1, <1>2 DEF KeyUse!Idle, ReqType

\* What a key may do, from the authorizer: the key's subject has no roles.
LEMMA KeyAuthorized ==
  ASSUME NEW u, NEW scopes, NEW p, KeyUse!Authorize(KeyUse!KeySubject(u, scopes), p)
  PROVE  (scopes = {} \/ KeyUse!Covers(scopes, p)) /\ KeyUse!Covers(KeyUse!GetUserPermissions(u), p)
<1> DEFINE s == KeyUse!KeySubject(u, scopes)
<1>1. s.roles = {} /\ s.perms = KeyUse!GetUserPermissions(u) /\ s.scopes = scopes
  BY DEF KeyUse!KeySubject
<1> QED BY <1>1 DEF KeyUse!Authorize, KeyUse!HasPermission, KeyUse!InScope

\* The steps that change rows of the key table only.
LEMMA KeyRowStep ==
  ASSUME AccessInv, keyRow' \in [ApiKeys -> RowType], UNCHANGED reqs,
         \A k \in revoked' : k \in ApiKeys => keyRow'[k].state # "live"
  PROVE  AccessInv'
BY DEF AccessInv, KeyUse!Authorize, KeyUse!HasPermission, KeyUse!Covers, KeyUse!InScope, KeyUse!KeySubject, KeyUse!GetUserPermissions,
   KeyUse!MemUserPermissions, KeyUse!SqlUserPermissions, RowType, ReqType, SubjectType, KeyUse!KeyUsers

\* A step of one request.
LEMMA RequestStep ==
  ASSUME AccessInv, NEW r \in KeyRequests, NEW new \in ReqType, keyRow' \in [ApiKeys -> RowType],
         \A k \in revoked' : k \in ApiKeys => keyRow'[k].state # "live",
         reqs' = [reqs EXCEPT ![r] = new],
         new.pc = "key" => new.key \in ApiKeys,
         new.pc \in {"key", "subject", "admitted"} => ~new.late,
         (new.pc \in {"subject", "admitted"} /\ new.key # "") =>
            (new.key \in ApiKeys /\ new.subject = KeyUse!KeySubject(KeyUser[new.key], new.row.scopes)),
         new.pc = "admitted" => new.wants = KeyUse!Open \/ KeyUse!Authorize(new.subject, new.wants)
  PROVE  AccessInv'
<1>1. reqs \in [KeyRequests -> ReqType]
  BY DEF AccessInv
<1>2. reqs' \in [KeyRequests -> ReqType]
  BY <1>1
<1>3. \A q \in KeyRequests : reqs'[q] = IF q = r THEN new ELSE reqs[q]
  BY <1>1
<1> DEFINE Sound(x) ==
      /\ x.pc = "key" => x.key \in ApiKeys
      /\ x.pc \in {"key", "subject", "admitted"} => ~x.late
      /\ (x.pc \in {"subject", "admitted"} /\ x.key # "") =>
           (x.key \in ApiKeys /\ x.subject = KeyUse!KeySubject(KeyUser[x.key], x.row.scopes))
      /\ x.pc = "admitted" => x.wants = KeyUse!Open \/ KeyUse!Authorize(x.subject, x.wants)
<1>5. Sound(new)
  OBVIOUS
<1>6. \A q \in KeyRequests : Sound(reqs[q])
  BY DEF AccessInv
<1>7. \A q \in KeyRequests : Sound(reqs'[q])
  <2> HIDE DEF Sound
  <2> QED BY <1>3, <1>5, <1>6
<1> QED BY <1>2, <1>7 DEF AccessInv

LEMMA AccessStep == AccessInv /\ [KeyUse!Next]_(KeyUse!accessVars) => AccessInv'
<1> SUFFICES ASSUME AccessInv, [KeyUse!Next]_(KeyUse!accessVars) PROVE AccessInv'
  OBVIOUS
<1>0. keyRow \in [ApiKeys -> RowType] /\ reqs \in [KeyRequests -> ReqType]
  BY DEF AccessInv
<1>1. CASE UNCHANGED KeyUse!accessVars
  BY <1>0, <1>1, KeyRowStep DEF KeyUse!accessVars, AccessInv
<1>r. \A k \in revoked : k \in ApiKeys => keyRow[k].state # "live"
  BY DEF AccessInv
<1>2. ASSUME NEW r \in KeyRequests, NEW k \in ApiKeys, NEW s \in ScopeSets, KeyUse!CreateAPIKey(r, k, s)
      PROVE  AccessInv'
  <2> DEFINE new == [KeyUse!NoRow EXCEPT !.state = "live", !.scopes = s]
  <2>1. new \in RowType
    BY AccessConstants DEF RowType
  <2>2. /\ keyRow' = [keyRow EXCEPT ![k] = new] /\ k \notin revoked /\ UNCHANGED revoked
        /\ reqs' = [reqs EXCEPT ![r] = KeyUse!Idle]
    BY <1>2 DEF KeyUse!CreateAPIKey, KeyUse!Answered
  <2> HIDE DEF new
  <2>3. /\ keyRow' \in [ApiKeys -> RowType]
        /\ \A j \in revoked' : j \in ApiKeys => keyRow'[j].state # "live"
    BY <1>0, <1>r, <2>1, <2>2
  <2> QED BY <2>2, <2>3, AccessConstants, RequestStep
<1>3. ASSUME NEW k \in ApiKeys, KeyUse!ExpireKey(k) PROVE AccessInv'
  <2> DEFINE new == [keyRow[k] EXCEPT !.expired = TRUE]
  <2>1. new \in RowType /\ new.state = keyRow[k].state
    BY <1>0 DEF RowType
  <2>2. keyRow' = [keyRow EXCEPT ![k] = new] /\ UNCHANGED <<reqs, revoked>>
    BY <1>3 DEF KeyUse!ExpireKey
  <2> HIDE DEF new
  <2> QED BY <1>0, <2>1, <2>2, KeyRowStep DEF AccessInv
<1>4. ASSUME NEW r \in KeyRequests, NEW k \in ApiKeys, KeyUse!RevokeAPIKey(r, k) PROVE AccessInv'
  <2> DEFINE new == KeyUse!Revoke(keyRow[k])
  <2>1. new \in RowType /\ new.state # "live"
    BY <1>0, AccessConstants DEF KeyUse!Revoke, KeyUse!MemRevoke, KeyUse!SqlRevoke, RowType
  <2>2. /\ keyRow' = [keyRow EXCEPT ![k] = new] /\ revoked' = revoked \cup {k}
        /\ reqs' = [reqs EXCEPT ![r] = KeyUse!Idle]
    BY <1>4 DEF KeyUse!RevokeAPIKey, KeyUse!Answered
  <2> HIDE DEF new
  <2>3. /\ keyRow' \in [ApiKeys -> RowType]
        /\ \A j \in revoked' : j \in ApiKeys => keyRow'[j].state # "live"
    BY <1>0, <1>r, <2>1, <2>2
  <2> QED BY <2>2, <2>3, AccessConstants, RequestStep
<1>5. ASSUME NEW t \in touches, KeyUse!UpdateLastUsed(t) PROVE AccessInv'
  BY <1>0, <1>5, KeyRowStep DEF KeyUse!UpdateLastUsed, KeyUse!Touch, AccessInv
<1>6. ASSUME NEW r \in KeyRequests, KeyUse!ResolveKey(r) PROVE AccessInv'
  <2> DEFINE sub == KeyUse!KeySubject(KeyUser[reqs[r].key], reqs[r].row.scopes)
  <2> DEFINE new == [reqs[r] EXCEPT !.pc = "subject", !.subject = sub]
  <2>1. reqs[r].pc = "key" /\ reqs[r].key \in ApiKeys /\ ~reqs[r].late /\ reqs[r] \in ReqType
    BY <1>0, <1>6 DEF KeyUse!ResolveKey, AccessInv
  <2>2. sub \in SubjectType
    <3>1. KeyUser[reqs[r].key] \in KeyUse!KeyUsers
      BY <2>1 DEF KeyUse!KeyUsers
    <3>2. reqs[r].row.scopes \in ScopeSets \cup {{}}
      BY <2>1 DEF ReqType, RowType
    <3> QED BY <3>1, <3>2 DEF KeyUse!KeySubject, SubjectType
  <2>3. reqs' = [reqs EXCEPT ![r] = new] /\ UNCHANGED <<keyRow, revoked>>
    BY <1>6 DEF KeyUse!ResolveKey
  <2> HIDE DEF sub
  <2>4. /\ new \in ReqType /\ new.pc = "subject" /\ new.key = reqs[r].key /\ new.late = reqs[r].late
        /\ new.row = reqs[r].row /\ new.subject = sub
    BY <2>1, <2>2 DEF ReqType
  <2> HIDE DEF new
  <2> QED BY <1>0, <1>r, <2>1, <2>3, <2>4, RequestStep DEF sub
<1>7. ASSUME NEW r \in KeyRequests, KeyUse!RequirePermission(r) PROVE AccessInv'
  <2> DEFINE res == IF KeyUse!Authorize(reqs[r].subject, reqs[r].wants) THEN "admitted" ELSE "denied"
  <2> DEFINE new == [reqs[r] EXCEPT !.pc = res]
  <2>1. reqs[r].pc = "subject" /\ ~reqs[r].late /\ reqs[r] \in ReqType
    BY <1>0, <1>7 DEF KeyUse!RequirePermission, AccessInv
  <2>2. reqs[r].key # "" => /\ reqs[r].key \in ApiKeys
                            /\ reqs[r].subject = KeyUse!KeySubject(KeyUser[reqs[r].key], reqs[r].row.scopes)
    BY <2>1 DEF AccessInv
  <2>3. reqs' = [reqs EXCEPT ![r] = new] /\ UNCHANGED <<keyRow, revoked>>
    BY <1>7 DEF KeyUse!RequirePermission
  <2>4. /\ res \in {"admitted", "denied"}
        /\ res = "admitted" => KeyUse!Authorize(reqs[r].subject, reqs[r].wants)
    OBVIOUS
  <2> HIDE DEF res
  <2>5. /\ new \in ReqType /\ new.pc = res /\ new.key = reqs[r].key /\ new.late = reqs[r].late
        /\ new.row = reqs[r].row /\ new.subject = reqs[r].subject /\ new.wants = reqs[r].wants
    BY <2>1, <2>4 DEF ReqType
  <2> HIDE DEF new
  <2> QED BY <1>0, <1>r, <2>1, <2>2, <2>3, <2>4, <2>5, RequestStep
<1>8. ASSUME NEW r \in KeyRequests, NEW p \in Wanted \cup {KeyUse!Open}, NEW k \in ApiKeys, KeyUse!LookupKey(r, k, p) PROVE AccessInv'
  <2> DEFINE res == IF KeyUse!IsValid(keyRow[k]) THEN "key" ELSE "denied"
  <2> DEFINE new == [KeyUse!Idle EXCEPT !.pc = res, !.key = k, !.row = keyRow[k], !.wants = p,
                                 !.late = k \in revoked]
  <2>1. reqs' = [reqs EXCEPT ![r] = new] /\ UNCHANGED <<keyRow, revoked>>
    BY <1>8 DEF KeyUse!LookupKey
  <2>2. res \in {"key", "denied"} /\ (res = "key" => keyRow[k].state = "live")
    BY DEF KeyUse!IsValid
  <2>3. res = "key" => k \notin revoked
    BY <2>2 DEF AccessInv
  <2> HIDE DEF res
  <2>4. keyRow[k] \in RowType /\ (k \in revoked) \in BOOLEAN
    BY <1>0
  <2>5. new \in ReqType /\ new.pc = res /\ new.key = k /\ new.late = (k \in revoked)
    BY <2>2, <2>4, AccessConstants DEF ReqType
  <2> HIDE DEF new
  <2> QED BY <1>0, <1>r, <2>1, <2>2, <2>3, <2>5, RequestStep
<1>9. ASSUME NEW r \in KeyRequests, NEW p \in Wanted \cup {KeyUse!Open}, NEW u \in KeyUse!KeyUsers, KeyUse!ValidateAccessToken(r, u, p)
      PROVE  AccessInv'
  <2> DEFINE sub == [user |-> u, roles |-> RolesOf[u], perms |-> KeyUse!GetUserPermissions(u), scopes |-> {}]
  <2> DEFINE new == [KeyUse!Idle EXCEPT !.pc = "subject", !.wants = p, !.subject = sub]
  <2>1. reqs' = [reqs EXCEPT ![r] = new] /\ UNCHANGED <<keyRow, revoked>>
    BY <1>9 DEF KeyUse!ValidateAccessToken
  <2>2. sub \in SubjectType
    BY DEF SubjectType
  <2> HIDE DEF sub
  <2>3. new \in ReqType /\ new.pc = "subject" /\ new.key = "" /\ ~new.late
    BY <2>2, AccessConstants DEF ReqType
  <2> HIDE DEF new
  <2> QED BY <1>0, <1>r, <2>1, <2>3, RequestStep
<1>10. ASSUME NEW r \in KeyRequests, KeyUse!NoPermissionAsked(r) PROVE AccessInv'
  <2> DEFINE new == [reqs[r] EXCEPT !.pc = "admitted"]
  <2>1. /\ reqs[r].pc = "subject" /\ reqs[r].wants = KeyUse!Open /\ ~reqs[r].late /\ reqs[r] \in ReqType
        /\ reqs' = [reqs EXCEPT ![r] = new] /\ UNCHANGED <<keyRow, revoked>>
    BY <1>0, <1>10 DEF KeyUse!NoPermissionAsked, AccessInv
  <2>2. reqs[r].key # "" => /\ reqs[r].key \in ApiKeys
                            /\ reqs[r].subject = KeyUse!KeySubject(KeyUser[reqs[r].key], reqs[r].row.scopes)
    BY <2>1 DEF AccessInv
  <2>3. /\ new \in ReqType /\ new.pc = "admitted" /\ new.key = reqs[r].key /\ new.late = reqs[r].late
        /\ new.row = reqs[r].row /\ new.subject = reqs[r].subject /\ new.wants = reqs[r].wants
    BY <2>1 DEF ReqType
  <2> HIDE DEF new
  <2> QED BY <1>0, <1>r, <2>1, <2>2, <2>3, RequestStep
<1> QED BY <1>1, <1>2, <1>3, <1>4, <1>5, <1>6, <1>7, <1>8, <1>9, <1>10 DEF KeyUse!Next

LEMMA AccessInvariant == KeyUse!Spec => []AccessInv
<1>1. KeyUse!Init => AccessInv
  BY AccessConstants DEF KeyUse!Init, AccessInv
<1> QED BY <1>1, AccessStep, PTL DEF KeyUse!Spec

\* A revoked key admits no request that begins after its revocation was
\* answered, whatever goroutines of earlier requests still write to its row:
\* for any number of keys, requests and roles, over either store.
THEOREM RevocationCorrect == KeyUse!Spec => []KeyUse!RevokedIsFinal
<1>1. AccessInv => KeyUse!RevokedIsFinal
  BY DEF AccessInv, KeyUse!RevokedIsFinal
<1> QED BY <1>1, AccessInvariant, PTL

\* On a route that asks for a permission, a request with a key does what the key's
\* scopes and its user's permissions both allow, and nothing else, also when the
\* user is the superadmin.
THEOREM ScopesCorrect == KeyUse!Spec => []KeyUse!KeyStaysInScope
<1>1. AccessInv => KeyUse!KeyStaysInScope
  <2> SUFFICES ASSUME AccessInv, NEW r \in KeyRequests, reqs[r].pc = "admitted", reqs[r].key # "",
                      reqs[r].wants # KeyUse!Open
               PROVE  /\ reqs[r].row.scopes = {} \/ KeyUse!Covers(reqs[r].row.scopes, reqs[r].wants)
                      /\ KeyUse!Covers(KeyUse!GetUserPermissions(KeyUser[reqs[r].key]), reqs[r].wants)
    BY DEF KeyUse!KeyStaysInScope
  <2>1. KeyUse!Authorize(KeyUse!KeySubject(KeyUser[reqs[r].key], reqs[r].row.scopes), reqs[r].wants)
    BY DEF AccessInv
  <2> QED BY <2>1, KeyAuthorized
<1> QED BY <1>1, AccessInvariant, PTL

-----------------------------------------------------------------------------
(***************************************************************************)
(* Accounts and sessions. One user becomes superadmin because a server's   *)
(* registrations hold a lock from the count to the grant, which is why the *)
(* theorem is about one server. A refresh family has one live session, and *)
(* one more for every exchange that overlaps another: the invariant counts *)
(* the live sessions of a family against the exchanges under way and the   *)
(* slack they leave.                                                       *)
(***************************************************************************)
\* The cardinality that the module refers to is that of FiniteSets.
LEMMA AccountsCard ==
  ASSUME NEW S
  PROVE  Accounts!Cardinality(S) = Cardinality(S)
BY DEF Cardinality, Accounts!Cardinality

\* The empty string: no name, no secret.
Blank == ""

AccountType ==
  [known : BOOLEAN, roles : SUBSET {"superadmin", "customer"}, twofa : BOOLEAN, secret : Secrets \cup {Blank}]

IdCallType ==
  [pc : {"idle", "counted", "granting", "challenged", "issuing", "reused", "rotating", "revoking", "writing"},
   op : {Blank, "register", "login", "refresh", "enable", "disable"}, user : Users \cup {Blank},
   server : Servers \cup {Blank}, first : BOOLEAN, secret : Secrets \cup {Blank}, session : Nat]

SessionType == [user : Users, fam : Nat, revoked : BOOLEAN]

\* What a call that is under way refers to is there, and a family is named
\* by a session that is not younger.
IdentityType ==
  /\ account \in [Users -> AccountType] /\ logins \in [Calls -> IdCallType]
  /\ lock \in [Servers -> Calls \cup {Blank}]
  /\ sessions \in Seq(SessionType) /\ Len(sessions) <= MaxSessions
  /\ slack \in [1 .. MaxSessions -> Nat]
  /\ \A n \in DOMAIN sessions : sessions[n].fam \in 1 .. n

\* A call that writes the second factor has the secret that goes with it.
CallSound(x, last) ==
  /\ x.pc # "idle" => x.user \in Users
  /\ x.pc \in {"counted", "granting"} => x.server \in Servers
  /\ x.op = "refresh" <=> x.pc \in {"reused", "rotating", "revoking"}
  /\ x.op = "refresh" => x.session \in 1 .. last
  /\ x.pc = "writing" => (x.op = "enable" <=> x.secret \in Secrets)

FactorInv ==
  /\ IdentityType
  /\ \A c \in Calls : CallSound(logins[c], Len(sessions))
  /\ Accounts!ChallengeAnswerable

\* Register: the mutex is held from the count to the grant, and what was
\* counted stays true meanwhile.
RegisterInv ==
  /\ \A c \in Calls : logins[c].pc \in {"counted", "granting"} => lock[logins[c].server] = c
  /\ \A c \in Calls : logins[c].pc = "granting" => logins[c].user \in Users /\ account[logins[c].user].known
  /\ \A u \in Users : account[u].roles # {} => account[u].known
  /\ \A c \in Calls : logins[c].first =>
       \/ logins[c].user \in uncounted
       \/ /\ logins[c].pc = "counted" => \A u \in Users : ~account[u].known
          /\ logins[c].pc = "granting" => \A u \in Users : account[u].roles = {}
  /\ \A u, v \in Users \ uncounted :
       "superadmin" \in account[u].roles /\ "superadmin" \in account[v].roles => u = v

LEMMA NoCallTyped ==
  /\ Accounts!NoCall \in IdCallType /\ Accounts!NoCall.pc = "idle" /\ ~Accounts!NoCall.first /\ Accounts!NoCall.op = Blank /\ Blank # "refresh"
  /\ Accounts!NoCall.secret = Blank /\ Accounts!NoCall.session = 0
BY DEF Accounts!NoCall, IdCallType, Blank

\* One step of one call: the call's record alone changes.
LEMMA CallUpdate ==
  ASSUME logins \in [Calls -> IdCallType], NEW c \in Calls, NEW new \in IdCallType,
         logins' = [logins EXCEPT ![c] = new]
  PROVE  /\ logins' \in [Calls -> IdCallType] /\ logins'[c] = new
         /\ \A d \in Calls \ {c} : logins'[d] = logins[d]
OBVIOUS

\* Which step changed the calls, and how.  The record of the call that took
\* the step is new; the rest of the lemmas go by its pc.
LEMMA SoundLater ==
  ASSUME NEW x, NEW m \in Nat, NEW n \in Nat, m <= n, CallSound(x, m)
  PROVE  CallSound(x, n)
BY DEF CallSound

LEMMA SessionFacts ==
  ASSUME IdentityType
  PROVE  /\ sessions \in Seq(SessionType) /\ Len(sessions) \in Nat /\ DOMAIN sessions = 1 .. Len(sessions)
         /\ \A k \in DOMAIN sessions : sessions[k] \in SessionType
<1>1. sessions \in Seq(SessionType)
  BY DEF IdentityType
<1> QED BY <1>1

\* A new session, at the end of the table.
LEMMA SessionAdded ==
  ASSUME IdentityType, MaxSessions \in Nat, Len(sessions) < MaxSessions, NEW u \in Users,
         NEW f \in 1 .. Len(sessions) + 1, sessions' = Accounts!NewSession(u, f)
  PROVE  /\ sessions' \in Seq(SessionType) /\ Len(sessions') = Len(sessions) + 1
         /\ Len(sessions) \in Nat /\ Len(sessions') <= MaxSessions
         /\ DOMAIN sessions = 1 .. Len(sessions) /\ DOMAIN sessions' = 1 .. Len(sessions) + 1
         /\ \A n \in 1 .. Len(sessions) : sessions'[n] = sessions[n]
         /\ sessions'[Len(sessions) + 1].fam = f /\ ~sessions'[Len(sessions) + 1].revoked
         /\ \A n \in DOMAIN sessions' : sessions'[n].fam \in 1 .. n
<1> DEFINE new == [user |-> u, fam |-> f, revoked |-> FALSE]
<1>1. sessions \in Seq(SessionType) /\ Len(sessions) \in Nat /\ DOMAIN sessions = 1 .. Len(sessions)
  BY SessionFacts
<1>2. new \in SessionType /\ new.fam = f /\ ~new.revoked
  BY <1>1 DEF SessionType
<1>3. sessions' = Append(sessions, new)
  BY DEF Accounts!NewSession
<1> HIDE DEF new
<1>4. /\ sessions' \in Seq(SessionType) /\ Len(sessions') = Len(sessions) + 1
      /\ \A n \in 1 .. Len(sessions) : sessions'[n] = sessions[n]
      /\ sessions'[Len(sessions) + 1] = new
  BY <1>1, <1>2, <1>3
<1>5. \A n \in DOMAIN sessions : sessions[n].fam \in 1 .. n
  BY DEF IdentityType
<1>6. DOMAIN sessions' = 1 .. Len(sessions) + 1
  BY <1>1, <1>4
<1>7. \A n \in DOMAIN sessions' : sessions'[n].fam \in 1 .. n
  BY <1>1, <1>2, <1>4, <1>5, <1>6
<1> QED BY <1>1, <1>2, <1>4, <1>6, <1>7

\* Sessions are revoked and nothing else changes in the table.
SessionsRevoked ==
  /\ sessions' \in Seq(SessionType) /\ DOMAIN sessions' = DOMAIN sessions /\ Len(sessions') = Len(sessions)
  /\ \A n \in DOMAIN sessions :
       sessions'[n].fam = sessions[n].fam /\ (sessions[n].revoked => sessions'[n].revoked)

LEMMA OneRevoked ==
  ASSUME IdentityType, NEW k \in DOMAIN sessions, sessions' = [sessions EXCEPT ![k].revoked = TRUE]
  PROVE  SessionsRevoked /\ sessions'[k].revoked
<1> DEFINE new == [sessions[k] EXCEPT !.revoked = TRUE]
<1>1. sessions \in Seq(SessionType) /\ sessions[k] \in SessionType
  BY SessionFacts
<1>2. sessions' = [sessions EXCEPT ![k] = new]
  OBVIOUS
<1>3. new \in SessionType /\ new.fam = sessions[k].fam /\ new.revoked
  BY <1>1 DEF SessionType
<1> HIDE DEF new
<1>4. /\ sessions' \in Seq(SessionType) /\ Len(sessions') = Len(sessions) /\ DOMAIN sessions' = DOMAIN sessions
      /\ \A n \in DOMAIN sessions : sessions'[n] = IF n = k THEN new ELSE sessions[n]
  <2> DEFINE t == [sessions EXCEPT ![k] = new]
  <2>1. /\ t \in Seq(SessionType) /\ Len(t) = Len(sessions) /\ DOMAIN t = DOMAIN sessions
        /\ \A n \in DOMAIN sessions : t[n] = IF n = k THEN new ELSE sessions[n]
    BY <1>1, <1>3, ReplacedInSeq
  <2> HIDE DEF t
  <2>2. sessions' = t
    BY <1>2 DEF t
  <2> QED BY <2>1, <2>2
<1> QED BY <1>3, <1>4 DEF SessionsRevoked

LEMMA FamilyRevoked ==
  ASSUME IdentityType, NEW f,
         sessions' = [k \in DOMAIN sessions |-> [sessions[k] EXCEPT !.revoked = @ \/ sessions[k].fam = f]]
  PROVE  SessionsRevoked
<1>1. sessions \in Seq(SessionType) /\ Len(sessions) \in Nat /\ DOMAIN sessions = 1 .. Len(sessions)
  BY SessionFacts
<1>2. ASSUME NEW k \in DOMAIN sessions
      PROVE  /\ sessions'[k] \in SessionType /\ sessions'[k].fam = sessions[k].fam
             /\ sessions[k].revoked => sessions'[k].revoked
  <2> DEFINE rev == sessions[k].revoked \/ sessions[k].fam = f
  <2>1. sessions[k] \in SessionType /\ rev \in BOOLEAN
    BY SessionFacts
  <2>2. sessions'[k] = [sessions[k] EXCEPT !.revoked = rev]
    OBVIOUS
  <2>3. sessions[k].revoked => rev
    OBVIOUS
  <2> HIDE DEF rev
  <2> QED BY <2>1, <2>2, <2>3 DEF SessionType
<1>3. DOMAIN sessions' = 1 .. Len(sessions)
  BY <1>1
<1>4. sessions' \in [1 .. Len(sessions) -> SessionType]
  <2>1. sessions' = [k \in 1 .. Len(sessions) |-> sessions'[k]]
    BY <1>1
  <2> QED BY <1>1, <1>2, <2>1
<1>5. sessions' \in Seq(SessionType) /\ Len(sessions') = Len(sessions)
  BY <1>1, <1>4
<1> QED BY <1>1, <1>2, <1>3, <1>5 DEF SessionsRevoked

\* One call moves: its new record is sound, the tables keep their types.
LEMMA CallMoves ==
  ASSUME FactorInv, NEW c \in Calls, NEW new \in IdCallType, logins' = [logins EXCEPT ![c] = new],
         CallSound(new, Len(sessions')), Len(sessions) <= Len(sessions'), Len(sessions') <= MaxSessions,
         MaxSessions \in Nat,
         account' \in [Users -> AccountType], Accounts!ChallengeAnswerable', lock' \in [Servers -> Calls \cup {Blank}],
         sessions' \in Seq(SessionType), slack' \in [1 .. MaxSessions -> Nat],
         \A n \in DOMAIN sessions' : sessions'[n].fam \in 1 .. n
  PROVE  FactorInv'
<1>1. logins \in [Calls -> IdCallType] /\ sessions \in Seq(SessionType)
  BY DEF FactorInv, IdentityType
<1>2. logins' \in [Calls -> IdCallType] /\ logins'[c] = new /\ \A d \in Calls \ {c} : logins'[d] = logins[d]
  BY <1>1, CallUpdate
<1>3. Len(sessions) \in Nat /\ Len(sessions') \in Nat
  BY <1>1, LenIsNat
<1>4. \A d \in Calls : CallSound(logins'[d], Len(sessions'))
  BY <1>2, <1>3, SoundLater DEF FactorInv
<1>5. IdentityType'
  BY <1>2 DEF IdentityType
<1> QED BY <1>4, <1>5 DEF FactorInv

\* The same when the call alone changes, or the call and the table of users.
LEMMA CallOnly ==
  ASSUME FactorInv, NEW c \in Calls, NEW new \in IdCallType, logins' = [logins EXCEPT ![c] = new],
         CallSound(new, Len(sessions)), MaxSessions \in Nat, UNCHANGED <<account, lock, sessions, slack>>
  PROVE  FactorInv'
<1>1. IdentityType /\ Accounts!ChallengeAnswerable
  BY DEF FactorInv
<1>2. Accounts!ChallengeAnswerable'
  BY <1>1 DEF Accounts!ChallengeAnswerable
<1>3. Len(sessions) \in Nat
  BY <1>1, SessionFacts
<1>4. /\ account' \in [Users -> AccountType] /\ lock' \in [Servers -> Calls \cup {Blank}]
      /\ sessions' \in Seq(SessionType) /\ Len(sessions') = Len(sessions) /\ Len(sessions') <= MaxSessions
      /\ slack' \in [1 .. MaxSessions -> Nat] /\ \A n \in DOMAIN sessions' : sessions'[n].fam \in 1 .. n
  BY <1>1 DEF IdentityType
<1>5. Len(sessions) <= Len(sessions')
  <2>1. \A m \in Nat : m <= m
    OBVIOUS
  <2> QED BY <1>3, <1>4, <2>1, Zenon
<1>6. CallSound(new, Len(sessions'))
  BY <1>4
<1> QED BY <1>2, <1>4, <1>5, <1>6, CallMoves

\* The type of one account.
LEMMA AccountUpdate ==
  ASSUME FactorInv, NEW u \in Users, NEW acc \in AccountType, account' = [account EXCEPT ![u] = acc],
         acc.twofa <=> acc.secret \in Secrets
  PROVE  /\ account' \in [Users -> AccountType] /\ Accounts!ChallengeAnswerable'
         /\ \A v \in Users : account'[v] = IF v = u THEN acc ELSE account[v]
<1>1. account \in [Users -> AccountType]
  BY DEF FactorInv, IdentityType
<1>2. account' \in [Users -> AccountType] /\ \A v \in Users : account'[v] = IF v = u THEN acc ELSE account[v]
  BY <1>1
<1> QED BY <1>2 DEF FactorInv, Accounts!ChallengeAnswerable

LEMMA FactorStep ==
  ASSUME Blank \notin Secrets, MaxSessions \in Nat
  PROVE  FactorInv /\ [Accounts!Next]_(Accounts!idVars) => FactorInv'
<1> SUFFICES ASSUME FactorInv, [Accounts!Next]_(Accounts!idVars) PROVE FactorInv'
  OBVIOUS
<1>0. /\ IdentityType /\ account \in [Users -> AccountType] /\ logins \in [Calls -> IdCallType]
      /\ lock \in [Servers -> Calls \cup {Blank}] /\ slack \in [1 .. MaxSessions -> Nat]
      /\ Len(sessions) <= MaxSessions /\ \A n \in DOMAIN sessions : sessions[n].fam \in 1 .. n
  BY DEF FactorInv, IdentityType
<1>s. /\ sessions \in Seq(SessionType) /\ Len(sessions) \in Nat /\ DOMAIN sessions = 1 .. Len(sessions)
      /\ \A k \in DOMAIN sessions : sessions[k] \in SessionType
  BY <1>0, SessionFacts
<1>l. Len(sessions) \in Nat
  BY <1>s
<1>m. Len(sessions) <= MaxSessions
  BY <1>0
<1>a. \A c \in Calls : CallSound(logins[c], Len(sessions)) /\ logins[c] \in IdCallType
  BY <1>0 DEF FactorInv
<1>b. \A u \in Users : account[u] \in AccountType /\ (account[u].twofa <=> account[u].secret \in Secrets)
  BY <1>0 DEF FactorInv, Accounts!ChallengeAnswerable
<1>e. \A n : CallSound(Accounts!NoCall, n) /\ Accounts!NoCall \in IdCallType
  BY NoCallTyped DEF CallSound
\* A call with the table of users.
<1>u. ASSUME NEW c \in Calls, NEW new \in IdCallType, logins' = [logins EXCEPT ![c] = new],
             CallSound(new, Len(sessions)), account' \in [Users -> AccountType], Accounts!ChallengeAnswerable',
             lock' \in [Servers -> Calls \cup {Blank}], UNCHANGED <<sessions, slack>>
      PROVE  FactorInv'
  <2>1. sessions' = sessions /\ slack' = slack
    BY <1>u
  <2>2. Len(sessions) <= Len(sessions')
    BY <1>l, <2>1
  <2> QED BY <1>0, <1>s, <1>u, <2>1, <2>2, CallMoves
\* A call with sessions that are revoked.
<1>r. ASSUME NEW c \in Calls, logins' = [logins EXCEPT ![c] = Accounts!NoCall], SessionsRevoked,
             UNCHANGED <<account, lock, slack>>
      PROVE  FactorInv'
  <2>1. /\ sessions' \in Seq(SessionType) /\ Len(sessions') = Len(sessions)
        /\ \A n \in DOMAIN sessions' : sessions'[n].fam \in 1 .. n
    BY <1>0, <1>r DEF SessionsRevoked
  <2>2. Len(sessions) <= Len(sessions') /\ Len(sessions') <= MaxSessions
    BY <1>l, <1>m, <2>1
  <2>3. Accounts!ChallengeAnswerable'
    BY <1>r DEF FactorInv, Accounts!ChallengeAnswerable
  <2> QED BY <1>0, <1>e, <1>r, <2>1, <2>2, <2>3, CallMoves
<1>1. CASE UNCHANGED Accounts!idVars
  BY <1>1 DEF Accounts!idVars, FactorInv, IdentityType, Accounts!ChallengeAnswerable
<1>2. ASSUME NEW c \in Calls, NEW s \in Servers, NEW u \in Users, Accounts!RegisterCount(c, s, u) PROVE FactorInv'
  <2>a. PICK fst \in BOOLEAN : logins' = [logins EXCEPT ![c] = [Accounts!NoCall EXCEPT
           !.pc = "counted", !.op = "register", !.user = u, !.server = s, !.first = fst]]
    BY <1>2 DEF Accounts!RegisterCount
  <2> DEFINE new == [Accounts!NoCall EXCEPT !.pc = "counted", !.op = "register", !.user = u, !.server = s, !.first = fst]
  <2>1. /\ logins' = [logins EXCEPT ![c] = new] /\ UNCHANGED <<account, sessions, slack>>
        /\ lock' = [lock EXCEPT ![s] = c]
    BY <1>2, <2>a DEF Accounts!RegisterCount
  <2>3. new \in IdCallType /\ new.pc = "counted" /\ new.user = u /\ new.server = s /\ new.op = "register"
    BY NoCallTyped DEF IdCallType
  <2> HIDE DEF new
  <2>4. CallSound(new, Len(sessions))
    BY <2>3 DEF CallSound
  <2>5. lock' \in [Servers -> Calls \cup {Blank}] /\ account' \in [Users -> AccountType] /\ Accounts!ChallengeAnswerable'
    BY <1>0, <2>1 DEF FactorInv, Accounts!ChallengeAnswerable
  <2> QED BY <1>u, <2>1, <2>3, <2>4, <2>5
<1>3. ASSUME NEW c \in Calls, Accounts!RegisterCreate(c) PROVE FactorInv'
  <2>0. /\ logins[c].pc = "counted" /\ logins[c].user \in Users /\ logins[c].server \in Servers
        /\ logins[c].op # "refresh" /\ UNCHANGED <<sessions, slack>>
    BY <1>a, <1>3 DEF CallSound, Accounts!RegisterCreate
  <2>1. CASE Accounts!Known(logins[c].user)
    <3>1. /\ logins' = [logins EXCEPT ![c] = Accounts!NoCall] /\ UNCHANGED account
          /\ lock' = [lock EXCEPT ![logins[c].server] = Blank]
      BY <1>3, <2>1 DEF Accounts!RegisterCreate, Accounts!Finish, Blank
    <3>2. lock' \in [Servers -> Calls \cup {Blank}] /\ account' \in [Users -> AccountType] /\ Accounts!ChallengeAnswerable'
      BY <1>0, <2>0, <3>1 DEF FactorInv, Accounts!ChallengeAnswerable
    <3> QED BY <1>e, <1>u, <2>0, <3>1, <3>2
  <2>2. CASE ~Accounts!Known(logins[c].user)
    <3> DEFINE u == logins[c].user
    <3> DEFINE new == [logins[c] EXCEPT !.pc = "granting"]
    <3> DEFINE acc == [account[u] EXCEPT !.known = TRUE]
    <3>1. logins' = [logins EXCEPT ![c] = new] /\ account' = [account EXCEPT ![u] = acc] /\ lock' = lock
      BY <1>3, <2>2 DEF Accounts!RegisterCreate
    <3>2. /\ new \in IdCallType /\ new.pc = "granting" /\ new.user = u /\ new.server = logins[c].server
          /\ new.op = logins[c].op
      BY <1>a DEF IdCallType
    <3>3. u \in Users
      BY <2>0
    <3> HIDE DEF new, u
    <3>4. acc \in AccountType /\ acc.twofa = account[u].twofa /\ acc.secret = account[u].secret
      BY <1>b, <3>3 DEF AccountType
    <3> HIDE DEF acc
    <3>5. CallSound(new, Len(sessions))
      BY <2>0, <3>2, <3>3 DEF CallSound
    <3>6. account' \in [Users -> AccountType] /\ Accounts!ChallengeAnswerable'
      BY <1>b, <3>1, <3>3, <3>4, AccountUpdate
    <3> QED BY <1>0, <1>u, <2>0, <3>1, <3>2, <3>5, <3>6
  <2> QED BY <2>1, <2>2
<1>4. ASSUME NEW c \in Calls, Accounts!RegisterGrant(c) PROVE FactorInv'
  <2> DEFINE u == logins[c].user
  <2>0. logins[c].pc = "granting" /\ u \in Users /\ logins[c].server \in Servers
    BY <1>a, <1>4 DEF CallSound, Accounts!RegisterGrant
  <2>1. PICK r \in {{}, {IF logins[c].first THEN "superadmin" ELSE "customer"}} :
          account' = [account EXCEPT ![u].roles = r]
    BY <1>4 DEF Accounts!RegisterGrant
  <2> DEFINE acc == [account[u] EXCEPT !.roles = r]
  <2>2. r \in SUBSET {"superadmin", "customer"}
    BY <2>1
  <2>3. account' = [account EXCEPT ![u] = acc]
    BY <2>1
  <2>4. /\ logins' = [logins EXCEPT ![c] = Accounts!NoCall] /\ lock' = [lock EXCEPT ![logins[c].server] = Blank]
        /\ UNCHANGED <<sessions, slack>>
    BY <1>4 DEF Accounts!RegisterGrant, Accounts!Finish, Blank
  <2>5. lock' \in [Servers -> Calls \cup {Blank}]
    BY <1>0, <2>0, <2>4
  <2> HIDE DEF u
  <2>6. acc \in AccountType /\ acc.twofa = account[u].twofa /\ acc.secret = account[u].secret
    BY <1>b, <2>0, <2>2 DEF AccountType
  <2> HIDE DEF acc
  <2>7. account' \in [Users -> AccountType] /\ Accounts!ChallengeAnswerable'
    BY <1>b, <2>0, <2>3, <2>6, AccountUpdate
  <2> QED BY <1>e, <1>u, <2>4, <2>5, <2>7
<1>5. ASSUME NEW c \in Calls, NEW u \in Users, Accounts!Login(c, u) PROVE FactorInv'
  <2> DEFINE new == [Accounts!NoCall EXCEPT !.user = u, !.op = "login",
                                   !.pc = IF account[u].twofa THEN "challenged" ELSE "issuing"]
  <2>1. logins' = [logins EXCEPT ![c] = new] /\ UNCHANGED <<account, lock, sessions, slack>>
    BY <1>5 DEF Accounts!Login
  <2>2. new \in IdCallType /\ new.pc \in {"challenged", "issuing"} /\ new.user = u /\ new.op = "login"
    BY NoCallTyped DEF IdCallType
  <2> HIDE DEF new
  <2>3. CallSound(new, Len(sessions))
    BY <2>2 DEF CallSound
  <2> QED BY <2>1, <2>2, <2>3, CallOnly
<1>6. ASSUME NEW c \in Calls, NEW u \in Users, Accounts!Disable2FARead(c, u) PROVE FactorInv'
  <2> DEFINE new == [Accounts!NoCall EXCEPT !.op = "disable", !.pc = "writing", !.user = u]
  <2>1. logins' = [logins EXCEPT ![c] = new] /\ UNCHANGED <<account, lock, sessions, slack>>
    BY <1>6 DEF Accounts!Disable2FARead
  <2>2. new \in IdCallType /\ new.pc = "writing" /\ new.user = u /\ new.op = "disable" /\ new.secret = Blank
    BY NoCallTyped DEF IdCallType
  <2> HIDE DEF new
  <2>3. CallSound(new, Len(sessions))
    BY <2>2 DEF CallSound
  <2> QED BY <2>1, <2>2, <2>3, CallOnly
<1>7. ASSUME NEW c \in Calls, NEW u \in Users, NEW x \in Secrets, Accounts!Enable2FARead(c, u, x) PROVE FactorInv'
  <2> DEFINE new == [Accounts!NoCall EXCEPT !.op = "enable", !.pc = "writing", !.user = u, !.secret = x]
  <2>1. logins' = [logins EXCEPT ![c] = new] /\ UNCHANGED <<account, lock, sessions, slack>>
    BY <1>7 DEF Accounts!Enable2FARead
  <2>2. new \in IdCallType /\ new.pc = "writing" /\ new.user = u /\ new.op = "enable" /\ new.secret = x
    BY NoCallTyped DEF IdCallType
  <2> HIDE DEF new
  <2>3. CallSound(new, Len(sessions))
    BY <2>2 DEF CallSound
  <2> QED BY <2>1, <2>2, <2>3, CallOnly
<1>8. ASSUME NEW c \in Calls, Accounts!VerifyTOTP(c) PROVE FactorInv'
  <2> DEFINE new == [logins[c] EXCEPT !.pc = "issuing"]
  <2>1. logins[c].pc = "challenged" /\ logins[c].user \in Users /\ logins[c].op # "refresh"
    BY <1>a, <1>8 DEF Accounts!VerifyTOTP, CallSound
  <2>2. new \in IdCallType /\ new.pc = "issuing" /\ new.user = logins[c].user /\ new.op = logins[c].op
    BY <1>a DEF IdCallType
  <2>3. logins' = [logins EXCEPT ![c] = new] \/ logins' = [logins EXCEPT ![c] = Accounts!NoCall]
    BY <1>8 DEF Accounts!VerifyTOTP, Accounts!Finish
  <2>4. UNCHANGED <<account, lock, sessions, slack>>
    BY <1>8 DEF Accounts!VerifyTOTP
  <2> HIDE DEF new
  <2>5. CallSound(new, Len(sessions))
    BY <2>1, <2>2 DEF CallSound
  <2>6. CASE logins' = [logins EXCEPT ![c] = new]
    BY <2>2, <2>4, <2>5, <2>6, CallOnly
  <2>7. CASE logins' = [logins EXCEPT ![c] = Accounts!NoCall]
    BY <1>e, <2>4, <2>7, CallOnly
  <2> QED BY <2>3, <2>6, <2>7
<1>9. ASSUME NEW c \in Calls, Accounts!Write2FA(c) PROVE FactorInv'
  <2> DEFINE u == logins[c].user
  <2> DEFINE sec == logins[c].secret
  <2> DEFINE on == logins[c].op = "enable"
  <2> DEFINE acc == [account[u] EXCEPT !.twofa = on, !.secret = sec]
  <2>1. u \in Users /\ (on <=> sec \in Secrets)
    BY <1>a, <1>9 DEF CallSound, Accounts!Write2FA
  <2>2. sec \in Secrets \cup {Blank} /\ on \in BOOLEAN
    BY <1>a DEF IdCallType
  <2>3. account' = [account EXCEPT ![u] = acc] /\ logins' = [logins EXCEPT ![c] = Accounts!NoCall]
    BY <1>9 DEF Accounts!Write2FA, Accounts!Update2FA, Accounts!Finish
  <2>4. UNCHANGED <<lock, sessions, slack>>
    BY <1>9 DEF Accounts!Write2FA
  <2> HIDE DEF on, u, sec
  <2>5. acc \in AccountType /\ acc.twofa = on /\ acc.secret = sec
    BY <1>b, <2>1, <2>2 DEF AccountType
  <2> HIDE DEF acc
  <2>6. account' \in [Users -> AccountType] /\ Accounts!ChallengeAnswerable'
    BY <2>1, <2>3, <2>5, AccountUpdate
  <2> QED BY <1>0, <1>e, <1>u, <2>3, <2>4, <2>6
<1>10. ASSUME NEW c \in Calls, Accounts!IssueTokens(c) PROVE FactorInv'
  <2>1. logins[c].user \in Users
    BY <1>a, <1>10 DEF CallSound, Accounts!IssueTokens
  <2>2. /\ Len(sessions) < MaxSessions /\ sessions' = Accounts!NewSession(logins[c].user, Len(sessions) + 1)
        /\ logins' = [logins EXCEPT ![c] = Accounts!NoCall] /\ UNCHANGED <<account, lock, slack>>
    BY <1>10 DEF Accounts!IssueTokens, Accounts!Finish
  <2>3. Len(sessions) + 1 \in 1 .. Len(sessions) + 1
    BY <1>l
  <2>4. /\ sessions' \in Seq(SessionType) /\ Len(sessions') = Len(sessions) + 1
        /\ Len(sessions') <= MaxSessions /\ \A n \in DOMAIN sessions' : sessions'[n].fam \in 1 .. n
    BY <1>0, <2>1, <2>2, <2>3, SessionAdded
  <2>5. Len(sessions) <= Len(sessions')
    BY <1>l, <2>4
  <2>6. Accounts!ChallengeAnswerable'
    BY <2>2 DEF FactorInv, Accounts!ChallengeAnswerable
  <2> QED BY <1>0, <1>e, <2>2, <2>4, <2>5, <2>6, CallMoves
<1>11. ASSUME NEW c \in Calls, NEW n \in 1 .. MaxSessions, Accounts!RefreshRead(c, n) PROVE FactorInv'
  <2> DEFINE usr == sessions[n].user
  <2> DEFINE res == IF sessions[n].revoked THEN "reused" ELSE "rotating"
  <2> DEFINE new == [Accounts!NoCall EXCEPT !.op = "refresh", !.session = n, !.user = usr, !.pc = res]
  <2>1. logins' = [logins EXCEPT ![c] = new] /\ UNCHANGED <<account, lock, sessions>>
    BY <1>11 DEF Accounts!RefreshRead
  <2>2. n \in DOMAIN sessions /\ n \in Nat /\ n \in 1 .. Len(sessions)
    BY <1>s, <1>11 DEF Accounts!RefreshRead
  <2>3. usr \in Users
    BY <1>s, <2>2 DEF SessionType
  <2>4. res \in {"reused", "rotating"}
    OBVIOUS
  <2> HIDE DEF usr, res
  <2>5. /\ new \in IdCallType /\ new.pc = res /\ new.op = "refresh" /\ new.session = n /\ new.user = usr
    BY <2>2, <2>3, <2>4, NoCallTyped DEF IdCallType
  <2> HIDE DEF new
  <2>6. CallSound(new, Len(sessions))
    BY <2>2, <2>3, <2>4, <2>5 DEF CallSound
  <2>7. sessions[n].fam \in 1 .. MaxSessions
    BY <1>0, <1>s, <2>2
  <2>8. slack' \in [1 .. MaxSessions -> Nat]
    BY <1>0, <1>11, <2>7 DEF Accounts!RefreshRead, Accounts!Fam
  <2>9. /\ account' \in [Users -> AccountType] /\ lock' \in [Servers -> Calls \cup {Blank}] /\ Accounts!ChallengeAnswerable'
        /\ sessions' = sessions
    BY <1>0, <2>1 DEF FactorInv, Accounts!ChallengeAnswerable
  <2>10. Len(sessions) <= Len(sessions')
    BY <1>l, <2>9
  <2> QED BY <1>0, <1>s, <2>1, <2>5, <2>6, <2>8, <2>9, <2>10, CallMoves
<1>12. ASSUME NEW c \in Calls, Accounts!RevokeFamily(c) PROVE FactorInv'
  <2>1. SessionsRevoked
    BY <1>0, <1>12, FamilyRevoked DEF Accounts!RevokeFamily
  <2> QED BY <1>12, <1>r, <2>1 DEF Accounts!RevokeFamily, Accounts!Finish
<1>13. ASSUME NEW c \in Calls, Accounts!RefreshCreate(c) PROVE FactorInv'
  <2> DEFINE new == [logins[c] EXCEPT !.pc = "revoking"]
  <2>1. /\ logins[c].user \in Users /\ logins[c].session \in 1 .. Len(sessions) /\ logins[c].op = "refresh"
    BY <1>a, <1>13 DEF CallSound, Accounts!RefreshCreate
  <2>2. /\ Len(sessions) < MaxSessions /\ sessions' = Accounts!NewSession(logins[c].user, Accounts!Fam(logins[c].session))
        /\ logins' = [logins EXCEPT ![c] = new] /\ UNCHANGED <<account, lock, slack>>
    BY <1>13 DEF Accounts!RefreshCreate
  <2>3. Accounts!Fam(logins[c].session) \in 1 .. Len(sessions) + 1
    BY <1>0, <1>s, <2>1 DEF Accounts!Fam
  <2>4. /\ sessions' \in Seq(SessionType) /\ Len(sessions') = Len(sessions) + 1
        /\ Len(sessions') <= MaxSessions /\ \A n \in DOMAIN sessions' : sessions'[n].fam \in 1 .. n
    BY <1>0, <2>1, <2>2, <2>3, SessionAdded
  <2>5. Len(sessions) <= Len(sessions')
    BY <1>l, <2>4
  <2>6. Accounts!ChallengeAnswerable'
    BY <2>2 DEF FactorInv, Accounts!ChallengeAnswerable
  <2>7. /\ new \in IdCallType /\ new.pc = "revoking" /\ new.op = logins[c].op /\ new.user = logins[c].user
        /\ new.session = logins[c].session
    BY <1>a DEF IdCallType
  <2> HIDE DEF new
  <2>8. CallSound(new, Len(sessions'))
    BY <1>l, <2>1, <2>4, <2>7 DEF CallSound
  <2> QED BY <1>0, <2>2, <2>4, <2>5, <2>6, <2>7, <2>8, CallMoves
<1>14. ASSUME NEW c \in Calls, Accounts!RefreshRevoke(c) PROVE FactorInv'
  <2>1. logins[c].session \in DOMAIN sessions
    BY <1>a, <1>s, <1>14 DEF CallSound, Accounts!RefreshRevoke
  <2>2. SessionsRevoked
    BY <1>0, <1>14, <2>1, OneRevoked DEF Accounts!RefreshRevoke, Accounts!Revoked
  <2> QED BY <1>14, <1>r, <2>2 DEF Accounts!RefreshRevoke, Accounts!Finish
<1>15. ASSUME NEW c \in Calls, Accounts!RefreshRevokeFails(c) PROVE FactorInv'
  <2>1. logins[c].session \in DOMAIN sessions
    BY <1>a, <1>s, <1>15 DEF CallSound, Accounts!RefreshRevokeFails
  <2>2. sessions[logins[c].session].fam \in 1 .. MaxSessions
    BY <1>0, <1>s, <2>1
  <2>3. /\ logins' = [logins EXCEPT ![c] = Accounts!NoCall] /\ UNCHANGED <<account, lock, sessions>>
        /\ slack' \in [1 .. MaxSessions -> Nat]
    BY <1>0, <1>15, <2>2 DEF Accounts!RefreshRevokeFails, Accounts!Finish, Accounts!Fam
  <2>4. /\ account' \in [Users -> AccountType] /\ lock' \in [Servers -> Calls \cup {Blank}] /\ Accounts!ChallengeAnswerable'
        /\ sessions' = sessions
    BY <1>0, <2>3 DEF FactorInv, Accounts!ChallengeAnswerable
  <2>5. Len(sessions) <= Len(sessions')
    BY <1>l, <2>4
  <2> QED BY <1>0, <1>e, <1>s, <2>3, <2>4, <2>5, CallMoves
<1>16. ASSUME NEW n \in 1 .. MaxSessions, Accounts!Logout(n) PROVE FactorInv'
  <2>1. SessionsRevoked
    BY <1>0, <1>16, OneRevoked DEF Accounts!Logout
  <2>2. /\ sessions' \in Seq(SessionType) /\ Len(sessions') = Len(sessions)
        /\ \A k \in DOMAIN sessions' : sessions'[k].fam \in 1 .. k
    BY <1>0, <2>1 DEF SessionsRevoked
  <2> QED BY <1>0, <1>16, <2>2 DEF Accounts!Logout, FactorInv, IdentityType, Accounts!ChallengeAnswerable
<1> QED BY <1>1, <1>2, <1>3, <1>4, <1>5, <1>6, <1>7, <1>8, <1>9, <1>10, <1>11, <1>12, <1>13, <1>14, <1>15,
           <1>16 DEF Accounts!Next

\* On one server a single call is between its count and its grant.
LEMMA RegisterAlone ==
  ASSUME NEW s0, Servers = {s0}, FactorInv, RegisterInv, NEW c \in Calls, NEW d \in Calls,
         logins[c].pc \in {"counted", "granting"}, logins[d].pc \in {"counted", "granting"}
  PROVE  c = d
<1>1. logins[c].server = s0 /\ logins[d].server = s0
  BY DEF FactorInv, CallSound
<1> QED BY <1>1 DEF RegisterInv

\* A step that registers nobody.
LEMMA RegisterUntouched ==
  ASSUME RegisterInv, NEW c \in Calls, \A d \in Calls \ {c} : logins'[d] = logins[d], UNCHANGED lock,
         logins'[c].pc \notin {"counted", "granting"}, uncounted \subseteq uncounted',
         \A u \in Users : account'[u].roles = account[u].roles /\ account'[u].known = account[u].known
  PROVE  RegisterInv'
<1>1. \A d \in Calls : logins'[d].pc \in {"counted", "granting"} => logins'[d] = logins[d]
  OBVIOUS
<1>2. \A d \in Calls : logins'[d].pc \in {"counted", "granting"} => lock'[logins'[d].server] = d
  BY <1>1 DEF RegisterInv
<1>3. /\ \A u \in Users : account'[u].roles # {} => account'[u].known
      /\ \A d \in Calls : logins'[d].pc = "granting" =>
           logins'[d].user \in Users /\ account'[logins'[d].user].known
  BY <1>1 DEF RegisterInv
<1>4. \A d \in Calls : logins'[d].first =>
       \/ logins'[d].user \in uncounted'
       \/ /\ logins'[d].pc = "counted" => \A u \in Users : ~account'[u].known
          /\ logins'[d].pc = "granting" => \A u \in Users : account'[u].roles = {}
  BY <1>1 DEF RegisterInv
<1>5. \A u, v \in Users \ uncounted' : "superadmin" \in account'[u].roles /\ "superadmin" \in account'[v].roles => u = v
  BY DEF RegisterInv
<1> QED BY <1>2, <1>3, <1>4, <1>5 DEF RegisterInv

LEMMA RegisterStep ==
  ASSUME NEW s0, Servers = {s0}, Blank \notin Calls, MaxSessions \in Nat
  PROVE  FactorInv /\ RegisterInv /\ [Accounts!Next]_(Accounts!idVars) => RegisterInv'
<1> SUFFICES ASSUME FactorInv, RegisterInv, [Accounts!Next]_(Accounts!idVars) PROVE RegisterInv'
  OBVIOUS
<1>0. /\ account \in [Users -> AccountType] /\ logins \in [Calls -> IdCallType]
      /\ lock \in [Servers -> Calls \cup {Blank}]
  BY DEF FactorInv, IdentityType
<1>a. \A c \in Calls : CallSound(logins[c], Len(sessions)) /\ logins[c] \in IdCallType
  BY <1>0 DEF FactorInv
<1>n. Accounts!NoCall \in IdCallType /\ Accounts!NoCall.pc = "idle" /\ ~Accounts!NoCall.first
  BY NoCallTyped
<1>c. ASSUME NEW c \in Calls, NEW new \in IdCallType, logins' = [logins EXCEPT ![c] = new],
             new.pc \notin {"counted", "granting"}, UNCHANGED <<account, lock, uncounted>>
      PROVE  RegisterInv'
  <2>1. logins'[c] = new /\ \A d \in Calls \ {c} : logins'[d] = logins[d]
    BY <1>0, <1>c, CallUpdate
  <2> QED BY <1>c, <2>1, RegisterUntouched
<1>1. CASE UNCHANGED Accounts!idVars
  BY <1>1 DEF Accounts!idVars, RegisterInv
<1>2. ASSUME NEW c \in Calls, NEW s \in Servers, NEW u \in Users, Accounts!RegisterCount(c, s, u) PROVE RegisterInv'
  <2>a. PICK fails \in BOOLEAN :
          /\ logins' = [logins EXCEPT ![c] = [Accounts!NoCall EXCEPT !.pc = "counted", !.op = "register",
               !.user = u, !.server = s, !.first = fails \/ \A v \in Users : ~Accounts!Known(v)]]
          /\ uncounted' = IF fails THEN uncounted \cup {u} ELSE uncounted
    BY <1>2 DEF Accounts!RegisterCount
  <2> DEFINE fst == fails \/ \A v \in Users : ~Accounts!Known(v)
  <2> DEFINE new == [Accounts!NoCall EXCEPT !.pc = "counted", !.op = "register", !.user = u, !.server = s, !.first = fst]
  <2>1. /\ logins' = [logins EXCEPT ![c] = new] /\ account' = account
        /\ lock' = [lock EXCEPT ![s] = c] /\ lock[s] = Blank
    BY <1>2, <2>a DEF Accounts!RegisterCount, Blank
  <2>2. /\ fst \in BOOLEAN /\ (fst => u \in uncounted' \/ \A v \in Users : ~account[v].known)
        /\ uncounted \subseteq uncounted'
    BY <2>a DEF Accounts!Known
  <2> HIDE DEF fst
  <2>3. new \in IdCallType /\ new.pc = "counted" /\ new.server = s /\ new.first = fst /\ new.user = u
    BY <2>2, NoCallTyped DEF IdCallType
  <2> HIDE DEF new
  <2>4. \A d \in Calls : logins[d].pc \notin {"counted", "granting"}
    <3> SUFFICES ASSUME NEW d \in Calls, logins[d].pc \in {"counted", "granting"} PROVE FALSE
      OBVIOUS
    <3>1. logins[d].server = s
      BY <1>a DEF CallSound
    <3> QED BY <2>1, <3>1 DEF RegisterInv
  <2>5. logins'[c] = new /\ \A d \in Calls \ {c} : logins'[d] = logins[d]
    BY <1>0, <2>1, <2>3, CallUpdate
  <2>6. lock'[s] = c
    BY <1>0, <2>1
  <2>7. \A d \in Calls : logins'[d].pc \in {"counted", "granting"} => d = c
    BY <2>4, <2>5
  <2>8. \A d \in Calls : logins'[d].pc \in {"counted", "granting"} => lock'[logins'[d].server] = d
    BY <2>3, <2>5, <2>6, <2>7
  <2>9. \A d \in Calls : logins'[d].first =>
       \/ logins'[d].user \in uncounted'
       \/ /\ logins'[d].pc = "counted" => \A v \in Users : ~account'[v].known
          /\ logins'[d].pc = "granting" => \A v \in Users : account'[v].roles = {}
    BY <2>1, <2>2, <2>3, <2>5, <2>7
  <2>10. \A d \in Calls : logins'[d].pc # "granting"
    BY <2>3, <2>5, <2>7
  <2> QED BY <2>1, <2>2, <2>8, <2>9, <2>10 DEF RegisterInv
<1>3. ASSUME NEW c \in Calls, Accounts!RegisterCreate(c) PROVE RegisterInv'
  <2> DEFINE u == logins[c].user
  <2>0. logins[c].pc = "counted" /\ u \in Users /\ logins[c].server = s0
    BY <1>a, <1>3 DEF CallSound, Accounts!RegisterCreate
  <2>a. \A d \in Calls : logins[d].pc \in {"counted", "granting"} => d = c
    BY <2>0, RegisterAlone
  <2>1. CASE Accounts!Known(u)
    <3>1. logins' = [logins EXCEPT ![c] = Accounts!NoCall] /\ account' = account /\ uncounted' = uncounted
      BY <1>3, <2>1 DEF Accounts!RegisterCreate, Accounts!Finish
    <3>2. logins'[c] = Accounts!NoCall /\ \A d \in Calls \ {c} : logins'[d] = logins[d]
      BY <1>0, <1>n, <3>1, CallUpdate
    <3>3. \A d \in Calls : logins'[d].pc \notin {"counted", "granting"}
      BY <1>n, <2>a, <3>2
    <3> QED BY <3>1, <3>3 DEF RegisterInv
  <2>2. CASE ~Accounts!Known(u)
    <3> DEFINE new == [logins[c] EXCEPT !.pc = "granting"]
    <3> DEFINE acc == [account[u] EXCEPT !.known = TRUE]
    <3>1. /\ logins' = [logins EXCEPT ![c] = new] /\ account' = [account EXCEPT ![u] = acc]
          /\ lock' = lock /\ uncounted' = uncounted
      BY <1>3, <2>2 DEF Accounts!RegisterCreate
    <3>2. /\ new \in IdCallType /\ new.pc = "granting" /\ new.server = logins[c].server
          /\ new.first = logins[c].first /\ new.user = u
      BY <1>a DEF IdCallType
    <3>3. u \in Users /\ ~account[u].known
      BY <2>0, <2>2 DEF Accounts!Known
    <3>4. account[u].roles = {}
      BY <3>3 DEF RegisterInv
    <3> HIDE DEF new, u
    <3>5. acc.known /\ acc.roles = {} /\ acc \in AccountType
      BY <1>0, <3>3, <3>4 DEF AccountType
    <3> HIDE DEF acc
    <3>6. logins'[c] = new /\ \A d \in Calls \ {c} : logins'[d] = logins[d]
      BY <1>0, <3>1, <3>2, CallUpdate
    <3>7. \A v \in Users : account'[v] = IF v = u THEN acc ELSE account[v]
      BY <1>0, <3>1, <3>3
    <3>8. \A d \in Calls : logins'[d].pc \in {"counted", "granting"} => d = c
      BY <2>a, <3>6
    <3>9. \A d \in Calls : logins'[d].pc \in {"counted", "granting"} => lock'[logins'[d].server] = d
      BY <2>0, <3>1, <3>2, <3>6, <3>8 DEF RegisterInv
    <3>10. logins[c].first => u \in uncounted \/ \A v \in Users : account[v].roles = {}
      BY <2>0 DEF RegisterInv, u
    <3>11. \A v \in Users : account'[v].roles = account[v].roles /\ (account'[v].roles # {} => account'[v].known)
      BY <3>4, <3>5, <3>7 DEF RegisterInv
    <3>12. \A d \in Calls : logins'[d].first =>
         \/ logins'[d].user \in uncounted'
         \/ /\ logins'[d].pc = "counted" => \A v \in Users : ~account'[v].known
            /\ logins'[d].pc = "granting" => \A v \in Users : account'[v].roles = {}
      BY <3>1, <3>2, <3>6, <3>8, <3>10, <3>11
    <3>13. \A d \in Calls : logins'[d].pc = "granting" =>
             logins'[d].user \in Users /\ account'[logins'[d].user].known
      BY <3>2, <3>3, <3>5, <3>6, <3>7, <3>8
    <3> QED BY <3>1, <3>9, <3>11, <3>12, <3>13 DEF RegisterInv
  <2> QED BY <2>1, <2>2
<1>4. ASSUME NEW c \in Calls, Accounts!RegisterGrant(c) PROVE RegisterInv'
  <2> DEFINE u == logins[c].user
  <2>0. logins[c].pc = "granting" /\ u \in Users
    BY <1>a, <1>4 DEF CallSound, Accounts!RegisterGrant
  <2>1. PICK r \in {{}, {IF logins[c].first THEN "superadmin" ELSE "customer"}} :
          account' = [account EXCEPT ![u].roles = r]
    BY <1>4 DEF Accounts!RegisterGrant
  <2>2. r \in SUBSET {"superadmin", "customer"} /\ ("superadmin" \in r => logins[c].first)
    BY <2>1
  <2>3. logins' = [logins EXCEPT ![c] = Accounts!NoCall] /\ uncounted' = uncounted
    BY <1>4 DEF Accounts!RegisterGrant, Accounts!Finish
  <2>4. logins'[c] = Accounts!NoCall /\ \A d \in Calls \ {c} : logins'[d] = logins[d]
    BY <1>0, <1>n, <2>3, CallUpdate
  <2>5. \A d \in Calls : logins'[d].pc \notin {"counted", "granting"}
    BY <1>n, <2>0, <2>4, RegisterAlone
  <2>6. "superadmin" \in r => u \in uncounted \/ \A v \in Users : account[v].roles = {}
    BY <2>0, <2>2 DEF RegisterInv
  <2>7. account[u].known
    BY <2>0 DEF RegisterInv
  <2> DEFINE acc == [account[u] EXCEPT !.roles = r]
  <2>8. account' = [account EXCEPT ![u] = acc]
    BY <2>1
  <2> HIDE DEF u
  <2>9. acc.roles = r /\ acc.known = account[u].known
    BY <1>0, <2>0, <2>2 DEF AccountType
  <2> HIDE DEF acc
  <2>10. \A v \in Users : account'[v] = IF v = u THEN acc ELSE account[v]
    BY <1>0, <2>0, <2>8
  <2>11. \A v \in Users : account'[v].roles # {} => account'[v].known
    BY <2>7, <2>9, <2>10 DEF RegisterInv
  <2>12. \A v, w \in Users \ uncounted' :
           "superadmin" \in account'[v].roles /\ "superadmin" \in account'[w].roles => v = w
    BY <2>3, <2>6, <2>9, <2>10 DEF RegisterInv
  <2> QED BY <2>5, <2>11, <2>12 DEF RegisterInv
<1>5. ASSUME NEW c \in Calls, NEW u \in Users, Accounts!Login(c, u) \/ Accounts!Disable2FARead(c, u) PROVE RegisterInv'
  <2> DEFINE new == [Accounts!NoCall EXCEPT !.user = u, !.op = "login",
                                   !.pc = IF account[u].twofa THEN "challenged" ELSE "issuing"]
  <2> DEFINE dis == [Accounts!NoCall EXCEPT !.op = "disable", !.pc = "writing", !.user = u]
  <2>1. new \in IdCallType /\ new.pc \notin {"counted", "granting"}
    BY NoCallTyped DEF IdCallType
  <2>2. dis \in IdCallType /\ dis.pc \notin {"counted", "granting"}
    BY NoCallTyped DEF IdCallType
  <2>3. \E x \in {new, dis} : logins' = [logins EXCEPT ![c] = x]
    BY <1>5 DEF Accounts!Login, Accounts!Disable2FARead
  <2>4. UNCHANGED <<account, lock, uncounted>>
    BY <1>5 DEF Accounts!Login, Accounts!Disable2FARead
  <2> HIDE DEF new, dis
  <2> QED BY <1>c, <2>1, <2>2, <2>3, <2>4
<1>6. ASSUME NEW c \in Calls, NEW u \in Users, NEW x \in Secrets, Accounts!Enable2FARead(c, u, x) PROVE RegisterInv'
  <2> DEFINE new == [Accounts!NoCall EXCEPT !.op = "enable", !.pc = "writing", !.user = u, !.secret = x]
  <2>1. logins' = [logins EXCEPT ![c] = new] /\ UNCHANGED <<account, lock, uncounted>>
    BY <1>6 DEF Accounts!Enable2FARead
  <2>2. new \in IdCallType /\ new.pc \notin {"counted", "granting"}
    BY NoCallTyped DEF IdCallType
  <2> HIDE DEF new
  <2> QED BY <1>c, <2>1, <2>2
<1>7. ASSUME NEW c \in Calls, Accounts!VerifyTOTP(c) \/ Accounts!RefreshCreate(c) PROVE RegisterInv'
  <2> DEFINE iss == [logins[c] EXCEPT !.pc = "issuing"]
  <2> DEFINE rev == [logins[c] EXCEPT !.pc = "revoking"]
  <2>1. iss \in IdCallType /\ iss.pc \notin {"counted", "granting"}
    BY <1>a DEF IdCallType
  <2>2. rev \in IdCallType /\ rev.pc \notin {"counted", "granting"}
    BY <1>a DEF IdCallType
  <2>3. \E x \in {iss, rev, Accounts!NoCall} : logins' = [logins EXCEPT ![c] = x]
    BY <1>7 DEF Accounts!VerifyTOTP, Accounts!Finish, Accounts!RefreshCreate
  <2>4. UNCHANGED <<account, lock, uncounted>>
    BY <1>7 DEF Accounts!VerifyTOTP, Accounts!RefreshCreate
  <2> HIDE DEF iss, rev
  <2> QED BY <1>c, <1>n, <2>1, <2>2, <2>3, <2>4
<1>8. ASSUME NEW c \in Calls,
             Accounts!IssueTokens(c) \/ Accounts!RevokeFamily(c) \/ Accounts!RefreshRevoke(c) \/ Accounts!RefreshRevokeFails(c)
      PROVE  RegisterInv'
  BY <1>8, <1>c, <1>n DEF Accounts!IssueTokens, Accounts!RevokeFamily, Accounts!RefreshRevoke, Accounts!RefreshRevokeFails, Accounts!Finish
<1>9. ASSUME NEW c \in Calls, Accounts!Write2FA(c) PROVE RegisterInv'
  <2> DEFINE u == logins[c].user
  <2> DEFINE sec == logins[c].secret
  <2> DEFINE on == logins[c].op = "enable"
  <2> DEFINE acc == [account[u] EXCEPT !.twofa = on, !.secret = sec]
  <2>1. u \in Users /\ sec \in Secrets \cup {Blank} /\ on \in BOOLEAN
    BY <1>a, <1>9 DEF CallSound, Accounts!Write2FA, IdCallType
  <2>2. account' = [account EXCEPT ![u] = acc] /\ logins' = [logins EXCEPT ![c] = Accounts!NoCall] /\ lock' = lock /\ uncounted' = uncounted
    BY <1>9 DEF Accounts!Write2FA, Accounts!Update2FA, Accounts!Finish
  <2> HIDE DEF on, u, sec
  <2>3. acc.roles = account[u].roles /\ acc.known = account[u].known
    BY <1>0, <2>1 DEF AccountType
  <2> HIDE DEF acc
  <2>4. \A v \in Users : account'[v] = IF v = u THEN acc ELSE account[v]
    BY <1>0, <2>1, <2>2
  <2>5. logins'[c] = Accounts!NoCall /\ \A d \in Calls \ {c} : logins'[d] = logins[d]
    BY <1>0, <1>n, <2>2, CallUpdate
  <2> QED BY <1>n, <2>2, <2>3, <2>4, <2>5, RegisterUntouched
<1>10. ASSUME NEW c \in Calls, NEW n \in 1 .. MaxSessions, Accounts!RefreshRead(c, n) PROVE RegisterInv'
  <2> DEFINE res == IF sessions[n].revoked THEN "reused" ELSE "rotating"
  <2> DEFINE usr == sessions[n].user
  <2> DEFINE new == [Accounts!NoCall EXCEPT !.op = "refresh", !.session = n, !.user = usr, !.pc = res]
  <2>1. logins' = [logins EXCEPT ![c] = new] /\ UNCHANGED <<account, lock, uncounted>>
    BY <1>10 DEF Accounts!RefreshRead
  <2>2. n \in Nat /\ res \in {"reused", "rotating"}
    OBVIOUS
  <2>3. usr \in Users
    <3>1. n \in DOMAIN sessions /\ sessions[n] \in SessionType
      BY <1>10, SessionFacts DEF Accounts!RefreshRead, FactorInv
    <3> QED BY <3>1 DEF SessionType
  <2> HIDE DEF res, usr
  <2>4. new \in IdCallType /\ new.pc = res
    BY <2>2, <2>3, NoCallTyped DEF IdCallType
  <2> HIDE DEF new
  <2> QED BY <1>c, <2>1, <2>2, <2>4
<1>11. ASSUME NEW n \in 1 .. MaxSessions, Accounts!Logout(n) PROVE RegisterInv'
  BY <1>11 DEF Accounts!Logout, RegisterInv
<1> QED BY <1>1, <1>2, <1>3, <1>4, <1>5, <1>6, <1>7, <1>8, <1>9, <1>10, <1>11 DEF Accounts!Next

LEMMA FactorInit ==
  ASSUME Blank \notin Secrets, MaxSessions \in Nat, Accounts!Init
  PROVE  FactorInv
<1>1. Accounts!NoUser \in AccountType /\ ~Accounts!NoUser.twofa /\ Accounts!NoUser.secret = Blank
  BY DEF Accounts!NoUser, AccountType, Blank
<1>2. Accounts!NoCall \in IdCallType /\ CallSound(Accounts!NoCall, 0)
  BY NoCallTyped DEF CallSound
<1>3. /\ account = [u \in Users |-> Accounts!NoUser] /\ lock = [s \in Servers |-> Blank] /\ sessions = <<>>
      /\ slack = [f \in 1 .. MaxSessions |-> 0] /\ logins = [c \in Calls |-> Accounts!NoCall]
  BY DEF Accounts!Init, Blank
<1>4. sessions \in Seq(SessionType) /\ Len(sessions) = 0 /\ DOMAIN sessions = {}
  BY <1>3
<1> QED BY <1>1, <1>2, <1>3, <1>4 DEF FactorInv, IdentityType, Accounts!ChallengeAnswerable

LEMMA FactorAlways ==
  ASSUME Blank \notin Secrets, MaxSessions \in Nat
  PROVE  Accounts!Spec => []FactorInv
BY FactorInit, FactorStep, PTL DEF Accounts!Spec

\* Two-factor enrolment reads the account and writes it in a later step: still
\* an account with a second factor has a secret of an enrolment, for any
\* number of users, servers and overlapping calls.  A secret is never empty.
THEOREM ChallengesCorrect ==
  ASSUME "" \notin Secrets, MaxSessions \in Nat
  PROVE  Accounts!Spec => []Accounts!ChallengeAnswerable
<1>1. Blank \notin Secrets
  BY DEF Blank
<1>2. FactorInv => Accounts!ChallengeAnswerable
  BY DEF FactorInv
<1> QED BY <1>1, <1>2, FactorAlways, PTL

LEMMA SuperadminAlways ==
  ASSUME NEW s0, Servers = {s0}, Blank \notin Calls, Blank \notin Secrets, MaxSessions \in Nat
  PROVE  Accounts!Spec => []Accounts!OneSuperadmin
<1>1. Accounts!Init => RegisterInv
  <2> SUFFICES ASSUME Accounts!Init PROVE RegisterInv
    OBVIOUS
  <2>1. account = [u \in Users |-> Accounts!NoUser] /\ logins = [c \in Calls |-> Accounts!NoCall] /\ Accounts!NoUser.roles = {}
    BY DEF Accounts!Init, Accounts!NoUser
  <2>2. (\A u \in Users : account[u].roles = {}) /\ (\A c \in Calls : logins[c].pc = "idle" /\ ~logins[c].first)
    BY <2>1, NoCallTyped
  <2> QED BY <2>2 DEF RegisterInv
<1>2. RegisterInv => Accounts!OneSuperadmin
  <2> SUFFICES ASSUME RegisterInv PROVE Accounts!OneSuperadmin
    OBVIOUS
  <2> DEFINE T == {u \in Users \ uncounted : "superadmin" \in account[u].roles}
  <2>1. \A u, v \in T : u = v
    BY DEF RegisterInv
  <2>2. Cardinality(T) <= 1
    <3> HIDE DEF T
    <3>1. CASE T = {}
      BY <3>1, FS_EmptySet
    <3>2. CASE T # {}
      <4>1. PICK u \in T : TRUE
        BY <3>2
      <4>2. T = {u}
        BY <2>1, <4>1
      <4>3. Cardinality(T) = 1
        BY <4>2, FS_Singleton
      <4> QED BY <4>3
    <3> QED BY <3>1, <3>2
  <2> QED BY <2>2, AccountsCard DEF Accounts!OneSuperadmin
<1> QED BY <1>1, <1>2, FactorAlways, RegisterStep, PTL DEF Accounts!Spec

\* Of any number of users who register at once, on one server, at most one
\* becomes superadmin, besides those whose registration could not read the count:
\* Service.mu is held from the count to the grant.  A call
\* is not named by the empty string, which stands for a free mutex.
THEOREM SuperadminCorrect ==
  ASSUME NEW s0, Servers = {s0}, "" \notin Calls, "" \notin Secrets, MaxSessions \in Nat
  PROVE  Accounts!Spec => []Accounts!OneSuperadmin
BY SuperadminAlways DEF Blank

\* The sessions of a family that nobody is exchanging, and the exchanges that
\* have not stored the new session yet: together one, and one for each slip.
Quiet(f) == {n \in DOMAIN sessions : Accounts!Fam(n) = f /\ ~sessions[n].revoked /\ Accounts!Exchanging(n) = {}}

Rotating(f) == {c \in Calls : logins[c].pc = "rotating" /\ Accounts!Fam(logins[c].session) = f}

RotationInv ==
  \A f \in 1 .. MaxSessions : Cardinality(Quiet(f)) + Cardinality(Rotating(f)) <= 1 + slack[f]

LEMMA RotationFinite ==
  ASSUME FactorInv, IsFiniteSet(Calls), NEW f
  PROVE  IsFiniteSet(Quiet(f)) /\ IsFiniteSet(Rotating(f))
<1>1. DOMAIN sessions = 1 .. Len(sessions) /\ Len(sessions) \in Nat
  BY SessionFacts DEF FactorInv
<1>2. IsFiniteSet(DOMAIN sessions)
  BY <1>1, FS_Interval
<1>3. Quiet(f) \subseteq DOMAIN sessions /\ Rotating(f) \subseteq Calls
  BY DEF Quiet, Rotating
<1> QED BY <1>2, <1>3, FS_Subset

\* No session becomes quiet, no exchange begins, no slip is forgotten.
LEMMA RotationCalm ==
  ASSUME FactorInv, RotationInv, IsFiniteSet(Calls), NEW f \in 1 .. MaxSessions,
         Quiet(f)' \subseteq Quiet(f), Rotating(f)' \subseteq Rotating(f),
         slack[f] \in Nat, slack'[f] \in Nat, slack'[f] >= slack[f]
  PROVE  Cardinality(Quiet(f)') + Cardinality(Rotating(f)') <= 1 + slack'[f]
<1>1. IsFiniteSet(Quiet(f)) /\ IsFiniteSet(Rotating(f))
  BY RotationFinite
<1> DEFINE q == Cardinality(Quiet(f))
<1> DEFINE r == Cardinality(Rotating(f))
<1> DEFINE qq == Cardinality(Quiet(f)')
<1> DEFINE rr == Cardinality(Rotating(f)')
<1>2. q \in Nat /\ qq \in Nat /\ qq <= q
  BY <1>1, CardSub
<1>3. r \in Nat /\ rr \in Nat /\ rr <= r
  BY <1>1, CardSub
<1>4. q + r <= 1 + slack[f]
  BY DEF RotationInv
<1> HIDE DEF q, r, qq, rr
<1>5. qq + rr <= 1 + slack'[f]
  BY <1>2, <1>3, <1>4
<1> QED BY <1>5 DEF qq, rr

\* The invariant says what it is for: a session that is being exchanged has
\* an exchange of its own.
LEMMA RotationBounds ==
  ASSUME FactorInv, RotationInv, IsFiniteSet(Calls), NEW f \in 1 .. MaxSessions
  PROVE  Cardinality({n \in DOMAIN sessions : Accounts!Fam(n) = f /\ ~sessions[n].revoked})
           <= 1 + slack[f]
                + Cardinality({c \in Calls : logins[c].pc = "revoking" /\ Accounts!Fam(logins[c].session) = f})
<1> DEFINE L == {n \in DOMAIN sessions : Accounts!Fam(n) = f /\ ~sessions[n].revoked}
<1> DEFINE V == {c \in Calls : logins[c].pc = "revoking" /\ Accounts!Fam(logins[c].session) = f}
<1> DEFINE E == {n \in L : Accounts!Exchanging(n) # {}}
<1> DEFINE Q == Quiet(f)
<1> DEFINE R == Rotating(f)
<1>1. L = Q \cup E
  BY DEF Quiet
<1>2. IsFiniteSet(Q) /\ IsFiniteSet(R)
  BY RotationFinite
<1>3. IsFiniteSet(V)
  BY FS_Subset
<1>4. \A n \in E : \E c \in R \cup V : logins[c].session = n
  <2> SUFFICES ASSUME NEW n \in E PROVE \E c \in R \cup V : logins[c].session = n
    OBVIOUS
  <2>1. PICK c \in Calls : logins[c].op = "refresh" /\ logins[c].session = n /\ logins[c].pc # "reused"
    BY DEF Accounts!Exchanging
  <2>2. logins[c].pc \in {"rotating", "revoking"}
    BY <2>1 DEF FactorInv, CallSound
  <2> QED BY <2>1, <2>2 DEF Rotating
<1> HIDE DEF L, V, E, Q, R
<1> DEFINE g == [c \in R \cup V |-> logins[c].session]
<1>5. IsFiniteSet(R \cup V) /\ Cardinality(R \cup V) <= Cardinality(R) + Cardinality(V)
  BY <1>2, <1>3, CardUnion
<1>6. IsFiniteSet(E) /\ Cardinality(E) <= Cardinality(R \cup V)
  <2>1. \A n \in E : \E c \in R \cup V : g[c] = n
    BY <1>4
  <2> HIDE DEF g
  <2> QED BY <1>5, <2>1, CardCovered
<1>7. IsFiniteSet(L) /\ Cardinality(L) <= Cardinality(Q) + Cardinality(E)
  BY <1>1, <1>2, <1>6, CardUnion
<1>8. /\ Cardinality(L) \in Nat /\ Cardinality(Q) \in Nat /\ Cardinality(E) \in Nat /\ Cardinality(R) \in Nat
      /\ Cardinality(V) \in Nat /\ Cardinality(R \cup V) \in Nat
  BY <1>2, <1>3, <1>5, <1>6, <1>7, FS_CardinalityType
<1>9. Cardinality(Q) + Cardinality(R) <= 1 + slack[f] /\ slack[f] \in Nat
  BY DEF RotationInv, FactorInv, IdentityType, Q, R
<1>10. Cardinality(L) <= 1 + slack[f] + Cardinality(V)
  BY <1>5, <1>6, <1>7, <1>8, <1>9
<1> QED BY <1>10 DEF L, V

\* A call that is not exchanging anything moves, over the same sessions.
LEMMA RotationAside ==
  ASSUME FactorInv, NEW c \in Calls, NEW new \in IdCallType, logins' = [logins EXCEPT ![c] = new],
         UNCHANGED sessions, logins[c].op # "refresh" \/ logins[c].pc = "reused",
         new.op # "refresh" \/ new.pc = "reused", new.pc # "rotating"
  PROVE  \A f : Quiet(f)' \subseteq Quiet(f) /\ Rotating(f)' \subseteq Rotating(f)
<1>1. logins'[c] = new /\ \A d \in Calls \ {c} : logins'[d] = logins[d]
  BY CallUpdate DEF FactorInv, IdentityType
<1>2. \A n : Accounts!Exchanging(n)' = Accounts!Exchanging(n)
  BY <1>1 DEF Accounts!Exchanging
<1>3. \A f : Rotating(f)' \subseteq Rotating(f)
  BY <1>1 DEF Rotating, Accounts!Fam
<1>4. \A f : Quiet(f)' \subseteq Quiet(f)
  BY <1>2 DEF Quiet, Accounts!Fam
<1> QED BY <1>3, <1>4

LEMMA RotationStep ==
  ASSUME MaxSessions \in Nat, IsFiniteSet(Calls)
  PROVE  FactorInv /\ FactorInv' /\ RotationInv /\ [Accounts!Next]_(Accounts!idVars) => RotationInv'
<1> SUFFICES ASSUME FactorInv, FactorInv', RotationInv, [Accounts!Next]_(Accounts!idVars),
                    NEW f \in 1 .. MaxSessions
             PROVE  Cardinality(Quiet(f)') + Cardinality(Rotating(f)') <= 1 + slack'[f]
  BY DEF RotationInv
<1>0. /\ IdentityType /\ logins \in [Calls -> IdCallType] /\ slack \in [1 .. MaxSessions -> Nat]
      /\ slack' \in [1 .. MaxSessions -> Nat] /\ \A n \in DOMAIN sessions : sessions[n].fam \in 1 .. n
  BY DEF FactorInv, IdentityType
<1>s. sessions \in Seq(SessionType) /\ Len(sessions) \in Nat /\ DOMAIN sessions = 1 .. Len(sessions)
  BY <1>0, SessionFacts
<1>a. \A c \in Calls : CallSound(logins[c], Len(sessions)) /\ logins[c] \in IdCallType
  BY <1>0 DEF FactorInv
<1>n. Accounts!NoCall \in IdCallType /\ Accounts!NoCall.pc = "idle" /\ Accounts!NoCall.op # "refresh"
  BY NoCallTyped
<1>k. slack[f] \in Nat /\ slack'[f] \in Nat
  BY <1>0
<1>w. IsFiniteSet(Quiet(f)) /\ IsFiniteSet(Rotating(f))
  BY RotationFinite
<1>p. Cardinality(Quiet(f)) + Cardinality(Rotating(f)) <= 1 + slack[f]
  BY DEF RotationInv
<1>c. ASSUME Quiet(f)' \subseteq Quiet(f), Rotating(f)' \subseteq Rotating(f), slack'[f] >= slack[f]
      PROVE  Cardinality(Quiet(f)') + Cardinality(Rotating(f)') <= 1 + slack'[f]
  BY <1>c, <1>k, RotationCalm
<1>d. ASSUME NEW c \in Calls, NEW new \in IdCallType, logins' = [logins EXCEPT ![c] = new],
             UNCHANGED <<sessions, slack>>, logins[c].op # "refresh", new.op # "refresh", new.pc # "rotating"
      PROVE  Cardinality(Quiet(f)') + Cardinality(Rotating(f)') <= 1 + slack'[f]
  <2>1. Quiet(f)' \subseteq Quiet(f) /\ Rotating(f)' \subseteq Rotating(f)
    BY <1>d, RotationAside
  <2>2. slack'[f] >= slack[f]
    BY <1>d, <1>k
  <2> QED BY <1>c, <2>1, <2>2
<1>1. CASE UNCHANGED Accounts!idVars
  <2>1. Quiet(f)' = Quiet(f) /\ Rotating(f)' = Rotating(f) /\ slack' = slack
    BY <1>1 DEF Accounts!idVars, Quiet, Rotating, Accounts!Exchanging, Accounts!Fam
  <2> QED BY <1>p, <2>1
<1>2. ASSUME NEW c \in Calls, NEW s \in Servers, NEW u \in Users, Accounts!RegisterCount(c, s, u)
      PROVE  Cardinality(Quiet(f)') + Cardinality(Rotating(f)') <= 1 + slack'[f]
  <2>a. PICK fst \in BOOLEAN : logins' = [logins EXCEPT ![c] = [Accounts!NoCall EXCEPT
           !.pc = "counted", !.op = "register", !.user = u, !.server = s, !.first = fst]]
    BY <1>2 DEF Accounts!RegisterCount
  <2> DEFINE new == [Accounts!NoCall EXCEPT !.pc = "counted", !.op = "register", !.user = u, !.server = s, !.first = fst]
  <2>1. logins' = [logins EXCEPT ![c] = new] /\ UNCHANGED <<sessions, slack>> /\ logins[c].pc = "idle"
    BY <1>2, <2>a DEF Accounts!RegisterCount
  <2>3. new \in IdCallType /\ new.pc = "counted" /\ new.op = "register"
    BY NoCallTyped DEF IdCallType
  <2> HIDE DEF new
  <2>4. logins[c].op # "refresh"
    BY <1>a, <2>1 DEF CallSound
  <2> QED BY <1>d, <2>1, <2>3, <2>4
<1>3. ASSUME NEW c \in Calls, Accounts!RegisterCreate(c)
      PROVE  Cardinality(Quiet(f)') + Cardinality(Rotating(f)') <= 1 + slack'[f]
  <2> DEFINE new == [logins[c] EXCEPT !.pc = "granting"]
  <2>1. logins[c].pc = "counted" /\ UNCHANGED <<sessions, slack>>
    BY <1>3 DEF Accounts!RegisterCreate
  <2>2. logins[c].op # "refresh"
    BY <1>a, <2>1 DEF CallSound
  <2>3. logins' = [logins EXCEPT ![c] = new] \/ logins' = [logins EXCEPT ![c] = Accounts!NoCall]
    BY <1>3 DEF Accounts!RegisterCreate, Accounts!Finish
  <2>4. new \in IdCallType /\ new.pc = "granting" /\ new.op # "refresh"
    BY <1>a, <2>2 DEF IdCallType
  <2> HIDE DEF new
  <2> QED BY <1>d, <1>n, <2>1, <2>2, <2>3, <2>4
<1>4. ASSUME NEW c \in Calls, Accounts!RegisterGrant(c) \/ Accounts!Write2FA(c)
      PROVE  Cardinality(Quiet(f)') + Cardinality(Rotating(f)') <= 1 + slack'[f]
  <2>1. /\ logins[c].pc \in {"granting", "writing"} /\ UNCHANGED <<sessions, slack>>
        /\ logins' = [logins EXCEPT ![c] = Accounts!NoCall]
    BY <1>4 DEF Accounts!RegisterGrant, Accounts!Write2FA, Accounts!Finish
  <2>2. logins[c].op # "refresh"
    BY <1>a, <2>1 DEF CallSound
  <2> QED BY <1>d, <1>n, <2>1, <2>2
<1>5. ASSUME NEW c \in Calls, NEW u \in Users, Accounts!Login(c, u) \/ Accounts!Disable2FARead(c, u)
      PROVE  Cardinality(Quiet(f)') + Cardinality(Rotating(f)') <= 1 + slack'[f]
  <2> DEFINE new == [Accounts!NoCall EXCEPT !.user = u, !.op = "login",
                                   !.pc = IF account[u].twofa THEN "challenged" ELSE "issuing"]
  <2> DEFINE dis == [Accounts!NoCall EXCEPT !.op = "disable", !.pc = "writing", !.user = u]
  <2>1. new \in IdCallType /\ new.pc # "rotating" /\ new.op = "login"
    BY NoCallTyped DEF IdCallType
  <2>2. dis \in IdCallType /\ dis.pc # "rotating" /\ dis.op = "disable"
    BY NoCallTyped DEF IdCallType
  <2>3. \E x \in {new, dis} : logins' = [logins EXCEPT ![c] = x]
    BY <1>5 DEF Accounts!Login, Accounts!Disable2FARead
  <2>4. UNCHANGED <<sessions, slack>> /\ logins[c].pc = "idle"
    BY <1>5 DEF Accounts!Login, Accounts!Disable2FARead
  <2> HIDE DEF new, dis
  <2>5. logins[c].op # "refresh"
    BY <1>a, <2>4 DEF CallSound
  <2> QED BY <1>d, <2>1, <2>2, <2>3, <2>4, <2>5
<1>6. ASSUME NEW c \in Calls, NEW u \in Users, NEW x \in Secrets, Accounts!Enable2FARead(c, u, x)
      PROVE  Cardinality(Quiet(f)') + Cardinality(Rotating(f)') <= 1 + slack'[f]
  <2> DEFINE new == [Accounts!NoCall EXCEPT !.op = "enable", !.pc = "writing", !.user = u, !.secret = x]
  <2>1. logins' = [logins EXCEPT ![c] = new] /\ UNCHANGED <<sessions, slack>> /\ logins[c].pc = "idle"
    BY <1>6 DEF Accounts!Enable2FARead
  <2>2. new \in IdCallType /\ new.pc = "writing" /\ new.op = "enable"
    BY NoCallTyped DEF IdCallType
  <2> HIDE DEF new
  <2>3. logins[c].op # "refresh"
    BY <1>a, <2>1 DEF CallSound
  <2> QED BY <1>d, <2>1, <2>2, <2>3
<1>7. ASSUME NEW c \in Calls, Accounts!VerifyTOTP(c)
      PROVE  Cardinality(Quiet(f)') + Cardinality(Rotating(f)') <= 1 + slack'[f]
  <2> DEFINE new == [logins[c] EXCEPT !.pc = "issuing"]
  <2>1. logins[c].pc = "challenged" /\ UNCHANGED <<sessions, slack>>
    BY <1>7 DEF Accounts!VerifyTOTP
  <2>2. logins[c].op # "refresh"
    BY <1>a, <2>1 DEF CallSound
  <2>3. logins' = [logins EXCEPT ![c] = new] \/ logins' = [logins EXCEPT ![c] = Accounts!NoCall]
    BY <1>7 DEF Accounts!VerifyTOTP, Accounts!Finish
  <2>4. new \in IdCallType /\ new.pc = "issuing" /\ new.op # "refresh"
    BY <1>a, <2>2 DEF IdCallType
  <2> HIDE DEF new
  <2> QED BY <1>d, <1>n, <2>1, <2>2, <2>3, <2>4
<1>8. ASSUME NEW c \in Calls, Accounts!IssueTokens(c)
      PROVE  Cardinality(Quiet(f)') + Cardinality(Rotating(f)') <= 1 + slack'[f]
  <2> DEFINE k == Len(sessions) + 1
  <2>1. logins[c].user \in Users /\ logins[c].op # "refresh"
    BY <1>a, <1>8 DEF CallSound, Accounts!IssueTokens
  <2>2. /\ Len(sessions) < MaxSessions /\ sessions' = Accounts!NewSession(logins[c].user, k)
        /\ logins' = [logins EXCEPT ![c] = Accounts!NoCall] /\ slack' = slack
    BY <1>8 DEF Accounts!IssueTokens, Accounts!Finish
  <2>3. k \in 1 .. Len(sessions) + 1 /\ k \in Nat /\ k \notin 1 .. Len(sessions)
    BY <1>s
  <2>4. /\ DOMAIN sessions' = 1 .. Len(sessions) + 1 /\ sessions'[k].fam = k
        /\ \A n \in 1 .. Len(sessions) : sessions'[n] = sessions[n]
    BY <1>0, <2>1, <2>2, <2>3, SessionAdded
  <2>5. logins'[c] = Accounts!NoCall /\ \A d \in Calls \ {c} : logins'[d] = logins[d]
    BY <1>0, <1>n, <2>2, CallUpdate
  <2>6. \A n : Accounts!Exchanging(n)' = Accounts!Exchanging(n)
    BY <1>n, <2>1, <2>5 DEF Accounts!Exchanging
  <2>7. \A n \in DOMAIN sessions' : n \in 1 .. Len(sessions) \/ n = k
    BY <1>s, <2>4
  <2>8. \A d \in Calls : logins'[d].pc = "rotating" =>
          logins'[d] = logins[d] /\ logins[d].session \in 1 .. Len(sessions)
    BY <1>a, <1>n, <2>5 DEF CallSound
  <2>9. Rotating(f)' \subseteq Rotating(f)
    BY <2>4, <2>8 DEF Rotating, Accounts!Fam
  <2>10. CASE f # k
    <3>1. Quiet(f)' \subseteq Quiet(f)
      BY <1>s, <2>4, <2>6, <2>7, <2>10 DEF Quiet, Accounts!Fam
    <3> QED BY <1>c, <1>k, <2>2, <2>9, <3>1
  <2>11. CASE f = k
    <3>1. \A n \in 1 .. Len(sessions) : sessions[n].fam # k
      BY <1>0, <1>s, <2>3
    <3>2. Quiet(f)' \subseteq {} \cup {k}
      BY <2>4, <2>7, <2>11, <3>1 DEF Quiet, Accounts!Fam
    <3>3. Rotating(f)' = {}
      BY <2>4, <2>8, <2>11, <3>1 DEF Rotating, Accounts!Fam
    <3>4. IsFiniteSet({}) /\ Cardinality({}) = 0
      BY FS_EmptySet
    <3>5. Cardinality(Quiet(f)') \in Nat /\ Cardinality(Quiet(f)') <= 0 + 1
      BY <3>2, <3>4, CardGrow
    <3>6. Cardinality(Rotating(f)') = 0
      BY <3>3, <3>4
    <3> QED BY <1>k, <3>5, <3>6
  <2> QED BY <2>10, <2>11
<1>9. ASSUME NEW c \in Calls, NEW n \in 1 .. MaxSessions, Accounts!RefreshRead(c, n)
      PROVE  Cardinality(Quiet(f)') + Cardinality(Rotating(f)') <= 1 + slack'[f]
  <2> DEFINE usr == sessions[n].user
  <2> DEFINE res == IF sessions[n].revoked THEN "reused" ELSE "rotating"
  <2> DEFINE new == [Accounts!NoCall EXCEPT !.op = "refresh", !.session = n, !.user = usr, !.pc = res]
  <2>1. /\ logins' = [logins EXCEPT ![c] = new] /\ UNCHANGED sessions /\ logins[c].pc = "idle"
        /\ slack' = IF ~sessions[n].revoked /\ Accounts!Exchanging(n) # {}
                    THEN [slack EXCEPT ![Accounts!Fam(n)] = @ + 1] ELSE slack
    BY <1>9 DEF Accounts!RefreshRead
  <2>2. n \in DOMAIN sessions /\ n \in Nat /\ sessions[n] \in SessionType
    BY <1>0, <1>9, SessionFacts DEF Accounts!RefreshRead
  <2>3. usr \in Users
    BY <2>2 DEF SessionType
  <2>4. res \in {"reused", "rotating"} /\ (res = "rotating" <=> ~sessions[n].revoked)
    OBVIOUS
  <2>5. logins[c].op # "refresh"
    BY <1>a, <2>1 DEF CallSound
  <2> HIDE DEF usr, res
  <2>6. new \in IdCallType /\ new.pc = res /\ new.op = "refresh" /\ new.session = n
    BY <2>2, <2>3, <2>4, NoCallTyped DEF IdCallType
  <2> HIDE DEF new
  <2>7. logins'[c] = new /\ \A d \in Calls \ {c} : logins'[d] = logins[d]
    BY <1>0, <2>1, <2>6, CallUpdate
  <2>8. CASE sessions[n].revoked
    <3>1. res = "reused" /\ slack' = slack
      BY <2>1, <2>4, <2>8
    <3>2. Quiet(f)' \subseteq Quiet(f) /\ Rotating(f)' \subseteq Rotating(f)
      BY <2>1, <2>5, <2>6, <3>1, RotationAside
    <3> QED BY <1>c, <1>k, <3>1, <3>2
  <2>9. CASE ~sessions[n].revoked
    <3>1. res = "rotating"
      BY <2>4, <2>9
    <3>2. \A m : Accounts!Exchanging(m) \subseteq Accounts!Exchanging(m)'
      BY <2>5, <2>7 DEF Accounts!Exchanging
    <3>3. Quiet(f)' \subseteq Quiet(f)
      BY <2>1, <3>2 DEF Quiet, Accounts!Fam
    <3>4. c \in Accounts!Exchanging(n)'
      BY <2>6, <2>7, <3>1 DEF Accounts!Exchanging
    <3>5. CASE Accounts!Fam(n) # f
      <4>1. Rotating(f)' \subseteq Rotating(f)
        BY <2>1, <2>6, <2>7, <3>5 DEF Rotating, Accounts!Fam
      <4>2. slack'[f] = slack[f]
        BY <1>0, <2>1, <3>5
      <4> QED BY <1>c, <1>k, <3>3, <4>1, <4>2
    <3>6. CASE Accounts!Fam(n) = f
      <4>1. Rotating(f)' \subseteq Rotating(f) \cup {c}
        BY <2>1, <2>7 DEF Rotating, Accounts!Fam
      <4>2. Cardinality(Rotating(f)') \in Nat /\ Cardinality(Rotating(f)) \in Nat
            /\ Cardinality(Rotating(f)') <= Cardinality(Rotating(f)) + 1
        BY <1>w, <4>1, CardGrow
      <4>3. CASE Accounts!Exchanging(n) = {}
        <5>1. n \in Quiet(f)
          BY <2>2, <2>9, <3>6, <4>3 DEF Quiet
        <5>2. n \notin Quiet(f)'
          BY <3>4 DEF Quiet
        <5>3. Quiet(f)' \subseteq Quiet(f) \ {n}
          BY <3>3, <5>2
        <5>4. Cardinality(Quiet(f)') \in Nat /\ Cardinality(Quiet(f)) \in Nat
              /\ Cardinality(Quiet(f)') + 1 <= Cardinality(Quiet(f))
          BY <1>w, <5>1, <5>3, CardShrink
        <5>5. slack' = slack
          BY <2>1, <4>3
        <5> QED BY <1>k, <1>p, <4>2, <5>4, <5>5
      <4>4. CASE Accounts!Exchanging(n) # {}
        <5>1. slack'[f] = slack[f] + 1
          BY <1>0, <2>1, <2>9, <3>6, <4>4
        <5>2. Cardinality(Quiet(f)') \in Nat /\ Cardinality(Quiet(f)) \in Nat
              /\ Cardinality(Quiet(f)') <= Cardinality(Quiet(f))
          BY <1>w, <3>3, CardSub
        <5> QED BY <1>k, <1>p, <4>2, <5>1, <5>2
      <4> QED BY <4>3, <4>4
    <3> QED BY <3>5, <3>6
  <2> QED BY <2>8, <2>9
<1>10. ASSUME NEW c \in Calls, Accounts!RevokeFamily(c)
      PROVE  Cardinality(Quiet(f)') + Cardinality(Rotating(f)') <= 1 + slack'[f]
  <2>1. SessionsRevoked
    BY <1>0, <1>10, FamilyRevoked DEF Accounts!RevokeFamily
  <2>2. logins[c].pc = "reused" /\ logins' = [logins EXCEPT ![c] = Accounts!NoCall] /\ slack' = slack
    BY <1>10 DEF Accounts!RevokeFamily, Accounts!Finish
  <2>3. logins'[c] = Accounts!NoCall /\ \A d \in Calls \ {c} : logins'[d] = logins[d]
    BY <1>0, <1>n, <2>2, CallUpdate
  <2>4. \A m : Accounts!Exchanging(m)' = Accounts!Exchanging(m)
    BY <1>n, <2>2, <2>3 DEF Accounts!Exchanging
  <2>5. Quiet(f)' \subseteq Quiet(f)
    BY <2>1, <2>4 DEF Quiet, Accounts!Fam, SessionsRevoked
  <2>6. \A d \in Calls : logins'[d].pc = "rotating" => logins'[d] = logins[d] /\ logins[d].session \in DOMAIN sessions
    BY <1>a, <1>n, <1>s, <2>3 DEF CallSound
  <2>7. Rotating(f)' \subseteq Rotating(f)
    BY <2>1, <2>6 DEF Rotating, Accounts!Fam, SessionsRevoked
  <2> QED BY <1>c, <1>k, <2>2, <2>5, <2>7
<1>11. ASSUME NEW c \in Calls, Accounts!RefreshCreate(c)
      PROVE  Cardinality(Quiet(f)') + Cardinality(Rotating(f)') <= 1 + slack'[f]
  <2> DEFINE k == Len(sessions) + 1
  <2> DEFINE g == Accounts!Fam(logins[c].session)
  <2> DEFINE new == [logins[c] EXCEPT !.pc = "revoking"]
  <2>1. logins[c].user \in Users /\ logins[c].session \in 1 .. Len(sessions) /\ logins[c].op = "refresh"
    BY <1>a, <1>11 DEF CallSound, Accounts!RefreshCreate
  <2>2. /\ Len(sessions) < MaxSessions /\ sessions' = Accounts!NewSession(logins[c].user, g)
        /\ logins' = [logins EXCEPT ![c] = new] /\ slack' = slack /\ logins[c].pc = "rotating"
    BY <1>11 DEF Accounts!RefreshCreate
  <2>3. g \in 1 .. Len(sessions) + 1
    BY <1>0, <1>s, <2>1 DEF Accounts!Fam
  <2>4. new \in IdCallType /\ new.pc = "revoking" /\ new.op = "refresh" /\ new.session = logins[c].session
    BY <1>a, <2>1 DEF IdCallType
  <2> HIDE DEF new
  <2>5. /\ DOMAIN sessions' = 1 .. Len(sessions) + 1 /\ sessions'[k].fam = g
        /\ \A n \in 1 .. Len(sessions) : sessions'[n] = sessions[n]
    BY <1>0, <2>1, <2>2, <2>3, SessionAdded
  <2>6. logins'[c] = new /\ \A d \in Calls \ {c} : logins'[d] = logins[d]
    BY <1>0, <2>2, <2>4, CallUpdate
  <2>7. \A n : Accounts!Exchanging(n)' = Accounts!Exchanging(n)
    BY <2>1, <2>2, <2>4, <2>6 DEF Accounts!Exchanging
  <2>8. \A n \in DOMAIN sessions' : n \in 1 .. Len(sessions) \/ n = k
    BY <1>s, <2>5
  <2>9. \A d \in Calls : logins'[d].pc = "rotating" =>
          d # c /\ logins'[d] = logins[d] /\ logins[d].session \in 1 .. Len(sessions)
    BY <1>a, <2>4, <2>6 DEF CallSound
  <2>10. Rotating(f)' \subseteq Rotating(f) \ {c}
    BY <2>5, <2>9 DEF Rotating, Accounts!Fam
  <2>11. Quiet(f)' \subseteq Quiet(f) \cup {k}
    BY <1>s, <2>5, <2>7, <2>8 DEF Quiet, Accounts!Fam
  <2>12. CASE f # g
    <3>1. k \notin Quiet(f)'
      BY <2>5, <2>12 DEF Quiet, Accounts!Fam
    <3> QED BY <1>c, <1>k, <2>2, <2>10, <2>11, <3>1
  <2>13. CASE f = g
    <3>1. c \in Rotating(f)
      BY <2>2, <2>13 DEF Rotating
    <3> HIDE DEF k, g
    <3>2. Cardinality(Quiet(f)') \in Nat /\ Cardinality(Quiet(f)) \in Nat
          /\ Cardinality(Quiet(f)') <= Cardinality(Quiet(f)) + 1
      BY <1>w, <2>11, CardGrow
    <3>3. Cardinality(Rotating(f)') \in Nat /\ Cardinality(Rotating(f)) \in Nat
          /\ Cardinality(Rotating(f)') + 1 <= Cardinality(Rotating(f))
      BY <1>w, <2>10, <3>1, CardShrink
    <3> QED BY <1>k, <1>p, <2>2, <3>2, <3>3
  <2> QED BY <2>12, <2>13
<1>12. ASSUME NEW c \in Calls, Accounts!RefreshRevoke(c)
      PROVE  Cardinality(Quiet(f)') + Cardinality(Rotating(f)') <= 1 + slack'[f]
  <2>1. logins[c].session \in DOMAIN sessions
    BY <1>a, <1>s, <1>12 DEF CallSound, Accounts!RefreshRevoke
  <2>2. SessionsRevoked /\ sessions'[logins[c].session].revoked
    BY <1>0, <1>12, <2>1, OneRevoked DEF Accounts!RefreshRevoke, Accounts!Revoked
  <2>3. logins[c].pc = "revoking" /\ logins' = [logins EXCEPT ![c] = Accounts!NoCall] /\ slack' = slack
    BY <1>12 DEF Accounts!RefreshRevoke, Accounts!Finish
  <2>4. logins'[c] = Accounts!NoCall /\ \A d \in Calls \ {c} : logins'[d] = logins[d]
    BY <1>0, <1>n, <2>3, CallUpdate
  <2>5. \A m : m # logins[c].session => Accounts!Exchanging(m)' = Accounts!Exchanging(m)
    BY <1>n, <2>4 DEF Accounts!Exchanging
  <2>6. logins[c].session \notin Quiet(f)'
    BY <2>2 DEF Quiet
  <2>7. Quiet(f)' \subseteq Quiet(f)
    BY <2>2, <2>5, <2>6 DEF Quiet, Accounts!Fam, SessionsRevoked
  <2>8. \A d \in Calls : logins'[d].pc = "rotating" => logins'[d] = logins[d] /\ logins[d].session \in DOMAIN sessions
    BY <1>a, <1>n, <1>s, <2>4 DEF CallSound
  <2>9. Rotating(f)' \subseteq Rotating(f)
    BY <2>2, <2>8 DEF Rotating, Accounts!Fam, SessionsRevoked
  <2> QED BY <1>c, <1>k, <2>3, <2>7, <2>9
<1>13. ASSUME NEW c \in Calls, Accounts!RefreshRevokeFails(c)
      PROVE  Cardinality(Quiet(f)') + Cardinality(Rotating(f)') <= 1 + slack'[f]
  <2> DEFINE n == logins[c].session
  <2>1. /\ logins[c].pc = "revoking" /\ logins' = [logins EXCEPT ![c] = Accounts!NoCall] /\ sessions' = sessions
        /\ slack' = [slack EXCEPT ![Accounts!Fam(n)] = @ + 1]
    BY <1>13 DEF Accounts!RefreshRevokeFails, Accounts!Finish
  <2>2. logins'[c] = Accounts!NoCall /\ \A d \in Calls \ {c} : logins'[d] = logins[d]
    BY <1>0, <1>n, <2>1, CallUpdate
  <2>3. \A m : m # n => Accounts!Exchanging(m)' = Accounts!Exchanging(m)
    BY <1>n, <2>2 DEF Accounts!Exchanging
  <2>4. Quiet(f)' \subseteq Quiet(f) \cup {n}
    BY <2>1, <2>3 DEF Quiet, Accounts!Fam
  <2>5. Rotating(f)' \subseteq Rotating(f)
    BY <1>n, <2>1, <2>2 DEF Rotating, Accounts!Fam
  <2>6. CASE Accounts!Fam(n) # f
    <3>1. n \notin Quiet(f)'
      BY <2>1, <2>6 DEF Quiet, Accounts!Fam
    <3>2. slack'[f] = slack[f]
      BY <1>0, <2>1, <2>6
    <3> QED BY <1>c, <1>k, <2>4, <2>5, <3>1, <3>2
  <2>7. CASE Accounts!Fam(n) = f
    <3>1. slack'[f] = slack[f] + 1
      BY <1>0, <2>1, <2>7
    <3> HIDE DEF n
    <3>2. Cardinality(Quiet(f)') \in Nat /\ Cardinality(Quiet(f)) \in Nat
          /\ Cardinality(Quiet(f)') <= Cardinality(Quiet(f)) + 1
      BY <1>w, <2>4, CardGrow
    <3>3. Cardinality(Rotating(f)') \in Nat /\ Cardinality(Rotating(f)) \in Nat
          /\ Cardinality(Rotating(f)') <= Cardinality(Rotating(f))
      BY <1>w, <2>5, CardSub
    <3> QED BY <1>k, <1>p, <3>1, <3>2, <3>3
  <2> QED BY <2>6, <2>7
<1>14. ASSUME NEW n \in 1 .. MaxSessions, Accounts!Logout(n)
      PROVE  Cardinality(Quiet(f)') + Cardinality(Rotating(f)') <= 1 + slack'[f]
  <2>1. SessionsRevoked
    BY <1>0, <1>14, OneRevoked DEF Accounts!Logout
  <2>2. logins' = logins /\ slack' = slack
    BY <1>14 DEF Accounts!Logout
  <2>3. \A d \in Calls : logins[d].pc = "rotating" => logins[d].session \in DOMAIN sessions
    BY <1>a, <1>s DEF CallSound
  <2>4. Quiet(f)' \subseteq Quiet(f)
    BY <2>1, <2>2 DEF Quiet, Accounts!Fam, SessionsRevoked, Accounts!Exchanging
  <2>5. Rotating(f)' \subseteq Rotating(f)
    BY <2>1, <2>2, <2>3 DEF Rotating, Accounts!Fam, SessionsRevoked
  <2> QED BY <1>c, <1>k, <2>2, <2>4, <2>5
<1> QED BY <1>1, <1>2, <1>3, <1>4, <1>5, <1>6, <1>7, <1>8, <1>9, <1>10, <1>11, <1>12, <1>13, <1>14 DEF Accounts!Next

LEMMA RotationStarts == MaxSessions \in Nat /\ Accounts!Init => RotationInv
<1> SUFFICES ASSUME MaxSessions \in Nat, Accounts!Init, NEW f \in 1 .. MaxSessions
             PROVE  Cardinality(Quiet(f)) + Cardinality(Rotating(f)) <= 1 + slack[f]
  BY DEF RotationInv
<1>1. sessions = <<>> /\ slack = [g \in 1 .. MaxSessions |-> 0] /\ logins = [c \in Calls |-> Accounts!NoCall]
  BY DEF Accounts!Init
<1>2. Quiet(f) = {}
  BY <1>1 DEF Quiet
<1>3. Rotating(f) = {}
  BY <1>1, NoCallTyped DEF Rotating
<1>4. Cardinality({}) = 0 /\ slack[f] = 0
  BY <1>1, FS_EmptySet
<1> QED BY <1>2, <1>3, <1>4

\* A family of refresh tokens has one usable session, one more for each
\* exchange between its two writes, for each exchange that overlapped another
\* of the same token and for each revocation that failed: for any number of
\* families, rotations and overlapping calls on any number of servers.
THEOREM RotationCorrect ==
  ASSUME IsFiniteSet(Calls), MaxSessions \in Nat, "" \notin Secrets
  PROVE  Accounts!Spec => []Accounts!RotationBound
<1>0. Blank \notin Secrets
  BY DEF Blank
<1>1. Accounts!Init => RotationInv
  BY RotationStarts
<1>2. FactorInv /\ RotationInv => Accounts!RotationBound
  BY RotationBounds, AccountsCard DEF Accounts!RotationBound
<1> QED BY <1>0, <1>1, <1>2, FactorAlways, RotationStep, PTL DEF Accounts!Spec

-----------------------------------------------------------------------------
(***************************************************************************)
(* The audit log: the chain of the in-memory table verifies because the    *)
(* lock orders reading the latest entry and inserting the next, and the    *)
(* hash covers the time as the table keeps it. Over either table a SIEM    *)
(* destination gets an entry of the trail, once: what is in the channel,   *)
(* with the worker and received are disjoint parts of the trail.           *)
(***************************************************************************)
NoEntry == CHOOSE r \in Recorders : TRUE

\* Appending to a sequence whose elements nothing is known about.
LEMMA AppendAny ==
  ASSUME NEW S, NEW t \in Seq(S), NEW x
  PROVE  /\ Append(t, x) \in Seq(S \cup {x}) /\ Len(Append(t, x)) = Len(t) + 1 /\ Len(t) \in Nat
         /\ DOMAIN t = 1 .. Len(t) /\ DOMAIN Append(t, x) = 1 .. Len(t) + 1
         /\ \A i \in 1 .. Len(t) : Append(t, x)[i] = t[i]
         /\ Append(t, x)[Len(t) + 1] = x
<1>1. t \in Seq(S \cup {x}) /\ x \in S \cup {x}
  OBVIOUS
<1> DEFINE U == S \cup {x}
<1> HIDE DEF U
<1>2. t \in Seq(U) /\ x \in U
  BY <1>1 DEF U
<1>3. /\ Append(t, x) \in Seq(U) /\ Len(Append(t, x)) = Len(t) + 1 /\ Len(t) \in Nat
      /\ DOMAIN t = 1 .. Len(t) /\ DOMAIN Append(t, x) = 1 .. Len(t) + 1
      /\ \A i \in 1 .. Len(t) : Append(t, x)[i] = t[i]
      /\ Append(t, x)[Len(t) + 1] = x
  BY <1>2
<1> QED BY <1>3 DEF U

Pcs == {"idle", "read", "stored", "failed", "panic", "sent", "dropped"}

RecTyped(H) == rec \in [Recorders -> [pc : Pcs, prev : H]]

\* In memory no recorder is between a read and an insert, and every entry is
\* what its hash says and linked to the one before.
TrailInv ==
  /\ \E H : RecTyped(H)
  /\ \E S : trail \in Seq(S)
  /\ \A r \in Recorders : rec[r].pc # "read"
  /\ \A i \in DOMAIN trail : Audit!Intact(i)

\* An entry is in one place of the pipeline: in the channel, with the worker,
\* which has not offered it to the destinations it still has to do, or behind
\* it.
ForwardInv ==
  /\ \E H : RecTyped(H)
  /\ \E S : trail \in Seq(S)
  /\ logChan \in Seq(Recorders) /\ dests \in SUBSET Targets
  /\ siem \in [busy : BOOLEAN, entry : Recorders \cup {NoEntry}, todo : SUBSET Targets]
  /\ received \in [Targets -> Seq(Recorders)]
  /\ \A i, j \in DOMAIN logChan : logChan[i] = logChan[j] => i = j
  /\ \A i \in DOMAIN logChan : rec[logChan[i]].pc = "sent"
  /\ siem.busy => /\ siem.entry \in Recorders /\ rec[siem.entry].pc = "sent"
                  /\ \A i \in DOMAIN logChan : logChan[i] # siem.entry
  /\ \A d \in Targets : \A i \in DOMAIN received[d] :
       /\ rec[received[d][i]].pc = "sent"
       /\ \A j \in DOMAIN logChan : logChan[j] # received[d][i]
       /\ siem.busy /\ received[d][i] = siem.entry => d \notin siem.todo
       /\ \A j \in DOMAIN received[d] : received[d][i] = received[d][j] => i = j
  /\ \A r \in Recorders : rec[r].pc \in {"stored", "sent", "dropped", "panic"} =>
       \E j \in DOMAIN trail : trail[j].who = r

\* One recorder moves on.
LEMMA RecMoves ==
  ASSUME NEW H, RecTyped(H), NEW r \in Recorders, NEW p \in Pcs, rec' = [rec EXCEPT ![r].pc = p]
  PROVE  RecTyped(H)' /\ rec'[r].pc = p /\ \A q \in Recorders \ {r} : rec'[q] = rec[q]
<1> DEFINE new == [rec[r] EXCEPT !.pc = p]
<1>1. new \in [pc : Pcs, prev : H] /\ new.pc = p
  BY DEF RecTyped
<1>2. rec' = [rec EXCEPT ![r] = new]
  OBVIOUS
<1> HIDE DEF new
<1>3. RecTyped(H)'
  BY <1>1, <1>2 DEF RecTyped
<1>4. rec'[r] = new /\ \A q \in Recorders \ {r} : rec'[q] = rec[q]
  BY <1>2 DEF RecTyped
<1> QED BY <1>1, <1>3, <1>4

LEMMA RecReads ==
  ASSUME NEW H, RecTyped(H), NEW r \in Recorders, NEW h, rec' = [rec EXCEPT ![r] = [pc |-> "read", prev |-> h]]
  PROVE  (\E G : RecTyped(G)') /\ rec'[r].pc = "read" /\ \A q \in Recorders \ {r} : rec'[q] = rec[q]
<1> DEFINE new == [pc |-> "read", prev |-> h]
<1> DEFINE G == H \cup {h}
<1>1. new \in [pc : Pcs, prev : G] /\ new.pc = "read"
  BY DEF Pcs
<1>2. rec \in [Recorders -> [pc : Pcs, prev : G]]
  BY DEF RecTyped
<1> HIDE DEF new, G
<1>3. rec' = [rec EXCEPT ![r] = new]
  BY DEF new
<1>4. rec' \in [Recorders -> [pc : Pcs, prev : G]]
  BY <1>1, <1>2, <1>3
<1>5. rec'[r] = new /\ \A q \in Recorders \ {r} : rec'[q] = rec[q]
  BY <1>2, <1>3
<1>6. RecTyped(G)'
  BY <1>4 DEF RecTyped
<1> QED BY <1>1, <1>5, <1>6

\* The entry in memory that links to the last one is intact.
LEMMA LinkedIsIntact ==
  ASSUME TableInMemory, NEW S, trail \in Seq(S), NEW r, trail' = Append(trail, Audit!Entry(r, Audit!LastHash)),
         \A i \in DOMAIN trail : Audit!Intact(i)
  PROVE  (\E T : trail' \in Seq(T)) /\ \A i \in DOMAIN trail' : Audit!Intact(i)'
<1> DEFINE e == Audit!Entry(r, Audit!LastHash)
<1>1. e.hash = Audit!ComputeHash(e.prev, e.who, e.ns) /\ e.prev = Audit!LastHash
  BY DEF Audit!Entry, Audit!Stored
<1> HIDE DEF e
<1>2. /\ Append(trail, e) \in Seq(S \cup {e}) /\ Len(trail) \in Nat
      /\ DOMAIN trail = 1 .. Len(trail) /\ DOMAIN Append(trail, e) = 1 .. Len(trail) + 1
      /\ \A i \in 1 .. Len(trail) : Append(trail, e)[i] = trail[i]
      /\ Append(trail, e)[Len(trail) + 1] = e
  BY AppendAny
<1>3. trail' = Append(trail, e)
  BY DEF e
<1>4. ASSUME NEW i \in DOMAIN trail' PROVE Audit!Intact(i)'
  <2>1. CASE i \in 1 .. Len(trail)
    <3>1. Audit!Intact(i)
      BY <1>2, <2>1
    <3>2. trail'[i] = trail[i] /\ (i # 1 => i - 1 \in 1 .. Len(trail) /\ trail'[i - 1] = trail[i - 1])
      BY <1>2, <1>3, <2>1
    <3> QED BY <3>1, <3>2 DEF Audit!Intact, Audit!ComputeHash
  <2>2. CASE i = Len(trail) + 1
    <3>1. trail'[i] = e
      BY <1>2, <1>3, <2>2
    <3>2. CASE Len(trail) = 0
      BY <1>1, <2>2, <3>1, <3>2 DEF Audit!Intact, Audit!ComputeHash
    <3>3. CASE Len(trail) # 0
      <4>1. Len(trail) \in 1 .. Len(trail) /\ i - 1 = Len(trail)
        BY <1>2, <2>2, <3>3
      <4>2. trail'[i - 1] = trail[Len(trail)]
        BY <1>2, <1>3, <4>1
      <4>3. trail # <<>>
        BY <3>3
      <4>4. e.prev = trail[Len(trail)].hash
        BY <1>1, <4>3 DEF Audit!LastHash, Audit!Last
      <4> QED BY <1>1, <3>1, <4>2, <4>4 DEF Audit!Intact, Audit!ComputeHash
    <3> QED BY <3>2, <3>3
  <2> QED BY <1>2, <1>3, <2>1, <2>2
<1> QED BY <1>2, <1>3, <1>4

LEMMA TrailStep ==
  ASSUME TableInMemory
  PROVE  TrailInv /\ [Audit!Next]_(Audit!auditVars) => TrailInv'
<1> SUFFICES ASSUME TrailInv, [Audit!Next]_(Audit!auditVars) PROVE TrailInv'
  OBVIOUS
<1>a. PICK H : RecTyped(H)
  BY DEF TrailInv
<1>b. PICK S : trail \in Seq(S)
  BY DEF TrailInv
<1>c. (\A i \in DOMAIN trail : Audit!Intact(i)) /\ \A r \in Recorders : rec[r].pc # "read"
  BY DEF TrailInv
<1>1. CASE UNCHANGED <<trail, rec>>
  BY <1>1 DEF TrailInv, Audit!Intact, RecTyped
<1>2. ASSUME NEW r \in Recorders, Audit!MemRecord(r) PROVE TrailInv'
  <2>1. trail' = Append(trail, Audit!Entry(r, Audit!LastHash)) /\ rec' = [rec EXCEPT ![r].pc = "stored"]
    BY <1>2 DEF Audit!MemRecord
  <2>2. (\E T : trail' \in Seq(T)) /\ \A i \in DOMAIN trail' : Audit!Intact(i)'
    BY <1>b, <1>c, <2>1, LinkedIsIntact
  <2>3. RecTyped(H)' /\ rec'[r].pc = "stored" /\ \A q \in Recorders \ {r} : rec'[q] = rec[q]
    BY <1>a, <2>1, RecMoves DEF Pcs
  <2>4. \A q \in Recorders : rec'[q].pc # "read"
    BY <1>c, <2>3
  <2> QED BY <2>2, <2>3, <2>4 DEF TrailInv
<1>3. ASSUME NEW r \in Recorders, Audit!Dispatch(r) PROVE TrailInv'
  <2>1. PICK p \in {"panic", "sent", "dropped"} : rec' = [rec EXCEPT ![r].pc = p]
    BY <1>3 DEF Audit!Dispatch
  <2>2. RecTyped(H)' /\ rec'[r].pc = p /\ \A q \in Recorders \ {r} : rec'[q] = rec[q]
    BY <1>a, <2>1, RecMoves DEF Pcs
  <2>3. \A q \in Recorders : rec'[q].pc # "read"
    BY <1>c, <2>1, <2>2
  <2>4. trail' = trail
    BY <1>3 DEF Audit!Dispatch
  <2> QED BY <1>b, <1>c, <2>2, <2>3, <2>4 DEF TrailInv, Audit!Intact
<1>4. ASSUME NEW r \in Recorders, Audit!GetLatestLog(r) \/ \E ok \in BOOLEAN : Audit!SqlRecord(r, ok) PROVE TrailInv'
  BY <1>4, <1>c DEF Audit!GetLatestLog, Audit!SqlRecord
<1>5. CASE Audit!SiemWorker \/ Audit!CloseSIEM \/ \E d \in Targets : Audit!CreateSIEMDestination(d) \/ Audit!DeleteSIEMDestination(d)
  <2>1. UNCHANGED <<trail, rec>>
    BY <1>5 DEF Audit!SiemWorker, Audit!WorkerTakes, Audit!WorkerDone, Audit!Forward, Audit!CloseSIEM, Audit!CreateSIEMDestination, Audit!DeleteSIEMDestination
  <2> QED BY <1>1, <2>1
<1> QED BY <1>1, <1>2, <1>3, <1>4, <1>5 DEF Audit!Next, Audit!auditVars

LEMMA RecInit ==
  ASSUME Audit!Init
  PROVE  /\ RecTyped({Audit!NoHash}) /\ \A r \in Recorders : rec[r].pc = "idle"
         /\ trail = <<>> /\ DOMAIN trail = {} /\ trail \in Seq({})
<1>1. [pc |-> "idle", prev |-> Audit!NoHash] \in [pc : Pcs, prev : {Audit!NoHash}]
  BY DEF Pcs
<1>2. rec = [r \in Recorders |-> [pc |-> "idle", prev |-> Audit!NoHash]] /\ trail = <<>>
  BY DEF Audit!Init
<1>3. DOMAIN trail = {} /\ trail \in Seq({})
  BY <1>2
<1> QED BY <1>1, <1>2, <1>3 DEF RecTyped

\* In memory the hash chain of the audit log verifies whatever the limit, for
\* any number of operations that record at once: the link to the last entry and
\* the append are one critical section (audit.go, Record).
THEOREM ChainCorrect ==
  ASSUME TableInMemory
  PROVE  Audit!Spec => []Audit!ChainVerifies
<1>1. Audit!Init => TrailInv
  BY RecInit DEF TrailInv
<1>2. TrailInv => Audit!ChainVerifies
  BY DEF TrailInv, Audit!ChainVerifies, Audit!VerifyAuditChain, Audit!MemVerify
<1> QED BY <1>1, <1>2, TrailStep, PTL DEF Audit!Spec

\* A recorder that the SIEM pipeline does not know yet moves on; what was
\* stored stays stored.
LEMMA ForwardRecords ==
  ASSUME ForwardInv, \E H : RecTyped(H)', \E S : trail' \in Seq(S), NEW r \in Recorders,
         rec[r].pc \in {"idle", "read"}, \A q \in Recorders \ {r} : rec'[q] = rec[q],
         rec'[r].pc # "sent",
         UNCHANGED <<logChan, siem, dests, received>>,
         \A q \in Recorders : rec'[q].pc \in {"stored", "sent", "dropped", "panic"} =>
           \E j \in DOMAIN trail' : trail'[j].who = q
  PROVE  ForwardInv'
<1>1. /\ logChan \in Seq(Recorders) /\ received \in [Targets -> Seq(Recorders)]
      /\ siem \in [busy : BOOLEAN, entry : Recorders \cup {NoEntry}, todo : SUBSET Targets]
  BY DEF ForwardInv
<1>2. \A i \in DOMAIN logChan : logChan[i] \in Recorders /\ rec'[logChan[i]].pc = "sent"
  BY <1>1 DEF ForwardInv
<1>3. siem.busy => rec'[siem.entry].pc = "sent"
  BY DEF ForwardInv
<1>4. \A d \in Targets : \A i \in DOMAIN received[d] : rec'[received[d][i]].pc = "sent"
  <2> SUFFICES ASSUME NEW d \in Targets, NEW i \in DOMAIN received[d] PROVE rec'[received[d][i]].pc = "sent"
    OBVIOUS
  <2>1. received[d][i] \in Recorders
    BY <1>1
  <2>2. rec[received[d][i]].pc = "sent"
    BY DEF ForwardInv
  <2> QED BY <2>1, <2>2
<1> QED BY <1>2, <1>3, <1>4 DEF ForwardInv

LEMMA ForwardStep == ForwardInv /\ [Audit!Next]_(Audit!auditVars) => ForwardInv'
<1> SUFFICES ASSUME ForwardInv, [Audit!Next]_(Audit!auditVars) PROVE ForwardInv'
  OBVIOUS
<1>a. PICK H : RecTyped(H)
  BY DEF ForwardInv
<1>b. PICK S : trail \in Seq(S)
  BY DEF ForwardInv
<1>c. /\ logChan \in Seq(Recorders) /\ dests \in SUBSET Targets /\ received \in [Targets -> Seq(Recorders)]
      /\ siem \in [busy : BOOLEAN, entry : Recorders \cup {NoEntry}, todo : SUBSET Targets]
  BY DEF ForwardInv
<1>d. \A r \in Recorders : rec[r].pc \in {"stored", "sent", "dropped", "panic"} =>
        \E j \in DOMAIN trail : trail[j].who = r
  BY DEF ForwardInv
<1>w. Audit!Waiting \in [busy : BOOLEAN, entry : Recorders \cup {NoEntry}, todo : SUBSET Targets] /\ ~Audit!Waiting.busy
  BY DEF Audit!Waiting, NoEntry
<1>1. CASE UNCHANGED <<trail, rec, logChan, siem, received>> /\ dests' \in SUBSET Targets
  <2>1. trail' = trail /\ rec' = rec /\ logChan' = logChan /\ siem' = siem /\ received' = received
    BY <1>1
  <2>2. RecTyped(H)'
    BY <1>a, <2>1 DEF RecTyped
  <2> QED BY <1>1, <2>1, <2>2 DEF ForwardInv
\* An entry is stored.
<1>e. ASSUME NEW r \in Recorders, NEW h, trail' = Append(trail, Audit!Entry(r, h)), rec[r].pc \in {"idle", "read"},
             rec' = [rec EXCEPT ![r].pc = "stored"], UNCHANGED <<logChan, siem, dests, received>>
      PROVE  ForwardInv'
  <2> DEFINE e == Audit!Entry(r, h)
  <2>1. e.who = r
    BY DEF Audit!Entry
  <2> HIDE DEF e
  <2>2. trail' = Append(trail, e)
    BY <1>e DEF e
  <2>3. /\ trail' \in Seq(S \cup {e}) /\ Len(trail) \in Nat
        /\ DOMAIN trail = 1 .. Len(trail) /\ DOMAIN trail' = 1 .. Len(trail) + 1
        /\ \A i \in 1 .. Len(trail) : trail'[i] = trail[i]
        /\ trail'[Len(trail) + 1] = e
    BY <1>b, <2>2, AppendAny
  <2>4. RecTyped(H)' /\ rec'[r].pc = "stored" /\ \A q \in Recorders \ {r} : rec'[q] = rec[q]
    BY <1>a, <1>e, RecMoves DEF Pcs
  <2>5. \A j \in DOMAIN trail : j \in DOMAIN trail' /\ trail'[j] = trail[j]
    BY <2>3
  <2>6. Len(trail) + 1 \in DOMAIN trail' /\ trail'[Len(trail) + 1].who = r
    BY <2>1, <2>3
  <2>7. \A q \in Recorders : rec'[q].pc \in {"stored", "sent", "dropped", "panic"} =>
           \E j \in DOMAIN trail' : trail'[j].who = q
    BY <1>d, <2>4, <2>5, <2>6
  <2> QED BY <1>e, <2>3, <2>4, <2>7, ForwardRecords
<1>2. ASSUME NEW r \in Recorders, Audit!MemRecord(r) PROVE ForwardInv'
  BY <1>2, <1>e DEF Audit!MemRecord
<1>3. ASSUME NEW r \in Recorders, Audit!GetLatestLog(r) PROVE ForwardInv'
  <2>1. /\ rec' = [rec EXCEPT ![r] = [pc |-> "read", prev |-> Audit!LastHash]] /\ rec[r].pc = "idle"
        /\ UNCHANGED <<trail, logChan, siem, dests, received>>
    BY <1>3 DEF Audit!GetLatestLog
  <2>2. (\E G : RecTyped(G)') /\ rec'[r].pc = "read" /\ \A q \in Recorders \ {r} : rec'[q] = rec[q]
    BY <1>a, <2>1, RecReads
  <2>3. \A q \in Recorders : rec'[q].pc \in {"stored", "sent", "dropped", "panic"} =>
           \E j \in DOMAIN trail' : trail'[j].who = q
    BY <1>d, <2>1, <2>2
  <2> QED BY <1>b, <2>1, <2>2, <2>3, ForwardRecords
<1>4. ASSUME NEW r \in Recorders, NEW ok \in BOOLEAN, Audit!SqlRecord(r, ok) PROVE ForwardInv'
  <2>1. CASE ok
    BY <1>4, <1>e, <2>1 DEF Audit!SqlRecord
  <2>2. CASE ~ok
    <3>1. /\ rec' = [rec EXCEPT ![r].pc = "failed"] /\ rec[r].pc = "read"
          /\ UNCHANGED <<trail, logChan, siem, dests, received>>
      BY <1>4, <2>2 DEF Audit!SqlRecord
    <3>2. RecTyped(H)' /\ rec'[r].pc = "failed" /\ \A q \in Recorders \ {r} : rec'[q] = rec[q]
      BY <1>a, <3>1, RecMoves DEF Pcs
    <3>3. \A q \in Recorders : rec'[q].pc \in {"stored", "sent", "dropped", "panic"} =>
             \E j \in DOMAIN trail' : trail'[j].who = q
      BY <1>d, <3>1, <3>2
    <3> QED BY <1>b, <3>1, <3>2, <3>3, ForwardRecords
  <2> QED BY <2>1, <2>2
<1>5. ASSUME NEW r \in Recorders, Audit!Dispatch(r) PROVE ForwardInv'
  <2>1. PICK p \in {"panic", "sent", "dropped"} : rec' = [rec EXCEPT ![r].pc = p]
    BY <1>5 DEF Audit!Dispatch
  <2>2. RecTyped(H)' /\ rec'[r].pc = p /\ \A q \in Recorders \ {r} : rec'[q] = rec[q]
    BY <1>a, <2>1, RecMoves DEF Pcs
  <2>3. /\ rec[r].pc = "stored" /\ UNCHANGED <<trail, siem, dests, received>>
        /\ logChan' = IF p = "sent" THEN Append(logChan, r) ELSE logChan
    BY <1>5, <2>2 DEF Audit!Dispatch
  <2>4. \A q \in Recorders : rec'[q].pc \in {"stored", "sent", "dropped", "panic"} =>
           \E j \in DOMAIN trail' : trail'[j].who = q
    BY <1>d, <2>2, <2>3
  <2>5. \A q \in Recorders : rec[q].pc = "sent" => q # r /\ rec'[q].pc = "sent"
    BY <2>2, <2>3
  <2>6. \A i \in DOMAIN logChan : logChan[i] \in Recorders /\ logChan[i] # r /\ rec'[logChan[i]].pc = "sent"
    BY <1>c, <2>5 DEF ForwardInv
  <2>7. siem.busy => siem.entry # r /\ rec'[siem.entry].pc = "sent"
    BY <2>5 DEF ForwardInv
  <2>8. \A d \in Targets : \A i \in DOMAIN received[d] :
          received[d][i] # r /\ rec'[received[d][i]].pc = "sent"
    <3> SUFFICES ASSUME NEW d \in Targets, NEW i \in DOMAIN received[d]
                 PROVE  received[d][i] # r /\ rec'[received[d][i]].pc = "sent"
      OBVIOUS
    <3>1. received[d][i] \in Recorders
      BY <1>c
    <3> QED BY <2>5, <3>1 DEF ForwardInv
  <2>9. CASE p # "sent"
    <3>1. logChan' = logChan
      BY <2>3, <2>9
    <3> QED BY <1>b, <2>2, <2>3, <2>4, <2>6, <2>7, <2>8, <3>1 DEF ForwardInv
  <2>10. CASE p = "sent"
    <3>1. logChan' = Append(logChan, r)
      BY <2>3, <2>10
    <3>2. /\ logChan' \in Seq(Recorders) /\ Len(logChan) \in Nat /\ DOMAIN logChan = 1 .. Len(logChan)
          /\ DOMAIN logChan' = 1 .. Len(logChan) + 1
          /\ \A i \in 1 .. Len(logChan) : logChan'[i] = logChan[i]
          /\ logChan'[Len(logChan) + 1] = r
      BY <1>c, <3>1
    <3>3. \A i \in DOMAIN logChan' : \/ i \in DOMAIN logChan /\ logChan'[i] = logChan[i]
                                     \/ i = Len(logChan) + 1 /\ logChan'[i] = r
      BY <3>2
    <3>4. \A i, j \in DOMAIN logChan' : logChan'[i] = logChan'[j] => i = j
      BY <2>6, <3>3 DEF ForwardInv
    <3>5. \A i \in DOMAIN logChan' : rec'[logChan'[i]].pc = "sent"
      BY <2>2, <2>6, <2>10, <3>3
    <3>6. siem.busy => \A i \in DOMAIN logChan' : logChan'[i] # siem.entry
      BY <2>7, <3>3 DEF ForwardInv
    <3>7. \A d \in Targets : \A i \in DOMAIN received[d] : \A j \in DOMAIN logChan' : logChan'[j] # received[d][i]
      BY <2>8, <3>3 DEF ForwardInv
    <3> QED BY <1>b, <2>2, <2>3, <2>4, <2>7, <2>8, <3>2, <3>4, <3>5, <3>6, <3>7 DEF ForwardInv
  <2> QED BY <2>9, <2>10
<1>6. CASE Audit!WorkerTakes
  <2>1. /\ ~siem.busy /\ logChan # <<>> /\ logChan' = Tail(logChan) /\ UNCHANGED <<trail, rec, dests, received>>
        /\ siem' = IF siemUp \/ TableInMemory
                   THEN [busy |-> TRUE, entry |-> Head(logChan), todo |-> dests] ELSE Audit!Waiting
    BY <1>6 DEF Audit!WorkerTakes
  <2>2. /\ logChan' \in Seq(Recorders) /\ Head(logChan) = logChan[1] /\ 1 \in DOMAIN logChan
        /\ \A i \in DOMAIN logChan' : i + 1 \in DOMAIN logChan /\ i + 1 # 1 /\ logChan'[i] = logChan[i + 1]
        /\ \A i, j \in DOMAIN logChan' : i + 1 = j + 1 => i = j
    BY <1>c, <2>1
  <2>3. \A i, j \in DOMAIN logChan' : logChan'[i] = logChan'[j] => i = j
    BY <2>2 DEF ForwardInv
  <2>4. \A i \in DOMAIN logChan' : rec[logChan'[i]].pc = "sent" /\ logChan'[i] # Head(logChan)
    BY <2>2 DEF ForwardInv
  <2>5. Head(logChan) \in Recorders /\ rec[Head(logChan)].pc = "sent"
    BY <1>c, <2>2 DEF ForwardInv
  <2>6. \A d \in Targets : \A i \in DOMAIN received[d] :
          /\ \A j \in DOMAIN logChan' : logChan'[j] # received[d][i]
          /\ received[d][i] # Head(logChan)
    BY <2>2 DEF ForwardInv
  <2>7. siem' \in [busy : BOOLEAN, entry : Recorders \cup {NoEntry}, todo : SUBSET Targets]
    BY <1>c, <1>w, <2>1, <2>5
  <2>8. siem'.busy => siem'.entry = Head(logChan)
    BY <1>w, <2>1
  <2>9. rec' = rec /\ trail' = trail /\ dests' = dests /\ received' = received
    BY <2>1
  <2>10. \E G : RecTyped(G)'
    BY <1>a, <2>9 DEF RecTyped
  <2> QED BY <1>b, <2>2, <2>3, <2>4, <2>5, <2>6, <2>7, <2>8, <2>9, <2>10 DEF ForwardInv
<1>7. CASE Audit!WorkerDone
  <2>1. siem' = Audit!Waiting /\ UNCHANGED <<trail, rec, logChan, dests, received>>
    BY <1>7 DEF Audit!WorkerDone
  <2>2. \E G : RecTyped(G)'
    BY <1>a, <2>1 DEF RecTyped
  <2> QED BY <1>w, <2>1, <2>2 DEF ForwardInv
<1>8. ASSUME NEW d \in Targets, NEW ok \in BOOLEAN, Audit!Forward(d, ok) PROVE ForwardInv'
  <2>1. /\ siem.busy /\ d \in siem.todo /\ siem' = [siem EXCEPT !.todo = @ \ {d}]
        /\ received' = IF ok THEN [received EXCEPT ![d] = Append(@, siem.entry)] ELSE received
        /\ UNCHANGED <<trail, rec, logChan, dests>>
    BY <1>8 DEF Audit!Forward
  <2>2. /\ siem'.busy /\ siem'.entry = siem.entry /\ siem'.todo = siem.todo \ {d}
        /\ siem' \in [busy : BOOLEAN, entry : Recorders \cup {NoEntry}, todo : SUBSET Targets]
    BY <1>c, <2>1
  <2>3. \E G : RecTyped(G)'
    BY <1>a, <2>1 DEF RecTyped
  <2>4. /\ siem.entry \in Recorders /\ rec[siem.entry].pc = "sent"
        /\ \A i \in DOMAIN logChan : logChan[i] # siem.entry
    BY <2>1 DEF ForwardInv
  <2>5. CASE ~ok
    <3>1. received' = received
      BY <2>1, <2>5
    <3>2. \A t \in Targets : \A i \in DOMAIN received[t] : received[t][i] = siem.entry => t \notin siem'.todo
      BY <2>1, <2>2 DEF ForwardInv
    <3> QED BY <1>c, <2>1, <2>2, <2>3, <2>4, <3>1, <3>2 DEF ForwardInv
  <2>6. CASE ok
    <3> DEFINE new == Append(received[d], siem.entry)
    <3>1. received' = [received EXCEPT ![d] = new]
      BY <2>1, <2>6
    <3>2. received[d] \in Seq(Recorders)
      BY <1>c
    <3>3. /\ new \in Seq(Recorders) /\ Len(received[d]) \in Nat /\ DOMAIN received[d] = 1 .. Len(received[d])
          /\ DOMAIN new = 1 .. Len(received[d]) + 1
          /\ \A i \in 1 .. Len(received[d]) : new[i] = received[d][i]
          /\ new[Len(received[d]) + 1] = siem.entry
      BY <2>4, <3>2
    <3> HIDE DEF new
    <3>4. /\ received' \in [Targets -> Seq(Recorders)]
          /\ \A t \in Targets : received'[t] = IF t = d THEN new ELSE received[t]
      BY <1>c, <3>1, <3>3
    <3>5. \A i \in DOMAIN new : \/ i \in DOMAIN received[d] /\ new[i] = received[d][i]
                                \/ i = Len(received[d]) + 1 /\ new[i] = siem.entry
      BY <3>3
    <3>6. \A i \in DOMAIN received[d] : received[d][i] # siem.entry
      BY <2>1 DEF ForwardInv
    <3>7. \A i \in DOMAIN new : /\ rec[new[i]].pc = "sent"
                                /\ \A j \in DOMAIN logChan : logChan[j] # new[i]
                                /\ \A j \in DOMAIN new : new[i] = new[j] => i = j
      BY <2>4, <3>5, <3>6 DEF ForwardInv
    <3>8. d \notin siem'.todo /\ \A t \in Targets \ {d} : t \notin siem.todo => t \notin siem'.todo
      BY <2>2
    <3>9. \A t \in Targets : \A i \in DOMAIN received'[t] :
            /\ rec[received'[t][i]].pc = "sent"
            /\ \A j \in DOMAIN logChan : logChan[j] # received'[t][i]
            /\ received'[t][i] = siem.entry => t \notin siem'.todo
            /\ \A j \in DOMAIN received'[t] : received'[t][i] = received'[t][j] => i = j
      <4> SUFFICES ASSUME NEW t \in Targets, NEW i \in DOMAIN received'[t]
                   PROVE  /\ rec[received'[t][i]].pc = "sent"
                          /\ \A j \in DOMAIN logChan : logChan[j] # received'[t][i]
                          /\ received'[t][i] = siem.entry => t \notin siem'.todo
                          /\ \A j \in DOMAIN received'[t] : received'[t][i] = received'[t][j] => i = j
        OBVIOUS
      <4>1. CASE t = d
        BY <3>4, <3>7, <3>8, <4>1
      <4>2. CASE t # d
        <5>1. received'[t] = received[t]
          BY <3>4, <4>2
        <5> QED BY <2>1, <3>8, <4>2, <5>1 DEF ForwardInv
      <4> QED BY <4>1, <4>2
    <3> QED BY <1>c, <2>1, <2>2, <2>3, <2>4, <3>4, <3>9 DEF ForwardInv
  <2> QED BY <2>5, <2>6
<1>9. ASSUME NEW d \in Targets, Audit!CreateSIEMDestination(d) \/ Audit!DeleteSIEMDestination(d) PROVE ForwardInv'
  BY <1>1, <1>9, <1>c DEF Audit!CreateSIEMDestination, Audit!DeleteSIEMDestination
<1>10. CASE Audit!CloseSIEM \/ UNCHANGED Audit!auditVars
  BY <1>1, <1>10, <1>c DEF Audit!CloseSIEM, Audit!auditVars
<1> QED BY <1>2, <1>3, <1>4, <1>5, <1>6, <1>7, <1>8, <1>9, <1>10 DEF Audit!Next, Audit!SiemWorker

\* A SIEM destination gets an entry at most once, and only an entry of the
\* trail whose Dispatch reached the channel, for any number of recorders and
\* destinations and any capacity, over either table.
THEOREM ForwardingCorrect == Audit!Spec => []Audit!ForwardedOnce
<1>1. Audit!Init => ForwardInv
  <2> SUFFICES ASSUME Audit!Init PROVE ForwardInv
    OBVIOUS
  <2>1. Audit!Waiting \in [busy : BOOLEAN, entry : Recorders \cup {NoEntry}, todo : SUBSET Targets] /\ ~Audit!Waiting.busy
    BY DEF Audit!Waiting, NoEntry
  <2>2. /\ logChan = <<>> /\ siem = Audit!Waiting /\ dests = {} /\ received = [d \in Targets |-> <<>>]
    BY DEF Audit!Init
  <2>3. logChan \in Seq(Recorders) /\ DOMAIN logChan = {} /\ received \in [Targets -> Seq(Recorders)]
    BY <2>2
  <2>4. \A d \in Targets : DOMAIN received[d] = {}
    BY <2>2
  <2> QED BY <2>1, <2>2, <2>3, <2>4, RecInit DEF ForwardInv
<1>2. ForwardInv => Audit!ForwardedOnce
  <2> SUFFICES ASSUME ForwardInv, NEW d \in Targets
               PROVE  /\ Audit!IsInjective(received[d])
                      /\ \A i \in DOMAIN received[d] :
                           /\ rec[received[d][i]].pc = "sent"
                           /\ \E j \in DOMAIN trail : trail[j].who = received[d][i]
    BY DEF Audit!ForwardedOnce
  <2>1. \A i \in DOMAIN received[d] : received[d][i] \in Recorders
    BY DEF ForwardInv
  <2>2. Audit!IsInjective(received[d])
    BY DEF ForwardInv, Audit!IsInjective
  <2> QED BY <2>1, <2>2 DEF ForwardInv
<1> QED BY <1>1, <1>2, ForwardStep, PTL DEF Audit!Spec

-----------------------------------------------------------------------------
(***************************************************************************)
(* The in-memory rate limiter: in no window do more than two windows'      *)
(* worth of calls pass. The invariant counts the calls since the bucket's  *)
(* window began, and before it, against the bucket's count.                *)
(***************************************************************************)
\* The cardinality that the module refers to is that of FiniteSets.
LEMMA LimiterCard ==
  ASSUME NEW S
  PROVE  Limiter!Cardinality(S) = Cardinality(S)
BY DEF Cardinality, Limiter!Cardinality

\* The calls let through at a time of T.
Hits(T) == {k \in DOMAIN passed : passed[k] \in T}

\* The bucket's calls since the refill are the tokens it has given out, and
\* the window before the refill holds the calls of one bucket at most.
BucketType ==
  /\ now \in Nat /\ passed \in Seq(Nat) /\ \A k \in DOMAIN passed : passed[k] <= now
  /\ bucket \in [known : BOOLEAN, tokens : Nat, refill : Nat]

BucketInv ==
  /\ BucketType
  /\ ~bucket.known => passed = <<>>
  /\ bucket.known =>
       /\ bucket.refill <= now /\ bucket.tokens <= Limit
       /\ \A k \in DOMAIN passed : passed[k] < bucket.refill + LimitWindow
       /\ Cardinality(Hits(bucket.refill .. now)) <= Limit - bucket.tokens
       /\ Cardinality(Hits(bucket.refill - LimitWindow .. bucket.refill - 1)) <= Limit
  /\ \A t \in Int : Cardinality(Hits(t .. t + LimitWindow - 1)) <= 2 * Limit

LEMMA BucketTyped ==
  ASSUME BucketInv
  PROVE  /\ now \in Nat /\ passed \in Seq(Nat) /\ \A k \in DOMAIN passed : passed[k] \in Nat /\ passed[k] <= now
         /\ bucket \in [known : BOOLEAN, tokens : Nat, refill : Nat]
         /\ bucket.known \in BOOLEAN /\ bucket.tokens \in Nat /\ bucket.refill \in Nat
<1>1. BucketType
  BY DEF BucketInv
<1>2. passed \in Seq(Nat)
  BY <1>1 DEF BucketType
<1>3. \A k \in DOMAIN passed : passed[k] \in Nat
  BY <1>2
<1> QED BY <1>1, <1>2, <1>3 DEF BucketType

LEMMA HitsFinite ==
  ASSUME passed \in Seq(Nat), NEW T
  PROVE  IsFiniteSet(Hits(T)) /\ Cardinality(Hits(T)) \in Nat
<1>1. Len(passed) \in Nat /\ DOMAIN passed = 1 .. Len(passed)
  BY LenIsNat
<1>2. IsFiniteSet(DOMAIN passed)
  BY <1>1, FS_Interval
<1>3. Hits(T) \subseteq DOMAIN passed
  BY DEF Hits
<1> QED BY <1>2, <1>3, CardSub

LEMMA HitsNone ==
  ASSUME passed \in Seq(Nat), NEW T, \A k \in DOMAIN passed : passed[k] \notin T
  PROVE  Cardinality(Hits(T)) = 0
<1>1. Hits(T) = {}
  BY DEF Hits
<1> QED BY <1>1, FS_EmptySet

LEMMA HitsWithin ==
  ASSUME passed \in Seq(Nat), NEW T, NEW U, T \subseteq U
  PROVE  Cardinality(Hits(T)) \in Nat /\ Cardinality(Hits(U)) \in Nat /\ Cardinality(Hits(T)) <= Cardinality(Hits(U))
<1>1. Hits(T) \subseteq Hits(U)
  BY DEF Hits
<1> QED BY <1>1, HitsFinite, CardSub

\* The bucket a call finds, refilled when it is due.
LEMMA BucketFound ==
  ASSUME BucketInv, Limit \in Nat, LimitWindow \in Nat \ {0}
  PROVE  /\ Limiter!MemBucket \in [known : {TRUE}, tokens : Nat, refill : Nat]
         /\ Limiter!MemBucket.refill <= now /\ Limiter!MemBucket.tokens <= Limit
         /\ now - Limiter!MemBucket.refill < LimitWindow
         /\ \A k \in DOMAIN passed : passed[k] < Limiter!MemBucket.refill + LimitWindow
         /\ Cardinality(Hits(Limiter!MemBucket.refill .. now)) <= Limit - Limiter!MemBucket.tokens
         /\ Cardinality(Hits(Limiter!MemBucket.refill - LimitWindow .. Limiter!MemBucket.refill - 1)) <= Limit
<1>0. /\ now \in Nat /\ passed \in Seq(Nat) /\ \A k \in DOMAIN passed : passed[k] \in Nat /\ passed[k] <= now
      /\ bucket \in [known : BOOLEAN, tokens : Nat, refill : Nat]
      /\ bucket.known \in BOOLEAN /\ bucket.tokens \in Nat /\ bucket.refill \in Nat
  BY BucketTyped
<1>1. CASE ~(~bucket.known \/ Limiter!Due)
  <2>1. Limiter!MemBucket = bucket
    BY <1>1 DEF Limiter!MemBucket
  <2>2. now - bucket.refill < LimitWindow
    BY <1>0, <1>1 DEF Limiter!Due
  <2>3. bucket.known = TRUE
    BY <1>0, <1>1
  <2>4. bucket \in [known : {TRUE}, tokens : Nat, refill : Nat]
    BY <1>0, <2>3
  <2> QED BY <2>1, <2>2, <2>3, <2>4 DEF BucketInv
<1>2. CASE ~bucket.known \/ Limiter!Due
  <2> DEFINE b == [known |-> TRUE, tokens |-> Limit, refill |-> now]
  <2>1. Limiter!MemBucket = b
    BY <1>2 DEF Limiter!MemBucket
  <2>2. b \in [known : {TRUE}, tokens : Nat, refill : Nat] /\ b.tokens = Limit /\ b.refill = now
    BY <1>0
  <2> HIDE DEF b
  <2>3. /\ Cardinality(Hits(now .. now)) = 0
        /\ Cardinality(Hits(now - LimitWindow .. now - 1)) <= Limit
        /\ \A k \in DOMAIN passed : passed[k] < now + LimitWindow
    <3>1. CASE ~bucket.known
      <4>1. \A k \in DOMAIN passed : FALSE
        BY <3>1 DEF BucketInv
      <4> QED BY <1>0, <4>1, HitsNone
    <3>2. CASE bucket.known /\ Limiter!Due
      <4>1. bucket.refill <= now - LimitWindow /\ \A k \in DOMAIN passed : passed[k] < bucket.refill + LimitWindow
        BY <1>0, <3>2 DEF Limiter!Due, BucketInv
      <4>2. now - LimitWindow .. now - 1 \subseteq bucket.refill .. now
        BY <1>0, <4>1
      <4>3. /\ Cardinality(Hits(now - LimitWindow .. now - 1)) <= Cardinality(Hits(bucket.refill .. now))
            /\ Cardinality(Hits(now - LimitWindow .. now - 1)) \in Nat
            /\ Cardinality(Hits(bucket.refill .. now)) \in Nat
        BY <1>0, <4>2, HitsWithin
      <4>4. Cardinality(Hits(bucket.refill .. now)) <= Limit - bucket.tokens
        BY <3>2 DEF BucketInv
      <4>5. \A k \in DOMAIN passed : passed[k] < now
        BY <1>0, <4>1
      <4>6. \A k \in DOMAIN passed : passed[k] \notin now .. now
        BY <1>0, <4>5
      <4>7. Cardinality(Hits(now .. now)) = 0
        BY <1>0, <4>6, HitsNone
      <4> QED BY <1>0, <4>3, <4>4, <4>5, <4>7
    <3> QED BY <1>2, <3>1, <3>2
  <2>4. Cardinality(Hits(now .. now)) <= Limit - Limit /\ now - now < LimitWindow
    BY <1>0, <2>3
  <2>5. /\ b.refill <= now /\ b.tokens <= Limit /\ now - b.refill < LimitWindow
        /\ Cardinality(Hits(b.refill .. now)) <= Limit - b.tokens
        /\ Cardinality(Hits(b.refill - LimitWindow .. b.refill - 1)) <= Limit
        /\ \A k \in DOMAIN passed : passed[k] < b.refill + LimitWindow
    BY <1>0, <2>2, <2>3, <2>4
  <2> QED BY <2>1, <2>2, <2>5
<1> QED BY <1>1, <1>2

LEMMA BucketStep ==
  ASSUME BucketInMemory, Limit \in Nat, LimitWindow \in Nat \ {0}, BucketInv, [Limiter!Next]_(Limiter!rateVars)
  PROVE  BucketInv'
<1>0. /\ now \in Nat /\ passed \in Seq(Nat) /\ \A k \in DOMAIN passed : passed[k] \in Nat /\ passed[k] <= now
      /\ bucket \in [known : BOOLEAN, tokens : Nat, refill : Nat]
      /\ bucket.known \in BOOLEAN /\ bucket.tokens \in Nat /\ bucket.refill \in Nat
  BY BucketTyped
<1>1. CASE UNCHANGED <<now, bucket, passed>>
  <2>1. now' = now /\ bucket' = bucket /\ passed' = passed
    BY <1>1
  <2> QED BY <2>1 DEF BucketInv, BucketType, Hits
<1>2. CASE Limiter!Tick
  <2>1. now' = now + 1 /\ bucket' = bucket /\ passed' = passed
    BY <1>2 DEF Limiter!Tick
  <2>2. \A T : Hits(T)' = Hits(T)
    BY <2>1 DEF Hits
  <2>3. Hits(bucket.refill .. now + 1) = Hits(bucket.refill .. now)
    BY <1>0 DEF Hits
  <2> HIDE DEF Hits
  <2>4. now' \in Nat /\ \A k \in DOMAIN passed : passed[k] <= now + 1
    BY <1>0, <2>1
  <2>5. bucket.known => bucket.refill <= now + 1
    BY <1>0 DEF BucketInv
  <2>6. Hits(bucket.refill .. now)' = Hits(bucket.refill .. now)
    BY <2>1, <2>3 DEF Hits
  <2>7. Hits(bucket.refill - LimitWindow .. bucket.refill - 1)' = Hits(bucket.refill - LimitWindow .. bucket.refill - 1)
    BY <2>1 DEF Hits
  <2>8. \A t \in Int : Hits(t .. t + LimitWindow - 1)' = Hits(t .. t + LimitWindow - 1)
    BY <2>1 DEF Hits
  <2>9. BucketType'
    BY <1>0, <2>1, <2>4 DEF BucketType
  <2> QED BY <2>1, <2>5, <2>6, <2>7, <2>8, <2>9 DEF BucketInv
<1>3. CASE Limiter!CheckLimit
  <2> DEFINE b == Limiter!MemBucket
  <2>1. /\ bucket' = [b EXCEPT !.tokens = IF @ > 0 THEN @ - 1 ELSE @]
        /\ passed' = IF b.tokens > 0 THEN Append(passed, now) ELSE passed
        /\ now' = now
    BY <1>3 DEF Limiter!CheckLimit, Limiter!MemAllow
  <2>2. /\ b \in [known : {TRUE}, tokens : Nat, refill : Nat]
        /\ b.refill <= now /\ b.tokens <= Limit
        /\ now - b.refill < LimitWindow
        /\ \A k \in DOMAIN passed : passed[k] < b.refill + LimitWindow
        /\ Cardinality(Hits(b.refill .. now)) <= Limit - b.tokens
        /\ Cardinality(Hits(b.refill - LimitWindow .. b.refill - 1)) <= Limit
    BY BucketFound
  <2> HIDE DEF b
  <2>3. b.tokens \in Nat /\ b.refill \in Nat
    BY <2>2
  <2>4. CASE b.tokens = 0
    <3>1. bucket' = b /\ passed' = passed /\ now' = now
      BY <2>1, <2>2, <2>4
    <3>2. bucket' \in [known : BOOLEAN, tokens : Nat, refill : Nat] /\ bucket'.known
      BY <2>2, <3>1
    <3>3. /\ Hits(bucket.refill .. now)' = Hits(b.refill .. now)
          /\ Hits(bucket.refill - LimitWindow .. bucket.refill - 1)' = Hits(b.refill - LimitWindow .. b.refill - 1)
      BY <3>1 DEF Hits
    <3>4. \A t \in Int : Hits(t .. t + LimitWindow - 1)' = Hits(t .. t + LimitWindow - 1)
      BY <3>1 DEF Hits
    <3>5. BucketType'
      BY <1>0, <3>1, <3>2 DEF BucketType
    <3>6. \A t \in Int : Cardinality(Hits(t .. t + LimitWindow - 1)') <= 2 * Limit
      BY <3>4 DEF BucketInv
    <3> QED BY <2>2, <3>1, <3>2, <3>3, <3>5, <3>6 DEF BucketInv
  <2>5. CASE b.tokens # 0
    <3> DEFINE c == b.tokens
    <3> DEFINE r == b.refill
    <3>0. c \in Nat /\ c # 0 /\ c > 0 /\ c <= Limit /\ r \in Nat /\ r <= now /\ now - r < LimitWindow
      BY <2>2, <2>3, <2>5
    <3>1. /\ bucket' \in [known : BOOLEAN, tokens : Nat, refill : Nat] /\ bucket'.known
          /\ bucket'.tokens = c - 1 /\ bucket'.refill = r
          /\ passed' = Append(passed, now) /\ now' = now
      <4>1. bucket' = [b EXCEPT !.tokens = b.tokens - 1] /\ passed' = Append(passed, now)
        BY <2>1, <2>2, <3>0
      <4>2. b.tokens - 1 \in Nat
        BY <3>0
      <4> QED BY <2>1, <2>2, <4>1, <4>2
    <3>2. \A k \in DOMAIN passed : passed[k] < r + LimitWindow
      BY <2>2
    <3>3. /\ Cardinality(Hits(r .. now)) <= Limit - c
          /\ Cardinality(Hits(r - LimitWindow .. r - 1)) <= Limit
      BY <2>2
    <3> HIDE DEF c, r
    <3>4. /\ passed' \in Seq(Nat) /\ \A k \in DOMAIN passed' : passed'[k] <= now /\ passed'[k] < r + LimitWindow
      <4>1. Len(passed) \in Nat /\ DOMAIN passed = 1 .. Len(passed)
        BY <1>0, LenIsNat
      <4>2. /\ passed' \in Seq(Nat) /\ DOMAIN passed' = 1 .. Len(passed) + 1
            /\ \A k \in 1 .. Len(passed) : passed'[k] = passed[k]
            /\ passed'[Len(passed) + 1] = now
        BY <1>0, <3>1, <4>1
      <4> QED BY <1>0, <3>0, <3>2, <4>1, <4>2
    <3> DEFINE H(T) == {k \in DOMAIN passed' : passed'[k] \in T}
    <3>5. \A T : /\ now \notin T => H(T) = Hits(T)
                 /\ Cardinality(H(T)) <= Cardinality(Hits(T)) + 1
                 /\ Cardinality(H(T)) \in Nat /\ Cardinality(Hits(T)) \in Nat
      <4> TAKE T
      <4>1. Len(passed) \in Nat /\ DOMAIN passed = 1 .. Len(passed)
        BY <1>0, LenIsNat
      <4>2. /\ passed' \in Seq(Nat) /\ DOMAIN passed' = 1 .. Len(passed) + 1
            /\ \A k \in 1 .. Len(passed) : passed'[k] = passed[k]
            /\ passed'[Len(passed) + 1] = now
        BY <1>0, <3>1, <4>1
      <4>3. now \notin T => H(T) = Hits(T)
        BY <4>1, <4>2 DEF Hits
      <4>4. H(T) \subseteq Hits(T) \cup {Len(passed) + 1}
        BY <4>1, <4>2 DEF Hits
      <4>5. IsFiniteSet(Hits(T))
        BY <1>0, HitsFinite
      <4> QED BY <4>3, <4>4, <4>5, CardGrow
    <3>6. \A T, U, V : (\A x \in Nat : x <= now /\ x \in T => x \in U \cup V) =>
             Cardinality(H(T)) <= Cardinality(H(U)) + Cardinality(H(V))
      <4> TAKE T, U, V
      <4> HAVE \A x \in Nat : x <= now /\ x \in T => x \in U \cup V
      <4>1. Len(passed') \in Nat /\ DOMAIN passed' = 1 .. Len(passed')
        BY <3>4, LenIsNat
      <4>2. IsFiniteSet(DOMAIN passed')
        BY <4>1, FS_Interval
      <4>3. /\ IsFiniteSet(H(T)) /\ Cardinality(H(T)) \in Nat
            /\ IsFiniteSet(H(U)) /\ Cardinality(H(U)) \in Nat
            /\ IsFiniteSet(H(V)) /\ Cardinality(H(V)) \in Nat
        BY <4>2, CardSub
      <4>4. H(T) \subseteq H(U) \cup H(V)
        BY <3>4
      <4>5. /\ IsFiniteSet(H(U) \cup H(V))
            /\ Cardinality(H(U) \cup H(V)) <= Cardinality(H(U)) + Cardinality(H(V))
        BY <4>3, CardUnion
      <4> HIDE DEF H
      <4>6. /\ Cardinality(H(T)) <= Cardinality(H(U) \cup H(V))
            /\ Cardinality(H(T)) \in Nat /\ Cardinality(H(U) \cup H(V)) \in Nat
        BY <4>4, <4>5, CardSub
      <4> QED BY <4>3, <4>5, <4>6
    <3> HIDE DEF H
    <3>7. Cardinality(H(r .. now)) <= Limit - (c - 1)
      BY <3>0, <3>3, <3>5
    <3>8. now \notin r - LimitWindow .. r - 1
      BY <1>0, <3>0
    <3>9. Cardinality(H(r - LimitWindow .. r - 1)) <= Limit
      BY <3>3, <3>5, <3>8
    <3>10. ASSUME NEW t \in Int PROVE Cardinality(H(t .. t + LimitWindow - 1)) <= 2 * Limit
      <4>1. CASE now \notin t .. t + LimitWindow - 1
        <5>1. Cardinality(Hits(t .. t + LimitWindow - 1)) <= 2 * Limit
          BY DEF BucketInv
        <5> QED BY <3>5, <4>1, <5>1
      <4>2. CASE now \in t .. t + LimitWindow - 1
        <5>1. \A x \in Nat : x <= now /\ x \in t .. t + LimitWindow - 1 =>
                 x \in (r - LimitWindow .. r - 1) \cup (r .. now)
          BY <1>0, <3>0, <4>2
        <5>2. Cardinality(H(t .. t + LimitWindow - 1)) <=
                Cardinality(H(r - LimitWindow .. r - 1)) + Cardinality(H(r .. now))
          BY <3>6, <5>1
        <5>3. /\ Cardinality(H(t .. t + LimitWindow - 1)) \in Nat /\ Cardinality(H(r - LimitWindow .. r - 1)) \in Nat
              /\ Cardinality(H(r .. now)) \in Nat
          BY <3>5
        <5> QED BY <3>0, <3>7, <3>9, <5>2, <5>3
      <4> QED BY <4>1, <4>2
    <3>11. /\ Cardinality(Hits(bucket.refill .. now)') <= Limit - bucket'.tokens
           /\ Cardinality(Hits(bucket.refill - LimitWindow .. bucket.refill - 1)') <= Limit
           /\ \A t \in Int : Cardinality(Hits(t .. t + LimitWindow - 1)') <= 2 * Limit
      BY <3>1, <3>7, <3>9, <3>10 DEF Hits, H
    <3>12. BucketType'
      BY <1>0, <3>1, <3>4 DEF BucketType
    <3>13. bucket'.refill <= now' /\ bucket'.tokens <= Limit
      BY <3>0, <3>1
    <3> QED BY <3>1, <3>4, <3>11, <3>12, <3>13 DEF BucketInv
  <2> QED BY <2>4, <2>5
<1>4. CASE Limiter!LimiterFails
  BY <1>1, <1>4 DEF Limiter!LimiterFails
<1> QED BY <1>1, <1>2, <1>3, <1>4 DEF Limiter!Next, Limiter!rateVars

\* However the calls fall, no Window of time sees more than two buckets' worth
\* of them pass the in-memory limiter, for every rule (ratelimit_repo.go).
THEOREM LimiterCorrect ==
  ASSUME BucketInMemory, Limit \in Nat, LimitWindow \in Nat \ {0}, MaxTime \in Nat
  PROVE  Limiter!Spec => []Limiter!WindowBound
<1>1. Limiter!Init => BucketInv
  <2> SUFFICES ASSUME Limiter!Init PROVE BucketInv
    OBVIOUS
  <2>1. now = 0 /\ passed = <<>> /\ bucket = Limiter!NoBucket
    BY DEF Limiter!Init
  <2>2. Limiter!NoBucket \in [known : BOOLEAN, tokens : Nat, refill : Nat] /\ ~Limiter!NoBucket.known
    BY DEF Limiter!NoBucket
  <2>3. passed \in Seq(Nat) /\ \A k \in DOMAIN passed : FALSE
    BY <2>1
  <2>4. \A T : Cardinality(Hits(T)) = 0
    BY <2>3, HitsNone
  <2> QED BY <2>1, <2>2, <2>3, <2>4 DEF BucketInv, BucketType
<1>2. BucketInv /\ [Limiter!Next]_(Limiter!rateVars) => BucketInv'
  BY BucketStep
<1>3. BucketInv => Limiter!WindowBound
  <2> SUFFICES ASSUME BucketInv, NEW t \in 0 .. MaxTime
               PROVE  Cardinality({k \in DOMAIN passed : passed[k] \in t .. t + LimitWindow - 1}) <= 2 * Limit
    BY LimiterCard DEF Limiter!WindowBound
  <2>1. t \in Int
    OBVIOUS
  <2> QED BY <2>1 DEF BucketInv, Hits
<1> QED BY <1>1, <1>2, <1>3, PTL DEF Limiter!Spec

-----------------------------------------------------------------------------
(***************************************************************************)
(* Notifications: what a user is told was marked is what was marked. The   *)
(* sums of the answers are the notices read, because a notice is counted   *)
(* in the step that marks it.                                              *)
(***************************************************************************)
\* The cardinality that the module refers to is that of FiniteSets.
LEMMA NotesCard ==
  ASSUME NEW S
  PROVE  Notes!Cardinality(S) = Cardinality(S)
BY DEF Cardinality, Notes!Cardinality

ReadBy(u) == {n \in Notices : OwnerOf[n] = u /\ notices[n] = "read"}

HandlingTyped(P) == handling \in [Notices -> [pc : {"idle", "create", "mail", "done"}, pref : P]]

\* A notification is written before it is marked, and once.
NoteInv ==
  /\ \E P : HandlingTyped(P)
  /\ notices \in [Notices -> {"none", "unread", "read"}] /\ confirmed \in [Readers -> Nat]
  /\ \A n \in Notices : handling[n].pc \in {"idle", "create"} => notices[n] = "none"
  /\ Notes!ReadsAddUp

LEMMA HandlingMoves ==
  ASSUME NEW P, HandlingTyped(P), NEW n \in Notices, NEW p \in {"mail", "done"},
         handling' = [handling EXCEPT ![n].pc = p]
  PROVE  HandlingTyped(P)' /\ handling'[n].pc = p /\ \A m \in Notices \ {n} : handling'[m] = handling[m]
<1> DEFINE new == [handling[n] EXCEPT !.pc = p]
<1>1. handling[n] \in [pc : {"idle", "create", "mail", "done"}, pref : P]
  BY DEF HandlingTyped
<1>2. new \in [pc : {"idle", "create", "mail", "done"}, pref : P] /\ new.pc = p
  BY <1>1
<1>3. handling' = [handling EXCEPT ![n] = new]
  OBVIOUS
<1> HIDE DEF new
<1> QED BY <1>2, <1>3 DEF HandlingTyped

LEMMA CardDisjoint ==
  ASSUME NEW S, IsFiniteSet(S), NEW T, IsFiniteSet(T), S \cap T = {}
  PROVE  Cardinality(S \cup T) = Cardinality(S) + Cardinality(T)
<1>1. Cardinality(S \cup T) = Cardinality(S) + Cardinality(T) - Cardinality(S \cap T)
  BY FS_Union
<1>2. Cardinality(S) \in Nat /\ Cardinality(T) \in Nat /\ Cardinality(S \cap T) = 0
  BY FS_CardinalityType, FS_EmptySet
<1> QED BY <1>1, <1>2

\* What leaves the read notifications and the counts alone keeps the sums.
LEMMA SumsStay ==
  ASSUME Notes!ReadsAddUp, confirmed' = confirmed, \A u \in Readers : ReadBy(u)' = ReadBy(u)
  PROVE  Notes!ReadsAddUp'
BY DEF Notes!ReadsAddUp, ReadBy

\* A call of one user that marks notifications and says how many.
LEMMA SumsGrow ==
  ASSUME NoteInv, IsFiniteSet(Notices), NEW u \in Readers, NEW M \in SUBSET Notes!Unread(u),
         notices' = [n \in Notices |-> IF n \in M THEN "read" ELSE notices[n]],
         confirmed' = [confirmed EXCEPT ![u] = @ + Cardinality(M)], handling' = handling
  PROVE  NoteInv' \/ TableInMemory
<1> SUFFICES ASSUME ~TableInMemory PROVE NoteInv'
  OBVIOUS
<1>0. /\ notices \in [Notices -> {"none", "unread", "read"}] /\ confirmed \in [Readers -> Nat]
      /\ \A n \in Notices : handling[n].pc \in {"idle", "create"} => notices[n] = "none"
  BY DEF NoteInv
<1>1. M \subseteq Notices /\ \A n \in M : OwnerOf[n] = u /\ notices[n] = "unread"
  BY DEF Notes!Unread
<1>2. IsFiniteSet(M) /\ Cardinality(M) \in Nat
  BY <1>1, CardSub
<1>3. ReadBy(u)' = ReadBy(u) \cup M /\ ReadBy(u) \cap M = {}
  BY <1>0, <1>1 DEF ReadBy
<1>4. \A v \in Readers \ {u} : ReadBy(v)' = ReadBy(v)
  BY <1>0, <1>1 DEF ReadBy
<1>5. IsFiniteSet(ReadBy(u))
  <2>1. ReadBy(u) \subseteq Notices
    BY DEF ReadBy
  <2> QED BY <2>1, CardSub
<1>6. Cardinality(ReadBy(u)') = Cardinality(ReadBy(u)) + Cardinality(M)
  BY <1>2, <1>3, <1>5, CardDisjoint
<1>7. \A v \in Readers : confirmed[v] = Cardinality(ReadBy(v))
  BY NotesCard DEF NoteInv, Notes!ReadsAddUp, ReadBy
<1>8. /\ confirmed' \in [Readers -> Nat] /\ confirmed'[u] = confirmed[u] + Cardinality(M)
      /\ \A v \in Readers \ {u} : confirmed'[v] = confirmed[v]
  BY <1>0, <1>2
<1>9. \A v \in Readers : confirmed'[v] = Cardinality(ReadBy(v)')
  BY <1>4, <1>6, <1>7, <1>8
<1>10. Notes!ReadsAddUp'
  BY <1>9, NotesCard DEF Notes!ReadsAddUp, ReadBy
<1>11. /\ notices' \in [Notices -> {"none", "unread", "read"}]
       /\ \A n \in Notices : notices[n] = "none" => notices'[n] = "none"
  BY <1>0, <1>1
<1>12. \E P : HandlingTyped(P)'
  BY DEF NoteInv, HandlingTyped
<1>13. \A n \in Notices : handling'[n].pc \in {"idle", "create"} => notices'[n] = "none"
  BY <1>0, <1>11
<1> QED BY <1>8, <1>10, <1>11, <1>12, <1>13 DEF NoteInv

LEMMA NoteStep ==
  ASSUME IsFiniteSet(Notices), ~TableInMemory, NoteInv, [Notes!Next]_(Notes!noteVars)
  PROVE  NoteInv'
<1>0. /\ notices \in [Notices -> {"none", "unread", "read"}] /\ confirmed \in [Readers -> Nat]
      /\ \A n \in Notices : handling[n].pc \in {"idle", "create"} => notices[n] = "none"
      /\ Notes!ReadsAddUp
  BY DEF NoteInv
<1>a. PICK P : HandlingTyped(P)
  BY DEF NoteInv
<1>1. CASE UNCHANGED <<notices, handling, confirmed>>
  <2>1. notices' = notices /\ handling' = handling /\ confirmed' = confirmed
    BY <1>1
  <2>2. HandlingTyped(P)' /\ Notes!ReadsAddUp'
    BY <1>0, <1>a, <2>1 DEF HandlingTyped, Notes!ReadsAddUp
  <2> QED BY <1>0, <2>1, <2>2 DEF NoteInv
<1>2. ASSUME NEW n \in Notices, Notes!HandleReads(n) PROVE NoteInv'
  <2>1. /\ handling' = [handling EXCEPT ![n] = [pc |-> "create", pref |-> pref[OwnerOf[n]]]]
        /\ handling[n].pc = "idle" /\ notices' = notices /\ confirmed' = confirmed
    BY <1>2 DEF Notes!HandleReads
  <2>q. PICK Q : Q = P \cup {pref[OwnerOf[n]]}
    OBVIOUS
  <2> DEFINE new == [pc |-> "create", pref |-> pref[OwnerOf[n]]]
  <2> DEFINE R == [pc : {"idle", "create", "mail", "done"}, pref : Q]
  <2>2. new \in R /\ new.pc = "create"
    BY <2>q
  <2>3. handling \in [Notices -> R]
    BY <1>a, <2>q DEF HandlingTyped
  <2>4. handling' = [handling EXCEPT ![n] = new]
    BY <2>1
  <2> HIDE DEF new, R
  <2>5. /\ handling' \in [Notices -> R] /\ handling'[n].pc = "create"
        /\ \A m \in Notices \ {n} : handling'[m] = handling[m]
    BY <2>2, <2>3, <2>4
  <2>6. HandlingTyped(Q)'
    BY <2>5 DEF HandlingTyped, R
  <2>7. Notes!ReadsAddUp'
    BY <1>0, <2>1 DEF Notes!ReadsAddUp
  <2>8. \A m \in Notices : handling'[m].pc \in {"idle", "create"} => notices'[m] = "none"
    BY <1>0, <2>1, <2>5
  <2> QED BY <1>0, <2>1, <2>6, <2>7, <2>8 DEF NoteInv
<1>3. ASSUME NEW n \in Notices, NEW b \in BOOLEAN, Notes!HandleCreates(n, b) PROVE NoteInv'
  <2>1. /\ handling' = [handling EXCEPT ![n].pc = "mail"] /\ handling[n].pc = "create"
        /\ confirmed' = confirmed
        /\ notices' = notices \/ notices' = [notices EXCEPT ![n] = "unread"]
    BY <1>3 DEF Notes!HandleCreates
  <2>2. HandlingTyped(P)' /\ handling'[n].pc = "mail" /\ \A m \in Notices \ {n} : handling'[m] = handling[m]
    BY <1>a, <2>1, HandlingMoves
  <2>3. notices[n] = "none"
    BY <1>0, <2>1
  <2>4. /\ notices' \in [Notices -> {"none", "unread", "read"}] /\ notices'[n] # "read"
        /\ \A m \in Notices \ {n} : notices'[m] = notices[m]
    BY <1>0, <2>1, <2>3
  <2>5. \A u \in Readers : ReadBy(u)' = ReadBy(u)
    BY <2>3, <2>4 DEF ReadBy
  <2>6. Notes!ReadsAddUp'
    BY <1>0, <2>1, <2>5, SumsStay
  <2>7. \A m \in Notices : handling'[m].pc \in {"idle", "create"} => notices'[m] = "none"
    BY <1>0, <2>2, <2>4
  <2> QED BY <1>0, <2>1, <2>2, <2>4, <2>6, <2>7 DEF NoteInv
<1>4. ASSUME NEW n \in Notices, NEW b \in BOOLEAN, Notes!HandleEvent(n, b) PROVE NoteInv'
  <2>1. /\ handling' = [handling EXCEPT ![n].pc = "done"] /\ confirmed' = confirmed /\ notices' = notices
    BY <1>4 DEF Notes!HandleEvent
  <2>2. HandlingTyped(P)' /\ handling'[n].pc = "done" /\ \A m \in Notices \ {n} : handling'[m] = handling[m]
    BY <1>a, <2>1, HandlingMoves
  <2>3. Notes!ReadsAddUp'
    BY <1>0, <2>1 DEF Notes!ReadsAddUp
  <2>4. \A m \in Notices : handling'[m].pc \in {"idle", "create"} => notices'[m] = "none"
    BY <1>0, <2>1, <2>2
  <2> QED BY <1>0, <2>1, <2>2, <2>3, <2>4 DEF NoteInv
<1>5. ASSUME NEW u \in Readers, Notes!MarkAllAsRead(u) PROVE NoteInv'
  <2>1. /\ notices' = [n \in Notices |-> IF n \in Notes!Unread(u) THEN "read" ELSE notices[n]]
        /\ confirmed' = [confirmed EXCEPT ![u] = @ + Cardinality(Notes!Unread(u))] /\ handling' = handling
    BY <1>5, NotesCard DEF Notes!MarkAllAsRead
  <2>2. Notes!Unread(u) \in SUBSET Notes!Unread(u)
    OBVIOUS
  <2> QED BY <2>1, <2>2, SumsGrow
<1>6. ASSUME NEW u \in Readers, NEW p \in Notes!Prefs, Notes!SetPreference(u, p) PROVE NoteInv'
  BY <1>1, <1>6 DEF Notes!SetPreference
<1>7. ASSUME NEW u \in Readers, NEW n \in Notices, Notes!MarkAsRead(u, n) PROVE NoteInv'
  <2>1. /\ notices' = [notices EXCEPT ![n] = "read"] /\ confirmed' = [confirmed EXCEPT ![u] = @ + 1]
        /\ handling' = handling /\ notices[n] = "unread" /\ OwnerOf[n] = u
    BY <1>7 DEF Notes!MarkAsRead, Notes!SqlMarkable
  <2>2. {n} \in SUBSET Notes!Unread(u)
    BY <2>1 DEF Notes!Unread
  <2>3. notices' = [m \in Notices |-> IF m \in {n} THEN "read" ELSE notices[m]]
    BY <1>0, <2>1
  <2>4. Cardinality({n}) = 1
    BY FS_Singleton
  <2>5. confirmed' = [confirmed EXCEPT ![u] = @ + Cardinality({n})]
    BY <2>1, <2>4
  <2> QED BY <2>1, <2>2, <2>3, <2>5, SumsGrow
<1> QED BY <1>1, <1>2, <1>3, <1>4, <1>5, <1>6, <1>7 DEF Notes!Next, Notes!noteVars

\* What MarkAsRead and MarkAllAsRead answer adds up to what is read, however
\* the calls and the handler of events overlap, for every set of notifications
\* (postgres/notification_repo.go).
THEOREM ReadsCorrect ==
  ASSUME IsFiniteSet(Notices)
  PROVE  Notes!Spec => []Notes!ReadsAddUp
<1>1. CASE TableInMemory
  <2>1. Notes!ReadsAddUp
    BY <1>1 DEF Notes!ReadsAddUp
  <2> QED BY <2>1, PTL
<1>2. CASE ~TableInMemory
  <2>1. Notes!Init => NoteInv
    <3> SUFFICES ASSUME Notes!Init PROVE NoteInv
      OBVIOUS
    <3>1. /\ notices = [n \in Notices |-> "none"] /\ confirmed = [u \in Readers |-> 0]
          /\ handling = [n \in Notices |-> [pc |-> "idle", pref |-> Notes!DefaultPref]]
      BY DEF Notes!Init
    <3>2. HandlingTyped({Notes!DefaultPref})
      BY <3>1 DEF HandlingTyped
    <3>3. \A u \in Readers : ReadBy(u) = {}
      BY <3>1 DEF ReadBy
    <3>4. \A u \in Readers : confirmed[u] = Cardinality(ReadBy(u))
      BY <3>1, <3>3, FS_EmptySet
    <3>5. Notes!ReadsAddUp
      BY <3>4, NotesCard DEF Notes!ReadsAddUp, ReadBy
    <3> QED BY <3>1, <3>2, <3>5 DEF NoteInv
  <2>2. NoteInv /\ [Notes!Next]_(Notes!noteVars) => NoteInv'
    BY <1>2, NoteStep
  <2>3. NoteInv => Notes!ReadsAddUp
    BY DEF NoteInv
  <2> QED BY <2>1, <2>2, <2>3, PTL DEF Notes!Spec
<1> QED BY <1>1, <1>2

-----------------------------------------------------------------------------
(***************************************************************************)
(* Lists: a client that pages through a list while rows are added gets     *)
(* every row that matched when it began. A row it still misses lies behind *)
(* its offset, and stays there: rows are added in front, and what lies in  *)
(* front of a row never shrinks.                                           *)
(***************************************************************************)
\* The cardinality that the module refers to is that of FiniteSets.
LEMMA ListsCard ==
  ASSUME NEW S
  PROVE  Lists!Cardinality(S) = Cardinality(S)
BY DEF Cardinality, Lists!Cardinality

\* The row is given after as many rows as were added later and match.
Ahead(i) == {j \in Lists!Matching : j > i}

\* A list that the property speaks of.
Steady == Lists!OrderIsFixed /\ Lists!Lists[listName].total # "before"

TableTyped ==
  /\ listed \in Seq([has : BOOLEAN, at : Nat])
  /\ \A i, j \in DOMAIN listed : i < j => listed[i].at <= listed[j].at

ReaderTyped ==
  /\ reader \in [pc : {"idle", "select", "more", "done"}, offset : Nat, total : Nat, last : Nat,
                 wanted : SUBSET Nat, got : SUBSET Nat]
  /\ reader.pc = "idle" => reader.offset = 0 /\ reader.wanted = {}
  /\ reader.wanted \subseteq Lists!Matching

\* A row that is still missing lies behind the offset, and the client goes on.
ListInv ==
  /\ TableTyped /\ ReaderTyped /\ listSize \in Nat /\ listName \in DOMAIN Lists!Lists
  /\ Steady => \A i \in reader.wanted \ reader.got :
                 /\ reader.offset <= Cardinality(Ahead(i))
                 /\ reader.pc # "done" /\ (reader.pc = "more" => Lists!HasMore)

LEMMA KnownTotals ==
  ASSUME NEW n \in DOMAIN Lists!Lists
  PROVE  Lists!Lists[n].total \in {"with", "before", "none"}
BY DEF Lists!Lists, Lists!L, Lists!MemEventList, Lists!SqlEventList, Lists!MemAuditList, Lists!SqlAuditList, Lists!MemJobList, Lists!SqlJobList, Lists!MemBackupList,
   Lists!SqlBackupList, Lists!MemPlanList, Lists!SqlPlanList, Lists!MemMigrationList, Lists!SqlMigrationList, Lists!MemNoticeList, Lists!SqlNoticeList,
   Lists!MemWebhookList, Lists!SqlWebhookList, Lists!MemDeliveryList, Lists!SqlDeliveryList, Lists!MemInvoiceList, Lists!SqlInvoiceList,
   Lists!MemAllInvoices, Lists!SqlAllInvoices, Lists!MemUsageList, Lists!SqlUsageList, Lists!MemKeyList, Lists!SqlKeyList, Lists!MemReportList,
   Lists!SqlReportList, Lists!MemTemplateList, Lists!SqlTemplateList, Lists!MemImageList, Lists!SqlImageList

LEMMA SubSeqFacts ==
  ASSUME NEW S, NEW t \in Seq(S), NEW a \in Nat \ {0}, NEW b \in Nat, a <= b, b <= Len(t)
  PROVE  /\ SubSeq(t, a, b) \in Seq(S) /\ Len(SubSeq(t, a, b)) = b - a + 1
         /\ DOMAIN SubSeq(t, a, b) = 1 .. b - a + 1
         /\ \A k \in 1 .. b - a + 1 : SubSeq(t, a, b)[k] = t[a - 1 + k]
OBVIOUS

LEMMA MatchingFinite ==
  ASSUME TableTyped
  PROVE  /\ Lists!Matching \subseteq DOMAIN listed /\ DOMAIN listed \subseteq Nat
         /\ IsFiniteSet(Lists!Matching) /\ Cardinality(Lists!Matching) \in Nat
<1>1. Len(listed) \in Nat /\ DOMAIN listed = 1 .. Len(listed)
  BY LenIsNat DEF TableTyped
<1>2. IsFiniteSet(DOMAIN listed)
  BY <1>1, FS_Interval
<1>3. Lists!Matching \subseteq DOMAIN listed
  BY DEF Lists!Matching
<1>4. IsFiniteSet(Lists!Matching) /\ Cardinality(Lists!Matching) \in Nat
  BY <1>2, <1>3, CardSub
<1> QED BY <1>1, <1>3, <1>4

\* A list with a fixed order gives the rows from the last one added to the first.
LEMMA OrderFalls ==
  ASSUME TableTyped, Steady, NEW q \in Lists!Orders
  PROVE  /\ q \in [1 .. Cardinality(Lists!Matching) -> Lists!Matching]
         /\ \A a, b \in 1 .. Cardinality(Lists!Matching) : a < b => q[a] > q[b]
<1>0. Cardinality(Lists!Matching) \in Nat /\ Lists!Matching \subseteq DOMAIN listed /\ DOMAIN listed \subseteq Nat
  BY MatchingFinite
<1>1. /\ q \in [1 .. Cardinality(Lists!Matching) -> Lists!Matching] /\ DOMAIN q = 1 .. Cardinality(Lists!Matching)
      /\ \A a, b \in 1 .. Cardinality(Lists!Matching) : a # b => q[a] # q[b]
      /\ \A a, b \in DOMAIN q : Lists!Before(q[a], q[b]) => a < b
  BY ListsCard DEF Lists!Orders, Lists!SetToSeqs
<1>2. SUFFICES ASSUME NEW a \in 1 .. Cardinality(Lists!Matching), NEW b \in 1 .. Cardinality(Lists!Matching), a < b,
                      ~(q[a] > q[b])
               PROVE  FALSE
  BY <1>1
<1>3. q[a] \in DOMAIN listed /\ q[b] \in DOMAIN listed /\ q[a] \in Nat /\ q[b] \in Nat /\ q[a] < q[b]
  BY <1>0, <1>1, <1>2
<1>4. ~Lists!Before(q[b], q[a])
  BY <1>0, <1>1, <1>2
<1>5. CASE Lists!Lists[listName].order = "log"
  BY <1>3, <1>4, <1>5 DEF Lists!Before
<1>6. CASE Lists!Lists[listName].order # "log"
  <2>1. Lists!Lists[listName].order = "newest" /\ listed[q[a]].at # listed[q[b]].at
    BY <1>3, <1>6 DEF Steady, Lists!OrderIsFixed
  <2>2. listed[q[a]].at \in Nat /\ listed[q[b]].at \in Nat /\ listed[q[a]].at <= listed[q[b]].at
    <3>1. \A i \in DOMAIN listed : listed[i].at \in Nat
      <4> DEFINE R == [has : BOOLEAN, at : Nat]
      <4>1. \A r \in R : r.at \in Nat
        OBVIOUS
      <4>2. listed \in Seq(R)
        BY DEF TableTyped
      <4> HIDE DEF R
      <4>3. \A i \in DOMAIN listed : listed[i] \in R
        BY <4>2
      <4> QED BY <4>1, <4>3
    <3> QED BY <1>3, <3>1 DEF TableTyped
  <2>3. listed[q[b]].at > listed[q[a]].at
    BY <2>1, <2>2
  <2> QED BY <1>4, <2>1, <2>3 DEF Lists!Before
<1> QED BY <1>5, <1>6

\* The place of a row in the order.
LEMMA Rank ==
  ASSUME TableTyped, Steady, NEW q \in Lists!Orders, NEW i \in Lists!Matching
  PROVE  \E p \in 1 .. Cardinality(Lists!Matching) : q[p] = i /\ Cardinality(Ahead(i)) = p - 1
<1> DEFINE n == Cardinality(Lists!Matching)
<1>0. n \in Nat /\ IsFiniteSet(Lists!Matching) /\ Lists!Matching \subseteq Nat
  BY MatchingFinite
<1>1. q \in [1 .. n -> Lists!Matching] /\ \A a, b \in 1 .. n : a < b => q[a] > q[b]
  BY OrderFalls
<1> HIDE DEF n
<1>2. \A a, b \in 1 .. n : q[a] = q[b] => a = b
  <2> SUFFICES ASSUME NEW a \in 1 .. n, NEW b \in 1 .. n, q[a] = q[b], a # b PROVE FALSE
    OBVIOUS
  <2>1. q[a] \in Lists!Matching /\ q[b] \in Lists!Matching
    BY <1>1
  <2>2. q[a] \in Nat /\ q[b] \in Nat
    BY <1>0, <2>1
  <2>3. a < b \/ b < a
    BY <1>0
  <2> QED BY <1>1, <2>2, <2>3
<1>3. q \in Injection(1 .. n, Lists!Matching)
  BY <1>1, <1>2 DEF Injection, IsInjective
<1>4. IsFiniteSet(1 .. n) /\ Cardinality(1 .. n) = n
  BY <1>0, FS_Interval
<1>5. q \in Surjection(1 .. n, Lists!Matching)
  BY <1>0, <1>3, <1>4, FS_Injection DEF n
<1>6. PICK p \in 1 .. n : q[p] = i
  BY <1>5 DEF Surjection
<1> DEFINE f == [k \in 1 .. p - 1 |-> q[k]]
<1>7. Ahead(i) \subseteq Lists!Matching /\ \A k \in 1 .. p - 1 : q[k] \in Ahead(i)
  BY <1>0, <1>1, <1>6 DEF Ahead
<1>8. \A j \in Ahead(i) : \E k \in 1 .. p - 1 : q[k] = j
  <2> SUFFICES ASSUME NEW j \in Ahead(i) PROVE \E k \in 1 .. p - 1 : q[k] = j
    OBVIOUS
  <2>1. j \in Lists!Matching /\ j > i /\ j \in Nat /\ i \in Nat
    BY <1>0 DEF Ahead
  <2>2. PICK k \in 1 .. n : q[k] = j
    BY <1>5, <2>1 DEF Surjection
  <2>3. ~(p < k) /\ p # k
    BY <1>0, <1>1, <1>6, <2>1, <2>2
  <2> QED BY <1>0, <1>6, <2>2, <2>3
<1>9. f \in Surjection(1 .. p - 1, Ahead(i))
  BY <1>7, <1>8 DEF Surjection
<1>10. f \in Injection(1 .. p - 1, Ahead(i))
  BY <1>0, <1>2, <1>6, <1>7 DEF Injection, IsInjective
<1>11. IsFiniteSet(1 .. p - 1) /\ Cardinality(1 .. p - 1) = p - 1
  <2>1. p \in Nat /\ p >= 1 /\ 1 \in Int /\ p - 1 \in Int
    BY <1>0, <1>6
  <2> QED BY <2>1, FS_Interval
<1>12. Cardinality(Ahead(i)) = p - 1
  BY <1>9, <1>10, <1>11, FS_Surjection
<1> QED BY <1>6, <1>12 DEF n

\* Rows added to a list leave the others where they are, or further back.
LEMMA AddStep ==
  ASSUME ListInv, NEW has \in BOOLEAN, NEW at \in 1 .. ListClock, ListClock \in Nat, Lists!AddRow(has, at)
  PROVE  ListInv'
<1>1. /\ listed \in Seq([has : BOOLEAN, at : Nat]) /\ \A i \in DOMAIN listed : listed[i].at <= at
      /\ listed' = Append(listed, [has |-> has, at |-> at])
      /\ listName' = listName /\ listAsked' = listAsked /\ listSize' = listSize /\ reader' = reader
      /\ [has |-> has, at |-> at] \in [has : BOOLEAN, at : Nat]
  BY DEF ListInv, TableTyped, Lists!AddRow
<1>2. /\ listed' \in Seq([has : BOOLEAN, at : Nat]) /\ Len(listed) \in Nat
      /\ DOMAIN listed = 1 .. Len(listed) /\ DOMAIN listed' = 1 .. Len(listed) + 1
      /\ \A i \in DOMAIN listed : listed'[i] = listed[i]
      /\ listed'[Len(listed) + 1] = [has |-> has, at |-> at]
  BY <1>1
<1>3. TableTyped'
  <2> SUFFICES ASSUME NEW i \in DOMAIN listed', NEW j \in DOMAIN listed', i < j
               PROVE  listed'[i].at <= listed'[j].at
    BY <1>2 DEF TableTyped
  <2>1. i \in DOMAIN listed
    BY <1>2
  <2>2. CASE j \in DOMAIN listed
    BY <1>2, <2>1, <2>2 DEF ListInv, TableTyped
  <2>3. CASE j = Len(listed) + 1
    BY <1>1, <1>2, <2>1, <2>3
  <2> QED BY <1>2, <2>2, <2>3
<1>4. Lists!Matching \subseteq Lists!Matching'
  BY <1>1, <1>2 DEF Lists!Matching, Lists!Matches
<1>5. ReaderTyped'
  BY <1>1, <1>4 DEF ListInv, ReaderTyped
<1>6. Steady' => Steady
  BY <1>1, <1>2 DEF Steady, Lists!OrderIsFixed
<1>7. ASSUME Steady', NEW i \in reader'.wanted \ reader'.got
      PROVE  /\ reader'.offset <= Cardinality(Ahead(i)')
             /\ reader'.pc # "done" /\ (reader'.pc = "more" => Lists!HasMore')
  <2>1. /\ reader.offset <= Cardinality(Ahead(i)) /\ reader.offset \in Nat
        /\ reader.pc # "done" /\ (reader.pc = "more" => Lists!HasMore)
    BY <1>1, <1>6, <1>7 DEF ListInv, ReaderTyped
  <2>2. Ahead(i) \subseteq Ahead(i)' /\ Ahead(i)' \subseteq Lists!Matching'
    BY <1>4 DEF Ahead
  <2>3. IsFiniteSet(Lists!Matching')
    <3>1. IsFiniteSet(DOMAIN listed') /\ Lists!Matching' \subseteq DOMAIN listed'
      BY <1>2, FS_Interval DEF Lists!Matching
    <3> QED BY <3>1, CardSub
  <2>4. IsFiniteSet(Ahead(i)') 
    BY <2>2, <2>3, CardSub
  <2>5. Cardinality(Ahead(i)) \in Nat /\ Cardinality(Ahead(i)') \in Nat /\ Cardinality(Ahead(i)) <= Cardinality(Ahead(i)')
    BY <2>2, <2>4, CardSub
  <2>6. Lists!HasMore' = Lists!HasMore
    BY <1>1 DEF Lists!HasMore, Lists!PageLimit
  <2> QED BY <1>1, <2>1, <2>5, <2>6
<1> QED BY <1>1, <1>3, <1>5, <1>7 DEF ListInv
\* A page takes the next rows of the order: what is still missing comes after it.
LEMMA PageStep ==
  ASSUME ListInv, Lists!PageLimit \in Nat, Lists!ReadPage
  PROVE  ListInv'
<1>1. listName' = listName /\ listAsked' = listAsked /\ listSize' = listSize /\ listed' = listed
  BY DEF Lists!ReadPage
<1>2. TableTyped /\ TableTyped' /\ listSize' \in Nat /\ ReaderTyped
  BY <1>1 DEF ListInv, TableTyped
<1>3. Lists!Matching' = Lists!Matching /\ Lists!PageLimit' = Lists!PageLimit /\ (Steady' <=> Steady) /\ Lists!Lists[listName]' = Lists!Lists[listName]
  BY <1>1 DEF Lists!Matching, Lists!Matches, Lists!PageLimit, Steady, Lists!OrderIsFixed
<1>4. \A i : Ahead(i)' = Ahead(i)
  BY <1>3 DEF Ahead
<1>5. PICK q \in Lists!Orders :
        LET page == Lists!Page(q, reader.offset)
        IN  reader' = [reader EXCEPT !.pc = "more", !.offset = @ + Lists!PageLimit, !.last = Len(page), !.wanted = Lists!Sought,
                         !.total = IF Lists!Lists[listName].total = "with" THEN Len(q) ELSE @,
                         !.got = @ \cup {page[k] : k \in DOMAIN page}]
  BY DEF Lists!ReadPage
<1> DEFINE page == Lists!Page(q, reader.offset)
           n == Cardinality(Lists!Matching)
           m == IF reader.offset + Lists!PageLimit < n THEN reader.offset + Lists!PageLimit ELSE n
<1>6. n \in Nat /\ q \in [1 .. n -> Lists!Matching] /\ Lists!Matching \subseteq Nat
  BY <1>2, MatchingFinite, ListsCard DEF Lists!Orders, Lists!SetToSeqs
<1>7. q \in Seq(Lists!Matching) /\ Len(q) = n /\ DOMAIN q = 1 .. n
  BY <1>6
<1>8. reader.offset \in Nat /\ m \in Nat /\ m <= n
  BY <1>2, <1>6 DEF ReaderTyped
<1>9. /\ page \in Seq(Lists!Matching) /\ Len(page) \in Nat
      /\ Len(page) = IF reader.offset + 1 <= m THEN m - reader.offset ELSE 0
      /\ \A k \in 1 .. Len(page) : page[k] = q[reader.offset + k]
      /\ DOMAIN page = 1 .. Len(page)
  <2>1. page = SubSeq(q, reader.offset + 1, m)
    BY <1>7 DEF Lists!Page
  <2> HIDE DEF page, m, n
  <2>2. reader.offset + 1 \in Nat /\ reader.offset + 1 >= 1
    BY <1>8
  <2>3. CASE reader.offset + 1 <= m
    <3>1. /\ page \in Seq(Lists!Matching) /\ Len(page) = m - (reader.offset + 1) + 1
          /\ DOMAIN page = 1 .. m - (reader.offset + 1) + 1
          /\ \A k \in 1 .. m - (reader.offset + 1) + 1 : page[k] = q[(reader.offset + 1) - 1 + k]
      BY <1>7, <1>8, <2>1, <2>2, <2>3, SubSeqFacts
    <3>2. m - (reader.offset + 1) + 1 = m - reader.offset /\ m - reader.offset \in Nat
      BY <1>8, <2>3
    <3>3. \A k \in 1 .. m - reader.offset : (reader.offset + 1) - 1 + k = reader.offset + k
      BY <1>8, <3>2
    <3> QED BY <2>3, <3>1, <3>2, <3>3
  <2>4. CASE ~(reader.offset + 1 <= m)
    BY <1>7, <1>8, <2>1, <2>2, <2>4
  <2> QED BY <2>3, <2>4
<1> HIDE DEF page
<1>10. /\ reader'.pc = "more" /\ reader'.offset = reader.offset + Lists!PageLimit /\ reader'.last = Len(page)
       /\ reader'.wanted = Lists!Sought /\ reader'.got = reader.got \cup {page[k] : k \in DOMAIN page}
       /\ reader'.total = IF Lists!Lists[listName].total = "with" THEN n ELSE reader.total
       /\ DOMAIN reader' = DOMAIN reader
  BY <1>2, <1>5, <1>7 DEF page, ReaderTyped
<1>11. Lists!Sought \subseteq Lists!Matching /\ {page[k] : k \in DOMAIN page} \subseteq Lists!Matching
  BY <1>2, <1>9 DEF Lists!Sought, ReaderTyped
<1>12. ReaderTyped'
  <2>1. reader' \in [pc : {"idle", "select", "more", "done"}, offset : Nat, total : Nat, last : Nat,
                     wanted : SUBSET Nat, got : SUBSET Nat]
    <3>1. /\ reader \in [pc : {"idle", "select", "more", "done"}, offset : Nat, total : Nat, last : Nat,
                         wanted : SUBSET Nat, got : SUBSET Nat]
      BY <1>2 DEF ReaderTyped
    <3>2. /\ reader.offset + Lists!PageLimit \in Nat /\ Len(page) \in Nat /\ Lists!Sought \in SUBSET Nat
          /\ (IF Lists!Lists[listName].total = "with" THEN Len(q) ELSE reader.total) \in Nat
          /\ reader.got \cup {page[k] : k \in DOMAIN page} \in SUBSET Nat
      <4>1. reader.total \in Nat /\ reader.got \in SUBSET Nat
        BY <3>1
      <4>2. Lists!Sought \in SUBSET Nat /\ {page[k] : k \in DOMAIN page} \in SUBSET Nat
        BY <1>6, <1>11
      <4>3. reader.offset + Lists!PageLimit \in Nat
        BY <1>8
      <4> QED BY <1>6, <1>7, <1>9, <4>1, <4>2, <4>3
    <3> QED BY <1>5, <3>1, <3>2 DEF page
  <2> QED BY <1>3, <1>10, <1>11, <2>1 DEF ReaderTyped
<1>13. ASSUME Steady, NEW i \in reader'.wanted \ reader'.got
       PROVE  reader'.offset <= Cardinality(Ahead(i)) /\ Lists!HasMore'
  <2>1. i \in Lists!Matching /\ i \notin reader.got /\ i \notin {page[k] : k \in DOMAIN page}
    BY <1>10, <1>11, <1>13
  <2>2. PICK p \in 1 .. n : q[p] = i /\ Cardinality(Ahead(i)) = p - 1
    BY <1>2, <1>13, <2>1, Rank
  <2>3. reader.offset <= p - 1
    <3>1. CASE reader.pc = "idle"
      BY <1>2, <1>6, <2>2, <3>1 DEF ReaderTyped
    <3>2. CASE reader.pc # "idle"
      <4>1. i \in reader.wanted \ reader.got
        BY <1>10, <1>13, <3>2 DEF Lists!Sought
      <4> QED BY <1>13, <2>2, <4>1 DEF ListInv
    <3> QED BY <3>1, <3>2
  <2>4. ~(p <= reader.offset + Lists!PageLimit)
    <3> SUFFICES ASSUME p <= reader.offset + Lists!PageLimit PROVE FALSE
      OBVIOUS
    <3>1. p <= m /\ reader.offset + 1 <= m
      BY <1>6, <1>8, <2>2, <2>3
    <3>2. p - reader.offset \in 1 .. Len(page)
      BY <1>6, <1>8, <1>9, <2>2, <2>3, <3>1
    <3>3. page[p - reader.offset] = q[reader.offset + (p - reader.offset)]
      BY <1>9, <3>2
    <3>4. reader.offset + (p - reader.offset) = p
      BY <1>6, <1>8, <2>2
    <3> QED BY <1>9, <2>1, <2>2, <3>2, <3>3, <3>4
  <2>5. reader.offset + Lists!PageLimit < n /\ reader.offset + Lists!PageLimit <= p - 1
    BY <1>6, <1>8, <2>2, <2>4
  <2>6. Len(page) = Lists!PageLimit
    BY <1>6, <1>8, <1>9, <2>5
  <2>7. Lists!Lists[listName].total # "before" /\ reader'.pc = "more"
    BY <1>10, <1>13 DEF Steady
  <2>8. Lists!Lists[listName].total # "none" => reader'.offset < reader'.total
    <3>1. CASE Lists!Lists[listName].total = "with"
      BY <1>10, <2>5, <3>1
    <3>2. CASE Lists!Lists[listName].total \notin {"with", "none", "before"}
      BY KnownTotals, <3>2 DEF ListInv
    <3> QED BY <2>7, <3>1, <3>2
  <2> QED BY <1>3, <1>10, <2>2, <2>5, <2>6, <2>7, <2>8 DEF Lists!HasMore
<1>14. listName' \in DOMAIN Lists!Lists
  BY <1>1 DEF ListInv
<1>15. Steady' => \A i \in reader'.wanted \ reader'.got :
                    /\ reader'.offset <= Cardinality(Ahead(i)')
                    /\ reader'.pc # "done" /\ (reader'.pc = "more" => Lists!HasMore')
  BY <1>3, <1>4, <1>10, <1>13
<1> QED BY <1>2, <1>12, <1>14, <1>15 DEF ListInv

LEMMA ListStep ==
  ASSUME ListInv, ListClock \in Nat, Lists!PageLimit \in Nat, [Lists!Next]_(Lists!listVars)
  PROVE  ListInv'
<1>1. ASSUME NEW has \in BOOLEAN, NEW at \in 1 .. ListClock, Lists!AddRow(has, at) PROVE ListInv'
  BY <1>1, AddStep
<1>2. CASE Lists!ReadPage
  BY <1>2, PageStep
<1>3. CASE Lists!CountRows
  <2>1. /\ listName' = listName /\ listAsked' = listAsked /\ listSize' = listSize /\ listed' = listed
        /\ Lists!Lists[listName].total = "before"
        /\ reader' = [reader EXCEPT !.pc = "select", !.total = Cardinality(Lists!Matching), !.wanted = Lists!Sought]
    BY <1>3, ListsCard DEF Lists!CountRows
  <2>2. TableTyped /\ TableTyped' /\ ReaderTyped /\ Lists!Matching' = Lists!Matching /\ ~Steady'
    BY <2>1 DEF ListInv, TableTyped, Lists!Matching, Lists!Matches, Steady
  <2>3. Cardinality(Lists!Matching) \in Nat /\ Lists!Matching \subseteq Nat
    BY <2>2, MatchingFinite
  <2>4. Lists!Sought \subseteq Lists!Matching
    BY <2>2 DEF Lists!Sought, ReaderTyped
  <2>5. Lists!Sought \in SUBSET Nat
    BY <2>3, <2>4
  <2>6. ReaderTyped'
    BY <2>1, <2>2, <2>3, <2>4, <2>5 DEF ReaderTyped
  <2> QED BY <2>1, <2>2, <2>6 DEF ListInv
<1>4. CASE Lists!ReadEnds
  <2>1. /\ listName' = listName /\ listAsked' = listAsked /\ listSize' = listSize /\ listed' = listed
        /\ reader.pc = "more" /\ ~Lists!HasMore /\ reader' = [reader EXCEPT !.pc = "done"]
    BY <1>4 DEF Lists!ReadEnds
  <2>2. TableTyped' /\ ReaderTyped /\ Lists!Matching' = Lists!Matching /\ (Steady' <=> Steady)
    BY <2>1 DEF ListInv, TableTyped, Lists!Matching, Lists!Matches, Steady, Lists!OrderIsFixed
  <2>3. ReaderTyped' /\ reader'.wanted = reader.wanted /\ reader'.got = reader.got
    BY <2>1, <2>2 DEF ReaderTyped
  <2>4. Steady => \A i \in reader.wanted \ reader.got : FALSE
    BY <2>1 DEF ListInv
  <2> QED BY <2>1, <2>2, <2>3, <2>4 DEF ListInv
<1>5. CASE UNCHANGED Lists!listVars
  <2>1. listName' = listName /\ listAsked' = listAsked /\ listSize' = listSize /\ listed' = listed /\ reader' = reader
    BY <1>5 DEF Lists!listVars
  <2>2. /\ TableTyped' /\ ReaderTyped' /\ (Steady' <=> Steady) /\ Lists!HasMore' = Lists!HasMore
        /\ \A i : Ahead(i)' = Ahead(i)
    BY <2>1 DEF ListInv, TableTyped, ReaderTyped, Lists!Matching, Lists!Matches, Steady, Lists!OrderIsFixed, Lists!HasMore, Lists!PageLimit, Ahead
  <2> QED BY <2>1, <2>2 DEF ListInv
<1> QED BY <1>1, <1>2, <1>3, <1>4, <1>5 DEF Lists!Next

\* A client that reads to the end gets every row that matched when it began,
\* though rows are added meanwhile, from each of the thirty-two lists whose order
\* is fixed and whose total, if it has one, is counted with the page: for any
\* number of rows, limits and default sizes.
THEOREM ListsCorrect ==
  ASSUME Names \subseteq DOMAIN Lists!Lists, ListClock \in Nat, PageSizes \subseteq Nat, DefaultSize \in Nat, ListRows \in Nat
  PROVE  Lists!Spec => []Lists!NoneMissed
<1>1. Lists!Init => ListInv
  <2> SUFFICES ASSUME Lists!Init PROVE ListInv
    OBVIOUS
  <2>1. listed = <<>> /\ listed \in Seq([has : BOOLEAN, at : Nat]) /\ DOMAIN listed = {}
    BY DEF Lists!Init
  <2>2. reader = [pc |-> "idle", offset |-> 0, total |-> 0, last |-> 0, wanted |-> {}, got |-> {}]
    BY DEF Lists!Init
  <2>3. TableTyped /\ ReaderTyped /\ listSize \in Nat /\ listName \in DOMAIN Lists!Lists
    BY <2>1, <2>2 DEF Lists!Init, TableTyped, ReaderTyped
  <2> QED BY <2>2, <2>3 DEF ListInv
<1>2. ListInv /\ [Lists!Next]_(Lists!listVars) => ListInv'
  <2> SUFFICES ASSUME ListInv, [Lists!Next]_(Lists!listVars) PROVE ListInv'
    OBVIOUS
  <2>1. Lists!PageLimit \in Nat
    BY DEF ListInv, Lists!PageLimit
  <2> QED BY <2>1, ListStep
<1>3. ListInv => Lists!NoneMissed
  BY DEF ListInv, Steady, Lists!NoneMissed
<1> QED BY <1>1, <1>2, <1>3, PTL DEF Lists!Spec

-----------------------------------------------------------------------------
(***************************************************************************)
(* Alerts: an event has left the set of thresholds its call has yet to     *)
(* report, so it is not raised again; a threshold that the list of a       *)
(* sample's call found and that the sample meets is in that set or has its *)
(* event, and the list finds every threshold created before the sample.    *)
(*                                                                         *)
(* Queries: the slot of the i-th newest sample holds the i-th last sample  *)
(* ingested, however often the buffer wrapped around (RingInv), so the     *)
(* samples of a point by their age and by their place are the same in      *)
(* another order, and have the same count and sum.                         *)
(***************************************************************************)
\* So is the sum.
LEMMA MetricsSum ==
  ASSUME NEW f, NEW S
  PROVE  Metrics!SumFunctionOnSet(f, S) = SumFunctionOnSet(f, S)
BY DEF SumFunctionOnSet, FoldFunctionOnSet, MapThenFoldSet,
   Metrics!SumFunctionOnSet, Metrics!FoldFunctionOnSet, Metrics!MapThenFoldSet

\* The cardinality that the module refers to is that of FiniteSets.
LEMMA MetricsCard ==
  ASSUME NEW S
  PROVE  Metrics!Cardinality(S) = Cardinality(S)
BY DEF Cardinality, Metrics!Cardinality

Alarms == [threshold : DOMAIN Thresholds, sample : Nat, state : {"firing", "acknowledged", "resolved"}]
Evals == [listed : BOOLEAN, todo : SUBSET DOMAIN Thresholds]

AlarmTyped ==
  /\ ingested \in Seq(Metrics!Samples) /\ alerts \in Seq(Alarms) /\ evals \in Seq(Evals)
  /\ Len(evals) = Len(ingested)
  /\ thresholds \in [DOMAIN Thresholds -> Nat \cup {-1}]
  /\ \A t \in DOMAIN Thresholds : thresholds[t] <= Len(ingested)
  /\ handler.pc = "write" => handler.alert \in DOMAIN alerts /\ handler.to \in {"acknowledged", "resolved"}

Meets(t, i) == Metrics!Evaluate(t, ingested[i].value)

\* An event of threshold t and sample i.
Event(a, t, i) == alerts[a].threshold = t /\ alerts[a].sample = i

EventSound(a) ==
  \E t \in DOMAIN Thresholds, i \in DOMAIN ingested :
    Event(a, t, i) /\ Meets(t, i) /\ evals[i].listed /\ t \notin evals[i].todo

EvalSound(i) ==
  /\ ~evals[i].listed => evals[i].todo = {}
  /\ \A t \in evals[i].todo : Meets(t, i)
  /\ \A t \in DOMAIN Thresholds :
       (MetricsInMemory /\ thresholds[t] # -1 /\ i > thresholds[t] /\ Meets(t, i) /\ evals[i].listed) =>
         t \in evals[i].todo \/ \E a \in DOMAIN alerts : Event(a, t, i)

AlarmInv ==
  /\ AlarmTyped
  /\ \A a \in DOMAIN alerts : EventSound(a)
  /\ \A a, b \in DOMAIN alerts :
       alerts[a].threshold = alerts[b].threshold /\ alerts[a].sample = alerts[b].sample => a = b
  /\ \A i \in DOMAIN ingested : EvalSound(i)

LEMMA SampleIngested ==
  ASSUME AlarmInv, NEW s \in Metrics!Samples, NEW empty \in BOOLEAN, Metrics!InsertSamples(s, empty)
  PROVE  AlarmInv'
<1>1. /\ ingested \in Seq(Metrics!Samples) /\ evals \in Seq(Evals) /\ Len(evals) = Len(ingested)
      /\ alerts' = alerts /\ thresholds' = thresholds /\ handler' = handler /\ ingested' = Append(ingested, s)
  BY DEF AlarmInv, AlarmTyped, Metrics!InsertSamples
<1>2. PICK e \in Evals : evals' = Append(evals, e) /\ e.todo = {} /\ (e.listed => ~MetricsInMemory)
  <2> DEFINE e == [listed |-> empty /\ ~MetricsInMemory, todo |-> {}]
  <2>1. e \in Evals /\ e.todo = {} /\ (e.listed => ~MetricsInMemory)
    BY DEF Evals
  <2>2. evals' = Append(evals, e)
    BY DEF Metrics!InsertSamples
  <2> QED BY <2>1, <2>2
<1> DEFINE R == Metrics!Samples
<1> HIDE DEF R
<1>3. /\ ingested' \in Seq(R) /\ Len(ingested') = Len(ingested) + 1 /\ Len(ingested) \in Nat
      /\ DOMAIN ingested = 1 .. Len(ingested) /\ DOMAIN ingested' = 1 .. Len(ingested) + 1
      /\ \A i \in 1 .. Len(ingested) : ingested'[i] = ingested[i]
  <2>1. ingested \in Seq(R) /\ s \in R
    BY <1>1 DEF R
  <2>2. /\ Append(ingested, s) \in Seq(R) /\ Len(Append(ingested, s)) = Len(ingested) + 1 /\ Len(ingested) \in Nat
        /\ DOMAIN ingested = 1 .. Len(ingested) /\ DOMAIN Append(ingested, s) = 1 .. Len(ingested) + 1
        /\ \A i \in 1 .. Len(ingested) : Append(ingested, s)[i] = ingested[i]
    BY <2>1
  <2> QED BY <1>1, <2>2
<1>4. /\ evals' \in Seq(Evals) /\ Len(evals') = Len(ingested) + 1 /\ evals'[Len(ingested) + 1] = e
      /\ \A i \in 1 .. Len(ingested) : evals'[i] = evals[i]
  BY <1>1, <1>2
<1>5. AlarmTyped'
  <2>1. \A t \in DOMAIN Thresholds : thresholds[t] <= Len(ingested')
    BY <1>3 DEF AlarmInv, AlarmTyped
  <2> QED BY <1>1, <1>3, <1>4, <2>1 DEF AlarmInv, AlarmTyped, R
<1>6. \A t, i : i \in DOMAIN ingested => (Meets(t, i)' <=> Meets(t, i))
  BY <1>3 DEF Meets, Metrics!Evaluate
<1>7. \A a \in DOMAIN alerts : EventSound(a)'
  <2> SUFFICES ASSUME NEW a \in DOMAIN alerts PROVE EventSound(a)'
    OBVIOUS
  <2>1. PICK t \in DOMAIN Thresholds, i \in DOMAIN ingested :
          Event(a, t, i) /\ Meets(t, i) /\ evals[i].listed /\ t \notin evals[i].todo
    BY DEF AlarmInv, EventSound
  <2>2. Event(a, t, i)' /\ Meets(t, i)' /\ evals'[i] = evals[i] /\ i \in DOMAIN ingested'
    BY <1>1, <1>3, <1>4, <1>6, <2>1 DEF Event
  <2> QED BY <2>1, <2>2 DEF EventSound
<1>8. ASSUME NEW i \in DOMAIN ingested' PROVE EvalSound(i)'
  <2>1. CASE i \in DOMAIN ingested
    <3>1. EvalSound(i) /\ evals'[i] = evals[i] /\ \A t : Meets(t, i)' <=> Meets(t, i)
      BY <1>3, <1>4, <1>6, <2>1 DEF AlarmInv
    <3> QED BY <1>1, <3>1 DEF EvalSound, Event
  <2>2. CASE i \notin DOMAIN ingested
    <3>1. evals'[i].todo = {} /\ (evals'[i].listed => ~MetricsInMemory)
      BY <1>2, <1>3, <1>4, <2>2
    <3> QED BY <3>1 DEF EvalSound
  <2> QED BY <2>1, <2>2
<1> QED BY <1>1, <1>5, <1>7, <1>8 DEF AlarmInv

\* A step that works on the evaluation of one sample, with an event or without.
LEMMA SampleEvaluated ==
  ASSUME AlarmInv, NEW i \in DOMAIN evals,
         \/ \E ok \in Metrics!Outcomes : Metrics!ListByResource(i, ok)
         \/ \E ok \in Metrics!Outcomes, t \in DOMAIN Thresholds : Metrics!CreateAlert(i, t, ok)
  PROVE  AlarmInv'
<1>1. /\ ingested \in Seq(Metrics!Samples) /\ evals \in Seq(Evals) /\ Len(evals) = Len(ingested)
      /\ alerts \in Seq(Alarms) /\ thresholds' = thresholds /\ handler' = handler /\ ingested' = ingested
  BY DEF AlarmInv, AlarmTyped, Metrics!ListByResource, Metrics!CreateAlert
<1>2. i \in DOMAIN ingested /\ DOMAIN evals = DOMAIN ingested /\ evals[i] \in Evals /\ EvalSound(i) /\ i \in Nat
  BY <1>1 DEF AlarmInv
<1>3. \A t, j : (Meets(t, j)' <=> Meets(t, j))
  BY <1>1 DEF Meets, Metrics!Evaluate
<1>4. ASSUME NEW ok \in Metrics!Outcomes, Metrics!ListByResource(i, ok) PROVE AlarmInv'
  <2>1. PICK e : e = [listed |-> TRUE, todo |-> IF ok THEN Metrics!Due(i) ELSE {}]
    OBVIOUS
  <2>2. /\ e \in Evals /\ e.listed /\ (e.todo = IF ok THEN Metrics!Due(i) ELSE {}) /\ ~evals[i].listed
        /\ evals' = [evals EXCEPT ![i] = e] /\ alerts' = alerts
    BY <1>1, <1>4, <2>1 DEF Evals, Metrics!Due, Metrics!ListByResource, AlarmInv, AlarmTyped
  <2>3. /\ evals' \in Seq(Evals) /\ Len(evals') = Len(evals) /\ evals'[i] = e
        /\ \A j \in DOMAIN ingested : j # i => evals'[j] = evals[j]
    BY <1>1, <1>2, <2>2, ReplacedInSeq
  <2>4. AlarmTyped'
    BY <1>1, <2>2, <2>3 DEF AlarmInv, AlarmTyped
  <2>5. ASSUME NEW a \in DOMAIN alerts PROVE EventSound(a)'
    <3>1. PICK t \in DOMAIN Thresholds, j \in DOMAIN ingested :
            Event(a, t, j) /\ Meets(t, j) /\ evals[j].listed /\ t \notin evals[j].todo
      BY DEF AlarmInv, EventSound
    <3>2. Event(a, t, j)' /\ Meets(t, j)' /\ evals'[j] = evals[j]
      BY <1>3, <2>2, <2>3, <3>1 DEF Event
    <3> QED BY <1>1, <3>1, <3>2 DEF EventSound
  <2>6. ASSUME NEW j \in DOMAIN ingested PROVE EvalSound(j)'
    <3>1. CASE j # i
      <4>1. EvalSound(j) /\ evals'[j] = evals[j]
        BY <2>3, <3>1 DEF AlarmInv
      <4> QED BY <1>1, <1>3, <2>2, <4>1 DEF EvalSound, Event
    <3>2. CASE j = i
      <4>1. \A t \in Metrics!Due(i) : Meets(t, i)
        BY DEF Metrics!Due, Meets
      <4>2. \A t \in DOMAIN Thresholds : thresholds[t] # -1 /\ Meets(t, i) => t \in Metrics!Due(i)
        BY DEF Metrics!Due, Meets, AlarmInv, AlarmTyped
      <4>3. MetricsInMemory => ok
        BY <1>4 DEF Metrics!Outcomes
      <4> QED BY <1>1, <1>3, <2>2, <2>3, <3>2, <4>1, <4>2, <4>3 DEF EvalSound
    <3> QED BY <3>1, <3>2
  <2> QED BY <1>1, <2>2, <2>4, <2>5, <2>6 DEF AlarmInv
<1>5. ASSUME NEW ok \in Metrics!Outcomes, NEW t \in DOMAIN Thresholds, Metrics!CreateAlert(i, t, ok) PROVE AlarmInv'
  <2>1. PICK e, x : /\ e = [evals[i] EXCEPT !.todo = evals[i].todo \ {t}]
                    /\ x = [threshold |-> t, sample |-> i, state |-> "firing"]
    OBVIOUS
  <2>2. e \in Evals /\ e.listed = evals[i].listed /\ e.todo = evals[i].todo \ {t}
    BY <1>2, <2>1 DEF Evals
  <2>3. x \in Alarms /\ x.threshold = t /\ x.sample = i
    BY <1>2, <2>1 DEF Alarms
  <2>4. /\ t \in evals[i].todo /\ evals' = [evals EXCEPT ![i] = e]
        /\ alerts' = IF ok THEN Append(alerts, x) ELSE alerts
    BY <1>5, <2>1 DEF Metrics!CreateAlert
  <2>5. /\ evals' \in Seq(Evals) /\ Len(evals') = Len(evals) /\ evals'[i] = e
        /\ \A j \in DOMAIN ingested : j # i => evals'[j] = evals[j]
    BY <1>1, <1>2, <2>2, <2>4, ReplacedInSeq
  <2>6. evals[i].listed /\ Meets(t, i) /\ ~\E a \in DOMAIN alerts : Event(a, t, i)
    <3>1. evals[i].listed /\ Meets(t, i)
      BY <1>2, <2>4 DEF EvalSound
    <3>2. ASSUME NEW a \in DOMAIN alerts, Event(a, t, i) PROVE FALSE
      BY <2>4, <3>2 DEF AlarmInv, EventSound, Event
    <3> QED BY <3>1, <3>2
  <2>7. /\ alerts' \in Seq(Alarms) /\ DOMAIN alerts \subseteq DOMAIN alerts'
        /\ \A a \in DOMAIN alerts : alerts'[a] = alerts[a]
        /\ \A a \in DOMAIN alerts' : a \notin DOMAIN alerts => alerts'[a] = x
        /\ \A a, b \in DOMAIN alerts' : a \notin DOMAIN alerts /\ b \notin DOMAIN alerts => a = b
        /\ ok => \E a \in DOMAIN alerts' : alerts'[a] = x
    <3>1. CASE ok
      <4>1. alerts' = Append(alerts, x) /\ Len(alerts) \in Nat /\ DOMAIN alerts = 1 .. Len(alerts)
        BY <1>1, <2>4, <3>1, LenIsNat
      <4>2. /\ alerts' \in Seq(Alarms) /\ DOMAIN alerts' = 1 .. Len(alerts) + 1
            /\ alerts'[Len(alerts) + 1] = x /\ \A a \in 1 .. Len(alerts) : alerts'[a] = alerts[a]
        BY <1>1, <2>3, <4>1
      <4>3. \A a \in DOMAIN alerts' : a \notin DOMAIN alerts => a = Len(alerts) + 1
        BY <4>1, <4>2
      <4>4. Len(alerts) + 1 \in DOMAIN alerts' /\ DOMAIN alerts \subseteq DOMAIN alerts'
        BY <4>1, <4>2
      <4> QED BY <4>1, <4>2, <4>3, <4>4
    <3>2. CASE ~ok
      BY <1>1, <2>4, <3>2
    <3> QED BY <3>1, <3>2
  <2>8. AlarmTyped'
    BY <1>1, <2>5, <2>7 DEF AlarmInv, AlarmTyped
  <2>9. ASSUME NEW a \in DOMAIN alerts' PROVE EventSound(a)'
    <3>1. CASE a \in DOMAIN alerts
      <4>1. PICK u \in DOMAIN Thresholds, j \in DOMAIN ingested :
              Event(a, u, j) /\ Meets(u, j) /\ evals[j].listed /\ u \notin evals[j].todo
        BY <3>1 DEF AlarmInv, EventSound
      <4>2. Event(a, u, j)' /\ Meets(u, j)' /\ evals'[j].listed /\ u \notin evals'[j].todo
        BY <1>3, <2>2, <2>5, <2>7, <3>1, <4>1 DEF Event
      <4> QED BY <1>1, <4>1, <4>2 DEF EventSound
    <3>2. CASE a \notin DOMAIN alerts
      <4>1. Event(a, t, i)' /\ Meets(t, i)' /\ evals'[i].listed /\ t \notin evals'[i].todo
        BY <1>3, <2>2, <2>3, <2>5, <2>6, <2>7, <3>2 DEF Event
      <4> QED BY <1>1, <1>2, <4>1 DEF EventSound
    <3> QED BY <3>1, <3>2
  <2>10. ASSUME NEW a \in DOMAIN alerts', NEW b \in DOMAIN alerts',
                alerts'[a].threshold = alerts'[b].threshold, alerts'[a].sample = alerts'[b].sample
         PROVE  a = b
    <3>1. CASE a \in DOMAIN alerts /\ b \in DOMAIN alerts
      BY <2>7, <2>10, <3>1 DEF AlarmInv
    <3>2. CASE a \notin DOMAIN alerts /\ b \notin DOMAIN alerts
      BY <2>7, <3>2
    <3>3. CASE ~(a \in DOMAIN alerts <=> b \in DOMAIN alerts)
      BY <2>3, <2>6, <2>7, <2>10, <3>3 DEF Event
    <3> QED BY <3>1, <3>2, <3>3
  <2>11. ASSUME NEW j \in DOMAIN ingested PROVE EvalSound(j)'
    <3>1. EvalSound(j) /\ evals'[j].listed = evals[j].listed
          /\ evals'[j].todo = IF j = i THEN evals[j].todo \ {t} ELSE evals[j].todo
      BY <2>2, <2>5 DEF AlarmInv
    <3>2. MetricsInMemory => \E a \in DOMAIN alerts' : Event(a, t, i)'
      BY <1>5, <2>3, <2>7 DEF Event, Metrics!Outcomes
    <3>3. \A a \in DOMAIN alerts : \A u : Event(a, u, j) => Event(a, u, j)' /\ a \in DOMAIN alerts'
      BY <2>7 DEF Event
    <3> QED BY <1>1, <1>3, <3>1, <3>2, <3>3 DEF EvalSound
  <2> QED BY <1>1, <2>8, <2>9, <2>10, <2>11 DEF AlarmInv
<1> QED BY <1>4, <1>5

LEMMA AlarmStep ==
  ASSUME AlarmInv, [Metrics!Next]_(Metrics!monVars)
  PROVE  AlarmInv'
<1>1. ASSUME NEW t \in DOMAIN Thresholds, Metrics!CreateThreshold(t) PROVE AlarmInv'
  <2>1. /\ thresholds' = [thresholds EXCEPT ![t] = Len(ingested)] /\ alerts' = alerts /\ handler' = handler
        /\ ingested' = ingested /\ evals' = evals
    BY <1>1 DEF Metrics!CreateThreshold
  <2>2. Len(ingested) \in Nat /\ thresholds \in [DOMAIN Thresholds -> Nat \cup {-1}]
        /\ DOMAIN ingested = 1 .. Len(ingested)
    BY LenIsNat DEF AlarmInv, AlarmTyped
  <2>3. /\ thresholds' \in [DOMAIN Thresholds -> Nat \cup {-1}] /\ thresholds'[t] = Len(ingested)
        /\ \A u \in DOMAIN Thresholds : u # t => thresholds'[u] = thresholds[u]
    BY <1>1, <2>1, <2>2
  <2>4. \A u \in DOMAIN Thresholds : thresholds'[u] <= Len(ingested')
    BY <2>1, <2>2, <2>3 DEF AlarmInv, AlarmTyped
  <2>5. AlarmTyped'
    BY <2>1, <2>3, <2>4 DEF AlarmInv, AlarmTyped
  <2>6. \A u, j : Meets(u, j)' <=> Meets(u, j)
    BY <2>1 DEF Meets, Metrics!Evaluate
  <2>7. \A a \in DOMAIN alerts : EventSound(a)'
    BY <2>1, <2>6 DEF AlarmInv, EventSound, Event
  <2>8. ASSUME NEW j \in DOMAIN ingested PROVE EvalSound(j)'
    <3>1. EvalSound(j) /\ ~(j > thresholds'[t])
      BY <2>2, <2>3 DEF AlarmInv
    <3> QED BY <2>1, <2>3, <2>6, <3>1 DEF EvalSound, Event
  <2> QED BY <2>1, <2>5, <2>7, <2>8 DEF AlarmInv
<1>2. ASSUME ingested' = ingested, evals' = evals, thresholds' = thresholds,
             alerts' \in Seq(Alarms), DOMAIN alerts' = DOMAIN alerts,
             \A a \in DOMAIN alerts : alerts'[a].threshold = alerts[a].threshold /\ alerts'[a].sample = alerts[a].sample,
             handler'.pc = "write" => handler'.alert \in DOMAIN alerts /\ handler'.to \in {"acknowledged", "resolved"}
      PROVE  AlarmInv'
  <2>1. AlarmTyped'
    BY <1>2 DEF AlarmInv, AlarmTyped
  <2>2. \A u, j : Meets(u, j)' <=> Meets(u, j)
    BY <1>2 DEF Meets, Metrics!Evaluate
  <2>3. \A a \in DOMAIN alerts : \A u, j : Event(a, u, j)' <=> Event(a, u, j)
    BY <1>2 DEF Event
  <2>4. \A a \in DOMAIN alerts : EventSound(a)'
    BY <1>2, <2>2, <2>3 DEF AlarmInv, EventSound
  <2>5. \A j \in DOMAIN ingested : EvalSound(j)'
    BY <1>2, <2>2, <2>3 DEF AlarmInv, EvalSound
  <2> QED BY <1>2, <2>1, <2>4, <2>5 DEF AlarmInv
<1>3. ASSUME NEW a \in DOMAIN alerts, NEW to \in {"acknowledged", "resolved"}, Metrics!AlertReads(a, to) PROVE AlarmInv'
  <2>1. /\ thresholds' = thresholds /\ alerts' = alerts /\ ingested' = ingested /\ evals' = evals
        /\ handler'.alert = a /\ handler'.to = to /\ alerts \in Seq(Alarms)
    BY <1>3 DEF Metrics!AlertReads, AlarmInv, AlarmTyped
  <2> QED BY <1>2, <2>1
<1>4. CASE Metrics!AlertUpdate
  <2>1. /\ handler.alert \in DOMAIN alerts /\ handler.to \in {"acknowledged", "resolved"}
        /\ alerts' = [alerts EXCEPT ![handler.alert].state = handler.to]
        /\ handler'.pc = "idle" /\ thresholds' = thresholds /\ ingested' = ingested /\ evals' = evals
    BY <1>4 DEF Metrics!AlertUpdate, AlarmInv, AlarmTyped
  <2>2. PICK x : x = [alerts[handler.alert] EXCEPT !.state = handler.to]
    OBVIOUS
  <2>3. alerts \in Seq(Alarms) /\ alerts[handler.alert] \in Alarms
    BY <2>1 DEF AlarmInv, AlarmTyped
  <2>4. /\ x \in Alarms /\ x.threshold = alerts[handler.alert].threshold
        /\ x.sample = alerts[handler.alert].sample
    BY <2>1, <2>2, <2>3 DEF Alarms
  <2>5. /\ alerts' \in Seq(Alarms) /\ DOMAIN alerts' = DOMAIN alerts
        /\ \A a \in DOMAIN alerts : alerts'[a] = IF a = handler.alert THEN x ELSE alerts[a]
    BY <2>1, <2>2, <2>3, <2>4, ReplacedInSeq
  <2> QED BY <1>2, <2>1, <2>4, <2>5
<1>5. CASE UNCHANGED Metrics!monVars
  <2>1. /\ thresholds' = thresholds /\ alerts' = alerts /\ ingested' = ingested /\ evals' = evals
        /\ handler' = handler /\ alerts \in Seq(Alarms)
    BY <1>5 DEF Metrics!monVars, AlarmInv, AlarmTyped
  <2>2. handler.pc = "write" => handler.alert \in DOMAIN alerts /\ handler.to \in {"acknowledged", "resolved"}
    BY DEF AlarmInv, AlarmTyped
  <2> QED BY <1>2, <2>1, <2>2
<1> QED BY <1>1, <1>3, <1>4, <1>5, SampleIngested, SampleEvaluated DEF Metrics!Next

\* No event is raised twice or without a breach, and with the in-memory
\* repositories a sample ingested after a threshold was created that meets it
\* has raised one when its call returns, whichever calls overlap, for any
\* samples and thresholds, though events are acknowledged meanwhile.
THEOREM AlertsCorrect == Metrics!Spec => []Metrics!BreachesAlert
<1>1. Metrics!Init => AlarmInv
  <2> SUFFICES ASSUME Metrics!Init PROVE AlarmInv
    OBVIOUS
  <2>1. /\ ingested = <<>> /\ alerts = <<>> /\ evals = <<>> /\ handler.pc = "idle"
        /\ thresholds = [t \in DOMAIN Thresholds |-> -1]
    BY DEF Metrics!Init
  <2>2. /\ ingested \in Seq(Metrics!Samples) /\ alerts \in Seq(Alarms) /\ evals \in Seq(Evals)
        /\ Len(ingested) = 0 /\ Len(evals) = 0 /\ DOMAIN alerts = {} /\ DOMAIN ingested = {}
    BY <2>1
  <2> QED BY <2>1, <2>2 DEF AlarmInv, AlarmTyped
<1>2. AlarmInv /\ [Metrics!Next]_(Metrics!monVars) => AlarmInv'
  BY AlarmStep
<1>3. AlarmInv => Metrics!BreachesAlert
  <2> SUFFICES ASSUME AlarmInv PROVE Metrics!BreachesAlert
    OBVIOUS
  <2>1. \A a \in DOMAIN alerts : Metrics!Evaluate(alerts[a].threshold, ingested[alerts[a].sample].value)
    BY DEF AlarmInv, EventSound, Event, Meets
  <2>2. ASSUME MetricsInMemory, NEW t \in DOMAIN Thresholds, NEW i \in DOMAIN ingested,
               thresholds[t] # -1, i > thresholds[t], Metrics!Evaluate(t, ingested[i].value),
               evals[i].listed, evals[i].todo = {}
        PROVE  \E a \in DOMAIN alerts : alerts[a].threshold = t /\ alerts[a].sample = i
    BY <2>2 DEF AlarmInv, EvalSound, Event, Meets
  <2>3. \A a, b \in DOMAIN alerts :
          alerts[a].threshold = alerts[b].threshold /\ alerts[a].sample = alerts[b].sample => a = b
    BY DEF AlarmInv
  <2> QED BY <2>1, <2>2, <2>3 DEF Metrics!BreachesAlert
<1> QED BY <1>1, <1>2, <1>3, PTL DEF Metrics!Spec

LEMMA ModSmall ==
  ASSUME NEW C \in Nat \ {0}, NEW x \in Nat
  PROVE  (x < C => x % C = x) /\ (C <= x /\ x < 2 * C => x % C = x - C)
OBVIOUS

\* The function that the fold of PushBatch is defined by.
PushFolds(g, f, r, S) == g = [s \in SUBSET S |-> IF s = {} THEN r ELSE Metrics!Push(g[s \ {Any(s)}], f[Any(s)])]

\* A batch of one sample, with or without an empty one after it, is one push.
LEMMA PushOne ==
  ASSUME NEW r, NEW s, s # Metrics!NoSample, NEW b, b = <<s>> \/ b = <<s, Metrics!NoSample>>
  PROVE  Metrics!PushBatch(r, b) = Metrics!Push(r, s)
<1>1. PICK S : S = {i \in DOMAIN b : b[i] # Metrics!NoSample}
  OBVIOUS
<1>2. PICK f : f = [i \in DOMAIN b |-> b[i]]
  OBVIOUS
<1>3. S = {1} /\ f[1] = s
  BY <1>1, <1>2
<1>4. SUBSET S = {{}, {1}} /\ Any({1}) = 1 /\ {1} # {} /\ {1} \ {1} = {}
  BY <1>3 DEF Any
<1>5. \E g : PushFolds(g, f, r, S)
  <2> DEFINE g == [x \in SUBSET S |-> IF x = {} THEN r ELSE Metrics!Push(r, s)]
  <2>1. g[{}] = r
    BY <1>4
  <2>2. \A x \in SUBSET S : x # {} => x \ {Any(x)} = {} /\ f[Any(x)] = s
    <3> SUFFICES ASSUME NEW x \in SUBSET S, x # {} PROVE x \ {Any(x)} = {} /\ f[Any(x)] = s
      OBVIOUS
    <3>1. x = {1}
      BY <1>4
    <3>2. Any(x) = 1
      BY <1>4, <3>1
    <3> QED BY <1>3, <3>1, <3>2
  <2>3. g = [x \in SUBSET S |-> IF x = {} THEN r ELSE Metrics!Push(g[x \ {Any(x)}], f[Any(x)])]
    BY <2>1, <2>2
  <2>4. PICK h : h = g
    OBVIOUS
  <2>5. PushFolds(h, f, r, S)
    BY <2>3, <2>4 DEF PushFolds
  <2> QED BY <2>5
<1>6. PICK g : PushFolds(g, f, r, S) /\ Metrics!PushBatch(r, b) = g[S]
  <2> DEFINE h == CHOOSE g : PushFolds(g, f, r, S)
  <2>1. PushFolds(h, f, r, S)
    BY <1>5
  <2>2. Metrics!PushBatch(r, b) = h[S]
    BY <1>1, <1>2 DEF Metrics!PushBatch, Metrics!FoldFunctionOnSet, Metrics!MapThenFoldSet, PushFolds, Any
  <2> QED BY <2>1, <2>2
<1>7. g[{}] = r /\ g[S] = Metrics!Push(g[{}], s)
  <2>1. {} \in SUBSET S /\ S \in SUBSET S /\ S # {} /\ Any(S) = 1 /\ S \ {Any(S)} = {}
    BY <1>3, <1>4
  <2>2. \A x \in SUBSET S : g[x] = IF x = {} THEN r ELSE Metrics!Push(g[x \ {Any(x)}], f[Any(x)])
    BY <1>6 DEF PushFolds
  <2> QED BY <1>3, <2>1, <2>2
<1> QED BY <1>6, <1>7

RingShape(r) ==
  \E S : \E f \in [0 .. Capacity - 1 -> S], h \in 0 .. Capacity - 1, z \in 0 .. Capacity :
    r = [samples |-> f, head |-> h, size |-> z]

\* The buffer has the last samples, newest first before its head.
RingInv ==
  /\ ingested \in Seq(Metrics!Samples)
  /\ RingShape(ring)
  /\ ring.size = IF Len(ingested) < Capacity THEN Len(ingested) ELSE Capacity
  /\ \A i \in 0 .. ring.size - 1 : ring.samples[Metrics!Slot(ring, i)] = ingested[Len(ingested) - i]

\* Where the slots are, without the remainder.
LEMMA SlotFacts ==
  ASSUME Capacity \in Nat \ {0}, NEW r, r.head \in 0 .. Capacity - 1, NEW i \in 0 .. Capacity - 1
  PROVE  /\ Metrics!Slot(r, i) = IF i < r.head THEN r.head - 1 - i ELSE r.head - 1 - i + Capacity
         /\ Metrics!Slot(r, i) \in 0 .. Capacity - 1
<1>1. PICK x : x = r.head - 1 - i + Capacity
  OBVIOUS
<1>2. x \in Nat /\ x < 2 * Capacity
  BY <1>1
<1>3. (x < Capacity => x % Capacity = x) /\ (Capacity <= x => x % Capacity = x - Capacity)
  BY <1>2, ModSmall
<1>4. Metrics!Slot(r, i) = x % Capacity
  BY <1>1 DEF Metrics!Slot
<1> QED BY <1>1, <1>3, <1>4

\* The buffer with one more sample.
Pushed(r, s) ==
  /\ RingShape(r)
  /\ r.size = IF Len(ingested) + 1 < Capacity THEN Len(ingested) + 1 ELSE Capacity
  /\ \A i \in 0 .. r.size - 1 : r.samples[Metrics!Slot(r, i)] = IF i = 0 THEN s ELSE ingested[Len(ingested) + 1 - i]

LEMMA PushRing ==
  ASSUME Capacity \in Nat \ {0}, RingInv, NEW s \in Metrics!Samples, NEW r, r = Metrics!Push(ring, s)
  PROVE  Pushed(r, s)
<1>1. PICK S : \E f \in [0 .. Capacity - 1 -> S], h \in 0 .. Capacity - 1, z \in 0 .. Capacity :
                 ring = [samples |-> f, head |-> h, size |-> z]
  BY DEF RingInv, RingShape
<1>2. PICK f \in [0 .. Capacity - 1 -> S], h \in 0 .. Capacity - 1, z \in 0 .. Capacity :
        ring = [samples |-> f, head |-> h, size |-> z]
  BY <1>1
<1>3. ring.samples = f /\ ring.head = h /\ ring.size = z /\ Len(ingested) \in Nat
  BY <1>2, LenIsNat DEF RingInv
<1>4. PICK f2, h2, z2 : /\ f2 = [f EXCEPT ![h] = s] /\ h2 = (h + 1) % Capacity
                        /\ z2 = IF z < Capacity THEN z + 1 ELSE z
  OBVIOUS
<1>5. r = [samples |-> f2, head |-> h2, size |-> z2]
  BY <1>3, <1>4 DEF Metrics!Push
<1>6. r.samples = f2 /\ r.head = h2 /\ r.size = z2
  BY <1>5
<1>7. f2 \in [0 .. Capacity - 1 -> S \cup {s}] /\ f2[h] = s /\ \A j \in 0 .. Capacity - 1 : j # h => f2[j] = f[j]
  BY <1>4
<1>8. h2 = (IF h = Capacity - 1 THEN 0 ELSE h + 1) /\ h2 \in 0 .. Capacity - 1
  <2>1. PICK x : x = h + 1
    OBVIOUS
  <2>2. x \in Nat /\ x <= Capacity /\ x < 2 * Capacity
    BY <2>1
  <2>3. (x < Capacity => x % Capacity = x) /\ (Capacity <= x => x % Capacity = x - Capacity)
    BY <2>2, ModSmall
  <2> QED BY <1>4, <2>1, <2>2, <2>3
<1>9. z2 \in 0 .. Capacity /\ z2 = IF Len(ingested) + 1 < Capacity THEN Len(ingested) + 1 ELSE Capacity
  <2>1. z = IF Len(ingested) < Capacity THEN Len(ingested) ELSE Capacity
    BY <1>3 DEF RingInv
  <2> QED BY <1>3, <1>4, <2>1
<1>10. \A i \in 0 .. z2 - 1 : f2[Metrics!Slot(r, i)] = IF i = 0 THEN s ELSE ingested[Len(ingested) + 1 - i]
  <2> SUFFICES ASSUME NEW i \in 0 .. z2 - 1 PROVE f2[Metrics!Slot(r, i)] = IF i = 0 THEN s ELSE ingested[Len(ingested) + 1 - i]
    OBVIOUS
  <2>1. i \in 0 .. Capacity - 1 /\ r.head \in 0 .. Capacity - 1
    BY <1>6, <1>8, <1>9
  <2>2. Metrics!Slot(r, i) = IF i < h2 THEN h2 - 1 - i ELSE h2 - 1 - i + Capacity
    BY <1>6, <2>1, SlotFacts
  <2>3. CASE i = 0
    BY <1>7, <1>8, <2>2, <2>3
  <2>4. CASE i # 0
    <3>1. PICK j : j = i - 1
      OBVIOUS
    <3>2. j \in 0 .. z - 1 /\ j \in 0 .. Capacity - 1 /\ ring.head \in 0 .. Capacity - 1
      BY <1>3, <1>4, <1>9, <2>1, <2>4, <3>1
    <3>3. /\ Metrics!Slot(ring, j) = IF j < h THEN h - 1 - j ELSE h - 1 - j + Capacity
          /\ Metrics!Slot(ring, j) \in 0 .. Capacity - 1
      BY <1>3, <3>2, SlotFacts
    <3>4. Metrics!Slot(r, i) = Metrics!Slot(ring, j) /\ Metrics!Slot(ring, j) # h
      BY <1>8, <2>1, <2>2, <2>4, <3>1, <3>3
    <3>5. f[Metrics!Slot(ring, j)] = ingested[Len(ingested) - j]
      BY <1>3, <3>2 DEF RingInv
    <3>6. Len(ingested) - j = Len(ingested) + 1 - i
      BY <1>3, <2>4, <3>1
    <3> QED BY <1>7, <2>4, <3>3, <3>4, <3>5, <3>6
  <2> QED BY <2>3, <2>4
<1>11. \E R : \E g \in [0 .. Capacity - 1 -> R], y \in 0 .. Capacity - 1, x \in 0 .. Capacity :
         r = [samples |-> g, head |-> y, size |-> x]
  BY <1>5, <1>7, <1>8, <1>9
<1> QED BY <1>6, <1>9, <1>10, <1>11 DEF Pushed, RingShape

LEMMA RingStep ==
  ASSUME Capacity \in Nat \ {0}, MetricsInMemory, Times \subseteq Nat, RingInv, [Metrics!Next]_(Metrics!monVars)
  PROVE  RingInv'
<1>1. ASSUME NEW s \in Metrics!Samples, NEW empty \in BOOLEAN, Metrics!InsertSamples(s, empty)
      PROVE  RingInv'
  <2>1. ring' = Metrics!PushBatch(ring, IF empty THEN <<s, Metrics!NoSample>> ELSE <<s>>) /\ ingested' = Append(ingested, s)
    BY <1>1 DEF Metrics!InsertSamples
  <2>2. s # Metrics!NoSample
    <3>1. s.time \in Nat
      BY DEF Metrics!Samples
    <3>2. Metrics!NoSample.time = -1
      BY DEF Metrics!NoSample
    <3> QED BY <3>1, <3>2
  <2>3. PICK r, b : r = Metrics!Push(ring, s) /\ b = IF empty THEN <<s, Metrics!NoSample>> ELSE <<s>>
    OBVIOUS
  <2>4. ring' = r
    BY <2>1, <2>2, <2>3, PushOne
  <2>10. Pushed(r, s)
    BY <2>3, PushRing
  <2>5. /\ RingShape(r)
        /\ r.size = IF Len(ingested) + 1 < Capacity THEN Len(ingested) + 1 ELSE Capacity
        /\ \A i \in 0 .. r.size - 1 : r.samples[Metrics!Slot(r, i)] = IF i = 0 THEN s ELSE ingested[Len(ingested) + 1 - i]
    BY <2>10 DEF Pushed
  <2>6. ingested \in Seq(Metrics!Samples) /\ Len(ingested) \in Nat
    BY LenIsNat DEF RingInv
  <2>7. /\ ingested' \in Seq(Metrics!Samples) /\ Len(ingested') = Len(ingested) + 1
        /\ ingested'[Len(ingested) + 1] = s /\ \A j \in 1 .. Len(ingested) : ingested'[j] = ingested[j]
    <3> DEFINE R == Metrics!Samples
    <3> HIDE DEF R
    <3>1. ingested \in Seq(R) /\ s \in R
      BY <2>6 DEF R
    <3>2. /\ Append(ingested, s) \in Seq(R) /\ Len(Append(ingested, s)) = Len(ingested) + 1
          /\ Append(ingested, s)[Len(ingested) + 1] = s
          /\ \A j \in 1 .. Len(ingested) : Append(ingested, s)[j] = ingested[j]
      BY <3>1
    <3> QED BY <2>1, <3>2 DEF R
  <2>8. r.size \in Nat /\ r.size <= Len(ingested) + 1
    BY <2>5, <2>6
  <2>9. \A i \in 0 .. r.size - 1 : r.samples[Metrics!Slot(r, i)] = ingested'[Len(ingested') - i]
    <3> SUFFICES ASSUME NEW i \in 0 .. r.size - 1 PROVE r.samples[Metrics!Slot(r, i)] = ingested'[Len(ingested') - i]
      OBVIOUS
    <3>1. CASE i = 0
      BY <2>5, <2>6, <2>7, <3>1
    <3>2. CASE i # 0
      <4>1. Len(ingested) + 1 - i \in 1 .. Len(ingested) /\ Len(ingested') - i = Len(ingested) + 1 - i
        BY <2>6, <2>7, <2>8, <3>2
      <4> QED BY <2>5, <2>7, <3>2, <4>1
    <3> QED BY <3>1, <3>2
  <2> QED BY <2>4, <2>5, <2>7, <2>9 DEF RingInv, Metrics!Slot
<1>2. UNCHANGED <<ring, ingested>> => RingInv'
  BY DEF RingInv, Metrics!Slot
<1> QED BY <1>1, <1>2 DEF Metrics!Next, Metrics!monVars, Metrics!ListByResource, Metrics!CreateAlert,
  Metrics!CreateThreshold, Metrics!AlertReads, Metrics!AlertUpdate

\* The samples of a point, by their age in the buffer and by their place among
\* the samples ingested, and the points that the two make.
ByAge(from, to, step, k) == {i \in Metrics!RingMatching(ring, from, to) : Metrics!BucketOf(ring.samples[Metrics!Slot(ring, i)].time, step) = k}
InRange(from, to) == {j \in Metrics!Kept : from <= ingested[j].time /\ ingested[j].time <= to}
ByPlace(from, to, step, k) == {j \in InRange(from, to) : Metrics!BucketOf(ingested[j].time, step) = k}
AgeValues == [i \in 0 .. ring.size - 1 |-> ring.samples[Metrics!Slot(ring, i)].value]
PlaceValues == [j \in DOMAIN ingested |-> ingested[j].value]
AgePoint(from, to, step, k) ==
  [at |-> k, count |-> Cardinality(ByAge(from, to, step, k)), sum |-> SumFunctionOnSet(AgeValues, ByAge(from, to, step, k))]
PlacePoint(from, to, step, k) ==
  [at |-> k, count |-> Cardinality(ByPlace(from, to, step, k)), sum |-> SumFunctionOnSet(PlaceValues, ByPlace(from, to, step, k))]
Steps(from, to, step) ==
  {Metrics!BucketOf(from, step) + n * step : n \in 0 .. (Metrics!BucketOf(to, step) - Metrics!BucketOf(from, step)) \div step}

\* The i-th newest sample of the buffer is the i-th last ingested.
LEMMA AgeIsPlace ==
  ASSUME RingInv, Capacity \in Nat \ {0}, Times \subseteq Nat, Values \subseteq Int
  PROVE  /\ Len(ingested) \in Nat /\ ring.size \in Nat /\ DOMAIN ingested = 1 .. Len(ingested)
         /\ \A i \in 0 .. ring.size - 1 :
              /\ Len(ingested) - i \in Metrics!Kept
              /\ ring.samples[Metrics!Slot(ring, i)] = ingested[Len(ingested) - i]
              /\ ring.samples[Metrics!Slot(ring, i)] # Metrics!NoSample
         /\ \A j \in Metrics!Kept : Len(ingested) - j \in 0 .. ring.size - 1
         /\ \A j \in Metrics!Kept : ingested[j].time \in Nat /\ ingested[j].value \in Int /\ j \in Nat
<1>1. Len(ingested) \in Nat /\ DOMAIN ingested = 1 .. Len(ingested) /\ ingested \in Seq(Metrics!Samples)
  BY LenIsNat DEF RingInv
<1>2. ring.size = IF Len(ingested) < Capacity THEN Len(ingested) ELSE Capacity
  BY DEF RingInv
<1>3. ring.size \in Nat
  BY <1>1, <1>2
<1>4. \A i \in 0 .. ring.size - 1 : Len(ingested) - i \in Metrics!Kept
  BY <1>1, <1>2, <1>3 DEF Metrics!Kept
<1>5. \A j \in Metrics!Kept : Len(ingested) - j \in 0 .. ring.size - 1
  BY <1>1, <1>2, <1>3 DEF Metrics!Kept
<1>6. \A j \in DOMAIN ingested : ingested[j] \in Metrics!Samples
  <2> DEFINE R == Metrics!Samples
  <2> HIDE DEF R
  <2>1. ingested \in Seq(R)
    BY <1>1 DEF R
  <2>2. \A j \in DOMAIN ingested : ingested[j] \in R
    BY <2>1
  <2> QED BY <2>2 DEF R
<1>7. \A j \in Metrics!Kept : ingested[j].time \in Nat /\ ingested[j].value \in Int /\ j \in Nat /\ ingested[j] # Metrics!NoSample
  <2> SUFFICES ASSUME NEW j \in Metrics!Kept
               PROVE  ingested[j].time \in Nat /\ ingested[j].value \in Int /\ j \in Nat /\ ingested[j] # Metrics!NoSample
    OBVIOUS
  <2>1. j \in DOMAIN ingested /\ j \in Nat
    BY <1>1 DEF Metrics!Kept
  <2>2. ingested[j].time \in Nat /\ ingested[j].value \in Int
    BY <1>6, <2>1 DEF Metrics!Samples
  <2>3. Metrics!NoSample.time = -1
    BY DEF Metrics!NoSample
  <2> QED BY <2>1, <2>2, <2>3
<1>8. \A i \in 0 .. ring.size - 1 : ring.samples[Metrics!Slot(ring, i)] = ingested[Len(ingested) - i]
  BY DEF RingInv
<1> QED BY <1>1, <1>3, <1>4, <1>5, <1>7, <1>8

\* The two ways to make a point make the same.
LEMMA SamePoint ==
  ASSUME RingInv, Capacity \in Nat \ {0}, Times \subseteq Nat, Values \subseteq Int, NEW from, NEW to, NEW step, NEW k
  PROVE  /\ AgePoint(from, to, step, k) = PlacePoint(from, to, step, k)
         /\ AgePoint(from, to, step, k).count > 0 <=> ByPlace(from, to, step, k) # {}
<1>1. PICK n : n = Len(ingested)
  OBVIOUS
<1>2. PICK A : A = ByAge(from, to, step, k)
  OBVIOUS
<1>3. PICK B : B = ByPlace(from, to, step, k)
  OBVIOUS
<1>4. /\ n \in Nat /\ ring.size \in Nat /\ DOMAIN ingested = 1 .. n
      /\ \A i \in 0 .. ring.size - 1 : /\ n - i \in Metrics!Kept /\ ring.samples[Metrics!Slot(ring, i)] = ingested[n - i]
                                       /\ ring.samples[Metrics!Slot(ring, i)] # Metrics!NoSample
      /\ \A j \in Metrics!Kept : n - j \in 0 .. ring.size - 1
      /\ \A j \in Metrics!Kept : ingested[j].time \in Nat /\ ingested[j].value \in Int /\ j \in Nat
  BY <1>1, AgeIsPlace
<1>5. A \subseteq 0 .. ring.size - 1 /\ B \subseteq Metrics!Kept
  BY <1>2, <1>3 DEF ByAge, Metrics!RingMatching, ByPlace, InRange
<1>6. \A i \in 0 .. ring.size - 1 : i \in A <=> n - i \in B
  BY <1>2, <1>3, <1>4 DEF ByAge, Metrics!RingMatching, ByPlace, InRange
<1>7. \A j \in B : n - j \in A /\ n - (n - j) = j
  BY <1>4, <1>5, <1>6
<1>8. IsFiniteSet(A)
  <2>1. IsFiniteSet(0 .. ring.size - 1)
    BY <1>4, FS_Interval
  <2> QED BY <1>5, <2>1, CardSub
<1>9. PICK b : b = [i \in A |-> n - i]
  OBVIOUS
<1>10. PICK d : d = [j \in B |-> n - j]
  OBVIOUS
<1>11. /\ \A i \in A : b[i] \in B /\ d[b[i]] = i
       /\ \A j \in B : d[j] \in A /\ b[d[j]] = j
  BY <1>4, <1>5, <1>6, <1>7, <1>9, <1>10
<1>12. IsFiniteSet(B) /\ Cardinality(B) = Cardinality(A) /\ Cardinality(A) \in Nat
  <2>1. \A j \in B : \E i \in A : b[i] = j
    BY <1>11
  <2>2. \A i \in A : \E j \in B : d[j] = i
    BY <1>11
  <2>3. IsFiniteSet(B) /\ Cardinality(B) <= Cardinality(A)
    BY <1>8, <2>1, CardCovered
  <2>4. Cardinality(A) <= Cardinality(B)
    BY <2>2, <2>3, CardCovered
  <2>5. Cardinality(A) \in Nat /\ Cardinality(B) \in Nat
    BY <1>8, <2>3, FS_CardinalityType
  <2> QED BY <2>3, <2>4, <2>5
<1>13. PICK f, g : f = AgeValues /\ g = PlaceValues
  OBVIOUS
<1>14. \A i \in A : f[i] \in Int /\ g[b[i]] = f[i]
  <2> SUFFICES ASSUME NEW i \in A PROVE f[i] \in Int /\ g[b[i]] = f[i]
    OBVIOUS
  <2>1. i \in 0 .. ring.size - 1 /\ b[i] = n - i /\ n - i \in Metrics!Kept /\ n - i \in DOMAIN ingested
    BY <1>4, <1>5, <1>9 DEF Metrics!Kept
  <2>2. f[i] = ring.samples[Metrics!Slot(ring, i)].value
    BY <1>13, <2>1 DEF AgeValues
  <2>3. g[b[i]] = ingested[n - i].value
    BY <1>13, <2>1 DEF PlaceValues
  <2> QED BY <1>4, <2>1, <2>2, <2>3
<1>15. SumFunctionOnSet(g, B) = SumFunctionOnSet(f, A)
  <2>1. {b[i] : i \in A} = B
    BY <1>11
  <2>2. \A x, y \in A : b[x] = b[y] => x = y
    BY <1>11
  <2>3. SumFunctionOnSet(g, {b[i] : i \in A}) = SumFunctionOnSet(f, A)
    BY <1>8, <1>14, <2>2, SumMoved
  <2> QED BY <2>1, <2>3
<1>16. AgePoint(from, to, step, k) = PlacePoint(from, to, step, k)
  BY <1>2, <1>3, <1>12, <1>13, <1>15 DEF AgePoint, PlacePoint
<1>17. Cardinality(A) > 0 <=> B # {}
  BY <1>12, FS_EmptySet
<1>18. AgePoint(from, to, step, k).count = Cardinality(A)
  BY <1>2 DEF AgePoint
<1> QED BY <1>3, <1>16, <1>17, <1>18

\* A sample of the range is of one of its steps.
LEMMA StepOfSample ==
  ASSUME NEW from \in Nat, NEW to \in Nat, NEW step \in 1 .. 2, NEW t \in Nat, from <= t, t <= to
  PROVE  Metrics!BucketOf(t, step) \in Steps(from, to, step)
<1>1. CASE step = 1
  <2>1. Metrics!BucketOf(from, 1) = from /\ Metrics!BucketOf(to, 1) = to /\ Metrics!BucketOf(t, 1) = t
    BY DEF Metrics!BucketOf
  <2>2. t - from \in 0 .. (to - from) \div 1 /\ t = from + (t - from) * 1
    OBVIOUS
  <2> QED BY <1>1, <2>1, <2>2 DEF Steps
<1>2. CASE step = 2
  <2>1. PICK x, y, z : x = from \div 2 /\ y = t \div 2 /\ z = to \div 2
    OBVIOUS
  <2>2. x \in Nat /\ y \in Nat /\ z \in Nat /\ x <= y /\ y <= z
    BY <2>1
  <2>3. Metrics!BucketOf(from, 2) = x * 2 /\ Metrics!BucketOf(to, 2) = z * 2 /\ Metrics!BucketOf(t, 2) = y * 2
    BY <2>1 DEF Metrics!BucketOf
  <2>4. y - x \in 0 .. (z * 2 - x * 2) \div 2 /\ y * 2 = x * 2 + (y - x) * 2
    BY <2>2
  <2> QED BY <1>2, <2>3, <2>4 DEF Steps
<1> QED BY <1>1, <1>2

LEMMA RingExact ==
  ASSUME RingInv, Capacity \in Nat \ {0}, Times \subseteq Nat, Values \subseteq Int
  PROVE  Metrics!QueryIsExact
<1> DEFINE Point(from, to, step, k) ==
             [at |-> k,
              count |-> Metrics!Cardinality({i \in InRange(from, to) : Metrics!BucketOf(ingested[i].time, step) = k}),
              sum |-> Metrics!SumFunctionOnSet([i \in DOMAIN ingested |-> ingested[i].value],
                        {i \in InRange(from, to) : Metrics!BucketOf(ingested[i].time, step) = k})]
           Buckets(from, to, step) == {Metrics!BucketOf(ingested[j].time, step) : j \in InRange(from, to)}
<1>8. \A from, to, step, k : Point(from, to, step, k) = PlacePoint(from, to, step, k)
  BY MetricsSum, MetricsCard DEF PlacePoint, ByPlace, PlaceValues
<1>9. (\A from, to \in Times, step \in 1 .. 2 :
         from <= to => Metrics!RingPoints(ring, from, to, step) = {Point(from, to, step, k) : k \in Buckets(from, to, step)})
      => Metrics!QueryIsExact
  BY DEF Metrics!QueryIsExact, InRange
<1> HIDE DEF Point, Buckets
<1> SUFFICES ASSUME NEW from \in Times, NEW to \in Times, NEW step \in 1 .. 2, from <= to
             PROVE  Metrics!RingPoints(ring, from, to, step) = {Point(from, to, step, k) : k \in Buckets(from, to, step)}
  BY <1>9
<1>10. {Point(from, to, step, k) : k \in Buckets(from, to, step)} = {PlacePoint(from, to, step, k) : k \in Buckets(from, to, step)}
  BY <1>8
<1>1. Metrics!RingPoints(ring, from, to, step)
      = {p \in {AgePoint(from, to, step, k) : k \in Steps(from, to, step)} : p.count > 0}
  BY MetricsSum, MetricsCard DEF Metrics!RingPoints, AgePoint, ByAge, AgeValues, Steps
<1>2. PICK K : K = {Metrics!BucketOf(ingested[j].time, step) : j \in InRange(from, to)} /\ K = Buckets(from, to, step)
  BY DEF Buckets
<1>3. PICK M : M = Steps(from, to, step)
  OBVIOUS
<1>4. \A k : k \in K <=> ByPlace(from, to, step, k) # {}
  BY <1>2 DEF ByPlace
<1>5. K \subseteq M
  <2> SUFFICES ASSUME NEW j \in InRange(from, to) PROVE Metrics!BucketOf(ingested[j].time, step) \in M
    BY <1>2
  <2>1. j \in Metrics!Kept /\ from <= ingested[j].time /\ ingested[j].time <= to
    BY DEF InRange
  <2>2. ingested[j].time \in Nat /\ from \in Nat /\ to \in Nat
    BY <2>1, AgeIsPlace
  <2> QED BY <1>3, <2>1, <2>2, StepOfSample
<1>6. \A k : /\ AgePoint(from, to, step, k) = PlacePoint(from, to, step, k)
             /\ AgePoint(from, to, step, k).count > 0 <=> k \in K
  BY <1>4, SamePoint
<1>7. {p \in {AgePoint(from, to, step, k) : k \in M} : p.count > 0} = {PlacePoint(from, to, step, k) : k \in K}
  <2> DEFINE L == {p \in {AgePoint(from, to, step, k) : k \in M} : p.count > 0}
             N == {PlacePoint(from, to, step, k) : k \in K}
  <2>1. ASSUME NEW p \in L PROVE p \in N
    <3>1. PICK k \in M : p = AgePoint(from, to, step, k) /\ p.count > 0
      BY <2>1
    <3> QED BY <1>6, <3>1
  <2>2. ASSUME NEW k \in K PROVE PlacePoint(from, to, step, k) \in L
    BY <1>5, <1>6, <2>2
  <2> QED BY <2>1, <2>2
<1> QED BY <1>1, <1>2, <1>3, <1>7, <1>10

\* What a query of the in-memory samples returns is what the last Capacity
\* samples ingested say, for every range, however often the buffer wrapped
\* around: each of them is counted in one point and one only.
THEOREM QueryCorrect ==
  ASSUME Capacity \in Nat \ {0}, Times \subseteq Nat, Values \subseteq Int
  PROVE  Metrics!Spec => []Metrics!QueryIsExact
<1>1. CASE MetricsInMemory
  <2>1. Metrics!Init => RingInv
    <3> SUFFICES ASSUME Metrics!Init PROVE RingInv
      OBVIOUS
    <3>1. PICK f : f = [i \in 0 .. Capacity - 1 |-> Metrics!NoSample]
      OBVIOUS
    <3>2. f \in [0 .. Capacity - 1 -> {Metrics!NoSample}] /\ 0 \in 0 .. Capacity - 1 /\ 0 \in 0 .. Capacity
      BY <3>1
    <3>3. ring = [samples |-> f, head |-> 0, size |-> 0] /\ ingested = <<>>
      BY <3>1 DEF Metrics!Init
    <3>4. RingShape(ring) /\ ring.size = 0
      BY <3>2, <3>3 DEF RingShape
    <3>5. ingested \in Seq(Metrics!Samples) /\ Len(ingested) = 0
      BY <3>3
    <3> QED BY <3>4, <3>5 DEF RingInv
  <2>2. RingInv /\ [Metrics!Next]_(Metrics!monVars) => RingInv'
    BY <1>1, RingStep
  <2>3. RingInv => Metrics!QueryIsExact
    BY RingExact
  <2> QED BY <2>1, <2>2, <2>3, PTL DEF Metrics!Spec
<1>2. CASE ~MetricsInMemory
  <2>1. Metrics!QueryIsExact
    BY <1>2 DEF Metrics!QueryIsExact
  <2> QED BY <2>1, PTL
<1> QED BY <1>1, <1>2

-----------------------------------------------------------------------------
(***************************************************************************)
(* Backups and keys. While the store keeps what it is given, a system that *)
(* has a verified backup keeps one: deletion in memory refuses the         *)
(* last. Two facts carry it: a record that is verified, or about to be     *)
(* marked so by a check that has read the store, has its artifact for as   *)
(* long as the record is there, and no record is verified before its       *)
(* artifact is put.                                                        *)
(*                                                                         *)
(* Of the keys of one type, at most one is active, and one more for every  *)
(* error that a rotation dropped: whichever key GetActive finds, the other *)
(* active ones are no more than those errors.                              *)
(***************************************************************************)
\* The cardinality that the module refers to is that of FiniteSets.
LEMMA PointsCard ==
  ASSUME NEW S
  PROVE  Points!Cardinality(S) = Cardinality(S)
BY DEF Cardinality, Points!Cardinality

BakStatus == {"none", "running", "verified", "failed"}

RecordType == [status : BakStatus, protected : BOOLEAN]

AnyBackup == BackupIds \cup {CHOOSE b \in BackupIds : TRUE}

CheckerType == [pc : {"idle", "get", "good", "bad", "plan", "row", "data", "completed", "failed"}, op : {"none", "verify", "dry", "restore"},
                backup : AnyBackup]

DeleterType == [pc : {"idle", "delete", "object"}, todo : SUBSET BackupIds, seen : RecordType]

CreatorPcs == {"idle", "put", "read", "get", "good", "bad", "undo", "count", "protect", "created", "failed"}

BakType ==
  /\ record \in [BackupIds -> RecordType]
  /\ object \in [BackupIds -> {"none", "good", "bad"}]
  /\ creator \in [BackupIds -> CreatorPcs]
  /\ checker \in [Checkers -> CheckerType]
  /\ deleter \in [Deleters -> DeleterType]
  /\ faults \in Nat /\ blamed \in BOOLEAN /\ marked \in BOOLEAN

\* CreateBackup has not put the artifact yet.
Unput(b) == creator[b] \in {"idle", "put"}

\* What holds of one backup while the store keeps what it is given.
ArtifactSound(b) ==
  /\ Unput(b) => object[b] = "none" /\ record[b].status # "verified"
  /\ (faults = 0 /\ Points!Exists(b) /\ creator[b] \in {"read", "get", "good"}) => object[b] = "good"
  /\ (faults = 0 /\ record[b].status = "verified") => object[b] = "good"

\* A check that found the artifact good: it is good for as long as there is
\* a record to mark.
CheckSound(c) ==
  /\ checker[c].pc # "idle" => checker[c].backup \in BackupIds
  /\ checker[c].pc = "good" =>
       /\ ~Unput(checker[c].backup)
       /\ (faults = 0 /\ Points!Exists(checker[c].backup)) => object[checker[c].backup] = "good"

SomeVerified == \E b \in BackupIds : record[b].status = "verified"

BakInv ==
  /\ BakType
  /\ \A b \in BackupIds : ArtifactSound(b)
  /\ \A c \in Checkers : CheckSound(c)
  /\ (faults = 0 /\ ~blamed /\ marked) => SomeVerified

LEMMA UpdatedStatus ==
  ASSUME record \in [BackupIds -> RecordType], NEW b \in BackupIds, NEW s \in BakStatus \ {"none"}, NEW ok \in BOOLEAN
  PROVE  /\ Points!UpdateStatus(b, s, ok) \in [BackupIds -> RecordType]
         /\ Points!UpdateStatus(b, s, ok)[b].status = IF ok /\ Points!Exists(b) THEN s ELSE record[b].status
         /\ \A x \in BackupIds : x # b => Points!UpdateStatus(b, s, ok)[x] = record[x]
<1>1. record[b] \in RecordType
  OBVIOUS
<1> DEFINE new == [record[b] EXCEPT !.status = s]
<1>2. new \in RecordType /\ new.status = s
  BY <1>1 DEF RecordType
<1>3. CASE ok /\ Points!Exists(b)
  <2>1. Points!UpdateStatus(b, s, ok) = [record EXCEPT ![b] = new]
    BY <1>3 DEF Points!UpdateStatus
  <2> HIDE DEF new
  <2> QED BY <1>2, <1>3, <2>1
<1>4. CASE ~(ok /\ Points!Exists(b))
  BY <1>4 DEF Points!UpdateStatus
<1> QED BY <1>3, <1>4

\* What a mark does to the table and to what is remembered.
LEMMA Marked ==
  ASSUME BakInv, NEW b \in BackupIds, NEW verdict \in {"good", "bad"}, NEW ok \in BOOLEAN,
         Points!Mark(b, verdict, ok), faults' = faults
  PROVE  /\ record' \in [BackupIds -> RecordType]
         /\ record'[b].status = IF ok /\ Points!Exists(b) THEN (IF verdict = "good" THEN "verified" ELSE "failed")
                                ELSE record[b].status
         /\ \A x \in BackupIds : x # b => record'[x] = record[x]
         /\ \A x \in BackupIds : Points!Exists(x)' <=> Points!Exists(x)
         /\ blamed' \in BOOLEAN /\ marked' \in BOOLEAN
         /\ (faults' = 0 /\ ~blamed' /\ marked') => SomeVerified'
<1>1. record \in [BackupIds -> RecordType] /\ blamed \in BOOLEAN /\ marked \in BOOLEAN
  BY DEF BakInv, BakType
<1>2. PICK s : s = IF verdict = "good" THEN "verified" ELSE "failed"
  OBVIOUS
<1>3. s \in BakStatus \ {"none"}
  BY <1>2 DEF BakStatus
<1>4. record' = Points!UpdateStatus(b, s, ok)
  BY <1>2 DEF Points!Mark
<1>5. /\ record' \in [BackupIds -> RecordType]
      /\ record'[b].status = IF ok /\ Points!Exists(b) THEN s ELSE record[b].status
      /\ \A x \in BackupIds : x # b => record'[x] = record[x]
  BY <1>1, <1>3, <1>4, UpdatedStatus
<1>6. \A x \in BackupIds : Points!Exists(x)' <=> Points!Exists(x)
  BY <1>3, <1>5 DEF Points!Exists
<1>7. /\ marked' = (marked \/ (ok /\ Points!Exists(b) /\ verdict = "good"))
      /\ blamed' = (blamed \/ verdict = "bad")
  BY DEF Points!Mark
<1>8. blamed' \in BOOLEAN /\ marked' \in BOOLEAN
  BY <1>7
<1>9. (faults' = 0 /\ ~blamed' /\ marked') => SomeVerified'
  <2>1. CASE verdict = "bad"
    BY <1>7, <2>1
  <2>2. CASE verdict = "good"
    <3>1. s = "verified"
      BY <1>2, <2>2
    <3>2. CASE ok /\ Points!Exists(b)
      BY <1>5, <3>1, <3>2 DEF SomeVerified
    <3>3. CASE ~(ok /\ Points!Exists(b))
      <4>1. \A x \in BackupIds : record'[x].status = record[x].status
        BY <1>5, <3>3
      <4> QED BY <1>7, <2>2, <3>3, <4>1 DEF BakInv, SomeVerified
    <3> QED BY <3>2, <3>3
  <2> QED BY <2>1, <2>2
<1> QED BY <1>2, <1>5, <1>6, <1>8, <1>9

\* A step that changes the record, the artifact and the progress of one
\* backup alone, no call of a checker, and loses no artifact.
LEMMA OneBackup ==
  ASSUME BakInv, NEW b \in BackupIds,
         record' \in [BackupIds -> RecordType],
         object' \in [BackupIds -> {"none", "good", "bad"}],
         creator' \in [BackupIds -> CreatorPcs],
         deleter' \in [Deleters -> DeleterType],
         checker' = checker, faults' = faults, blamed' \in BOOLEAN, marked' \in BOOLEAN,
         \A x \in BackupIds : x # b => record'[x] = record[x] /\ object'[x] = object[x] /\ creator'[x] = creator[x],
         ArtifactSound(b)',
         Unput(b)' => Unput(b),
         Points!Exists(b)' /\ ~Unput(b) => Points!Exists(b),
         (faults = 0 /\ Points!Exists(b)' /\ object[b] = "good") => object'[b] = "good",
         (faults' = 0 /\ ~blamed' /\ marked') => SomeVerified'
  PROVE  BakInv'
<1>1. BakType /\ BakType'
  BY DEF BakInv, BakType
<1>2. ASSUME NEW x \in BackupIds PROVE ArtifactSound(x)'
  <2>1. CASE x = b
    BY <2>1
  <2>2. CASE x # b
    BY <2>2 DEF BakInv, ArtifactSound, Unput, Points!Exists
  <2> QED BY <2>1, <2>2
<1>3. ASSUME NEW c \in Checkers PROVE CheckSound(c)'
  <2>1. CheckSound(c)
    BY DEF BakInv
  <2>2. CASE checker[c].backup = b
    BY <2>1, <2>2 DEF CheckSound, Unput, Points!Exists
  <2>3. CASE checker[c].backup # b
    BY <2>1, <2>3 DEF CheckSound, Unput, Points!Exists
  <2> QED BY <2>2, <2>3
<1> QED BY <1>1, <1>2, <1>3 DEF BakInv

\* A step of a checker that marks no record.
LEMMA OneChecker ==
  ASSUME BakInv, NEW c \in Checkers, checker' \in [Checkers -> CheckerType],
         \A x \in Checkers : x # c => checker'[x] = checker[x], CheckSound(c)',
         UNCHANGED <<record, object, creator, deleter, faults, blamed, marked>>
  PROVE  BakInv'
<1>1. /\ record' = record /\ object' = object /\ creator' = creator /\ deleter' = deleter
      /\ faults' = faults /\ blamed' = blamed /\ marked' = marked
  OBVIOUS
<1>2. BakType'
  BY <1>1 DEF BakInv, BakType
<1>3. \A b \in BackupIds : ArtifactSound(b)'
  BY <1>1 DEF BakInv, ArtifactSound, Unput, Points!Exists
<1>4. ASSUME NEW x \in Checkers PROVE CheckSound(x)'
  BY <1>1 DEF BakInv, CheckSound, Unput, Points!Exists
<1>5. (faults = 0 /\ ~blamed /\ marked)' => SomeVerified'
  BY <1>1 DEF BakInv, SomeVerified
<1> QED BY <1>2, <1>3, <1>4, <1>5 DEF BakInv

LEMMA AfterTyped ==
  ASSUME deleter \in [Deleters -> DeleterType], NEW d \in Deleters, NEW b
  PROVE  Points!After(d, b) \in DeleterType
<1>1. deleter[d].todo \subseteq BackupIds
  BY DEF DeleterType
<1>2. Points!NoRecord \in RecordType
  BY DEF Points!NoRecord, RecordType, BakStatus
<1>3. Points!NoDelete = [pc |-> "idle", todo |-> {}, seen |-> Points!NoRecord]
  BY DEF Points!NoDelete
<1>4. Points!NoDelete \in DeleterType
  BY <1>2, <1>3 DEF DeleterType
<1>5. [Points!NoDelete EXCEPT !.pc = "delete", !.todo = deleter[d].todo \ {b}] \in DeleterType
  BY <1>1, <1>4 DEF DeleterType
<1> QED BY <1>4, <1>5 DEF Points!After

LEMMA CreateStep ==
  ASSUME BakInv, NEW b \in BackupIds, NEW ok \in BOOLEAN,
         \/ Points!CreateRecord(b) \/ Points!Put(b, ok) \/ Points!CreateReads(b, ok) \/ Points!CreateGets(b)
         \/ Points!CreateMarks(b, ok) \/ Points!CreateFails(b, ok) \/ Points!CreateCounts(b, ok)
         \/ Points!CreateProtects(b, ok)
  PROVE  BakInv'
<1>1. /\ record \in [BackupIds -> RecordType] /\ deleter \in [Deleters -> DeleterType]
      /\ object \in [BackupIds -> {"none", "good", "bad"}] /\ creator \in [BackupIds -> CreatorPcs]
      /\ blamed \in BOOLEAN /\ marked \in BOOLEAN
  BY DEF BakInv, BakType
<1>2. checker' = checker /\ deleter' = deleter /\ faults' = faults
  BY DEF Points!CreateRecord, Points!Put, Points!CreateReads, Points!CreateGets, Points!CreateMarks,
    Points!CreateFails, Points!CreateCounts, Points!CreateProtects, Points!recordRest
<1>3. ArtifactSound(b) /\ ((faults = 0 /\ ~blamed /\ marked) => SomeVerified)
  BY DEF BakInv
<1>4. PICK pc \in CreatorPcs :
        /\ creator' = [creator EXCEPT ![b] = pc]
        /\ Points!CreateRecord(b) => pc = "put"
        /\ pc = "put" => creator[b] = "idle"
        /\ pc # "idle" /\ (pc = "read" => creator[b] = "put" /\ object' = [object EXCEPT ![b] = "good"])
        /\ pc = "get" => creator[b] = "read" /\ object' = object /\ record' = record
        /\ pc = "good" => creator[b] = "get" /\ object' = object /\ record' = record
  BY DEF Points!CreateRecord, Points!Put, Points!CreateReads, Points!CreateGets, Points!CreateMarks,
    Points!CreateFails, Points!CreateCounts, Points!CreateProtects, CreatorPcs
<1>5. /\ creator' \in [BackupIds -> CreatorPcs] /\ creator'[b] = pc
      /\ \A x \in BackupIds : x # b => creator'[x] = creator[x]
  BY <1>1, <1>4
<1>6. Unput(b)' => Unput(b)
  BY <1>4, <1>5 DEF Unput
<1>7. CASE Points!CreateRecord(b)
  <2> DEFINE new == [status |-> "running", protected |-> FALSE]
  <2>1. new \in RecordType /\ new.status = "running"
    BY DEF RecordType, BakStatus
  <2>2. record' = [record EXCEPT ![b] = new] /\ object' = object /\ creator[b] = "idle"
        /\ blamed' = blamed /\ marked' = marked
    BY <1>7 DEF Points!CreateRecord
  <2> HIDE DEF new
  <2>3. /\ record' \in [BackupIds -> RecordType] /\ record'[b].status = "running"
        /\ \A x \in BackupIds : x # b => record'[x] = record[x]
    BY <1>1, <2>1, <2>2
  <2>4. ArtifactSound(b)' /\ Unput(b) /\ record[b].status # "verified"
    BY <1>3, <1>4, <1>5, <1>7, <2>2, <2>3 DEF ArtifactSound, Unput
  <2>5. (faults' = 0 /\ ~blamed' /\ marked') => SomeVerified'
    BY <1>2, <1>3, <2>2, <2>3, <2>4 DEF SomeVerified
  <2> QED BY <1>1, <1>2, <1>5, <1>6, <2>2, <2>3, <2>4, <2>5, OneBackup
<1>8. CASE Points!Put(b, ok)
  <2>1. /\ creator[b] = "put" /\ Unput(b) /\ record' = record /\ blamed' = blamed /\ marked' = marked
        /\ object' = IF ok THEN [object EXCEPT ![b] = "good"] ELSE object
        /\ pc = IF ok THEN "read" ELSE "undo"
    BY <1>1, <1>4, <1>8 DEF Points!Put, Unput
  <2>2. /\ object' \in [BackupIds -> {"none", "good", "bad"}] /\ (ok => object'[b] = "good")
        /\ (~ok => object'[b] = object[b])
        /\ \A x \in BackupIds : x # b => object'[x] = object[x]
    BY <1>1, <2>1
  <2>3. ArtifactSound(b)' /\ ~Unput(b)'
    BY <1>3, <1>5, <2>1, <2>2 DEF ArtifactSound, Unput
  <2>4. (faults' = 0 /\ ~blamed' /\ marked') => SomeVerified'
    BY <1>2, <1>3, <2>1 DEF SomeVerified
  <2> QED BY <1>1, <1>2, <1>5, <2>1, <2>2, <2>3, <2>4, OneBackup
<1>9. CASE Points!CreateReads(b, ok) \/ Points!CreateGets(b) \/ Points!CreateCounts(b, ok)
  <2>1. record' = record /\ object' = object /\ blamed' = blamed /\ marked' = marked /\ ~Unput(b)
    BY <1>9 DEF Points!CreateReads, Points!CreateGets, Points!CreateCounts, Unput
  <2>2. ArtifactSound(b)' /\ (Points!Exists(b)' => Points!Exists(b))
    <3>1. ~Unput(b)' /\ (pc \in {"read", "get", "good"} => creator[b] \in {"read", "get", "good"})
      BY <1>4, <1>5, <1>6, <2>1 DEF Unput
    <3> QED BY <1>2, <1>3, <1>5, <2>1, <3>1 DEF ArtifactSound, Points!Exists
  <2>3. (faults' = 0 /\ ~blamed' /\ marked') => SomeVerified'
    BY <1>2, <1>3, <2>1 DEF SomeVerified
  <2> QED BY <1>1, <1>2, <1>5, <1>6, <2>1, <2>2, <2>3, OneBackup
<1>10. CASE Points!CreateMarks(b, ok) \/ Points!CreateFails(b, ok)
  <2>1. PICK verdict \in {"good", "bad"} :
          Points!Mark(b, verdict, ok) /\ (verdict = "good" => creator[b] = "good")
    BY <1>10 DEF Points!CreateMarks, Points!CreateFails
  <2>2. object' = object /\ pc \notin {"idle", "put", "read", "get", "good"} /\ ~Unput(b)
    BY <1>1, <1>4, <1>10 DEF Points!CreateMarks, Points!CreateFails, Unput
  <2>3. /\ record' \in [BackupIds -> RecordType]
        /\ record'[b].status = IF ok /\ Points!Exists(b) THEN (IF verdict = "good" THEN "verified" ELSE "failed")
                               ELSE record[b].status
        /\ \A x \in BackupIds : x # b => record'[x] = record[x]
        /\ Points!Exists(b)' => Points!Exists(b)
        /\ blamed' \in BOOLEAN /\ marked' \in BOOLEAN
        /\ (faults' = 0 /\ ~blamed' /\ marked') => SomeVerified'
    BY <1>2, <2>1, Marked
  <2>4. ArtifactSound(b)'
    BY <1>2, <1>3, <1>5, <2>1, <2>2, <2>3 DEF ArtifactSound, Unput
  <2> QED BY <1>1, <1>2, <1>5, <1>6, <2>2, <2>3, <2>4, OneBackup
<1>11. CASE Points!CreateProtects(b, ok)
  <2>1. /\ creator[b] = "protect" /\ object' = object /\ record' = Points!SetProtectedPoint(b, ok)
        /\ blamed' = blamed /\ marked' = marked /\ pc = "created"
    BY <1>1, <1>4, <1>11 DEF Points!CreateProtects
  <2>2. /\ record' \in [BackupIds -> RecordType] /\ record'[b].status = record[b].status
        /\ \A x \in BackupIds : x # b => record'[x] = record[x]
    <3>1. CASE ok /\ Points!Exists(b)
      <4> DEFINE new == [record[b] EXCEPT !.protected = TRUE]
      <4>1. record[b] \in RecordType
        BY <1>1
      <4>2. new \in RecordType /\ new.status = record[b].status
        BY <4>1 DEF RecordType
      <4>3. record' = [record EXCEPT ![b] = new]
        BY <2>1, <3>1 DEF Points!SetProtectedPoint
      <4> HIDE DEF new
      <4> QED BY <1>1, <4>2, <4>3
    <3>2. CASE ~(ok /\ Points!Exists(b))
      BY <1>1, <2>1, <3>2 DEF Points!SetProtectedPoint
    <3> QED BY <3>1, <3>2
  <2>3. ArtifactSound(b)' /\ ~Unput(b)' /\ (Points!Exists(b)' => Points!Exists(b))
    BY <1>2, <1>3, <1>5, <2>1, <2>2 DEF ArtifactSound, Unput, Points!Exists
  <2>4. (faults' = 0 /\ ~blamed' /\ marked') => SomeVerified'
    BY <1>2, <1>3, <2>1, <2>2 DEF SomeVerified
  <2> QED BY <1>1, <1>2, <1>5, <2>1, <2>2, <2>3, <2>4, OneBackup
<1> QED BY <1>7, <1>8, <1>9, <1>10, <1>11

LEMMA FaultStep ==
  ASSUME BakInv, NEW b \in BackupIds, Points!Fault(b)
  PROVE  BakInv'
<1>1. PICK s \in {"none", "bad"} : object' = [object EXCEPT ![b] = s]
  BY DEF Points!Fault
<1>2. /\ faults' = faults + 1 /\ record' = record /\ creator' = creator /\ checker' = checker
      /\ deleter' = deleter /\ blamed' = blamed /\ marked' = marked /\ object[b] = "good"
  BY DEF Points!Fault
<1>3. BakType
  BY DEF BakInv
<1>4. object \in [BackupIds -> {"none", "good", "bad"}] /\ faults \in Nat
  BY <1>3 DEF BakType
<1>5. object' \in [BackupIds -> {"none", "good", "bad"}] /\ faults' \in Nat /\ faults' # 0
  BY <1>1, <1>2, <1>4
<1>6. BakType'
  BY <1>2, <1>3, <1>5 DEF BakType
<1>7. \A x \in BackupIds : ArtifactSound(x)'
  BY <1>1, <1>2, <1>4, <1>5 DEF BakInv, ArtifactSound, Unput
<1>8. \A c \in Checkers : CheckSound(c)'
  BY <1>2, <1>5 DEF BakInv, CheckSound, Unput
<1> QED BY <1>5, <1>6, <1>7, <1>8 DEF BakInv

LEMMA CheckStep ==
  ASSUME BakInv, NEW c \in Checkers,
         \/ \E op \in {"verify", "dry", "restore"}, b \in BackupIds : Points!VerifyReads(c, op, b)
         \/ Points!VerifyBackup(c)
         \/ \E ok \in BOOLEAN : \/ Points!VerifyWrites(c, ok) \/ Points!RestoreReads(c, ok)
                                \/ Points!DownloadBackup(c, ok) \/ Points!SaveRestorePlan(c, ok)
  PROVE  BakInv'
<1>1. /\ checker \in [Checkers -> CheckerType] /\ record \in [BackupIds -> RecordType]
      /\ deleter \in [Deleters -> DeleterType] /\ blamed \in BOOLEAN
  BY DEF BakInv, BakType
<1>2. checker[c] \in CheckerType /\ CheckSound(c)
  BY <1>1 DEF BakInv
<1>3. ASSUME NEW op \in {"verify", "dry", "restore"}, NEW b \in BackupIds, Points!VerifyReads(c, op, b)
      PROVE  BakInv'
  <2> DEFINE new == [pc |-> "get", op |-> op, backup |-> b]
  <2>1. new \in CheckerType /\ new.pc = "get" /\ new.backup = b
    BY DEF CheckerType, AnyBackup
  <2>2. /\ checker' = [checker EXCEPT ![c] = new]
        /\ UNCHANGED <<record, object, creator, deleter, faults, blamed, marked>>
    BY <1>3 DEF Points!VerifyReads, Points!checkRest
  <2> HIDE DEF new
  <2>3. /\ checker' \in [Checkers -> CheckerType] /\ checker'[c] = new
        /\ \A x \in Checkers : x # c => checker'[x] = checker[x]
    BY <1>1, <2>1, <2>2
  <2>4. CheckSound(c)'
    BY <2>1, <2>3 DEF CheckSound
  <2> QED BY <2>2, <2>3, <2>4, OneChecker
<1>4. CASE Points!VerifyBackup(c)
  <2> DEFINE p == IF Points!Get(checker[c].backup) THEN "good" ELSE "bad"
  <2> DEFINE new == [checker[c] EXCEPT !.pc = p]
  <2>1. new \in CheckerType /\ new.pc = p /\ new.backup = checker[c].backup
    BY <1>2 DEF CheckerType
  <2>2. /\ checker' = [checker EXCEPT ![c] = new] /\ checker[c].pc = "get"
        /\ UNCHANGED <<record, object, creator, deleter, faults, blamed, marked>>
    BY <1>4 DEF Points!VerifyBackup, Points!checkRest
  <2> HIDE DEF new
  <2>3. /\ checker' \in [Checkers -> CheckerType] /\ checker'[c] = new
        /\ \A x \in Checkers : x # c => checker'[x] = checker[x]
    BY <1>1, <2>1, <2>2
  <2>4. PICK b : b = checker[c].backup
    OBVIOUS
  <2>5. b \in BackupIds /\ checker'[c].backup = b /\ ArtifactSound(b) /\ (checker'[c].pc = "good" => object[b] = "good")
    BY <1>2, <2>1, <2>2, <2>3, <2>4 DEF CheckSound, BakInv, Points!Get
  <2>6. (object[b] = "good" => ~Unput(b)) /\ (Unput(b)' <=> Unput(b)) /\ object' = object
    BY <2>2, <2>5 DEF ArtifactSound, Unput
  <2>7. CheckSound(c)'
    BY <2>5, <2>6 DEF CheckSound
  <2> QED BY <2>2, <2>3, <2>7, OneChecker
<1>5. ASSUME NEW ok \in BOOLEAN, Points!VerifyWrites(c, ok) PROVE BakInv'
  <2> DEFINE p == IF checker[c].pc = "good" /\ checker[c].op # "verify" THEN "plan" ELSE "idle"
  <2> DEFINE new == [checker[c] EXCEPT !.pc = p]
  <2>0. PICK b, verdict : b = checker[c].backup /\ verdict = checker[c].pc
    OBVIOUS
  <2>1. new \in CheckerType /\ new.pc \in {"plan", "idle"} /\ new.backup = b
    BY <1>2, <2>0 DEF CheckerType
  <2>2. /\ checker' = [checker EXCEPT ![c] = new] /\ verdict \in {"good", "bad"} /\ Points!Mark(b, verdict, ok)
        /\ object' = object /\ creator' = creator /\ deleter' = deleter /\ faults' = faults
    BY <1>5, <2>0 DEF Points!VerifyWrites, Points!checkRest
  <2> HIDE DEF new
  <2>3. /\ checker' \in [Checkers -> CheckerType] /\ checker'[c] = new
        /\ \A x \in Checkers : x # c => checker'[x] = checker[x]
    BY <1>1, <2>1, <2>2
  <2>4. b \in BackupIds
    BY <1>2, <2>0, <2>2 DEF CheckSound
  <2>5. /\ record' \in [BackupIds -> RecordType]
        /\ record'[b].status = IF ok /\ Points!Exists(b) THEN (IF verdict = "good" THEN "verified" ELSE "failed")
                               ELSE record[b].status
        /\ \A x \in BackupIds : x # b => record'[x] = record[x]
        /\ \A x \in BackupIds : Points!Exists(x)' <=> Points!Exists(x)
        /\ blamed' \in BOOLEAN /\ marked' \in BOOLEAN
        /\ (faults' = 0 /\ ~blamed' /\ marked') => SomeVerified'
    BY <2>2, <2>4, Marked
  <2>6. BakType'
    BY <1>1, <2>2, <2>3, <2>5 DEF BakInv, BakType
  <2>7. ASSUME NEW x \in BackupIds PROVE ArtifactSound(x)'
    <3>1. CASE x = b
      <4>1. ArtifactSound(b) /\ (verdict = "good" => ~Unput(b)
              /\ ((faults = 0 /\ Points!Exists(b)) => object[b] = "good"))
        BY <1>2, <2>0, <2>4 DEF BakInv, CheckSound
      <4> QED BY <2>2, <2>5, <3>1, <4>1 DEF ArtifactSound, Unput
    <3>2. CASE x # b
      BY <2>2, <2>5, <3>2 DEF BakInv, ArtifactSound, Unput
    <3> QED BY <3>1, <3>2
  <2>8. ASSUME NEW x \in Checkers PROVE CheckSound(x)'
    <3>1. CASE x = c
      BY <2>1, <2>3, <2>4, <3>1 DEF CheckSound
    <3>2. CASE x # c
      <4>1. CheckSound(x) /\ checker'[x] = checker[x]
        BY <2>3, <3>2 DEF BakInv
      <4> QED BY <2>2, <2>5, <4>1 DEF CheckSound, Unput
    <3> QED BY <3>1, <3>2
  <2> QED BY <2>5, <2>6, <2>7, <2>8 DEF BakInv
<1>6. ASSUME NEW ok \in BOOLEAN,
             Points!RestoreReads(c, ok) \/ Points!DownloadBackup(c, ok) \/ Points!SaveRestorePlan(c, ok)
      PROVE  BakInv'
  <2>1. PICK p \in {"idle", "row", "data", "completed", "failed"} :
          /\ checker' = [checker EXCEPT ![c] = [checker[c] EXCEPT !.pc = p]] /\ checker[c].pc # "idle"
          /\ UNCHANGED <<record, object, creator, deleter, faults, blamed, marked>>
    BY <1>6 DEF Points!RestoreReads, Points!DownloadBackup, Points!SaveRestorePlan, Points!checkRest
  <2> DEFINE new == [checker[c] EXCEPT !.pc = p]
  <2>2. new \in CheckerType /\ new.pc = p /\ new.backup = checker[c].backup
    BY <1>2, <2>1 DEF CheckerType
  <2>3. checker' = [checker EXCEPT ![c] = new]
    BY <2>1
  <2> HIDE DEF new
  <2>4. /\ checker' \in [Checkers -> CheckerType] /\ checker'[c] = new
        /\ \A x \in Checkers : x # c => checker'[x] = checker[x]
    BY <1>1, <2>2, <2>3
  <2>5. CheckSound(c)'
    BY <1>2, <2>1, <2>2, <2>4 DEF CheckSound
  <2> QED BY <2>1, <2>4, <2>5, OneChecker
<1> QED BY <1>3, <1>4, <1>5, <1>6

LEMMA DeleteStep ==
  ASSUME BakInv, RecordsInMemory, NEW d \in Deleters,
         \/ Points!ApplyRetentionPolicy(d)
         \/ \E b \in BackupIds :
              \/ Points!DeleteBackup(d, b) \/ Points!MemDelete(d, b) \/ Points!SqlDeleteReads(d, b) \/ Points!SqlDeleteCounts(d, b)
              \/ Points!SqlDelete(d, b) \/ Points!StorageDelete(d, b)
  PROVE  BakInv'
<1>1. /\ record \in [BackupIds -> RecordType] /\ deleter \in [Deleters -> DeleterType]
      /\ object \in [BackupIds -> {"none", "good", "bad"}]
      /\ creator \in [BackupIds -> CreatorPcs]
  BY DEF BakInv, BakType
<1>2. deleter[d] \in DeleterType /\ Points!NoRecord \in RecordType /\ Points!NoRecord.status = "none"
  BY <1>1 DEF Points!NoRecord, RecordType, BakStatus
<1>3. ASSUME deleter' \in [Deleters -> DeleterType],
             UNCHANGED <<record, object, creator, checker, faults, blamed, marked>>
      PROVE  BakInv'
  <2>1. /\ record' = record /\ object' = object /\ creator' = creator /\ checker' = checker
        /\ faults' = faults /\ blamed' = blamed /\ marked' = marked
    BY <1>3
  <2>2. BakType'
    BY <1>3, <2>1 DEF BakInv, BakType
  <2>3. \A b \in BackupIds : ArtifactSound(b)'
    BY <2>1 DEF BakInv, ArtifactSound, Unput, Points!Exists
  <2>4. \A c \in Checkers : CheckSound(c)'
    BY <2>1 DEF BakInv, CheckSound, Unput, Points!Exists
  <2>5. (faults = 0 /\ ~blamed /\ marked)' => SomeVerified'
    BY <2>1 DEF BakInv, SomeVerified
  <2> QED BY <2>2, <2>3, <2>4, <2>5 DEF BakInv
<1>4. ASSUME NEW todo \in SUBSET BackupIds,
             deleter' = [deleter EXCEPT ![d] = [Points!NoDelete EXCEPT !.pc = "delete", !.todo = todo]]
      PROVE  deleter' \in [Deleters -> DeleterType]
  <2>0. Points!NoDelete = [pc |-> "idle", todo |-> {}, seen |-> Points!NoRecord]
    BY DEF Points!NoDelete
  <2>1. Points!NoDelete \in DeleterType
    BY <1>2, <2>0 DEF DeleterType
  <2>2. [Points!NoDelete EXCEPT !.pc = "delete", !.todo = todo] \in DeleterType
    BY <1>2, <2>1 DEF DeleterType
  <2> QED BY <1>1, <1>4, <2>2
<1>5. CASE Points!ApplyRetentionPolicy(d)
  <2>1. PICK todo \in SUBSET BackupIds :
          deleter' = [deleter EXCEPT ![d] = [Points!NoDelete EXCEPT !.pc = "delete", !.todo = todo]]
    BY <1>5 DEF Points!ApplyRetentionPolicy
  <2> QED BY <1>3, <1>4, <1>5, <2>1 DEF Points!ApplyRetentionPolicy, Points!delRest
<1>6. ASSUME NEW b \in BackupIds, Points!DeleteBackup(d, b) PROVE BakInv'
  <2>1. deleter' = [deleter EXCEPT ![d] = [Points!NoDelete EXCEPT !.pc = "delete", !.todo = {b}]] /\ {b} \in SUBSET BackupIds
    BY <1>6 DEF Points!DeleteBackup
  <2> QED BY <1>3, <1>4, <1>6, <2>1 DEF Points!DeleteBackup, Points!delRest
<1>7. ASSUME NEW b \in BackupIds PROVE ~Points!SqlDeleteReads(d, b) /\ ~Points!SqlDeleteCounts(d, b) /\ ~Points!SqlDelete(d, b)
  BY <1>2 DEF Points!SqlDeleteReads, Points!SqlDeleteCounts, Points!SqlDelete, DeleterType
<1>8. ASSUME NEW b \in BackupIds, Points!MemDelete(d, b) PROVE BakInv'
  <2>1. CASE ~Points!Exists(b) \/ Points!Refused(record[b], Points!OthersVerified(b))
    <3>1. record' = record /\ deleter' = [deleter EXCEPT ![d] = Points!After(d, b)]
      BY <1>8, <2>1 DEF Points!MemDelete
    <3>2. deleter' \in [Deleters -> DeleterType]
      BY <1>1, <3>1, AfterTyped
    <3> QED BY <1>3, <1>8, <3>1, <3>2 DEF Points!MemDelete, Points!delRest
  <2>2. CASE ~(~Points!Exists(b) \/ Points!Refused(record[b], Points!OthersVerified(b)))
    <3> DEFINE new == [deleter[d] EXCEPT !.pc = "object"]
    <3>1. new \in DeleterType
      BY <1>2 DEF DeleterType
    <3>2. /\ record' = [record EXCEPT ![b] = Points!NoRecord] /\ deleter' = [deleter EXCEPT ![d] = new]
          /\ object' = object /\ creator' = creator /\ checker' = checker /\ faults' = faults
          /\ blamed' = blamed /\ marked' = marked
      BY <1>8, <2>2 DEF Points!MemDelete, Points!delRest
    <3> HIDE DEF new
    <3>3. deleter' \in [Deleters -> DeleterType]
      BY <1>1, <3>1, <3>2
    <3>4. /\ record' \in [BackupIds -> RecordType] /\ record'[b].status = "none"
          /\ \A x \in BackupIds : x # b => record'[x] = record[x]
      BY <1>1, <1>2, <3>2
    <3>5. ArtifactSound(b)' /\ ~Points!Exists(b)'
      BY <3>2, <3>4 DEF BakInv, ArtifactSound, Points!Exists, Unput
    <3>6. SomeVerified => SomeVerified'
      <4>1. CASE record[b].status # "verified"
        BY <3>4, <4>1 DEF SomeVerified
      <4>2. CASE record[b].status = "verified"
        <5>1. Cardinality({c \in BackupIds \ {b} : record[c].status = "verified"}) # 0
          BY <2>2, <4>2, PointsCard DEF Points!Refused, Points!OthersVerified
        <5>2. {c \in BackupIds \ {b} : record[c].status = "verified"} # {}
          BY <5>1, FS_EmptySet
        <5> QED BY <3>4, <5>2 DEF SomeVerified
      <4> QED BY <4>1, <4>2
    <3>7. (faults' = 0 /\ ~blamed' /\ marked') => SomeVerified'
      BY <3>2, <3>6 DEF BakInv
    <3>8. (Unput(b)' => Unput(b)) /\ blamed \in BOOLEAN /\ marked \in BOOLEAN
      BY <3>2 DEF Unput, BakInv, BakType
    <3> QED BY <1>1, <3>2, <3>3, <3>4, <3>5, <3>7, <3>8, OneBackup
  <2> QED BY <2>1, <2>2
<1>9. ASSUME NEW b \in BackupIds, Points!StorageDelete(d, b) PROVE BakInv'
  <2>1. /\ object' = [object EXCEPT ![b] = "none"] /\ deleter' = [deleter EXCEPT ![d] = Points!After(d, b)]
        /\ record' = record /\ creator' = creator /\ checker' = checker /\ faults' = faults
        /\ blamed' = blamed /\ marked' = marked /\ ~Points!Exists(b)
    BY <1>9 DEF Points!StorageDelete, Points!delRest
  <2>2. deleter' \in [Deleters -> DeleterType]
    BY <1>1, <2>1, AfterTyped
  <2>3. /\ object' \in [BackupIds -> {"none", "good", "bad"}] /\ object'[b] = "none"
        /\ \A x \in BackupIds : x # b => object'[x] = object[x]
    BY <1>1, <2>1
  <2>4. ArtifactSound(b)' /\ (Unput(b)' => Unput(b)) /\ ~Points!Exists(b)'
    BY <2>1, <2>3 DEF BakInv, ArtifactSound, Points!Exists, Unput
  <2>5. (faults' = 0 /\ ~blamed' /\ marked') => SomeVerified'
    BY <2>1 DEF BakInv, SomeVerified
  <2>6. blamed \in BOOLEAN /\ marked \in BOOLEAN
    BY DEF BakInv, BakType
  <2> QED BY <1>1, <2>1, <2>2, <2>3, <2>4, <2>5, <2>6, OneBackup
<1> QED BY <1>5, <1>6, <1>7, <1>8, <1>9

LEMMA BakStep == RecordsInMemory /\ BakInv /\ [Points!Next]_(Points!backupVars) => BakInv'
<1> SUFFICES ASSUME RecordsInMemory, BakInv, [Points!Next]_(Points!backupVars) PROVE BakInv'
  OBVIOUS
<1>1. CASE Points!NextKey \/ UNCHANGED Points!backupVars
  <2>1. /\ record' = record /\ object' = object /\ creator' = creator /\ checker' = checker
        /\ deleter' = deleter /\ faults' = faults /\ blamed' = blamed /\ marked' = marked
    BY <1>1 DEF Points!NextKey, Points!RevokeKey, Points!RotateKey, Points!keyRest, Points!backupVars
  <2>2. BakType'
    BY <2>1 DEF BakInv, BakType
  <2>3. \A b \in BackupIds : ArtifactSound(b)'
    BY <2>1 DEF BakInv, ArtifactSound, Unput, Points!Exists
  <2>4. \A c \in Checkers : CheckSound(c)'
    BY <2>1 DEF BakInv, CheckSound, Unput, Points!Exists
  <2>5. (faults = 0 /\ ~blamed /\ marked)' => SomeVerified'
    BY <2>1 DEF BakInv, SomeVerified
  <2> QED BY <2>2, <2>3, <2>4, <2>5 DEF BakInv
<1>2. CASE Points!NextBackup
  <2>1. Points!Outcomes \subseteq BOOLEAN
    BY DEF Points!Outcomes
  <2> QED BY <1>2, <2>1, CreateStep, FaultStep, CheckStep, DeleteStep DEF Points!NextBackup
<1> QED BY <1>1, <1>2 DEF Points!Next

\* Where the tables are in memory, a system that has marked a backup verified
\* keeps a verified record with its artifact, while the store loses none and no
\* check marks one failed.
THEOREM RecoveryPointCorrect ==
  ASSUME RecordsInMemory
  PROVE  Points!Spec => []Points!KeepsRecoveryPoint
<1>1. Points!Init => BakInv
  <2> SUFFICES ASSUME Points!Init PROVE BakInv
    OBVIOUS
  <2>1. Points!NoRecord \in RecordType /\ Points!NoRecord.status = "none"
    BY DEF Points!NoRecord, RecordType, BakStatus
  <2>2. Points!NoDelete \in DeleterType
    BY <2>1 DEF Points!NoDelete, DeleterType
  <2>3. [pc |-> "idle", op |-> "none", backup |-> CHOOSE b \in BackupIds : TRUE] \in CheckerType
    BY DEF CheckerType, AnyBackup
  <2>4. /\ record \in [BackupIds -> RecordType] /\ deleter \in [Deleters -> DeleterType]
        /\ \A b \in BackupIds : record[b] = Points!NoRecord
    BY <2>1, <2>2 DEF Points!Init
  <2>5. checker \in [Checkers -> CheckerType] /\ \A c \in Checkers : checker[c].pc = "idle"
    BY <2>3 DEF Points!Init
  <2>6. /\ object = [b \in BackupIds |-> "none"] /\ creator = [b \in BackupIds |-> "idle"]
        /\ faults = 0 /\ blamed = FALSE /\ marked = FALSE
    BY DEF Points!Init
  <2>7. BakType
    BY <2>4, <2>5, <2>6 DEF BakType, CreatorPcs
  <2>8. \A b \in BackupIds : ArtifactSound(b)
    BY <2>1, <2>4, <2>6 DEF ArtifactSound
  <2>9. \A c \in Checkers : CheckSound(c)
    BY <2>5 DEF CheckSound
  <2> QED BY <2>6, <2>7, <2>8, <2>9 DEF BakInv
<1>2. BakInv => Points!KeepsRecoveryPoint
  BY DEF BakInv, ArtifactSound, Points!KeepsRecoveryPoint, SomeVerified
<1> QED BY <1>1, <1>2, BakStep, PTL DEF Points!Spec

KeyType == [status : {"none", "active", "grace", "revoked"}, version : Nat]

Held == {k \in Keys : key[k].status \in {"active", "grace"}}

Act == {k \in Keys : key[k].status = "active"}

KeyInv ==
  /\ key \in [Keys -> KeyType] /\ lostSaves \in Nat
  /\ \E top \in Nat : \A k \in Held : key[k].version <= top
  /\ \A t \in Points!GetActive : Cardinality(Act \ {t}) <= lostSaves

\* GetActive finds a key of the highest version, when there is one to find.
LEMMA NewestHeld ==
  ASSUME KeyInv
  PROVE  /\ Points!GetActive \subseteq Held
         /\ \A k \in Points!GetActive, j \in Held : key[j].version <= key[k].version
         /\ Held # {} => Points!GetActive # {}
<1>1. key \in [Keys -> KeyType] /\ \A k \in Held : key[k].version \in Nat /\ k \in Keys
  BY DEF KeyInv, KeyType, Held
<1>2. Points!GetActive \subseteq Held /\ \A k \in Points!GetActive, j \in Held : key[j].version <= key[k].version
  BY DEF Points!GetActive, Held
<1>3. ASSUME Held # {} PROVE Points!GetActive # {}
  <2>1. PICK top \in Nat : \A k \in Held : key[k].version <= top
    BY DEF KeyInv
  <2> DEFINE S == {top - key[k].version : k \in Held}
  <2>2. S \in SUBSET Nat /\ S # {}
    BY <1>1, <1>3, <2>1
  <2>3. PICK x \in S : \A y \in S : x <= y
    BY <2>2, LeastOf
  <2>4. PICK k \in Held : x = top - key[k].version
    BY <2>3
  <2>5. \A j \in Held : top - key[k].version <= top - key[j].version
    BY <2>3, <2>4
  <2>6. \A j \in Held : key[j].version <= key[k].version
    BY <1>1, <2>5
  <2> QED BY <2>6 DEF Points!GetActive, Held
<1> QED BY <1>2, <1>3

LEMMA KeysAged ==
  ASSUME key \in [Keys -> KeyType], NEW k \in Keys, NEW s \in {"active", "grace", "revoked"},
         NEW aged, aged = [key EXCEPT ![k].status = s]
  PROVE  /\ aged \in [Keys -> KeyType]
         /\ aged[k].status = s
         /\ aged[k].version = key[k].version
         /\ \A j \in Keys : j # k => aged[j] = key[j]
<1>1. key[k] \in KeyType
  OBVIOUS
<1> DEFINE new == [key[k] EXCEPT !.status = s]
<1>2. new \in KeyType /\ new.status = s /\ new.version = key[k].version
  BY <1>1 DEF KeyType
<1>3. aged = [key EXCEPT ![k] = new]
  OBVIOUS
<1> HIDE DEF new
<1> QED BY <1>2, <1>3

\* All but one of the active keys, however they are counted, are at most one
\* more than all but the newest.
LEMMA ActiveBound ==
  ASSUME KeyInv, IsFiniteSet(Keys)
  PROVE  /\ \A T \in SUBSET Keys : Cardinality(T) \in Nat
         /\ \A T \in SUBSET Act : Cardinality(T) <= lostSaves + 1
         /\ \A t \in Points!GetActive : \A T \in SUBSET (Act \ {t}) : Cardinality(T) <= lostSaves
<1>1. lostSaves \in Nat /\ Act \subseteq Held /\ Act \subseteq Keys
  BY DEF KeyInv, Act, Held
<1>2. \A T \in SUBSET Keys : IsFiniteSet(T) /\ Cardinality(T) \in Nat
  BY CardSub
<1>3. ASSUME NEW t \in Points!GetActive, NEW T \in SUBSET (Act \ {t}) PROVE Cardinality(T) <= lostSaves
  <2> DEFINE U == Act \ {t}
  <2>1. U \subseteq Keys /\ Cardinality(U) <= lostSaves /\ T \subseteq U
    BY <1>1 DEF KeyInv
  <2> HIDE DEF U
  <2>2. Cardinality(T) <= Cardinality(U) /\ Cardinality(T) \in Nat /\ Cardinality(U) \in Nat
    BY <1>2, <2>1, CardSub
  <2> QED BY <1>1, <2>1, <2>2
<1>4. ASSUME NEW T \in SUBSET Act PROVE Cardinality(T) <= lostSaves + 1
  <2>1. CASE Points!GetActive = {}
    <3>1. T = {}
      BY <1>1, <2>1, NewestHeld
    <3> QED BY <1>1, <3>1, FS_EmptySet
  <2>2. CASE Points!GetActive # {}
    <3>1. PICK t \in Points!GetActive : TRUE
      BY <2>2
    <3> DEFINE U == Act \ {t}
    <3>2. U \subseteq Keys /\ Cardinality(U) <= lostSaves /\ T \subseteq U \cup {t}
      BY <1>1 DEF KeyInv
    <3> HIDE DEF U
    <3>3. IsFiniteSet(U) /\ Cardinality(U) \in Nat
      BY <1>2, <3>2
    <3>4. Cardinality(T) <= Cardinality(U) + 1 /\ Cardinality(T) \in Nat
      BY <3>2, <3>3, CardGrow
    <3> QED BY <1>1, <3>2, <3>3, <3>4
  <2> QED BY <2>1, <2>2
<1> QED BY <1>2, <1>3, <1>4

\* A key is revoked or enters its grace period.
LEMMA AgedStep ==
  ASSUME KeyInv, IsFiniteSet(Keys), NEW k \in Held, NEW s \in {"grace", "revoked"}, NEW aged,
         aged = [key EXCEPT ![k].status = s], key' = aged, lostSaves' = lostSaves
  PROVE  KeyInv'
<1>1. key \in [Keys -> KeyType] /\ k \in Keys /\ lostSaves \in Nat
  BY DEF KeyInv, Held
<1>2. /\ key' \in [Keys -> KeyType] /\ key'[k].status = s /\ key'[k].version = key[k].version
      /\ \A j \in Keys : j # k => key'[j] = key[j]
  <2> DEFINE new == [key[k] EXCEPT !.status = s]
  <2>1. new \in KeyType /\ new.status = s /\ new.version = key[k].version
    BY <1>1 DEF KeyType
  <2>2. key' = [key EXCEPT ![k] = new]
    OBVIOUS
  <2> HIDE DEF new
  <2> QED BY <1>1, <2>1, <2>2
<1>3. Held' \subseteq Held /\ (\A j \in Held' : key'[j].version = key[j].version) /\ Act' \subseteq Act \ {k}
  BY <1>2 DEF Held, Act
<1>4. Held \ {k} \subseteq Held'
  BY <1>2 DEF Held
<1>5. ASSUME NEW t \in Points!GetActive' PROVE Cardinality(Act' \ {t}) <= lostSaves'
  <2>1. t \in Held' /\ \A j \in Held' : key'[j].version <= key'[t].version
    BY DEF Points!GetActive, Held
  <2>2. CASE k \in Points!GetActive
    <3>1. Act' \ {t} \in SUBSET (Act \ {k})
      BY <1>3
    <3> QED BY <2>2, <3>1, ActiveBound
  <2>3. CASE k \notin Points!GetActive
    <3>1. \A j \in Held : key[j].version \in Nat
      BY <1>1 DEF Held, KeyType
    <3>2. PICK u \in Points!GetActive : u # k
      BY <2>3, NewestHeld
    <3>3. u \in Held' /\ \A j \in Held : key[j].version <= key[u].version
      BY <1>4, <3>2, NewestHeld
    <3>4. key[u].version <= key[t].version
      BY <1>3, <2>1, <3>3
    <3>5. t \in Points!GetActive
      <4>1. \A j \in Held : key[j].version <= key[t].version
        BY <1>3, <2>1, <3>1, <3>3, <3>4
      <4> QED BY <1>3, <2>1, <4>1 DEF Points!GetActive, Held
    <3>6. Act' \ {t} \in SUBSET (Act \ {t})
      BY <1>3
    <3> QED BY <3>5, <3>6, ActiveBound
  <2> QED BY <2>2, <2>3
<1>6. \E top \in Nat : \A j \in Held' : key'[j].version <= top
  BY <1>3 DEF KeyInv
<1> QED BY <1>1, <1>2, <1>5, <1>6 DEF KeyInv

\* The new key is saved beside what SaveNew finds.
LEMMA NewSaved ==
  ASSUME NEW new \in Keys, NEW aged \in [Keys -> KeyType], NEW v \in Nat,
         key' = [aged EXCEPT ![new] = [status |-> "active", version |-> v]]
  PROVE  /\ key' \in [Keys -> KeyType] /\ key'[new].status = "active" /\ key'[new].version = v
         /\ \A j \in Keys : j # new => key'[j] = aged[j]
<1> DEFINE row == [status |-> "active", version |-> v]
<1>1. row \in KeyType /\ row.status = "active" /\ row.version = v
  BY DEF KeyType
<1>2. key' = [aged EXCEPT ![new] = row]
  OBVIOUS
<1> HIDE DEF row
<1> QED BY <1>1, <1>2

LEMMA RotateStep ==
  ASSUME KeyInv, IsFiniteSet(Keys), NEW new \in Keys, NEW found \in BOOLEAN, NEW graceSaved \in BOOLEAN,
         NEW newSaved \in BOOLEAN, Points!RotateKey(new, found, graceSaved, newSaved)
  PROVE  KeyInv'
<1>1. /\ key \in [Keys -> KeyType] /\ lostSaves \in Nat /\ key[new].status = "none"
      /\ lostSaves' = IF newSaved /\ Points!GetActive # {} /\ ~(found /\ graceSaved) THEN lostSaves + 1 ELSE lostSaves
  BY DEF KeyInv, Points!RotateKey
<1>2. /\ \A j \in Held : j \in Keys /\ j # new /\ key[j].version \in Nat
      /\ new \notin Act /\ Act \subseteq Held
  BY <1>1 DEF Held, KeyType, Act
<1>3. PICK top \in Nat : \A j \in Held : key[j].version <= top
  BY DEF KeyInv
<1>4. ASSUME NEW t \in Points!GetActive, found,
             Points!SaveNew(new, IF graceSaved THEN Points!SaveGrace(t) ELSE key, key[t].version + 1, newSaved)
      PROVE  KeyInv'
  <2>1. t \in Held /\ t \in Keys /\ \A j \in Held : key[j].version <= key[t].version
    BY <1>2, <1>4, NewestHeld
  <2>2. PICK aged : aged = IF graceSaved THEN Points!SaveGrace(t) ELSE key
    OBVIOUS
  <2>3. /\ aged \in [Keys -> KeyType] /\ aged[t].version = key[t].version
        /\ aged[t].status = IF graceSaved THEN "grace" ELSE key[t].status
        /\ \A j \in Keys : j # t => aged[j] = key[j]
    <3>1. CASE graceSaved
      <4>1. "grace" \in {"active", "grace", "revoked"} /\ aged = [key EXCEPT ![t].status = "grace"]
        BY <2>2, <3>1 DEF Points!SaveGrace
      <4> QED BY <1>1, <2>1, <3>1, <4>1, KeysAged
    <3>2. CASE ~graceSaved
      BY <1>1, <2>2, <3>2
    <3> QED BY <3>1, <3>2
  <2>4. PICK v \in Nat : v = key[t].version + 1 /\ \A j \in Held : key[j].version < v
    BY <1>2, <2>1
  <2>5. key' = IF newSaved THEN [aged EXCEPT ![new] = [status |-> "active", version |-> v]] ELSE aged
    BY <1>4, <2>2, <2>4 DEF Points!SaveNew
  <2>6. CASE newSaved
    <3>1. /\ key' \in [Keys -> KeyType] /\ key'[new].status = "active" /\ key'[new].version = v
          /\ \A j \in Keys : j # new => key'[j] = aged[j]
      BY <2>3, <2>5, <2>6, NewSaved
    <3>2. Held' = Held \cup {new} /\ \A j \in Held : key'[j].version = key[j].version
      BY <1>1, <1>2, <2>1, <2>3, <3>1 DEF Held
    <3>3. Points!GetActive' \subseteq {new}
      <4> SUFFICES ASSUME NEW j \in Points!GetActive', j # new PROVE FALSE
        OBVIOUS
      <4>1. j \in Held' /\ key'[new].version <= key'[j].version
        BY <3>1, <3>2 DEF Points!GetActive, Held
      <4> QED BY <1>2, <2>4, <3>1, <3>2, <4>1
    <3>4. Act' \ {new} \in SUBSET (IF graceSaved THEN Act \ {t} ELSE Act)
      BY <2>3, <3>1 DEF Act
    <3>5. Cardinality(Act' \ {new}) <= lostSaves'
      BY <1>1, <1>4, <2>6, <3>4, ActiveBound
    <3>6. \A j \in Held' : key'[j].version <= v
      BY <1>2, <2>4, <3>1, <3>2
    <3>7. \A u \in Points!GetActive' : Cardinality(Act' \ {u}) <= lostSaves'
      BY <3>3, <3>5
    <3>8. key' \in [Keys -> KeyType] /\ lostSaves' \in Nat /\ \E m \in Nat : \A j \in Held' : key'[j].version <= m
      BY <1>1, <3>1, <3>6
    <3> QED BY <3>7, <3>8 DEF KeyInv
  <2>7. CASE ~newSaved
    <3>1. key' = aged
      BY <2>5, <2>7
    <3>2. Held' = Held /\ (\A j \in Keys : key'[j].version = key[j].version) /\ Act' \subseteq Act
      BY <2>1, <2>3, <3>1 DEF Held, Act
    <3>3. Points!GetActive' = Points!GetActive
      <4>1. Points!GetActive = {k \in Held : \A j \in Held : key[j].version <= key[k].version}
        BY DEF Points!GetActive, Held
      <4>2. Points!GetActive' = {k \in Held' : \A j \in Held' : key'[j].version <= key'[k].version}
        BY DEF Points!GetActive, Held
      <4> QED BY <1>2, <3>2, <4>1, <4>2
    <3>4. ASSUME NEW u \in Points!GetActive PROVE Cardinality(Act' \ {u}) <= lostSaves'
      <4>1. Act' \ {u} \in SUBSET (Act \ {u})
        BY <3>2
      <4>2. Cardinality(Act' \ {u}) <= lostSaves /\ Act' \ {u} \in SUBSET Keys
        BY <4>1, ActiveBound DEF Act
      <4>3. Cardinality(Act' \ {u}) \in Nat
        BY <4>2, ActiveBound
      <4> QED BY <1>1, <4>2, <4>3
    <3>5. \A j \in Held' : key'[j].version <= top
      BY <1>2, <1>3, <3>2
    <3> QED BY <1>1, <2>3, <3>1, <3>3, <3>4, <3>5 DEF KeyInv
  <2> QED BY <2>6, <2>7
<1>5. ASSUME Points!GetActive = {} \/ ~found, Points!SaveNew(new, key, 1, newSaved)
      PROVE  KeyInv'
  <2>1. lostSaves' = IF newSaved /\ Points!GetActive # {} THEN lostSaves + 1 ELSE lostSaves
    BY <1>1, <1>5
  <2>2. CASE newSaved
    <3>1. /\ key' \in [Keys -> KeyType] /\ key'[new].status = "active" /\ key'[new].version = 1
          /\ \A j \in Keys : j # new => key'[j] = key[j]
      BY <1>1, <1>5, <2>2, NewSaved DEF Points!SaveNew
    <3>2. Held' = Held \cup {new} /\ Act' = Act \cup {new} /\ \A j \in Held : key'[j].version = key[j].version
      BY <1>1, <1>2, <3>1 DEF Held, Act
    <3>3. ASSUME NEW u \in Points!GetActive' PROVE Cardinality(Act' \ {u}) <= lostSaves'
      <4>1. u \in Held' /\ \A j \in Held' : key'[j].version <= key'[u].version
        BY DEF Points!GetActive, Held
      <4>2. CASE Points!GetActive = {}
        <5>1. Held = {} /\ Act = {}
          BY <1>2, <4>2, NewestHeld
        <5>2. Act' \ {u} = {}
          BY <3>2, <4>1, <5>1
        <5> QED BY <1>1, <2>1, <4>2, <5>2, FS_EmptySet
      <4>3. CASE Points!GetActive # {} /\ u = new
        <5>1. Act' \ {u} \in SUBSET Act
          BY <3>2, <4>3
        <5> QED BY <2>1, <2>2, <4>3, <5>1, ActiveBound
      <4>4. CASE Points!GetActive # {} /\ u # new
        <5>1. u \in Points!GetActive
          BY <3>2, <4>1, <4>4 DEF Points!GetActive, Held
        <5> DEFINE U == Act \ {u}
        <5> DEFINE T == Act' \ {u}
        <5>2. U \subseteq Keys /\ T \subseteq U \cup {new} /\ Cardinality(U) <= lostSaves
          BY <3>2, <5>1 DEF KeyInv, Act
        <5> HIDE DEF U, T
        <5>3. IsFiniteSet(U) /\ Cardinality(U) \in Nat
          BY <5>2, CardSub
        <5>4. Cardinality(T) <= Cardinality(U) + 1 /\ Cardinality(T) \in Nat
          BY <5>2, <5>3, CardGrow
        <5>5. Cardinality(T) <= lostSaves'
          BY <1>1, <2>1, <2>2, <4>4, <5>2, <5>3, <5>4
        <5> QED BY <5>5 DEF T
      <4> QED BY <4>2, <4>3, <4>4
    <3>4. \A j \in Held' : key'[j].version <= top + 1
      BY <1>2, <1>3, <3>1, <3>2
    <3> QED BY <1>1, <2>1, <3>1, <3>3, <3>4 DEF KeyInv
  <2>3. CASE ~newSaved
    <3>1. key' = key
      BY <1>5, <2>3 DEF Points!SaveNew
    <3>2. Held' = Held /\ Act' = Act /\ Points!GetActive' = Points!GetActive
      BY <3>1 DEF Held, Act, Points!GetActive
    <3>3. ASSUME NEW u \in Points!GetActive PROVE Cardinality(Act \ {u}) <= lostSaves'
      <4>1. Act \ {u} \in SUBSET (Act \ {u}) /\ Act \ {u} \in SUBSET Keys
        BY DEF Act
      <4>2. Cardinality(Act \ {u}) <= lostSaves /\ Cardinality(Act \ {u}) \in Nat
        BY <3>3, <4>1, ActiveBound
      <4> QED BY <1>1, <2>1, <2>3, <4>2
    <3> QED BY <1>1, <1>3, <2>1, <3>1, <3>2, <3>3 DEF KeyInv
  <2> QED BY <2>2, <2>3
<1> QED BY <1>4, <1>5 DEF Points!RotateKey

\* At most one key of a type is active, and one more for every error of a read
\* or a save that RotateKey dropped.
THEOREM KeysCorrect ==
  ASSUME IsFiniteSet(Keys)
  PROVE  Points!Spec => []Points!OneActiveKey
<1>1. Points!Init => KeyInv
  <2> SUFFICES ASSUME Points!Init PROVE KeyInv
    OBVIOUS
  <2>1. Points!NoKey \in KeyType /\ Points!NoKey.status = "none"
    BY DEF Points!NoKey, KeyType
  <2>2. key = [k \in Keys |-> Points!NoKey] /\ lostSaves = 0
    BY DEF Points!Init
  <2>3. Held = {} /\ key \in [Keys -> KeyType]
    BY <2>1, <2>2 DEF Held
  <2>4. Points!GetActive = {}
    BY <2>1, <2>2 DEF Points!GetActive
  <2> QED BY <2>2, <2>3, <2>4 DEF KeyInv
<1>2. KeyInv /\ [Points!Next]_(Points!backupVars) => KeyInv'
  <2> SUFFICES ASSUME KeyInv, [Points!Next]_(Points!backupVars) PROVE KeyInv'
    OBVIOUS
  <2>1. CASE UNCHANGED <<key, lostSaves>>
    BY <2>1 DEF KeyInv, Held, Act, Points!GetActive
  <2>2. ASSUME NEW k \in Keys, Points!RevokeKey(k) PROVE KeyInv'
    <3>1. key \in [Keys -> KeyType] /\ lostSaves' = lostSaves /\ lostSaves \in Nat
      BY <2>2 DEF KeyInv, Points!RevokeKey
    <3>2. key[k].status \in {"none", "active", "grace", "revoked"}
      BY <3>1 DEF KeyType
    <3>3. k \in Held /\ key' = [key EXCEPT ![k].status = "revoked"]
      BY <2>2, <3>2 DEF Points!RevokeKey, Held
    <3> QED BY <3>1, <3>3, AgedStep
  <2>3. CASE Points!NextKey
    BY <2>2, <2>3, RotateStep DEF Points!NextKey
  <2>4. CASE Points!NextBackup
    <3>1. UNCHANGED <<key, lostSaves>>
      BY <2>4 DEF Points!NextBackup, Points!CreateRecord, Points!Put, Points!CreateReads, Points!CreateGets, Points!CreateMarks, Points!CreateFails, Points!CreateCounts, Points!CreateProtects, Points!Fault, Points!VerifyReads,
        Points!VerifyBackup, Points!VerifyWrites, Points!RestoreReads, Points!DownloadBackup, Points!SaveRestorePlan, Points!ApplyRetentionPolicy, Points!DeleteBackup, Points!MemDelete,
        Points!SqlDeleteReads, Points!SqlDeleteCounts, Points!SqlDelete, Points!StorageDelete, Points!recordRest, Points!checkRest, Points!delRest
    <3> QED BY <2>1, <3>1
  <2>5. CASE UNCHANGED Points!backupVars
    BY <2>1, <2>5 DEF Points!backupVars
  <2> QED BY <2>3, <2>4, <2>5 DEF Points!Next
<1>3. KeyInv => Points!OneActiveKey
  <2> SUFFICES ASSUME KeyInv PROVE Points!OneActiveKey
    OBVIOUS
  <2>1. Act \in SUBSET Act /\ lostSaves \in Nat /\ Act \in SUBSET Keys
    BY DEF KeyInv, Act
  <2>2. Cardinality(Act) <= lostSaves + 1 /\ Cardinality(Act) \in Nat
    BY <2>1, ActiveBound
  <2> QED BY <2>1, <2>2, PointsCard DEF Points!OneActiveKey, Act
<1> QED BY <1>1, <1>2, <1>3, PTL DEF Points!Spec

-----------------------------------------------------------------------------
(***************************************************************************)
(* Volumes: a deleted row never comes back and names are unique, whichever *)
(* stale copies the calls hold. No fact about the copies is needed: every  *)
(* write tests the table in the step that writes it.                       *)
(*                                                                         *)
(* Between calls that do not overlap, and while no command is lost, the    *)
(* pool's used space, the table and the node agree. A call writes the      *)
(* three one after the other, so the invariant says what it still owes at  *)
(* each of its steps (CallStage): before the row is written nothing; after *)
(* it, that UsedAfter of what it read is the new sum of the sizes, and     *)
(* that the driver will make the node agree with the new table. A write of *)
(* one row moves the sum by that row's size.                               *)
(***************************************************************************)
\* So is the sum.
LEMMA StorageSum ==
  ASSUME NEW f, NEW S
  PROVE  Storage!SumFunctionOnSet(f, S) = SumFunctionOnSet(f, S)
BY DEF SumFunctionOnSet, FoldFunctionOnSet, MapThenFoldSet,
   Storage!SumFunctionOnSet, Storage!FoldFunctionOnSet, Storage!MapThenFoldSet

\* A call of the service: an idle one holds nothing, one under way holds a
\* volume of the table.
CallShape(k) ==
  /\ \E p, o, v, a, r, u : k = [pc |-> p, op |-> o, vol |-> v, arg |-> a, row |-> r, used |-> u]
  /\ k.pc # "idle" => k.vol \in Vols

VolInv ==
  /\ \E S : vols \in [Vols -> S]
  /\ \E S : storageCall \in [Clients -> S]
  /\ \A c \in Clients : CallShape(storageCall[c])
  /\ \A v, w \in Storage!Live : NameOf[v] = NameOf[w] => v = w

LEMMA IdleShape == CallShape(Storage!Idle)
<1>1. \E o, v, a, r, u : Storage!Idle = [pc |-> "idle", op |-> o, vol |-> v, arg |-> a, row |-> r, used |-> u]
  BY Zenon DEF Storage!Idle
<1>2. PICK o, v, a, r, u : Storage!Idle = [pc |-> "idle", op |-> o, vol |-> v, arg |-> a, row |-> r, used |-> u]
  BY <1>1
<1>3. Storage!Idle.pc = "idle"
  BY <1>2
<1> QED BY <1>2, <1>3 DEF CallShape

LEMMA MovedShape ==
  ASSUME NEW k, CallShape(k), k.pc # "idle", NEW p, NEW u, NEW m,
         m = [k EXCEPT !.pc = p] \/ m = [k EXCEPT !.used = u, !.pc = p]
  PROVE  CallShape(m)
<1>1. PICK q, o, v, a, r, x : k = [pc |-> q, op |-> o, vol |-> v, arg |-> a, row |-> r, used |-> x]
  BY DEF CallShape
<1>2. \/ m = [pc |-> p, op |-> o, vol |-> v, arg |-> a, row |-> r, used |-> x]
      \/ m = [pc |-> p, op |-> o, vol |-> v, arg |-> a, row |-> r, used |-> u]
  BY <1>1
<1>3. m.vol = v /\ k.vol = v
  BY <1>1, <1>2
<1> QED BY <1>2, <1>3 DEF CallShape

\* Every step of a call, seen from the table: one call changes and keeps its
\* shape, and the table changes by VolumeWrite alone.
LEMMA VolSteps ==
  ASSUME VolInv, [Storage!Next]_(Storage!volVars)
  PROVE  \/ UNCHANGED <<vols, storageCall>>
         \/ \E c \in Clients :
              /\ \E new : CallShape(new) /\ storageCall' = [storageCall EXCEPT ![c] = new]
              /\ UNCHANGED vols \/ (Storage!VolumeWrite(c) /\ Storage!VolumeWritable(storageCall[c]))
<1>0. \A c \in Clients : CallShape(storageCall[c])
  BY DEF VolInv
<1>1. ASSUME NEW c \in Clients, NEW op, NEW v \in Vols, NEW arg, Storage!Starts(c, op, v, arg)
      PROVE  (\E new : CallShape(new) /\ storageCall' = [storageCall EXCEPT ![c] = new]) /\ UNCHANGED vols
  <2> DEFINE new == [pc |-> "pool", op |-> op, vol |-> v, arg |-> arg, row |-> vols[v], used |-> 0]
  <2>1. CallShape(new)
    BY DEF CallShape
  <2> QED BY <1>1, <2>1 DEF Storage!Starts, Storage!rows
<1>2. ASSUME NEW c \in Clients, Storage!PoolGetByID(c)
      PROVE  (\E new : CallShape(new) /\ storageCall' = [storageCall EXCEPT ![c] = new]) /\ UNCHANGED vols
  <2> DEFINE p == IF storageCall[c].op = "restore" THEN "send" ELSE "row"
  <2> DEFINE new == [storageCall[c] EXCEPT !.used = pool.used, !.pc = p]
  <2>1. storageCall' = [storageCall EXCEPT ![c] = new] /\ UNCHANGED vols /\ storageCall[c].pc = "pool"
    BY <1>2 DEF Storage!PoolGetByID, Storage!rows
  <2>2. CallShape(new)
    BY <1>0, <2>1, MovedShape
  <2> QED BY <2>1, <2>2
<1>3. ASSUME NEW c \in Clients, NEW p, storageCall[c].pc # "idle", storageCall' = [storageCall EXCEPT ![c].pc = p]
      PROVE  \E new : CallShape(new) /\ storageCall' = [storageCall EXCEPT ![c] = new]
  <2> DEFINE new == [storageCall[c] EXCEPT !.pc = p]
  <2>1. CallShape(new)
    BY <1>0, <1>3, MovedShape
  <2> QED BY <1>3, <2>1
<1>4. ASSUME NEW c \in Clients, Storage!VolumeWrite(c)
      PROVE  /\ \E new : CallShape(new) /\ storageCall' = [storageCall EXCEPT ![c] = new]
             /\ UNCHANGED vols \/ (Storage!VolumeWrite(c) /\ Storage!VolumeWritable(storageCall[c]))
  <2>1. CASE Storage!VolumeWritable(storageCall[c])
    BY <1>3, <1>4, <2>1 DEF Storage!VolumeWrite
  <2>2. CASE ~Storage!VolumeWritable(storageCall[c])
    <3>1. storageCall' = [storageCall EXCEPT ![c] = Storage!Idle] /\ UNCHANGED vols
      BY <1>4, <2>2 DEF Storage!VolumeWrite
    <3>2. \E new : CallShape(new) /\ storageCall' = [storageCall EXCEPT ![c] = new]
      BY <3>1, IdleShape
    <3> QED BY <3>1, <3>2
  <2> QED BY <2>1, <2>2
<1>5. ASSUME NEW c \in Clients, Storage!SnapshotWrite(c)
      PROVE  (\E new : CallShape(new) /\ storageCall' = [storageCall EXCEPT ![c] = new]) /\ UNCHANGED vols
  <2>1. CASE Storage!SnapshotWritable(storageCall[c])
    BY <1>3, <1>5, <2>1 DEF Storage!SnapshotWrite
  <2>2. CASE ~Storage!SnapshotWritable(storageCall[c])
    BY <1>5, <2>2, IdleShape DEF Storage!SnapshotWrite
  <2> QED BY <2>1, <2>2
<1>6. ASSUME NEW c \in Clients, NEW ok, Storage!PoolUpdate(c, ok)
      PROVE  (\E new : CallShape(new) /\ storageCall' = [storageCall EXCEPT ![c] = new]) /\ UNCHANGED vols
  BY <1>3, <1>6 DEF Storage!PoolUpdate
<1>11. ASSUME NEW c \in Clients, Storage!StatementFails(c)
      PROVE  (\E new : CallShape(new) /\ storageCall' = [storageCall EXCEPT ![c] = new]) /\ UNCHANGED vols
  BY <1>11, IdleShape DEF Storage!StatementFails, Storage!rows
<1>7. ASSUME NEW c \in Clients, NEW sent, Storage!SendCommand(c, sent)
      PROVE  (\E new : CallShape(new) /\ storageCall' = [storageCall EXCEPT ![c] = new]) /\ UNCHANGED vols
  BY <1>7, IdleShape DEF Storage!SendCommand, Storage!rows
<1>8. CASE Storage!CreateStoragePool \/ UNCHANGED Storage!volVars
  BY <1>8 DEF Storage!CreateStoragePool, Storage!volVars
<1>9. ASSUME NEW c \in Clients, NEW v \in Vols,
             \/ Storage!DetachVolume(c, v) \/ Storage!DeleteVolume(c, v)
             \/ \E g \in Guests : Storage!AttachVolume(c, v, g)
             \/ \E size \in Sizes : Storage!CreateVolume(c, v, size) \/ Storage!ResizeVolume(c, v, size)
             \/ \E n \in SnapNames : Storage!CreateSnapshot(c, v, n)
             \/ \E s \in snaps : Storage!RestoreSnapshot(c, v, s) \/ Storage!DeleteSnapshot(c, v, s)
      PROVE  (\E new : CallShape(new) /\ storageCall' = [storageCall EXCEPT ![c] = new]) /\ UNCHANGED vols
  <2>1. \E op, arg : Storage!Starts(c, op, v, arg)
    BY <1>9, Zenon DEF Storage!DetachVolume, Storage!DeleteVolume, Storage!AttachVolume, Storage!CreateVolume, Storage!ResizeVolume, Storage!CreateSnapshot,
      Storage!RestoreSnapshot, Storage!DeleteSnapshot
  <2> QED BY <1>1, <2>1
<1>10. CASE \E c \in Clients :
         \/ Storage!PoolGetByID(c) \/ Storage!VolumeWrite(c) \/ Storage!SnapshotWrite(c) \/ Storage!StatementFails(c)
         \/ \E ok \in Storage!Outcomes : Storage!PoolUpdate(c, ok)
         \/ \E sent \in BOOLEAN : Storage!SendCommand(c, sent)
         \/ \E v \in Vols :
              \/ Storage!DetachVolume(c, v) \/ Storage!DeleteVolume(c, v)
              \/ \E g \in Guests : Storage!AttachVolume(c, v, g)
              \/ \E size \in Sizes : Storage!CreateVolume(c, v, size) \/ Storage!ResizeVolume(c, v, size)
              \/ \E n \in SnapNames : Storage!CreateSnapshot(c, v, n)
              \/ \E s \in snaps : Storage!RestoreSnapshot(c, v, s) \/ Storage!DeleteSnapshot(c, v, s)
  <2>1. PICK c \in Clients :
         \/ Storage!PoolGetByID(c) \/ Storage!VolumeWrite(c) \/ Storage!SnapshotWrite(c) \/ Storage!StatementFails(c)
         \/ \E ok \in Storage!Outcomes : Storage!PoolUpdate(c, ok)
         \/ \E sent \in BOOLEAN : Storage!SendCommand(c, sent)
         \/ \E v \in Vols :
              \/ Storage!DetachVolume(c, v) \/ Storage!DeleteVolume(c, v)
              \/ \E g \in Guests : Storage!AttachVolume(c, v, g)
              \/ \E size \in Sizes : Storage!CreateVolume(c, v, size) \/ Storage!ResizeVolume(c, v, size)
              \/ \E n \in SnapNames : Storage!CreateSnapshot(c, v, n)
              \/ \E s \in snaps : Storage!RestoreSnapshot(c, v, s) \/ Storage!DeleteSnapshot(c, v, s)
    BY <1>10
  <2>2. /\ \E new : CallShape(new) /\ storageCall' = [storageCall EXCEPT ![c] = new]
        /\ UNCHANGED vols \/ (Storage!VolumeWrite(c) /\ Storage!VolumeWritable(storageCall[c]))
    <3> DEFINE Goal == /\ \E new : CallShape(new) /\ storageCall' = [storageCall EXCEPT ![c] = new]
                       /\ UNCHANGED vols \/ (Storage!VolumeWrite(c) /\ Storage!VolumeWritable(storageCall[c]))
    <3>1. Storage!PoolGetByID(c) => Goal
      BY <1>2
    <3>2. Storage!VolumeWrite(c) => Goal
      BY <1>4
    <3>3. Storage!SnapshotWrite(c) => Goal
      BY <1>5
    <3>4. ASSUME NEW ok, Storage!PoolUpdate(c, ok) PROVE Goal
      BY <1>6, <3>4
    <3>8. Storage!StatementFails(c) => Goal
      BY <1>11
    <3>5. ASSUME NEW sent, Storage!SendCommand(c, sent) PROVE Goal
      BY <1>7, <3>5
    <3>6. ASSUME NEW v \in Vols,
             \/ Storage!DetachVolume(c, v) \/ Storage!DeleteVolume(c, v)
             \/ \E g \in Guests : Storage!AttachVolume(c, v, g)
             \/ \E size \in Sizes : Storage!CreateVolume(c, v, size) \/ Storage!ResizeVolume(c, v, size)
             \/ \E n \in SnapNames : Storage!CreateSnapshot(c, v, n)
             \/ \E s \in snaps : Storage!RestoreSnapshot(c, v, s) \/ Storage!DeleteSnapshot(c, v, s)
          PROVE  Goal
      BY <1>9, <3>6
    <3> HIDE DEF Goal
    <3>7. Goal
      BY <2>1, <3>1, <3>2, <3>3, <3>4, <3>5, <3>6, <3>8
    <3> QED BY <3>7 DEF Goal
  <2> QED BY <2>2
<1> QED BY <1>8, <1>10 DEF Storage!Next

LEMMA VolStep ==
  ASSUME VolInv, [Storage!Next]_(Storage!volVars)
  PROVE  /\ VolInv'
         /\ \A v \in Vols : vols[v].status = "deleted" => vols'[v] = vols[v]
<1>1. PICK S : vols \in [Vols -> S]
  BY DEF VolInv
<1>2. PICK T : storageCall \in [Clients -> T]
  BY DEF VolInv
<1>3. CASE UNCHANGED <<vols, storageCall>>
  BY <1>3 DEF VolInv, Storage!Live, Storage!Exists
<1>4. ASSUME NEW c \in Clients, NEW new, CallShape(new), storageCall' = [storageCall EXCEPT ![c] = new],
             UNCHANGED vols \/ (Storage!VolumeWrite(c) /\ Storage!VolumeWritable(storageCall[c]))
      PROVE  VolInv' /\ \A v \in Vols : vols[v].status = "deleted" => vols'[v] = vols[v]
  <2>1. (\E U : storageCall' \in [Clients -> U]) /\ \A d \in Clients : CallShape(storageCall'[d])
    <3>1. storageCall' \in [Clients -> T \cup {new}]
      BY <1>2, <1>4
    <3>2. \A d \in Clients : storageCall'[d] = IF d = c THEN new ELSE storageCall[d]
      BY <1>2, <1>4
    <3> QED BY <1>4, <3>1, <3>2 DEF VolInv
  <2>2. CASE UNCHANGED vols
    BY <1>1, <2>1, <2>2 DEF VolInv, Storage!Live, Storage!Exists
  <2>3. CASE Storage!VolumeWrite(c) /\ Storage!VolumeWritable(storageCall[c])
    <3>1. PICK u, row : u = storageCall[c].vol /\ vols' = [vols EXCEPT ![u] = row]
      BY <2>3 DEF Storage!VolumeWrite
    <3>2. u \in Vols
      BY <2>3, <3>1 DEF Storage!VolumeWrite, VolInv, CallShape
    <3>3. /\ vols' \in [Vols -> S \cup {row}]
          /\ \A v \in Vols : v # u => vols'[v] = vols[v]
      BY <1>1, <3>1, <3>2
    <3>4. \/ u \in Storage!Live
          \/ vols[u].status = "none" /\ \A v \in Storage!Live : NameOf[v] # NameOf[u]
      BY <2>3, <3>1, <3>2 DEF Storage!VolumeWritable, Storage!Live
    <3>5. vols[u].status # "deleted"
      BY <3>4 DEF Storage!Live, Storage!Exists
    <3>6. Storage!Live' \subseteq Storage!Live \cup {u}
      BY <3>3 DEF Storage!Live, Storage!Exists
    <3>7. \A v, w \in Storage!Live' : NameOf[v] = NameOf[w] => v = w
      BY <3>4, <3>6 DEF VolInv
    <3> QED BY <2>1, <3>3, <3>5, <3>7 DEF VolInv
  <2> QED BY <1>4, <2>2, <2>3
<1> QED BY <1>3, <1>4, VolSteps

LEMMA VolInit == Storage!Init => VolInv
<1> SUFFICES ASSUME Storage!Init PROVE VolInv
  OBVIOUS
<1>1. \E i : Storage!NoRow = [status |-> "none", inst |-> i, size |-> 0]
  BY Zenon DEF Storage!NoRow
<1>2. Storage!NoRow.status = "none"
  BY <1>1
<1>3. vols = [v \in Vols |-> Storage!NoRow] /\ storageCall = [c \in Clients |-> Storage!Idle]
  BY DEF Storage!Init
<1>4. vols \in [Vols -> {Storage!NoRow}] /\ storageCall \in [Clients -> {Storage!Idle}]
  BY <1>3
<1>5. Storage!Live = {}
  BY <1>2, <1>3 DEF Storage!Live, Storage!Exists
<1>6. \A c \in Clients : CallShape(storageCall[c])
  BY <1>3, IdleShape
<1> QED BY <1>4, <1>5, <1>6 DEF VolInv

\* A deleted volume's row never comes back and no two rows of the pool share
\* a name, whichever calls hold a copy of a row.
THEOREM DeletionCorrect == Storage!Spec => Storage!DeletedStaysDeleted
<1>1. Storage!Init => VolInv
  BY VolInit
<1>2. VolInv /\ [Storage!Next]_(Storage!volVars) => VolInv'
  BY VolStep
<1>3. VolInv /\ VolInv' /\ [Storage!Next]_(Storage!volVars) =>
        [/\ \A v \in Vols : vols[v].status = "deleted" => vols'[v] = vols[v]
         /\ \A v, w \in Storage!Live' : NameOf[v] = NameOf[w] => v = w]_(Storage!volVars)
  BY VolStep DEF VolInv
<1> QED BY <1>1, <1>2, <1>3, PTL DEF Storage!Spec, Storage!DeletedStaysDeleted

\* What StoresAgree says of a table, a node's volumes and its disks.
LiveIn(t) == {v \in Vols : t[v].status \in {"ready", "attached"}}
SizesIn(t) == [v \in Vols |-> t[v].size]
UsedIn(t) == SumFunctionOnSet(SizesIn(t), LiveIn(t))
DisksIn(t) == {<<t[v].inst, NameOf[v]>> : v \in {w \in LiveIn(t) : Storage!IsAttached(t[w])}}
VolumesIn(t, nv) ==
  /\ \E S : nv \in [Storage!VolNames -> S]
  /\ \A v \in LiveIn(t) : nv[NameOf[v]] = t[v].size
  /\ \A n \in Storage!VolNames : nv[n] # 0 => \E v \in LiveIn(t) : NameOf[v] = n
NodeIn(t, nv, nd) == VolumesIn(t, nv) /\ nd = DisksIn(t)

RowShape(r) == \E s, i : \E z \in Nat : r = [status |-> s, inst |-> i, size |-> z]

\* What a call has read: the row it holds is one its operation may go on from.
HoldsRow(k) ==
  /\ RowShape(k.row)
  /\ k.op \in Storage!Writes \cup {"snapshot", "restore", "drop"}
  /\ IF k.op = "create" THEN k.row.status = "none" ELSE k.row.status \in {"ready", "attached"}
  /\ k.op \in {"create", "resize"} => k.arg.size \in Nat
  /\ k.op = "attach" => k.arg.guest # Storage!NoId /\ ~Storage!IsAttached(k.row)
  /\ k.op = "detach" => Storage!IsAttached(k.row) /\ k.arg.guest = k.row.inst
  /\ k.op = "delete" => ~Storage!IsAttached(k.row)

\* While no write of the pool's row was lost, a count is the table's.
Counts(u, t) == booked => u = UsedIn(t)

StoresMatch == Counts(pool.used, vols) /\ NodeIn(vols, nodeVols, nodeDisks)

\* What the stores and a call owe each other at each step of the call: nothing
\* before the row is written, then what UsedAfter and the driver will do.
CallStage(k) ==
  /\ HoldsRow(k) /\ k.pc \in {"pool", "row", "used", "send"}
  /\ k.pc \in {"pool", "row"} => StoresMatch /\ vols[k.vol] = k.row
  /\ k.pc = "row" => k.used = pool.used /\ k.op # "restore"
  /\ k.pc = "used" => Counts(Storage!UsedAfter(k), vols)
  /\ k.pc = "send" => Counts(pool.used, vols)
  /\ k.pc \in {"used", "send"} => NodeIn(vols, Storage!DriverVolumes(k), Storage!DriverDisks(k))

InOrder ==
  /\ \A v \in Vols : RowShape(vols[v])
  /\ \E e, u : pool = [exists |-> e, used |-> u]
  /\ \A c, d \in Clients : storageCall[c].pc # "idle" /\ storageCall[d].pc # "idle" => c = d
  /\ (\A c \in Clients : storageCall[c].pc = "idle") => StoresMatch
  /\ \A c \in Clients : storageCall[c].pc # "idle" => CallStage(storageCall[c])

StoreInv == VolInv /\ (clean => InOrder)

\* Two tables differ in one row, and two sums of sizes by that row's.
DifferAt(t, q, u) == \A v \in Vols : RowShape(t[v]) /\ RowShape(q[v]) /\ (v # u => q[v] = t[v])
MovedBy(t, q, u) ==
  \E r \in Nat : /\ UsedIn(t) = (IF u \in LiveIn(t) THEN t[u].size ELSE 0) + r
                 /\ UsedIn(q) = (IF u \in LiveIn(q) THEN q[u].size ELSE 0) + r

\* A write of one row moves the sum of the sizes by that row's.
LEMMA UsedMoves ==
  ASSUME IsFiniteSet(Vols), NEW t, NEW q, NEW u \in Vols, DifferAt(t, q, u)
  PROVE  MovedBy(t, q, u)
<1>0. \A v \in Vols : RowShape(t[v]) /\ RowShape(q[v]) /\ (v # u => q[v] = t[v])
  BY DEF DifferAt
<1>1. ASSUME NEW x, \A v \in Vols : RowShape(x[v])
      PROVE  \A v \in Vols : x[v].size \in Nat
  <2> SUFFICES ASSUME NEW v \in Vols PROVE x[v].size \in Nat
    OBVIOUS
  <2>1. PICK s, i : \E z \in Nat : x[v] = [status |-> s, inst |-> i, size |-> z]
    BY <1>1 DEF RowShape
  <2> QED BY <2>1
<1>2. ASSUME NEW x, \A v \in Vols : x[v].size \in Nat
      PROVE  /\ SumFunctionOnSet(SizesIn(x), LiveIn(x) \ {u}) \in Nat
             /\ UsedIn(x) = (IF u \in LiveIn(x) THEN x[u].size ELSE 0) + SumFunctionOnSet(SizesIn(x), LiveIn(x) \ {u})
  <2> DEFINE f == SizesIn(x)
             L == LiveIn(x)
             M == LiveIn(x) \ {u}
  <2>1. L \subseteq Vols /\ M \subseteq Vols /\ IsFiniteSet(L) /\ IsFiniteSet(M)
    <3>1. L \subseteq Vols /\ M \subseteq Vols
      BY DEF LiveIn
    <3> HIDE DEF L, M
    <3> QED BY <3>1, CardSub
  <2>2. \A v \in Vols : f[v] = x[v].size /\ f[v] \in Nat
    BY <1>2 DEF SizesIn
  <2>3. u \in L => L \ {u} = M
    OBVIOUS
  <2>4. u \notin L => L = M
    OBVIOUS
  <2>5. UsedIn(x) = SumFunctionOnSet(f, L)
    BY DEF UsedIn
  <2> HIDE DEF f, L, M
  <2>6. \A v \in L : f[v] \in Int
    BY <2>1, <2>2
  <2>7. \A v \in M : f[v] \in Nat
    BY <2>1, <2>2
  <2>8. SumFunctionOnSet(f, M) \in Nat
    BY <2>1, <2>7, SumNat
  <2>9. CASE u \in L
    <3>1. SumFunctionOnSet(f, L) = f[u] + SumFunctionOnSet(f, L \ {u})
      BY <2>1, <2>6, <2>9, SumTakes
    <3>2. UsedIn(x) = (IF u \in L THEN x[u].size ELSE 0) + SumFunctionOnSet(f, M)
      BY <2>2, <2>3, <2>5, <2>9, <3>1
    <3> QED BY <2>8, <3>2 DEF f, L, M
  <2>10. CASE u \notin L
    <3>1. UsedIn(x) = (IF u \in L THEN x[u].size ELSE 0) + SumFunctionOnSet(f, M)
      BY <2>4, <2>5, <2>8, <2>10
    <3> QED BY <2>8, <3>1 DEF f, L, M
  <2> QED BY <2>9, <2>10
<1>3. SumFunctionOnSet(SizesIn(q), LiveIn(q) \ {u}) = SumFunctionOnSet(SizesIn(t), LiveIn(t) \ {u})
  <2> DEFINE f == SizesIn(t)
             g == SizesIn(q)
             M == LiveIn(t) \ {u}
  <2>1. M \subseteq Vols /\ LiveIn(q) \ {u} = M
    BY <1>0 DEF LiveIn
  <2>2. \A v \in M : f[v] \in Int /\ g[v] = f[v]
    BY <1>0, <1>1 DEF LiveIn, SizesIn
  <2> HIDE DEF f, g, M
  <2>3. IsFiniteSet(M)
    BY <2>1, CardSub
  <2>4. SumFunctionOnSet(g, M) = SumFunctionOnSet(f, M)
    BY <2>2, <2>3, SumSame
  <2>5. SumFunctionOnSet(g, LiveIn(q) \ {u}) = SumFunctionOnSet(f, LiveIn(t) \ {u})
    BY <2>1, <2>4 DEF M
  <2> QED BY <2>5 DEF f, g
<1>4. /\ SumFunctionOnSet(SizesIn(t), LiveIn(t) \ {u}) \in Nat
      /\ UsedIn(t) = (IF u \in LiveIn(t) THEN t[u].size ELSE 0) + SumFunctionOnSet(SizesIn(t), LiveIn(t) \ {u})
      /\ UsedIn(q) = (IF u \in LiveIn(q) THEN q[u].size ELSE 0) + SumFunctionOnSet(SizesIn(q), LiveIn(q) \ {u})
  BY <1>0, <1>1, <1>2
<1> QED BY <1>3, <1>4 DEF MovedBy

LEMMA RowFields ==
  ASSUME NEW s, NEW i, NEW z \in Nat, NEW r, r = [status |-> s, inst |-> i, size |-> z]
  PROVE  RowShape(r) /\ r.status = s /\ r.inst = i /\ r.size = z
BY DEF RowShape

\* What an operation makes of the row it read.
LEMMA RowAfter ==
  ASSUME NEW k, HoldsRow(k), k.op \in Storage!Writes, NEW r, r = Storage!NewRow(k)
  PROVE  /\ RowShape(r)
         /\ r.status \in {"ready", "attached"} <=> k.op # "delete"
         /\ k.op \in {"create", "resize"} => r.size = k.arg.size
         /\ k.op \in {"attach", "detach"} => r.size = k.row.size
         /\ k.op = "create" => ~Storage!IsAttached(r)
         /\ k.op = "attach" => Storage!IsAttached(r) /\ r.inst = k.arg.guest
         /\ k.op = "detach" => ~Storage!IsAttached(r)
         /\ k.op = "resize" => r.inst = k.row.inst /\ r.status = k.row.status
<1>1. PICK s, i : \E z \in Nat : k.row = [status |-> s, inst |-> i, size |-> z]
  BY DEF HoldsRow, RowShape
<1>2. PICK z \in Nat : k.row = [status |-> s, inst |-> i, size |-> z]
  BY <1>1
<1>3. k.row.status = s /\ k.row.inst = i /\ k.row.size = z
  BY <1>2
<1>4. CASE k.op = "create"
  <2>1. r = [status |-> "ready", inst |-> Storage!NoId, size |-> k.arg.size] /\ k.arg.size \in Nat
    BY <1>4 DEF Storage!NewRow, HoldsRow
  <2>2. RowShape(r) /\ r.status = "ready" /\ r.inst = Storage!NoId /\ r.size = k.arg.size
    BY <2>1, RowFields
  <2> QED BY <1>4, <2>2 DEF Storage!IsAttached
<1>5. CASE k.op = "attach"
  <2>1. r = [k.row EXCEPT !.inst = k.arg.guest, !.status = "attached"] /\ k.arg.guest # Storage!NoId
    BY <1>5 DEF Storage!NewRow, HoldsRow
  <2>2. r = [status |-> "attached", inst |-> k.arg.guest, size |-> z]
    <3>1. PICK g, m : g = k.arg.guest /\ m = [k.row EXCEPT !.inst = g]
      OBVIOUS
    <3>2. m = [status |-> s, inst |-> g, size |-> z]
      BY <1>2, <3>1
    <3>3. r = [m EXCEPT !.status = "attached"]
      BY <2>1, <3>1
    <3>4. r = [status |-> "attached", inst |-> g, size |-> z]
      BY <3>2, <3>3
    <3> QED BY <3>1, <3>4
  <2>3. RowShape(r) /\ r.status = "attached" /\ r.inst = k.arg.guest /\ r.size = z
    BY <2>2, RowFields
  <2> QED BY <1>3, <1>5, <2>1, <2>3 DEF Storage!IsAttached
<1>6. CASE k.op = "detach"
  <2>1. r = [k.row EXCEPT !.inst = Storage!NoId, !.status = "ready"]
    BY <1>6 DEF Storage!NewRow
  <2>2. r = [status |-> "ready", inst |-> Storage!NoId, size |-> z]
    <3>1. PICK g, m : g = Storage!NoId /\ m = [k.row EXCEPT !.inst = g]
      OBVIOUS
    <3>2. m = [status |-> s, inst |-> g, size |-> z]
      BY <1>2, <3>1
    <3>3. r = [m EXCEPT !.status = "ready"]
      BY <2>1, <3>1
    <3>4. r = [status |-> "ready", inst |-> g, size |-> z]
      BY <3>2, <3>3
    <3> QED BY <3>1, <3>4
  <2>3. RowShape(r) /\ r.status = "ready" /\ r.inst = Storage!NoId /\ r.size = z
    BY <2>2, RowFields
  <2> QED BY <1>3, <1>6, <2>3 DEF Storage!IsAttached
<1>7. CASE k.op = "resize"
  <2>1. r = [status |-> s, inst |-> i, size |-> k.arg.size] /\ k.arg.size \in Nat /\ s \in {"ready", "attached"}
    BY <1>2, <1>3, <1>7 DEF Storage!NewRow, HoldsRow
  <2>2. RowShape(r) /\ r.status = s /\ r.inst = i /\ r.size = k.arg.size
    BY <2>1, RowFields
  <2> QED BY <1>3, <1>7, <2>1, <2>2
<1>8. CASE k.op = "delete"
  <2>1. r = Storage!Deleted
    BY <1>8 DEF Storage!NewRow
  <2>2. r = [status |-> "deleted", inst |-> Storage!NoId, size |-> 0]
    BY <2>1 DEF Storage!Deleted, Storage!NoRow
  <2>3. RowShape(r) /\ r.status = "deleted"
    BY <2>2, RowFields
  <2> QED BY <1>8, <2>3
<1> QED BY <1>4, <1>5, <1>6, <1>7, <1>8 DEF Storage!Writes

\* A write of the table leaves what UsedAfter and the driver make good.
LEMMA Written ==
  ASSUME IsFiniteSet(Vols), VolInv, \A v \in Vols : RowShape(vols[v]), StoresMatch,
         NEW k, HoldsRow(k), k.op \in Storage!Writes, k.vol \in Vols, vols[k.vol] = k.row, k.used = pool.used,
         Storage!VolumeWritable(k), NEW q, q = [vols EXCEPT ![k.vol] = Storage!NewRow(k)]
  PROVE  /\ \A v \in Vols : RowShape(q[v])
         /\ k.op \in {"create", "resize", "delete"} => Counts(Storage!UsedAfter(k), q)
         /\ k.op \in {"attach", "detach"} => Counts(pool.used, q)
         /\ NodeIn(q, Storage!DriverVolumes(k), Storage!DriverDisks(k))
<1>1. PICK S : vols \in [Vols -> S]
  BY DEF VolInv
<1>2. PICK u, r : u = k.vol /\ r = Storage!NewRow(k)
  OBVIOUS
<1>3. u \in Vols /\ q[u] = r /\ \A v \in Vols : v # u => q[v] = vols[v]
  BY <1>1, <1>2
<1>4. /\ RowShape(r)
      /\ r.status \in {"ready", "attached"} <=> k.op # "delete"
      /\ k.op \in {"create", "resize"} => r.size = k.arg.size
      /\ k.op \in {"attach", "detach"} => r.size = k.row.size
      /\ k.op = "create" => ~Storage!IsAttached(r)
      /\ k.op = "attach" => Storage!IsAttached(r) /\ r.inst = k.arg.guest
      /\ k.op = "detach" => ~Storage!IsAttached(r)
      /\ k.op = "resize" => r.inst = k.row.inst /\ r.status = k.row.status
  BY <1>2, RowAfter
<1>5. \A v \in Vols : RowShape(q[v])
  BY <1>3, <1>4
<1>6. /\ u \in LiveIn(q) <=> k.op # "delete"
      /\ u \in LiveIn(vols) <=> k.op # "create"
      /\ \A v \in Vols : v # u => (v \in LiveIn(q) <=> v \in LiveIn(vols))
      /\ LiveIn(q) \subseteq Vols /\ LiveIn(vols) \subseteq Vols
  BY <1>2, <1>3, <1>4 DEF LiveIn, HoldsRow
<1>7. \A v, w \in LiveIn(vols) : NameOf[v] = NameOf[w] => v = w
  BY DEF VolInv, LiveIn, Storage!Live, Storage!Exists
<1>8. k.op = "create" => \A v \in LiveIn(vols) : NameOf[v] # NameOf[u]
  BY <1>2 DEF Storage!VolumeWritable, LiveIn, Storage!Exists
<1>9. \A v \in LiveIn(q) : v # u => NameOf[v] # NameOf[u]
  BY <1>6, <1>7, <1>8
<1>10. (booked => pool.used = UsedIn(vols)) /\ VolumesIn(vols, nodeVols) /\ nodeDisks = DisksIn(vols)
  BY DEF StoresMatch, Counts, NodeIn
<1>11. vols[u] = k.row /\ k.row.size \in Nat /\ (k.op \in {"create", "resize"} => k.arg.size \in Nat)
  <2>1. PICK s, i : \E z \in Nat : k.row = [status |-> s, inst |-> i, size |-> z]
    BY DEF HoldsRow, RowShape
  <2> QED BY <1>2, <2>1 DEF HoldsRow
<1>12. /\ k.op \in {"create", "resize", "delete"} => Counts(Storage!UsedAfter(k), q)
       /\ k.op \in {"attach", "detach"} => Counts(pool.used, q)
  <2> SUFFICES ASSUME booked
               PROVE  /\ k.op \in {"create", "resize", "delete"} => Storage!UsedAfter(k) = UsedIn(q)
                      /\ k.op \in {"attach", "detach"} => pool.used = UsedIn(q)
    BY DEF Counts
  <2>1. PICK t : t = vols
    OBVIOUS
  <2>9. DifferAt(t, q, u)
    BY <1>3, <1>5, <2>1 DEF DifferAt
  <2>8. MovedBy(t, q, u)
    BY <1>3, <2>9, UsedMoves
  <2>2. PICK x \in Nat : /\ UsedIn(vols) = (IF u \in LiveIn(vols) THEN vols[u].size ELSE 0) + x
                         /\ UsedIn(q) = (IF u \in LiveIn(q) THEN q[u].size ELSE 0) + x
    BY <2>1, <2>8 DEF MovedBy
  <2>3. /\ k.used = (IF k.op # "create" THEN k.row.size ELSE 0) + x
        /\ UsedIn(q) = (IF k.op # "delete" THEN r.size ELSE 0) + x
    BY <1>3, <1>6, <1>10, <1>11, <2>2
  <2> QED BY <1>4, <1>10, <1>11, <2>3 DEF Storage!UsedAfter
<1>13. VolumesIn(q, Storage!DriverVolumes(k))
  <2>1. PICK N : nodeVols \in [Storage!VolNames -> N]
    BY <1>10 DEF VolumesIn
  <2>2. PICK n : n = NameOf[u]
    OBVIOUS
  <2>3. n \in Storage!VolNames /\ \A v \in Vols : NameOf[v] \in Storage!VolNames
    BY <1>3, <2>2 DEF Storage!VolNames
  <2>4. CASE k.op \in {"create", "resize", "delete"}
    <3>1. PICK z : z = IF k.op = "delete" THEN 0 ELSE k.arg.size
      OBVIOUS
    <3>2. Storage!DriverVolumes(k) = [nodeVols EXCEPT ![n] = z]
      BY <1>2, <2>2, <2>4, <3>1 DEF Storage!DriverVolumes
    <3>3. PICK d : d = [nodeVols EXCEPT ![n] = z]
      OBVIOUS
    <3>4. d \in [Storage!VolNames -> N \cup {z}] /\ d[n] = z /\ \A m \in Storage!VolNames : m # n => d[m] = nodeVols[m]
      BY <2>1, <2>3, <3>3
    <3>5. \A v \in LiveIn(q) : d[NameOf[v]] = q[v].size
      <4> SUFFICES ASSUME NEW v \in LiveIn(q) PROVE d[NameOf[v]] = q[v].size
        OBVIOUS
      <4>1. CASE v = u
        BY <1>3, <1>4, <1>6, <2>2, <2>4, <3>1, <3>4, <4>1
      <4>2. CASE v # u
        <5>1. NameOf[v] # n /\ NameOf[v] \in Storage!VolNames /\ v \in LiveIn(vols) /\ q[v] = vols[v]
          BY <1>3, <1>6, <1>9, <2>2, <2>3, <4>2
        <5> QED BY <1>10, <3>4, <5>1 DEF VolumesIn
      <4> QED BY <4>1, <4>2
    <3>6. \A m \in Storage!VolNames : d[m] # 0 => \E v \in LiveIn(q) : NameOf[v] = m
      <4> SUFFICES ASSUME NEW m \in Storage!VolNames, d[m] # 0 PROVE \E v \in LiveIn(q) : NameOf[v] = m
        OBVIOUS
      <4>1. CASE m = n
        BY <1>6, <2>2, <3>1, <3>4, <4>1
      <4>2. CASE m # n
        <5>1. PICK v \in LiveIn(vols) : NameOf[v] = m
          BY <1>10, <3>4, <4>2 DEF VolumesIn
        <5> QED BY <1>6, <2>2, <4>2, <5>1
      <4> QED BY <4>1, <4>2
    <3>7. VolumesIn(q, d)
      BY <3>4, <3>5, <3>6 DEF VolumesIn
    <3> QED BY <3>2, <3>3, <3>7
  <2>5. CASE k.op \in {"attach", "detach"}
    <3>1. Storage!DriverVolumes(k) = nodeVols
      BY <2>5 DEF Storage!DriverVolumes
    <3>2. LiveIn(q) = LiveIn(vols)
      <4>1. \A v \in Vols : v \in LiveIn(q) <=> v \in LiveIn(vols)
        BY <1>6, <2>5
      <4> QED BY <1>6, <4>1
    <3>3. \A v \in LiveIn(q) : q[v].size = vols[v].size
      BY <1>3, <1>4, <1>6, <1>11, <2>5
    <3> QED BY <1>10, <3>1, <3>2, <3>3 DEF VolumesIn
  <2> QED BY <2>4, <2>5 DEF Storage!Writes
<1>14. Storage!DriverDisks(k) = DisksIn(q)
  <2> DEFINE D(t) == {w \in LiveIn(t) : Storage!IsAttached(t[w])}
  <2>1. \A v \in Vols : v # u => (v \in D(q) <=> v \in D(vols))
    BY <1>3, <1>6
  <2>2. D(q) \subseteq Vols /\ D(vols) \subseteq Vols
    BY <1>6
  <2>3. /\ k.op = "attach" => u \in D(q) /\ u \notin D(vols) /\ r.inst = k.arg.guest
        /\ k.op = "detach" => u \notin D(q) /\ u \in D(vols) /\ vols[u].inst = k.arg.guest
        /\ k.op = "create" => u \notin D(q) /\ u \notin D(vols)
        /\ k.op = "delete" => u \notin D(q) /\ u \notin D(vols)
        /\ k.op = "resize" => (u \in D(q) <=> u \in D(vols)) /\ q[u].inst = vols[u].inst
    BY <1>3, <1>4, <1>6, <1>11 DEF HoldsRow, Storage!IsAttached
  <2>4. /\ DisksIn(q) = {<<q[v].inst, NameOf[v]>> : v \in D(q)}
        /\ nodeDisks = {<<vols[v].inst, NameOf[v]>> : v \in D(vols)}
    BY <1>10 DEF DisksIn
  <2>5. \A v \in D(q) \cup D(vols) : v # u => NameOf[v] # NameOf[u] /\ q[v].inst = vols[v].inst
    BY <1>3, <1>6, <1>9, <2>1
  <2> HIDE DEF D
  <2>6. CASE k.op \in {"create", "delete", "resize"}
    <3>1. D(q) = D(vols) /\ \A v \in D(q) : q[v].inst = vols[v].inst
      <4>1. \A v \in Vols : v \in D(q) <=> v \in D(vols)
        BY <2>1, <2>3, <2>6
      <4>2. D(q) = D(vols)
        BY <2>2, <4>1
      <4>3. u \in D(q) => k.op = "resize"
        BY <2>3, <2>6
      <4> QED BY <2>3, <2>5, <4>2, <4>3
    <3>2. Storage!DriverDisks(k) = nodeDisks
      BY <2>6 DEF Storage!DriverDisks
    <3>3. {<<q[v].inst, NameOf[v]>> : v \in D(q)} = {<<vols[v].inst, NameOf[v]>> : v \in D(vols)}
      BY <3>1, Zenon
    <3> QED BY <2>4, <3>2, <3>3
  <2>7. CASE k.op = "attach"
    <3>1. D(q) = D(vols) \cup {u} /\ q[u].inst = k.arg.guest /\ \A v \in D(vols) : q[v].inst = vols[v].inst
      BY <1>3, <2>1, <2>2, <2>3, <2>5, <2>7
    <3>2. Storage!DriverDisks(k) = nodeDisks \cup {<<k.arg.guest, NameOf[u]>>}
      BY <1>2, <2>7 DEF Storage!DriverDisks
    <3>3. {<<q[v].inst, NameOf[v]>> : v \in D(q)}
          = {<<vols[v].inst, NameOf[v]>> : v \in D(vols)} \cup {<<k.arg.guest, NameOf[u]>>}
      BY <3>1
    <3> QED BY <2>4, <3>2, <3>3
  <2>8. CASE k.op = "detach"
    <3>1. D(q) = D(vols) \ {u} /\ vols[u].inst = k.arg.guest /\ \A v \in D(q) : q[v].inst = vols[v].inst /\ NameOf[v] # NameOf[u]
      BY <1>3, <2>1, <2>2, <2>3, <2>5, <2>8
    <3>2. Storage!DriverDisks(k) = nodeDisks \ {<<k.arg.guest, NameOf[u]>>}
      BY <1>2, <2>8 DEF Storage!DriverDisks
    <3>3. \A v \in D(vols) : v # u => <<vols[v].inst, NameOf[v]>> # <<k.arg.guest, NameOf[u]>>
      BY <2>5
    <3>4. {<<q[v].inst, NameOf[v]>> : v \in D(q)}
          = {<<vols[v].inst, NameOf[v]>> : v \in D(vols)} \ {<<k.arg.guest, NameOf[u]>>}
      <4> DEFINE A == {<<q[v].inst, NameOf[v]>> : v \in D(q)}
                 B == {<<vols[v].inst, NameOf[v]>> : v \in D(vols)}
                 x == <<k.arg.guest, NameOf[u]>>
      <4>1. \A p \in A : p \in B /\ p # x
        <5> SUFFICES ASSUME NEW v \in D(q)
                     PROVE  <<q[v].inst, NameOf[v]>> \in B /\ <<q[v].inst, NameOf[v]>> # x
          OBVIOUS
        <5>1. v \in D(vols) /\ v # u /\ q[v].inst = vols[v].inst
          BY <3>1
        <5>2. <<vols[v].inst, NameOf[v]>> \in B
          BY <5>1
        <5>3. <<vols[v].inst, NameOf[v]>> # x
          BY <3>3, <5>1
        <5> QED BY <5>1, <5>2, <5>3
      <4>2. \A p \in B : p # x => p \in A
        <5> SUFFICES ASSUME NEW v \in D(vols), <<vols[v].inst, NameOf[v]>> # x PROVE <<vols[v].inst, NameOf[v]>> \in A
          OBVIOUS
        <5>1. v # u
          BY <3>1
        <5>2. v \in D(q) /\ q[v].inst = vols[v].inst
          BY <3>1, <5>1
        <5> QED BY <5>2
      <4> HIDE DEF A, B, x
      <4>3. A = B \ {x}
        BY <4>1, <4>2
      <4> QED BY <4>3 DEF A, B, x
    <3> QED BY <2>4, <3>2, <3>4
  <2> QED BY <2>6, <2>7, <2>8 DEF Storage!Writes
<1> QED BY <1>5, <1>12, <1>13, <1>14 DEF NodeIn

\* A step of one call, the others idle, leaves the stores in order if it leaves
\* its own call so.
LEMMA OneCall ==
  ASSUME VolInv, InOrder, NEW c \in Clients, NEW m, storageCall' = [storageCall EXCEPT ![c] = m],
         storageCall[c].pc # "idle" \/ \A d \in Clients : storageCall[d].pc = "idle",
         \A v \in Vols : RowShape(vols'[v]), \E e, u : pool' = [exists |-> e, used |-> u],
         m.pc = "idle" => StoresMatch', m.pc # "idle" => CallStage(m)'
  PROVE  InOrder'
<1>1. PICK S : storageCall \in [Clients -> S]
  BY DEF VolInv
<1>2. storageCall'[c] = m /\ \A d \in Clients : d # c => storageCall'[d] = storageCall[d]
  BY <1>1
<1>3. \A d \in Clients : d # c => storageCall[d].pc = "idle"
  BY DEF InOrder
<1>4. \A d \in Clients : d # c => storageCall'[d].pc = "idle"
  BY <1>2, <1>3
<1>5. \A d \in Clients : storageCall'[d].pc # "idle" => d = c
  BY <1>4
<1>6. (\A d \in Clients : storageCall'[d].pc = "idle") => StoresMatch'
  BY <1>2
<1>7. \A d \in Clients : storageCall'[d].pc # "idle" => CallStage(storageCall[d])'
  <2> SUFFICES ASSUME NEW d \in Clients, storageCall'[d].pc # "idle" PROVE CallStage(storageCall[d])'
    OBVIOUS
  <2>1. storageCall'[d] = m /\ m.pc # "idle"
    BY <1>2, <1>5
  <2>2. CallStage(m)'
    BY <2>1
  <2> QED BY <2>1, <2>2 DEF CallStage, Storage!DriverVolumes, Storage!DriverDisks, Storage!UsedAfter
<1> QED BY <1>5, <1>6, <1>7 DEF InOrder

LEMMA CallMoved ==
  ASSUME NEW k, CallShape(k), NEW x, NEW m, m = [k EXCEPT !.pc = x]
  PROVE  m.pc = x /\ m.op = k.op /\ m.vol = k.vol /\ m.arg = k.arg /\ m.row = k.row /\ m.used = k.used
<1>1. PICK q, o, v, a, r, y : k = [pc |-> q, op |-> o, vol |-> v, arg |-> a, row |-> r, used |-> y]
  BY DEF CallShape
<1>2. m = [pc |-> x, op |-> o, vol |-> v, arg |-> a, row |-> r, used |-> y]
  BY <1>1
<1> QED BY <1>1, <1>2

LEMMA CallRead ==
  ASSUME NEW k, CallShape(k), NEW x, NEW u, NEW n, n = [k EXCEPT !.used = u], NEW m, m = [n EXCEPT !.pc = x]
  PROVE  m.pc = x /\ m.op = k.op /\ m.vol = k.vol /\ m.arg = k.arg /\ m.row = k.row /\ m.used = u
<1>1. PICK q, o, v, a, r, y : k = [pc |-> q, op |-> o, vol |-> v, arg |-> a, row |-> r, used |-> y]
  BY DEF CallShape
<1>2. n = [pc |-> q, op |-> o, vol |-> v, arg |-> a, row |-> r, used |-> u]
  BY <1>1
<1>4. m.pc = x /\ m.op = n.op /\ m.vol = n.vol /\ m.arg = n.arg /\ m.row = n.row /\ m.used = n.used
  BY <1>2
<1> QED BY <1>1, <1>2, <1>4

\* The stores as they were before.
StoresSame == UNCHANGED <<vols, pool, booked, nodeVols, nodeDisks>>

LEMMA SameAgree == StoresMatch /\ StoresSame => StoresMatch'
BY DEF StoresSame, StoresMatch, Counts

\* What the driver and UsedAfter make of a call does not depend on its place.
LEMMA SameEffect ==
  ASSUME NEW k, NEW m, m.op = k.op, m.vol = k.vol, m.arg = k.arg, m.row = k.row, UNCHANGED <<nodeVols, nodeDisks>>
  PROVE  /\ Storage!DriverVolumes(m)' = Storage!DriverVolumes(k) /\ Storage!DriverDisks(m)' = Storage!DriverDisks(k)
         /\ HoldsRow(k) => HoldsRow(m)
         /\ m.used = k.used => Storage!UsedAfter(m) = Storage!UsedAfter(k)
<1>1. Storage!DriverVolumes(m)' = Storage!DriverVolumes(k)
  BY DEF Storage!DriverVolumes
<1>2. Storage!DriverDisks(m)' = Storage!DriverDisks(k)
  BY DEF Storage!DriverDisks
<1>3. HoldsRow(k) => HoldsRow(m)
  BY DEF HoldsRow
<1>4. m.used = k.used => Storage!UsedAfter(m) = Storage!UsedAfter(k)
  BY DEF Storage!UsedAfter
<1> QED BY <1>1, <1>2, <1>3, <1>4

LEMMA StartOrder ==
  ASSUME VolInv, InOrder, clean', NEW c \in Clients, NEW op, NEW v \in Vols, NEW arg, Storage!Starts(c, op, v, arg),
         NEW k, k = [pc |-> "pool", op |-> op, vol |-> v, arg |-> arg, row |-> vols[v], used |-> 0], HoldsRow(k)
  PROVE  InOrder'
<1>1. (\A d \in Clients : storageCall[d].pc = "idle") /\ storageCall' = [storageCall EXCEPT ![c] = k] /\ StoresSame
  BY DEF Storage!Starts, Storage!rows, Storage!node, StoresSame
<1>2. k.pc = "pool" /\ k.vol = v /\ k.row = vols[v]
  OBVIOUS
<1>3. StoresMatch'
  BY <1>1, SameAgree DEF InOrder
<1>4. CallStage(k)'
  BY <1>1, <1>2, <1>3 DEF CallStage, StoresSame
<1>5. (\A w \in Vols : RowShape(vols'[w])) /\ \E e, u : pool' = [exists |-> e, used |-> u]
  BY <1>1 DEF InOrder, StoresSame
<1> QED BY <1>1, <1>2, <1>4, <1>5, OneCall

LEMMA ReadOrder ==
  ASSUME VolInv, InOrder, NEW c \in Clients, Storage!PoolGetByID(c)
  PROVE  InOrder'
<1>1. PICK k, x : k = storageCall[c] /\ x = IF k.op = "restore" THEN "send" ELSE "row"
  OBVIOUS
<1>2. PICK u, m : u = pool.used /\ m = [k EXCEPT !.used = u, !.pc = x]
  OBVIOUS
<1>3. k.pc = "pool" /\ storageCall' = [storageCall EXCEPT ![c] = m] /\ StoresSame
  BY <1>1, <1>2 DEF Storage!PoolGetByID, Storage!rows, Storage!node, StoresSame
<1>4. CallShape(k) /\ CallStage(k)
  BY <1>1, <1>3 DEF VolInv, InOrder
<1>5. m.pc = x /\ m.op = k.op /\ m.vol = k.vol /\ m.arg = k.arg /\ m.row = k.row /\ m.used = u
  <2>1. PICK n : n = [k EXCEPT !.used = u]
    OBVIOUS
  <2>2. m = [n EXCEPT !.pc = x]
    BY <1>2, <2>1
  <2> QED BY <1>4, <2>1, <2>2, CallRead
<1>6. /\ Storage!DriverVolumes(m)' = Storage!DriverVolumes(k) /\ Storage!DriverDisks(m)' = Storage!DriverDisks(k) /\ HoldsRow(m)
  BY <1>3, <1>4, <1>5, SameEffect DEF CallStage, StoresSame
<1>7. StoresMatch' /\ StoresMatch /\ vols'[m.vol] = m.row
  BY <1>3, <1>4, <1>5, SameAgree DEF CallStage, StoresSame
<1>8. CallStage(m)'
  <2>1. CASE k.op = "restore"
    <3>1. Storage!DriverVolumes(k) = nodeVols /\ Storage!DriverDisks(k) = nodeDisks
      BY <2>1 DEF Storage!DriverVolumes, Storage!DriverDisks
    <3> QED BY <1>1, <1>3, <1>5, <1>6, <1>7, <2>1, <3>1 DEF CallStage, StoresMatch, StoresSame, Counts
  <2>2. CASE k.op # "restore"
    BY <1>1, <1>2, <1>3, <1>5, <1>6, <1>7, <2>2 DEF CallStage, StoresSame
  <2> QED BY <2>1, <2>2
<1>9. (\A w \in Vols : RowShape(vols'[w])) /\ \E e, y : pool' = [exists |-> e, used |-> y]
  BY <1>3 DEF InOrder, StoresSame
<1>10. m.pc # "idle" /\ storageCall[c].pc # "idle"
  BY <1>1, <1>3, <1>5
<1> QED BY <1>3, <1>8, <1>9, <1>10, OneCall

\* A call that ends with an error before it wrote anything leaves all as it was.
LEMMA RefusedOrder ==
  ASSUME VolInv, InOrder, NEW c \in Clients, storageCall[c].pc \in {"pool", "row"}, storageCall' = [storageCall EXCEPT ![c] = Storage!Idle], StoresSame
  PROVE  InOrder'
<1>1. StoresMatch'
  BY SameAgree DEF InOrder, CallStage
<1>2. PICK m : m = Storage!Idle
  OBVIOUS
<1>3. m.pc = "idle"
  <2>1. PICK o, v, a, r, u : m = [pc |-> "idle", op |-> o, vol |-> v, arg |-> a, row |-> r, used |-> u]
    BY <1>2, Zenon DEF Storage!Idle
  <2> QED BY <2>1
<1>4. (\A w \in Vols : RowShape(vols'[w])) /\ \E e, y : pool' = [exists |-> e, used |-> y]
  BY DEF InOrder, StoresSame
<1> QED BY <1>1, <1>2, <1>3, <1>4, OneCall

LEMMA WriteOrder ==
  ASSUME VolInv, InOrder, IsFiniteSet(Vols), NEW c \in Clients, Storage!VolumeWrite(c)
  PROVE  InOrder'
<1>1. PICK k, x : k = storageCall[c] /\ x = IF k.op \in {"attach", "detach"} THEN "send" ELSE "used"
  OBVIOUS
<1>2. PICK m : m = [k EXCEPT !.pc = x]
  OBVIOUS
<1>3. k.pc = "row" /\ k.op \in Storage!Writes /\ UNCHANGED <<pool, booked, nodeVols, nodeDisks>>
  BY <1>1 DEF Storage!VolumeWrite, Storage!node
<1>4. CallShape(k) /\ CallStage(k) /\ k.vol \in Vols
  BY <1>1, <1>3 DEF VolInv, InOrder, CallShape
<1>5. CASE ~Storage!VolumeWritable(k)
  BY <1>1, <1>3, <1>5, RefusedOrder DEF Storage!VolumeWrite, StoresSame
<1>6. CASE Storage!VolumeWritable(k)
  <2>1. PICK q : q = [vols EXCEPT ![k.vol] = Storage!NewRow(k)]
    OBVIOUS
  <2>2. vols' = q /\ storageCall' = [storageCall EXCEPT ![c] = m]
    BY <1>1, <1>2, <1>6, <2>1 DEF Storage!VolumeWrite
  <2>3. HoldsRow(k) /\ StoresMatch /\ vols[k.vol] = k.row /\ k.used = pool.used /\ \A v \in Vols : RowShape(vols[v])
    BY <1>3, <1>4 DEF CallStage, InOrder
  <2>4. /\ \A v \in Vols : RowShape(q[v])
        /\ k.op \in {"create", "resize", "delete"} => Counts(Storage!UsedAfter(k), q)
        /\ k.op \in {"attach", "detach"} => Counts(pool.used, q)
        /\ NodeIn(q, Storage!DriverVolumes(k), Storage!DriverDisks(k))
    BY <1>3, <1>4, <1>6, <2>1, <2>3, Written
  <2>5. m.pc = x /\ m.op = k.op /\ m.vol = k.vol /\ m.arg = k.arg /\ m.row = k.row /\ m.used = k.used
    BY <1>2, <1>4, CallMoved
  <2>6. Storage!DriverVolumes(m)' = Storage!DriverVolumes(k) /\ Storage!DriverDisks(m)' = Storage!DriverDisks(k) /\ HoldsRow(m) /\ Storage!UsedAfter(m) = Storage!UsedAfter(k)
    BY <1>3, <2>3, <2>5, SameEffect
  <2>7. CallStage(m)'
    <3>1. x = "send" => Counts(pool.used, q)
      BY <1>1, <2>4
    <3>2. x = "used" => Counts(Storage!UsedAfter(k), q)
      BY <1>1, <1>3, <2>4 DEF Storage!Writes
    <3>3. NodeIn(vols', Storage!DriverVolumes(m)', Storage!DriverDisks(m)') /\ (x = "send" => Counts(pool.used, vols)')
          /\ (x = "used" => Counts(Storage!UsedAfter(m), vols)') /\ x \in {"send", "used"}
      BY <1>1, <1>3, <2>2, <2>4, <2>6, <3>1, <3>2 DEF Counts, Storage!UsedAfter
    <3> QED BY <2>5, <2>6, <3>3 DEF CallStage
  <2>8. m.pc # "idle" /\ storageCall[c].pc # "idle"
    BY <1>1, <1>3, <2>5
  <2>9. (\A w \in Vols : RowShape(vols'[w])) /\ \E e, y : pool' = [exists |-> e, used |-> y]
    BY <1>3, <2>2, <2>4 DEF InOrder
  <2> QED BY <2>2, <2>7, <2>8, <2>9, OneCall
<1> QED BY <1>5, <1>6

LEMMA SnapOrder ==
  ASSUME VolInv, InOrder, NEW c \in Clients, Storage!SnapshotWrite(c)
  PROVE  InOrder'
<1>1. PICK k, m : k = storageCall[c] /\ m = [k EXCEPT !.pc = "send"]
  OBVIOUS
<1>2. k.pc = "row" /\ k.op \in {"snapshot", "drop"} /\ StoresSame
  BY <1>1 DEF Storage!SnapshotWrite, Storage!node, StoresSame
<1>3. CASE ~Storage!SnapshotWritable(k)
  BY <1>1, <1>2, <1>3, RefusedOrder DEF Storage!SnapshotWrite
<1>4. CASE Storage!SnapshotWritable(k)
  <2>1. storageCall' = [storageCall EXCEPT ![c] = m]
    BY <1>1, <1>4 DEF Storage!SnapshotWrite
  <2>2. CallShape(k) /\ CallStage(k)
    BY <1>1, <1>2 DEF VolInv, InOrder
  <2>3. m.pc = "send" /\ m.op = k.op /\ m.vol = k.vol /\ m.arg = k.arg /\ m.row = k.row /\ m.used = k.used
    BY <1>1, <2>2, CallMoved
  <2>4. Storage!DriverVolumes(m)' = Storage!DriverVolumes(k) /\ Storage!DriverDisks(m)' = Storage!DriverDisks(k) /\ HoldsRow(m)
    BY <1>2, <2>2, <2>3, SameEffect DEF CallStage, StoresSame
  <2>5. Storage!DriverVolumes(k) = nodeVols /\ Storage!DriverDisks(k) = nodeDisks
    BY <1>2 DEF Storage!DriverVolumes, Storage!DriverDisks
  <2>6. StoresMatch /\ StoresMatch'
    BY <1>2, <2>2, SameAgree DEF CallStage
  <2>7. CallStage(m)'
    BY <1>2, <2>3, <2>4, <2>5, <2>6 DEF CallStage, StoresMatch, StoresSame, Counts
  <2>8. m.pc # "idle" /\ storageCall[c].pc # "idle"
    BY <1>1, <1>2, <2>3
  <2>9. (\A w \in Vols : RowShape(vols'[w])) /\ \E e, y : pool' = [exists |-> e, used |-> y]
    BY <1>2 DEF InOrder, StoresSame
  <2> QED BY <2>1, <2>7, <2>8, <2>9, OneCall
<1> QED BY <1>3, <1>4

LEMMA UpdateOrder ==
  ASSUME VolInv, InOrder, NEW c \in Clients, NEW ok \in BOOLEAN, Storage!PoolUpdate(c, ok)
  PROVE  InOrder'
<1>1. PICK k, m : k = storageCall[c] /\ m = [k EXCEPT !.pc = "send"]
  OBVIOUS
<1>2. k.pc = "used" /\ UNCHANGED <<vols, nodeVols, nodeDisks>> /\ storageCall' = [storageCall EXCEPT ![c] = m]
  BY <1>1 DEF Storage!PoolUpdate, Storage!node
<1>3. CallShape(k) /\ CallStage(k)
  BY <1>1, <1>2 DEF VolInv, InOrder
<1>4. PICK u : u = Storage!UsedAfter(k)
  OBVIOUS
<1>5. pool' = (IF ok THEN [pool EXCEPT !.used = u] ELSE pool) /\ booked' = (booked /\ ok)
  BY <1>1, <1>4 DEF Storage!PoolUpdate
<1>6. PICK e, y : pool = [exists |-> e, used |-> y]
  BY DEF InOrder
<1>7. (\E z : pool' = [exists |-> e, used |-> z]) /\ (booked' => booked /\ pool'.used = u)
  BY <1>5, <1>6
<1>8. m.pc = "send" /\ m.op = k.op /\ m.vol = k.vol /\ m.arg = k.arg /\ m.row = k.row /\ m.used = k.used
  BY <1>1, <1>3, CallMoved
<1>9. Storage!DriverVolumes(m)' = Storage!DriverVolumes(k) /\ Storage!DriverDisks(m)' = Storage!DriverDisks(k) /\ HoldsRow(m)
  BY <1>2, <1>3, <1>8, SameEffect DEF CallStage
<1>10. CallStage(m)'
  <2>1. Counts(pool.used, vols)'
    BY <1>2, <1>3, <1>4, <1>7 DEF CallStage, Counts
  <2> QED BY <1>2, <1>3, <1>8, <1>9, <2>1 DEF CallStage
<1>11. m.pc # "idle" /\ storageCall[c].pc # "idle"
  BY <1>1, <1>2, <1>8
<1>12. (\A w \in Vols : RowShape(vols'[w])) /\ \E x, z : pool' = [exists |-> x, used |-> z]
  BY <1>2, <1>7 DEF InOrder
<1> QED BY <1>2, <1>10, <1>11, <1>12, OneCall

LEMMA SendOrder ==
  ASSUME VolInv, InOrder, clean', NEW c \in Clients, NEW sent, Storage!SendCommand(c, sent)
  PROVE  InOrder'
<1>1. PICK k, m : k = storageCall[c] /\ m = Storage!Idle
  OBVIOUS
<1>2. /\ k.pc = "send" /\ UNCHANGED <<vols, pool, booked>> /\ storageCall' = [storageCall EXCEPT ![c] = m] /\ sent
      /\ nodeVols' = Storage!DriverVolumes(k) /\ nodeDisks' = Storage!DriverDisks(k)
  BY <1>1 DEF Storage!SendCommand, Storage!rows
<1>3. CallStage(k)
  BY <1>1, <1>2 DEF InOrder
<1>4. StoresMatch'
  BY <1>2, <1>3 DEF CallStage, StoresMatch, Counts
<1>5. m.pc = "idle"
  <2>1. PICK o, v, a, r, u : m = [pc |-> "idle", op |-> o, vol |-> v, arg |-> a, row |-> r, used |-> u]
    BY <1>1, Zenon DEF Storage!Idle
  <2> QED BY <2>1
<1>6. (\A w \in Vols : RowShape(vols'[w])) /\ \E e, y : pool' = [exists |-> e, used |-> y]
  BY <1>2 DEF InOrder
<1>7. storageCall[c].pc # "idle"
  BY <1>1, <1>2
<1> QED BY <1>2, <1>4, <1>5, <1>6, <1>7, OneCall

\* The calls begin with what their operations need.
LEMMA StartsHeld ==
  ASSUME InOrder, NEW c \in Clients, NEW v \in Vols, Sizes \subseteq Nat, Storage!NoId \notin Guests,
         \/ Storage!DetachVolume(c, v) \/ Storage!DeleteVolume(c, v)
         \/ \E g \in Guests : Storage!AttachVolume(c, v, g)
         \/ \E size \in Sizes : Storage!CreateVolume(c, v, size) \/ Storage!ResizeVolume(c, v, size)
         \/ \E n \in SnapNames : Storage!CreateSnapshot(c, v, n)
         \/ \E s \in snaps : Storage!RestoreSnapshot(c, v, s) \/ Storage!DeleteSnapshot(c, v, s)
  PROVE  \E op, arg, k : /\ Storage!Starts(c, op, v, arg) /\ HoldsRow(k)
                         /\ k = [pc |-> "pool", op |-> op, vol |-> v, arg |-> arg, row |-> vols[v], used |-> 0]
<1> DEFINE Call(op, arg) == [pc |-> "pool", op |-> op, vol |-> v, arg |-> arg, row |-> vols[v], used |-> 0]
<1>0. RowShape(vols[v])
  BY DEF InOrder
<1>1. ASSUME NEW op, NEW arg, Storage!Starts(c, op, v, arg), op \in Storage!Writes \cup {"snapshot", "restore", "drop"},
             IF op = "create" THEN vols[v].status = "none" ELSE vols[v].status \in {"ready", "attached"},
             op \in {"create", "resize"} => arg.size \in Nat,
             op = "attach" => arg.guest # Storage!NoId /\ ~Storage!IsAttached(vols[v]),
             op = "detach" => Storage!IsAttached(vols[v]) /\ arg.guest = vols[v].inst,
             op = "delete" => ~Storage!IsAttached(vols[v])
      PROVE  \E o, a, k : Storage!Starts(c, o, v, a) /\ HoldsRow(k) /\ k = Call(o, a)
  <2>1. PICK k : k = Call(op, arg)
    OBVIOUS
  <2>2. k.op = op /\ k.arg = arg /\ k.row = vols[v]
    BY <2>1
  <2>3. HoldsRow(k)
    BY <1>0, <1>1, <2>2 DEF HoldsRow
  <2> QED BY <1>1, <2>1, <2>3
<1>2. PICK g0, z0, s0 : Storage!NoArg = [guest |-> g0, size |-> z0, snap |-> s0]
  <2>1. \E i : Storage!Idle.arg = [guest |-> i, size |-> 0, snap |-> i]
    BY DEF Storage!Idle
  <2> QED BY <2>1 DEF Storage!NoArg
<1>3. CASE Storage!DetachVolume(c, v)
  <2>1. PICK a : a = [Storage!NoArg EXCEPT !.guest = vols[v].inst]
    OBVIOUS
  <2>2. a.guest = vols[v].inst
    BY <1>2, <2>1
  <2> QED BY <1>1, <1>3, <2>1, <2>2 DEF Storage!DetachVolume, Storage!Exists, Storage!Writes
<1>4. CASE Storage!DeleteVolume(c, v)
  BY <1>1, <1>4 DEF Storage!DeleteVolume, Storage!Exists, Storage!Writes
<1>5. ASSUME NEW g \in Guests, Storage!AttachVolume(c, v, g)
      PROVE  \E o, a, k : Storage!Starts(c, o, v, a) /\ HoldsRow(k) /\ k = Call(o, a)
  <2>1. PICK a : a = [Storage!NoArg EXCEPT !.guest = g]
    OBVIOUS
  <2>2. a.guest = g /\ g # Storage!NoId
    BY <1>2, <2>1
  <2> QED BY <1>1, <1>5, <2>1, <2>2 DEF Storage!AttachVolume, Storage!Exists, Storage!Writes
<1>6. ASSUME NEW z \in Sizes, Storage!CreateVolume(c, v, z) \/ Storage!ResizeVolume(c, v, z)
      PROVE  \E o, a, k : Storage!Starts(c, o, v, a) /\ HoldsRow(k) /\ k = Call(o, a)
  <2>1. PICK a : a = [Storage!NoArg EXCEPT !.size = z]
    OBVIOUS
  <2>2. a.size \in Nat
    BY <1>2, <2>1
  <2>3. CASE Storage!CreateVolume(c, v, z)
    BY <1>1, <2>1, <2>2, <2>3 DEF Storage!CreateVolume, Storage!Writes
  <2>4. CASE Storage!ResizeVolume(c, v, z)
    BY <1>1, <2>1, <2>2, <2>4 DEF Storage!ResizeVolume, Storage!Exists, Storage!Writes
  <2> QED BY <1>6, <2>3, <2>4
<1>7. ASSUME NEW n \in SnapNames, Storage!CreateSnapshot(c, v, n)
      PROVE  \E o, a, k : Storage!Starts(c, o, v, a) /\ HoldsRow(k) /\ k = Call(o, a)
  BY <1>1, <1>7 DEF Storage!CreateSnapshot, Storage!Exists, Storage!Writes
<1>8. ASSUME NEW s \in snaps, Storage!RestoreSnapshot(c, v, s) \/ Storage!DeleteSnapshot(c, v, s)
      PROVE  \E o, a, k : Storage!Starts(c, o, v, a) /\ HoldsRow(k) /\ k = Call(o, a)
  <2>1. CASE Storage!RestoreSnapshot(c, v, s)
    BY <1>1, <2>1 DEF Storage!RestoreSnapshot, Storage!Exists, Storage!Writes
  <2>2. CASE Storage!DeleteSnapshot(c, v, s)
    <3>1. \E a : Storage!Starts(c, "drop", v, a) /\ vols[v].status \in {"ready", "attached"}
      BY <2>2 DEF Storage!DeleteSnapshot, Storage!Exists
    <3> QED BY <1>1, <3>1
  <2> QED BY <1>8, <2>1, <2>2
<1> DEFINE Goal == \E o, a, k : Storage!Starts(c, o, v, a) /\ HoldsRow(k) /\ k = Call(o, a)
<1>9. Goal
  <2> HIDE DEF Goal
  <2>1. /\ Storage!DetachVolume(c, v) \/ Storage!DeleteVolume(c, v) => Goal
        /\ \A g \in Guests : Storage!AttachVolume(c, v, g) => Goal
        /\ \A z \in Sizes : Storage!CreateVolume(c, v, z) \/ Storage!ResizeVolume(c, v, z) => Goal
        /\ \A n \in SnapNames : Storage!CreateSnapshot(c, v, n) => Goal
        /\ \A s \in snaps : Storage!RestoreSnapshot(c, v, s) \/ Storage!DeleteSnapshot(c, v, s) => Goal
    BY <1>3, <1>4, <1>5, <1>6, <1>7, <1>8 DEF Goal
  <2> QED BY <2>1
<1> QED BY <1>9

LEMMA StoreStep ==
  ASSUME IsFiniteSet(Vols), Sizes \subseteq Nat, Storage!NoId \notin Guests, StoreInv, [Storage!Next]_(Storage!volVars)
  PROVE  StoreInv'
<1>1. VolInv'
  BY VolStep DEF StoreInv
<1> SUFFICES ASSUME clean' PROVE InOrder'
  BY <1>1 DEF StoreInv
<1>2. VolInv
  BY DEF StoreInv
<1>3. CASE UNCHANGED Storage!volVars
  <2>1. clean /\ InOrder
    BY <1>3 DEF Storage!volVars, StoreInv
  <2> QED BY <1>3, <2>1 DEF Storage!volVars, InOrder, CallStage, StoresMatch, Counts, Storage!UsedAfter, Storage!DriverVolumes, Storage!DriverDisks
<1>4. CASE Storage!CreateStoragePool
  <2>1. InOrder /\ pool' = [pool EXCEPT !.exists = TRUE] /\ UNCHANGED <<vols, storageCall, nodeVols, nodeDisks, booked>>
    BY <1>4 DEF Storage!CreateStoragePool, StoreInv, Storage!node
  <2>2. PICK e, u : pool = [exists |-> e, used |-> u]
    BY <2>1 DEF InOrder
  <2>3. pool' = [exists |-> TRUE, used |-> u] /\ pool'.used = pool.used
    BY <2>1, <2>2
  <2> QED BY <2>1, <2>3 DEF InOrder, CallStage, StoresMatch, Counts, Storage!UsedAfter, Storage!DriverVolumes, Storage!DriverDisks
<1>5. ASSUME NEW c \in Clients, Storage!PoolGetByID(c) \/ Storage!VolumeWrite(c) \/ Storage!SnapshotWrite(c)
      PROVE  InOrder'
  <2>1. InOrder
    BY <1>5 DEF Storage!PoolGetByID, Storage!VolumeWrite, Storage!SnapshotWrite, StoreInv
  <2> QED BY <1>2, <1>5, <2>1, ReadOrder, WriteOrder, SnapOrder
<1>8. ASSUME NEW c \in Clients, NEW ok \in Storage!Outcomes, Storage!PoolUpdate(c, ok)
      PROVE  InOrder'
  <2>1. InOrder /\ ok \in BOOLEAN
    BY <1>8 DEF Storage!PoolUpdate, Storage!Outcomes, StoreInv
  <2> QED BY <1>2, <1>8, <2>1, UpdateOrder
<1>9. ASSUME NEW c \in Clients, Storage!StatementFails(c)
      PROVE  InOrder'
  <2>1. /\ InOrder /\ storageCall[c].pc \in {"pool", "row"}
        /\ storageCall' = [storageCall EXCEPT ![c] = Storage!Idle] /\ StoresSame
    BY <1>9 DEF Storage!StatementFails, StoreInv, StoresSame, Storage!rows, Storage!node
  <2> QED BY <1>2, <2>1, RefusedOrder
<1>6. ASSUME NEW c \in Clients, NEW sent \in BOOLEAN, Storage!SendCommand(c, sent)
      PROVE  InOrder'
  <2>1. InOrder
    BY <1>6 DEF Storage!SendCommand, StoreInv
  <2> QED BY <1>2, <1>6, <2>1, SendOrder
<1>7. ASSUME NEW c \in Clients, NEW v \in Vols,
         \/ Storage!DetachVolume(c, v) \/ Storage!DeleteVolume(c, v)
         \/ \E g \in Guests : Storage!AttachVolume(c, v, g)
         \/ \E size \in Sizes : Storage!CreateVolume(c, v, size) \/ Storage!ResizeVolume(c, v, size)
         \/ \E n \in SnapNames : Storage!CreateSnapshot(c, v, n)
         \/ \E s \in snaps : Storage!RestoreSnapshot(c, v, s) \/ Storage!DeleteSnapshot(c, v, s)
      PROVE  InOrder'
  <2>1. \E op, arg : Storage!Starts(c, op, v, arg)
    BY <1>7, Zenon DEF Storage!DetachVolume, Storage!DeleteVolume, Storage!AttachVolume, Storage!CreateVolume, Storage!ResizeVolume, Storage!CreateSnapshot,
      Storage!RestoreSnapshot, Storage!DeleteSnapshot
  <2>2. InOrder
    BY <2>1 DEF Storage!Starts, StoreInv
  <2>3. PICK op, arg, k : /\ Storage!Starts(c, op, v, arg) /\ HoldsRow(k)
                          /\ k = [pc |-> "pool", op |-> op, vol |-> v, arg |-> arg, row |-> vols[v], used |-> 0]
    BY <1>7, <2>2, StartsHeld
  <2> QED BY <1>2, <2>2, <2>3, StartOrder
<1> QED BY <1>3, <1>4, <1>5, <1>6, <1>7, <1>8, <1>9 DEF Storage!Next

\* While no two calls overlapped and no command was lost, the table and the node
\* agree between calls, and with them the pool's used space unless a write of it
\* failed, for any volumes, sizes and guests.
THEOREM StoresCorrect ==
  ASSUME IsFiniteSet(Vols), Sizes \subseteq Nat, Storage!NoId \notin Guests
  PROVE  Storage!Spec => []Storage!StoresAgree
<1>1. Storage!Init => StoreInv
  <2> SUFFICES ASSUME Storage!Init PROVE StoreInv
    OBVIOUS
  <2>1. VolInv
    BY VolInit
  <2>2. vols = [v \in Vols |-> Storage!NoRow] /\ storageCall = [c \in Clients |-> Storage!Idle] /\ pool = [exists |-> FALSE, used |-> 0]
        /\ nodeVols = [n \in Storage!VolNames |-> 0] /\ nodeDisks = {}
    BY DEF Storage!Init
  <2>3. PICK r : r = Storage!NoRow
    OBVIOUS
  <2>4. RowShape(r) /\ r.status = "none"
    <3>1. PICK i : Storage!NoRow = [status |-> "none", inst |-> i, size |-> 0]
      BY Zenon DEF Storage!NoRow
    <3> QED BY <2>3, <3>1, RowFields
  <2>5. LiveIn(vols) = {} /\ \A v \in Vols : RowShape(vols[v])
    BY <2>2, <2>3, <2>4 DEF LiveIn
  <2>6. \A c \in Clients : storageCall[c].pc = "idle"
    <3>1. \E o, v, a, x, u : Storage!Idle = [pc |-> "idle", op |-> o, vol |-> v, arg |-> a, row |-> x, used |-> u]
      BY Zenon DEF Storage!Idle
    <3>2. Storage!Idle.pc = "idle"
      BY <3>1
    <3> QED BY <2>2, <3>2
  <2>7. StoresMatch
    <3>1. UsedIn(vols) = 0 /\ pool.used = 0
      BY <2>2, <2>5, SumEmpty DEF UsedIn
    <3>2. NodeIn(vols, nodeVols, nodeDisks)
      <4>1. nodeVols \in [Storage!VolNames -> {0}] /\ \A n \in Storage!VolNames : nodeVols[n] = 0
        BY <2>2
      <4>2. DisksIn(vols) = {}
        BY <2>5 DEF DisksIn
      <4> QED BY <2>2, <2>5, <4>1, <4>2 DEF NodeIn, VolumesIn
    <3> QED BY <3>1, <3>2 DEF StoresMatch, Counts
  <2> QED BY <2>1, <2>2, <2>5, <2>6, <2>7 DEF StoreInv, InOrder
<1>2. StoreInv /\ [Storage!Next]_(Storage!volVars) => StoreInv'
  BY StoreStep
<1>3. StoreInv => Storage!StoresAgree
  <2> SUFFICES ASSUME StoreInv, clean, \A c \in Clients : storageCall[c].pc = "idle" PROVE Storage!StoresAgree
    BY DEF Storage!StoresAgree
  <2>1. StoresMatch
    BY DEF StoreInv, InOrder
  <2>2. LiveIn(vols) = Storage!Live /\ SizesIn(vols) = [v \in Vols |-> vols[v].size]
    BY DEF LiveIn, Storage!Live, Storage!Exists, SizesIn
  <2>3. booked => pool.used = SumFunctionOnSet([v \in Vols |-> vols[v].size], Storage!Live)
    BY <2>1, <2>2 DEF StoresMatch, Counts, UsedIn
  <2>4. nodeDisks = {<<vols[v].inst, NameOf[v]>> : v \in {w \in Storage!Live : Storage!IsAttached(vols[w])}}
    BY <2>1, <2>2 DEF StoresMatch, NodeIn, DisksIn
  <2>5. (\A v \in Storage!Live : nodeVols[NameOf[v]] = vols[v].size) /\ \A n \in Storage!VolNames : nodeVols[n] # 0 => \E v \in Storage!Live : NameOf[v] = n
    BY <2>1, <2>2 DEF StoresMatch, NodeIn, VolumesIn
  <2> QED BY <2>3, <2>4, <2>5, StorageSum DEF Storage!StoresAgree
<1> QED BY <1>1, <1>2, <1>3, PTL DEF Storage!Spec

-----------------------------------------------------------------------------
(***************************************************************************)
(* Enrollment, for any number of hosts, tokens and boots: an enrolled host *)
(* stays accepted, and a token enrolls one node.                           *)
(*                                                                         *)
(* The argument runs along the files. The authority's two files agree as   *)
(* soon as the second exists, and are never written again (Authority); a   *)
(* certificate on its way to a host was signed by that authority and has a *)
(* row (Answers, Hosted); and the answer of a request goes to the host     *)
(* whose key file holds the key it was made with, since no two hosts have  *)
(* one key (Waiting, Distinct).  A death within a write leaves an empty    *)
(* file, which differs from an absent one and from every whole one; an     *)
(* empty ca.key stays so, and nothing is claimed from then on.             *)
(***************************************************************************)
CertType == [ca : Nat, id : Nat, key : Nat]

RequestPCs == {"none", "got", "sign", "mark", "signed", "refused"}

\* The agent between its key and its last file.
Enrolling == {"send", "wait", "ca", "crt"}

AuthorityType == [up : {"down", "boot", "up"}, ca : Nat, crt : Nat, key : Nat, boots : Nat]

SecretType == [made : BOOLEAN, expired : BOOLEAN, usedBy : Nat]

RequestType == [pc : RequestPCs, host : Hosts \cup {""}, token : Tokens \cup {""}, cert : CertType]

DiskType == [key : Enroll!HostKeys \cup {0, Enroll!Empty}, ca : Nat, crt : CertType]

AgentType == [pc : Enrolling \cup {"down", "run"}, token : Tokens \cup {""}, cert : CertType, caPem : Nat]

EnrollTyped ==
  /\ authority \in AuthorityType
  /\ secret \in [Tokens -> SecretType]
  /\ nodeRows \subseteq [host : Hosts, cert : CertType]
  /\ request \in [Enroll!HostKeys -> RequestType]
  /\ disk \in [Hosts -> DiskType]
  /\ agent \in [Hosts -> AgentType]
  /\ \A k \in Enroll!HostKeys : request[k].pc # "none" => request[k].host \in Hosts /\ request[k].token \in Tokens
  /\ \A h \in Hosts : agent[h].pc \in Enrolling => disk[h].key \in Enroll!HostKeys /\ agent[h].token \in Tokens

\* The files of the authority: the key is written last, and only once.
Authority ==
  /\ authority.key \notin {0, Enroll!Empty} => authority.crt = authority.key
  /\ authority.key = Enroll!Empty => authority.crt # 0
  /\ authority.up = "up" => \/ authority.key = Enroll!Empty
                            \/ authority.key # 0 /\ authority.ca = authority.key
  /\ authority.up = "boot" => /\ authority.key = 0 /\ authority.ca \notin {0, Enroll!Empty}
                              /\ authority.ca = authority.crt

\* A certificate the server accepts.
Good(c) == authority.key # 0 /\ c.ca = authority.key /\ \E r \in nodeRows : r.cert = c

Answers ==
  \A k \in Enroll!HostKeys : request[k].pc \in {"mark", "signed"} =>
    Good(request[k].cert) /\ request[k].cert.key = k

\* What a host has been sent and what it has written fit together.
HostOk(h) ==
  /\ agent[h].pc \in {"ca", "crt"} =>
       Good(agent[h].cert) /\ agent[h].cert.key = disk[h].key /\ agent[h].caPem = authority.key
  /\ agent[h].pc = "crt" => disk[h].ca = authority.key
  /\ agent[h].pc \in Enrolling => disk[h].crt = Enroll!NoCert
  /\ disk[h].crt = Enroll!EmptyCert => disk[h].key # 0 /\ disk[h].ca # 0
  /\ disk[h].crt \notin {Enroll!NoCert, Enroll!EmptyCert} =>
       /\ Good(disk[h].crt) /\ disk[h].crt.key = disk[h].key /\ disk[h].key # 0
       /\ disk[h].ca = authority.key

Hosted == \A h \in Hosts : HostOk(h)

Waiting ==
  \A h \in Hosts : agent[h].pc = "wait" =>
    request[disk[h].key].pc # "none" /\ request[disk[h].key].host = h

Distinct == \A g, h \in Hosts : (disk[g].key = disk[h].key /\ disk[g].key \notin {0, Enroll!Empty}) => g = h

EnrollInv == /\ EnrollTyped /\ Authority /\ Waiting /\ Distinct
             /\ authority.key # Enroll!Empty => Answers /\ Hosted

\* A certificate whose node consumed a token.
Named(c) == \E t \in Tokens : secret[t].usedBy = c.id

TokenInv ==
  /\ \A k \in Enroll!HostKeys : request[k].pc \in {"mark", "signed"} => request[k].cert.id # 0
  /\ \A k \in Enroll!HostKeys : request[k].pc = "signed" => Named(request[k].cert)
  /\ \A h \in Hosts : agent[h].cert # Enroll!NoCert => agent[h].cert.id # 0 /\ Named(agent[h].cert)
  /\ \A h \in Hosts : disk[h].crt \notin {Enroll!NoCert, Enroll!EmptyCert} =>
                         disk[h].crt.id # 0 /\ Named(disk[h].crt)

-----------------------------------------------------------------------------
LEMMA Blanks ==
  /\ Enroll!NoCert \in CertType /\ Enroll!EmptyCert \in CertType /\ Enroll!EmptyCert # Enroll!NoCert
  /\ Enroll!NoRequest \in RequestType /\ Enroll!NoRequest.pc = "none"
  /\ Enroll!Down \in AgentType /\ Enroll!Down.pc = "down" /\ Enroll!Down.cert = Enroll!NoCert
BY DEF Enroll!NoCert, Enroll!Empty, Enroll!EmptyCert, Enroll!NoRequest, Enroll!Down, CertType, RequestType, AgentType, RequestPCs

LEMMA KeysAreNumbers ==
  ASSUME MaxKeys \in Nat
  PROVE  Enroll!HostKeys \subseteq Nat \ {0, Enroll!Empty} /\ Enroll!Empty \in Nat \ {0}
BY DEF Enroll!HostKeys, Enroll!Empty

LEMMA FreshKey ==
  ASSUME Enroll!FreshKeys # {}
  PROVE  /\ Enroll!Fresh \in Enroll!HostKeys /\ request[Enroll!Fresh].pc = "none"
         /\ \A r \in nodeRows : r.cert.key # Enroll!Fresh
         /\ \A h \in Hosts : disk[h].key # Enroll!Fresh
<1>1. Enroll!Fresh \in Enroll!FreshKeys
  BY DEF Enroll!Fresh
<1> QED BY <1>1 DEF Enroll!FreshKeys

\* The record of one request, host or agent at a time.
LEMMA RequestPut ==
  ASSUME EnrollTyped, NEW k \in Enroll!HostKeys, NEW x \in RequestType, request' = [request EXCEPT ![k] = x]
  PROVE  /\ request' \in [Enroll!HostKeys -> RequestType] /\ request'[k] = x
         /\ \A j \in Enroll!HostKeys \ {k} : request'[j] = request[j]
BY DEF EnrollTyped

LEMMA RequestMoves ==
  ASSUME EnrollTyped, NEW k \in Enroll!HostKeys, NEW pc \in RequestPCs, request' = [request EXCEPT ![k].pc = pc]
  PROVE  /\ request' \in [Enroll!HostKeys -> RequestType]
         /\ request'[k].pc = pc /\ request'[k].host = request[k].host
         /\ request'[k].token = request[k].token /\ request'[k].cert = request[k].cert
         /\ \A j \in Enroll!HostKeys \ {k} : request'[j] = request[j]
<1> DEFINE x == [request[k] EXCEPT !.pc = pc]
<1>1. request[k] \in RequestType
  BY DEF EnrollTyped
<1>2. /\ x \in RequestType /\ x.pc = pc /\ x.host = request[k].host
      /\ x.token = request[k].token /\ x.cert = request[k].cert
  BY <1>1 DEF RequestType
<1> HIDE DEF x
<1>3. request' = [request EXCEPT ![k] = x]
  BY DEF x
<1> QED BY <1>2, <1>3, RequestPut

LEMMA AgentPut ==
  ASSUME EnrollTyped, NEW h \in Hosts, NEW x \in AgentType, agent' = [agent EXCEPT ![h] = x]
  PROVE  /\ agent' \in [Hosts -> AgentType] /\ agent'[h] = x
         /\ \A g \in Hosts \ {h} : agent'[g] = agent[g]
BY DEF EnrollTyped

LEMMA AgentMoves ==
  ASSUME EnrollTyped, NEW h \in Hosts, NEW pc \in Enrolling \cup {"down", "run"},
         agent' = [agent EXCEPT ![h].pc = pc]
  PROVE  /\ agent' \in [Hosts -> AgentType]
         /\ agent'[h].pc = pc /\ agent'[h].token = agent[h].token
         /\ agent'[h].cert = agent[h].cert /\ agent'[h].caPem = agent[h].caPem
         /\ \A g \in Hosts \ {h} : agent'[g] = agent[g]
<1> DEFINE x == [agent[h] EXCEPT !.pc = pc]
<1>1. agent[h] \in AgentType
  BY DEF EnrollTyped
<1>2. /\ x \in AgentType /\ x.pc = pc /\ x.token = agent[h].token
      /\ x.cert = agent[h].cert /\ x.caPem = agent[h].caPem
  BY <1>1 DEF AgentType
<1> HIDE DEF x
<1>3. agent' = [agent EXCEPT ![h] = x]
  BY DEF x
<1> QED BY <1>2, <1>3, AgentPut

LEMMA DiskKey ==
  ASSUME EnrollTyped, NEW h \in Hosts, NEW k \in Enroll!HostKeys \cup {Enroll!Empty}, disk' = [disk EXCEPT ![h].key = k]
  PROVE  /\ disk' \in [Hosts -> DiskType] /\ disk'[h].key = k /\ disk'[h].ca = disk[h].ca
         /\ disk'[h].crt = disk[h].crt /\ \A g \in Hosts \ {h} : disk'[g] = disk[g]
BY DEF EnrollTyped, DiskType

LEMMA DiskCA ==
  ASSUME EnrollTyped, NEW h \in Hosts, NEW c \in Nat, disk' = [disk EXCEPT ![h].ca = c]
  PROVE  /\ disk' \in [Hosts -> DiskType] /\ disk'[h].ca = c /\ disk'[h].key = disk[h].key
         /\ disk'[h].crt = disk[h].crt /\ \A g \in Hosts \ {h} : disk'[g] = disk[g]
BY DEF EnrollTyped, DiskType

LEMMA DiskCert ==
  ASSUME EnrollTyped, NEW h \in Hosts, NEW c \in CertType, disk' = [disk EXCEPT ![h].crt = c]
  PROVE  /\ disk' \in [Hosts -> DiskType] /\ disk'[h].crt = c /\ disk'[h].key = disk[h].key
         /\ disk'[h].ca = disk[h].ca /\ \A g \in Hosts \ {h} : disk'[g] = disk[g]
BY DEF EnrollTyped, DiskType

-----------------------------------------------------------------------------
(***************************************************************************)
(* What each kind of step does, apart from how the code arrives at it.     *)
(***************************************************************************)
BootStep == Enroll!loadExistingCA \/ Enroll!generateNewCA \/ Enroll!WriteCAKey \/ Enroll!BootCutShort

FateStep == (\E h \in Hosts : Enroll!Lapses(h)) \/ \E row \in nodeRows : Enroll!RevokeNode(row)

LEMMA FatesOnly ==
  ASSUME FateStep PROVE UNCHANGED <<authority, secret, nodeRows, request, disk, agent>>
BY DEF FateStep, Enroll!Lapses, Enroll!RevokeNode

TokenStep == \E t \in Tokens : Enroll!CreateEnrollmentToken(t) \/ Enroll!Expire(t)

HandlerStep(k) == Enroll!CheckToken(k) \/ Enroll!SignAndCreate(k) \/ Enroll!MarkUsed(k) \/ Enroll!Cancelled(k)

HostStep(h) == Enroll!SaveCA(h) \/ Enroll!SaveCert(h) \/ Enroll!AgentDies(h) \/ Enroll!WriteCutShort(h)
               \/ \E t \in Tokens : Enroll!EnsureEnrolled(h, t)

\* A consumed token keeps its node.
TokensKept == \A t \in Tokens : secret[t].usedBy # 0 => secret'[t].usedBy = secret[t].usedBy

HandlerMoves(k) ==
  /\ request[k].pc # "none" /\ request'[k].pc # "none"
  /\ request'[k].host = request[k].host /\ request'[k].token = request[k].token
  /\ \A j \in Enroll!HostKeys \ {k} : request'[j] = request[j]
  /\ nodeRows \subseteq nodeRows'
  /\ TokensKept
  /\ \/ request'[k].pc \in {"sign", "refused"}
     \/ /\ request'[k].pc = "mark" /\ request'[k].cert = Enroll!SignNodeCSR(k)
        /\ authority.up = "up" /\ \E r \in nodeRows' : r.cert = Enroll!SignNodeCSR(k)
     \/ /\ request[k].pc = "mark" /\ request'[k].pc = "signed"
        /\ request'[k].cert = request[k].cert /\ Named(request[k].cert)'
  /\ UNCHANGED <<authority, disk, agent>>

\* A death within the write of one of a host's three files.
EmptiesFile(h) ==
  \/ /\ ~Enroll!HasCertificates(h) /\ disk'[h].key = Enroll!Empty
     /\ disk'[h].ca = disk[h].ca /\ disk'[h].crt = disk[h].crt
  \/ /\ agent[h].pc = "ca" /\ disk'[h].ca = Enroll!Empty
     /\ disk'[h].key = disk[h].key /\ disk'[h].crt = disk[h].crt
  \/ /\ agent[h].pc = "crt" /\ disk'[h].crt = Enroll!EmptyCert
     /\ disk'[h].key = disk[h].key /\ disk'[h].ca = disk[h].ca

HostMoves(h) ==
  /\ \A g \in Hosts \ {h} : agent'[g] = agent[g] /\ disk'[g] = disk[g]
  /\ \/ /\ agent'[h].pc = "run" /\ agent'[h].cert = agent[h].cert /\ disk'[h] = disk[h]
     \/ /\ ~Enroll!HasCertificates(h) /\ agent'[h].pc = "send" /\ agent'[h].cert = Enroll!NoCert
        /\ agent'[h].token \in Tokens
        /\ disk'[h].key \in Enroll!HostKeys /\ (\A g \in Hosts : disk[g].key # disk'[h].key)
        /\ disk'[h].ca = disk[h].ca /\ disk'[h].crt = disk[h].crt
     \/ /\ agent[h].pc = "ca" /\ agent'[h].pc = "crt" /\ agent'[h].token = agent[h].token
        /\ agent'[h].cert = agent[h].cert /\ agent'[h].caPem = agent[h].caPem
        /\ disk'[h].ca = agent[h].caPem
        /\ disk'[h].key = disk[h].key /\ disk'[h].crt = disk[h].crt
     \/ /\ agent[h].pc = "crt" /\ agent'[h].pc = "run" /\ agent'[h].cert = agent[h].cert
        /\ disk'[h].crt = agent[h].cert
        /\ disk'[h].key = disk[h].key /\ disk'[h].ca = disk[h].ca
     \/ agent'[h] = Enroll!Down /\ disk'[h] = disk[h]
     \/ agent'[h] = Enroll!Down /\ EmptiesFile(h)
  /\ UNCHANGED <<authority, secret, nodeRows, request>>

PostMoves(h) ==
  /\ agent[h].pc = "send"
  /\ \A g \in Hosts \ {h} : agent'[g] = agent[g]
  /\ \/ /\ request'[disk[h].key].pc = "got" /\ request'[disk[h].key].host = h
        /\ request'[disk[h].key].token = agent[h].token
        /\ \A j \in Enroll!HostKeys \ {disk[h].key} : request'[j] = request[j]
        /\ agent'[h].pc = "wait" /\ agent'[h].cert = agent[h].cert /\ agent'[h].token = agent[h].token
     \/ agent'[h] = Enroll!Down /\ UNCHANGED request
  /\ UNCHANGED <<authority, secret, nodeRows, disk>>

AnswerMoves(k) ==
  /\ authority.up = "up"
  /\ request'[k] = Enroll!NoRequest /\ \A j \in Enroll!HostKeys \ {k} : request'[j] = request[j]
  /\ request[k].host \in Hosts
  /\ \A g \in Hosts \ {request[k].host} : agent'[g] = agent[g]
  /\ \/ ~Enroll!Heard(k) /\ agent'[request[k].host] = agent[request[k].host]
     \/ agent'[request[k].host] = Enroll!Down
     \/ /\ Enroll!Heard(k) /\ request[k].pc = "signed"
        /\ agent'[request[k].host].pc = "ca" /\ agent'[request[k].host].cert = request[k].cert
        /\ agent'[request[k].host].token = agent[request[k].host].token
        /\ agent'[request[k].host].caPem = authority.ca
  /\ UNCHANGED <<authority, secret, nodeRows, disk>>

-----------------------------------------------------------------------------
LEMMA BootTypes ==
  ASSUME EnrollTyped, BootStep
  PROVE  EnrollTyped' /\ UNCHANGED <<secret, nodeRows, request, disk, agent>>
<1>0. authority \in AuthorityType
  BY DEF EnrollTyped
<1>1. UNCHANGED <<secret, nodeRows, request, disk, agent>>
  BY DEF BootStep, Enroll!loadExistingCA, Enroll!generateNewCA, Enroll!WriteCAKey, Enroll!BootCutShort
<1>2. authority' \in AuthorityType
  <2>1. CASE Enroll!loadExistingCA
    <3> DEFINE a == [authority EXCEPT !.up = "up"]
               b == [a EXCEPT !.boots = @ + 1]
               c == IF Enroll!Empty \in {authority.crt, authority.key} THEN Enroll!NewCA
                    ELSE IF authority.crt = authority.key THEN authority.crt ELSE 0
    <3>1. a \in AuthorityType /\ c \in Nat
      BY <1>0 DEF AuthorityType, Enroll!NewCA
    <3>2. authority' = [b EXCEPT !.ca = c]
      BY <2>1 DEF Enroll!loadExistingCA
    <3> HIDE DEF a, c
    <3>3. b \in AuthorityType
      BY <3>1 DEF AuthorityType
    <3> HIDE DEF b
    <3> QED BY <3>1, <3>2, <3>3 DEF AuthorityType
  <2>2. CASE Enroll!generateNewCA
    <3>1. PICK c \in Enroll!Written(authority.crt, Enroll!NewCA) :
            authority' = [authority EXCEPT !.up = "boot", !.ca = Enroll!NewCA,
                            !.boots = @ + 1, !.crt = c]
      BY <2>2 DEF Enroll!generateNewCA
    <3>2. c \in Nat /\ authority.boots + 1 \in Nat /\ Enroll!NewCA \in Nat
      BY <1>0 DEF Enroll!Written, Enroll!NewCA, Enroll!Empty, AuthorityType
    <3> DEFINE a == [authority EXCEPT !.up = "boot"]
               n == authority.boots + 1
               b == [a EXCEPT !.ca = Enroll!NewCA]
               d == [b EXCEPT !.boots = n]
    <3>3. a \in AuthorityType /\ a.boots = authority.boots
      BY <1>0 DEF AuthorityType
    <3>4. authority' = [d EXCEPT !.crt = c]
      BY <3>1
    <3> HIDE DEF a, n
    <3>5. b \in AuthorityType
      BY <3>2, <3>3 DEF AuthorityType
    <3> HIDE DEF b
    <3>6. d \in AuthorityType
      BY <3>2, <3>5 DEF AuthorityType, n
    <3> HIDE DEF d
    <3> QED BY <3>2, <3>4, <3>6 DEF AuthorityType
  <2>3. CASE Enroll!WriteCAKey
    <3>1. PICK k \in Enroll!Written(authority.key, authority.ca) :
            authority' = [authority EXCEPT !.up = "up", !.key = k]
      BY <2>3 DEF Enroll!WriteCAKey
    <3>2. k \in Nat
      BY <1>0 DEF Enroll!Written, Enroll!Empty, AuthorityType
    <3> QED BY <1>0, <3>1, <3>2 DEF AuthorityType
  <2>4. CASE Enroll!BootCutShort
    <3>1. \/ authority' = [authority EXCEPT !.crt = Enroll!Empty]
          \/ authority' = [authority EXCEPT !.up = "down", !.ca = 0, !.key = Enroll!Empty]
      BY <2>4 DEF Enroll!BootCutShort
    <3>2. Enroll!Empty \in Nat
      BY DEF Enroll!Empty
    <3>3. CASE authority' = [authority EXCEPT !.crt = Enroll!Empty]
      BY <1>0, <3>2, <3>3 DEF AuthorityType
    <3>4. CASE authority' = [authority EXCEPT !.up = "down", !.ca = 0, !.key = Enroll!Empty]
      <4> DEFINE a == [authority EXCEPT !.up = "down"]
                 b == [a EXCEPT !.ca = 0]
      <4>1. a \in AuthorityType /\ authority' = [b EXCEPT !.key = Enroll!Empty]
        BY <1>0, <3>4 DEF AuthorityType
      <4> HIDE DEF a
      <4>2. b \in AuthorityType
        BY <4>1 DEF AuthorityType
      <4> HIDE DEF b
      <4> QED BY <3>2, <4>1, <4>2 DEF AuthorityType
    <3> QED BY <3>1, <3>3, <3>4
  <2> QED BY <2>1, <2>2, <2>3, <2>4 DEF BootStep
<1> QED BY <1>1, <1>2 DEF EnrollTyped

LEMMA TokenTypes ==
  ASSUME EnrollTyped, TokenStep
  PROVE  EnrollTyped' /\ UNCHANGED <<authority, nodeRows, request, disk, agent>> /\ TokensKept
<1>1. UNCHANGED <<authority, nodeRows, request, disk, agent>>
  BY DEF TokenStep, Enroll!CreateEnrollmentToken, Enroll!Expire
<1>2. PICK t \in Tokens : \/ secret' = [secret EXCEPT ![t].made = TRUE]
                          \/ secret' = [secret EXCEPT ![t].expired = TRUE]
  BY DEF TokenStep, Enroll!CreateEnrollmentToken, Enroll!Expire
<1>3. secret' \in [Tokens -> SecretType] /\ \A s \in Tokens : secret'[s].usedBy = secret[s].usedBy
  <2>1. CASE secret' = [secret EXCEPT ![t].made = TRUE]
    BY <2>1 DEF EnrollTyped, SecretType
  <2>2. CASE secret' = [secret EXCEPT ![t].expired = TRUE]
    BY <2>2 DEF EnrollTyped, SecretType
  <2> QED BY <1>2, <2>1, <2>2
<1> QED BY <1>1, <1>3 DEF EnrollTyped, TokensKept

LEMMA DeathTypes ==
  ASSUME EnrollTyped, Enroll!ServerDies
  PROVE  EnrollTyped'
<1>0. authority \in AuthorityType
  BY DEF EnrollTyped
<1>1. authority' \in AuthorityType
  BY <1>0 DEF Enroll!ServerDies, AuthorityType
<1>2. request' \in [Enroll!HostKeys -> RequestType] /\ \A k \in Enroll!HostKeys : request'[k] = Enroll!NoRequest
  BY Blanks DEF Enroll!ServerDies
<1>3. agent' \in [Hosts -> AgentType] /\ \A h \in Hosts : agent'[h] \in {agent[h], Enroll!Down}
  BY Blanks DEF Enroll!ServerDies, EnrollTyped
<1>4. UNCHANGED <<secret, nodeRows, disk>>
  BY DEF Enroll!ServerDies
<1>5. \A h \in Hosts : agent'[h].pc \in Enrolling => disk'[h].key \in Enroll!HostKeys /\ agent'[h].token \in Tokens
  BY <1>3, <1>4, Blanks DEF EnrollTyped, Enrolling
<1>6. \A k \in Enroll!HostKeys : request'[k].pc = "none"
  BY <1>2, Blanks
<1> QED BY <1>1, <1>2, <1>3, <1>4, <1>5, <1>6 DEF EnrollTyped

LEMMA HandlerTypes ==
  ASSUME MaxKeys \in Nat, EnrollTyped, NEW k \in Enroll!HostKeys, HandlerStep(k)
  PROVE  EnrollTyped' /\ HandlerMoves(k)
<1>0. /\ request[k] \in RequestType /\ request[k].pc # "none"
      /\ request[k].host \in Hosts /\ request[k].token \in Tokens /\ k \in Nat /\ k # 0
  BY KeysAreNumbers
     DEF EnrollTyped, HandlerStep, Enroll!CheckToken, Enroll!SignAndCreate, Enroll!MarkUsed, Enroll!Cancelled, Enroll!At
<1>a. UNCHANGED <<authority, disk, agent>>
  BY DEF HandlerStep, Enroll!CheckToken, Enroll!SignAndCreate, Enroll!MarkUsed, Enroll!Cancelled
<1>b. ASSUME UNCHANGED <<secret, nodeRows>>, NEW pc \in {"sign", "refused"},
             request' = [request EXCEPT ![k].pc = pc]
      PROVE  EnrollTyped' /\ HandlerMoves(k)
  <2>1. /\ request' \in [Enroll!HostKeys -> RequestType]
        /\ request'[k].pc = pc /\ request'[k].host = request[k].host
        /\ request'[k].token = request[k].token
        /\ \A j \in Enroll!HostKeys \ {k} : request'[j] = request[j]
    BY <1>b, RequestMoves DEF RequestPCs
  <2>2. HandlerMoves(k)
    BY <1>0, <1>a, <1>b, <2>1 DEF HandlerMoves, TokensKept
  <2>3. \A j \in Enroll!HostKeys : request'[j].pc # "none" => request'[j].host \in Hosts /\ request'[j].token \in Tokens
    BY <1>0, <2>1 DEF EnrollTyped
  <2> QED BY <1>a, <1>b, <2>1, <2>2, <2>3 DEF EnrollTyped
<1>1. CASE Enroll!CheckToken(k) \/ Enroll!Cancelled(k)
  BY <1>1, <1>b DEF Enroll!CheckToken, Enroll!Cancelled, Enroll!Refuse
<1>2. CASE Enroll!SignAndCreate(k)
  <2> DEFINE c == Enroll!SignNodeCSR(k)
             x == [request[k] EXCEPT !.pc = "mark"]
             y == [x EXCEPT !.cert = c]
             row == [host |-> request[k].host, cert |-> c]
  <2>1. CASE nodeRows' = nodeRows /\ Enroll!Refuse(k)
    BY <1>2, <1>b, <2>1 DEF Enroll!Refuse, Enroll!SignAndCreate
  <2>2. CASE /\ nodeRows' = nodeRows \cup {row}
             /\ request' = [request EXCEPT ![k].pc = "mark", ![k].cert = c]
    <3>1. c \in CertType
      BY <1>0 DEF EnrollTyped, AuthorityType, Enroll!SignNodeCSR, CertType
    <3>2. request' = [request EXCEPT ![k] = y]
      BY <2>2
    <3> HIDE DEF c
    <3>3. x \in RequestType /\ x.host = request[k].host /\ x.token = request[k].token /\ x.pc = "mark"
      BY <1>0 DEF RequestType, RequestPCs
    <3>4. row \in [host : Hosts, cert : CertType] /\ row.cert = c
      BY <1>0, <3>1
    <3> HIDE DEF x, row
    <3>5. /\ y \in RequestType /\ y.host = request[k].host /\ y.token = request[k].token
          /\ y.pc = "mark" /\ y.cert = c
      BY <3>1, <3>3 DEF RequestType
    <3> HIDE DEF y
    <3>6. /\ request' \in [Enroll!HostKeys -> RequestType] /\ request'[k] = y
          /\ \A j \in Enroll!HostKeys \ {k} : request'[j] = request[j]
      BY <3>2, <3>5, RequestPut
    <3>7. secret' = secret /\ authority.up = "up"
      BY <1>2 DEF Enroll!SignAndCreate, Enroll!At
    <3>8. nodeRows \subseteq nodeRows' /\ \E r \in nodeRows' : r.cert = c
      BY <2>2, <3>4
    <3>9. HandlerMoves(k)
      BY <1>0, <1>a, <3>5, <3>6, <3>7, <3>8 DEF HandlerMoves, TokensKept, c
    <3>10. \A j \in Enroll!HostKeys : request'[j].pc # "none" => request'[j].host \in Hosts /\ request'[j].token \in Tokens
      BY <1>0, <3>5, <3>6 DEF EnrollTyped
    <3> QED BY <1>a, <2>2, <3>4, <3>6, <3>7, <3>9, <3>10 DEF EnrollTyped
  <2> QED BY <1>2, <2>1, <2>2 DEF Enroll!SignAndCreate
<1>3. CASE Enroll!MarkUsed(k)
  <2> DEFINE t == request[k].token
             id == request[k].cert.id
  <2>1. CASE secret' = secret /\ Enroll!Refuse(k)
    BY <1>3, <1>b, <2>1 DEF Enroll!Refuse, Enroll!MarkUsed
  <2>2. CASE /\ Enroll!Markable(t) /\ secret' = [secret EXCEPT ![t].usedBy = id]
             /\ request' = [request EXCEPT ![k].pc = "signed"]
    <3>1. id \in Nat /\ t \in Tokens
      BY <1>0 DEF RequestType, CertType
    <3>2. secret[t].usedBy = 0
      BY <2>2 DEF Enroll!Markable, Enroll!MemMarkUsed, Enroll!SqlMarkUsed
    <3>3. /\ secret' \in [Tokens -> SecretType] /\ secret'[t].usedBy = id
          /\ \A s \in Tokens \ {t} : secret'[s] = secret[s]
      BY <2>2, <3>1 DEF EnrollTyped, SecretType
    <3>4. /\ request' \in [Enroll!HostKeys -> RequestType]
          /\ request'[k].pc = "signed" /\ request'[k].host = request[k].host
          /\ request'[k].token = request[k].token /\ request'[k].cert = request[k].cert
          /\ \A j \in Enroll!HostKeys \ {k} : request'[j] = request[j]
      BY <2>2, RequestMoves DEF RequestPCs
    <3>5. TokensKept
      BY <3>2, <3>3 DEF TokensKept
    <3>6. Named(request[k].cert)'
      BY <3>1, <3>3, <3>4 DEF Named
    <3>7. request[k].pc = "mark" /\ nodeRows' = nodeRows
      BY <1>3 DEF Enroll!MarkUsed, Enroll!At
    <3>8. HandlerMoves(k)
      BY <1>0, <1>a, <3>4, <3>5, <3>6, <3>7 DEF HandlerMoves
    <3>9. \A j \in Enroll!HostKeys : request'[j].pc # "none" => request'[j].host \in Hosts /\ request'[j].token \in Tokens
      BY <1>0, <3>4 DEF EnrollTyped
    <3> QED BY <1>a, <3>3, <3>4, <3>7, <3>8, <3>9 DEF EnrollTyped
  <2> QED BY <1>3, <2>1, <2>2 DEF Enroll!MarkUsed
<1> QED BY <1>1, <1>2, <1>3 DEF HandlerStep

LEMMA HostTypes ==
  ASSUME EnrollTyped, NEW h \in Hosts, HostStep(h)
  PROVE  EnrollTyped' /\ HostMoves(h)
<1>a. UNCHANGED <<authority, secret, nodeRows, request>>
  BY DEF HostStep, Enroll!SaveCA, Enroll!SaveCert, Enroll!AgentDies, Enroll!WriteCutShort, Enroll!EnsureEnrolled
<1>b. ASSUME agent' \in [Hosts -> AgentType], disk' \in [Hosts -> DiskType],
             \A g \in Hosts \ {h} : agent'[g] = agent[g] /\ disk'[g] = disk[g],
             agent'[h].pc \in Enrolling => disk'[h].key \in Enroll!HostKeys /\ agent'[h].token \in Tokens
      PROVE  EnrollTyped'
  <2>1. \A g \in Hosts : agent'[g].pc \in Enrolling => disk'[g].key \in Enroll!HostKeys /\ agent'[g].token \in Tokens
    BY <1>b DEF EnrollTyped
  <2> QED BY <1>a, <1>b, <2>1 DEF EnrollTyped
<1>c. agent[h] \in AgentType /\ disk[h] \in DiskType /\ disk \in [Hosts -> DiskType]
  BY DEF EnrollTyped
<1>1. CASE Enroll!SaveCA(h)
  <2>1. agent[h].pc = "ca" /\ agent[h].caPem \in Nat /\ disk[h].key \in Enroll!HostKeys /\ agent[h].token \in Tokens
    BY <1>1, <1>c DEF Enroll!SaveCA, AgentType, EnrollTyped, Enrolling
  <2>2. /\ agent' \in [Hosts -> AgentType]
        /\ agent'[h].pc = "crt" /\ agent'[h].token = agent[h].token
        /\ agent'[h].cert = agent[h].cert /\ agent'[h].caPem = agent[h].caPem
        /\ \A g \in Hosts \ {h} : agent'[g] = agent[g]
    BY <1>1, AgentMoves DEF Enroll!SaveCA, Enrolling
  <2>3. /\ disk' \in [Hosts -> DiskType] /\ disk'[h].ca = agent[h].caPem /\ disk'[h].key = disk[h].key
        /\ disk'[h].crt = disk[h].crt /\ \A g \in Hosts \ {h} : disk'[g] = disk[g]
    BY <1>1, <2>1, DiskCA DEF Enroll!SaveCA
  <2>4. HostMoves(h)
    BY <1>a, <2>1, <2>2, <2>3 DEF HostMoves
  <2> QED BY <1>b, <2>1, <2>2, <2>3, <2>4
<1>2. CASE Enroll!SaveCert(h)
  <2>1. agent[h].pc = "crt" /\ agent[h].cert \in CertType
    BY <1>2, <1>c DEF Enroll!SaveCert, AgentType
  <2>2. /\ agent' \in [Hosts -> AgentType]
        /\ agent'[h].pc = "run" /\ agent'[h].cert = agent[h].cert
        /\ \A g \in Hosts \ {h} : agent'[g] = agent[g]
    BY <1>2, AgentMoves DEF Enroll!SaveCert
  <2>3. /\ disk' \in [Hosts -> DiskType] /\ disk'[h].crt = agent[h].cert /\ disk'[h].key = disk[h].key
        /\ disk'[h].ca = disk[h].ca /\ \A g \in Hosts \ {h} : disk'[g] = disk[g]
    BY <1>2, <2>1, DiskCert DEF Enroll!SaveCert
  <2>4. HostMoves(h)
    BY <1>a, <2>1, <2>2, <2>3 DEF HostMoves
  <2> QED BY <1>b, <2>2, <2>3, <2>4 DEF Enrolling
<1>3. CASE Enroll!AgentDies(h)
  <2>1. /\ agent' \in [Hosts -> AgentType] /\ agent'[h] = Enroll!Down
        /\ \A g \in Hosts \ {h} : agent'[g] = agent[g]
    BY <1>3, Blanks, AgentPut DEF Enroll!AgentDies
  <2>2. disk' = disk
    BY <1>3 DEF Enroll!AgentDies
  <2>3. HostMoves(h)
    BY <1>a, <2>1, <2>2 DEF HostMoves
  <2> QED BY <1>b, <1>c, <2>1, <2>2, <2>3, Blanks DEF Enrolling
<1>4. ASSUME NEW t \in Tokens, Enroll!EnsureEnrolled(h, t) PROVE EnrollTyped' /\ HostMoves(h)
  <2>1. CASE agent' = [agent EXCEPT ![h].pc = "run"] /\ disk' = disk
    <3>1. /\ agent' \in [Hosts -> AgentType]
          /\ agent'[h].pc = "run" /\ agent'[h].cert = agent[h].cert
          /\ \A g \in Hosts \ {h} : agent'[g] = agent[g]
      BY <2>1, AgentMoves
    <3>2. HostMoves(h)
      BY <1>a, <2>1, <3>1 DEF HostMoves
    <3> QED BY <1>b, <1>c, <2>1, <3>1, <3>2 DEF Enrolling
  <2>2. CASE ~Enroll!HasCertificates(h) /\ Enroll!GenerateKeyAndCSR(h, t)
    <3> DEFINE a == [Enroll!Down EXCEPT !.pc = "send"]
               x == [a EXCEPT !.token = t]
    <3>1. a \in AgentType /\ a.pc = "send" /\ a.cert = Enroll!NoCert
      BY Blanks DEF AgentType, Enrolling
    <3>2. agent' = [agent EXCEPT ![h] = x]
      BY <2>2 DEF Enroll!GenerateKeyAndCSR
    <3> HIDE DEF a
    <3>3. x \in AgentType /\ x.pc = "send" /\ x.cert = Enroll!NoCert /\ x.token = t
      BY <3>1 DEF AgentType
    <3> HIDE DEF x
    <3>4. /\ agent' \in [Hosts -> AgentType] /\ agent'[h] = x
          /\ \A g \in Hosts \ {h} : agent'[g] = agent[g]
      BY <3>2, <3>3, AgentPut
    <3>5. Enroll!Fresh \in Enroll!HostKeys /\ (\A g \in Hosts : disk[g].key # Enroll!Fresh)
      BY <2>2, FreshKey DEF Enroll!GenerateKeyAndCSR
    <3>6. /\ disk' \in [Hosts -> DiskType] /\ disk'[h].key = Enroll!Fresh /\ disk'[h].ca = disk[h].ca
          /\ disk'[h].crt = disk[h].crt /\ \A g \in Hosts \ {h} : disk'[g] = disk[g]
      BY <2>2, <3>5, DiskKey DEF Enroll!GenerateKeyAndCSR
    <3>7. HostMoves(h)
      BY <1>a, <2>2, <3>3, <3>4, <3>5, <3>6 DEF HostMoves
    <3> QED BY <1>b, <3>3, <3>4, <3>5, <3>6, <3>7
  <2> QED BY <1>4, <2>1, <2>2 DEF Enroll!EnsureEnrolled
<1>5. CASE Enroll!WriteCutShort(h)
  <2>1. /\ agent' \in [Hosts -> AgentType] /\ agent'[h] = Enroll!Down
        /\ \A g \in Hosts \ {h} : agent'[g] = agent[g]
    BY <1>5, Blanks, AgentPut DEF Enroll!WriteCutShort
  <2>2. /\ disk' \in [Hosts -> DiskType] /\ EmptiesFile(h)
        /\ \A g \in Hosts \ {h} : disk'[g] = disk[g]
    <3>1. CASE ~Enroll!HasCertificates(h) /\ disk' = [disk EXCEPT ![h].key = Enroll!Empty]
      BY <3>1, DiskKey DEF EmptiesFile
    <3>2. CASE agent[h].pc = "ca" /\ disk' = [disk EXCEPT ![h].ca = Enroll!Empty]
      <4>1. Enroll!Empty \in Nat
        BY DEF Enroll!Empty
      <4> QED BY <3>2, <4>1, DiskCA DEF EmptiesFile
    <3>3. CASE agent[h].pc = "crt" /\ disk' = [disk EXCEPT ![h].crt = Enroll!EmptyCert]
      BY <3>3, Blanks, DiskCert DEF EmptiesFile
    <3> QED BY <1>5, <3>1, <3>2, <3>3 DEF Enroll!WriteCutShort
  <2>3. HostMoves(h)
    BY <1>a, <2>1, <2>2 DEF HostMoves
  <2> QED BY <1>b, <2>1, <2>2, <2>3, Blanks DEF Enrolling
<1> QED BY <1>1, <1>2, <1>3, <1>4, <1>5 DEF HostStep

LEMMA PostTypes ==
  ASSUME EnrollTyped, NEW h \in Hosts, Enroll!PostEnroll(h)
  PROVE  EnrollTyped' /\ PostMoves(h)
<1> DEFINE k == disk[h].key
<1>0. agent[h].pc = "send" /\ k \in Enroll!HostKeys /\ agent[h].token \in Tokens
  BY DEF Enroll!PostEnroll, EnrollTyped, Enrolling
<1>a. UNCHANGED <<authority, secret, nodeRows, disk>>
  BY DEF Enroll!PostEnroll
<1>1. CASE authority.up = "up"
  <2> DEFINE a == [Enroll!NoRequest EXCEPT !.pc = "got"]
             b == [a EXCEPT !.host = h]
             x == [b EXCEPT !.token = agent[h].token]
  <2>1. request' = [request EXCEPT ![k] = x] /\ agent' = [agent EXCEPT ![h].pc = "wait"]
    BY <1>1 DEF Enroll!PostEnroll
  <2>2. a \in RequestType /\ a.pc = "got"
    BY Blanks DEF RequestType, RequestPCs
  <2> HIDE DEF a
  <2>3. b \in RequestType /\ b.pc = "got" /\ b.host = h
    BY <2>2 DEF RequestType
  <2> HIDE DEF b
  <2>4. x \in RequestType /\ x.pc = "got" /\ x.host = h /\ x.token = agent[h].token
    BY <1>0, <2>3 DEF RequestType
  <2> HIDE DEF x
  <2>5. /\ request' \in [Enroll!HostKeys -> RequestType] /\ request'[k] = x
        /\ \A j \in Enroll!HostKeys \ {k} : request'[j] = request[j]
    BY <1>0, <2>1, <2>4, RequestPut
  <2>6. /\ agent' \in [Hosts -> AgentType]
        /\ agent'[h].pc = "wait" /\ agent'[h].token = agent[h].token
        /\ agent'[h].cert = agent[h].cert
        /\ \A g \in Hosts \ {h} : agent'[g] = agent[g]
    BY <2>1, AgentMoves DEF Enrolling
  <2>7. PostMoves(h)
    BY <1>0, <1>a, <2>4, <2>5, <2>6 DEF PostMoves
  <2>8. \A j \in Enroll!HostKeys : request'[j].pc # "none" => request'[j].host \in Hosts /\ request'[j].token \in Tokens
    BY <1>0, <2>4, <2>5 DEF EnrollTyped
  <2>9. \A g \in Hosts : agent'[g].pc \in Enrolling => disk[g].key \in Enroll!HostKeys /\ agent'[g].token \in Tokens
    BY <1>0, <2>6 DEF EnrollTyped
  <2> QED BY <1>a, <2>5, <2>6, <2>7, <2>8, <2>9 DEF EnrollTyped
<1>2. CASE authority.up # "up"
  <2>1. agent' = [agent EXCEPT ![h] = Enroll!Down] /\ request' = request
    BY <1>2 DEF Enroll!PostEnroll
  <2>2. /\ agent' \in [Hosts -> AgentType] /\ agent'[h] = Enroll!Down
        /\ \A g \in Hosts \ {h} : agent'[g] = agent[g]
    BY <2>1, Blanks, AgentPut
  <2>3. PostMoves(h)
    BY <1>0, <1>a, <2>1, <2>2 DEF PostMoves
  <2>4. \A g \in Hosts : agent'[g].pc \in Enrolling => disk[g].key \in Enroll!HostKeys /\ agent'[g].token \in Tokens
    BY <2>2, Blanks DEF EnrollTyped, Enrolling
  <2> QED BY <1>a, <2>1, <2>2, <2>3, <2>4 DEF EnrollTyped
<1> QED BY <1>1, <1>2

\* An agent that waits for the answer to the request with key k is the host that
\* request names.
LEMMA HeardBy ==
  ASSUME Waiting, NEW k \in Enroll!HostKeys, Enroll!Heard(k)
  PROVE  agent[request[k].host].pc = "wait" /\ disk[request[k].host].key = k
BY DEF Enroll!Heard, Waiting

LEMMA AnswerTypes ==
  ASSUME EnrollTyped, Waiting, NEW k \in Enroll!HostKeys, Enroll!AnswerEnroll(k)
  PROVE  EnrollTyped' /\ AnswerMoves(k)
<1> DEFINE g == request[k].host
<1>0. g \in Hosts /\ request[k] \in RequestType /\ authority.up = "up"
  BY DEF Enroll!AnswerEnroll, Enroll!At, EnrollTyped
<1>a. UNCHANGED <<authority, secret, nodeRows, disk>>
  BY DEF Enroll!AnswerEnroll
<1>b. agent[g] \in AgentType
  BY <1>0 DEF EnrollTyped
<1>1. /\ request' \in [Enroll!HostKeys -> RequestType] /\ request'[k] = Enroll!NoRequest
      /\ \A j \in Enroll!HostKeys \ {k} : request'[j] = request[j]
  BY Blanks, RequestPut DEF Enroll!AnswerEnroll
<1>2. \A j \in Enroll!HostKeys : request'[j].pc # "none" => request'[j].host \in Hosts /\ request'[j].token \in Tokens
  BY <1>1, Blanks DEF EnrollTyped
<1>c. ASSUME NEW x \in AgentType, agent' = [agent EXCEPT ![g] = x],
             x.pc \in Enrolling => disk[g].key \in Enroll!HostKeys /\ x.token \in Tokens,
             \/ ~Enroll!Heard(k) /\ x = agent[g]
             \/ x = Enroll!Down
             \/ /\ Enroll!Heard(k) /\ request[k].pc = "signed" /\ x.pc = "ca" /\ x.cert = request[k].cert
                /\ x.token = agent[g].token /\ x.caPem = authority.ca
      PROVE  EnrollTyped' /\ AnswerMoves(k)
  <2>1. /\ agent' \in [Hosts -> AgentType] /\ agent'[g] = x
        /\ \A f \in Hosts \ {g} : agent'[f] = agent[f]
    BY <1>0, <1>c, AgentPut
  <2>2. AnswerMoves(k)
    BY <1>0, <1>1, <1>a, <1>c, <2>1 DEF AnswerMoves
  <2>3. \A f \in Hosts : agent'[f].pc \in Enrolling => disk[f].key \in Enroll!HostKeys /\ agent'[f].token \in Tokens
    BY <1>c, <2>1 DEF EnrollTyped
  <2> QED BY <1>1, <1>2, <1>a, <2>1, <2>2, <2>3 DEF EnrollTyped
<1>3. CASE ~Enroll!Heard(k)
  <2>1. agent' = [agent EXCEPT ![g] = agent[g]]
    BY <1>3 DEF Enroll!AnswerEnroll
  <2>2. agent[g].pc \in Enrolling => disk[g].key \in Enroll!HostKeys /\ agent[g].token \in Tokens
    BY <1>0 DEF EnrollTyped
  <2> QED BY <1>3, <1>b, <1>c, <2>1, <2>2
<1>4. CASE Enroll!Heard(k) /\ request[k].pc = "refused"
  <2>1. agent' = [agent EXCEPT ![g] = Enroll!Down]
    BY <1>4 DEF Enroll!AnswerEnroll
  <2> QED BY <1>c, <2>1, Blanks DEF Enrolling
<1>5. CASE Enroll!Heard(k) /\ request[k].pc # "refused"
  <2> DEFINE a == [agent[g] EXCEPT !.pc = "ca"]
             b == [a EXCEPT !.cert = request[k].cert]
             x == [b EXCEPT !.caPem = authority.ca]
  <2>1. agent' = [agent EXCEPT ![g] = x]
    BY <1>5 DEF Enroll!AnswerEnroll
  <2>2. request[k].pc = "signed" /\ request[k].cert \in CertType /\ authority.ca \in Nat
    BY <1>0, <1>5 DEF Enroll!AnswerEnroll, Enroll!At, RequestType, EnrollTyped, AuthorityType
  <2>3. agent[g].pc = "wait" /\ disk[g].key \in Enroll!HostKeys /\ agent[g].token \in Tokens
    BY <1>0, <1>5, HeardBy DEF EnrollTyped, Enrolling
  <2>4. a \in AgentType /\ a.pc = "ca" /\ a.token = agent[g].token
    BY <1>b DEF AgentType, Enrolling
  <2> HIDE DEF a
  <2>5. b \in AgentType /\ b.pc = "ca" /\ b.token = agent[g].token /\ b.cert = request[k].cert
    BY <2>2, <2>4 DEF AgentType
  <2> HIDE DEF b
  <2>6. /\ x \in AgentType /\ x.pc = "ca" /\ x.token = agent[g].token /\ x.cert = request[k].cert
        /\ x.caPem = authority.ca
    BY <2>2, <2>5 DEF AgentType
  <2> HIDE DEF x
  <2> QED BY <1>5, <1>c, <2>1, <2>2, <2>3, <2>6
<1> QED BY <1>3, <1>4, <1>5

-----------------------------------------------------------------------------
LEMMA StepCases ==
  ASSUME [Enroll!Next]_(Enroll!enrollVars)
  PROVE  \/ BootStep \/ TokenStep \/ FateStep \/ Enroll!ServerDies \/ UNCHANGED Enroll!enrollVars
         \/ \E k \in Enroll!HostKeys : HandlerStep(k) \/ Enroll!AnswerEnroll(k)
         \/ \E h \in Hosts : HostStep(h) \/ Enroll!PostEnroll(h)
BY DEF Enroll!Next, BootStep, TokenStep, FateStep, HandlerStep, HostStep

\* An answer finds the agent that asked, whatever died and started again
\* meanwhile: this needs no assumption on the authority's files.
BaseInv == EnrollTyped /\ Waiting /\ Distinct

LEMMA StepBase ==
  ASSUME MaxKeys \in Nat
  PROVE  BaseInv /\ [Enroll!Next]_(Enroll!enrollVars) => BaseInv'
<1> SUFFICES ASSUME BaseInv, [Enroll!Next]_(Enroll!enrollVars) PROVE BaseInv'
  OBVIOUS
<1>0. EnrollTyped /\ Waiting /\ Distinct
  BY DEF BaseInv
<1>1. CASE BootStep \/ TokenStep \/ FateStep
  <2>0. FateStep => EnrollTyped'
    BY <1>0, FatesOnly DEF EnrollTyped
  <2>1. EnrollTyped' /\ UNCHANGED <<request, disk, agent>>
    BY <1>0, <1>1, <2>0, BootTypes, TokenTypes, FatesOnly
  <2> QED BY <1>0, <2>1 DEF BaseInv, Waiting, Distinct
<1>2. CASE Enroll!ServerDies
  <2>1. EnrollTyped' /\ disk' = disk
    BY <1>0, <1>2, DeathTypes DEF Enroll!ServerDies
  <2>2. \A h \in Hosts : agent'[h].pc # "wait"
    BY <1>2, Blanks DEF Enroll!ServerDies
  <2> QED BY <1>0, <2>1, <2>2 DEF BaseInv, Waiting, Distinct
<1>3. ASSUME NEW k \in Enroll!HostKeys, HandlerStep(k) PROVE BaseInv'
  <2>1. EnrollTyped' /\ HandlerMoves(k)
    BY <1>0, <1>3, HandlerTypes
  <2>2. \A j \in Enroll!HostKeys : request[j].pc # "none" =>
          request'[j].pc # "none" /\ request'[j].host = request[j].host
    BY <2>1 DEF HandlerMoves
  <2>3. Waiting'
    <3> SUFFICES ASSUME NEW h \in Hosts, agent[h].pc = "wait"
                 PROVE  request'[disk[h].key].pc # "none" /\ request'[disk[h].key].host = h
      BY <2>1 DEF Waiting, HandlerMoves
    <3>1. disk[h].key \in Enroll!HostKeys /\ request[disk[h].key].pc # "none" /\ request[disk[h].key].host = h
      BY <1>0 DEF Waiting, EnrollTyped, Enrolling
    <3> QED BY <2>2, <3>1
  <2> QED BY <1>0, <2>1, <2>3 DEF BaseInv, Distinct, HandlerMoves
<1>4. ASSUME NEW k \in Enroll!HostKeys, Enroll!AnswerEnroll(k) PROVE BaseInv'
  <2>1. EnrollTyped' /\ AnswerMoves(k)
    BY <1>0, <1>4, AnswerTypes
  <2>2. Waiting'
    <3> SUFFICES ASSUME NEW h \in Hosts, agent'[h].pc = "wait"
                 PROVE  request'[disk[h].key].pc # "none" /\ request'[disk[h].key].host = h
      BY <2>1 DEF Waiting, AnswerMoves
    <3>1. agent[h].pc = "wait" /\ (h # request[k].host \/ ~Enroll!Heard(k))
      BY <2>1, Blanks DEF AnswerMoves
    <3>2. disk[h].key \in Enroll!HostKeys /\ request[disk[h].key].pc # "none" /\ request[disk[h].key].host = h
      BY <1>0, <3>1 DEF Waiting, EnrollTyped, Enrolling
    <3>3. disk[h].key # k
      BY <3>1, <3>2 DEF Enroll!Heard
    <3> QED BY <2>1, <3>2, <3>3 DEF AnswerMoves
  <2> QED BY <1>0, <2>1, <2>2 DEF BaseInv, Distinct, AnswerMoves
<1>5. ASSUME NEW h \in Hosts, HostStep(h) PROVE BaseInv'
  <2>1. EnrollTyped' /\ HostMoves(h)
    BY <1>0, <1>5, HostTypes
  <2>2. agent'[h].pc # "wait" /\ request' = request
        /\ \A g \in Hosts \ {h} : agent'[g] = agent[g] /\ disk'[g] = disk[g]
    BY <2>1, Blanks DEF HostMoves
  <2>3. Waiting'
    BY <1>0, <2>2 DEF Waiting
  <2>4. \/ disk'[h].key = disk[h].key \/ disk'[h].key = Enroll!Empty
        \/ \A g \in Hosts : disk[g].key # disk'[h].key
    BY <2>1 DEF HostMoves, EmptiesFile
  <2>5. Distinct'
    BY <1>0, <2>2, <2>4 DEF Distinct
  <2> QED BY <2>1, <2>3, <2>5 DEF BaseInv
<1>6. ASSUME NEW h \in Hosts, Enroll!PostEnroll(h) PROVE BaseInv'
  <2>1. EnrollTyped' /\ PostMoves(h)
    BY <1>0, <1>6, PostTypes
  <2>2. disk[h].key \in Enroll!HostKeys /\ disk[h].key \notin {0, Enroll!Empty}
    BY <1>0, <2>1, KeysAreNumbers DEF PostMoves, EnrollTyped, Enrolling
  <2>3. Waiting'
    <3> SUFFICES ASSUME NEW g \in Hosts, agent'[g].pc = "wait"
                 PROVE  request'[disk[g].key].pc # "none" /\ request'[disk[g].key].host = g
      BY <2>1 DEF Waiting, PostMoves
    <3>1. CASE g = h
      BY <2>1, <3>1, Blanks DEF PostMoves
    <3>2. CASE g # h
      <4>1. agent[g].pc = "wait" /\ disk[g].key # disk[h].key
        BY <1>0, <2>1, <2>2, <3>2 DEF PostMoves, Distinct
      <4>2. disk[g].key \in Enroll!HostKeys /\ request[disk[g].key].pc # "none" /\ request[disk[g].key].host = g
        BY <1>0, <4>1 DEF Waiting, EnrollTyped, Enrolling
      <4> QED BY <2>1, <4>1, <4>2 DEF PostMoves
    <3> QED BY <3>1, <3>2
  <2> QED BY <1>0, <2>1, <2>3 DEF BaseInv, Distinct, PostMoves
<1>7. CASE UNCHANGED Enroll!enrollVars
  BY <1>0, <1>7 DEF Enroll!enrollVars, BaseInv, EnrollTyped, Waiting, Distinct
<1> QED BY <1>1, <1>2, <1>3, <1>4, <1>5, <1>6, <1>7, StepCases

LEMMA InitBase ==
  ASSUME MaxKeys \in Nat
  PROVE  Enroll!Init => BaseInv
<1> SUFFICES ASSUME Enroll!Init PROVE BaseInv
  OBVIOUS
<1>1. authority \in AuthorityType
  BY DEF Enroll!Init, AuthorityType
<1>2. secret \in [Tokens -> SecretType]
  BY DEF Enroll!Init, SecretType
<1>3. request \in [Enroll!HostKeys -> RequestType] /\ \A k \in Enroll!HostKeys : request[k].pc = "none"
  BY Blanks DEF Enroll!Init
<1>4. disk \in [Hosts -> DiskType] /\ \A h \in Hosts : disk[h].key = 0 /\ disk[h].crt = Enroll!NoCert
  BY Blanks DEF Enroll!Init, DiskType
<1>5. agent \in [Hosts -> AgentType] /\ \A h \in Hosts : agent[h] = Enroll!Down
  BY Blanks DEF Enroll!Init
<1>6. \A h \in Hosts : agent[h].pc = "down"
  BY <1>5, Blanks
<1>7. EnrollTyped
  BY <1>1, <1>2, <1>3, <1>4, <1>5, <1>6 DEF EnrollTyped, Enroll!Init, Enrolling
<1> QED BY <1>4, <1>6, <1>7 DEF BaseInv, Waiting, Distinct

-----------------------------------------------------------------------------
\* Good(c) in the next state, for a c of this one.
GoodNext(c) == authority'.key # 0 /\ c.ca = authority'.key /\ \E r \in nodeRows' : r.cert = c

\* The server boots with both files, or writes the second one for the first time.
LEMMA StepAuthority ==
  ASSUME ~WriteFaults, EnrollTyped, Authority, [Enroll!Next]_(Enroll!enrollVars)
  PROVE  Authority' /\ (authority.key # 0 => authority'.key = authority.key)
<1>0. authority \in AuthorityType
  BY DEF EnrollTyped
<1>a. Enroll!Empty = 1 /\ Enroll!NewCA = authority.boots + 2 /\ Enroll!NewCA \notin {0, Enroll!Empty}
  BY <1>0 DEF AuthorityType, Enroll!Empty, Enroll!NewCA
<1>1. CASE Enroll!loadExistingCA
  <2>1. authority.key # 0 /\ authority.crt # 0
    BY <1>1 DEF Enroll!loadExistingCA
  <2>2. /\ authority'.up = "up" /\ authority'.crt = authority.crt /\ authority'.key = authority.key
        /\ authority.crt = authority.key /\ authority.key # Enroll!Empty => authority'.ca = authority.crt
    BY <1>0, <1>1 DEF Enroll!loadExistingCA, AuthorityType
  <2> QED BY <2>1, <2>2 DEF Authority
<1>2. CASE Enroll!generateNewCA
  <2>1. authority.key = 0
    BY <1>2, <1>a DEF Enroll!generateNewCA, Authority
  <2>2. Enroll!Written(authority.crt, Enroll!NewCA) = {Enroll!NewCA}
    BY DEF Enroll!Written
  <2>3. authority' = [authority EXCEPT !.up = "boot", !.ca = Enroll!NewCA, !.boots = @ + 1, !.crt = Enroll!NewCA]
    BY <1>2, <2>2 DEF Enroll!generateNewCA
  <2>4. /\ authority'.up = "boot" /\ authority'.ca = Enroll!NewCA
        /\ authority'.crt = Enroll!NewCA /\ authority'.key = authority.key
    BY <1>0, <2>3 DEF AuthorityType
  <2> QED BY <1>a, <2>1, <2>4 DEF Authority
<1>3. CASE Enroll!WriteCAKey
  <2>1. authority.key = 0 /\ authority.ca \notin {0, Enroll!Empty} /\ authority.ca = authority.crt
    BY <1>3 DEF Enroll!WriteCAKey, Authority
  <2>2. authority' = [authority EXCEPT !.up = "up", !.key = authority.ca]
    BY <1>3 DEF Enroll!WriteCAKey, Enroll!Written
  <2>3. /\ authority'.up = "up" /\ authority'.key = authority.ca
        /\ authority'.ca = authority.ca /\ authority'.crt = authority.crt
    BY <1>0, <2>2 DEF AuthorityType
  <2> QED BY <2>1, <2>3 DEF Authority
<1>4. CASE Enroll!ServerDies
  <2>1. authority'.up = "down" /\ authority'.key = authority.key /\ authority'.crt = authority.crt
    BY <1>0, <1>4 DEF Enroll!ServerDies, AuthorityType
  <2> QED BY <2>1 DEF Authority
<1>5. CASE authority' = authority
  BY <1>5 DEF Authority
<1>6. CASE Enroll!BootCutShort
  <2>1. CASE /\ authority.up = "down" /\ (authority.crt = 0 \/ authority.key = 0)
             /\ authority' = [authority EXCEPT !.crt = Enroll!Empty]
    <3>1. authority.key = 0
      BY <1>a, <2>1 DEF Authority
    <3>2. authority'.up = "down" /\ authority'.key = authority.key
      BY <1>0, <2>1 DEF AuthorityType
    <3> QED BY <1>a, <3>1, <3>2 DEF Authority
  <2>2. CASE /\ authority.up = "boot"
             /\ authority' = [authority EXCEPT !.up = "down", !.ca = 0, !.key = Enroll!Empty]
    <3>1. authority.key = 0 /\ authority.crt # 0
      BY <2>2 DEF Authority
    <3>2. authority'.up = "down" /\ authority'.key = Enroll!Empty /\ authority'.crt = authority.crt
      BY <1>0, <2>2 DEF AuthorityType
    <3> QED BY <1>a, <3>1, <3>2 DEF Authority
  <2> QED BY <1>6, <2>1, <2>2 DEF Enroll!BootCutShort
<1>7. BootStep \/ Enroll!ServerDies \/ authority' = authority
  BY StepCases, FatesOnly DEF TokenStep, Enroll!CreateEnrollmentToken, Enroll!Expire, HandlerStep, Enroll!CheckToken, Enroll!SignAndCreate,
     Enroll!MarkUsed, Enroll!Cancelled, Enroll!AnswerEnroll, HostStep, Enroll!SaveCA, Enroll!SaveCert, Enroll!AgentDies,
     Enroll!WriteCutShort, Enroll!EnsureEnrolled, Enroll!PostEnroll, Enroll!enrollVars
<1> QED BY <1>1, <1>2, <1>3, <1>4, <1>5, <1>6, <1>7 DEF BootStep

LEMMA RowsStay ==
  ASSUME MaxKeys \in Nat, BaseInv, [Enroll!Next]_(Enroll!enrollVars)
  PROVE  nodeRows \subseteq nodeRows'
<1>1. ASSUME NEW k \in Enroll!HostKeys, HandlerStep(k) PROVE nodeRows \subseteq nodeRows'
  BY <1>1, HandlerTypes DEF HandlerMoves, BaseInv
<1>2. CASE ~ \E k \in Enroll!HostKeys : HandlerStep(k)
  BY <1>2, StepCases, FatesOnly DEF BootStep, Enroll!loadExistingCA, Enroll!generateNewCA, Enroll!WriteCAKey, Enroll!BootCutShort,
     Enroll!ServerDies, TokenStep, Enroll!CreateEnrollmentToken, Enroll!Expire, Enroll!AnswerEnroll, HostStep, Enroll!SaveCA,
     Enroll!SaveCert, Enroll!AgentDies, Enroll!WriteCutShort, Enroll!EnsureEnrolled, Enroll!PostEnroll, Enroll!enrollVars
<1> QED BY <1>1, <1>2

LEMMA GoodStays ==
  ASSUME authority.key # 0 => authority'.key = authority.key, nodeRows \subseteq nodeRows',
         NEW c, Good(c)
  PROVE  GoodNext(c)
BY DEF Good, GoodNext

LEMMA StepRequests ==
  ASSUME MaxKeys \in Nat, ~WriteFaults, EnrollInv, [Enroll!Next]_(Enroll!enrollVars)
  PROVE  authority'.key # Enroll!Empty => Answers'
<1> SUFFICES ASSUME authority'.key # Enroll!Empty, NEW j \in Enroll!HostKeys, request'[j].pc \in {"mark", "signed"}
             PROVE  GoodNext(request'[j].cert) /\ request'[j].cert.key = j
  BY DEF Answers, Good, GoodNext
<1>0. BaseInv /\ EnrollTyped /\ Waiting /\ Authority
  BY DEF EnrollInv, BaseInv
<1>1. /\ Authority' /\ (authority.key # 0 => authority'.key = authority.key)
      /\ nodeRows \subseteq nodeRows'
  BY <1>0, StepAuthority, RowsStay
<1>a. authority.key # Enroll!Empty /\ Answers
  BY <1>1, KeysAreNumbers DEF EnrollInv
<1>2. ASSUME request'[j] = request[j] PROVE GoodNext(request'[j].cert) /\ request'[j].cert.key = j
  BY <1>1, <1>2, <1>a, GoodStays DEF Answers
<1>3. CASE BootStep \/ TokenStep \/ FateStep \/ UNCHANGED Enroll!enrollVars \/ \E h \in Hosts : HostStep(h)
  <2>1. request' = request
    BY <1>3, FatesOnly DEF BootStep, Enroll!loadExistingCA, Enroll!generateNewCA, Enroll!WriteCAKey, Enroll!BootCutShort, TokenStep,
       Enroll!CreateEnrollmentToken, Enroll!Expire, HostStep, Enroll!SaveCA, Enroll!SaveCert, Enroll!AgentDies,
       Enroll!WriteCutShort, Enroll!EnsureEnrolled, Enroll!enrollVars
  <2> QED BY <1>2, <2>1
<1>4. CASE Enroll!ServerDies
  BY <1>4, Blanks DEF Enroll!ServerDies
<1>5. ASSUME NEW k \in Enroll!HostKeys, HandlerStep(k)
      PROVE  GoodNext(request'[j].cert) /\ request'[j].cert.key = j
  <2>1. HandlerMoves(k)
    BY <1>0, <1>5, HandlerTypes
  <2>2. CASE j # k
    BY <1>2, <2>1, <2>2 DEF HandlerMoves
  <2>3. CASE j = k /\ request'[k].pc = "mark"
    <3>1. /\ request'[k].cert = Enroll!SignNodeCSR(k) /\ authority.up = "up" /\ authority' = authority
          /\ \E r \in nodeRows' : r.cert = Enroll!SignNodeCSR(k)
      BY <2>1, <2>3 DEF HandlerMoves
    <3>2. authority.key # 0 /\ authority.ca = authority.key
      BY <1>0, <1>a, <3>1 DEF Authority
    <3>3. Enroll!SignNodeCSR(k).ca = authority.ca /\ Enroll!SignNodeCSR(k).key = k
      BY DEF Enroll!SignNodeCSR
    <3> QED BY <2>3, <3>1, <3>2, <3>3 DEF GoodNext
  <2>4. CASE j = k /\ request'[k].pc = "signed"
    <3>1. request[k].pc = "mark" /\ request'[k].cert = request[k].cert
      BY <2>1, <2>4 DEF HandlerMoves
    <3>2. Good(request[k].cert) /\ request[k].cert.key = k
      BY <1>a, <3>1 DEF Answers
    <3> QED BY <1>1, <2>4, <3>1, <3>2, GoodStays
  <2> QED BY <2>2, <2>3, <2>4
<1>6. ASSUME NEW k \in Enroll!HostKeys, Enroll!AnswerEnroll(k)
      PROVE  GoodNext(request'[j].cert) /\ request'[j].cert.key = j
  <2>1. AnswerMoves(k)
    BY <1>0, <1>6, AnswerTypes
  <2>2. j # k /\ request'[j] = request[j]
    BY <2>1, Blanks DEF AnswerMoves
  <2> QED BY <1>2, <2>2
<1>7. ASSUME NEW h \in Hosts, Enroll!PostEnroll(h)
      PROVE  GoodNext(request'[j].cert) /\ request'[j].cert.key = j
  <2>1. PostMoves(h)
    BY <1>0, <1>7, PostTypes
  <2>2. request'[j] = request[j]
    BY <2>1 DEF PostMoves
  <2> QED BY <1>2, <2>2
<1> QED BY <1>3, <1>4, <1>5, <1>6, <1>7, StepCases

\* HostOk(h) in the next state.
HostNext(h) ==
  /\ agent'[h].pc \in {"ca", "crt"} =>
       /\ GoodNext(agent'[h].cert) /\ agent'[h].cert.key = disk'[h].key
       /\ agent'[h].caPem = authority'.key
  /\ agent'[h].pc = "crt" => disk'[h].ca = authority'.key
  /\ agent'[h].pc \in Enrolling => disk'[h].crt = Enroll!NoCert
  /\ disk'[h].crt = Enroll!EmptyCert => disk'[h].key # 0 /\ disk'[h].ca # 0
  /\ disk'[h].crt \notin {Enroll!NoCert, Enroll!EmptyCert} =>
       /\ GoodNext(disk'[h].crt) /\ disk'[h].crt.key = disk'[h].key /\ disk'[h].key # 0
       /\ disk'[h].ca = authority'.key

\* A host whose files stay, and whose agent stays, ends, or has no certificate yet.
LEMMA FilesStay ==
  ASSUME authority.key # 0 => authority'.key = authority.key, nodeRows \subseteq nodeRows',
         NEW h \in Hosts, HostOk(h), disk'[h] = disk[h],
         \/ agent'[h] = agent[h]
         \/ agent'[h].pc \in {"down", "run"}
         \/ agent[h].pc = "send" /\ agent'[h].pc = "wait"
  PROVE  HostNext(h)
<1>1. /\ disk[h].crt = Enroll!EmptyCert => disk[h].key # 0 /\ disk[h].ca # 0
      /\ disk[h].crt \notin {Enroll!NoCert, Enroll!EmptyCert} =>
           /\ GoodNext(disk[h].crt) /\ disk[h].crt.key = disk[h].key /\ disk[h].key # 0
           /\ disk[h].ca = authority'.key
  <2>1. disk[h].crt \notin {Enroll!NoCert, Enroll!EmptyCert} => Good(disk[h].crt) /\ authority'.key = authority.key
    BY DEF HostOk, Good
  <2> QED BY <2>1, GoodStays DEF HostOk
<1>2. CASE agent'[h] = agent[h]
  <2>1. agent[h].pc \in {"ca", "crt"} => GoodNext(agent[h].cert) /\ authority'.key = authority.key
    BY GoodStays DEF HostOk, Good
  <2> QED BY <1>1, <1>2, <2>1 DEF HostOk, HostNext
<1>3. CASE agent'[h].pc \in {"down", "run"}
  BY <1>1, <1>3 DEF HostNext, Enrolling
<1>4. CASE agent[h].pc = "send" /\ agent'[h].pc = "wait"
  BY <1>1, <1>4 DEF HostOk, HostNext, Enrolling
<1> QED BY <1>2, <1>3, <1>4

LEMMA StepHosted ==
  ASSUME MaxKeys \in Nat, ~WriteFaults, EnrollInv, [Enroll!Next]_(Enroll!enrollVars)
  PROVE  authority'.key # Enroll!Empty => Hosted'
<1> SUFFICES ASSUME authority'.key # Enroll!Empty, NEW g \in Hosts PROVE HostNext(g)
  BY DEF Hosted, HostOk, HostNext, Good, GoodNext
<1>a. BaseInv /\ EnrollTyped /\ Waiting /\ Authority
  BY DEF EnrollInv, BaseInv
<1>1. /\ (authority.key # 0 => authority'.key = authority.key)
      /\ nodeRows \subseteq nodeRows'
  BY <1>a, StepAuthority, RowsStay
<1>b. authority.key # Enroll!Empty /\ Answers /\ Hosted
  BY <1>1, KeysAreNumbers DEF EnrollInv
<1>0. BaseInv /\ EnrollTyped /\ Waiting /\ Authority /\ HostOk(g)
  BY <1>a, <1>b DEF Hosted
<1>2. CASE BootStep \/ TokenStep \/ FateStep \/ UNCHANGED Enroll!enrollVars \/ \E k \in Enroll!HostKeys : HandlerStep(k)
  <2>1. agent' = agent /\ disk' = disk
    BY <1>2, FatesOnly DEF BootStep, Enroll!loadExistingCA, Enroll!generateNewCA, Enroll!WriteCAKey, Enroll!BootCutShort, TokenStep,
       Enroll!CreateEnrollmentToken, Enroll!Expire, HandlerStep, Enroll!CheckToken, Enroll!SignAndCreate, Enroll!MarkUsed, Enroll!Cancelled, Enroll!enrollVars
  <2> QED BY <1>0, <1>1, <2>1, FilesStay
<1>3. CASE Enroll!ServerDies
  <2>1. disk' = disk /\ (agent'[g] = agent[g] \/ agent'[g].pc = "down")
    BY <1>3, Blanks DEF Enroll!ServerDies
  <2> QED BY <1>0, <1>1, <2>1, FilesStay
<1>4. ASSUME NEW k \in Enroll!HostKeys, Enroll!AnswerEnroll(k) PROVE HostNext(g)
  <2>1. AnswerMoves(k) /\ disk' = disk /\ authority' = authority
    BY <1>0, <1>4, AnswerTypes DEF AnswerMoves
  <2>2. CASE agent'[g] = agent[g] \/ agent'[g] = Enroll!Down
    BY <1>0, <1>1, <2>1, <2>2, FilesStay, Blanks
  <2>3. CASE /\ g = request[k].host /\ Enroll!Heard(k) /\ request[k].pc = "signed"
             /\ agent'[g].pc = "ca" /\ agent'[g].cert = request[k].cert
             /\ agent'[g].caPem = authority.ca
    <3>1. agent[g].pc = "wait" /\ disk[g].key = k
      BY <1>0, <2>3, HeardBy
    <3>2. Good(request[k].cert) /\ request[k].cert.key = k
      BY <1>b, <2>3 DEF Answers
    <3>3. authority.ca = authority.key
      BY <1>0, <1>b, <2>1 DEF AnswerMoves, Authority
    <3>4. disk[g].crt = Enroll!NoCert
      BY <1>0, <3>1 DEF HostOk, Enrolling
    <3>5. GoodNext(agent'[g].cert)
      BY <1>1, <2>3, <3>2, GoodStays
    <3> QED BY <2>1, <2>3, <3>1, <3>2, <3>3, <3>4, <3>5, Blanks DEF HostNext
  <2> QED BY <2>1, <2>2, <2>3 DEF AnswerMoves
<1>5. ASSUME NEW h \in Hosts, HostStep(h) PROVE HostNext(g)
  <2>1. HostMoves(h) /\ authority' = authority
    BY <1>0, <1>5, HostTypes DEF HostMoves
  <2>2. CASE g # h
    <3>1. agent'[g] = agent[g] /\ disk'[g] = disk[g]
      BY <2>1, <2>2 DEF HostMoves
    <3> QED BY <1>0, <1>1, <3>1, FilesStay
  <2>3. CASE g = h /\ disk'[h] = disk[h] /\ (agent'[h].pc = "run" \/ agent'[h] = Enroll!Down)
    BY <1>0, <1>1, <2>3, FilesStay, Blanks
  <2>4. CASE /\ g = h /\ ~Enroll!HasCertificates(h) /\ agent'[h].pc = "send"
             /\ disk'[h].crt = disk[h].crt
    <3>1. disk[h].crt # Enroll!NoCert => disk[h].key # 0 /\ disk[h].ca # 0
      BY <1>0, <2>4 DEF HostOk, Good
    <3>2. disk[h].crt = Enroll!NoCert
      BY <2>4, <3>1 DEF Enroll!HasCertificates
    <3> QED BY <2>4, <3>2, Blanks DEF HostNext
  <2>5. CASE /\ g = h /\ agent[h].pc = "ca" /\ agent'[h].pc = "crt"
             /\ agent'[h].cert = agent[h].cert /\ agent'[h].caPem = agent[h].caPem
             /\ disk'[h].ca = agent[h].caPem
             /\ disk'[h].key = disk[h].key /\ disk'[h].crt = disk[h].crt
    <3>1. /\ Good(agent[h].cert) /\ agent[h].cert.key = disk[h].key
          /\ agent[h].caPem = authority.key /\ disk[h].crt = Enroll!NoCert
      BY <1>0, <2>5 DEF HostOk, Enrolling
    <3>2. GoodNext(agent'[h].cert)
      BY <1>1, <2>5, <3>1, GoodStays
    <3> QED BY <2>1, <2>5, <3>1, <3>2, Blanks DEF HostNext
  <2>6. CASE /\ g = h /\ agent[h].pc = "crt" /\ agent'[h].pc = "run"
             /\ disk'[h].crt = agent[h].cert
             /\ disk'[h].key = disk[h].key /\ disk'[h].ca = disk[h].ca
    <3>1. /\ Good(agent[h].cert) /\ agent[h].cert.key = disk[h].key
          /\ disk[h].ca = authority.key
      BY <1>0, <2>6 DEF HostOk
    <3>2. disk[h].key # 0
      BY <1>0, <2>6, KeysAreNumbers DEF EnrollTyped, Enrolling
    <3>3. GoodNext(disk'[h].crt)
      BY <1>1, <2>6, <3>1, GoodStays
    <3>4. disk'[h].ca # 0
      BY <2>6, <3>1 DEF Good
    <3> QED BY <2>1, <2>6, <3>1, <3>2, <3>3, <3>4 DEF HostNext, Enrolling
  <2>7. CASE g = h /\ agent'[h] = Enroll!Down /\ EmptiesFile(h)
    <3>1. CASE disk'[h].crt = disk[h].crt /\ (~Enroll!HasCertificates(h) \/ agent[h].pc = "ca")
      <4>1. disk[h].crt = Enroll!NoCert
        BY <1>0, <2>7, <3>1 DEF HostOk, Good, Enroll!HasCertificates, Enrolling
      <4> QED BY <2>7, <3>1, <4>1, Blanks DEF HostNext, Enrolling
    <3>2. CASE /\ agent[h].pc = "crt" /\ disk'[h].crt = Enroll!EmptyCert
               /\ disk'[h].key = disk[h].key /\ disk'[h].ca = disk[h].ca
      <4>1. disk[h].key # 0 /\ disk[h].ca # 0
        BY <1>0, <2>7, <3>2, KeysAreNumbers DEF EnrollTyped, Enrolling, HostOk, Good
      <4> QED BY <2>7, <3>2, <4>1, Blanks DEF HostNext, Enrolling
    <3> QED BY <2>7, <3>1, <3>2 DEF EmptiesFile
  <2> QED BY <2>1, <2>2, <2>3, <2>4, <2>5, <2>6, <2>7 DEF HostMoves
<1>6. ASSUME NEW h \in Hosts, Enroll!PostEnroll(h) PROVE HostNext(g)
  <2>1. PostMoves(h) /\ disk' = disk
    BY <1>0, <1>6, PostTypes DEF PostMoves
  <2>2. \/ agent'[g] = agent[g] \/ agent'[g].pc = "down"
        \/ agent[g].pc = "send" /\ agent'[g].pc = "wait"
    BY <2>1, Blanks DEF PostMoves
  <2> QED BY <1>0, <1>1, <2>1, <2>2, FilesStay
<1> QED BY <1>2, <1>3, <1>4, <1>5, <1>6, StepCases

-----------------------------------------------------------------------------
\* A host that has its three files is accepted by the server until its certificate
\* runs out or its node is revoked, whatever died and whenever, also within the
\* write of a file, over either node store: its key is the certificate's, its
\* authority the server's, and the server has its row.  A death that leaves
\* node.crt or the authority's key empty is excepted, and no other one; the writes
\* of the authority's files do not fail otherwise (main.go drops their errors).
THEOREM EnrolledCorrect ==
  ASSUME MaxKeys \in Nat, ~WriteFaults
  PROVE  Enroll!Spec => []Enroll!EnrolledIsAccepted
<1>1. Enroll!Init => EnrollInv
  <2> SUFFICES ASSUME Enroll!Init PROVE EnrollInv
    OBVIOUS
  <2>1. BaseInv
    BY InitBase
  <2>2. authority.key = 0 /\ authority.up = "down" /\ Enroll!Empty # 0
    BY KeysAreNumbers DEF Enroll!Init
  <2>3. \A k \in Enroll!HostKeys : request[k].pc = "none"
    BY Blanks DEF Enroll!Init
  <2>4. \A h \in Hosts : agent[h].pc = "down" /\ disk[h].crt = Enroll!NoCert
    BY Blanks DEF Enroll!Init
  <2> QED BY <2>1, <2>2, <2>3, <2>4, Blanks
       DEF EnrollInv, BaseInv, Authority, Answers, Hosted, HostOk, Enrolling
<1>2. EnrollInv /\ [Enroll!Next]_(Enroll!enrollVars) => EnrollInv'
  <2> SUFFICES ASSUME EnrollInv, [Enroll!Next]_(Enroll!enrollVars) PROVE EnrollInv'
    OBVIOUS
  <2>1. BaseInv'
    BY StepBase DEF EnrollInv, BaseInv
  <2>2. Authority'
    BY StepAuthority DEF EnrollInv
  <2>3. authority'.key # Enroll!Empty => Answers' /\ Hosted'
    BY StepRequests, StepHosted
  <2> QED BY <2>1, <2>2, <2>3 DEF EnrollInv, BaseInv
<1>3. EnrollInv => Enroll!EnrolledIsAccepted
  <2> SUFFICES ASSUME EnrollInv, NEW h \in Hosts, Enroll!HasCertificates(h), authority.up = "up",
                      disk[h].crt # Enroll!EmptyCert, authority.key # Enroll!Empty,
                      disk[h].crt.id \notin lapsed \cup barred
               PROVE  Enroll!Accepted(h)
    BY DEF Enroll!EnrolledIsAccepted
  <2>1. authority.ca = authority.key
    BY DEF EnrollInv, Authority
  <2>2. Good(disk[h].crt) /\ disk[h].crt.key = disk[h].key /\ disk[h].ca = authority.key
    BY DEF EnrollInv, Hosted, HostOk, Enroll!HasCertificates
  <2> QED BY <2>1, <2>2
       DEF Good, Enroll!Accepted, Enroll!LoadClientTLSConfig, Enroll!AuthenticateNodeCertificate, Enroll!VerifyCertificate
<1> QED BY <1>1, <1>2, <1>3, PTL DEF Enroll!Spec

-----------------------------------------------------------------------------
\* Named(c) in the next state, for a certificate that has a number.
LEMMA NamedStays ==
  ASSUME TokensKept, NEW c, c.id # 0, Named(c)
  PROVE  \E t \in Tokens : secret'[t].usedBy = c.id
BY DEF TokensKept, Named

LEMMA StepTokensKept ==
  ASSUME MaxKeys \in Nat, BaseInv, [Enroll!Next]_(Enroll!enrollVars)
  PROVE  TokensKept
<1>1. ASSUME NEW k \in Enroll!HostKeys, HandlerStep(k) PROVE TokensKept
  BY <1>1, HandlerTypes DEF HandlerMoves, BaseInv
<1>2. CASE TokenStep
  BY <1>2, TokenTypes DEF BaseInv
<1>3. CASE ~TokenStep /\ ~ \E k \in Enroll!HostKeys : HandlerStep(k)
  <2>1. secret' = secret
    BY <1>3, StepCases, FatesOnly DEF BootStep, Enroll!loadExistingCA, Enroll!generateNewCA, Enroll!WriteCAKey, Enroll!BootCutShort,
       Enroll!ServerDies, Enroll!AnswerEnroll, HostStep, Enroll!SaveCA, Enroll!SaveCert, Enroll!AgentDies,
       Enroll!WriteCutShort, Enroll!EnsureEnrolled, Enroll!PostEnroll, Enroll!enrollVars
  <2> QED BY <2>1 DEF TokensKept
<1> QED BY <1>1, <1>2, <1>3

\* A certificate in the hands of a request, an agent or a disk comes from where
\* it was in the state before.
LEMMA StepIssued ==
  ASSUME MaxKeys \in Nat, BaseInv, [Enroll!Next]_(Enroll!enrollVars)
  PROVE  /\ \A k \in Enroll!HostKeys : request'[k].pc \in {"mark", "signed"} =>
              \/ request'[k].cert.id = k
              \/ request[k].pc \in {"mark", "signed"} /\ request'[k].cert = request[k].cert
         /\ \A k \in Enroll!HostKeys : request'[k].pc = "signed" =>
              \/ \E t \in Tokens : secret'[t].usedBy = request'[k].cert.id
              \/ request'[k] = request[k]
         /\ \A h \in Hosts : \/ agent'[h].cert \in {Enroll!NoCert, agent[h].cert}
                             \/ \E k \in Enroll!HostKeys : request[k].pc = "signed" /\ agent'[h].cert = request[k].cert
         /\ \A h \in Hosts : disk'[h].crt \in {disk[h].crt, agent[h].cert, Enroll!EmptyCert}
<1>0. EnrollTyped /\ Waiting
  BY DEF BaseInv
<1>1. CASE BootStep \/ TokenStep \/ FateStep \/ UNCHANGED Enroll!enrollVars
  <2>1. UNCHANGED <<request, agent, disk>>
    BY <1>1, FatesOnly DEF BootStep, Enroll!loadExistingCA, Enroll!generateNewCA, Enroll!WriteCAKey, Enroll!BootCutShort, TokenStep, Enroll!CreateEnrollmentToken,
       Enroll!Expire, Enroll!enrollVars
  <2> QED BY <2>1
<1>2. CASE Enroll!ServerDies
  <2>1. disk' = disk /\ \A k \in Enroll!HostKeys : request'[k].pc = "none"
    BY <1>2, Blanks DEF Enroll!ServerDies
  <2>2. \A h \in Hosts : agent'[h].cert \in {Enroll!NoCert, agent[h].cert}
    BY <1>2, Blanks DEF Enroll!ServerDies
  <2> QED BY <2>1, <2>2
<1>3. CASE \E k \in Enroll!HostKeys : HandlerStep(k)
  <2>1. PICK k \in Enroll!HostKeys : HandlerStep(k)
    BY <1>3
  <2>2. HandlerMoves(k) /\ agent' = agent /\ disk' = disk
    BY <1>0, <2>1, HandlerTypes DEF HandlerMoves
  <2>3. Enroll!SignNodeCSR(k).id = k
    BY DEF Enroll!SignNodeCSR
  <2>4. request'[k].pc = "signed" => \E t \in Tokens : secret'[t].usedBy = request'[k].cert.id
    <3>1. request'[k].pc = "signed" => request'[k].cert = request[k].cert /\ Named(request[k].cert)'
      BY <2>2 DEF HandlerMoves
    <3> QED BY <3>1 DEF Named
  <2>5. request'[k].pc \in {"mark", "signed"} =>
              \/ request'[k].cert.id = k
              \/ request[k].pc \in {"mark", "signed"} /\ request'[k].cert = request[k].cert
    BY <2>2, <2>3 DEF HandlerMoves
  <2>6. \A j \in Enroll!HostKeys \ {k} : request'[j] = request[j]
    BY <2>2 DEF HandlerMoves
  <2> QED BY <2>2, <2>4, <2>5, <2>6
<1>4. CASE \E k \in Enroll!HostKeys : Enroll!AnswerEnroll(k)
  <2>1. PICK k \in Enroll!HostKeys : Enroll!AnswerEnroll(k)
    BY <1>4
  <2>2. AnswerMoves(k)
    BY <1>0, <2>1, AnswerTypes
  <2> QED BY <2>2, Blanks DEF AnswerMoves
<1>5. CASE \E h \in Hosts : HostStep(h)
  <2>1. PICK h \in Hosts : HostStep(h)
    BY <1>5
  <2>2. HostMoves(h)
    BY <1>0, <2>1, HostTypes
  <2> QED BY <2>2, Blanks DEF HostMoves, EmptiesFile
<1>6. CASE \E h \in Hosts : Enroll!PostEnroll(h)
  <2>1. PICK h \in Hosts : Enroll!PostEnroll(h)
    BY <1>6
  <2>2. PostMoves(h)
    BY <1>0, <2>1, PostTypes
  <2> QED BY <2>2, Blanks DEF PostMoves
<1> QED BY <1>1, <1>2, <1>3, <1>4, <1>5, <1>6, StepCases

LEMMA StepTokens ==
  ASSUME MaxKeys \in Nat, BaseInv, TokenInv, [Enroll!Next]_(Enroll!enrollVars)
  PROVE  TokenInv'
<1>0. TokensKept
  BY StepTokensKept
<1>1. \A k \in Enroll!HostKeys : request'[k].pc \in {"mark", "signed"} => request'[k].cert.id # 0
  BY StepIssued, KeysAreNumbers DEF TokenInv
<1>2. \A k \in Enroll!HostKeys : request'[k].pc = "signed" => \E t \in Tokens : secret'[t].usedBy = request'[k].cert.id
  <2> SUFFICES ASSUME NEW k \in Enroll!HostKeys, request'[k].pc = "signed", request'[k] = request[k]
               PROVE  \E t \in Tokens : secret'[t].usedBy = request'[k].cert.id
    BY StepIssued
  <2>1. request[k].cert.id # 0 /\ Named(request[k].cert)
    BY DEF TokenInv
  <2> QED BY <1>0, <2>1, NamedStays
<1>3. \A h \in Hosts : agent'[h].cert # Enroll!NoCert =>
        agent'[h].cert.id # 0 /\ \E t \in Tokens : secret'[t].usedBy = agent'[h].cert.id
  <2> SUFFICES ASSUME NEW h \in Hosts, agent'[h].cert # Enroll!NoCert
               PROVE  agent'[h].cert.id # 0 /\ \E t \in Tokens : secret'[t].usedBy = agent'[h].cert.id
    OBVIOUS
  <2>1. agent'[h].cert.id # 0 /\ Named(agent'[h].cert)
    BY StepIssued DEF TokenInv
  <2> QED BY <1>0, <2>1, NamedStays
<1>4. \A h \in Hosts : disk'[h].crt \notin {Enroll!NoCert, Enroll!EmptyCert} =>
        disk'[h].crt.id # 0 /\ \E t \in Tokens : secret'[t].usedBy = disk'[h].crt.id
  <2> SUFFICES ASSUME NEW h \in Hosts, disk'[h].crt \notin {Enroll!NoCert, Enroll!EmptyCert}
               PROVE  disk'[h].crt.id # 0 /\ \E t \in Tokens : secret'[t].usedBy = disk'[h].crt.id
    OBVIOUS
  <2>1. disk'[h].crt.id # 0 /\ \E t \in Tokens : secret[t].usedBy = disk'[h].crt.id
    BY StepIssued DEF TokenInv, Named
  <2> QED BY <1>0, <2>1 DEF TokensKept
<1> QED BY <1>1, <1>2, <1>3, <1>4 DEF TokenInv, Named

\* Of all the agents that race or retry with a token, over either node store and
\* through every death of a server or an agent, only the node the token names is
\* given a certificate: the conditional update of used_at decides.
THEOREM TokensCorrect ==
  ASSUME MaxKeys \in Nat
  PROVE  Enroll!Spec => []Enroll!TokenEnrollsOne
<1>1. Enroll!Init => BaseInv /\ TokenInv
  <2> SUFFICES ASSUME Enroll!Init PROVE BaseInv /\ TokenInv
    OBVIOUS
  <2>1. \A k \in Enroll!HostKeys : request[k].pc = "none"
    BY Blanks DEF Enroll!Init
  <2>2. \A h \in Hosts : agent[h].cert = Enroll!NoCert /\ disk[h].crt = Enroll!NoCert
    BY Blanks DEF Enroll!Init
  <2> QED BY <2>1, <2>2, InitBase DEF TokenInv
<1>2. BaseInv /\ TokenInv /\ [Enroll!Next]_(Enroll!enrollVars) => BaseInv' /\ TokenInv'
  BY StepBase, StepTokens
<1>3. TokenInv => Enroll!TokenEnrollsOne
  BY DEF TokenInv, Enroll!TokenEnrollsOne, Named
<1> QED BY <1>1, <1>2, <1>3, PTL DEF Enroll!Spec
=============================================================================
