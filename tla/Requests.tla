------------------------------ MODULE Requests ------------------------------
(***************************************************************************)
(* What overlapping requests do to the tables of the control plane:        *)
(* accounts, keys, limits, lists, the audit trail, notifications, backups, *)
(* addresses, volumes, metrics and enrollment, over PostgreSQL and over    *)
(* the in-memory tables.  The components share no state here, so           *)
(* interleaving them tells nothing about any of them: a behaviour          *)
(* exercises one, the focus, and the others stay as they start.            *)
(***************************************************************************)
EXTENDS Integers, FiniteSets

CONSTANTS
  Recorders, Clock, Micro, Targets, SiemBuffer,                          \* audit log
  Notices, OwnerOf, Readers,                                             \* notifications
  ApiKeys, KeyUser, RolesOf, PermsOf, Wanted, ScopeSets, KeyRequests,    \* API keys
  Users, Servers, Calls, Secrets, MaxSessions,                           \* accounts
  OneUser, MaxRotated,                                                   \* the user whose sessions are rotated
  Limit, LimitWindow, MaxTime, MaxCalls,                                 \* rate limiter
  Callers, QuotaServers, ServerOf, NumMetrics, Specs, QuotaPlans, Repo, Cancellation, \* quotas
  ListRows, PageSizes, DefaultSize, ListClock, Names,                    \* lists
  BackupIds, Checkers, Deleters, Keys, MaxPlans, MaxFaults,              \* backups
  MemBackupIds, MemCheckers, MemDeleters,                                \* backups without restores
  HostBits, Gateway, Allocators, Firewalls, Configurers, MaxRows, MaxPower, \* addresses
  Vols, NameOf, Guests, Sizes, SnapNames, Clients, MaxStorageCalls,      \* volumes
  MemClients, MemStorageCalls,                                           \* one call after the other
  Capacity, Times, Values, MaxBatches, Thresholds,                       \* metrics
  Hosts, Tokens, TokenOf, MaxKeys, MaxBoots                              \* enrollment

VARIABLES
  focus,  \* the component the behaviour exercises
  trail, rec, logChan, siem, dests, received, siemUp,
  pref, notices, handling, mails, confirmed,
  keyRow, reqs, touches, revoked,
  account, lock, sessions, logins, slack, uncounted,
  now, bucket, limited, passed,
  row, plan, engineLock, req,
  listName, listAsked, listSize, listed, reader,
  record, object, creator, checker, deleter, restores, faults, blamed, marked, key, lostSaves,
  ipPool, allocs, allocator, rules, nodeRules, firewall, inst, nodeIp, config, power,
  pool, vols, snaps, nodeVols, nodeDisks, nodeSnaps, storageCall, storageCalls, clean, booked,
  ring, table, thresholds, alerts, evals, handler, ingested,
  authority, secret, nodeRows, request, disk, agent, lapsed, barred

auditVars == <<trail, rec, logChan, siem, dests, received, siemUp>>
noteVars == <<pref, notices, handling, mails, confirmed>>
accessVars == <<keyRow, reqs, touches, revoked>>
idVars == <<account, lock, sessions, logins, slack, uncounted>>
rateVars == <<now, bucket, limited, passed>>
quotaVars == <<row, plan, engineLock, req>>
listVars == <<listName, listAsked, listSize, listed, reader>>
backupVars == <<record, object, creator, checker, deleter, restores, faults,
                blamed, marked, key, lostSaves>>
netVars == <<ipPool, allocs, allocator, rules, nodeRules, firewall, inst, nodeIp, config, power>>
volVars == <<pool, vols, snaps, nodeVols, nodeDisks, nodeSnaps, storageCall, storageCalls, clean, booked>>
monVars == <<ring, table, thresholds, alerts, evals, handler, ingested>>
enrollVars == <<authority, secret, nodeRows, request, disk, agent, lapsed, barred>>

-----------------------------------------------------------------------------
\* The components over PostgreSQL and over the in-memory tables.  An instance of
\* the proofs is one of the components: it brings what is proved about them
\* along.  No write of the authority's files fails.
Tables == INSTANCE RequestsProofs WITH
  TableInMemory <- FALSE, InMemory <- FALSE, BucketInMemory <- FALSE, RecordsInMemory <- FALSE,
  MetricsInMemory <- FALSE, WriteFaults <- FALSE

Maps == INSTANCE RequestsProofs WITH
  TableInMemory <- TRUE, InMemory <- TRUE, BucketInMemory <- TRUE, RecordsInMemory <- TRUE,
  MetricsInMemory <- TRUE, WriteFaults <- FALSE, Users <- OneUser, MaxSessions <- MaxRotated,
  BackupIds <- MemBackupIds, Checkers <- MemCheckers, Deleters <- MemDeleters, MaxPlans <- 0, MaxFaults <- 0,
  Clients <- MemClients, MaxStorageCalls <- MemStorageCalls

Tenant == INSTANCE QuotaProofs WITH lock <- engineLock, Servers <- QuotaServers, Plans <- QuotaPlans

\* What the theorems ask of a deployment: one server registers users (only a
\* mutex of the process orders first registrations), ids and secrets are not the
\* empty string, sizes, times and limits are counts, and calls, keys, notices,
\* thresholds and volumes are finitely many.
ASSUME RequestsAssumption ==
  /\ \E s \in Servers : Servers = {s}
  /\ IsFiniteSet(Calls) /\ "" \notin Calls /\ "" \notin Secrets
  /\ MaxSessions \in Nat /\ MaxRotated \in Nat
  /\ Limit \in Nat /\ LimitWindow \in Nat \ {0} /\ MaxTime \in Nat
  /\ IsFiniteSet(Notices) /\ IsFiniteSet(Keys) /\ IsFiniteSet(DOMAIN Thresholds)
  /\ Names \subseteq DOMAIN Tables!Lists!Lists /\ ListClock \in Nat /\ ListRows \in Nat
  /\ PageSizes \subseteq Nat /\ DefaultSize \in Nat
  /\ MaxKeys \in Nat
  /\ IsFiniteSet(Vols) /\ Sizes \subseteq Nat /\ Tables!Storage!NoId \notin Guests
  /\ Capacity \in Nat \ {0} /\ Times \subseteq Nat /\ Values \subseteq Int
  /\ NumMetrics \in Nat \ {0} /\ Repo \in {"memory", "postgres"} /\ Cancellation \in BOOLEAN
  /\ Specs \subseteq [Tenant!Metrics -> Nat] /\ QuotaPlans \subseteq [Tenant!Metrics -> Nat]
  /\ IsFiniteSet(Callers) /\ Tenant!Nobody \notin Callers /\ ServerOf \in [Callers -> QuotaServers]
  /\ Repo = "memory" => \A s, t \in QuotaServers : s = t
  /\ Tenant!OnePlan /\ Tenant!ModestSpecs

-----------------------------------------------------------------------------
RequestsInit ==
  /\ focus \in {"audit", "audit_sql", "notes", "notes_mem", "keys", "keys_mem",
               "accounts", "sessions", "limiter", "limiter_sql", "tenant", "lists",
               "backups", "restores", "rotation", "addresses", "addresses_sql",
               "interfaces", "volumes", "volumes_mem", "metrics", "metrics_sql",
               "enroll", "enroll_mem"}
  /\ Tenant!Init /\ Tables!Lists!Init
  /\ IF focus = "audit_sql" THEN Tables!Audit!Init ELSE Maps!Audit!Init
  /\ IF focus = "notes_mem" THEN Maps!Notes!Init ELSE Tables!Notes!Init
  /\ IF focus = "keys_mem" THEN Maps!KeyUse!Init ELSE Tables!KeyUse!Init
  /\ IF focus = "sessions" THEN Maps!Accounts!Init ELSE Tables!Accounts!Init
  /\ IF focus = "limiter_sql" THEN Tables!Limiter!Init ELSE Maps!Limiter!Init
  /\ IF focus = "restores" THEN Tables!Points!Init ELSE Maps!Points!Init
  /\ IF focus = "addresses_sql" THEN Tables!Addresses!Init ELSE Maps!Addresses!Init
  /\ IF focus = "volumes_mem" THEN Maps!Storage!Init ELSE Tables!Storage!Init
  /\ IF focus = "metrics_sql" THEN Tables!Metrics!Init ELSE Maps!Metrics!Init
  /\ IF focus = "enroll_mem" THEN Maps!Enroll!Init ELSE Tables!Enroll!Init
  /\ focus = "tenant" \/ \A p \in Callers : req[p].spec = CHOOSE s \in Specs : TRUE
  /\ focus = "lists" \/ (listName = (CHOOSE n \in Names : TRUE) /\ listAsked = {} /\ listSize = CHOOSE n \in PageSizes : TRUE)

\* The focus stays, and so does everything else but its state.
OthersRest ==
  /\ UNCHANGED focus
  /\ IF focus \in {"audit", "audit_sql"} THEN TRUE ELSE UNCHANGED auditVars
  /\ IF focus \in {"notes", "notes_mem"} THEN TRUE ELSE UNCHANGED noteVars
  /\ IF focus \in {"keys", "keys_mem"} THEN TRUE ELSE UNCHANGED accessVars
  /\ IF focus \in {"accounts", "sessions"} THEN TRUE ELSE UNCHANGED idVars
  /\ IF focus \in {"limiter", "limiter_sql"} THEN TRUE ELSE UNCHANGED rateVars
  /\ IF focus = "tenant" THEN TRUE ELSE UNCHANGED quotaVars
  /\ IF focus = "lists" THEN TRUE ELSE UNCHANGED listVars
  /\ IF focus \in {"backups", "restores", "rotation"} THEN TRUE ELSE UNCHANGED backupVars
  /\ IF focus \in {"addresses", "addresses_sql", "interfaces"} THEN TRUE ELSE UNCHANGED netVars
  /\ IF focus \in {"volumes", "volumes_mem"} THEN TRUE ELSE UNCHANGED volVars
  /\ IF focus \in {"metrics", "metrics_sql"} THEN TRUE ELSE UNCHANGED monVars
  /\ IF focus \in {"enroll", "enroll_mem"} THEN TRUE ELSE UNCHANGED enrollVars

AuditStep == focus = "audit" /\ Maps!Audit!Next /\ OthersRest
AuditSqlStep == focus = "audit_sql" /\ Tables!Audit!Next /\ OthersRest
NotesStep == focus = "notes" /\ Tables!Notes!Next /\ OthersRest
NotesMemStep == focus = "notes_mem" /\ Maps!Notes!Next /\ OthersRest
KeyUseStep == focus = "keys" /\ Tables!KeyUse!Next /\ OthersRest
KeyUseMemStep == focus = "keys_mem" /\ Maps!KeyUse!Next /\ OthersRest
AccountsStep == focus = "accounts" /\ Tables!Accounts!Next /\ OthersRest
SessionsStep == focus = "sessions" /\ Maps!Accounts!Next /\ OthersRest
LimiterStep == focus = "limiter" /\ Maps!Limiter!Next /\ OthersRest
LimiterSqlStep == focus = "limiter_sql" /\ Tables!Limiter!Next /\ OthersRest
TenantStep == focus = "tenant" /\ Tenant!Next /\ OthersRest
ListsStep == focus = "lists" /\ Tables!Lists!Next /\ OthersRest
PointsStep == focus = "backups" /\ Maps!Points!NextBackup /\ OthersRest
RestoresStep == focus = "restores" /\ Tables!Points!NextBackup /\ OthersRest
RotationStep == focus = "rotation" /\ Maps!Points!NextKey /\ OthersRest
AddressesStep == focus = "addresses" /\ Maps!Addresses!NextAddress /\ OthersRest
AddressesSqlStep == focus = "addresses_sql" /\ Tables!Addresses!NextAddress /\ OthersRest
InterfacesStep == focus = "interfaces" /\ Maps!Addresses!NextInterface /\ OthersRest
StorageStep == focus = "volumes" /\ Tables!Storage!Next /\ OthersRest
StorageMemStep == focus = "volumes_mem" /\ Maps!Storage!Next /\ OthersRest
MetricsStep == focus = "metrics" /\ Maps!Metrics!Next /\ OthersRest
MetricsSqlStep == focus = "metrics_sql" /\ Tables!Metrics!Next /\ OthersRest
EnrollStep == focus = "enroll" /\ Tables!Enroll!Next /\ OthersRest
EnrollMemStep == focus = "enroll_mem" /\ Maps!Enroll!Next /\ OthersRest

RequestsNext ==
  \/ AuditStep \/ AuditSqlStep \/ NotesStep \/ NotesMemStep \/ KeyUseStep
  \/ KeyUseMemStep \/ AccountsStep \/ SessionsStep \/ LimiterStep \/ LimiterSqlStep
  \/ TenantStep \/ ListsStep \/ PointsStep \/ RestoresStep \/ RotationStep
  \/ AddressesStep \/ AddressesSqlStep \/ InterfacesStep \/ StorageStep \/ StorageMemStep
  \/ MetricsStep \/ MetricsSqlStep \/ EnrollStep \/ EnrollMemStep

requestsVars ==
  <<focus, auditVars, noteVars, accessVars, idVars, rateVars, quotaVars, listVars, backupVars,
    netVars, volVars, monVars, enrollVars>>

RequestsSpec == RequestsInit /\ [][RequestsNext]_requestsVars

-----------------------------------------------------------------------------
\* The hash chain of the in-memory audit log verifies, whatever operations
\* recorded at the same time (internal/domain/audit/audit.go:46), and a SIEM
\* destination gets an entry that is in the trail, once, over either table.
TrailIsSound ==
  /\ focus = "audit" => Maps!Audit!ChainVerifies /\ Maps!Audit!ForwardedOnce
  /\ focus = "audit_sql" => Tables!Audit!ForwardedOnce

\* Overlapping requests leave the accounts consistent: one first user is made
\* superadmin, but for users whose registration could not count the others, a
\* family of refresh tokens has one live session but for the exchanges that
\* overlapped, and a challenge for a second factor has a secret.
\* A key whose revocation was answered stays revoked, though last-used writes
\* are late, and acts within its scopes and its user's permissions where a route
\* asks for one.
AccountsConsistent ==
  /\ focus = "accounts" => Tables!Accounts!OneSuperadmin /\ Tables!Accounts!ChallengeAnswerable
  /\ focus = "sessions" => Maps!Accounts!RotationBound /\ Maps!Accounts!ChallengeAnswerable
  /\ focus = "keys" => Tables!KeyUse!RevokedIsFinal /\ Tables!KeyUse!KeyStaysInScope
  /\ focus = "keys_mem" => Maps!KeyUse!RevokedIsFinal /\ Maps!KeyUse!KeyStaysInScope

\* Limits hold between requests: two servers grant no more than the plan, and no
\* two windows' worth of calls more than the rule pass the in-memory limiter.
WithinLimits ==
  /\ focus = "tenant" => Tenant!WithinLimit
  /\ focus = "limiter" => Maps!Limiter!WindowBound

\* What a client reads is complete: a list read page by page while rows are
\* added, the notifications it marked, the metrics it queries, and the alerts: one
\* for each threshold that was there before a sample that meets it.
ViewsComplete ==
  /\ focus = "lists" => Tables!Lists!NoneMissed
  /\ focus = "notes" => Tables!Notes!ReadsAddUp
  /\ focus = "metrics" => Maps!Metrics!QueryIsExact /\ Maps!Metrics!BreachesAlert

\* A deletion beside retention leaves a verified backup with its artifact, once
\* there was one, and rotations that fail half way leave no second active key
\* but one for each error they dropped.
RecoveryPossible ==
  /\ focus = "backups" => Maps!Points!KeepsRecoveryPoint
  /\ focus = "rotation" => Maps!Points!OneActiveKey

\* The stores that one request writes agree afterwards: addresses are in use
\* once and the free ones can be had (in memory); and between volume calls that
\* did not overlap and lost no command, whichever statements failed, the node
\* has the volumes and disks of the rows, and the pool's used space is theirs
\* unless a write of the pool was lost.
StoresAgree ==
  /\ focus = "addresses" => Maps!Addresses!NoSharedAddress /\ Maps!Addresses!FreeIsUsable
  /\ focus = "addresses_sql" => Tables!Addresses!NoSharedAddress
  /\ focus = "volumes" => Tables!Storage!StoresAgree
  /\ focus = "volumes_mem" => Maps!Storage!StoresAgree

\* A deleted volume never comes back, and its name has one owner.
DeletedStaysDeleted == Tables!Storage!DeletedStaysDeleted

\* A host that has its certificate files is accepted by the running server until
\* they expire or the node is revoked, whatever died before and within whichever
\* write, unless that left node.crt or ca.key empty; and a token enrolls one node.
EnrolledIsAccepted ==
  /\ focus = "enroll" => Tables!Enroll!EnrolledIsAccepted /\ Tables!Enroll!TokenEnrollsOne
  /\ focus = "enroll_mem" => Maps!Enroll!EnrolledIsAccepted /\ Maps!Enroll!TokenEnrollsOne
=============================================================================
