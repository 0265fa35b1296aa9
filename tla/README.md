# Aurora: a TLA+ development

Aurora is a hub-and-spoke VPS platform written in Go. A control plane
(`cmd/aurora-server`) keeps the registry of hypervisor nodes, instances, jobs,
quotas, invoices, sessions, backups and audit entries; an agent
(`cmd/aurora-agent`) on every node dials in over one long-lived mTLS gRPC stream
and drives Incus. All state lives behind repository interfaces with two
implementations, an in-memory one (`internal/infra/memory`) and a PostgreSQL one
(`internal/infra/postgres`), which do not always behave alike. Where they differ
the models take the repository as a parameter.

This directory holds the TLA+ modules that model the control plane's own logic,
the TLC configurations that check them on small instances, and the TLAPS proofs.
`PROJECT.json` gives, for every definition, the source lines it models, and for
every run, property, hazard, finding and theorem, what it is about.

## 1. Inventory

| Component | State | Operations | Talks to | Hard behaviour | What makes it correct |
|---|---|---|---|---|---|
| Job engine (`app/job`) | `jobs`, `job_attempts`, `worker_leases`, one goroutine per worker | Submit, CancelJob, RetryJob, claim, renew, mark, reclaim, Close | job repository, event bus, reconciler | leases, several engines, crash between two repository calls, unfenced marks | one execution at a time, terminal stays terminal, abandoned jobs are recovered, retries are bounded |
| Node gateway (`app/node`, `transport/grpc`) | connection map, node rows, pending commands, enrollment secrets | enroll, stream connect and disconnect, heartbeat, revoke, maintenance, drain, DispatchCommand | agents, every service that sends commands | reconnect before the old stream is torn down, revoke during connect, answer after a timeout | the map holds the live stream, a revoked node stays revoked, every dispatch ends and gets its own answer |
| Node health supervisor (`app/nodehealth`) | missed-heartbeat counters | evaluateNodes every 5 s | node repository, event bus | writes a status decided on a listed copy | a silent node is flagged, a fresh one recovers, administrative states are respected |
| Agent (`app/agent`, `infra/incus`) | stream, console sessions, Incus instances | reconnect loop, heartbeat loop, command handlers | gateway | concurrent sends, synchronous command loop | reconnects with backoff, one answer per command |
| Compute (`app/compute`) | instance rows | CreateInstance, PowerAction, DeleteInstance, UpdateSpec | quota, scheduler, node service, IPAM | remote call between two writes, partial failure | usage equals what exists, a row's status matches the agent |
| Quotas (`app/billing/quota.go`) | limit and usage per tenant and metric | CheckQuota, ReserveQuota, ReleaseQuota | compute, reconciler | several metrics reserved one by one, rolled back on failure | usage never exceeds the limit, nothing leaks |
| Plans, metering and invoices (`app/billing`) | plans, subscriptions, usage records, invoices | change of plan, record usage, GenerateInvoice | payment provider | check-then-create with an idempotency key around an external charge; a read lock taken twice | one invoice per key, every metered hour recorded once, calls return |
| Migration and evacuation (`app/migration`, `app/evacuation`) | migration rows | Migrate, executeMigration, DrainNode, EvacuateNode | node service, scheduler, instances | background goroutine over two nodes, rollback, crash | the row points at a node that has the guest, migrations end |
| Scheduler (`app/scheduler`) | none | EvaluateCandidates, SelectNode | nodes, instances | reads a stale allocation | never picks an unfit node |
| Reconciliation (`app/reconcile`) | reports | Reconcile | all repositories | repairs while others write | repairs converge and overwrite nothing newer |
| Event bus (`app/events`, `transport/ws/events.go`) | queue, subscribers, closed flag, streams | Publish, Subscribe, Close | all services, webhooks, browsers | Close against Publish, overflow goroutines | accepted events are handled, a stream shows an event once |
| Webhooks (`app/webhook`, `infra/webhooks`) | endpoint, delivery rows | CRUD, dispatch, retry loop | HTTP endpoints | unclaimed retry rows, lost writes, crash | attempt numbers stay in range, every delivery settles |
| Audit log and SIEM (`app/audit`, `infra/siem`) | hash-chained log, destinations, queue | Record, VerifyAuditChain, forward | every service | two writers chain to one predecessor | the chain verifies, an entry is forwarded once |
| Accounts, sessions, keys, authorization (`app/auth`, `app/account`, `app/apikeys`, `app/authz`) | users, refresh-token families, keys | Register, Login, VerifyTOTP, RefreshSession, Logout, key use and revocation | identity repositories | two refreshes of one token, a late last-used write | one superadmin, bounded live sessions, a revoked key stays revoked |
| Rate limiting (`app/ratelimit`) | token buckets | Allow | middleware | refill rounding at the end of a window | at most two limits' worth in a window (the server does not mount the middleware, `cmd/aurora-server/main.go:502`) |
| Lists (`infra/memory`, `infra/postgres`) | none | thirty-two paged lists | clients | rows added while a client pages | nothing that was there is missed |
| Backups, recovery, key rotation (`app/backup`, `app/recovery`, `app/keyrotation`) | backup rows, artifacts, restore plans, key versions | create, verify, dry run, restore, delete, retention; RotateKey, RevokeKey | object storage | deletion of the last good backup, a deletion during a check, half-done rotation | a verified point survives, one active key |
| IPAM, firewall, interfaces (`app/ipam`, `app/network`) | pools, allocations, rules | AllocateIP, ReleaseIP, ApplyFirewallRules, ConfigureNetwork | node service | two allocations choose one address | no address twice, the boundaries of a CIDR are respected |
| Console (`app/console`, `transport/ws`, agent) | terminal sessions, pipes | StartSession, SendData, ResizeTerminal, CloseSession | gateway, agent | full buffers, a blocked writer that holds a lock | output follows input, nothing is left behind |
| Volumes (`app/storage`, `infra/incus`) | pool, volumes, snapshots | create, attach, detach, resize, delete, snapshots | node service | whole rows written back from earlier reads | table, pool and node agree, deleted stays deleted |
| Templates and images (`app/template`) | templates, artifacts, availability | CRUD, sync, verify, retire | node service | goroutine that outlives its request | no synchronisation hangs |
| Monitoring (`app/monitoring`, `infra/telemetry`) | ring buffer, thresholds, alerts | IngestMetrics, QueryRange, alert calls | agents | wrap-around of the ring, thresholds made during an ingestion | queries are exact, breaches raise alerts |
| Notifications (`app/notification`) | notices, preferences | HandleEvent, marking | event bus, mail | marking while events arrive | counts add up |
| Enrollment (`app/node`, `infra/pki`, `infra/keystore`, agent) | CA files, tokens, node rows, key store | boot, EnrollNode, EnsureEnrolled | files | a death between any two writes or within one, expiry, revocation | an enrolled host is accepted, a token enrolls one node |
| Schema migrations (`infra/postgres/migrator.go`) | schema, version table, advisory lock | Up | database | several servers start, the lock's connection drops | a server whose Up returned without an error has its whole schema |
| Instance archives (`app/compute`, `instance_handler.go`) | none | backups, snapshots and guest files of an instance | audit | answers that nothing stands behind | what was made is listed (it is not) |
| HTTP, WebSocket and web UI (`transport/http`, `transport/ws`, `web`) | none of their own | request mapping | services | none of their own | not modelled |
| Platform (`infra/pki`, `infra/keystore`, `infra/crypto`, `infra/jwt`, `infra/totp`, `infra/config`, `gen`) | keys, configuration | cryptography, parsing, generated code | everything | none TLC could reach | not modelled |

## 2. Plan

The order follows the weight of the behaviour: first what every other part
relies on (jobs, nodes, commands), then what tenants see (quotas, instances),
then the services around them.

| # | Module | Models | State of the work |
|---|---|---|---|
| 1 | `JobEngine` (implements `JobQueue`) | job engine and both job repositories | done, proofs in `JobEngineProofs` |
| 2 | `NodeGateway` | node registry, connection map, health supervisor | done, proofs in `NodeGatewayProofs` |
| 3 | `CommandDispatch` | DispatchCommand, the stream, the agent's receive loop | done, proofs in `CommandDispatchProofs` |
| 4 | `Quota` | quota engine over both repositories | done, proofs in `QuotaProofs` |
| 5 | `Provisioning` | instance operations, guests, reconciliation; uses `Quota`'s and `CommandDispatch`'s promises as single steps | done, proofs in `ProvisioningProofs` |
| 6 | `EventBus`, `Webhooks`, `Console`, `Billing`, `Migration` (over `Placement`), `Templates`, `Migrator` | the work behind the requests | done, composed in `Background`; proofs in `BackgroundProofs` |
| 7 | `AuditLog`, `Notifications`, `Access`, `Identity`, `RateLimit`, `Listing`, `Backups`, `Network`, `Volumes`, `Monitoring`, `Enrollment` | what overlapping requests do to the tables | done, composed in `Requests`; proofs in `RequestsProofs` |
| 8 | `InstanceArchive` | the calls on an instance's archives | done |
| 9 | `Background`, `Requests` | the compositions of 6 and 7, for any constants | done, proofs in `CompositionProofs` |

What is left: type correctness of `Provisioning` with the reconciler's copy. Every
other safety property of a passing run is a theorem.

## 3. Modules, state and actions

`PROJECT.json` maps every definition to its source lines. An action is one
repository call, map operation or message of the code. Calls that nothing else can
come between (RotateKey and RevokeKey under their service's mutex) are one action, with the outcome of each call as a parameter. Where
the code drops the error of a call, the call may fail and the code goes on; a history
variable (`unrecorded`, `lost`, `uncounted`, `booked`, `lostSaves`) notes whose call
it was, and a property that such a failure breaks excepts that object and no other.
A definition whose comment begins with "Mutant" is a deliberately
wrong variant, used only to show that a property can fail.

**JobEngine.** `jobs` and `attempts` are the tables the code reads (`worker_leases` is
only ever written and is left out), `engine` the
processes, `slot` the worker goroutines (`WorkerCount` per engine), `call` the
requests inside CancelJob and RetryJob, `sweep` the reconciler between its list
and its reclaim. The constant `Postgres` chooses the repository: the two differ
in what ClaimNextPending takes, in whether MarkFailed bounds the retries and in
whether RetryJob's insert collides. Time is relative: `lockLeft`, `retryLeft` and
`renewLeft` count down in `Tick`. `Prompt` states that a renewal timer that is due
fires before time moves on; without it renewals may be late or lost. `Heeding` states
that handlers return when Close cancels their context; without it they run on, with
no renewal, as wg.Wait lets them (`engine.go:256`). `MarkSucceeded` and
`MarkFailed` are unfenced, as in the code. The errors of RecordAttempt and of the
marks are dropped (`engine.go:358`): at most `MaxDrops` SQL calls fail, `unrecorded`
notes the attempts without a row. `JobQueue` is the abstract
specification; `Queue` in `JobEngine` gives the refinement mapping.

**NodeGateway.** `row` is the nodes table, `conn` the connection map, `tunnel` the
StreamTunnel goroutines with both ends of their stream (an agent may redial
before the server sees the old stream die), `admin` the administrative calls
between their read and their write, `missed` and `listed` the supervisor's
counters and the copies it works from. `Postgres` again chooses the repository:
the SQL one never reads `drain_mode` and fails when the stream's context is done.

**CommandDispatch.** `call` is a goroutine in DispatchCommand, `pending` and
`channel` the pendingCmds map and its buffered channels, `link`, `toAgent` and
`toServer` the streams, `router` HandleCommandResult between lookup and send,
`busy` the agent's synchronous loop. `executed` is history.

**Quota.** `row` holds limit and usage per metric, `plan` the tenant's limits,
`lock` the mutex of each server's engine, `req` the requests, metric by metric,
with rollback. `Repo` chooses between `MemoryReserve` and `PostgresReserve`;
`Cancellation` lets contexts end. `fits` is history: CheckQuota's answer when the
engine was locked.

**Provisioning.** `rows` is the instances table, `req` a request between its
calls, `queue` the commands of each node in order, `guests` what Incus holds
under each name, `online` the nodes with a stream, `used` the quota usage,
`recon` the reconciler's list. Quota operations and message transport are single
steps because `Quota` and `CommandDispatch` examine them. The refusals between
reservation and persistence (no node, template, cloud-init) are one action,
`PlaceFails`: all of them return in the same way. With `Faults` the SQL writes after
the node's answer fail too: an update is lost, and a DELETE that fails leaves the row
of a guest that is gone (`DeleteRowFails`, `compute/service.go:504`). The driver does
not look at the outcome of Incus's asynchronous operations (`incus/driver.go:331`):
`Outcomes` lets a guest stay as it is while the agent reports success.

**EventBus.** A publisher per event walks through Publish (`publ`); `queue` is the
buffered channel, `task` the workers and the goroutines Publish starts when it is
full, `closer` Close, which cancels, closes the channel and waits in three steps,
`stream` one browser's channel. An event sent between the first two is "late". A send
on the closed channel is the step `SendPanics`.

**Webhooks.** `rows` is the deliveries table, `slot` the goroutines inside
deliver, `batch` what the retry worker listed. `Crash` ends goroutines and requests and
keeps the tables; a write of a delivery row may be lost (`LostUpdate`).

**Console.** Both directions of the tunnel (`down`, `up`), the session pipe, the
agent's unbuffered pipes and the shell, with its banner and the answer to a resize on
the same output pipe, and the heartbeats and acknowledgements on the same tunnel.
The agent's receive loop writes input while it holds consoleMu; the model keeps it
unable to receive meanwhile.

**Billing.** Plans and subscription, metering and GenerateInvoice as goroutines;
`payments` is the provider, `lock` the read-write lock of the in-memory invoice
table, in which a waiting writer keeps later readers out.

**Placement, Migration.** The scheduler's filters and scores are operators on
records of nodes and instances. Migration walks through Migrate and
executeMigration one repository call or command at a time, with rollback; an
evacuation calls Migrate for each instance; a crash stops the goroutines. Commands
fail in every way they can. So do the goroutine's table writes, whose errors the code
drops (`app/migration/service.go:225`, `:266`, `:282`, `:285`, `:301`): `lost` names
the instances whose row was not moved and the migrations whose final status was not
written.

**Templates, Migrator.** SyncImageToNode's goroutine against edits, verification and
retirement; Up of several servers under an advisory lock whose connection may be
lost while the migrator goes on. The exits of Up before its first file
(`migrator.go:187-206`: no lock, no version table, no files) are one: all of them
return an error and touch no table.

**AuditLog.** A hash is the tuple of what it covers. Clock values are nanoseconds
and the SQL table keeps microseconds: the conversion is modelled, not skipped.

**Identity, Access.** Register, Login, VerifyTOTP, RefreshSession, Logout and
two-factor enrolment between their reads and writes, a failing Count included; keys,
the subject built from them, scopes and the late last-used write. A request is to a
route that asks for a permission or to one of those that do not
(`apikey_handler.go:25-29`, `account_handler.go:24-28`), among them the one that
makes keys. Hashes and tokens are right or wrong.

**RateLimit, Listing.** One bucket of either limiter against a clock. A list is the
set of fields its function tests, its order and its default page. The thirty-two
functions differ in just these, one record each, so that `ListsCorrect` is about the
lists there are; the run pages through five that show each kind of order and total.

**Backups, Network, Volumes, Monitoring, Notifications.** Calls between their reads
and their writes over the tables, with the object store or the node's driver
beside them; each takes the repository as a parameter where the two differ. A backup's
check reads the record, then the artifact, then writes its verdict; any of them may
fail. An ingestion inserts its samples, lists the thresholds and creates the alerts one by
one. A volume call's statements may fail, the pool's without notice; a command that
was sent may not be carried out, which includes an Incus driver that takes an
accepted operation as done. The pool's gateway is spelled as net.IP spells it
or in another way, which pool creation parses and AllocateIP compares as it is.

**Enrollment.** The authority and its two files, tokens, the request handler, the
agent's three files; server and agent may die between any two writes or within one,
which leaves an empty file, since os.WriteFile truncates first. Certificates run out
and nodes are revoked.

**InstanceArchive.** Calls that check, write an audit entry and answer.

**Background, Requests.** One specification each over many components. The
components of a family share no variable, so a state of the product says nothing
more than its parts, and interleaving them would only multiply states: `work`
(`focus` in `Requests`), chosen in Init and never changed, names the one component
whose actions run, and `Rest` (`OthersRest`) keeps the others as they start. A
property of the family is a conjunction "if the focus is X then X's property". The
variants `_mem` and `_sql` are the same module over the other repository: `Work` and
`Tables` are the components over PostgreSQL, `MemWork` and `Maps` those over the
in-memory tables. They are instances of the proof modules, which only add
theorems to the components they instantiate. `MCBackground` and `MCRequests` give
the constants values. `BackgroundAssumption` and `RequestsAssumption` say what the
theorems ask of the constants, and TLC evaluates them in every run.

## 4. Runs

| Run | Shows |
|---|---|
| `job_leases` | two engines on the SQL table, 2 jobs, one caller, crashes: exclusive execution, live leases, recorded failures, locks match statuses; the engine implements `JobQueue` |
| `job_memory` | the in-memory store, two goroutines, a caller, late renewals: the retry budget; liveness: every job with a handler finishes |
| `job_recovery` | liveness: jobs orphaned by a crash or a close are recovered |
| `node_gateway` | two overlapping streams, one administrator, the supervisor: the map is sound, revocation sticks |
| `node_health` | liveness: silent nodes leave scheduling, fresh ones come back |
| `dispatch` | two calls, one without a deadline, on two nodes with breaks, timeouts and late answers; liveness: answers wake their callers, calls return |
| `quota_engine` | one engine in memory, three metrics, changing plans: exact accounting, decisions as CheckQuota's |
| `provision_safety` | three requests of any kind with faults and reconciliation |
| `background` | the work behind requests: what was queued is handled once, attempts stay in range, consoles echo in order (`DeliveredOnce`), invoices and meters exact (`BilledExactly`), instances backed (`MovesKeepGuests`), schemas complete where Up succeeded (`VerifiedIsComplete`); liveness: accepted work is carried out, operations end, synchronisations settle |
| `requests` | overlapping requests over the tables: `TrailIsSound`, `AccountsConsistent`, `WithinLimits` (two servers' quotas over one database, the limiter), `ViewsComplete`, `RecoveryPossible`, `StoresAgree`, `EnrolledIsAccepted`, and the action property `DeletedStaysDeleted` |

Two runs end in a violation, each a disagreement between the code and what the
repository says of it; `findings` quotes both sides:

- `node_stale_disconnect`: the late end of an old stream removes the connection
  of the stream that replaced it;
- `instance_archive`: a backup the customer was told exists is not in the list.

### Further disagreements

The following statements do not hold of the code, and TLC finds each violated in a
small instance. Most are definitions of the modules; "without x" is a checked
property whose exception x is taken out, so that the row says why the exception is
there. They are not part of the run list; what holds in their stead is. To see one it
is enough to add the statement as an invariant (or property) of an instance over the
repository named.

| Statement | Instance | What the code does, and what the repository says |
|---|---|---|
| `JobEngine.TerminalIsFinal` | a caller that cancels | the mark of the handler that ran when CancelJob came overwrites the canceled row ("IsTerminal", `domain/job/job.go:33`). `ImplementsQueue` states the exact extent: only that executor can |
| `JobEngine.ExclusiveExecution` | a handler that does not heed Close (`Heeding` FALSE), or late renewals | Close stops the renewals and waits for the handlers, which run on past their lease (`app/job/engine.go:256`) |
| `JobEngine.FailuresAreRecorded` without `unrecorded` | PostgreSQL | RecordAttempt's error is dropped and the failure counted (`app/job/engine.go:358`) |
| `JobEngine.RetryBudget` | PostgreSQL | the SQL MarkFailed never looks at max_retries |
| `JobEngine.RetryAccepted` | PostgreSQL | RetryJob hands an existing row to Create, whose INSERT meets the primary key (`app/job/engine.go:224`) |
| `NodeGateway.RevokedIsFinal` | two administrators | calls past their check write over a revocation (`app/node/service.go:324`). `RevocationSticks` is the part that holds |
| `NodeGateway.DisconnectedIsOffline` | PostgreSQL | the SQL calls of the disconnect run under the canceled stream context (`app/node/service.go:209`). `SilentNodesAreFlagged` is what remains |
| `NodeGateway.DrainedIsNotSchedulable` | PostgreSQL | the SQL reads leave out drain_mode (`web/src/pages/admin/AdminNodeDetail.tsx:526`) |
| `CommandDispatch.DisconnectFailsPending` | a call without a deadline | pending commands of a lost stream wait for their own context (`app/node/connection_manager.go:48`) |
| `Quota.GrantFits` | PostgreSQL, empty table | the INSERT branch of the SQL upsert has no condition (`app/billing/quota.go:119`) |
| `Quota.RefusalJustified` | PostgreSQL, two plans | the limit enforced is the one the row kept from an earlier plan (`app/billing/quota.go:119`) |
| `Quota.Accounting` | with `Cancellation` | the rollback runs under the context whose end made it necessary (`app/billing/quota.go:11`) |
| `Provisioning.BackedRows` | two instances of one name | a second deletion of an old instance destroys the guest of a new one with the same name; with unique names it holds |
| `Provisioning.BackedRows` without `"kept"` | a DELETE that fails | the node has deleted the guest, the request's context ends, the row stays (`app/compute/service.go:504`) |
| `Provisioning.UnforcedKeepsRecord` | node faults | the record goes whatever the node answers and force says (`app/compute/service.go:501`) |
| `Provisioning.UsageCovers` | a stream that breaks during a creation | a lost answer to a creation releases the quota of a guest that exists (`app/billing/quota.go:173`) |
| `Provisioning.UsageFollowsSize` | any | UpdateSpec does not touch the quota (`app/billing/quota.go:173`) |
| `Provisioning.ReconcileRepairsQuota` | any | the metric names compared never match (`app/reconcile/service.go:143`), so the reservation a failed creation keeps (`app/compute/service.go:174`) stays |
| `EventBus.CloseDrains` for "late" events | a Publish past its check | Close cancels before it closes the channel: workers leave, and an event sent in between stays in the queue (`app/events/bus.go:214`; Close returns "after draining") |
| at most `MaxAttempts` posts of an event (`Webhooks`) | `MaxAttempts = 2` | each retry stores a second pending row that is retried as well (`infra/webhooks/dispatcher.go:192`, `:261`): three posts |
| `Console.NoneLeftBehind` without `Jammed` | three inputs, two heartbeats | receive loops of server and agent, shell and output goroutine wait for each other with both directions full (`app/agent/client.go:666`) |
| `AuditLog.ChainVerifies` | PostgreSQL | hashes cover nanoseconds, the column keeps microseconds, and recorders are not ordered (`infra/postgres/audit_repo.go:38`, `domain/audit/audit.go:46`) |
| `Billing.InvoiceReturns` | in memory | GetByIdempotencyKey takes the read lock twice (`infra/memory/invoice_repo.go:98`) |
| `Billing.ChargedOnce` | overlapping calls | the charge precedes the row and its key is fresh (`app/billing/invoice.go:211`) |
| `Migration.OneActive` | two requests | the check and the insert are two calls (`app/migration/service.go:152`) |
| `Migration.RowBacked` | three requests, three nodes | a request past that check still knows the old source; a second migration moves the instance away, a third moves it back, and the first then deletes the guest of what it takes for its source. `MovesKeepGuests` is what holds: only such a chain can do it |
| `Migration.RowBacked` without `Astray`, `AllEnded` without `lost` | a write that fails | UpdateNodeID's error is dropped and the source's guest deleted (`app/migration/service.go:285`); a dropped status leaves the migration active (`:225`, `:266`, `:301`) |
| `RateLimit.WindowBound` | PostgreSQL | the statement never returns a negative number, so the call that should be refused passes (`infra/postgres/ratelimit_repo.go:60`) |
| `Identity.ExchangedOnce` | two refreshes | both see the session unrevoked (`app/auth/service.go:325`). `RotationBound` is what holds |
| `Identity.OneSuperadmin` without `uncounted` | a Count that fails | its error is dropped and the user taken for the first (`app/auth/service.go:108`) |
| `Access.MintsInScope` | two keys of one user, one scoped | the routes of keys ask for no permission, and CreateAPIKey takes the scopes it is given (`transport/http/apikey_handler.go:25`): a scoped key makes an unscoped one |
| a verified record after CreateBackup (`Backups`) | a deletion during the check | the record, still unverified, is deleted between the check's calls (`app/backup/service.go:203`, `:214`, `:252`) |
| `Backups.OneActiveKey` without `lostSaves` | a GetActive or Save that fails | the error is dropped and the old key stays active (`app/keyrotation/service.go:67`, `:88`) |
| `Backups.KeepsRecoveryPoint` | PostgreSQL | the count and the delete are two statements (`infra/postgres/backup_repo.go:285`; `domain/backup/backup.go:15`) |
| `Network.FreeIsUsable` | PostgreSQL | a released address keeps its row, and the table's key forbids another (`migrations/000004`, line 22) |
| `Network.NoSharedAddress` for every spelling | a gateway like `::ffff:10.0.0.1` | pool creation parses it (`app/ipam/service.go:65`), AllocateIP compares strings (`:149`): the gateway is handed out |
| `Volumes.StoresAgree` without `booked` | a pool update that fails | its error is dropped (`app/storage/service.go:177`, `:376`, `:423`) and the used space diverges |
| `Network.FreeIsReported`, `Network.RulesReachNode` | either | the pool's total counts the gateway address (`app/ipam/service.go:298`); the command is sent without the rules (`transport/grpc/gateway.go:360`) |
| `Volumes.NeverShrinks`, `Volumes.OneGuest` | overlapping calls | decided on a row read earlier |
| `Templates.SoundStaysOffered` | any failed sync | the gateway has no such command, so the first synchronisation fails and marks the artifact for every node (`transport/grpc/gateway.go:449`, `app/template/service.go:372`) |
| `Listing.NoneMissedAnywhere` | template lists, rows of one time, counted SQL lists | pages cut from a map's iteration (`infra/memory/template_repo.go:178`, `425`), ties without an order, a count taken before the page |
| `Enrollment.EnrolledIsAccepted` | with `WriteFaults` | a write of the authority's files that fails is only logged (`cmd/aurora-server/main.go:139`) |
| `Enrollment.TurnedAwayEnrolls` | a death within a write, or 90 days | HasCertificates asks whether the files exist (`infra/keystore/keystore.go:39`): an empty or expired node.crt is never replaced. An empty ca.key makes every boot generate an authority that is not stored |
| `Enrollment.RefusedLeavesNoRow` | two requests | the row precedes the token's consumption (`app/node/service.go:129`) |
| `Access.RevokedIsListed` | PostgreSQL | the SQL revocation deletes the row; the list shows "all active and revoked API keys" (`app/apikeys/service.go:110`) |
| `InstanceArchive.SavedIsWritten` | any | WriteFile writes an audit entry only (`app/compute/service.go:750`) |

### Bounds and why they are enough

- Jobs: `RenewEvery = 1` and a `Lease` of 2 or 3 keep the code's order (a renewal
  falls well inside a lease) and let a lease expire between any two steps. In the
  in-memory run `MaxRetries = 1` shows the last allowed and the first forbidden
  retry; the SQL repository does not look at `MaxRetries`, and its runs tell the first
  failures apart (`RetryCap`). `MaxDrops = 1`: one dropped error meets every step. Two
  engines and two jobs give every pairwise race; a third engine only repeats the role of one of them.
  A liveness run has one job where users may cancel and retry for ever, since the
  in-memory claim picks any job and promises no order. The theorems remove these
  bounds.
- Nodes: races are between two streams of one node, or a stream, an
  administrator and the supervisor; nodes share no state, so one is enough. The
  safety run sets both limits to 0 (every heartbeat may be judged stale), the
  liveness run separates them. `MissedCap` and `OldAge` are the largest values
  the code tells apart.
- Commands: two calls meet on one node or use both; answers can be exchanged only
  between two. A node has at most one stream tearing down.
- Quota: three metrics show a failure at the first and at the last with an
  unlimited one between; limits of 2 and 3 are crossed by two requests.
- Provisioning: three requests cover create, operate and delete of one instance
  in any overlap, and two deletions of one instance; one node, since a request
  never touches two. (1.98 million distinct states.)
- Families: two actors per race, since nearly every race in these services is
  between two calls or a call and a goroutine. Chained migrations need three, which
  is why `MovesKeepGuests` has its hypothesis and the theorem `MovesCorrect` is for
  any number of them. Capacities of one message, one
  event or two retries, so that each buffer is full, each budget used up; one
  crash or one failed write where the code keeps tables over a crash (`MaxCrashes`
  bounds both together). Three inputs, a resize and two heartbeats fill every buffer
  and pipe between keyboard and shell in both directions, which reaches `Jammed`. The pool of `Addresses` has five
  usable addresses so that the gateway, the first and the last one are met and the
  pool runs out. The ring of `Monitoring` wraps, and its three batches overlap a new
  threshold. Two keys and two boots of `Enrollment` let a host enroll after a death
  within each of its writes and each of the server's. `Migrator` starts three releases,
  the newest with a file that fails, with two different older ones beside it. Each
  instance's comment in `MCBackground` and `MCRequests` says what it is chosen for. The
  runs have 350 thousand and 1.55 million distinct states.

### Fairness

Liveness is checked under weak fairness of the steps Go's runtime schedules by
itself: ready goroutines, tickers and timers, time, the agent's loop, the
detection of a dead peer. Nothing is assumed of users, administrators, crashes or
reconnections. `CallsReturn` and the job properties are conditional on a stream
that does not break and on an engine that stays up. `HandlerReturns` is fair: the
engine gives handlers a context and trusts them to return.

In `Background` the same holds for workers of the bus, its overflow goroutines until
Close returns (then the process ends, `cmd/aurora-server/main.go:327`), the retry ticker and delivering goroutines (the HTTP client has a 15 s timeout),
both ends of a console session, the goroutines of migrations and of image
synchronisations (whose context ends after 10 minutes) and Up of each migrator
(PostgreSQL grants the advisory lock to a waiter). Clients, administrators, crashes
and connection losses have none. A migration's commands run under
context.Background(): `AnswerLost` is the stream that breaks after the send, and
leaves the goroutine waiting for ever. `OperationsEnd` is therefore about
migrations that lost neither the server nor an answer nor the write of their final
status; nothing in the code resumes the others, as the hazard list says. The console's
part of `AcceptedIsCarriedOut` excepts the circle `Jammed`.

Deadlock checking is on in every run whose configuration does not turn it off.

## 5. Proofs

Checked by TLAPS for every value of the constants, from the named assumptions of
the modules and the hypotheses each theorem states. A hypothesis is never about
reachable states, with the one exception of `MovesKeepGuests`; it chooses a
repository, a deployment, a fault, timers that fire on time (`Prompt`) or handlers that
heed a canceled context (`Heeding`). Most are needed: the table above names instances in which the statement fails without them.

`JobEngineProofs`
- `TypeCorrect`: from `TypeInv`, which is `TypeOK` and what a busy slot or a
  waiting call refers to; the counters need the cap in the guards.
- `LocksCorrect`: `LockMatchesStatus` with the types, one step per action.
- `ExclusionCorrect`, `LeasesCorrect` (SQL repository, `Prompt`, `Heeding`):
  `ExclusiveExecution` is not inductive, since nothing in it says why a second
  claim is impossible. `LeaseHeld` does: a busy slot owns a running row whose
  remaining lease exceeds its renewal timer, or a canceled row. That a lease is
  longer than the renewal interval is used in `Tick` and `Claim`.
- `FailuresCorrect` (the same hypotheses): adds `AttemptsMade`, a goroutine about to
  count a failure has written its attempt or lost that write; `LeaseHeld` says that the count it read
  is still the row's.
- `BudgetCorrect` (in-memory repository): `RetryBudget` needs only the types, and so
  holds with late renewals and lapsed leases too.
- `QueueCorrect` (the same three): `Spec => ImplementsQueue`. Initial states map to
  initial states; under `LeaseInv` every action maps to one action of `JobQueue` or
  to a stutter (claims, marks by the holder, overwritten cancels, releases of the
  slots of a crashed engine all at once).

`NodeGatewayProofs`
- `TypeCorrect`, over either repository.
- `MapCorrect`: the map names only handlers that are registered and have not
  unregistered; needs only that each handler unregisters before it ends.
- `RevocationCorrect`: an action property. A quiet revoked node (no connection, no
  call past its check) stays so, since every handler checks the status first.

`CommandDispatchProofs`
- `TypeCorrect`, `PendingCorrect`, `ExecutionCorrect`, `AnswersCorrect`, from one
  invariant `DispatchInv`. `AtMostOnce` is not inductive: it takes that a command not
  yet sent was not executed, that one in an inbox was not executed either
  (`InTransitFresh`), that it is there once (`InTransitOnce`) and not also in the
  agent's loop (`BusyOnce`). `OwnAnswer` takes `AnswersTrue`: every answer on its way,
  in the router or in a channel, is what the execution of its correlation id gave.

`QuotaProofs`
- `AccountingCorrect` (in memory, or no context ends): usage equals what requests
  hold, counted as the size of the set `Held(m)`, so that a step that adds or removes
  one request's units is a fact about cardinalities of finite sets.
- `GrantsCorrect` (in memory): `GrantInv` relates a request halfway through its
  metrics to CheckQuota's answer when the engine was locked; `InsideLocked` is why
  no other request moves the rows meanwhile.
- `RefusalsCorrect` (in memory, `PlansAgree`: plans limit the same metrics).
- `WithinLimitCorrect` (`OnePlan`: the plan does not change; `ModestSpecs`: no single
  request asks for more than the plan): both repositories, any number of servers,
  cancellation included. `ModestSpecs` is the INSERT branch of the SQL upsert, which
  has no condition; `OnePlan` is a row that keeps the limit it was made with.

`ProvisioningProofs`
- `BackedRowsCorrect` (`OwnName`: no two instances share a name; without it a late
  deletion meets the wrong guest). `Links` ties a row to the creation that
  made it and an operation to the row it read, `Queued` says that a command waits at
  the node its request was sent to, and `Backing` that a creation or a power action
  that succeeded left its guest behind, unless a deletion of that instance was asked
  for. A row whose DELETE failed is excepted.
- `DeleteOnceCorrect`, `NoResurrectionCorrect`: no hypothesis. The row's deletion is
  the single step that decides between overlapping deletions.

`BackgroundProofs`, one component of `Background` after the other
- `MovesCorrect` (`Deployment`: instances start on nodes, callers name nodes). `Copied`
  says that past the creation the destination has the guest, `Moved` that past the
  row's move it does not point at the source any more, unless that write was lost. The
  proof fails without
  `NoChain` at the source's deletion, which is how `RowBacked` in the table
  above was found: two migrations, the bound of the run, cannot show it.
- `SchemaCorrect` (`Releases`: a release contains every lower-numbered file of any
  release beside it). `Ledger`: what is recorded is in the schema; `Closed`: the
  recorded versions have no gaps; `Known`: the version a migrator read is recorded.
  The advisory lock is not used: the key of the version table and the order of
  the files are enough for safety.
- `AttemptsCorrect`: `HookInv` says of every copy of a row (a goroutine's, the retry
  worker's list) that it was pending with an attempt left, however many rows the retries
  of one event have made.
- `DrainCorrect`, `StreamCorrect` (a worker; handlers not named like a stream's
  subscriptions): `PlaceInv` gives every event one place (queue, one task, done) and
  the handlers still to call there, `ExitInv` that a worker which returned left nothing
  in the queue but late events, and the stream's part that of two subscriptions one takes the event.
- `InvoicesCorrect`, `MeteringCorrect`: `InvoiceInv` ties a call's answer to the one row
  the key allows and the row to its charge; `MeterInv` counts the metrics done.
- `EchoCorrect`: `Pipeline` cuts the inputs into consecutive intervals, one for each
  of the six places between keyboard and screen; each step moves one boundary.

`RequestsProofs`, likewise for `Requests`
- `AddressesCorrect`, `FreeCorrect` (in memory): the unique key decides between two
  calls that chose one address, and the choice leaves out what is in use and the
  gateway, if it is spelled as the addresses are.
- `RevocationCorrect`, `ScopesCorrect`: `AccessInv` says that a revoked row is never
  live again, also through the late last-used write, and that what a request carries
  is what its check was about, on the routes that check.
- `SuperadminCorrect` (one server: only a mutex of the process spans count and grant),
  `ChallengesCorrect`, `RotationCorrect`: `RegisterInv` for the mutex, `FactorInv` for the
  account copies calls hold, `RotationInv` bounds sessions by sets of calls in flight
  and of lost writes, so that each step is a fact about cardinalities.
- `ChainCorrect` (in memory), `ForwardingCorrect`: an entry is in one place of the
  pipeline from recorder to destination.
- `LimiterCorrect` (in memory): `BucketInv` bounds the calls of every window that
  begins in the past by the tokens left.
- `ReadsCorrect`, `ListsCorrect`: a row that is still missing lies behind the offset, and
  the client goes on; later rows only push it further back.
- `QueryCorrect`: `RingInv` says that slot by slot, from the head backwards, the buffer
  has the last samples ingested, through every wrap; the age of a sample in the ring
  is then a bijection to its place in the history, and sums over the one are sums
  over the other. `AlertsCorrect`: `AlarmInv` follows each ingestion between its
  insertion, its list of thresholds and its alerts, whatever comes in between.
- `RecoveryPointCorrect` (in memory), `KeysCorrect`: `BakInv` says of a record marked
  verified, or about to be by a check that has read its artifact, that the artifact is
  there; `KeyInv` counts active keys beside the newest against the keys saved after a
  dropped error.
- `DeletionCorrect`, an action property, from `VolInv`; `StoresCorrect`: `StoresAgree` says
  nothing while a call is under way, so `CallStage` follows a call through
  its writes, with the row it read, and says of each stage which stores are ahead,
  also of a call that a failing statement ended.
  The used space is a sum over the live rows; a call changes one row, and the sum
  lemmas give the new sum from the old.
- `EnrolledCorrect` (`~WriteFaults`): `Authority` says which of the CA's files exist, or
  are empty, at each point of a boot, `Answers` that a signed certificate has its row, `Hosted`
  what an agent's files say at each step of its enrolment, `Waiting` that it waits for
  the answer to the key it has, `Distinct` that keys are never shared.
- `TokensCorrect`: either way, from `TokenInv`: a handler past MarkUsed carries the
  node the token names, and that never changes.

Sums and pushes of several samples are folds. What a fold gives when one element is
added or one value changed is proved from its defining equation, the induction over
the sets it runs through being written out as an argument by least counterexample
over the natural numbers (no induction rule is instantiated).

`CompositionProofs`
- The lemmas `...Alone`: a behaviour of `Background` or `Requests` whose focus is a
  component is a behaviour of that component's `Spec`, over the repository the focus
  names. They rest on two facts about every step: the focus stays, and the step is
  one of the focused component's.
- With them every safety property that the runs `background` and `requests` check is a
  theorem for every value of the constants that `BackgroundAssumption` and
  `RequestsAssumption` allow: `DeliveryCorrect`, `BillingCorrect`, `MovesCorrect`,
  `SchemaCorrect`, `TrailCorrect`, `AccountsCorrect`, `LimitsCorrect`, `ViewsCorrect`,
  `RecoveryCorrect`, `StoresCorrect`, `DeletionCorrect`, `EnrolledCorrect`. Of the
  assumptions only four restrict a deployment: one server registers users, the plan
  stays and no request exceeds it (`OnePlan`, `ModestSpecs`), releases extend one
  another, and in-memory tables belong to one server. The others say that there is a
  worker and an attempt, that counts are numbers, that names are of things that exist
  and not the empty string the code uses for "none", and that sets counted are finite.
  The compositions also leave out failing writes of the authority's files
  (`WriteFaults`, see the table in section 4).

Only model-checked: all liveness properties (`EveryJobFinishes`,
`AbandonedJobsAreRecovered`, `SilentNodesAreFlagged`, `FreshNodesRecover`,
`AnswersWakeCallers`, `CallsReturn`, `AcceptedIsCarriedOut`, `OperationsEnd`,
`SyncSettles`), since reasoning under fairness is outside the prover; `TypeOK` of `Provisioning`, whose
`recon.expected` is a sum computed by a fold (the proofs use a type invariant without
that field); and the statements of the two runs that end in a violation.

## 6. Not modelled

`components` in `PROJECT.json` lists every part with its reason. Health and
diagnostics only read. HTTP handlers parse a request and call one service
operation; where a handler keeps or answers something of its own (event stream,
console, keys, archives) it is part of that module. The web UI, generated
protobuf code, cryptography, configuration and mail have no protocol of their own and
stay out: TLC has nothing to explore there. Within the modelled parts: payload
contents, wording, logging, and audit entries and events as side effects of other
operations are left out; money and quantities are small integers, since the code's
decimal and floating-point arithmetic is outside TLC; the asynchronous Incus
operations behind one driver call are one step, with every outcome the driver does not
look at; Down of the migrator is never called by the server.

Two facts about the deployment bound what the models say of it. The rate-limit
middleware is not mounted by the server (`cmd/aurora-server/main.go:502`): `RateLimit`
is about the package. And the SQL modules rest on the tables that the repositories'
statements name, which migrations 000003 and 000004 declare. On an empty database
000001 has made `instances`, `ip_pools` and `ip_allocations` before, with other columns,
so the later CREATE TABLE IF NOT EXISTS do nothing and the indexes at
`migrations/000003:24` and `000004:45` name columns that are not there: Up fails,
`cmd/aurora-server/main.go:236-241` logs it and the server goes on. What the SQL
modules say is then about a database whose tables were made by the later files;
`VerifiedIsComplete` is about servers whose Up succeeded.
