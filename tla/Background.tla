----------------------------- MODULE Background -----------------------------
(***************************************************************************)
(* The work the control plane does behind its requests: events, webhooks,  *)
(* console sessions, invoices, migrations, image synchronisations and      *)
(* schema upgrades.  The components share no state, so interleaving them   *)
(* tells nothing about any of them: a behaviour exercises one, the work at *)
(* hand, and the others stay as they start.                                *)
(***************************************************************************)
EXTENDS Integers

CONSTANTS
  Events, TypeOf, TenantOf, Handlers, PatternOf, Workers, Buffer, StreamCap, User, Admin, \* event bus
  HookEvents, Slots, HookReqs, MaxSent, MaxAttempts, MaxCrashes,                         \* webhooks
  Inputs, Window, InboundCap, ResizeCap, Beats,                                                     \* console
  Plans, Seeded, BillCalls, Meters, Generators, Quantity, Included, Overage, Period,     \* billing
  MaxSubs, MaxTries,
  Migs, Insts, SizeOf, NodeFacts, Home, Asked, Drained, DefaultCap, Unit,                \* migration
  Tmpls, Slugs, Images, Sound, ImageNodes, Editors, Syncs,                               \* templates
  Migrators, FilesOf, Broken, LockMayDrop, MaxRestarts                                   \* migrator

VARIABLES
  work,   \* the component the behaviour exercises
  publ, stored, queue, closer, subs, task, handled, stream, shown,
  endpoint, call, sent, slot, deliveries, batch, crashes,
  session, client, down, up, serverAcks, active, stdin, driver, stdout, drained, inbound, screen,
  notice, resizes, beats,
  plans, subscriptions, bill, usage, meter, gen, invoices, payments, tableLock,
  instances, guests, nodeRow, mig, evac, migCrashes, lost,
  tmpls, images, avail, editor, sync, offered, retired,
  lockHolder, schema, recorded, upgrade, restarts

-----------------------------------------------------------------------------
\* The components over PostgreSQL and over the in-memory tables, which no crash
\* leaves anything of.  An instance of the proofs is one of the components: it
\* brings what is proved about them along.
Work == INSTANCE BackgroundProofs WITH InMemory <- FALSE, InvoicesInMemory <- FALSE
MemWork == INSTANCE BackgroundProofs WITH InMemory <- TRUE, InvoicesInMemory <- TRUE, MaxCrashes <- 0

ImageSync == INSTANCE Templates WITH TableInMemory <- TRUE
ImageSyncSql == INSTANCE Templates WITH TableInMemory <- FALSE

\* What the theorems ask of a deployment: an attempt at least, workers that are
\* goroutines of their own beside the ones that carry an event, handlers besides
\* a stream's own two, instances that start on nodes and callers that name nodes
\* or none, and releases of which one extends the other.
ASSUME BackgroundAssumption ==
  /\ MaxAttempts \in Nat \ {0}
  /\ Workers # {} /\ Workers \cap Events = {} /\ Handlers \cap {"tenant", "broadcast"} = {}
  /\ Work!Deployment /\ Work!Releases

busVars == <<publ, stored, queue, closer, subs, task, handled, stream, shown>>
hookVars == <<endpoint, call, sent, slot, deliveries, batch, crashes>>
consVars == <<session, client, down, up, serverAcks, active, stdin, driver, stdout,
              drained, inbound, screen, notice, resizes, beats>>
billVars == <<plans, subscriptions, bill, usage, meter, gen, invoices, payments, tableLock>>
migVars == <<instances, guests, nodeRow, mig, evac, migCrashes, lost>>
tmplVars == <<tmpls, images, avail, editor, sync, offered, retired>>
migrVars == <<lockHolder, schema, recorded, upgrade, restarts>>

backgroundVars == <<work, busVars, hookVars, consVars, billVars, migVars, tmplVars, migrVars>>

-----------------------------------------------------------------------------
BackgroundInit ==
  /\ work \in {"bus", "hooks", "hooks_mem", "terminal", "invoices", "invoices_mem",
              "moves", "images", "images_sql", "schema"}
  /\ Work!Bus!Init /\ Work!Terminal!Init /\ Work!Moves!Init /\ Work!Schema!Init
  /\ IF work = "hooks_mem" THEN MemWork!Hooks!Init ELSE Work!Hooks!Init
  /\ IF work = "invoices_mem" THEN MemWork!Invoices!Init ELSE Work!Invoices!Init
  /\ IF work = "images_sql" THEN ImageSyncSql!Init ELSE ImageSync!Init

\* The work at hand stays, and so does everything else but its state.
Rest ==
  /\ UNCHANGED work
  /\ IF work = "bus" THEN TRUE ELSE UNCHANGED busVars
  /\ IF work \in {"hooks", "hooks_mem"} THEN TRUE ELSE UNCHANGED hookVars
  /\ IF work = "terminal" THEN TRUE ELSE UNCHANGED consVars
  /\ IF work \in {"invoices", "invoices_mem"} THEN TRUE ELSE UNCHANGED billVars
  /\ IF work = "moves" THEN TRUE ELSE UNCHANGED migVars
  /\ IF work \in {"images", "images_sql"} THEN TRUE ELSE UNCHANGED tmplVars
  /\ IF work = "schema" THEN TRUE ELSE UNCHANGED migrVars

BusStep == work = "bus" /\ Work!Bus!Next /\ Rest
HooksStep == work = "hooks" /\ Work!Hooks!Next /\ Rest
HooksMemStep == work = "hooks_mem" /\ MemWork!Hooks!Next /\ Rest
TerminalStep == work = "terminal" /\ Work!Terminal!Next /\ Rest
InvoicesStep == work = "invoices" /\ Work!Invoices!Next /\ Rest
InvoicesMemStep == work = "invoices_mem" /\ MemWork!Invoices!Next /\ Rest
MovesStep == work = "moves" /\ Work!Moves!Next /\ Rest
ImageSyncStep == work = "images" /\ ImageSync!Next /\ Rest
ImageSyncSqlStep == work = "images_sql" /\ ImageSyncSql!Next /\ Rest
SchemaStep == work = "schema" /\ Work!Schema!Next /\ Rest

BackgroundNext ==
  \/ BusStep \/ HooksStep \/ HooksMemStep \/ TerminalStep \/ InvoicesStep
  \/ InvoicesMemStep \/ MovesStep \/ ImageSyncStep \/ ImageSyncSqlStep \/ SchemaStep

\* The fairness each module states: Go runs the goroutines, the tickers fire.
BackgroundFairness ==
  /\ \A w \in Workers : WF_busVars(work = "bus" /\ Work!Bus!Worker(w) /\ Rest)
  /\ \A e \in Events : WF_busVars(work = "bus" /\ Work!Bus!CarryWhileUp(e) /\ Rest)
  /\ WF_busVars(work = "bus" /\ Work!Bus!CloseChannel /\ Rest)
  /\ WF_hookVars(work = "hooks" /\ Work!Hooks!RetryWorker /\ Rest)
  /\ \A g \in Slots : WF_hookVars(work = "hooks" /\ Work!Hooks!Delivers(g) /\ Rest)
  /\ WF_consVars(work = "terminal" /\ Work!Terminal!Server /\ Rest)
  /\ WF_consVars(work = "terminal" /\ Work!Terminal!Handler /\ Rest)
  /\ WF_consVars(work = "terminal" /\ Work!Terminal!AgentReceives /\ Rest)
  /\ WF_consVars(work = "terminal" /\ Work!Terminal!Shell /\ Rest)
  /\ WF_consVars(work = "terminal" /\ Work!Terminal!OutputSends /\ Rest)
  /\ \A g \in Generators : WF_billVars(work = "invoices" /\ Work!Invoices!GeneratorSteps(g) /\ Rest)
  /\ WF_billVars(work = "invoices" /\ Work!Invoices!VoidInvoice /\ Rest)
  /\ \A m \in Migs :
       WF_migVars(work = "moves" /\ (Work!Moves!MigrateCreate(m) \/ Work!Moves!executeMigration(m)) /\ Rest)
  /\ \A g \in Syncs : WF_tmplVars(work = "images" /\ ImageSync!SyncSteps(g) /\ Rest)
  /\ \A m \in Migrators : WF_migrVars(work = "schema" /\ Work!Schema!UpSteps(m) /\ Rest)

BackgroundSpec == BackgroundInit /\ [][BackgroundNext]_backgroundVars /\ BackgroundFairness

-----------------------------------------------------------------------------
\* Nothing that was accepted is left behind: an event queued on the open bus is
\* handled though Close comes first, a webhook delivery settles though the server
\* crashes, and a console session ends on the node too when its client goes,
\* unless it is jammed.
AcceptedIsCarriedOut ==
  <>[](/\ work = "bus" => Work!Bus!AllHandled
       /\ work = "hooks" => Work!Hooks!AllSettled
       /\ work = "terminal" => Work!Terminal!NoneLeftBehind)

\* What was started ends, whatever commands fail: a migration reaches a final
\* status, every call of GenerateInvoice returns, and every Up too, though
\* others hold the lock.
OperationsEnd ==
  <>[](/\ work = "moves" => Work!Moves!AllEnded
       /\ work = "invoices" => Work!Invoices!AllReturned
       /\ work = "schema" => Work!Schema!AllUp)

\* No image stays "syncing" on a node.
SyncSettles == work # "images_sql" => ImageSync!SyncSettles

\* What goes out goes out as often and in the order it should: Close drains the
\* queue, a stream of two subscriptions shows an event once, no post carries an
\* attempt past MaxDeliveryAttempts, and a console's output follows its input.
DeliveredOnce ==
  /\ work = "bus" => Work!Bus!CloseDrains /\ Work!Bus!StreamShowsOnce
  /\ work = "hooks" => Work!Hooks!AttemptsInRange
  /\ work = "hooks_mem" => MemWork!Hooks!AttemptsInRange
  /\ work = "terminal" => Work!Terminal!EchoInOrder

\* One invoice answers every call for a key and period, charged as it says, and
\* a metering call that returned has recorded its hour in every metric.
BilledExactly ==
  /\ work = "invoices" => Work!Invoices!OneInvoice /\ Work!Invoices!MeteredWhole
  /\ work = "invoices_mem" => MemWork!Invoices!OneInvoice /\ MemWork!Invoices!MeteredWhole

\* No migration, rollback or crash leaves an instance whose row points at a node
\* without its guest, unless a migration still in flight leads back to the node
\* that another one deletes the guest from, or the write that moves the row failed.
MovesKeepGuests == Work!Moves!MovesKeepGuests

\* A server whose Up returned without an error has every file of its own release
\* applied; main only logs an error of Up and serves on.
VerifiedIsComplete == Work!Schema!VerifiedIsComplete
=============================================================================
