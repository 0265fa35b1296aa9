------------------------- MODULE CompositionProofs --------------------------
(***************************************************************************)
(* What the runs of Background and Requests check, for every value of the  *)
(* constants that the assumptions of the two modules allow.                *)
(*                                                                         *)
(* A behaviour exercises one component, so each theorem is the theorems of *)
(* its components, from BackgroundProofs, RequestsProofs and QuotaProofs,  *)
(* through the instances the compositions are made of.                     *)
(***************************************************************************)
EXTENDS Background, Requests, TLAPS

\* The work at hand never changes.
LEMMA WorkStays == [BackgroundNext]_backgroundVars => work' = work
BY DEF BackgroundNext, backgroundVars, Rest,
   BusStep, HooksStep, HooksMemStep, TerminalStep, InvoicesStep, InvoicesMemStep, MovesStep,
   ImageSyncStep, ImageSyncSqlStep, SchemaStep

\* A step is one of the component it belongs to.
LEMMA WorkStep ==
  ASSUME BackgroundNext
  PROVE  /\ work = "bus" => BusStep
         /\ work = "hooks" => HooksStep
         /\ work = "hooks_mem" => HooksMemStep
         /\ work = "terminal" => TerminalStep
         /\ work = "invoices" => InvoicesStep
         /\ work = "invoices_mem" => InvoicesMemStep
BY DEF BackgroundNext, BusStep, HooksStep, HooksMemStep, TerminalStep, InvoicesStep, InvoicesMemStep, MovesStep,
   ImageSyncStep, ImageSyncSqlStep, SchemaStep

\* A behaviour of the composition whose work is a component's is a behaviour of
\* that component.
LEMMA BusAlone == BackgroundSpec => ([](work = "bus") /\ Work!Bus!Spec) \/ []~(work = "bus")
<1>1. /\ BackgroundInit /\ work = "bus" => Work!Bus!Init
      /\ work = "bus" /\ [BackgroundNext]_backgroundVars => (work = "bus")' /\ [Work!Bus!Next]_(Work!Bus!busVars)
      /\ ~(work = "bus") /\ [BackgroundNext]_backgroundVars => ~(work = "bus")'
  BY WorkStays, WorkStep DEF BackgroundInit, BusStep, backgroundVars, busVars, Work!Bus!busVars
<1> QED BY <1>1, PTL DEF BackgroundSpec, Work!Bus!Spec

LEMMA HooksAlone == BackgroundSpec => ([](work = "hooks") /\ Work!Hooks!Spec) \/ []~(work = "hooks")
<1>1. /\ BackgroundInit /\ work = "hooks" => Work!Hooks!Init
      /\ work = "hooks" /\ [BackgroundNext]_backgroundVars => (work = "hooks")' /\ [Work!Hooks!Next]_(Work!Hooks!hookVars)
      /\ ~(work = "hooks") /\ [BackgroundNext]_backgroundVars => ~(work = "hooks")'
  BY WorkStays, WorkStep DEF BackgroundInit, HooksStep, backgroundVars, hookVars, Work!Hooks!hookVars
<1> QED BY <1>1, PTL DEF BackgroundSpec, Work!Hooks!Spec

LEMMA HooksMemAlone == BackgroundSpec => ([](work = "hooks_mem") /\ MemWork!Hooks!Spec) \/ []~(work = "hooks_mem")
<1>1. /\ BackgroundInit /\ work = "hooks_mem" => MemWork!Hooks!Init
      /\ work = "hooks_mem" /\ [BackgroundNext]_backgroundVars => (work = "hooks_mem")' /\ [MemWork!Hooks!Next]_(MemWork!Hooks!hookVars)
      /\ ~(work = "hooks_mem") /\ [BackgroundNext]_backgroundVars => ~(work = "hooks_mem")'
  BY WorkStays, WorkStep DEF BackgroundInit, HooksMemStep, backgroundVars, hookVars, MemWork!Hooks!hookVars
<1> QED BY <1>1, PTL DEF BackgroundSpec, MemWork!Hooks!Spec

LEMMA TerminalAlone == BackgroundSpec => ([](work = "terminal") /\ Work!Terminal!Spec) \/ []~(work = "terminal")
<1>1. /\ BackgroundInit /\ work = "terminal" => Work!Terminal!Init
      /\ work = "terminal" /\ [BackgroundNext]_backgroundVars => (work = "terminal")' /\ [Work!Terminal!Next]_(Work!Terminal!consVars)
      /\ ~(work = "terminal") /\ [BackgroundNext]_backgroundVars => ~(work = "terminal")'
  BY WorkStays, WorkStep DEF BackgroundInit, TerminalStep, backgroundVars, consVars, Work!Terminal!consVars
<1> QED BY <1>1, PTL DEF BackgroundSpec, Work!Terminal!Spec

LEMMA InvoicesAlone == BackgroundSpec => ([](work = "invoices") /\ Work!Invoices!Spec) \/ []~(work = "invoices")
<1>1. /\ BackgroundInit /\ work = "invoices" => Work!Invoices!Init
      /\ work = "invoices" /\ [BackgroundNext]_backgroundVars => (work = "invoices")' /\ [Work!Invoices!Next]_(Work!Invoices!billVars)
      /\ ~(work = "invoices") /\ [BackgroundNext]_backgroundVars => ~(work = "invoices")'
  BY WorkStays, WorkStep DEF BackgroundInit, InvoicesStep, backgroundVars, billVars, Work!Invoices!billVars
<1> QED BY <1>1, PTL DEF BackgroundSpec, Work!Invoices!Spec

LEMMA InvoicesMemAlone == BackgroundSpec => ([](work = "invoices_mem") /\ MemWork!Invoices!Spec) \/ []~(work = "invoices_mem")
<1>1. /\ BackgroundInit /\ work = "invoices_mem" => MemWork!Invoices!Init
      /\ work = "invoices_mem" /\ [BackgroundNext]_backgroundVars => (work = "invoices_mem")' /\ [MemWork!Invoices!Next]_(MemWork!Invoices!billVars)
      /\ ~(work = "invoices_mem") /\ [BackgroundNext]_backgroundVars => ~(work = "invoices_mem")'
  BY WorkStays, WorkStep DEF BackgroundInit, InvoicesMemStep, backgroundVars, billVars, MemWork!Invoices!billVars
<1> QED BY <1>1, PTL DEF BackgroundSpec, MemWork!Invoices!Spec

\* When Close of the event bus returns, every event queued on the open bus has
\* run its handlers once, a stream of two subscriptions shows an event once, no
\* webhook post carries an attempt past MaxDeliveryAttempts through any crash,
\* lost write or overlapping retry, over either table, and a console's output
\* follows its input.
THEOREM DeliveryCorrect == BackgroundSpec => []DeliveredOnce
<1>1. Work!Bus!Spec => []Work!Bus!CloseDrains
  BY BackgroundAssumption, Work!DrainCorrect
<1>2. Work!Bus!Spec => []Work!Bus!StreamShowsOnce
  BY BackgroundAssumption, Work!StreamCorrect
<1>3. Work!Hooks!Spec => []Work!Hooks!AttemptsInRange
  BY BackgroundAssumption, Work!AttemptsCorrect
<1>4. MemWork!Hooks!Spec => []MemWork!Hooks!AttemptsInRange
  BY BackgroundAssumption, MemWork!AttemptsCorrect
<1>5. Work!Terminal!Spec => []Work!Terminal!EchoInOrder
  BY Work!EchoCorrect
<1> QED BY <1>1, <1>2, <1>3, <1>4, <1>5, BusAlone, HooksAlone, HooksMemAlone, TerminalAlone, PTL DEF DeliveredOnce

\* One invoice answers every call for a key and period, charged as it says, and
\* a metering call that returned has recorded its hour in every metric, however
\* the calls overlap and whichever writes fail, over either invoice table.
THEOREM BillingCorrect == BackgroundSpec => []BilledExactly
<1>1. Work!Invoices!Spec => []Work!Invoices!OneInvoice
  BY Work!InvoicesCorrect
<1>2. Work!Invoices!Spec => []Work!Invoices!MeteredWhole
  BY Work!MeteringCorrect
<1>3. MemWork!Invoices!Spec => []MemWork!Invoices!OneInvoice
  BY MemWork!InvoicesCorrect
<1>4. MemWork!Invoices!Spec => []MemWork!Invoices!MeteredWhole
  BY MemWork!MeteringCorrect
<1> QED BY <1>1, <1>2, <1>3, <1>4, InvoicesAlone, InvoicesMemAlone, PTL DEF BilledExactly

\* Migrations start and go on as if they were alone: other work leaves their
\* state as it starts.
LEMMA MovesAlways == BackgroundSpec => Work!Moves!Spec
<1>1. /\ BackgroundInit => Work!Moves!Init
      /\ [BackgroundNext]_backgroundVars => [Work!Moves!Next]_(Work!Moves!migVars)
  BY DEF BackgroundInit, BackgroundNext, Rest, backgroundVars, migVars, Work!Moves!migVars,
     BusStep, HooksStep, HooksMemStep, TerminalStep, InvoicesStep, InvoicesMemStep, MovesStep,
     ImageSyncStep, ImageSyncSqlStep, SchemaStep
<1> QED BY <1>1, PTL DEF BackgroundSpec, Work!Moves!Spec

\* No step of a migration, a rollback or a crash leaves an instance whose row
\* points at a node without its guest (executeMigration moves the row before it
\* deletes the old guest), unless a migration in flight leads back to a node
\* that another one of the instance leaves, or the instance's own UpdateNodeID
\* failed, an error executeMigration drops.
THEOREM MovesCorrect == BackgroundSpec => MovesKeepGuests
<1>1. Work!Moves!Spec => Work!Moves!MovesKeepGuests
  BY BackgroundAssumption, Work!MovesCorrect
<1> QED BY <1>1, MovesAlways, PTL DEF MovesKeepGuests

LEMMA SchemaAlways == BackgroundSpec => Work!Schema!Spec
<1>1. /\ BackgroundInit => Work!Schema!Init
      /\ [BackgroundNext]_backgroundVars => [Work!Schema!Next]_(Work!Schema!migrVars)
  BY DEF BackgroundInit, BackgroundNext, Rest, backgroundVars, migrVars, Work!Schema!migrVars,
     BusStep, HooksStep, HooksMemStep, TerminalStep, InvoicesStep, InvoicesMemStep, MovesStep,
     ImageSyncStep, ImageSyncSqlStep, SchemaStep
<1> QED BY <1>1, PTL DEF BackgroundSpec, Work!Schema!Spec

\* A server whose Up returned without an error has applied every file of its own
\* release, though migrators die half way, lose the advisory lock or are of
\* another release.
THEOREM SchemaCorrect == BackgroundSpec => []VerifiedIsComplete
<1>1. Work!Schema!Spec => []Work!Schema!VerifiedIsComplete
  BY BackgroundAssumption, Work!SchemaCorrect
<1> QED BY <1>1, SchemaAlways, PTL DEF VerifiedIsComplete

\* The focus never changes.
LEMMA FocusStays == [RequestsNext]_requestsVars => focus' = focus
BY DEF RequestsNext, requestsVars, OthersRest,
   AuditStep, AuditSqlStep, NotesStep, NotesMemStep, KeyUseStep, KeyUseMemStep, AccountsStep,
   SessionsStep, LimiterStep, LimiterSqlStep, TenantStep, ListsStep, PointsStep,
   RestoresStep, RotationStep, AddressesStep, AddressesSqlStep, InterfacesStep, StorageStep,
   StorageMemStep, MetricsStep, MetricsSqlStep, EnrollStep, EnrollMemStep

\* A step is one of the component it belongs to.
LEMMA FocusStep ==
  ASSUME RequestsNext
  PROVE  /\ focus = "audit" => AuditStep
         /\ focus = "audit_sql" => AuditSqlStep
         /\ focus = "notes" => NotesStep
         /\ focus = "keys" => KeyUseStep
         /\ focus = "keys_mem" => KeyUseMemStep
         /\ focus = "accounts" => AccountsStep
         /\ focus = "sessions" => SessionsStep
         /\ focus = "limiter" => LimiterStep
         /\ focus = "tenant" => TenantStep
         /\ focus = "lists" => ListsStep
         /\ focus = "metrics" => MetricsStep
         /\ focus = "backups" => PointsStep
         /\ focus = "rotation" => RotationStep
         /\ focus = "addresses" => AddressesStep
         /\ focus = "addresses_sql" => AddressesSqlStep
         /\ focus = "volumes" => StorageStep
         /\ focus = "volumes_mem" => StorageMemStep
         /\ focus = "enroll" => EnrollStep
         /\ focus = "enroll_mem" => EnrollMemStep
BY DEF RequestsNext, AuditStep, AuditSqlStep, NotesStep, NotesMemStep, KeyUseStep, KeyUseMemStep, AccountsStep,
   SessionsStep, LimiterStep, LimiterSqlStep, TenantStep, ListsStep, PointsStep,
   RestoresStep, RotationStep, AddressesStep, AddressesSqlStep, InterfacesStep, StorageStep,
   StorageMemStep, MetricsStep, MetricsSqlStep, EnrollStep, EnrollMemStep

LEMMA AuditAlone == RequestsSpec => ([](focus = "audit") /\ Maps!Audit!Spec) \/ []~(focus = "audit")
<1>1. /\ RequestsInit /\ focus = "audit" => Maps!Audit!Init
      /\ focus = "audit" /\ [RequestsNext]_requestsVars => (focus = "audit")' /\ [Maps!Audit!Next]_(Maps!Audit!auditVars)
      /\ ~(focus = "audit") /\ [RequestsNext]_requestsVars => ~(focus = "audit")'
  BY FocusStays, FocusStep DEF RequestsInit, AuditStep, requestsVars, auditVars, Maps!Audit!auditVars
<1> QED BY <1>1, PTL DEF RequestsSpec, Maps!Audit!Spec

LEMMA AuditSqlAlone == RequestsSpec => ([](focus = "audit_sql") /\ Tables!Audit!Spec) \/ []~(focus = "audit_sql")
<1>1. /\ RequestsInit /\ focus = "audit_sql" => Tables!Audit!Init
      /\ focus = "audit_sql" /\ [RequestsNext]_requestsVars => (focus = "audit_sql")' /\ [Tables!Audit!Next]_(Tables!Audit!auditVars)
      /\ ~(focus = "audit_sql") /\ [RequestsNext]_requestsVars => ~(focus = "audit_sql")'
  BY FocusStays, FocusStep DEF RequestsInit, AuditSqlStep, requestsVars, auditVars, Tables!Audit!auditVars
<1> QED BY <1>1, PTL DEF RequestsSpec, Tables!Audit!Spec

LEMMA NotesAlone == RequestsSpec => ([](focus = "notes") /\ Tables!Notes!Spec) \/ []~(focus = "notes")
<1>1. /\ RequestsInit /\ focus = "notes" => Tables!Notes!Init
      /\ focus = "notes" /\ [RequestsNext]_requestsVars => (focus = "notes")' /\ [Tables!Notes!Next]_(Tables!Notes!noteVars)
      /\ ~(focus = "notes") /\ [RequestsNext]_requestsVars => ~(focus = "notes")'
  BY FocusStays, FocusStep DEF RequestsInit, NotesStep, requestsVars, noteVars, Tables!Notes!noteVars
<1> QED BY <1>1, PTL DEF RequestsSpec, Tables!Notes!Spec

LEMMA KeyUseAlone == RequestsSpec => ([](focus = "keys") /\ Tables!KeyUse!Spec) \/ []~(focus = "keys")
<1>1. /\ RequestsInit /\ focus = "keys" => Tables!KeyUse!Init
      /\ focus = "keys" /\ [RequestsNext]_requestsVars => (focus = "keys")' /\ [Tables!KeyUse!Next]_(Tables!KeyUse!accessVars)
      /\ ~(focus = "keys") /\ [RequestsNext]_requestsVars => ~(focus = "keys")'
  BY FocusStays, FocusStep DEF RequestsInit, KeyUseStep, requestsVars, accessVars, Tables!KeyUse!accessVars
<1> QED BY <1>1, PTL DEF RequestsSpec, Tables!KeyUse!Spec

LEMMA KeyUseMemAlone == RequestsSpec => ([](focus = "keys_mem") /\ Maps!KeyUse!Spec) \/ []~(focus = "keys_mem")
<1>1. /\ RequestsInit /\ focus = "keys_mem" => Maps!KeyUse!Init
      /\ focus = "keys_mem" /\ [RequestsNext]_requestsVars => (focus = "keys_mem")' /\ [Maps!KeyUse!Next]_(Maps!KeyUse!accessVars)
      /\ ~(focus = "keys_mem") /\ [RequestsNext]_requestsVars => ~(focus = "keys_mem")'
  BY FocusStays, FocusStep DEF RequestsInit, KeyUseMemStep, requestsVars, accessVars, Maps!KeyUse!accessVars
<1> QED BY <1>1, PTL DEF RequestsSpec, Maps!KeyUse!Spec

LEMMA AccountsAlone == RequestsSpec => ([](focus = "accounts") /\ Tables!Accounts!Spec) \/ []~(focus = "accounts")
<1>1. /\ RequestsInit /\ focus = "accounts" => Tables!Accounts!Init
      /\ focus = "accounts" /\ [RequestsNext]_requestsVars => (focus = "accounts")' /\ [Tables!Accounts!Next]_(Tables!Accounts!idVars)
      /\ ~(focus = "accounts") /\ [RequestsNext]_requestsVars => ~(focus = "accounts")'
  BY FocusStays, FocusStep DEF RequestsInit, AccountsStep, requestsVars, idVars, Tables!Accounts!idVars
<1> QED BY <1>1, PTL DEF RequestsSpec, Tables!Accounts!Spec

LEMMA SessionsAlone == RequestsSpec => ([](focus = "sessions") /\ Maps!Accounts!Spec) \/ []~(focus = "sessions")
<1>1. /\ RequestsInit /\ focus = "sessions" => Maps!Accounts!Init
      /\ focus = "sessions" /\ [RequestsNext]_requestsVars => (focus = "sessions")' /\ [Maps!Accounts!Next]_(Maps!Accounts!idVars)
      /\ ~(focus = "sessions") /\ [RequestsNext]_requestsVars => ~(focus = "sessions")'
  BY FocusStays, FocusStep DEF RequestsInit, SessionsStep, requestsVars, idVars, Maps!Accounts!idVars
<1> QED BY <1>1, PTL DEF RequestsSpec, Maps!Accounts!Spec

LEMMA LimiterAlone == RequestsSpec => ([](focus = "limiter") /\ Maps!Limiter!Spec) \/ []~(focus = "limiter")
<1>1. /\ RequestsInit /\ focus = "limiter" => Maps!Limiter!Init
      /\ focus = "limiter" /\ [RequestsNext]_requestsVars => (focus = "limiter")' /\ [Maps!Limiter!Next]_(Maps!Limiter!rateVars)
      /\ ~(focus = "limiter") /\ [RequestsNext]_requestsVars => ~(focus = "limiter")'
  BY FocusStays, FocusStep DEF RequestsInit, LimiterStep, requestsVars, rateVars, Maps!Limiter!rateVars
<1> QED BY <1>1, PTL DEF RequestsSpec, Maps!Limiter!Spec

LEMMA TenantAlone == RequestsSpec => ([](focus = "tenant") /\ Tenant!Spec) \/ []~(focus = "tenant")
<1>1. /\ RequestsInit /\ focus = "tenant" => Tenant!Init
      /\ focus = "tenant" /\ [RequestsNext]_requestsVars => (focus = "tenant")' /\ [Tenant!Next]_(Tenant!vars)
      /\ ~(focus = "tenant") /\ [RequestsNext]_requestsVars => ~(focus = "tenant")'
  BY FocusStays, FocusStep DEF RequestsInit, TenantStep, requestsVars, quotaVars, Tenant!vars
<1> QED BY <1>1, PTL DEF RequestsSpec, Tenant!Spec

LEMMA ListsAlone == RequestsSpec => ([](focus = "lists") /\ Tables!Lists!Spec) \/ []~(focus = "lists")
<1>1. /\ RequestsInit /\ focus = "lists" => Tables!Lists!Init
      /\ focus = "lists" /\ [RequestsNext]_requestsVars => (focus = "lists")' /\ [Tables!Lists!Next]_(Tables!Lists!listVars)
      /\ ~(focus = "lists") /\ [RequestsNext]_requestsVars => ~(focus = "lists")'
  BY FocusStays, FocusStep DEF RequestsInit, ListsStep, requestsVars, listVars, Tables!Lists!listVars
<1> QED BY <1>1, PTL DEF RequestsSpec, Tables!Lists!Spec

LEMMA MetricsAlone == RequestsSpec => ([](focus = "metrics") /\ Maps!Metrics!Spec) \/ []~(focus = "metrics")
<1>1. /\ RequestsInit /\ focus = "metrics" => Maps!Metrics!Init
      /\ focus = "metrics" /\ [RequestsNext]_requestsVars => (focus = "metrics")' /\ [Maps!Metrics!Next]_(Maps!Metrics!monVars)
      /\ ~(focus = "metrics") /\ [RequestsNext]_requestsVars => ~(focus = "metrics")'
  BY FocusStays, FocusStep DEF RequestsInit, MetricsStep, requestsVars, monVars, Maps!Metrics!monVars
<1> QED BY <1>1, PTL DEF RequestsSpec, Maps!Metrics!Spec

LEMMA PointsAlone == RequestsSpec => ([](focus = "backups") /\ Maps!Points!Spec) \/ []~(focus = "backups")
<1>1. /\ RequestsInit /\ focus = "backups" => Maps!Points!Init
      /\ focus = "backups" /\ [RequestsNext]_requestsVars => (focus = "backups")' /\ [Maps!Points!Next]_(Maps!Points!backupVars)
      /\ ~(focus = "backups") /\ [RequestsNext]_requestsVars => ~(focus = "backups")'
  BY FocusStays, FocusStep DEF RequestsInit, PointsStep, requestsVars, backupVars, Maps!Points!backupVars, Maps!Points!Next
<1> QED BY <1>1, PTL DEF RequestsSpec, Maps!Points!Spec

LEMMA RotationAlone == RequestsSpec => ([](focus = "rotation") /\ Maps!Points!Spec) \/ []~(focus = "rotation")
<1>1. /\ RequestsInit /\ focus = "rotation" => Maps!Points!Init
      /\ focus = "rotation" /\ [RequestsNext]_requestsVars => (focus = "rotation")' /\ [Maps!Points!Next]_(Maps!Points!backupVars)
      /\ ~(focus = "rotation") /\ [RequestsNext]_requestsVars => ~(focus = "rotation")'
  BY FocusStays, FocusStep DEF RequestsInit, RotationStep, requestsVars, backupVars, Maps!Points!backupVars, Maps!Points!Next
<1> QED BY <1>1, PTL DEF RequestsSpec, Maps!Points!Spec

LEMMA AddressesAlone == RequestsSpec => ([](focus = "addresses") /\ Maps!Addresses!Spec) \/ []~(focus = "addresses")
<1>1. /\ RequestsInit /\ focus = "addresses" => Maps!Addresses!Init
      /\ focus = "addresses" /\ [RequestsNext]_requestsVars => (focus = "addresses")' /\ [Maps!Addresses!Next]_(Maps!Addresses!netVars)
      /\ ~(focus = "addresses") /\ [RequestsNext]_requestsVars => ~(focus = "addresses")'
  BY FocusStays, FocusStep DEF RequestsInit, AddressesStep, requestsVars, netVars, Maps!Addresses!netVars, Maps!Addresses!Next
<1> QED BY <1>1, PTL DEF RequestsSpec, Maps!Addresses!Spec

LEMMA AddressesSqlAlone == RequestsSpec => ([](focus = "addresses_sql") /\ Tables!Addresses!Spec) \/ []~(focus = "addresses_sql")
<1>1. /\ RequestsInit /\ focus = "addresses_sql" => Tables!Addresses!Init
      /\ focus = "addresses_sql" /\ [RequestsNext]_requestsVars => (focus = "addresses_sql")' /\ [Tables!Addresses!Next]_(Tables!Addresses!netVars)
      /\ ~(focus = "addresses_sql") /\ [RequestsNext]_requestsVars => ~(focus = "addresses_sql")'
  BY FocusStays, FocusStep DEF RequestsInit, AddressesSqlStep, requestsVars, netVars, Tables!Addresses!netVars, Tables!Addresses!Next
<1> QED BY <1>1, PTL DEF RequestsSpec, Tables!Addresses!Spec

LEMMA StorageAlone == RequestsSpec => ([](focus = "volumes") /\ Tables!Storage!Spec) \/ []~(focus = "volumes")
<1>1. /\ RequestsInit /\ focus = "volumes" => Tables!Storage!Init
      /\ focus = "volumes" /\ [RequestsNext]_requestsVars => (focus = "volumes")' /\ [Tables!Storage!Next]_(Tables!Storage!volVars)
      /\ ~(focus = "volumes") /\ [RequestsNext]_requestsVars => ~(focus = "volumes")'
  BY FocusStays, FocusStep DEF RequestsInit, StorageStep, requestsVars, volVars, Tables!Storage!volVars
<1> QED BY <1>1, PTL DEF RequestsSpec, Tables!Storage!Spec

LEMMA StorageMemAlone == RequestsSpec => ([](focus = "volumes_mem") /\ Maps!Storage!Spec) \/ []~(focus = "volumes_mem")
<1>1. /\ RequestsInit /\ focus = "volumes_mem" => Maps!Storage!Init
      /\ focus = "volumes_mem" /\ [RequestsNext]_requestsVars => (focus = "volumes_mem")' /\ [Maps!Storage!Next]_(Maps!Storage!volVars)
      /\ ~(focus = "volumes_mem") /\ [RequestsNext]_requestsVars => ~(focus = "volumes_mem")'
  BY FocusStays, FocusStep DEF RequestsInit, StorageMemStep, requestsVars, volVars, Maps!Storage!volVars
<1> QED BY <1>1, PTL DEF RequestsSpec, Maps!Storage!Spec

LEMMA EnrollAlone == RequestsSpec => ([](focus = "enroll") /\ Tables!Enroll!Spec) \/ []~(focus = "enroll")
<1>1. /\ RequestsInit /\ focus = "enroll" => Tables!Enroll!Init
      /\ focus = "enroll" /\ [RequestsNext]_requestsVars => (focus = "enroll")' /\ [Tables!Enroll!Next]_(Tables!Enroll!enrollVars)
      /\ ~(focus = "enroll") /\ [RequestsNext]_requestsVars => ~(focus = "enroll")'
  BY FocusStays, FocusStep DEF RequestsInit, EnrollStep, requestsVars, enrollVars, Tables!Enroll!enrollVars
<1> QED BY <1>1, PTL DEF RequestsSpec, Tables!Enroll!Spec

LEMMA EnrollMemAlone == RequestsSpec => ([](focus = "enroll_mem") /\ Maps!Enroll!Spec) \/ []~(focus = "enroll_mem")
<1>1. /\ RequestsInit /\ focus = "enroll_mem" => Maps!Enroll!Init
      /\ focus = "enroll_mem" /\ [RequestsNext]_requestsVars => (focus = "enroll_mem")' /\ [Maps!Enroll!Next]_(Maps!Enroll!enrollVars)
      /\ ~(focus = "enroll_mem") /\ [RequestsNext]_requestsVars => ~(focus = "enroll_mem")'
  BY FocusStays, FocusStep DEF RequestsInit, EnrollMemStep, requestsVars, enrollVars, Maps!Enroll!enrollVars
<1> QED BY <1>1, PTL DEF RequestsSpec, Maps!Enroll!Spec


\* The hash chain of the in-memory audit log verifies though operations record
\* at the same time, and over either table a SIEM destination gets an entry of
\* the trail, once.
THEOREM TrailCorrect == RequestsSpec => []TrailIsSound
<1>1. Maps!Audit!Spec => []Maps!Audit!ChainVerifies
  BY Maps!ChainCorrect
<1>2. Maps!Audit!Spec => []Maps!Audit!ForwardedOnce
  BY Maps!ForwardingCorrect
<1>3. Tables!Audit!Spec => []Tables!Audit!ForwardedOnce
  BY Tables!ForwardingCorrect
<1> QED BY <1>1, <1>2, <1>3, AuditAlone, AuditSqlAlone, PTL DEF TrailIsSound

\* Overlapping requests leave the accounts consistent: on one server one user
\* becomes superadmin, but for those whose registration dropped an error of the
\* count, a family of refresh tokens has one live session but for the exchanges
\* that overlapped, a challenge for a second factor has a secret, an answered
\* revocation of a key is final, and a key acts within its scopes on every route
\* that asks for a permission.
THEOREM AccountsCorrect == RequestsSpec => []AccountsConsistent
<1>1. Tables!Accounts!Spec => []Tables!Accounts!OneSuperadmin
  <2>1. PICK s \in Servers : Servers = {s}
    BY RequestsAssumption
  <2> QED BY <2>1, RequestsAssumption, Tables!SuperadminCorrect
<1>2. Tables!Accounts!Spec => []Tables!Accounts!ChallengeAnswerable
  BY RequestsAssumption, Tables!ChallengesCorrect
<1>3. Maps!Accounts!Spec => []Maps!Accounts!RotationBound
  <2>1. Maps!IsFiniteSet(Calls)
    BY RequestsAssumption DEF IsFiniteSet, Maps!IsFiniteSet
  <2> QED BY <2>1, RequestsAssumption, Maps!RotationCorrect
<1>4. Maps!Accounts!Spec => []Maps!Accounts!ChallengeAnswerable
  BY RequestsAssumption, Maps!ChallengesCorrect
<1>5. Tables!KeyUse!Spec => []Tables!KeyUse!RevokedIsFinal
  BY Tables!RevocationCorrect
<1>6. Tables!KeyUse!Spec => []Tables!KeyUse!KeyStaysInScope
  BY Tables!ScopesCorrect
<1>7. Maps!KeyUse!Spec => []Maps!KeyUse!RevokedIsFinal
  BY Maps!RevocationCorrect
<1>8. Maps!KeyUse!Spec => []Maps!KeyUse!KeyStaysInScope
  BY Maps!ScopesCorrect
<1> QED BY <1>1, <1>2, <1>3, <1>4, <1>5, <1>6, <1>7, <1>8,
       AccountsAlone, SessionsAlone, KeyUseAlone, KeyUseMemAlone, PTL DEF AccountsConsistent

\* However many requests overlap, on whichever servers, what is granted stays
\* within the plan's limits, and no window sees more than two windows' worth of
\* calls pass the in-memory rate limiter.
THEOREM LimitsCorrect == RequestsSpec => []WithinLimits
<1>1. Tenant!Spec => []Tenant!WithinLimit
  <2>1. Tenant!IsFiniteSet(Callers)
    BY RequestsAssumption DEF IsFiniteSet, Tenant!IsFiniteSet
  <2> QED BY <2>1, RequestsAssumption, Tenant!WithinLimitCorrect
<1>2. Maps!Limiter!Spec => []Maps!Limiter!WindowBound
  BY RequestsAssumption, Maps!LimiterCorrect
<1> QED BY <1>1, <1>2, TenantAlone, LimiterAlone, PTL DEF WithinLimits

\* Once a check has marked a backup verified, a deletion beside retention leaves
\* a verified backup with its artifact while no artifact was lost and no check
\* failed; and of the keys of one type one is active, but for the errors of
\* reads and saves that rotations dropped.
THEOREM RecoveryCorrect == RequestsSpec => []RecoveryPossible
<1>1. Maps!Points!Spec => []Maps!Points!KeepsRecoveryPoint
  BY Maps!RecoveryPointCorrect
<1>2. Maps!Points!Spec => []Maps!Points!OneActiveKey
  <2>1. Maps!IsFiniteSet(Keys)
    BY RequestsAssumption DEF IsFiniteSet, Maps!IsFiniteSet
  <2> QED BY <2>1, RequestsAssumption, Maps!KeysCorrect
<1> QED BY <1>1, <1>2, PointsAlone, RotationAlone, PTL DEF RecoveryPossible

\* The stores that one request writes agree afterwards: an address is in use
\* once, however allocations overlap, over either table, and a free one of the
\* in-memory pool can be had; and while no two volume calls overlapped and no
\* command was lost, whichever statements failed, the node has the volumes of
\* the rows and the disks of the attached ones, and the pool's used space is
\* what they add up to unless a write of the pool was lost.
THEOREM StoresCorrect == RequestsSpec => []StoresAgree
<1>1. Maps!Addresses!Spec => []Maps!Addresses!NoSharedAddress
  BY Maps!AddressesCorrect
<1>2. Maps!Addresses!Spec => []Maps!Addresses!FreeIsUsable
  BY Maps!FreeCorrect
<1>3. Tables!Addresses!Spec => []Tables!Addresses!NoSharedAddress
  BY Tables!AddressesCorrect
<1>4. Tables!IsFiniteSet(Vols) /\ Maps!IsFiniteSet(Vols)
  BY RequestsAssumption DEF IsFiniteSet, Tables!IsFiniteSet, Maps!IsFiniteSet
<1>5. Tables!Storage!Spec => []Tables!Storage!StoresAgree
  BY <1>4, RequestsAssumption, Tables!StoresCorrect
<1>6. Maps!Storage!Spec => []Maps!Storage!StoresAgree
  <2>1. Maps!Storage!NoId = Tables!Storage!NoId
    BY DEF Maps!Storage!NoId, Tables!Storage!NoId
  <2>2. Maps!Storage!NoId \notin Guests
    BY <2>1, RequestsAssumption
  <2> QED BY <1>4, <2>2, RequestsAssumption, Maps!StoresCorrect
<1> QED BY <1>1, <1>2, <1>3, <1>5, <1>6, AddressesAlone, AddressesSqlAlone, StorageAlone,
       StorageMemAlone, PTL DEF StoresAgree

\* What a client reads is complete: a list of fixed order read page by page has
\* every row that matched when the client began, the calls that mark a user's
\* notifications add up to the ones that are read, a metrics query counts each
\* of the last Capacity samples once, and a sample raises one alert for each
\* threshold that was there before it and that it meets.
THEOREM ViewsCorrect == RequestsSpec => []ViewsComplete
<1>1. Tables!Lists!Spec => []Tables!Lists!NoneMissed
  BY RequestsAssumption, Tables!ListsCorrect
<1>2. Tables!Notes!Spec => []Tables!Notes!ReadsAddUp
  <2>1. Tables!IsFiniteSet(Notices)
    BY RequestsAssumption DEF IsFiniteSet, Tables!IsFiniteSet
  <2> QED BY <2>1, Tables!ReadsCorrect
<1>3. Maps!Metrics!Spec => []Maps!Metrics!QueryIsExact
  BY RequestsAssumption, Maps!QueryCorrect
<1>4. Maps!Metrics!Spec => []Maps!Metrics!BreachesAlert
  BY RequestsAssumption, Maps!AlertsCorrect
<1> QED BY <1>1, <1>2, <1>3, <1>4, ListsAlone, NotesAlone, MetricsAlone, PTL DEF ViewsComplete

\* A host that has its certificate files is accepted by the running server until
\* they expire or the node is revoked, whichever of the two died before and
\* within whichever write, unless that left node.crt or ca.key empty; and a
\* token enrolls one node, over either table.
THEOREM EnrolledCorrect == RequestsSpec => []EnrolledIsAccepted
<1>1. Tables!Enroll!Spec => []Tables!Enroll!EnrolledIsAccepted
  BY RequestsAssumption, Tables!EnrolledCorrect
<1>2. Tables!Enroll!Spec => []Tables!Enroll!TokenEnrollsOne
  BY RequestsAssumption, Tables!TokensCorrect
<1>3. Maps!Enroll!Spec => []Maps!Enroll!EnrolledIsAccepted
  BY RequestsAssumption, Maps!EnrolledCorrect
<1>4. Maps!Enroll!Spec => []Maps!Enroll!TokenEnrollsOne
  BY RequestsAssumption, Maps!TokensCorrect
<1> QED BY <1>1, <1>2, <1>3, <1>4, EnrollAlone, EnrollMemAlone, PTL DEF EnrolledIsAccepted

\* A deleted volume never comes back, whichever stale copies of its row the
\* calls hold, and a name of the pool has one owner, over either table.
THEOREM DeletionCorrect == RequestsSpec => DeletedStaysDeleted
<1>1. Tables!Storage!Spec => Tables!Storage!DeletedStaysDeleted
  BY Tables!DeletionCorrect
<1>2. Maps!Storage!Spec => Maps!Storage!DeletedStaysDeleted
  BY Maps!DeletionCorrect
<1>3. [/\ \A v \in Vols : vols[v].status = "deleted" => vols'[v] = vols[v]
       /\ \A v, w \in Maps!Storage!Live' : NameOf[v] = NameOf[w] => v = w]_(Maps!Storage!volVars)
      => [/\ \A v \in Vols : vols[v].status = "deleted" => vols'[v] = vols[v]
          /\ \A v, w \in Tables!Storage!Live' : NameOf[v] = NameOf[w] => v = w]_(Tables!Storage!volVars)
  BY DEF Maps!Storage!volVars, Tables!Storage!volVars, Maps!Storage!Live, Tables!Storage!Live,
     Maps!Storage!Exists, Tables!Storage!Exists
<1>4. ~(focus = "volumes") /\ ~(focus = "volumes_mem") /\ [RequestsNext]_requestsVars
      => [/\ \A v \in Vols : vols[v].status = "deleted" => vols'[v] = vols[v]
          /\ \A v, w \in Tables!Storage!Live' : NameOf[v] = NameOf[w] => v = w]_(Tables!Storage!volVars)
  <2>1. ~(focus = "volumes") /\ ~(focus = "volumes_mem") /\ [RequestsNext]_requestsVars => UNCHANGED volVars
    BY DEF RequestsNext, requestsVars, OthersRest,
     AuditStep, AuditSqlStep, NotesStep, NotesMemStep, KeyUseStep, KeyUseMemStep, AccountsStep,
     SessionsStep, LimiterStep, LimiterSqlStep, TenantStep, ListsStep, PointsStep,
     RestoresStep, RotationStep, AddressesStep, AddressesSqlStep, InterfacesStep, StorageStep,
     StorageMemStep, MetricsStep, MetricsSqlStep, EnrollStep, EnrollMemStep
  <2> QED BY <2>1 DEF volVars, Tables!Storage!volVars
<1> QED BY <1>1, <1>2, <1>3, <1>4, StorageAlone, StorageMemAlone, PTL
     DEF RequestsSpec, DeletedStaysDeleted, Tables!Storage!DeletedStaysDeleted, Maps!Storage!DeletedStaysDeleted
=============================================================================
