------------------------------- MODULE Listing -------------------------------
(***************************************************************************)
(* The paged lists of the repositories (internal/infra/memory, postgres).  *)
(* A list is what its function tests, how it orders and what a page is     *)
(* when the caller gives no limit.  A client reads one list page by page   *)
(* while rows are added: what it may miss depends on the order.            *)
(*                                                                         *)
(* A row is its time and the fields on which it has the values the client  *)
(* asks for; a list lets a row through when it has them on every field the *)
(* client fills in and the list tests.                                     *)
(***************************************************************************)
EXTENDS Naturals, Sequences, FiniteSets, SequencesExt

CONSTANTS
  MaxRows,     \* rows that may be added
  PageSizes,   \* the limits a client asks for; 0 when it gives none
  DefaultSize, \* stands for the 50 or 100 rows of a default page
  Clock,       \* the times of the rows are 1 .. Clock
  Names        \* the lists read

VARIABLES
  name,    \* the list that is read
  asked,   \* the fields the client fills in
  size,    \* the limit it asks for
  rows,    \* the table, in the order of insertion: a sequence of rows
  reader   \* [pc, offset, total, last, wanted, got]

listVars == <<name, asked, size, rows, reader>>

(***************************************************************************)
(* The lists.  "log" is the reverse of the order of insertion, "newest"    *)
(* sorts by the time of creation and leaves rows of the same time in any   *)
(* order, "map" ranges over a Go map and is any order; "all" is a list     *)
(* that gives every row to a caller without a limit.  The total of matches *)
(* is counted with the page, under one lock, or before it, by a statement  *)
(* of its own, or is not given.                                            *)
(***************************************************************************)
L(tests, order, without, total) == [tests |-> tests, order |-> order, without |-> without, total |-> total]

eventFields == {"tenant", "type", "resourceType", "resource", "actor", "from", "to"}
auditFields == {"actor", "action", "resourceType", "resource", "severity", "from", "to"}
jobFields == {"tenant", "type", "status", "resourceType", "resource"}
migrationFields == {"tenant", "instance", "source", "dest", "status"}
noticeFields == {"tenant", "user", "unread", "severity"}
deliveryFields == {"tenant", "webhook", "event", "status"}
templateFields == {"distribution", "status", "architecture", "type", "search"}
imageFields == {"template", "architecture", "type", "status"}

MemEventList == L(eventFields, "log", "all", "with")
SqlEventList == L(eventFields, "newest", "default", "before")
MemAuditList == L(auditFields, "log", "default", "with")
SqlAuditList == L(auditFields, "newest", "default", "before")
MemJobList == L(jobFields, "newest", "all", "with")
SqlJobList == L(jobFields, "newest", "default", "before")
MemBackupList == L(jobFields, "newest", "all", "with")
SqlBackupList == L(jobFields, "newest", "all", "before")
MemPlanList == L({}, "newest", "all", "with")
SqlPlanList == L({}, "newest", "default", "before")
MemMigrationList == L(migrationFields, "newest", "all", "with")
SqlMigrationList == L(migrationFields, "newest", "default", "before")
MemNoticeList == L(noticeFields, "log", "all", "with")
SqlNoticeList == L(noticeFields, "newest", "default", "before")
MemWebhookList == L({"tenant", "active"}, "log", "all", "with")
SqlWebhookList == L({"tenant", "active"}, "newest", "default", "before")
MemDeliveryList == L(deliveryFields, "log", "all", "with")
SqlDeliveryList == L(deliveryFields, "newest", "default", "before")
MemInvoiceList == L({"tenant"}, "newest", "all", "none")
SqlInvoiceList == L({"tenant"}, "newest", "default", "none")
MemAllInvoices == L({}, "newest", "all", "none")
SqlAllInvoices == L({}, "newest", "default", "none")
MemUsageList == L({"tenant"}, "newest", "all", "none")
SqlUsageList == L({"tenant"}, "newest", "default", "none")
MemKeyList == L({"type"}, "newest", "all", "with")
SqlKeyList == L({"type"}, "newest", "all", "before")
MemReportList == L({}, "newest", "all", "with")
SqlReportList == L({}, "newest", "default", "before")
MemTemplateList == L(templateFields, "map", "default", "with")
SqlTemplateList == L(templateFields, "name", "default", "before")
MemImageList == L(imageFields, "map", "default", "with")
SqlImageList == L(imageFields, "newest", "default", "before")

Lists ==
  [mem_events |-> MemEventList, sql_events |-> SqlEventList, mem_audit |-> MemAuditList, sql_audit |-> SqlAuditList,
   mem_jobs |-> MemJobList, sql_jobs |-> SqlJobList, mem_backups |-> MemBackupList, sql_backups |-> SqlBackupList,
   mem_plans |-> MemPlanList, sql_plans |-> SqlPlanList, mem_migrations |-> MemMigrationList,
   sql_migrations |-> SqlMigrationList, mem_notices |-> MemNoticeList, sql_notices |-> SqlNoticeList,
   mem_webhooks |-> MemWebhookList, sql_webhooks |-> SqlWebhookList, mem_deliveries |-> MemDeliveryList,
   sql_deliveries |-> SqlDeliveryList, mem_invoices |-> MemInvoiceList, sql_invoices |-> SqlInvoiceList,
   mem_all_invoices |-> MemAllInvoices, sql_all_invoices |-> SqlAllInvoices, mem_usage |-> MemUsageList,
   sql_usage |-> SqlUsageList, mem_keys |-> MemKeyList, sql_keys |-> SqlKeyList, mem_reports |-> MemReportList,
   sql_reports |-> SqlReportList, mem_templates |-> MemTemplateList, sql_templates |-> SqlTemplateList,
   mem_images |-> MemImageList, sql_images |-> SqlImageList]

\* A field the client may fill in, or none.
Asked(n) == {{}} \cup {{f} : f \in Lists[n].tests}

Init ==
  /\ name \in Names /\ asked \in Asked(name) /\ size \in PageSizes
  /\ rows = <<>>
  /\ reader = [pc |-> "idle", offset |-> 0, total |-> 0, last |-> 0, wanted |-> {}, got |-> {}]

\* A row is added: with the fields asked for, or without.  Times grow.
AddRow(has, at) ==
  /\ Len(rows) < MaxRows /\ \A i \in DOMAIN rows : rows[i].at <= at
  /\ rows' = Append(rows, [has |-> has, at |-> at])
  /\ UNCHANGED <<name, asked, size, reader>>

Matches(row) == (asked \cap Lists[name].tests) # {} => row.has

Matching == {i \in DOMAIN rows : Matches(rows[i])}

\* The orders in which the list may give its rows.
Before(i, j) ==
  CASE Lists[name].order = "log" -> i > j
    [] Lists[name].order = "newest" -> rows[i].at > rows[j].at
    [] OTHER -> FALSE

Orders == {q \in SetToSeqs(Matching) : \A i, j \in DOMAIN q : Before(q[i], q[j]) => i < j}

PageLimit == IF size > 0 THEN size ELSE IF Lists[name].without = "all" THEN MaxRows ELSE DefaultSize

\* Mutant: the page ends one row early.
PageShort(q, offset) == SubSeq(q, offset + 1, IF offset + PageLimit < Len(q) THEN offset + PageLimit - 1 ELSE Len(q))

\* The rows offset .. offset + PageLimit of the order, as far as there are any.
Page(q, offset) == SubSeq(q, offset + 1, IF offset + PageLimit < Len(q) THEN offset + PageLimit ELSE Len(q))

\* The client goes on while the total says that there is a page; without a
\* total, while the last page was full.
HasMore ==
  \/ reader.pc = "idle"
  \/ reader.pc = "more" /\ IF Lists[name].total = "none" THEN reader.last = PageLimit ELSE reader.offset < reader.total

\* What a client should get is what matches when it begins.
Sought == IF reader.pc = "idle" THEN Matching ELSE reader.wanted

CountRows ==
  /\ Lists[name].total = "before" /\ HasMore
  /\ reader' = [reader EXCEPT !.pc = "select", !.total = Cardinality(Matching), !.wanted = Sought]
  /\ UNCHANGED <<name, asked, size, rows>>

ReadPage ==
  /\ IF Lists[name].total = "before" THEN reader.pc = "select" ELSE HasMore
  /\ \E q \in Orders :
       LET page == Page(q, reader.offset)
       IN  reader' = [reader EXCEPT !.pc = "more", !.offset = @ + PageLimit, !.last = Len(page), !.wanted = Sought,
                        !.total = IF Lists[name].total = "with" THEN Len(q) ELSE @,
                        !.got = @ \cup {page[k] : k \in DOMAIN page}]
  /\ UNCHANGED <<name, asked, size, rows>>

ReadEnds ==
  /\ reader.pc = "more" /\ ~HasMore
  /\ reader' = [reader EXCEPT !.pc = "done"]
  /\ UNCHANGED <<name, asked, size, rows>>

Next ==
  \/ \E has \in BOOLEAN, at \in 1 .. Clock : AddRow(has, at)
  \/ CountRows \/ ReadPage \/ ReadEnds

Spec == Init /\ [][Next]_listVars

(***************************************************************************)
(* Properties.                                                             *)
(***************************************************************************)
\* The list's order leaves no choice: it follows the log, or sorts by times
\* that are all different.
OrderIsFixed ==
  \/ Lists[name].order = "log"
  \/ Lists[name].order = "newest" /\ \A i, j \in DOMAIN rows : rows[i].at = rows[j].at => i = j

\* A client that reads to the end gets every row that matched when it began,
\* though rows were added meanwhile, from every list whose order is fixed and
\* whose total, if it has one, is counted with the page.
NoneMissed ==
  reader.pc = "done" /\ OrderIsFixed /\ Lists[name].total # "before" => reader.wanted \subseteq reader.got

\* The same, from every list.  Does not hold: the lists of templates and of
\* images page through a map (memory/template_repo.go:178, 425), rows of one
\* time change places from one page to the next, and a row added between the
\* count and the page of a postgres list pushes a row past the total.
NoneMissedAnywhere == reader.pc = "done" => reader.wanted \subseteq reader.got
==============================================================================
