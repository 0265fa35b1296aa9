--------------------------- MODULE InstanceArchive ---------------------------
(***************************************************************************)
(* The backups, snapshots and guest files of one instance as its customer  *)
(* sees them: the handlers of internal/transport/http/instance_handler.go  *)
(* and the operations of internal/app/compute/service.go behind them.      *)
(*                                                                         *)
(* The operations check that the instance exists and the caller may, write *)
(* an audit entry and answer.  None of them keeps a record, sends the node *)
(* a command or changes the guest: the lists they answer are fixed.  What  *)
(* the customer was told is a history variable.                            *)
(***************************************************************************)
EXTENDS Naturals, FiniteSets

CONSTANTS
  Paths,      \* guest paths
  Granted,    \* permissions of the caller
  MaxCalls    \* bound on the calls

VARIABLES
  exists,     \* the instance has a row
  guest,      \* path -> content number in the guest's file system
  trail,      \* actions in the audit log
  told,       \* what the customer was told is there: archives, files, listed
  calls

archVars == <<exists, guest, trail, told, calls>>

Fixed(kind) == [kind |-> kind, id |-> 0]
Untold == [kind |-> "none", ids |-> {}]

Init ==
  /\ exists = TRUE /\ guest = [p \in Paths |-> 0] /\ trail = {} /\ calls = 0
  /\ told = [archives |-> {}, files |-> [p \in Paths |-> 0], listed |-> Untold]

(***************************************************************************)
(* The service: an error, or what is answered.                             *)
(***************************************************************************)
Checked(permission, body) ==
  IF ~exists THEN [err |-> "not_found", body |-> {}]
  ELSE IF permission \notin Granted THEN [err |-> "forbidden", body |-> {}]
  ELSE [err |-> "", body |-> body]

ListBackups == Checked("instance:read", {Fixed("backup")})
CreateBackup(id) == Checked("instance:update", {[kind |-> "backup", id |-> id]})
RestoreBackup(id) == Checked("instance:update", {})
DeleteBackup(id) == Checked("instance:update", {})
ListSnapshots == Checked("instance:read", {Fixed("snapshot")})
CreateSnapshot(id) == Checked("instance:update", {[kind |-> "snapshot", id |-> id]})
RestoreSnapshot(id) == Checked("instance:update", {})
DeleteSnapshot(id) == Checked("instance:update", {})
\* The root and two directories have sample entries; a path is cleaned first.
ListGuestFiles == Checked("instance:files:read", Paths)
WriteGuestFile(p) == Checked("instance:files:write", {})
DeleteGuestFile(p) == Checked("instance:files:write", {})

(***************************************************************************)
(* The handlers: 404 without the instance, 500 for any other error.        *)
(***************************************************************************)
Respond(res, action) ==
  /\ calls < MaxCalls /\ calls' = calls + 1
  /\ trail' = IF res.err = "" THEN trail \cup {action} ELSE trail
  /\ UNCHANGED <<exists, guest>>

Tell(res, then) == told' = IF res.err = "" THEN then ELSE told

HandleList(res, kind) ==
  /\ Respond(res, "list")
  /\ Tell(res, [told EXCEPT !.listed = [kind |-> kind, ids |-> {a.id : a \in res.body}]])

HandleCreate(res) ==
  /\ Respond(res, "create")
  /\ Tell(res, [told EXCEPT !.archives = @ \cup res.body, !.listed = Untold])

HandleDelete(res, kind, id) ==
  /\ Respond(res, "delete")
  /\ Tell(res, [told EXCEPT !.archives = @ \ {[kind |-> kind, id |-> id]}, !.listed = Untold])

HandleRestore(res) == Respond(res, "restore") /\ UNCHANGED told

ListFiles == Respond(ListGuestFiles, "files.list") /\ UNCHANGED told

WriteFile(p) ==
  /\ Respond(WriteGuestFile(p), "files.write")
  /\ Tell(WriteGuestFile(p), [told EXCEPT !.files[p] = calls + 1])

DeleteFile(p) ==
  /\ Respond(DeleteGuestFile(p), "files.delete")
  /\ Tell(DeleteGuestFile(p), [told EXCEPT !.files[p] = 0])

InstanceGoes ==
  /\ exists /\ exists' = FALSE /\ UNCHANGED <<guest, trail, told, calls>>

Next ==
  \/ HandleList(ListBackups, "backup") \/ HandleCreate(CreateBackup(calls + 1))
  \/ HandleList(ListSnapshots, "snapshot") \/ HandleCreate(CreateSnapshot(calls + 1))
  \/ \E id \in 1..MaxCalls : \/ HandleRestore(RestoreBackup(id))
                             \/ HandleRestore(RestoreSnapshot(id))
                             \/ HandleDelete(DeleteBackup(id), "backup", id)
                             \/ HandleDelete(DeleteSnapshot(id), "snapshot", id)
  \/ ListFiles \/ \E p \in Paths : WriteFile(p) \/ DeleteFile(p)
  \/ InstanceGoes

Spec == Init /\ [][Next]_archVars

-----------------------------------------------------------------------------

\* "ListBackups lists backups created for an instance" (service.go:816), and the
\* snapshots likewise: a list shows every archive the customer was told was made
\* and did not delete.
CreatedIsListed ==
  \A a \in told.archives : a.kind = told.listed.kind => a.id \in told.listed.ids

\* "WriteGuestFile writes or uploads file contents into the guest filesystem"
\* (service.go:750): what was answered as saved is in the guest.
SavedIsWritten == \A p \in Paths : told.files[p] # 0 => guest[p] = told.files[p]
=============================================================================
