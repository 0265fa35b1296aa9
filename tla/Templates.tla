------------------------------ MODULE Templates ------------------------------
(***************************************************************************)
(* OS templates and image artifacts (internal/app/template/service.go),    *)
(* their tables, and the goroutine that brings an image to a node.         *)
(***************************************************************************)
EXTENDS Naturals, FiniteSets

CONSTANTS
  Tmpls,          \* ids of templates
  Slugs,
  Images,         \* ids of image artifacts
  Sound,          \* those whose checksum is their fingerprint
  ImageNodes,
  Editors,        \* calls of UpdateTemplate
  Syncs,          \* goroutines of SyncImageToNode
  TableInMemory   \* the tables are the in-memory ones

VARIABLES
  tmpls,   \* the templates table: [Tmpls -> [status, slug]]
  images,  \* the artifacts table: [Images -> [status, tmpl]]
  avail,   \* the availability table: [ImageNodes \X Images -> status]
  editor,  \* the updates in progress: the copy of the row and its new slug
  sync,    \* the goroutines
  offered, \* what FindCompatible last answered: an image, or ""
  retired  \* images an administrator retired

tmplVars == <<tmpls, images, avail, editor, sync, offered, retired>>

NoTmpl == [status |-> "none", slug |-> ""]
NoImage == [status |-> "none", tmpl |-> ""]

Init ==
  /\ tmpls = [t \in Tmpls |-> NoTmpl] /\ images = [i \in Images |-> NoImage]
  /\ avail = [p \in ImageNodes \X Images |-> "none"]
  /\ editor = [e \in Editors |-> [pc |-> "idle", tmpl |-> "", row |-> NoTmpl]]
  /\ sync = [g \in Syncs |-> [pc |-> "idle", img |-> "", node |-> "", ok |-> FALSE]]
  /\ offered = "" /\ retired = {}

HasTmpl(t) == tmpls[t].status # "none"
HasImage(i) == images[i].status # "none"

\* Create and Update refuse a slug another template has.
SlugFree(t, slug) == \A u \in Tmpls \ {t} : HasTmpl(u) => tmpls[u].slug # slug

CreateTemplate(t, slug) ==
  /\ ~HasTmpl(t) /\ SlugFree(t, slug)
  /\ tmpls' = [tmpls EXCEPT ![t] = [status |-> "active", slug |-> slug]]
  /\ UNCHANGED <<images, avail, editor, sync, offered, retired>>

\* UpdateTemplate reads the row, and writes the whole of it back.
UpdateReads(e, t) ==
  /\ editor[e].pc = "idle" /\ HasTmpl(t)
  /\ editor' = [editor EXCEPT ![e] = [pc |-> "write", tmpl |-> t, row |-> tmpls[t]]]
  /\ UNCHANGED <<tmpls, images, avail, sync, offered, retired>>

UpdateTemplate(e, slug, status) ==
  /\ editor[e].pc = "write"
  /\ LET t == editor[e].tmpl
     IN  tmpls' = IF HasTmpl(t) /\ SlugFree(t, slug)
                  THEN [tmpls EXCEPT ![t] = [status |-> status, slug |-> slug]] ELSE tmpls
  /\ editor' = [editor EXCEPT ![e].pc = "done"]
  /\ UNCHANGED <<images, avail, sync, offered, retired>>

\* The images of a deleted template go with it in postgres, and so does
\* what is known of them on the nodes; in memory both stay.
DeleteTemplate(t) ==
  /\ HasTmpl(t)
  /\ tmpls' = [tmpls EXCEPT ![t] = NoTmpl]
  /\ LET gone == IF TableInMemory THEN {} ELSE {i \in Images : images[i].tmpl = t}
     IN  /\ images' = [i \in Images |-> IF i \in gone THEN NoImage ELSE images[i]]
         /\ avail' = [p \in DOMAIN avail |-> IF p[2] \in gone THEN "none" ELSE avail[p]]
         /\ retired' = retired \ gone
  /\ UNCHANGED <<editor, sync, offered>>

\* An image is registered as available, whether it was checked or not.
RegisterImage(i, t) ==
  /\ ~HasImage(i) /\ HasTmpl(t)
  /\ images' = [images EXCEPT ![i] = [status |-> "available", tmpl |-> t]]
  /\ UNCHANGED <<tmpls, avail, editor, sync, offered, retired>>

\* UpdateStatus of a row that is gone changes nothing.
UpdateStatus(i, status) == IF HasImage(i) THEN [images EXCEPT ![i].status = status] ELSE images

\* FindCompatible: the template's images that are available.
FindCompatible(t) == {i \in Images : images[i].tmpl = t /\ images[i].status = "available"}

FindCompatibleImage(t) ==
  /\ \/ \E i \in FindCompatible(t) : offered' = i
     \/ FindCompatible(t) = {} /\ offered' = ""
  /\ UNCHANGED <<tmpls, images, avail, editor, sync, retired>>

(***************************************************************************)
(* SyncImageToNode: the goroutine records the node as syncing, sends the   *)
(* command, and records the outcome of the node and of the image.          *)
(***************************************************************************)
SyncImageToNode(g, i, n) ==
  /\ sync[g].pc = "idle" /\ HasImage(i)
  /\ sync' = [sync EXCEPT ![g] = [pc |-> "record", img |-> i, node |-> n, ok |-> FALSE]]
  /\ UNCHANGED <<tmpls, images, avail, editor, offered, retired>>

\* RecordNodeAvailability: postgres refuses an image that is gone.
RecordNodeAvailability(g, status) ==
  IF TableInMemory \/ HasImage(sync[g].img)
  THEN [avail EXCEPT ![<<sync[g].node, sync[g].img>>] = status] ELSE avail

SyncRecords(g) ==
  /\ sync[g].pc = "record"
  /\ avail' = RecordNodeAvailability(g, "syncing")
  /\ sync' = [sync EXCEPT ![g].pc = "send"]
  /\ UNCHANGED <<tmpls, images, editor, offered, retired>>

\* The commands the gateway can send that concern images: it has no case for
\* sync_image, and answers "unsupported command type" (gateway.go:449).
GatewayCommands == {}

SyncSends(g) ==
  /\ sync[g].pc = "send"
  /\ \E ok \in IF "sync_image" \in GatewayCommands THEN BOOLEAN ELSE {FALSE} :
       sync' = [sync EXCEPT ![g].pc = "node", ![g].ok = ok]
  /\ UNCHANGED <<tmpls, images, avail, editor, offered, retired>>

\* Mutant: only a success is recorded for the node.
SyncNodeForgets(g) ==
  /\ sync[g].pc = "node"
  /\ avail' = IF sync[g].ok THEN RecordNodeAvailability(g, "available") ELSE avail
  /\ sync' = [sync EXCEPT ![g].pc = "status"]
  /\ UNCHANGED <<tmpls, images, editor, offered, retired>>

SyncNode(g) ==
  /\ sync[g].pc = "node"
  /\ avail' = RecordNodeAvailability(g, IF sync[g].ok THEN "available" ELSE "failed")
  /\ sync' = [sync EXCEPT ![g].pc = "status"]
  /\ UNCHANGED <<tmpls, images, editor, offered, retired>>

\* The image's own status is set from the outcome on one node.
SyncStatus(g) ==
  /\ sync[g].pc = "status"
  /\ images' = UpdateStatus(sync[g].img, IF sync[g].ok THEN "available" ELSE "sync_failed")
  /\ sync' = [sync EXCEPT ![g].pc = "idle"]
  /\ UNCHANGED <<tmpls, avail, editor, offered, retired>>

VerifyImage(i) ==
  /\ HasImage(i)
  /\ images' = IF i \in Sound THEN images ELSE UpdateStatus(i, "verification_failed")
  /\ UNCHANGED <<tmpls, avail, editor, sync, offered, retired>>

RetireImage(i) ==
  /\ HasImage(i)
  /\ images' = UpdateStatus(i, "retired")
  /\ retired' = retired \cup {i}
  /\ UNCHANGED <<tmpls, avail, editor, sync, offered>>

SyncSteps(g) == SyncRecords(g) \/ SyncSends(g) \/ SyncNode(g) \/ SyncStatus(g)

Next ==
  \/ \E t \in Tmpls :
       \/ DeleteTemplate(t) \/ FindCompatibleImage(t)
       \/ \E s \in Slugs : CreateTemplate(t, s)
       \/ \E e \in Editors : UpdateReads(e, t)
       \/ \E i \in Images : RegisterImage(i, t)
  \/ \E e \in Editors, s \in Slugs, status \in {"active", "deprecated"} : UpdateTemplate(e, s, status)
  \/ \E i \in Images : VerifyImage(i) \/ RetireImage(i)
  \/ \E g \in Syncs : SyncSteps(g) \/ \E i \in Images, n \in ImageNodes : SyncImageToNode(g, i, n)

Spec == Init /\ [][Next]_tmplVars

FairSpec == Spec /\ \A g \in Syncs : WF_tmplVars(SyncSteps(g))

(***************************************************************************)
(* Properties.                                                             *)
(***************************************************************************)
\* An image recorded as syncing on a node does not stay so: some goroutine
\* records the outcome (service.go:361-381, whose writes' errors are dropped).
SyncSettles == \A p \in ImageNodes \X Images : avail[p] = "syncing" ~> avail[p] # "syncing"

\* An image that is sound, and was never retired, stays on offer.  Does not
\* hold: its first synchronisation marks it sync_failed for every node.
SoundStaysOffered ==
  \A i \in Sound \ retired : HasImage(i) => images[i].status = "available"
==============================================================================
