---------------------------- MODULE Notifications ----------------------------
(***************************************************************************)
(* In-app notifications (internal/app/notification/service.go), their      *)
(* tables and the mail that goes with them.  HandleEvent is called by the  *)
(* workers of the event bus: it reads the preference, then writes.         *)
(***************************************************************************)
EXTENDS Naturals, FiniteSets

CONSTANTS
  Notices,       \* events that reach the handler, one notification each
  OwnerOf,       \* the tenant of each event, who is also the user notified
  Readers,       \* users
  TableInMemory  \* the tables are the in-memory ones

VARIABLES
  pref,     \* preferences of the users: [inApp, email]
  notices,  \* the notifications table: "none", "unread" or "read"
  handling, \* [Notices -> [pc, pref]], the handler's calls
  mails,    \* events a mail was sent for
  confirmed \* [Readers -> notifications the calls of a user said were read]

noteVars == <<pref, notices, handling, mails, confirmed>>

Prefs == [inApp : BOOLEAN, email : BOOLEAN]
\* GetPreference: a user without one has every channel on.
DefaultPref == [inApp |-> TRUE, email |-> TRUE]

Init ==
  /\ pref = [u \in Readers |-> DefaultPref]
  /\ notices = [n \in Notices |-> "none"]
  /\ handling = [n \in Notices |-> [pc |-> "idle", pref |-> DefaultPref]]
  /\ mails = {} /\ confirmed = [u \in Readers |-> 0]

HandleReads(n) ==
  /\ handling[n].pc = "idle"
  /\ handling' = [handling EXCEPT ![n] = [pc |-> "create", pref |-> pref[OwnerOf[n]]]]
  /\ UNCHANGED <<pref, notices, mails, confirmed>>

\* The error of the write is dropped.
HandleCreates(n, stored) ==
  /\ handling[n].pc = "create"
  /\ notices' = IF handling[n].pref.inApp /\ stored THEN [notices EXCEPT ![n] = "unread"] ELSE notices
  /\ handling' = [handling EXCEPT ![n].pc = "mail"]
  /\ UNCHANGED <<pref, mails, confirmed>>

HandleEvent(n, sent) ==
  /\ handling[n].pc = "mail"
  /\ mails' = IF handling[n].pref.email /\ sent THEN mails \cup {n} ELSE mails
  /\ handling' = [handling EXCEPT ![n].pc = "done"]
  /\ UNCHANGED <<pref, notices, confirmed>>

SetPreference(u, p) ==
  /\ pref' = [pref EXCEPT ![u] = p]
  /\ UNCHANGED <<notices, handling, mails, confirmed>>

\* Mutant: the row is not tested for being unread.
SqlMarkableAny(u, n) == notices[n] # "none" /\ OwnerOf[n] = u

\* MarkAsRead in postgres finds the user's unread rows alone, and in memory
\* the read ones as well.
SqlMarkable(u, n) == notices[n] = "unread" /\ OwnerOf[n] = u

MemMarkable(u, n) == notices[n] # "none" /\ OwnerOf[n] = u

MarkAsRead(u, n) ==
  /\ IF TableInMemory THEN MemMarkable(u, n) ELSE SqlMarkable(u, n)
  /\ confirmed[u] < Cardinality(Notices) + 1
  /\ notices' = [notices EXCEPT ![n] = "read"]
  /\ confirmed' = [confirmed EXCEPT ![u] = @ + 1]
  /\ UNCHANGED <<pref, handling, mails>>

Unread(u) == {n \in Notices : OwnerOf[n] = u /\ notices[n] = "unread"}

MarkAllAsRead(u) ==
  /\ Unread(u) # {}
  /\ notices' = [n \in Notices |-> IF n \in Unread(u) THEN "read" ELSE notices[n]]
  /\ confirmed' = [confirmed EXCEPT ![u] = @ + Cardinality(Unread(u))]
  /\ UNCHANGED <<pref, handling, mails>>

Next ==
  \/ \E n \in Notices :
       \/ HandleReads(n)
       \/ \E b \in BOOLEAN : HandleCreates(n, b) \/ HandleEvent(n, b)
  \/ \E u \in Readers :
       \/ MarkAllAsRead(u)
       \/ \E p \in Prefs : SetPreference(u, p)
       \/ \E n \in Notices : MarkAsRead(u, n)

Spec == Init /\ [][Next]_noteVars

\* What the calls of a user say they marked as read, one by one or all at
\* once, adds up to the notifications that are read (notification_repo.go:
\* 121-148 in postgres; in memory MarkAsRead counts one again).
ReadsAddUp ==
  ~TableInMemory =>
    \A u \in Readers : confirmed[u] = Cardinality({n \in Notices : OwnerOf[n] = u /\ notices[n] = "read"})
==============================================================================
