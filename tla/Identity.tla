------------------------------ MODULE Identity ------------------------------
(***************************************************************************)
(* Accounts and sessions: Register, Login, VerifyTOTP, RefreshSession and  *)
(* Logout (internal/app/auth/service.go) and two-factor enrolment          *)
(* (internal/app/account/service.go) over the identity repositories.       *)
(*                                                                         *)
(* A call reads its rows, and writes in later steps from what it read.     *)
(* A session is numbered in the order of creation, a family by the first   *)
(* session in it.  Passwords and codes are right or wrong; only a right    *)
(* one changes state, so only that one is a step.                          *)
(***************************************************************************)
EXTENDS Naturals, Sequences, FiniteSets

CONSTANTS
  Users,        \* user names, each registered at most once
  Servers,      \* server processes on one database
  Calls,        \* concurrent requests
  Secrets,      \* TOTP secrets
  MaxSessions   \* sessions created

VARIABLES
  account,   \* the users table, with the roles granted
  lock,      \* Service.mu of each server: the call that holds it
  sessions,  \* the refresh_sessions table
  calls,     \* the requests under way
  slack,     \* history: per family, overlapping or unrevoked exchanges
  uncounted  \* history: users in whose registration Count failed

idVars == <<account, lock, sessions, calls, slack, uncounted>>

NoUser == [known |-> FALSE, roles |-> {}, twofa |-> FALSE, secret |-> ""]

NoCall == [pc |-> "idle", op |-> "", user |-> "", server |-> "", first |-> FALSE,
           secret |-> "", session |-> 0]

Init ==
  /\ account = [u \in Users |-> NoUser]
  /\ lock = [s \in Servers |-> ""]
  /\ sessions = <<>> /\ slack = [f \in 1 .. MaxSessions |-> 0] /\ uncounted = {}
  /\ calls = [c \in Calls |-> NoCall]

Known(u) == account[u].known

Finish(c) == calls' = [calls EXCEPT ![c] = NoCall]

(***************************************************************************)
(* Register: count, create and grant under the server's mutex.             *)
(***************************************************************************)
\* Mutant: the count is read before the mutex is taken.
RegisterCountUnlocked(c, s, u) ==
  /\ calls[c].pc = "idle"
  /\ calls' = [calls EXCEPT ![c] = [NoCall EXCEPT !.pc = "counted", !.op = "register",
       !.user = u, !.server = s, !.first = \A v \in Users : ~Known(v)]]
  /\ UNCHANGED <<account, lock, sessions, slack, uncounted>>

\* Lock and Count.  A Count that fails returns 0 users with its error, which
\* nobody looks at.
RegisterCount(c, s, u) ==
  /\ calls[c].pc = "idle" /\ lock[s] = ""
  /\ lock' = [lock EXCEPT ![s] = c]
  /\ \E fails \in BOOLEAN :
       /\ calls' = [calls EXCEPT ![c] = [NoCall EXCEPT !.pc = "counted", !.op = "register",
            !.user = u, !.server = s, !.first = fails \/ \A v \in Users : ~Known(v)]]
       /\ uncounted' = IF fails THEN uncounted \cup {u} ELSE uncounted
  /\ UNCHANGED <<account, sessions, slack>>

\* Create of either repository refuses a name that is taken.
RegisterCreate(c) ==
  LET u == calls[c].user IN
  /\ calls[c].pc = "counted"
  /\ IF Known(u)
     THEN Finish(c) /\ lock' = [lock EXCEPT ![calls[c].server] = ""] /\ UNCHANGED account
     ELSE /\ account' = [account EXCEPT ![u].known = TRUE]
          /\ calls' = [calls EXCEPT ![c].pc = "granting"]
          /\ UNCHANGED lock
  /\ UNCHANGED <<sessions, slack, uncounted>>

\* A role that is not found, or not granted, leaves the user without one.
RegisterGrant(c) ==
  /\ calls[c].pc = "granting"
  /\ \E r \in {{}, {IF calls[c].first THEN "superadmin" ELSE "customer"}} :
       account' = [account EXCEPT ![calls[c].user].roles = r]
  /\ lock' = [lock EXCEPT ![calls[c].server] = ""]
  /\ Finish(c)
  /\ UNCHANGED <<sessions, slack, uncounted>>

(***************************************************************************)
(* Login and VerifyTOTP.                                                   *)
(***************************************************************************)
\* issueTokensAndRecordSession.
NewSession(u, f) == Append(sessions, [user |-> u, fam |-> f, revoked |-> FALSE])

\* The row is read once: a user without a second factor gets a session, the
\* others a challenge, an access token with the role 2fa_challenge.
Login(c, u) ==
  /\ calls[c].pc = "idle" /\ Known(u)
  /\ calls' = [calls EXCEPT ![c] = [NoCall EXCEPT !.user = u, !.op = "login",
       !.pc = IF account[u].twofa THEN "challenged" ELSE "issuing"]]
  /\ UNCHANGED <<account, lock, sessions, slack, uncounted>>

\* The second factor is checked against the secret the row has by now.
VerifyTOTP(c) ==
  /\ calls[c].pc = "challenged"
  /\ IF account[calls[c].user].twofa
     THEN calls' = [calls EXCEPT ![c].pc = "issuing"] ELSE Finish(c)
  /\ UNCHANGED <<account, lock, sessions, slack, uncounted>>

IssueTokens(c) ==
  /\ calls[c].pc = "issuing" /\ Len(sessions) < MaxSessions
  /\ sessions' = NewSession(calls[c].user, Len(sessions) + 1)
  /\ Finish(c)
  /\ UNCHANGED <<account, lock, slack, uncounted>>

(***************************************************************************)
(* RefreshSession and Logout.                                              *)
(***************************************************************************)
Fam(n) == sessions[n].fam

\* Other exchanges of session n that have read it and not revoked it yet.
Exchanging(n) ==
  {c \in Calls : calls[c].op = "refresh" /\ calls[c].session = n /\ calls[c].pc # "reused"}

\* GetByTokenHash: a revoked token is taken for a stolen one.
RefreshRead(c, n) ==
  /\ calls[c].pc = "idle" /\ n \in DOMAIN sessions
  /\ calls' = [calls EXCEPT ![c] = [NoCall EXCEPT !.op = "refresh", !.session = n,
       !.user = sessions[n].user, !.pc = IF sessions[n].revoked THEN "reused" ELSE "rotating"]]
  /\ slack' = IF ~sessions[n].revoked /\ Exchanging(n) # {}
              THEN [slack EXCEPT ![Fam(n)] = @ + 1] ELSE slack
  /\ UNCHANGED <<account, lock, sessions, uncounted>>

RevokeFamily(c) ==
  /\ calls[c].pc = "reused"
  /\ sessions' = [k \in DOMAIN sessions |->
       [sessions[k] EXCEPT !.revoked = @ \/ sessions[k].fam = Fam(calls[c].session)]]
  /\ Finish(c)
  /\ UNCHANGED <<account, lock, slack, uncounted>>

\* The new session is stored before the old one is revoked.
RefreshCreate(c) ==
  /\ calls[c].pc = "rotating" /\ Len(sessions) < MaxSessions
  /\ sessions' = NewSession(calls[c].user, Fam(calls[c].session))
  /\ calls' = [calls EXCEPT ![c].pc = "revoking"]
  /\ UNCHANGED <<account, lock, slack, uncounted>>

\* The write of Revoke; its failure is ignored.
Revoked(c) == [sessions EXCEPT ![calls[c].session].revoked = TRUE]

\* Mutant: the session created last is revoked instead of the one exchanged.
RefreshRevokeWrong(c) ==
  /\ calls[c].pc = "revoking"
  /\ sessions' = [sessions EXCEPT ![Fam(calls[c].session)].revoked = TRUE]
  /\ Finish(c)
  /\ UNCHANGED <<account, lock, slack, uncounted>>

RefreshRevoke(c) ==
  /\ calls[c].pc = "revoking"
  /\ sessions' = Revoked(c)
  /\ Finish(c)
  /\ UNCHANGED <<account, lock, slack, uncounted>>

RefreshRevokeFails(c) ==
  /\ calls[c].pc = "revoking"
  /\ slack' = [slack EXCEPT ![Fam(calls[c].session)] = @ + 1]
  /\ Finish(c)
  /\ UNCHANGED <<account, lock, sessions, uncounted>>

Logout(n) ==
  /\ n \in DOMAIN sessions
  /\ sessions' = [sessions EXCEPT ![n].revoked = TRUE]
  /\ UNCHANGED <<account, lock, calls, slack, uncounted>>

(***************************************************************************)
(* Two-factor enrolment.  Setup2FA hands a secret to the client and stores *)
(* nothing; Update2FA writes the flag and the secret together.             *)
(***************************************************************************)
Enable2FARead(c, u, secret) ==
  /\ calls[c].pc = "idle" /\ Known(u) /\ ~account[u].twofa
  /\ calls' = [calls EXCEPT ![c] = [NoCall EXCEPT !.op = "enable", !.pc = "writing",
       !.user = u, !.secret = secret]]
  /\ UNCHANGED <<account, lock, sessions, slack, uncounted>>

Disable2FARead(c, u) ==
  /\ calls[c].pc = "idle" /\ account[u].twofa
  /\ calls' = [calls EXCEPT ![c] = [NoCall EXCEPT !.op = "disable", !.pc = "writing", !.user = u]]
  /\ UNCHANGED <<account, lock, sessions, slack, uncounted>>

\* Mutant: clearing the secret and the flag are separate decisions.
Update2FAKeepsFlag(u, on, secret) == [account EXCEPT ![u].twofa = @ \/ on, ![u].secret = secret]

Update2FA(u, on, secret) == [account EXCEPT ![u].twofa = on, ![u].secret = secret]

Write2FA(c) ==
  /\ calls[c].pc = "writing"
  /\ account' = Update2FA(calls[c].user, calls[c].op = "enable", calls[c].secret)
  /\ Finish(c)
  /\ UNCHANGED <<lock, sessions, slack, uncounted>>

Next ==
  \/ \E c \in Calls :
       \/ \E s \in Servers, u \in Users : RegisterCount(c, s, u)
       \/ RegisterCreate(c) \/ RegisterGrant(c)
       \/ \E u \in Users : Login(c, u) \/ Disable2FARead(c, u)
       \/ \E u \in Users, x \in Secrets : Enable2FARead(c, u, x)
       \/ VerifyTOTP(c) \/ IssueTokens(c) \/ Write2FA(c)
       \/ \E n \in 1 .. MaxSessions : RefreshRead(c, n)
       \/ RevokeFamily(c) \/ RefreshCreate(c) \/ RefreshRevoke(c) \/ RefreshRevokeFails(c)
  \/ \E n \in 1 .. MaxSessions : Logout(n)

Spec == Init /\ [][Next]_idVars

-----------------------------------------------------------------------------
\* Register makes the first user a superadmin and no other, whatever
\* registrations run side by side on the server: the count, the creation and
\* the grant are one critical section.  (Two servers would have two of them.)
\* Every other superadmin registered while the count could not be read.
OneSuperadmin ==
  Cardinality({u \in Users \ uncounted : "superadmin" \in account[u].roles}) <= 1

\* Rotation keeps a family at one usable session: a family has more of them only
\* while an exchange is between its two writes, by one for each exchange that
\* overlapped another of the same token, and for each revocation that failed.
RotationBound ==
  \A f \in 1 .. MaxSessions :
    Cardinality({n \in DOMAIN sessions : Fam(n) = f /\ ~sessions[n].revoked})
      <= 1 + slack[f]
           + Cardinality({c \in Calls : calls[c].pc = "revoking" /\ Fam(calls[c].session) = f})

\* A second factor that is on has the secret of an enrolment that was confirmed:
\* enrolments and removals that read the row at the same time leave no account
\* that can be challenged and not answered.
ChallengeAnswerable == \A u \in Users : account[u].twofa <=> account[u].secret \in Secrets

\* "refresh token rotation": a token is exchanged for one new session.
\* Does not hold: two overlapping exchanges both read a live session.
ExchangedOnce == \A f \in 1 .. MaxSessions : slack[f] = 0
=============================================================================
