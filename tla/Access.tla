------------------------------- MODULE Access -------------------------------
(***************************************************************************)
(* Who may do what: API keys (internal/app/apikeys/service.go), access     *)
(* tokens (internal/infra/jwt/jwt.go), the middlewares that routes are     *)
(* behind (internal/transport/http/middleware.go), the authorizer          *)
(* (internal/app/authz/authorizer.go) and the role and key tables.         *)
(*                                                                         *)
(* A request reads the key's row, the user and the permissions in separate *)
(* calls, starts a goroutine that stamps last_used_at, and is authorized   *)
(* from what it read; the routes that manage keys and second factors ask   *)
(* for no permission.  Roles are assigned when a user registers and no     *)
(* operation changes them later, so they are a constant here.              *)
(***************************************************************************)
EXTENDS Naturals, FiniteSets

CONSTANTS
  ApiKeys,   \* key ids
  KeyUser,   \* key -> the user that creates it
  RolesOf,   \* user -> role names
  PermsOf,   \* role -> the permission codes of role_permissions
  Wanted,    \* permission codes that routes require
  ScopeSets, \* scope lists a key may be created with; {} is no constraint
  Requests,  \* request ids
  InMemory   \* the identity store: memory or PostgreSQL

VARIABLES
  keyRow,    \* key -> its row
  reqs,      \* request -> where it stands, what it read, what it asks for
  touches,   \* rows the last-used goroutines hold
  revoked    \* history: keys whose revocation was answered

accessVars == <<keyRow, reqs, touches, revoked>>

\* What a route behind the authentication only asks for.
Open == ""

NoSubject == [user |-> "", roles |-> {}, perms |-> {}, scopes |-> {}]
NoRow == [state |-> "none", expired |-> FALSE, scopes |-> {}]
Idle == [pc |-> "idle", key |-> "", row |-> NoRow, wants |-> Open, subject |-> NoSubject,
         late |-> FALSE]

Init ==
  /\ keyRow = [k \in ApiKeys |-> NoRow]
  /\ reqs = [r \in Requests |-> Idle]
  /\ touches = {} /\ revoked = {}

(***************************************************************************)
(* The key table.  Memory keeps a revoked row; SQL deletes it.             *)
(***************************************************************************)
\* A request to manage the keys of its subject, and what is left of it.
Manages(r, k) ==
  reqs[r].pc = "admitted" /\ reqs[r].wants = Open /\ reqs[r].subject.user = KeyUser[k]
Answered(r) == reqs' = [reqs EXCEPT ![r] = Idle]

\* The scopes are the ones asked for, whatever the scopes of the caller's key.
CreateAPIKey(r, k, scopes) ==
  /\ Manages(r, k) /\ Answered(r)
  /\ keyRow[k].state = "none" /\ k \notin revoked
  /\ keyRow' = [keyRow EXCEPT ![k] = [NoRow EXCEPT !.state = "live", !.scopes = scopes]]
  /\ UNCHANGED <<touches, revoked>>

MemRevoke(row) == [row EXCEPT !.state = "revoked"]
SqlRevoke(row) == NoRow
Revoke(row) == IF InMemory THEN MemRevoke(row) ELSE SqlRevoke(row)

\* The row must exist and be the caller's.
RevokeAPIKey(r, k) ==
  /\ Manages(r, k) /\ Answered(r)
  /\ keyRow[k].state # "none"
  /\ keyRow' = [keyRow EXCEPT ![k] = Revoke(@)]
  /\ revoked' = revoked \cup {k}
  /\ UNCHANGED touches

ExpireKey(k) ==
  /\ keyRow[k].state = "live" /\ ~keyRow[k].expired
  /\ keyRow' = [keyRow EXCEPT ![k].expired = TRUE]
  /\ UNCHANGED <<reqs, touches, revoked>>

\* Mutant: the goroutine saves the whole row it was given.
TouchWhole(t) == [keyRow EXCEPT ![t.key] = t.row]

\* UpdateLastUsed sets one column of the row, if there still is one.
Touch(t) == keyRow
UpdateLastUsed(t) ==
  /\ t \in touches /\ touches' = touches \ {t}
  /\ keyRow' = Touch(t) /\ UNCHANGED <<reqs, revoked>>

(***************************************************************************)
(* Authentication.                                                         *)
(***************************************************************************)
IsValid(row) == row.state = "live" /\ ~row.expired

\* GetUserPermissions: memory short-cuts superadmin to the wildcard.
MemUserPermissions(u) ==
  IF "superadmin" \in RolesOf[u] THEN {"*"} ELSE UNION {PermsOf[x] : x \in RolesOf[u]}
SqlUserPermissions(u) == UNION {PermsOf[x] : x \in RolesOf[u]}
GetUserPermissions(u) == IF InMemory THEN MemUserPermissions(u) ELSE SqlUserPermissions(u)

\* AuthenticateAPIKey, first call: the row with the key's hash.
LookupKey(r, k, p) ==
  /\ reqs[r].pc = "idle"
  /\ reqs' = [reqs EXCEPT ![r] = [Idle EXCEPT !.pc = IF IsValid(keyRow[k]) THEN "key" ELSE "denied",
                !.key = k, !.row = keyRow[k], !.wants = p, !.late = k \in revoked]]
  /\ UNCHANGED <<keyRow, touches, revoked>>

\* Mutant: the key acts with its user's roles.
KeySubjectWithRoles(u, scopes) ==
  [user |-> u, roles |-> RolesOf[u], perms |-> GetUserPermissions(u), scopes |-> scopes]
\* A key's subject carries the user's permissions and no roles.
KeySubject(u, scopes) ==
  [user |-> u, roles |-> {}, perms |-> GetUserPermissions(u), scopes |-> scopes]

\* The later calls, and the goroutine.
ResolveKey(r) ==
  /\ reqs[r].pc = "key"
  /\ reqs' = [reqs EXCEPT ![r].pc = "subject",
                ![r].subject = KeySubject(KeyUser[reqs[r].key], reqs[r].row.scopes)]
  /\ touches' = touches \cup {[key |-> reqs[r].key, row |-> reqs[r].row]}
  /\ UNCHANGED <<keyRow, revoked>>

\* ValidateAccessToken: the claims are what login put into the token.
ValidateAccessToken(r, u, p) ==
  /\ reqs[r].pc = "idle"
  /\ reqs' = [reqs EXCEPT ![r] = [Idle EXCEPT !.pc = "subject", !.wants = p,
                !.subject = [user |-> u, roles |-> RolesOf[u],
                             perms |-> GetUserPermissions(u), scopes |-> {}]]]
  /\ UNCHANGED <<keyRow, touches, revoked>>

(***************************************************************************)
(* Authorization.                                                          *)
(***************************************************************************)
Covers(codes, p) == p \in codes \/ "*" \in codes
InScope(s, p) == s.scopes = {} \/ Covers(s.scopes, p)

HasPermission(s, p) == "superadmin" \in s.roles \/ (Covers(s.perms, p) /\ InScope(s, p))
Authorize(s, p) == "superadmin" \in s.roles \/ (HasPermission(s, p) /\ InScope(s, p))

\* The handler of a route without RequirePermission runs at once.
NoPermissionAsked(r) ==
  /\ reqs[r].pc = "subject" /\ reqs[r].wants = Open
  /\ reqs' = [reqs EXCEPT ![r].pc = "admitted"]
  /\ UNCHANGED <<keyRow, touches, revoked>>

RequirePermission(r) ==
  /\ reqs[r].pc = "subject" /\ reqs[r].wants # Open
  /\ reqs' = [reqs EXCEPT ![r].pc =
                IF Authorize(reqs[r].subject, reqs[r].wants) THEN "admitted" ELSE "denied"]
  /\ UNCHANGED <<keyRow, touches, revoked>>

KeyUsers == {KeyUser[k] : k \in ApiKeys}

Next ==
  \/ \E k \in ApiKeys : ExpireKey(k)
  \/ \E t \in touches : UpdateLastUsed(t)
  \/ \E r \in Requests :
       \/ ResolveKey(r) \/ NoPermissionAsked(r) \/ RequirePermission(r)
       \/ \E k \in ApiKeys : RevokeAPIKey(r, k) \/ \E s \in ScopeSets : CreateAPIKey(r, k, s)
       \/ \E p \in Wanted \cup {Open} : \/ \E k \in ApiKeys : LookupKey(r, k, p)
                                     \/ \E u \in KeyUsers : ValidateAccessToken(r, u, p)

Spec == Init /\ [][Next]_accessVars

-----------------------------------------------------------------------------

\* A key whose revocation was answered admits no request that begins later, even
\* while goroutines of earlier requests still write to its row.
RevokedIsFinal == \A r \in Requests : reqs[r].pc = "admitted" => ~reqs[r].late

\* Where a permission is asked for, a key does no more than it was made for: what
\* a request with a key was admitted for is in the key's scopes and in its user's
\* permissions, also when the user is the superadmin, whose own requests skip
\* both checks.
KeyStaysInScope ==
  \A r \in Requests : reqs[r].pc = "admitted" /\ reqs[r].key # "" /\ reqs[r].wants # Open =>
    /\ reqs[r].row.scopes = {} \/ Covers(reqs[r].row.scopes, reqs[r].wants)
    /\ Covers(GetUserPermissions(KeyUser[reqs[r].key]), reqs[r].wants)

\* A key made with a key is scoped within it.  Does not hold: the route asks for no
\* permission, and CreateAPIKey takes the scopes it is given.
MintsInScope ==
  [][\A r \in Requests, k \in ApiKeys, s \in ScopeSets :
       CreateAPIKey(r, k, s) /\ reqs[r].row.scopes # {} => s # {} /\ s \subseteq reqs[r].row.scopes]_accessVars

\* The key list shows "all active and revoked API keys" (apikeys/service.go:110).
\* It does not hold in PostgreSQL, which deletes the row.
RevokedIsListed == \A k \in revoked : keyRow[k].state = "revoked"
=============================================================================
