----------------------------- MODULE Enrollment -----------------------------
(***************************************************************************)
(* How a host becomes a node: the one-time enrollment token                *)
(* (internal/app/node/service.go), the certificate authority               *)
(* (internal/infra/pki/ca.go) and how the server loads or makes it at boot *)
(* (cmd/aurora-server/main.go), the agent's EnsureEnrolled                 *)
(* (internal/app/agent/client.go) and the three files of its key store     *)
(* (internal/infra/keystore/keystore.go).                                  *)
(*                                                                         *)
(* Keys and authorities are numbered as they are generated; a node id is   *)
(* fresh with each request, as the key is, so they share a number.  A      *)
(* certificate is the authority that signed it, the node id and the public *)
(* key.  The server and the agents may die at any step; the agent's        *)
(* request ends with its connection or after ten seconds, and then the     *)
(* server may still finish what it began or find its context cancelled.    *)
(* A file is absent (0), empty (1), since os.WriteFile truncates it before *)
(* it writes, or whole: a process that dies in between leaves it empty.    *)
(***************************************************************************)
EXTENDS Naturals, FiniteSets

CONSTANTS
  Hosts,         \* agents, each with its own FQDN
  Tokens,        \* enrollment secrets
  TokenOf,       \* the tokens a host was configured with
  InMemory,      \* the node store: memory or PostgreSQL
  WriteFaults,   \* whether a write of the authority's files may fail
  MaxKeys,       \* bound on the keys hosts generate and anything still holds
  MaxBoots       \* bound on the server's boots

VARIABLES
  authority, \* the server's CA in memory and its two files; boots counts them
  secret,    \* token -> its row
  nodeRows,  \* the nodes table
  request,   \* key -> the handler that serves the request with it
  disk,      \* host -> node.key, ca.crt and node.crt
  agent,     \* host -> the agent process
  lapsed,    \* ids of the certificates whose ninety days are over
  barred     \* ids of the nodes whose row is revoked

enrollVars == <<authority, secret, nodeRows, request, disk, agent, lapsed, barred>>

\* The content of a file that was truncated and never written.
Empty == 1
EmptyCert == [ca |-> Empty, id |-> Empty, key |-> Empty]

HostKeys == 2..MaxKeys + 1
NoCert == [ca |-> 0, id |-> 0, key |-> 0]
NoRequest == [pc |-> "none", host |-> "", token |-> "", cert |-> NoCert]
Down == [pc |-> "down", token |-> "", cert |-> NoCert, caPem |-> 0]

Init ==
  /\ authority = [up |-> "down", ca |-> 0, crt |-> 0, key |-> 0, boots |-> 0]
  /\ secret = [t \in Tokens |-> [made |-> FALSE, expired |-> FALSE, usedBy |-> 0]]
  /\ nodeRows = {}
  /\ request = [k \in HostKeys |-> NoRequest]
  /\ disk = [h \in Hosts |-> [key |-> 0, ca |-> 0, crt |-> NoCert]]
  /\ agent = [h \in Hosts |-> Down]
  /\ lapsed = {} /\ barred = {}

\* What none but the last two actions change.
fates == <<lapsed, barred>>

\* A fresh number, of those no file, row or request still holds.
FreshKeys == {k \in HostKeys : /\ request[k].pc = "none" /\ \A r \in nodeRows : r.cert.key # k
                           /\ \A h \in Hosts : disk[h].key # k}
Fresh == CHOOSE k \in FreshKeys : TRUE

(***************************************************************************)
(* The server's boot.  Both files readable: the authority is loaded, from  *)
(* whatever they hold; when one is empty, NewInternalCA makes a new one,   *)
(* which is not stored.  Otherwise a new one is made, and written file by  *)
(* file; the errors of the two writes are dropped.                         *)
(***************************************************************************)
Written(file, value) == {value} \cup (IF WriteFaults THEN {file, Empty} ELSE {})
NewCA == authority.boots + 2

loadExistingCA ==
  /\ authority.up = "down" /\ authority.crt # 0 /\ authority.key # 0
  /\ authority.boots < MaxBoots
  /\ authority' = [authority EXCEPT !.up = "up", !.boots = @ + 1,
                     !.ca = IF Empty \in {authority.crt, authority.key} THEN NewCA
                            ELSE IF authority.crt = authority.key THEN authority.crt ELSE 0]
  /\ UNCHANGED <<secret, nodeRows, request, disk, agent, fates>>

generateNewCA ==
  /\ authority.up = "down" /\ (authority.crt = 0 \/ authority.key = 0)
  /\ authority.boots < MaxBoots
  /\ \E c \in Written(authority.crt, NewCA) :
       authority' = [authority EXCEPT !.up = "boot", !.ca = NewCA, !.boots = @ + 1, !.crt = c]
  /\ UNCHANGED <<secret, nodeRows, request, disk, agent, fates>>

\* Mutant: the server keeps the key it generated in memory only.
WriteCAKeyNever ==
  /\ authority.up = "boot" /\ authority' = [authority EXCEPT !.up = "up"]
  /\ UNCHANGED <<secret, nodeRows, request, disk, agent, fates>>

WriteCAKey ==
  /\ authority.up = "boot"
  /\ \E k \in Written(authority.key, authority.ca) :
       authority' = [authority EXCEPT !.up = "up", !.key = k]
  /\ UNCHANGED <<secret, nodeRows, request, disk, agent, fates>>

\* The server dies within the write of one of its two files.
BootCutShort ==
  /\ \/ /\ authority.up = "down" /\ (authority.crt = 0 \/ authority.key = 0)
        /\ authority' = [authority EXCEPT !.crt = Empty]
     \/ authority.up = "boot" /\ authority' = [authority EXCEPT !.up = "down", !.ca = 0, !.key = Empty]
  /\ UNCHANGED <<secret, nodeRows, request, disk, agent, fates>>

\* The handlers die with the server; an agent that waits gets an error.  The
\* in-memory store dies too, so it is checked without this action.
ServerDies ==
  /\ authority.up # "down" /\ ~InMemory
  /\ authority' = [authority EXCEPT !.up = "down", !.ca = 0]
  /\ request' = [k \in HostKeys |-> NoRequest]
  /\ agent' = [h \in Hosts |-> IF agent[h].pc = "wait" THEN Down ELSE agent[h]]
  /\ UNCHANGED <<secret, nodeRows, disk, fates>>

(***************************************************************************)
(* Tokens.                                                                 *)
(***************************************************************************)
CreateEnrollmentToken(t) ==
  /\ authority.up = "up" /\ ~secret[t].made
  /\ secret' = [secret EXCEPT ![t].made = TRUE]
  /\ UNCHANGED <<authority, nodeRows, request, disk, agent, fates>>

Expire(t) ==
  /\ secret[t].made /\ ~secret[t].expired
  /\ secret' = [secret EXCEPT ![t].expired = TRUE]
  /\ UNCHANGED <<authority, nodeRows, request, disk, agent, fates>>

GetBySecretHash(t) == secret[t].made
IsValid(t) == secret[t].usedBy = 0 /\ ~secret[t].expired

(***************************************************************************)
(* EnrollNode on the server: read the token, sign, create the node's row,  *)
(* mark the token used, answer.  Each repository call is a step.           *)
(***************************************************************************)
At(k, pc) == authority.up = "up" /\ request[k].pc = pc
Refuse(k) == request' = [request EXCEPT ![k].pc = "refused"]

CheckToken(k) ==
  /\ At(k, "got")
  /\ IF GetBySecretHash(request[k].token) /\ IsValid(request[k].token)
       THEN request' = [request EXCEPT ![k].pc = "sign"]
       ELSE Refuse(k)
  /\ UNCHANGED <<authority, secret, nodeRows, disk, agent, fates>>

SignNodeCSR(key) == [ca |-> authority.ca, id |-> key, key |-> key]

\* nodes.fqdn and nodes.name are unique; the memory store looks at the FQDN.
MemCreateNode(h) == \A r \in nodeRows : r.host # h
SqlCreateNode(h) == \A r \in nodeRows : r.host # h
NodeInsertable(h) == IF InMemory THEN MemCreateNode(h) ELSE SqlCreateNode(h)

SignAndCreate(k) ==
  /\ At(k, "sign")
  /\ LET cert == SignNodeCSR(k)
         h    == request[k].host
     IN IF authority.ca # 0 /\ NodeInsertable(h)
          THEN /\ nodeRows' = nodeRows \cup {[host |-> h, cert |-> cert]}
               /\ request' = [request EXCEPT ![k].pc = "mark", ![k].cert = cert]
          ELSE UNCHANGED nodeRows /\ Refuse(k)
  /\ UNCHANGED <<authority, secret, disk, agent, fates>>

\* Mutant: the update names the token only by its id.
MarkUsedAlways(t) == secret[t].made

\* The update takes effect only while used_at is unset.
SqlMarkUsed(t) == secret[t].usedBy = 0
MemMarkUsed(t) == secret[t].made /\ secret[t].usedBy = 0
Markable(t) == IF InMemory THEN MemMarkUsed(t) ELSE SqlMarkUsed(t)

MarkUsed(k) ==
  /\ At(k, "mark")
  /\ LET t == request[k].token IN
       IF Markable(t)
         THEN /\ secret' = [secret EXCEPT ![t].usedBy = request[k].cert.id]
              /\ request' = [request EXCEPT ![k].pc = "signed"]
         ELSE UNCHANGED secret /\ Refuse(k)
  /\ UNCHANGED <<authority, nodeRows, disk, agent, fates>>

\* The agent waits for the answer to the request it made with this key.
Heard(k) == \E h \in Hosts : agent[h].pc = "wait" /\ disk[h].key = k

\* The agent hung up: the request's context is cancelled and a step fails.
Cancelled(k) ==
  /\ request[k].pc \notin {"none", "refused", "signed"} /\ ~Heard(k)
  /\ Refuse(k) /\ UNCHANGED <<authority, secret, nodeRows, disk, agent, fates>>

\* The answer reaches the agent that still waits for it, or nobody.
AnswerEnroll(k) ==
  /\ At(k, "signed") \/ At(k, "refused")
  /\ request' = [request EXCEPT ![k] = NoRequest]
  /\ agent' = [agent EXCEPT ![request[k].host] =
       IF ~Heard(k) THEN @
       ELSE IF request[k].pc = "refused" THEN Down
       ELSE [@ EXCEPT !.pc = "ca", !.cert = request[k].cert, !.caPem = authority.ca]]
  /\ UNCHANGED <<authority, secret, nodeRows, disk, fates>>

(***************************************************************************)
(* The agent.  Run returns EnsureEnrolled's error and the process ends;    *)
(* its supervisor starts it again, perhaps with another token.             *)
(***************************************************************************)
HasCertificates(h) == disk[h].key # 0 /\ disk[h].ca # 0 /\ disk[h].crt # NoCert

\* GenerateKeyAndCSR writes the new key over the old before anything is sent.
GenerateKeyAndCSR(h, t) ==
  /\ FreshKeys # {} /\ disk' = [disk EXCEPT ![h].key = Fresh]
  /\ agent' = [agent EXCEPT ![h] = [Down EXCEPT !.pc = "send", !.token = t]]

\* Mutant: the key is generated before the files are looked at.
EnsureEnrolledLate(h, t) ==
  /\ agent[h].pc = "down" /\ t \in TokenOf[h]
  /\ IF disk[h].crt # NoCert
       THEN /\ FreshKeys # {} /\ disk' = [disk EXCEPT ![h].key = Fresh]
            /\ agent' = [agent EXCEPT ![h].pc = "run"]
       ELSE GenerateKeyAndCSR(h, t)
  /\ UNCHANGED <<authority, secret, nodeRows, request, fates>>

EnsureEnrolled(h, t) ==
  /\ agent[h].pc = "down" /\ t \in TokenOf[h]
  /\ IF HasCertificates(h)
       THEN agent' = [agent EXCEPT ![h].pc = "run"] /\ UNCHANGED disk
       ELSE GenerateKeyAndCSR(h, t)
  /\ UNCHANGED <<authority, secret, nodeRows, request, fates>>

PostEnroll(h) ==
  /\ agent[h].pc = "send"
  /\ IF authority.up = "up"
       THEN /\ request' = [request EXCEPT ![disk[h].key] = [NoRequest EXCEPT !.pc = "got",
                             !.host = h, !.token = agent[h].token]]
            /\ agent' = [agent EXCEPT ![h].pc = "wait"]
       ELSE agent' = [agent EXCEPT ![h] = Down] /\ UNCHANGED request
  /\ UNCHANGED <<authority, secret, nodeRows, disk, fates>>

\* SaveCertificates: the authority's certificate, then the node's.
SaveCA(h) ==
  /\ agent[h].pc = "ca"
  /\ disk' = [disk EXCEPT ![h].ca = agent[h].caPem]
  /\ agent' = [agent EXCEPT ![h].pc = "crt"]
  /\ UNCHANGED <<authority, secret, nodeRows, request, fates>>

SaveCert(h) ==
  /\ agent[h].pc = "crt"
  /\ disk' = [disk EXCEPT ![h].crt = agent[h].cert]
  /\ agent' = [agent EXCEPT ![h].pc = "run"]
  /\ UNCHANGED <<authority, secret, nodeRows, request, fates>>

\* The process dies, or its client gives up after ten seconds.
AgentDies(h) ==
  /\ agent[h].pc # "down"
  /\ agent' = [agent EXCEPT ![h] = Down]
  /\ UNCHANGED <<authority, secret, nodeRows, request, disk, fates>>

\* It dies within the write of a file, or the write fails: the file is empty.
WriteCutShort(h) ==
  /\ \/ agent[h].pc = "down" /\ TokenOf[h] # {} /\ ~HasCertificates(h) /\ disk' = [disk EXCEPT ![h].key = Empty]
     \/ agent[h].pc = "ca" /\ disk' = [disk EXCEPT ![h].ca = Empty]
     \/ agent[h].pc = "crt" /\ disk' = [disk EXCEPT ![h].crt = EmptyCert]
  /\ agent' = [agent EXCEPT ![h] = Down]
  /\ UNCHANGED <<authority, secret, nodeRows, request, fates>>

\* Ninety days pass; nothing renews a certificate.
Lapses(h) ==
  /\ disk[h].crt \notin {NoCert, EmptyCert} /\ lapsed' = lapsed \cup {disk[h].crt.id}
  /\ UNCHANGED <<authority, secret, nodeRows, request, disk, agent, barred>>

RevokeNode(row) ==
  /\ authority.up = "up" /\ row \in nodeRows /\ barred' = barred \cup {row.cert.id}
  /\ UNCHANGED <<authority, secret, nodeRows, request, disk, agent, lapsed>>

Next ==
  \/ loadExistingCA \/ generateNewCA \/ WriteCAKey \/ BootCutShort \/ ServerDies
  \/ \E t \in Tokens : CreateEnrollmentToken(t) \/ Expire(t)
  \/ \E k \in HostKeys : CheckToken(k) \/ SignAndCreate(k) \/ MarkUsed(k) \/ Cancelled(k)
                      \/ AnswerEnroll(k)
  \/ \E h \in Hosts : \/ PostEnroll(h) \/ SaveCA(h) \/ SaveCert(h) \/ AgentDies(h) \/ WriteCutShort(h)
                      \/ Lapses(h)
                      \/ \E t \in Tokens : EnsureEnrolled(h, t)
  \/ \E row \in nodeRows : RevokeNode(row)

Spec == Init /\ [][Next]_enrollVars

-----------------------------------------------------------------------------

\* The agent's TLS pair loads and its pool has the server's authority.
LoadClientTLSConfig(h) == disk[h].crt.key = disk[h].key /\ disk[h].ca = authority.ca
\* The authority's signature, and the time between NotBefore and NotAfter.
VerifyCertificate(c) == c.ca = authority.ca /\ c.id \notin lapsed
\* The node's row has the certificate's fingerprint and is not revoked.
AuthenticateNodeCertificate(c) == VerifyCertificate(c) /\ c.id \notin barred /\ \E r \in nodeRows : r.cert = c

Accepted(h) == LoadClientTLSConfig(h) /\ AuthenticateNodeCertificate(disk[h].crt)

\* A host that has its three files never enrolls again, so they must stay good:
\* whatever died and whenever, also within the write of a file, the key on disk
\* is the certificate's, the running server's authority signed it, and the
\* server knows the node; until the certificate runs out or the node is revoked,
\* and unless a death left one of two files empty, the certificate of the host
\* or the key of the authority, which are then taken as there (keystore.go:39,
\* ca.go:32).  (With write faults of the authority's files it does not hold:
\* main.go drops the errors.)
EnrolledIsAccepted ==
  \A h \in Hosts :
    (/\ HasCertificates(h) /\ authority.up = "up"
     /\ disk[h].crt # EmptyCert /\ authority.key # Empty
     /\ disk[h].crt.id \notin lapsed \cup barred) => Accepted(h)

\* A host whose files the server does not accept enrolls again.  It does not:
\* HasCertificates asks whether the files exist, so a host with an empty, an
\* expired or an orphaned certificate runs, and is turned away, for ever.
TurnedAwayEnrolls == \A h \in Hosts : agent[h].pc = "run" /\ authority.up = "up" => Accepted(h)

\* A token enrolls one node: of the agents that raced or retried with it, only
\* the node it names has a certificate or is about to be sent one.
TokenEnrollsOne ==
  LET Issued(h) == {agent[h].cert, disk[h].crt}
                     \cup {request[k].cert : k \in {i \in HostKeys : request[i].host = h /\ request[i].pc = "signed"}}
  IN \A h \in Hosts : \A c \in Issued(h) \ {NoCert, EmptyCert} : \E t \in Tokens : secret[t].usedBy = c.id

\* A host that was refused left nothing behind: the only rows are those of hosts
\* that enrolled or still try.  It does not hold: the row is created before the
\* token is marked, and a refused or interrupted host keeps its FQDN taken.
RefusedLeavesNoRow ==
  \A r \in nodeRows : \/ request[r.cert.key].pc # "none" \/ agent[r.host].pc \in {"ca", "crt"}
                      \/ disk[r.host].crt # NoCert
=============================================================================
