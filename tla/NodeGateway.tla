----------------------------- MODULE NodeGateway -----------------------------
(***************************************************************************)
(* The node registry as the gateway, the administrators and the health     *)
(* supervisor change it: internal/app/node/{service,connection_manager}.go,*)
(* internal/transport/grpc/gateway.go, internal/app/nodehealth/            *)
(* supervisor.go and the node repositories of infra/{memory,postgres}.     *)
(*                                                                         *)
(* A handler is a sequence of repository and map operations, each atomic;  *)
(* the row a handler has read may be stale when it writes.  A stream has   *)
(* two ends: the agent may have given up and dialled again before the      *)
(* server notices that the old stream is dead.                             *)
(***************************************************************************)
EXTENDS Integers, FiniteSets

CONSTANTS
  Nodes,           \* enrolled nodes
  Handlers,        \* StreamTunnel goroutines a node can have at once
  Admins,          \* concurrent administrative calls
  StaleLimit,      \* staleLimit, in ticks
  UnhealthyLimit,  \* unhealthyLimit, in ticks
  Postgres         \* TRUE: PostgreSQL repository; FALSE: in-memory repository

\* External: the nil pointer.
None == "none"

Statuses == {"enrolling", "online", "degraded", "unhealthy", "draining",
             "offline", "revoked", "maintenance"}

ASSUME GatewayAssumption ==
  /\ None \notin Handlers
  /\ StaleLimit \in Nat /\ UnhealthyLimit \in Nat /\ StaleLimit <= UnhealthyLimit
  /\ Postgres \in BOOLEAN

VARIABLES
  row,     \* the nodes table
  conn,    \* MemoryConnectionManager.connections
  tunnel,  \* the StreamTunnel goroutines
  admin,   \* the administrative calls
  missed,  \* Supervisor.missedHeartbeats
  listed   \* the copies evaluateNodes has listed and not yet gone through

vars == <<row, conn, tunnel, admin, missed, listed>>

\* Ages above the last limit are not told apart; a nil LastHeartbeatAt is
\* older than any limit (time.Sub saturates).
OldAge == UnhealthyLimit + 1

\* MissedCap: the counter is compared with 2 and 3 only.
MissedCap == 3

\* A row as EnrollNode creates it; age is now - last_heartbeat_at.
NewRow == [status |-> "enrolling", maintenance |-> FALSE, drain |-> FALSE, age |-> OldAge]

NoTunnel == [pc |-> "none", peer |-> "closed", maintenance |-> FALSE]

NoCall == [pc |-> "idle", node |-> None, flag |-> FALSE]

NotListed == [todo |-> FALSE, copy |-> NewRow]

Init ==
  /\ row = [n \in Nodes |-> NewRow]
  /\ conn = [n \in Nodes |-> None]
  /\ tunnel = [n \in Nodes |-> [h \in Handlers |-> NoTunnel]]
  /\ admin = [a \in Admins |-> NoCall]
  /\ missed = [n \in Nodes |-> 0]
  /\ listed = [n \in Nodes |-> NotListed]

(***************************************************************************)
(* The repositories.                                                       *)
(***************************************************************************)
\* What GetByID and List return: the SQL does not select drain_mode.
Read(r) == IF Postgres THEN [r EXCEPT !.drain = FALSE] ELSE r

\* UpdateMaintenanceMode moves the status along, whatever it was.
UpdateMaintenanceMode(r, on) ==
  [r EXCEPT !.maintenance = on, !.status = IF on THEN "maintenance" ELSE "online"]

\* Mutant: a status the domain does not know.
UpdateDrainModeMisspelt(r, on) ==
  [r EXCEPT !.drain = on, !.status = IF on /\ @ = "online" THEN "drained" ELSE @]

\* UpdateDrainMode: the SQL sets the flag only.
UpdateDrainMode(r, on) ==
  [r EXCEPT !.drain = on,
            !.status = IF Postgres THEN @
                       ELSE IF on /\ @ = "online" THEN "draining"
                       ELSE IF ~on /\ @ = "draining" THEN "online"
                       ELSE @]

IsSchedulable(r) ==
  r.status \in {"online", "degraded"} /\ ~r.maintenance /\ ~r.drain

(***************************************************************************)
(* StreamTunnel.  Its repository calls carry the stream's context, which   *)
(* is canceled once the server has noticed that the peer is gone; the      *)
(* in-memory repository does not look at it.                               *)
(***************************************************************************)
RepoFails(n, h) == Postgres /\ tunnel[n][h].peer = "closed"

At(n, h, pc) == tunnel[n][h].pc = pc

Goto(n, h, pc) == tunnel' = [tunnel EXCEPT ![n][h].pc = pc]

Leave(n, h) == tunnel' = [tunnel EXCEPT ![n][h] = NoTunnel]

\* The agent dials when it holds no other stream; the peer certificate is
\* checked against the registry (AuthenticateNodeCertificate).
OpenStream(n, h) ==
  /\ At(n, h, "none")
  /\ \A g \in Handlers : tunnel[n][g].peer # "open"
  /\ row[n].status # "revoked"
  /\ tunnel' = [tunnel EXCEPT ![n][h] = [pc |-> "opened", peer |-> "open",
                                         maintenance |-> FALSE]]
  /\ UNCHANGED <<row, conn, admin, missed, listed>>

\* Mutant: the registry is not asked again.
ConnectCheckSkipped(n, h) ==
  /\ At(n, h, "opened")
  /\ tunnel' = [tunnel EXCEPT ![n][h].pc = "checked",
                              ![n][h].maintenance = row[n].maintenance]
  /\ UNCHANGED <<row, conn, admin, missed, listed>>

\* OnStreamConnected: read the row and refuse a revoked node ...
ConnectCheck(n, h) ==
  /\ At(n, h, "opened")
  /\ IF RepoFails(n, h) \/ row[n].status = "revoked"
     THEN Leave(n, h)
     ELSE tunnel' = [tunnel EXCEPT ![n][h].pc = "checked",
                                   ![n][h].maintenance = row[n].maintenance]
  /\ UNCHANGED <<row, conn, admin, missed, listed>>

\* ... RegisterConnection, which replaces an older stream ...
Register(n, h) ==
  /\ At(n, h, "checked")
  /\ conn' = [conn EXCEPT ![n] = h]
  /\ Goto(n, h, "registered")
  /\ UNCHANGED <<row, admin, missed, listed>>

\* ... and UpdateStatus from what was read, its error ignored.
ConnectStatus(n, h) ==
  /\ At(n, h, "registered")
  /\ row' = IF RepoFails(n, h) THEN row
            ELSE [row EXCEPT ![n].status =
                    IF tunnel[n][h].maintenance THEN "maintenance" ELSE "online"]
  /\ tunnel' = [tunnel EXCEPT ![n][h].pc = "live", ![n][h].maintenance = FALSE]
  /\ UNCHANGED <<conn, admin, missed, listed>>

\* Mutant: the map entry of a terminated stream is forgotten.
UnregisterForgotten(n, h) ==
  /\ At(n, h, "live")
  /\ tunnel[n][h].peer = "closed"
  /\ Goto(n, h, "unregistered")
  /\ UNCHANGED <<row, conn, admin, missed, listed>>

\* Recv fails; the deferred OnStreamDisconnected first deletes the map entry
\* of the node, whichever stream it holds ...
Unregister(n, h) ==
  /\ At(n, h, "live")
  /\ tunnel[n][h].peer = "closed"
  /\ conn' = [conn EXCEPT ![n] = None]
  /\ Goto(n, h, "unregistered")
  /\ UNCHANGED <<row, admin, missed, listed>>

\* ... reads the row (an error ends the handler) ...
DisconnectCheck(n, h) ==
  /\ At(n, h, "unregistered")
  /\ IF RepoFails(n, h) \/ row[n].status = "revoked"
     THEN Leave(n, h)
     ELSE Goto(n, h, "leaving")
  /\ UNCHANGED <<row, conn, admin, missed, listed>>

\* ... and writes offline.
DisconnectStatus(n, h) ==
  /\ At(n, h, "leaving")
  /\ row' = [row EXCEPT ![n].status = "offline"]
  /\ Leave(n, h)
  /\ UNCHANGED <<conn, admin, missed, listed>>

\* ProcessHeartbeat, refused for a revoked node.
Heartbeat(n, h) ==
  /\ At(n, h, "live")
  /\ tunnel[n][h].peer = "open"
  /\ row[n].status # "revoked"
  /\ row' = [row EXCEPT ![n].age = 0]
  /\ UNCHANGED <<conn, tunnel, admin, missed, listed>>

\* The agent ends its session or its network fails ...
AgentGone(n, h) ==
  /\ tunnel[n][h].peer = "open"
  /\ tunnel' = [tunnel EXCEPT ![n][h].peer = "gone"]
  /\ UNCHANGED <<row, conn, admin, missed, listed>>

\* ... and the server's transport finds out.
PeerClosed(n, h) ==
  /\ tunnel[n][h].peer = "gone"
  /\ tunnel' = [tunnel EXCEPT ![n][h].peer = "closed"]
  /\ UNCHANGED <<row, conn, admin, missed, listed>>

(***************************************************************************)
(* Administrative calls.                                                   *)
(***************************************************************************)
Begin(a, pc, n, flag) ==
  admin' = [admin EXCEPT ![a] = [pc |-> pc, node |-> n, flag |-> flag]]

\* ToggleMaintenance reads the row, refuses a revoked node, and writes.
ToggleMaintenance(a, n, on) ==
  /\ admin[a].pc = "idle"
  /\ row[n].status # "revoked"
  /\ Begin(a, "maintenance", n, on)
  /\ UNCHANGED <<row, conn, tunnel, missed, listed>>

MaintenanceWrite(a) ==
  LET n == admin[a].node IN
  /\ admin[a].pc = "maintenance"
  /\ row' = [row EXCEPT ![n] = UpdateMaintenanceMode(@, admin[a].flag)]
  /\ admin' = [admin EXCEPT ![a] = NoCall]
  /\ UNCHANGED <<conn, tunnel, missed, listed>>

\* ToggleDrainMode does the same with the drain flag.
ToggleDrainMode(a, n, on) ==
  /\ admin[a].pc = "idle"
  /\ row[n].status # "revoked"
  /\ Begin(a, "drain", n, on)
  /\ UNCHANGED <<row, conn, tunnel, missed, listed>>

DrainWrite(a) ==
  LET n == admin[a].node IN
  /\ admin[a].pc = "drain"
  /\ row' = [row EXCEPT ![n] = UpdateDrainMode(@, admin[a].flag)]
  /\ admin' = [admin EXCEPT ![a] = NoCall]
  /\ UNCHANGED <<conn, tunnel, missed, listed>>

\* DrainNode and EvacuateNode set the flag without looking at the status.
EvacuationDrain(a, n, on) ==
  /\ admin[a].pc = "idle"
  /\ row' = [row EXCEPT ![n] = UpdateDrainMode(@, on)]
  /\ UNCHANGED <<conn, tunnel, admin, missed, listed>>

\* RevokeNode writes the status, then deletes the map entry.  The stream
\* itself is not closed.
RevokeNode(a, n) ==
  /\ admin[a].pc = "idle"
  /\ row' = [row EXCEPT ![n].status = "revoked"]
  /\ Begin(a, "revoke", n, FALSE)
  /\ UNCHANGED <<conn, tunnel, missed, listed>>

RevokeUnregister(a) ==
  /\ admin[a].pc = "revoke"
  /\ conn' = [conn EXCEPT ![admin[a].node] = None]
  /\ admin' = [admin EXCEPT ![a] = NoCall]
  /\ UNCHANGED <<row, tunnel, missed, listed>>

(***************************************************************************)
(* The health supervisor.                                                  *)
(***************************************************************************)
\* evaluateNodes lists every node ...
EvaluateList ==
  /\ \A n \in Nodes : ~listed[n].todo
  /\ listed' = [n \in Nodes |-> [todo |-> TRUE, copy |-> Read(row[n])]]
  /\ UNCHANGED <<row, conn, tunnel, admin, missed>>

Skips(r) == r.status \in {"revoked", "enrolling"} \/ r.maintenance

\* Mutants: missed heartbeats are counted and nothing follows; a flagged node
\* is never let back.
VerdictNever(r, m) == r.status

VerdictSticky(r, m) ==
  IF r.age > UnhealthyLimit \/ m >= 3 THEN "unhealthy" ELSE r.status

\* The status evaluateNodes gives a copy r with counter m; r's own if it
\* makes no transition.
Verdict(r, m) ==
  IF r.age > StaleLimit
  THEN IF r.age > UnhealthyLimit \/ m >= 3 THEN "unhealthy"
       ELSE IF m >= 2 /\ r.status # "unhealthy" THEN "degraded"
       ELSE r.status
  ELSE IF r.status \in {"unhealthy", "degraded"} /\ ~r.drain THEN "online"
  ELSE r.status

MissedCount(n, r) ==
  IF Skips(r) \/ r.age <= StaleLimit THEN 0
  ELSE IF missed[n] < MissedCap THEN missed[n] + 1 ELSE MissedCap

\* ... and judges them one by one; transitionNode writes over whatever the row
\* has become since.
Evaluate(n) ==
  LET r == listed[n].copy
      m == MissedCount(n, r)
  IN  /\ listed[n].todo
      /\ missed' = [missed EXCEPT ![n] = m]
      /\ row' = IF Skips(r) \/ Verdict(r, m) = r.status THEN row
                ELSE [row EXCEPT ![n].status = Verdict(r, m)]
      /\ listed' = [listed EXCEPT ![n] = NotListed]
      /\ UNCHANGED <<conn, tunnel, admin>>

Tick ==
  /\ row' = [n \in Nodes |-> [row[n] EXCEPT !.age = IF @ < OldAge THEN @ + 1 ELSE @]]
  /\ UNCHANGED <<conn, tunnel, admin, missed, listed>>

------------------------------------------------------------------------------
TunnelStep(n, h) ==
  \/ ConnectCheck(n, h)
  \/ Register(n, h)
  \/ ConnectStatus(n, h)
  \/ Unregister(n, h)
  \/ DisconnectCheck(n, h)
  \/ DisconnectStatus(n, h)

AdminBegins(a, n) ==
  \/ \E on \in BOOLEAN : \/ ToggleMaintenance(a, n, on)
                         \/ ToggleDrainMode(a, n, on)
                         \/ EvacuationDrain(a, n, on)
  \/ RevokeNode(a, n)

AdminWrites(a) == MaintenanceWrite(a) \/ DrainWrite(a) \/ RevokeUnregister(a)

Next ==
  \/ \E n \in Nodes, h \in Handlers : \/ OpenStream(n, h)
                                      \/ TunnelStep(n, h)
                                      \/ Heartbeat(n, h)
                                      \/ AgentGone(n, h)
                                      \/ PeerClosed(n, h)
  \/ \E a \in Admins : AdminWrites(a) \/ \E n \in Nodes : AdminBegins(a, n)
  \/ EvaluateList
  \/ \E n \in Nodes : Evaluate(n)
  \/ Tick

Spec == Init /\ [][Next]_vars

\* Goroutines that can run do run, the supervisor's ticker keeps firing, time
\* passes, and TCP keep-alive finds a dead peer.  Agents and administrators
\* may do nothing.
Fairness ==
  /\ WF_vars(Tick)
  /\ WF_vars(EvaluateList)
  /\ \A n \in Nodes : WF_vars(Evaluate(n))
  /\ \A n \in Nodes, h \in Handlers : WF_vars(TunnelStep(n, h)) /\ WF_vars(PeerClosed(n, h))
  /\ \A a \in Admins : WF_vars(AdminWrites(a))

FairSpec == Spec /\ Fairness

------------------------------------------------------------------------------
(***************************************************************************)
(* Properties.                                                             *)
(***************************************************************************)
RowType == [status : Statuses, maintenance : BOOLEAN, drain : BOOLEAN, age : 0..OldAge]

TunnelType == [pc : {"none", "opened", "checked", "registered", "live",
                     "unregistered", "leaving"},
               peer : {"open", "gone", "closed"}, maintenance : BOOLEAN]

CallType == [pc : {"idle", "maintenance", "drain", "revoke"},
             node : Nodes \cup {None}, flag : BOOLEAN]

CopyType == [todo : BOOLEAN, copy : RowType]

\* The shape of the registry, the connection map, the handlers and the
\* supervisor's working copies; a call past its check names a node.
TypeOK ==
  /\ row \in [Nodes -> RowType]
  /\ conn \in [Nodes -> Handlers \cup {None}]
  /\ tunnel \in [Nodes -> [Handlers -> TunnelType]]
  /\ admin \in [Admins -> CallType]
  /\ \A a \in Admins : admin[a].pc # "idle" => admin[a].node \in Nodes
  /\ missed \in [Nodes -> 0..MissedCap]
  /\ listed \in [Nodes -> CopyType]

\* The connection map never hands a command to a stream whose handler has
\* unregistered, however many streams of the node overlap and end in whatever
\* order.
MapHoldsOpenStream ==
  \A n \in Nodes : conn[n] # None =>
    tunnel[n][conn[n]].pc \in {"registered", "live"}

\* A call that has passed its revocation check and will still write.
InFlight(n) ==
  \/ \E h \in Handlers : tunnel[n][h].pc \in {"checked", "registered", "leaving"}
  \/ \E a \in Admins : admin[a].node = n /\ admin[a].pc = "maintenance"
  \/ listed[n].todo /\ ~Skips(listed[n].copy)

Quiet(n) == row[n].status = "revoked" /\ conn[n] = None /\ ~InFlight(n)

\* Once a revocation has met no call in flight it is permanent: every handler
\* that starts later, and the supervisor, refuses the node, and no stream of it
\* gets back into the connection map.
RevocationSticks == [][\A n \in Nodes : Quiet(n) => Quiet(n)']_vars

\* RevokeNode "permanently revokes a node".
\* Does not hold for calls in flight; RevocationSticks does.
RevokedIsFinal ==
  [][\A n \in Nodes : row[n].status = "revoked" => row'[n].status = "revoked"]_vars

\* UnregisterConnection "removes a terminated stream connection": the entry it
\* removes is that stream's own.
RemovesOwnConnection ==
  [][\A n \in Nodes, h \in Handlers :
       tunnel[n][h].pc = "live" /\ tunnel'[n][h].pc = "unregistered"
         => conn[n] \in {h, None}]_vars

\* OnStreamDisconnected "transitions node to offline".
\* Does not hold on the SQL repository.
DisconnectedIsOffline ==
  [][\A n \in Nodes, h \in Handlers :
       tunnel[n][h].pc \in {"unregistered", "leaving"} /\ tunnel'[n][h].pc = "none"
         => row'[n].status \in {"offline", "revoked"}]_vars

\* A node in drain mode takes no new placement.
\* Does not hold on the SQL repository.
DrainedIsNotSchedulable ==
  \A n \in Nodes : row[n].drain => ~IsSchedulable(Read(row[n]))

Silent(n) == row[n].age > UnhealthyLimit

\* A node that stays silent is taken out of scheduling.
SilentNodesAreFlagged ==
  \A n \in Nodes : Silent(n) ~> (~Silent(n) \/ ~IsSchedulable(Read(row[n])))

Fresh(n) == row[n].age <= StaleLimit

\* A node flagged by the supervisor whose heartbeats are fresh from then on
\* leaves the flagged states, unless it is drained or in maintenance.
FreshNodesRecover ==
  \A n \in Nodes :
    (<>[](Fresh(n) /\ ~row[n].drain /\ ~row[n].maintenance))
      => []<>(row[n].status \notin {"unhealthy", "degraded"})

==============================================================================
