-------------------------- MODULE NodeGatewayProofs --------------------------
(***************************************************************************)
(* Proofs about NodeGateway, for any number of nodes, handlers and         *)
(* administrators, any limits and either repository.                       *)
(***************************************************************************)
EXTENDS NodeGateway, TLAPS

\* What the repositories write is again a row.
LEMMA RowUpdates ==
  ASSUME NEW r \in RowType, NEW st \in Statuses, NEW on \in BOOLEAN
  PROVE  /\ [r EXCEPT !.status = st] \in RowType
         /\ [r EXCEPT !.drain = on] \in RowType
         /\ [r EXCEPT !.maintenance = on] \in RowType
         /\ Read(r) \in RowType
         /\ UpdateMaintenanceMode(r, on) \in RowType
         /\ UpdateDrainMode(r, on) \in RowType
<1>1. /\ [r EXCEPT !.status = st] \in RowType
      /\ [r EXCEPT !.drain = on] \in RowType
      /\ [r EXCEPT !.maintenance = on] \in RowType
  BY DEF RowType
<1>2. Read(r) \in RowType
  <2>1. [r EXCEPT !.drain = FALSE] \in RowType
    BY DEF RowType
  <2>. QED  BY <2>1 DEF Read
<1>3. UpdateMaintenanceMode(r, on) \in RowType
  <2> DEFINE m == [r EXCEPT !.maintenance = on]
             s == IF on THEN "maintenance" ELSE "online"
  <2>1. m \in RowType  BY <1>1
  <2>2. s \in Statuses  BY DEF Statuses
  <2>3. UpdateMaintenanceMode(r, on) = [m EXCEPT !.status = s]
    BY DEF UpdateMaintenanceMode, RowType
  <2> HIDE DEF m, s
  <2>4. [m EXCEPT !.status = s] \in RowType  BY <2>1, <2>2 DEF RowType
  <2>. QED  BY <2>3, <2>4
<1>4. UpdateDrainMode(r, on) \in RowType
  <2> DEFINE d == [r EXCEPT !.drain = on]
             s == IF Postgres THEN r.status
                  ELSE IF on /\ r.status = "online" THEN "draining"
                  ELSE IF ~on /\ r.status = "draining" THEN "online"
                  ELSE r.status
  <2>1. d \in RowType  BY <1>1
  <2>2. s \in Statuses  BY DEF Statuses, RowType
  <2>3. UpdateDrainMode(r, on) = [d EXCEPT !.status = s]
    BY DEF UpdateDrainMode, RowType
  <2> HIDE DEF d, s
  <2>4. [d EXCEPT !.status = s] \in RowType  BY <2>1, <2>2 DEF RowType
  <2>. QED  BY <2>3, <2>4
<1>. QED  BY <1>1, <1>2, <1>3, <1>4

LEMMA Ages ==
  /\ OldAge \in Nat /\ OldAge \in 0..OldAge /\ 0 \in 0..OldAge
  /\ \A x \in 0..OldAge : x < OldAge => x + 1 \in 0..OldAge
BY GatewayAssumption DEF OldAge

LEMMA Idle ==
  /\ NewRow \in RowType
  /\ NoTunnel \in TunnelType
  /\ NoCall \in CallType
  /\ NotListed \in CopyType
<1>1. NewRow \in RowType
  BY Ages DEF NewRow, RowType, Statuses
<1>. QED  BY <1>1 DEF NoTunnel, TunnelType, NoCall, CallType, NotListed, CopyType

LEMMA TypeInit == Init => TypeOK
BY Idle, GatewayAssumption DEF Init, TypeOK, NoCall, MissedCap

\* A handler's step changes its own record; each variant is a record again.
LEMMA TunnelUpdates ==
  ASSUME NEW t \in TunnelType, NEW b \in BOOLEAN
  PROVE  /\ \A pc \in {"opened", "checked", "registered", "live", "unregistered", "leaving"} :
              [t EXCEPT !.pc = pc] \in TunnelType
         /\ [t EXCEPT !.pc = "checked", !.maintenance = b] \in TunnelType
         /\ [t EXCEPT !.pc = "live", !.maintenance = b] \in TunnelType
         /\ \A p \in {"gone", "closed"} : [t EXCEPT !.peer = p] \in TunnelType
BY DEF TunnelType

LEMMA TunnelFunction ==
  ASSUME TypeOK, NEW n \in Nodes, NEW h \in Handlers, NEW t \in TunnelType
  PROVE  [tunnel EXCEPT ![n][h] = t] \in [Nodes -> [Handlers -> TunnelType]]
BY DEF TypeOK

LEMMA TypeStep == TypeOK /\ [Next]_vars => TypeOK'
<1> SUFFICES ASSUME TypeOK, [Next]_vars  PROVE TypeOK'
  OBVIOUS
<1>1. ASSUME NEW n \in Nodes, NEW h \in Handlers,
             \/ OpenStream(n, h) \/ TunnelStep(n, h) \/ Heartbeat(n, h)
             \/ AgentGone(n, h) \/ PeerClosed(n, h)
      PROVE  TypeOK'
  <2> DEFINE t == tunnel[n][h]
  <2>t. t \in TunnelType /\ row[n] \in RowType  BY DEF TypeOK
  <2>1. CASE OpenStream(n, h)
    <3> DEFINE u == [pc |-> "opened", peer |-> "open", maintenance |-> FALSE]
    <3>1. u \in TunnelType  BY DEF TunnelType
    <3> HIDE DEF u
    <3>2. [tunnel EXCEPT ![n][h] = u] \in [Nodes -> [Handlers -> TunnelType]]
      BY <3>1, TunnelFunction
    <3>. QED  BY <2>1, <3>2 DEF OpenStream, TypeOK, u
  <2>2. CASE ConnectCheck(n, h)
    <3> DEFINE u == [t EXCEPT !.pc = "checked", !.maintenance = row[n].maintenance]
    <3>1. row[n].maintenance \in BOOLEAN  BY <2>t DEF RowType
    <3>2. u \in TunnelType /\ NoTunnel \in TunnelType
      BY <2>t, <3>1, TunnelUpdates, Idle
    <3>3. \/ tunnel' = [tunnel EXCEPT ![n][h] = NoTunnel]
          \/ tunnel' = [tunnel EXCEPT ![n][h] = u]
      BY <2>2 DEF ConnectCheck, Leave, TypeOK
    <3> HIDE DEF u
    <3>4. tunnel' \in [Nodes -> [Handlers -> TunnelType]]
      BY <3>2, <3>3, TunnelFunction
    <3>. QED  BY <2>2, <3>4 DEF ConnectCheck, TypeOK
  <2>3. CASE Register(n, h)
    <3> DEFINE u == [t EXCEPT !.pc = "registered"]
    <3>1. u \in TunnelType  BY <2>t, TunnelUpdates
    <3>2. tunnel' = [tunnel EXCEPT ![n][h] = u]  BY <2>3 DEF Register, Goto, TypeOK
    <3> HIDE DEF u
    <3>3. tunnel' \in [Nodes -> [Handlers -> TunnelType]]  BY <3>1, <3>2, TunnelFunction
    <3>. QED  BY <2>3, <3>3 DEF Register, TypeOK
  <2>4. CASE ConnectStatus(n, h)
    <3> DEFINE u == [t EXCEPT !.pc = "live", !.maintenance = FALSE]
               st == IF t.maintenance THEN "maintenance" ELSE "online"
               r == [row[n] EXCEPT !.status = st]
    <3>1. u \in TunnelType  BY <2>t, TunnelUpdates
    <3>2. st \in Statuses  BY DEF Statuses
    <3>3. r \in RowType  BY <2>t, <3>2, RowUpdates
    <3>4. /\ tunnel' = [tunnel EXCEPT ![n][h] = u]
          /\ row' = row \/ row' = [row EXCEPT ![n] = r]
      BY <2>4 DEF ConnectStatus, TypeOK
    <3> HIDE DEF u, st, r
    <3>5. tunnel' \in [Nodes -> [Handlers -> TunnelType]]  BY <3>1, <3>4, TunnelFunction
    <3>6. row' \in [Nodes -> RowType]  BY <3>3, <3>4 DEF TypeOK
    <3>. QED  BY <2>4, <3>5, <3>6 DEF ConnectStatus, TypeOK
  <2>5. CASE Unregister(n, h)
    <3> DEFINE u == [t EXCEPT !.pc = "unregistered"]
    <3>1. u \in TunnelType  BY <2>t, TunnelUpdates
    <3>2. tunnel' = [tunnel EXCEPT ![n][h] = u]  BY <2>5 DEF Unregister, Goto, TypeOK
    <3> HIDE DEF u
    <3>3. tunnel' \in [Nodes -> [Handlers -> TunnelType]]  BY <3>1, <3>2, TunnelFunction
    <3>. QED  BY <2>5, <3>3 DEF Unregister, TypeOK
  <2>6. CASE DisconnectCheck(n, h)
    <3> DEFINE u == [t EXCEPT !.pc = "leaving"]
    <3>1. u \in TunnelType /\ NoTunnel \in TunnelType  BY <2>t, TunnelUpdates, Idle
    <3>2. \/ tunnel' = [tunnel EXCEPT ![n][h] = NoTunnel]
          \/ tunnel' = [tunnel EXCEPT ![n][h] = u]
      BY <2>6 DEF DisconnectCheck, Leave, Goto, TypeOK
    <3> HIDE DEF u
    <3>3. tunnel' \in [Nodes -> [Handlers -> TunnelType]]  BY <3>1, <3>2, TunnelFunction
    <3>. QED  BY <2>6, <3>3 DEF DisconnectCheck, TypeOK
  <2>7. CASE DisconnectStatus(n, h)
    <3> DEFINE r == [row[n] EXCEPT !.status = "offline"]
    <3>1. r \in RowType  BY <2>t, RowUpdates DEF Statuses
    <3>2. /\ tunnel' = [tunnel EXCEPT ![n][h] = NoTunnel]
          /\ row' = [row EXCEPT ![n] = r]
      BY <2>7 DEF DisconnectStatus, Leave, TypeOK
    <3> HIDE DEF r
    <3>3. tunnel' \in [Nodes -> [Handlers -> TunnelType]]  BY <3>2, Idle, TunnelFunction
    <3>4. row' \in [Nodes -> RowType]  BY <3>1, <3>2 DEF TypeOK
    <3>. QED  BY <2>7, <3>3, <3>4 DEF DisconnectStatus, TypeOK
  <2>8. CASE Heartbeat(n, h)
    <3> DEFINE r == [row[n] EXCEPT !.age = 0]
    <3>1. r \in RowType  BY <2>t, Ages DEF RowType
    <3>2. row' = [row EXCEPT ![n] = r]  BY <2>8 DEF Heartbeat, TypeOK
    <3> HIDE DEF r
    <3>3. row' \in [Nodes -> RowType]  BY <3>1, <3>2 DEF TypeOK
    <3>. QED  BY <2>8, <3>3 DEF Heartbeat, TypeOK
  <2>9. CASE AgentGone(n, h) \/ PeerClosed(n, h)
    <3>1. PICK p \in {"gone", "closed"} : tunnel' = [tunnel EXCEPT ![n][h].peer = p]
      BY <2>9 DEF AgentGone, PeerClosed
    <3> DEFINE u == [t EXCEPT !.peer = p]
    <3>2. u \in TunnelType  BY <2>t, TunnelUpdates
    <3>3. tunnel' = [tunnel EXCEPT ![n][h] = u]  BY <3>1 DEF TypeOK
    <3> HIDE DEF u
    <3>4. tunnel' \in [Nodes -> [Handlers -> TunnelType]]  BY <3>2, <3>3, TunnelFunction
    <3>. QED  BY <2>9, <3>4 DEF AgentGone, PeerClosed, TypeOK
  <2>. QED  BY <1>1, <2>1, <2>2, <2>3, <2>4, <2>5, <2>6, <2>7, <2>8, <2>9 DEF TunnelStep
<1>2. ASSUME NEW a \in Admins, AdminWrites(a)  PROVE TypeOK'
  <2> DEFINE n == admin[a].node
             on == admin[a].flag
  <2>n. n \in Nodes /\ on \in BOOLEAN /\ row[n] \in RowType
    BY <1>2 DEF AdminWrites, MaintenanceWrite, DrainWrite, RevokeUnregister, TypeOK, CallType
  <2>a. [admin EXCEPT ![a] = NoCall] \in [Admins -> CallType]
    BY Idle DEF TypeOK
  <2>b. admin' = [admin EXCEPT ![a] = NoCall] => \A b \in Admins :
          admin'[b].pc # "idle" => admin'[b].node \in Nodes
    BY DEF TypeOK, NoCall
  <2>1. CASE MaintenanceWrite(a)
    <3>1. UpdateMaintenanceMode(row[n], on) \in RowType  BY <2>n, RowUpdates DEF Statuses
    <3>2. row' = [row EXCEPT ![n] = UpdateMaintenanceMode(row[n], on)]
      BY <2>1, <2>n DEF MaintenanceWrite, TypeOK
    <3>3. row' \in [Nodes -> RowType]  BY <3>1, <3>2 DEF TypeOK
    <3>. QED  BY <2>1, <2>a, <2>b, <3>3 DEF MaintenanceWrite, TypeOK
  <2>2. CASE DrainWrite(a)
    <3>1. UpdateDrainMode(row[n], on) \in RowType  BY <2>n, RowUpdates DEF Statuses
    <3>2. row' = [row EXCEPT ![n] = UpdateDrainMode(row[n], on)]
      BY <2>2, <2>n DEF DrainWrite, TypeOK
    <3>3. row' \in [Nodes -> RowType]  BY <3>1, <3>2 DEF TypeOK
    <3>. QED  BY <2>2, <2>a, <2>b, <3>3 DEF DrainWrite, TypeOK
  <2>3. CASE RevokeUnregister(a)
    BY <2>3, <2>a, <2>b DEF RevokeUnregister, TypeOK
  <2>. QED  BY <1>2, <2>1, <2>2, <2>3 DEF AdminWrites
<1>3. ASSUME NEW a \in Admins, NEW n \in Nodes, AdminBegins(a, n)  PROVE TypeOK'
  <2>r. row[n] \in RowType  BY DEF TypeOK
  <2>b. ASSUME NEW pc \in {"maintenance", "drain", "revoke"}, NEW on \in BOOLEAN,
               Begin(a, pc, n, on)
        PROVE  /\ admin' \in [Admins -> CallType]
               /\ \A b \in Admins : admin'[b].pc # "idle" => admin'[b].node \in Nodes
    <3> DEFINE c == [pc |-> pc, node |-> n, flag |-> on]
    <3>1. c \in CallType /\ c.node = n  BY DEF CallType
    <3>2. admin' = [admin EXCEPT ![a] = c]  BY <2>b DEF Begin
    <3> HIDE DEF c
    <3>. QED  BY <3>1, <3>2 DEF TypeOK
  <2>1. ASSUME NEW on \in BOOLEAN, ToggleMaintenance(a, n, on) \/ ToggleDrainMode(a, n, on)
        PROVE  TypeOK'
    <3>1. /\ admin' \in [Admins -> CallType]
          /\ \A b \in Admins : admin'[b].pc # "idle" => admin'[b].node \in Nodes
      BY <2>1, <2>b DEF ToggleMaintenance, ToggleDrainMode
    <3>. QED  BY <2>1, <3>1 DEF ToggleMaintenance, ToggleDrainMode, TypeOK
  <2>2. ASSUME NEW on \in BOOLEAN, EvacuationDrain(a, n, on)  PROVE TypeOK'
    <3>1. UpdateDrainMode(row[n], on) \in RowType  BY <2>r, RowUpdates DEF Statuses
    <3>2. row' = [row EXCEPT ![n] = UpdateDrainMode(row[n], on)]
      BY <2>2 DEF EvacuationDrain, TypeOK
    <3>3. row' \in [Nodes -> RowType]  BY <3>1, <3>2 DEF TypeOK
    <3>. QED  BY <2>2, <3>3 DEF EvacuationDrain, TypeOK
  <2>3. CASE RevokeNode(a, n)
    <3> DEFINE r == [row[n] EXCEPT !.status = "revoked"]
    <3>1. r \in RowType  BY <2>r, RowUpdates DEF Statuses
    <3>2. row' = [row EXCEPT ![n] = r]  BY <2>3 DEF RevokeNode, TypeOK
    <3> HIDE DEF r
    <3>3. row' \in [Nodes -> RowType]  BY <3>1, <3>2 DEF TypeOK
    <3>4. /\ admin' \in [Admins -> CallType]
          /\ \A b \in Admins : admin'[b].pc # "idle" => admin'[b].node \in Nodes
      BY <2>3, <2>b DEF RevokeNode
    <3>. QED  BY <2>3, <3>3, <3>4 DEF RevokeNode, TypeOK
  <2>. QED  BY <1>3, <2>1, <2>2, <2>3 DEF AdminBegins
<1>4. CASE EvaluateList
  <2>1. \A n \in Nodes : Read(row[n]) \in RowType
    BY RowUpdates DEF TypeOK, Statuses
  <2>2. listed' \in [Nodes -> CopyType]
    BY <1>4, <2>1 DEF EvaluateList, CopyType
  <2>. QED  BY <1>4, <2>2 DEF EvaluateList, TypeOK
<1>5. ASSUME NEW n \in Nodes, Evaluate(n)  PROVE TypeOK'
  <2> DEFINE c == listed[n].copy
             m == MissedCount(n, c)
             r == [row[n] EXCEPT !.status = Verdict(c, m)]
  <2>1. c \in RowType /\ row[n] \in RowType  BY DEF TypeOK, CopyType
  <2>2. Verdict(c, m) \in Statuses  BY <2>1 DEF Verdict, Statuses, RowType
  <2>3. m \in 0..MissedCap  BY DEF MissedCount, MissedCap, TypeOK
  <2>4. r \in RowType  BY <2>1, <2>2, RowUpdates
  <2>5. /\ row' = row \/ row' = [row EXCEPT ![n] = r]
        /\ missed' = [missed EXCEPT ![n] = m]
        /\ listed' = [listed EXCEPT ![n] = NotListed]
        /\ UNCHANGED <<conn, tunnel, admin>>
    BY <1>5 DEF Evaluate, TypeOK
  <2> HIDE DEF c, m, r
  <2>6. row' \in [Nodes -> RowType]  BY <2>4, <2>5 DEF TypeOK
  <2>7. missed' \in [Nodes -> 0..MissedCap]  BY <2>3, <2>5 DEF TypeOK
  <2>8. listed' \in [Nodes -> CopyType]  BY <2>5, Idle DEF TypeOK
  <2>. QED  BY <2>5, <2>6, <2>7, <2>8 DEF TypeOK
<1>6. CASE Tick
  <2>1. ASSUME NEW n \in Nodes
        PROVE  [row[n] EXCEPT !.age = IF @ < OldAge THEN @ + 1 ELSE @] \in RowType
    <3> DEFINE x == IF row[n].age < OldAge THEN row[n].age + 1 ELSE row[n].age
    <3>1. row[n] \in RowType /\ row[n].age \in 0..OldAge  BY DEF TypeOK, RowType
    <3>2. x \in 0..OldAge  BY <3>1, Ages
    <3> HIDE DEF x
    <3>3. [row[n] EXCEPT !.age = x] \in RowType  BY <3>1, <3>2 DEF RowType
    <3>. QED  BY <3>3 DEF x
  <2>2. row' \in [Nodes -> RowType]  BY <1>6, <2>1 DEF Tick
  <2>. QED  BY <1>6, <2>2 DEF Tick, TypeOK
<1>7. CASE UNCHANGED vars
  BY <1>7 DEF vars, TypeOK
<1>. QED  BY <1>1, <1>2, <1>3, <1>4, <1>5, <1>6, <1>7 DEF Next

\* Every reachable state is well formed, over either repository.
THEOREM TypeCorrect == Spec => []TypeOK
BY TypeInit, TypeStep, PTL DEF Spec

\* The peer of a stream may vanish at any point of its handler.
LEMMA PeerStep ==
  ASSUME TypeOK, NEW n \in Nodes, NEW h \in Handlers, AgentGone(n, h) \/ PeerClosed(n, h)
  PROVE  \A m \in Nodes, g \in Handlers : tunnel'[m][g].pc = tunnel[m][g].pc
<1>1. PICK p \in {"gone", "closed"} : tunnel' = [tunnel EXCEPT ![n][h].peer = p]
  BY DEF AgentGone, PeerClosed
<1> DEFINE u == [tunnel[n][h] EXCEPT !.peer = p]
<1>2. tunnel[n][h] \in TunnelType  BY DEF TypeOK
<1>3. u.pc = tunnel[n][h].pc  BY <1>2 DEF TunnelType
<1>4. tunnel' = [tunnel EXCEPT ![n][h] = u]  BY <1>1 DEF TypeOK
<1> HIDE DEF u
<1>. QED  BY <1>3, <1>4 DEF TypeOK

(***************************************************************************)
(* The connection map.                                                     *)
(***************************************************************************)
LEMMA MapStep == TypeOK /\ MapHoldsOpenStream /\ [Next]_vars => MapHoldsOpenStream'
<1> SUFFICES ASSUME TypeOK, MapHoldsOpenStream, [Next]_vars
             PROVE  MapHoldsOpenStream'
  OBVIOUS
<1> USE GatewayAssumption
<1>1. ASSUME NEW n \in Nodes, NEW h \in Handlers,
             \/ OpenStream(n, h) \/ ConnectCheck(n, h) \/ DisconnectCheck(n, h)
             \/ DisconnectStatus(n, h)
      PROVE  MapHoldsOpenStream'
  <2>1. conn' = conn /\ tunnel[n][h].pc \notin {"registered", "live"}
    BY <1>1 DEF OpenStream, ConnectCheck, DisconnectCheck, DisconnectStatus, At
  <2>2. \A m \in Nodes, g \in Handlers :
          m # n \/ g # h => tunnel'[m][g] = tunnel[m][g]
    BY <1>1 DEF OpenStream, ConnectCheck, DisconnectCheck, DisconnectStatus, Leave, Goto, TypeOK
  <2>. QED  BY <2>1, <2>2 DEF MapHoldsOpenStream, TypeOK
<1>2. ASSUME NEW n \in Nodes, NEW h \in Handlers, Register(n, h)
      PROVE  MapHoldsOpenStream'
  <2>1. \A m \in Nodes, g \in Handlers :
          tunnel'[m][g].pc = IF m = n /\ g = h THEN "registered" ELSE tunnel[m][g].pc
    BY <1>2 DEF Register, Goto, TypeOK, TunnelType
  <2>. QED  BY <1>2, <2>1 DEF Register, MapHoldsOpenStream, TypeOK
<1>3. ASSUME NEW n \in Nodes, NEW h \in Handlers, ConnectStatus(n, h)
      PROVE  MapHoldsOpenStream'
  <2>1. \A m \in Nodes, g \in Handlers :
          tunnel'[m][g].pc = IF m = n /\ g = h THEN "live" ELSE tunnel[m][g].pc
    BY <1>3 DEF ConnectStatus, TypeOK, TunnelType
  <2>. QED  BY <1>3, <2>1 DEF ConnectStatus, MapHoldsOpenStream, TypeOK
<1>4. ASSUME NEW n \in Nodes, NEW h \in Handlers, Unregister(n, h)
      PROVE  MapHoldsOpenStream'
  <2>1. \A m \in Nodes \ {n}, g \in Handlers : tunnel'[m][g] = tunnel[m][g]
    BY <1>4 DEF Unregister, Goto, TypeOK
  <2>. QED  BY <1>4, <2>1 DEF Unregister, MapHoldsOpenStream, TypeOK
<1>5. ASSUME NEW n \in Nodes, NEW h \in Handlers, AgentGone(n, h) \/ PeerClosed(n, h)
      PROVE  MapHoldsOpenStream'
  <2>1. \A m \in Nodes, g \in Handlers : tunnel'[m][g].pc = tunnel[m][g].pc
    BY <1>5, PeerStep
  <2>. QED  BY <1>5, <2>1 DEF AgentGone, PeerClosed, MapHoldsOpenStream, TypeOK
<1>6. ASSUME NEW a \in Admins, RevokeUnregister(a)  PROVE MapHoldsOpenStream'
  BY <1>6 DEF RevokeUnregister, MapHoldsOpenStream, TypeOK
<1>7. ASSUME UNCHANGED <<conn, tunnel>>  PROVE MapHoldsOpenStream'
  BY <1>7 DEF MapHoldsOpenStream
<1>8. ASSUME NEW n \in Nodes, NEW h \in Handlers, Heartbeat(n, h)
      PROVE  MapHoldsOpenStream'
  BY <1>7, <1>8 DEF Heartbeat
<1>9. ASSUME NEW a \in Admins, AdminWrites(a) \/ \E n \in Nodes : AdminBegins(a, n)
      PROVE  MapHoldsOpenStream'
  BY <1>6, <1>7, <1>9 DEF AdminWrites, MaintenanceWrite, DrainWrite, AdminBegins,
     ToggleMaintenance, ToggleDrainMode, EvacuationDrain, RevokeNode
<1>10. ASSUME EvaluateList \/ Tick \/ UNCHANGED vars \/ \E n \in Nodes : Evaluate(n)
       PROVE  MapHoldsOpenStream'
  BY <1>7, <1>10 DEF EvaluateList, Tick, vars, Evaluate
<1>. QED
  BY <1>1, <1>2, <1>3, <1>4, <1>5, <1>8, <1>9, <1>10 DEF Next, TunnelStep

\* UnregisterConnection never leaves a stream in the map that has ended, for
\* any number of overlapping streams: a command is never sent into a handler
\* that has returned.
THEOREM MapCorrect == Spec => []MapHoldsOpenStream
<1>1. Init => MapHoldsOpenStream
  BY DEF Init, MapHoldsOpenStream
<1>. QED  BY <1>1, TypeInit, TypeStep, MapStep, PTL DEF Spec

(***************************************************************************)
(* Revocation.                                                             *)
(***************************************************************************)
LEMMA QuietStep ==
  ASSUME TypeOK, [Next]_vars, NEW n \in Nodes, Quiet(n)
  PROVE  Quiet(n)'
<1> USE GatewayAssumption
<1>q. /\ row[n].status = "revoked" /\ conn[n] = None
      /\ \A h \in Handlers : tunnel[n][h].pc \notin {"checked", "registered", "leaving"}
      /\ \A a \in Admins : ~(admin[a].node = n /\ admin[a].pc = "maintenance")
      /\ listed[n].todo => Skips(listed[n].copy)
  BY DEF Quiet, InFlight
\* What has to be kept, variable by variable.
<1>s. ASSUME row'[n].status = "revoked", conn'[n] = None,
             \A h \in Handlers : tunnel'[n][h].pc \notin {"checked", "registered", "leaving"},
             \A a \in Admins : ~(admin'[a].node = n /\ admin'[a].pc = "maintenance"),
             listed'[n].todo => Skips(listed'[n].copy)
      PROVE  Quiet(n)'
  BY <1>s DEF Quiet, InFlight, Skips
<1>1. ASSUME NEW m \in Nodes, NEW h \in Handlers,
             \/ OpenStream(m, h) \/ TunnelStep(m, h) \/ Heartbeat(m, h)
             \/ AgentGone(m, h) \/ PeerClosed(m, h)
      PROVE  Quiet(n)'
  <2>0. UNCHANGED <<admin, listed>>
    BY <1>1 DEF OpenStream, TunnelStep, Heartbeat, AgentGone, PeerClosed, ConnectCheck,
       Register, ConnectStatus, Unregister, DisconnectCheck, DisconnectStatus
  <2>1. CASE m # n
    <3>1. tunnel'[n] = tunnel[n] /\ row'[n] = row[n] /\ conn'[n] = conn[n]
      BY <1>1, <2>1 DEF OpenStream, TunnelStep, Heartbeat, AgentGone, PeerClosed, ConnectCheck,
         Register, ConnectStatus, Unregister, DisconnectCheck, DisconnectStatus, Leave, Goto, TypeOK
    <3>. QED  BY <1>q, <1>s, <2>0, <3>1
  <2>2. CASE m = n
    <3>1. ~Register(n, h) /\ ~ConnectStatus(n, h) /\ ~DisconnectStatus(n, h)
          /\ ~OpenStream(n, h) /\ ~Heartbeat(n, h)
      BY <1>q DEF Register, ConnectStatus, DisconnectStatus, OpenStream, Heartbeat, At
    <3>2. CASE ConnectCheck(n, h) \/ DisconnectCheck(n, h)
      <4>1. tunnel' = [tunnel EXCEPT ![n][h] = NoTunnel] /\ UNCHANGED <<row, conn>>
        BY <1>q, <3>2 DEF ConnectCheck, DisconnectCheck, Leave
      <4>2. \A g \in Handlers : tunnel'[n][g] \in {tunnel[n][g], NoTunnel}
        BY <4>1 DEF TypeOK
      <4>. QED  BY <1>q, <1>s, <2>0, <4>1, <4>2 DEF NoTunnel
    <3>3. CASE Unregister(n, h)
      <4>1. \A g \in Handlers : tunnel'[n][g].pc \in {tunnel[n][g].pc, "unregistered"}
        BY <3>3 DEF Unregister, Goto, TypeOK, TunnelType
      <4>2. conn'[n] = None /\ row' = row
        BY <3>3 DEF Unregister, TypeOK
      <4>. QED  BY <1>q, <1>s, <2>0, <4>1, <4>2
    <3>4. CASE AgentGone(n, h) \/ PeerClosed(n, h)
      <4>1. \A g \in Handlers : tunnel'[n][g].pc = tunnel[n][g].pc
        BY <3>4, PeerStep
      <4>2. UNCHANGED <<row, conn>>
        BY <3>4 DEF AgentGone, PeerClosed
      <4>. QED  BY <1>q, <1>s, <2>0, <4>1, <4>2
    <3>. QED  BY <1>1, <2>2, <3>1, <3>2, <3>3, <3>4 DEF TunnelStep
  <2>. QED  BY <2>1, <2>2
<1>2. ASSUME NEW a \in Admins, AdminWrites(a)  PROVE Quiet(n)'
  <2>1. UNCHANGED <<tunnel, listed>> /\ admin' = [admin EXCEPT ![a] = NoCall]
    BY <1>2 DEF AdminWrites, MaintenanceWrite, DrainWrite, RevokeUnregister
  <2>2. \A b \in Admins : ~(admin'[b].node = n /\ admin'[b].pc = "maintenance")
    BY <1>q, <2>1 DEF NoCall, TypeOK
  <2>3. CASE MaintenanceWrite(a)
    <3>1. admin[a].node # n /\ conn' = conn  BY <1>q, <2>3 DEF MaintenanceWrite
    <3>2. row'[n] = row[n]  BY <2>3, <3>1 DEF MaintenanceWrite, TypeOK
    <3>. QED  BY <1>q, <1>s, <2>1, <2>2, <3>1, <3>2
  <2>4. CASE DrainWrite(a)
    <3>1. row'[n].status = "revoked" /\ conn' = conn
      BY <1>q, <2>4 DEF DrainWrite, UpdateDrainMode, TypeOK, RowType
    <3>. QED  BY <1>q, <1>s, <2>1, <2>2, <3>1
  <2>5. CASE RevokeUnregister(a)
    <3>1. row' = row /\ conn'[n] = None
      BY <1>q, <2>5 DEF RevokeUnregister, TypeOK
    <3>. QED  BY <1>q, <1>s, <2>1, <2>2, <3>1
  <2>. QED  BY <1>2, <2>3, <2>4, <2>5 DEF AdminWrites
<1>3. ASSUME NEW a \in Admins, NEW m \in Nodes, AdminBegins(a, m)  PROVE Quiet(n)'
  <2>1. UNCHANGED <<tunnel, listed, conn>>
    BY <1>3 DEF AdminBegins, ToggleMaintenance, ToggleDrainMode, EvacuationDrain, RevokeNode
  <2>2. ASSUME NEW on \in BOOLEAN, ToggleMaintenance(a, m, on)  PROVE Quiet(n)'
    <3>1. m # n /\ row' = row  BY <1>q, <2>2 DEF ToggleMaintenance
    <3>2. \A b \in Admins : admin'[b] = admin[b] \/ admin'[b].node # n
      BY <2>2, <3>1 DEF ToggleMaintenance, Begin, TypeOK
    <3>. QED  BY <1>q, <1>s, <2>1, <3>1, <3>2
  <2>3. ASSUME NEW on \in BOOLEAN, ToggleDrainMode(a, m, on)  PROVE Quiet(n)'
    <3>1. m # n /\ row' = row  BY <1>q, <2>3 DEF ToggleDrainMode
    <3>2. \A b \in Admins : admin'[b] = admin[b] \/ admin'[b].node # n
      BY <2>3, <3>1 DEF ToggleDrainMode, Begin, TypeOK
    <3>. QED  BY <1>q, <1>s, <2>1, <3>1, <3>2
  <2>4. ASSUME NEW on \in BOOLEAN, EvacuationDrain(a, m, on)  PROVE Quiet(n)'
    <3>1. row'[n].status = "revoked" /\ admin' = admin
      BY <1>q, <2>4 DEF EvacuationDrain, UpdateDrainMode, TypeOK, RowType
    <3>. QED  BY <1>q, <1>s, <2>1, <3>1
  <2>5. CASE RevokeNode(a, m)
    <3>1. row'[n].status = "revoked"
      BY <1>q, <2>5 DEF RevokeNode, TypeOK, RowType
    <3>2. \A b \in Admins : admin'[b] = admin[b] \/ admin'[b].pc = "revoke"
      BY <2>5 DEF RevokeNode, Begin, TypeOK
    <3>. QED  BY <1>q, <1>s, <2>1, <3>1, <3>2
  <2>. QED  BY <1>3, <2>2, <2>3, <2>4, <2>5 DEF AdminBegins
<1>4. CASE EvaluateList
  <2>1. UNCHANGED <<row, conn, tunnel, admin>> /\ listed'[n].copy = Read(row[n])
    BY <1>4 DEF EvaluateList
  <2>2. Read(row[n]).status = "revoked"
    BY <1>q DEF Read, TypeOK, RowType
  <2>. QED  BY <1>q, <1>s, <2>1, <2>2 DEF Skips
<1>5. ASSUME NEW m \in Nodes, Evaluate(m)  PROVE Quiet(n)'
  <2>1. UNCHANGED <<conn, tunnel, admin>>  BY <1>5 DEF Evaluate
  <2>2. row'[n] = row[n]  BY <1>q, <1>5 DEF Evaluate, TypeOK
  <2>3. listed'[n] \in {listed[n], NotListed}  BY <1>5 DEF Evaluate, TypeOK
  <2>. QED  BY <1>q, <1>s, <2>1, <2>2, <2>3 DEF NotListed
<1>6. CASE Tick
  <2>1. row'[n].status = row[n].status  BY <1>6 DEF Tick, TypeOK, RowType
  <2>2. UNCHANGED <<conn, tunnel, admin, listed>>  BY <1>6 DEF Tick
  <2>. QED  BY <1>q, <1>s, <2>1, <2>2
<1>7. CASE UNCHANGED vars
  BY <1>q, <1>s, <1>7 DEF vars
<1>. QED  BY <1>1, <1>2, <1>3, <1>4, <1>5, <1>6, <1>7 DEF Next

\* Every handler that starts after a revocation refuses the node: once no call
\* that began before it is in flight, the node stays revoked and unreachable.
THEOREM RevocationCorrect == Spec => RevocationSticks
<1>1. TypeOK /\ [Next]_vars => \A n \in Nodes : Quiet(n) => Quiet(n)'
  BY QuietStep
<1>2. [][TypeOK /\ [Next]_vars]_vars => RevocationSticks
  <2>1. [TypeOK /\ [Next]_vars]_vars => [\A n \in Nodes : Quiet(n) => Quiet(n)']_vars
    BY <1>1
  <2>. QED  BY <2>1, PTL DEF RevocationSticks
<1>3. []TypeOK /\ [][Next]_vars => [][TypeOK /\ [Next]_vars]_vars
  BY PTL
<1>. QED  BY <1>2, <1>3, TypeCorrect, PTL DEF Spec
==============================================================================
