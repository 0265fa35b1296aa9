------------------------ MODULE CommandDispatchProofs ------------------------
(***************************************************************************)
(* Invariance proofs for CommandDispatch, for any number of nodes and      *)
(* calls.                                                                  *)
(*                                                                         *)
(* That a command is executed once at most and that a caller is told what  *)
(* became of its own command rest on where the correlation id is: not sent *)
(* yet, in one place of one stream to an agent, with one agent, or behind  *)
(* it in answers that say what the agent did.                              *)
(***************************************************************************)
EXTENDS CommandDispatch, TLAPS

\* A command whose call has not sent it was not executed.
UnsentUnexecuted ==
  \A c \in Calls : call[c].pc \in {"idle", "sending"} => executed[c].times = 0

\* A command in transit was sent, is not executed yet and with no agent.
InTransitFresh ==
  \A n \in Nodes : \A i \in 1 .. Len(toAgent[n]) :
    /\ call[toAgent[n][i]].pc \notin {"idle", "sending"}
    /\ executed[toAgent[n][i]].times = 0
    /\ \A m \in Nodes : busy[m] # toAgent[n][i]

\* No two places of the streams hold the same command.
InTransitOnce ==
  \A m, n \in Nodes : \A i \in 1 .. Len(toAgent[m]) : \A j \in 1 .. Len(toAgent[n]) :
    toAgent[m][i] = toAgent[n][j] => m = n /\ i = j

\* A command an agent works on was sent, has no result and no second agent.
BusyOnce ==
  \A n \in Nodes : busy[n] # None =>
    /\ call[busy[n]].pc \notin {"idle", "sending"}
    /\ executed[busy[n]].times = 0
    /\ \A m \in Nodes : busy[m] = busy[n] => m = n

\* What an answer says of its command is what the agent did.
Reported(r) == executed[r.corr].times = 1 /\ executed[r.corr].ok = r.ok

\* Every answer on its way, found by the router or in a channel is true, and a
\* channel holds an answer to its own call.
AnswersTrue ==
  /\ \A n \in Nodes : \A i \in 1 .. Len(toServer[n]) : Reported(toServer[n][i])
  /\ \A n \in Nodes : router[n] # NoResult => Reported(router[n])
  /\ \A c \in Calls : channel[c] # NoResult => channel[c].corr = c /\ Reported(channel[c])

\* The inductive invariant.
DispatchInv ==
  /\ TypeOK
  /\ PendingIsExact
  /\ AtMostOnce
  /\ OwnAnswer
  /\ UnsentUnexecuted
  /\ InTransitFresh
  /\ InTransitOnce
  /\ BusyOnce
  /\ AnswersTrue

------------------------------------------------------------------------------
LEMMA InitTypes == Init => TypeOK
BY DispatchAssumption DEF Init, TypeOK, NewCall, CallType, NoResult, NoLink

\* What the three ways of changing a call give.
LEMMA CallUpdates ==
  ASSUME NEW q \in CallType
  PROVE  /\ \A pc \in {"sent", "waiting", "done"} : [q EXCEPT !.pc = pc] \in CallType
         /\ \A out \in {"sendfail", "ok", "rejected", "expired"} :
              [q EXCEPT !.pc = "leaving", !.outcome = out] \in CallType
         /\ [q EXCEPT !.live = FALSE] \in CallType
BY DEF CallType

\* The call that found no connection.
LEMMA OfflineCall ==
  ASSUME NEW n \in Nodes
  PROVE  LET q == [NewCall EXCEPT !.pc = "done", !.node = n, !.outcome = "offline"]
         IN  q \in CallType /\ q.pc = "done" /\ q.outcome = "offline"
<1>1. NewCall \in CallType
  BY DEF NewCall, CallType
<1> QED BY <1>1 DEF CallType

\* Every action keeps the types.
LEMMA StepTypes == TypeOK /\ [Next]_vars => TypeOK'
<1> SUFFICES ASSUME TypeOK, [Next]_vars PROVE TypeOK'
  OBVIOUS
<1> USE DEF TypeOK
<1>1. ASSUME NEW c \in Calls, NEW n \in Nodes, Dispatch(c, n) PROVE TypeOK'
  <2>1. CASE link[n].entry
    <3> DEFINE q == [pc |-> "sending", node |-> n, live |-> link[n].up, outcome |-> None]
    <3>1. q \in CallType
      BY DEF CallType
    <3>2. call' = [call EXCEPT ![c] = q] /\ pending' = pending \cup {c}
      BY <1>1, <2>1 DEF Dispatch
    <3> HIDE DEF q
    <3> QED BY <1>1, <3>1, <3>2 DEF Dispatch
  <2>2. CASE ~link[n].entry
    <3> DEFINE q == [NewCall EXCEPT !.pc = "done", !.node = n, !.outcome = "offline"]
    <3>2. q \in CallType
      BY OfflineCall
    <3>3. call' = [call EXCEPT ![c] = q] /\ pending' = pending
      BY <1>1, <2>2 DEF Dispatch
    <3> HIDE DEF q
    <3> QED BY <1>1, <3>2, <3>3 DEF Dispatch
  <2> QED BY <2>1, <2>2
<1>2. ASSUME NEW c \in Calls, Send(c) PROVE TypeOK'
  <2>1. [call[c] EXCEPT !.pc = "sent"] \in CallType
    BY CallUpdates
  <2>2. call' \in [Calls -> CallType]
    BY <1>2, <2>1 DEF Send
  <2>3. \A n \in Nodes : Append(toAgent[n], c) \in Seq(Calls)
    OBVIOUS
  <2>4. toAgent' \in [Nodes -> Seq(Calls)]
    BY <1>2, <2>3 DEF Send
  <2> QED BY <1>2, <2>2, <2>4 DEF Send
<1>3. ASSUME NEW c \in Calls, SendFails(c) PROVE TypeOK'
  BY <1>3, CallUpdates DEF SendFails
<1>4. ASSUME NEW c \in Calls, Await(c) PROVE TypeOK'
  BY <1>4, CallUpdates DEF Await
<1>5. ASSUME NEW c \in Calls, Answered(c) PROVE TypeOK'
  BY <1>5, CallUpdates DEF Answered
<1>6. ASSUME NEW c \in Calls, Expired(c) PROVE TypeOK'
  BY <1>6, CallUpdates DEF Expired
<1>7. ASSUME NEW c \in Calls, LeaveDispatch(c) PROVE TypeOK'
  BY <1>7, CallUpdates DEF LeaveDispatch
<1>8. ASSUME NEW n \in Nodes, RouteLookup(n) PROVE TypeOK'
  <2>1. Head(toServer[n]) \in Results /\ Tail(toServer[n]) \in Seq(Results)
    BY <1>8 DEF RouteLookup
  <2> QED BY <1>8, <2>1 DEF RouteLookup
<1>9. ASSUME NEW n \in Nodes, RouteSend(n) PROVE TypeOK'
  <2>1. router[n] \in Results
    BY <1>9 DEF RouteSend
  <2>2. router[n].corr \in Calls
    BY <2>1 DEF Results
  <2> QED BY <1>9, <2>1, <2>2 DEF RouteSend
<1>10. ASSUME NEW n \in Nodes, AgentReceives(n) PROVE TypeOK'
  <2>1. Head(toAgent[n]) \in Calls /\ Tail(toAgent[n]) \in Seq(Calls)
    BY <1>10 DEF AgentReceives
  <2> QED BY <1>10, <2>1 DEF AgentReceives
<1>11. ASSUME NEW n \in Nodes, NEW ok \in BOOLEAN, AgentAnswers(n, ok) PROVE TypeOK'
  <2> DEFINE c == busy[n]
             r == [corr |-> c, ok |-> ok]
  <2>1. c \in Calls
    BY <1>11 DEF AgentAnswers
  <2>2. r \in Results
    BY <2>1 DEF Results
  <2>3. executed' \in [Calls -> [times : Nat, ok : BOOLEAN]]
    BY <1>11, <2>1 DEF AgentAnswers
  <2>4. Append(toServer[n], r) \in Seq(Results)
    BY <2>2
  <2>5. toServer' \in [Nodes -> Seq(Results)]
    BY <1>11, <2>4 DEF AgentAnswers
  <2> QED BY <1>11, <2>3, <2>5 DEF AgentAnswers
<1>12. ASSUME NEW n \in Nodes, UnregisterConnection(n) PROVE TypeOK'
  BY <1>12 DEF UnregisterConnection
<1>13. ASSUME NEW n \in Nodes, Connect(n) PROVE TypeOK'
  BY <1>13 DEF Connect
<1>14. ASSUME NEW n \in Nodes, Break(n) PROVE TypeOK'
  <2>1. call' \in [Calls -> CallType]
    BY <1>14, CallUpdates DEF Break
  <2>2. toAgent' \in [Nodes -> Seq(Calls)] /\ toServer' \in [Nodes -> Seq(Results)]
    BY <1>14 DEF Break
  <2>3. link' \in [Nodes -> [up : BOOLEAN, entry : BOOLEAN, ending : BOOLEAN]]
    BY <1>14 DEF Break
  <2> QED BY <1>14, <2>1, <2>2, <2>3 DEF Break
<1>15. CASE UNCHANGED vars
  BY <1>15 DEF vars
<1> QED BY <1>1, <1>2, <1>3, <1>4, <1>5, <1>6, <1>7, <1>8, <1>9, <1>10, <1>11, <1>12,
           <1>13, <1>14, <1>15 DEF Next, CallStep, NodeStep

------------------------------------------------------------------------------
\* How a step changes the calls: the call that takes it gets a new phase, the
\* answer a caller is told is read from its channel, and no other call is
\* touched but for the stream it was sent on.
LEMMA StepCalls ==
  ASSUME TypeOK, Next
  PROVE  /\ \A d \in Calls : call'[d].pc \in {"idle", "sending"}
                               => call[d].pc \in {"idle", "sending"}
         /\ \A d \in Calls : call'[d].outcome \in {"ok", "rejected"} =>
              \/ call[d].outcome = call'[d].outcome
              \/ /\ channel[d] # NoResult
                 /\ (call'[d].outcome = "ok") = channel[d].ok
<1> DEFINE Early(d) == call[d].pc \in {"idle", "sending"}
           Goal(d) == /\ Early(d)' => Early(d)
                      /\ call'[d].outcome \in {"ok", "rejected"} =>
                           \/ call[d].outcome = call'[d].outcome
                           \/ /\ channel[d] # NoResult
                              /\ (call'[d].outcome = "ok") = channel[d].ok
<1> SUFFICES ASSUME NEW d \in Calls PROVE Goal(d)
  OBVIOUS
<1> USE DEF TypeOK, CallType
<1>1. ASSUME NEW c \in Calls, NEW n \in Nodes, Dispatch(c, n) PROVE Goal(d)
  <2>1. call[c].pc = "idle" /\ call'[c].outcome \in {None, "offline"}
    <3>1. CASE link[n].entry
      BY <1>1, <3>1 DEF Dispatch
    <3>2. CASE ~link[n].entry
      BY <1>1, <3>2, OfflineCall DEF Dispatch
    <3> QED BY <3>1, <3>2
  <2>2. d # c => call'[d] = call[d]
    BY <1>1 DEF Dispatch
  <2> QED BY <2>1, <2>2 DEF None
<1>2. ASSUME NEW c \in Calls, Send(c) PROVE Goal(d)
  BY <1>2 DEF Send
<1>3. ASSUME NEW c \in Calls, SendFails(c) PROVE Goal(d)
  BY <1>3 DEF SendFails
<1>4. ASSUME NEW c \in Calls, Await(c) PROVE Goal(d)
  BY <1>4 DEF Await
<1>5. ASSUME NEW c \in Calls, Answered(c) PROVE Goal(d)
  <2>1. CASE d # c
    BY <1>5, <2>1 DEF Answered
  <2>2. CASE d = c
    <3>0. channel[c] \in Results
      BY <1>5 DEF Answered
    <3>1. channel[c].ok \in BOOLEAN
      BY <3>0 DEF Results
    <3> DEFINE out == IF channel[c].ok THEN "ok" ELSE "rejected"
    <3>2. call' = [call EXCEPT ![c].pc = "leaving", ![c].outcome = out]
      BY <1>5 DEF Answered
    <3> HIDE DEF out
    <3>3. call'[c].pc = "leaving" /\ call'[c].outcome = out
      BY <3>2
    <3> USE DEF out
    <3> QED BY <1>5, <2>2, <3>1, <3>3 DEF Answered
  <2> QED BY <2>1, <2>2
<1>6. ASSUME NEW c \in Calls, Expired(c) PROVE Goal(d)
  BY <1>6 DEF Expired
<1>7. ASSUME NEW c \in Calls, LeaveDispatch(c) PROVE Goal(d)
  BY <1>7 DEF LeaveDispatch
<1>8. ASSUME NEW n \in Nodes, Break(n) PROVE Goal(d)
  BY <1>8 DEF Break
<1>9. ASSUME UNCHANGED call PROVE Goal(d)
  BY <1>9
<1> QED BY <1>1, <1>2, <1>3, <1>4, <1>5, <1>6, <1>7, <1>8, <1>9
        DEF Next, CallStep, NodeStep, RouteLookup, RouteSend, AgentReceives, AgentAnswers,
            UnregisterConnection, Connect

\* Every way out of DispatchCommand passes the deferred delete.
LEMMA StepPending == TypeOK /\ PendingIsExact /\ [Next]_vars => PendingIsExact'
<1> SUFFICES ASSUME TypeOK, PendingIsExact, [Next]_vars PROVE PendingIsExact'
  OBVIOUS
<1> USE DEF TypeOK, CallType, PendingIsExact
<1>1. ASSUME NEW c \in Calls, NEW n \in Nodes, Dispatch(c, n) PROVE PendingIsExact'
  <2>1. \A d \in Calls : d # c => call'[d] = call[d]
    BY <1>1 DEF Dispatch
  <2>2. CASE link[n].entry
    BY <1>1, <2>1, <2>2 DEF Dispatch
  <2>3. CASE ~link[n].entry
    <3>1. call'[c].pc = "done" /\ call[c].pc = "idle"
      BY <1>1, <2>3, OfflineCall DEF Dispatch
    <3> QED BY <1>1, <2>1, <2>3, <3>1 DEF Dispatch
  <2> QED BY <2>2, <2>3
<1>2. ASSUME NEW c \in Calls, Send(c) PROVE PendingIsExact'
  BY <1>2 DEF Send
<1>3. ASSUME NEW c \in Calls, SendFails(c) PROVE PendingIsExact'
  BY <1>3 DEF SendFails
<1>4. ASSUME NEW c \in Calls, Await(c) PROVE PendingIsExact'
  BY <1>4 DEF Await
<1>5. ASSUME NEW c \in Calls, Answered(c) PROVE PendingIsExact'
  BY <1>5 DEF Answered
<1>6. ASSUME NEW c \in Calls, Expired(c) PROVE PendingIsExact'
  BY <1>6 DEF Expired
<1>7. ASSUME NEW c \in Calls, LeaveDispatch(c) PROVE PendingIsExact'
  BY <1>7 DEF LeaveDispatch
<1>8. ASSUME NEW n \in Nodes, Break(n) PROVE PendingIsExact'
  <2>1. \A c \in Calls : call'[c].pc = call[c].pc
    BY <1>8 DEF Break
  <2> QED BY <1>8, <2>1 DEF Break
<1>9. ASSUME UNCHANGED <<call, pending>> PROVE PendingIsExact'
  BY <1>9
<1> QED BY <1>1, <1>2, <1>3, <1>4, <1>5, <1>6, <1>7, <1>8, <1>9
        DEF Next, CallStep, NodeStep, RouteLookup, RouteSend, AgentReceives, AgentAnswers,
            UnregisterConnection, Connect, vars

------------------------------------------------------------------------------
\* What is asked of the place of a command.
PlacedOnce == UnsentUnexecuted /\ InTransitFresh /\ InTransitOnce /\ BusyOnce

\* A command is sent once, and moves from the stream to an agent and from there
\* to the answers without a copy staying behind.
LEMMA StepPlaces == TypeOK /\ PlacedOnce /\ [Next]_vars => PlacedOnce'
<1> SUFFICES ASSUME TypeOK, PlacedOnce, Next PROVE PlacedOnce'
  BY DEF PlacedOnce, UnsentUnexecuted, InTransitFresh, InTransitOnce, BusyOnce, vars
<1> DEFINE Early(d) == call[d].pc \in {"idle", "sending"}
<1>1. \A d \in Calls : Early(d)' => Early(d)
  BY StepCalls
<1> HIDE DEF Early
<1>2. /\ \A m \in Nodes : \A i \in 1 .. Len(toAgent[m]) : toAgent[m][i] \in Calls
      /\ \A m \in Nodes : busy[m] # None => busy[m] \in Calls
  BY DEF TypeOK
<1>3. \A d \in Calls : Early(d) => executed[d].times = 0
  BY DEF PlacedOnce, UnsentUnexecuted, Early
<1>4. \A m \in Nodes : \A i \in 1 .. Len(toAgent[m]) :
        /\ ~Early(toAgent[m][i]) /\ executed[toAgent[m][i]].times = 0
        /\ \A k \in Nodes : busy[k] # toAgent[m][i]
  BY DEF PlacedOnce, InTransitFresh, Early
<1>5. InTransitOnce
  BY DEF PlacedOnce
<1>6. \A m \in Nodes : busy[m] # None =>
        /\ ~Early(busy[m]) /\ executed[busy[m]].times = 0
        /\ \A k \in Nodes : busy[k] = busy[m] => k = m
  BY DEF PlacedOnce, BusyOnce, Early
<1> DEFINE Goal == /\ \A d \in Calls : Early(d)' => executed'[d].times = 0
                   /\ \A m \in Nodes : \A i \in 1 .. Len(toAgent'[m]) :
                        /\ ~Early(toAgent[m][i])' /\ executed'[toAgent'[m][i]].times = 0
                        /\ \A k \in Nodes : busy'[k] # toAgent'[m][i]
                   /\ InTransitOnce'
                   /\ \A m \in Nodes : busy'[m] # None =>
                        /\ ~Early(busy[m])' /\ executed'[busy'[m]].times = 0
                        /\ \A k \in Nodes : busy'[k] = busy'[m] => k = m
<1>7. SUFFICES Goal
  BY DEF PlacedOnce, UnsentUnexecuted, InTransitFresh, BusyOnce, Early
<1>8. ASSUME NEW c \in Calls, Send(c) PROVE Goal
  <2>1. Early(c) /\ ~Early(c)' /\ executed' = executed /\ busy' = busy
    BY <1>8 DEF Send, CallType, TypeOK, Early
  <2>2. \A m \in Nodes : busy[m] # c
    BY <1>6, <2>1, DispatchAssumption
  <2>3. \A m \in Nodes : \A i \in 1 .. Len(toAgent[m]) : toAgent[m][i] # c
    BY <1>4, <2>1
  <2>4. CASE toAgent' = toAgent
    <3>1. InTransitOnce'
      BY <1>5, <2>4 DEF InTransitOnce
    <3> QED BY <1>1, <1>2, <1>3, <1>4, <1>6, <2>1, <2>4, <3>1
  <2>5. CASE toAgent' # toAgent
    <3> DEFINE n == call[c].node
    <3>1. n \in Nodes /\ toAgent' = [toAgent EXCEPT ![n] = Append(@, c)]
      BY <1>8, <2>5 DEF Send, TypeOK
    <3> HIDE DEF n
    <3>2. \A m \in Nodes : \A i \in 1 .. Len(toAgent'[m]) :
            \/ i \in 1 .. Len(toAgent[m]) /\ toAgent'[m][i] = toAgent[m][i]
            \/ m = n /\ i = Len(toAgent[n]) + 1 /\ toAgent'[m][i] = c
      BY <3>1 DEF TypeOK
    <3>3. InTransitOnce'
      <4> SUFFICES ASSUME NEW m \in Nodes, NEW k \in Nodes, NEW i \in 1 .. Len(toAgent'[m]),
                          NEW j \in 1 .. Len(toAgent'[k]), toAgent'[m][i] = toAgent'[k][j]
                   PROVE  m = k /\ i = j
        BY DEF InTransitOnce
      <4>1. CASE toAgent'[m][i] = c
        <5>1. m = n /\ i = Len(toAgent[n]) + 1
          BY <2>3, <3>2, <4>1
        <5>2. k = n /\ j = Len(toAgent[n]) + 1
          BY <2>3, <3>2, <4>1
        <5> QED BY <5>1, <5>2
      <4>2. CASE toAgent'[m][i] # c
        <5>1. i \in 1 .. Len(toAgent[m]) /\ toAgent'[m][i] = toAgent[m][i]
          BY <3>2, <4>2
        <5>2. j \in 1 .. Len(toAgent[k]) /\ toAgent'[k][j] = toAgent[k][j]
          BY <3>2, <4>2
        <5>3. toAgent[m][i] = toAgent[k][j]
          BY <5>1, <5>2
        <5> QED BY <1>5, <5>1, <5>2, <5>3 DEF InTransitOnce
      <4> QED BY <4>1, <4>2
    <3>4. \A m \in Nodes : \A i \in 1 .. Len(toAgent'[m]) :
            /\ ~Early(toAgent[m][i])' /\ executed'[toAgent'[m][i]].times = 0
            /\ \A k \in Nodes : busy'[k] # toAgent'[m][i]
      <4> SUFFICES ASSUME NEW m \in Nodes, NEW i \in 1 .. Len(toAgent'[m])
                   PROVE  /\ ~Early(toAgent[m][i])' /\ executed'[toAgent'[m][i]].times = 0
                          /\ \A k \in Nodes : busy'[k] # toAgent'[m][i]
        OBVIOUS
      <4>1. CASE toAgent'[m][i] = c
        BY <1>3, <2>1, <2>2, <4>1 DEF Early
      <4>2. CASE i \in 1 .. Len(toAgent[m]) /\ toAgent'[m][i] = toAgent[m][i]
        <5> DEFINE d == toAgent[m][i]
        <5>1. d \in Calls /\ ~Early(d) /\ executed[d].times = 0 /\ \A k \in Nodes : busy[k] # d
          BY <1>2, <1>4, <4>2
        <5>2. call'[d].pc \notin {"idle", "sending"}
          BY <1>1, <5>1 DEF Early
        <5> QED BY <2>1, <4>2, <5>1, <5>2 DEF Early
      <4> QED BY <3>2, <4>1, <4>2
    <3> QED BY <1>1, <1>2, <1>3, <1>6, <2>1, <3>3, <3>4 DEF Early
  <2> QED BY <2>4, <2>5
<1>9. ASSUME NEW n \in Nodes, AgentReceives(n) PROVE Goal
  <2> DEFINE c == Head(toAgent[n])
  <2>1. /\ executed' = executed /\ call' = call
        /\ 1 \in 1 .. Len(toAgent[n]) /\ c = toAgent[n][1]
        /\ busy' = [busy EXCEPT ![n] = c]
        /\ toAgent' = [toAgent EXCEPT ![n] = Tail(@)]
    BY <1>9 DEF AgentReceives, TypeOK
  <2> HIDE DEF c
  <2>2. \A m \in Nodes : \A i \in 1 .. Len(toAgent'[m]) :
          IF m = n THEN i + 1 \in 2 .. Len(toAgent[m]) /\ toAgent'[m][i] = toAgent[m][i + 1]
                   ELSE i \in 1 .. Len(toAgent[m]) /\ toAgent'[m][i] = toAgent[m][i]
    BY <2>1 DEF TypeOK
  <2>3. /\ ~Early(c) /\ executed[c].times = 0
        /\ \A m \in Nodes : busy[m] # c
        /\ \A m \in Nodes : \A j \in 1 .. Len(toAgent[m]) : toAgent[m][j] = c => m = n /\ j = 1
    BY <1>4, <1>5, <2>1 DEF InTransitOnce
  <2>4. \A m \in Nodes : busy'[m] = IF m = n THEN c ELSE busy[m]
    BY <2>1 DEF TypeOK
  <2>5. InTransitOnce'
    <3> SUFFICES ASSUME NEW m \in Nodes, NEW k \in Nodes, NEW i \in 1 .. Len(toAgent'[m]),
                        NEW j \in 1 .. Len(toAgent'[k]), toAgent'[m][i] = toAgent'[k][j]
                 PROVE  m = k /\ i = j
      BY DEF InTransitOnce
    <3>1. CASE m = n
      BY <1>5, <2>2, <3>1 DEF InTransitOnce
    <3>2. CASE m # n
      BY <1>5, <2>2, <3>2 DEF InTransitOnce
    <3> QED BY <3>1, <3>2
  <2>6. \A m \in Nodes : \A i \in 1 .. Len(toAgent'[m]) :
          /\ ~Early(toAgent[m][i])' /\ executed'[toAgent'[m][i]].times = 0
          /\ \A k \in Nodes : busy'[k] # toAgent'[m][i]
    <3> SUFFICES ASSUME NEW m \in Nodes, NEW i \in 1 .. Len(toAgent'[m])
                 PROVE  /\ ~Early(toAgent[m][i])' /\ executed'[toAgent'[m][i]].times = 0
                        /\ \A k \in Nodes : busy'[k] # toAgent'[m][i]
      OBVIOUS
    <3>1. PICK j \in 1 .. Len(toAgent[m]) :
            toAgent'[m][i] = toAgent[m][j] /\ (m = n => j # 1)
      BY <2>2
    <3>2. toAgent[m][j] # c
      BY <2>3, <3>1
    <3> QED BY <1>4, <2>1, <2>4, <3>1, <3>2 DEF Early
  <2>7. \A m \in Nodes : busy'[m] # None =>
          /\ ~Early(busy[m])' /\ executed'[busy'[m]].times = 0
          /\ \A k \in Nodes : busy'[k] = busy'[m] => k = m
    <3> SUFFICES ASSUME NEW m \in Nodes, busy'[m] # None
                 PROVE  /\ ~Early(busy[m])' /\ executed'[busy'[m]].times = 0
                        /\ \A k \in Nodes : busy'[k] = busy'[m] => k = m
      OBVIOUS
    <3>1. CASE m = n
      BY <2>1, <2>3, <2>4, <3>1 DEF Early
    <3>2. CASE m # n
      BY <1>6, <2>1, <2>3, <2>4, <3>2 DEF Early
    <3> QED BY <3>1, <3>2
  <2> QED BY <1>3, <2>1, <2>5, <2>6, <2>7 DEF Early
<1>10. ASSUME NEW n \in Nodes, NEW ok \in BOOLEAN, AgentAnswers(n, ok) PROVE Goal
  <2> DEFINE c == busy[n]
  <2>1. /\ c # None /\ call' = call /\ toAgent' = toAgent
        /\ \A m \in Nodes : busy'[m] = IF m = n THEN None ELSE busy[m]
        /\ \A d \in Calls : d # c => executed'[d] = executed[d]
    BY <1>10 DEF AgentAnswers, TypeOK
  <2>2. /\ ~Early(c) /\ \A m \in Nodes : busy[m] = c => m = n
    BY <1>6, <2>1
  <2>3. \A m \in Nodes : \A i \in 1 .. Len(toAgent[m]) :
          toAgent[m][i] # c /\ toAgent[m][i] # None
    BY <1>2, <1>4, DispatchAssumption
  <2> HIDE DEF c
  <2>4. InTransitOnce'
    BY <1>5, <2>1 DEF InTransitOnce
  <2>5. \A d \in Calls : Early(d)' => executed'[d].times = 0
    BY <1>3, <2>1, <2>2 DEF Early
  <2>6. \A m \in Nodes : \A i \in 1 .. Len(toAgent'[m]) :
          /\ ~Early(toAgent[m][i])' /\ executed'[toAgent'[m][i]].times = 0
          /\ \A k \in Nodes : busy'[k] # toAgent'[m][i]
    BY <1>2, <1>4, <2>1, <2>3 DEF Early
  <2> QED BY <1>2, <1>6, <2>1, <2>2, <2>4, <2>5, <2>6 DEF Early
<1>11. ASSUME NEW n \in Nodes, Break(n) PROVE Goal
  <2>1. /\ busy' = busy /\ executed' = executed
        /\ \A m \in Nodes : \A i \in 1 .. Len(toAgent'[m]) :
             m # n /\ i \in 1 .. Len(toAgent[m]) /\ toAgent'[m][i] = toAgent[m][i]
    BY <1>11 DEF Break, TypeOK
  <2>2. InTransitOnce'
    BY <1>5, <2>1 DEF InTransitOnce
  <2> QED BY <1>1, <1>2, <1>3, <1>4, <1>6, <2>1, <2>2
<1>12. ASSUME UNCHANGED <<toAgent, busy, executed>> PROVE Goal
  <2>1. InTransitOnce'
    BY <1>5, <1>12 DEF InTransitOnce
  <2> QED BY <1>1, <1>2, <1>3, <1>4, <1>6, <1>12, <2>1
<1> QED BY <1>8, <1>9, <1>10, <1>11, <1>12
        DEF Next, CallStep, NodeStep, Dispatch, SendFails, Await, Answered, Expired,
            LeaveDispatch, RouteLookup, RouteSend, UnregisterConnection, Connect

------------------------------------------------------------------------------
\* What is asked of the answers.
AnsweredTruly == AtMostOnce /\ OwnAnswer /\ AnswersTrue

\* Answers are made by the agent that executed the command, for the first time,
\* and are passed on as they are.
LEMMA StepAnswers ==
  TypeOK /\ PlacedOnce /\ AnsweredTruly /\ [Next]_vars => AnsweredTruly'
<1> SUFFICES ASSUME TypeOK, PlacedOnce, AnsweredTruly, Next PROVE AnsweredTruly'
  BY DEF AnsweredTruly, AtMostOnce, OwnAnswer, AnswersTrue, Reported, vars
<1>1. /\ \A n \in Nodes : \A i \in 1 .. Len(toServer[n]) :
           toServer[n][i].corr \in Calls /\ Reported(toServer[n][i])
      /\ \A n \in Nodes : router[n] # NoResult => router[n].corr \in Calls /\ Reported(router[n])
      /\ \A c \in Calls : channel[c] # NoResult => channel[c].corr = c /\ Reported(channel[c])
  <2>1. /\ \A n \in Nodes : \A i \in 1 .. Len(toServer[n]) : toServer[n][i] \in Results
        /\ \A n \in Nodes : router[n] # NoResult => router[n] \in Results
    BY DEF TypeOK
  <2>2. \A r \in Results : r.corr \in Calls
    BY DEF Results
  <2> QED BY <2>1, <2>2 DEF AnsweredTruly, AnswersTrue
<1>2. \A d \in Calls : call'[d].outcome \in {"ok", "rejected"} =>
        \/ call[d].outcome = call'[d].outcome
        \/ channel[d] # NoResult /\ (call'[d].outcome = "ok") = channel[d].ok
  BY StepCalls
<1>3. ASSUME executed' = executed PROVE AtMostOnce' /\ OwnAnswer'
  <2>1. AtMostOnce'
    BY <1>3 DEF AnsweredTruly, AtMostOnce
  <2>2. ASSUME NEW c \in Calls, call'[c].outcome \in {"ok", "rejected"}
        PROVE  executed[c].times > 0 /\ (call'[c].outcome = "ok") = executed[c].ok
    <3>1. CASE call[c].outcome = call'[c].outcome
      BY <2>2, <3>1 DEF AnsweredTruly, OwnAnswer
    <3>2. CASE channel[c] # NoResult /\ (call'[c].outcome = "ok") = channel[c].ok
      BY <1>1, <3>2 DEF Reported
    <3> QED BY <1>2, <2>2, <3>1, <3>2
  <2>3. OwnAnswer'
    BY <1>3, <2>2 DEF OwnAnswer
  <2> QED BY <2>1, <2>3
<1>4. ASSUME executed' = executed, UNCHANGED <<toServer, router, channel>> PROVE AnsweredTruly'
  <2>1. AnswersTrue'
    BY <1>1, <1>4 DEF AnswersTrue, Reported
  <2> QED BY <1>3, <1>4, <2>1 DEF AnsweredTruly
<1>5. ASSUME NEW n \in Nodes, RouteLookup(n) PROVE AnsweredTruly'
  <2>1. /\ executed' = executed /\ channel' = channel
        /\ Len(toServer[n]) > 0 /\ Head(toServer[n]) = toServer[n][1]
        /\ \A m \in Nodes : router'[m] =
             IF m # n THEN router[m]
             ELSE IF toServer[n][1].corr \in pending THEN toServer[n][1] ELSE NoResult
    BY <1>5 DEF RouteLookup, TypeOK
  <2>2. \A m \in Nodes : \A i \in 1 .. Len(toServer'[m]) :
          \E j \in 1 .. Len(toServer[m]) : toServer'[m][i] = toServer[m][j]
    <3> SUFFICES ASSUME NEW m \in Nodes, NEW i \in 1 .. Len(toServer'[m])
                 PROVE  \E j \in 1 .. Len(toServer[m]) : toServer'[m][i] = toServer[m][j]
      OBVIOUS
    <3>1. CASE m = n
      <4>1. toServer'[n] = Tail(toServer[n]) /\ toServer[n] \in Seq(Results)
        BY <1>5 DEF RouteLookup, TypeOK
      <4>2. i + 1 \in 1 .. Len(toServer[n]) /\ toServer'[n][i] = toServer[n][i + 1]
        BY <2>1, <3>1, <4>1
      <4> QED BY <3>1, <4>2
    <3>2. CASE m # n
      BY <1>5, <3>2 DEF RouteLookup, TypeOK
    <3> QED BY <3>1, <3>2
  <2>3. Reported(toServer[n][1])
    BY <1>1, <2>1
  <2>4. \A m \in Nodes : router'[m] # NoResult => Reported(router'[m])
    BY <1>1, <2>1, <2>3
  <2>5. \A m \in Nodes : \A i \in 1 .. Len(toServer'[m]) : Reported(toServer'[m][i])
    BY <1>1, <2>2
  <2>6. AnswersTrue'
    BY <1>1, <2>1, <2>4, <2>5 DEF AnswersTrue, Reported
  <2> QED BY <1>3, <2>1, <2>6 DEF AnsweredTruly
<1>6. ASSUME NEW n \in Nodes, RouteSend(n) PROVE AnsweredTruly'
  <2> DEFINE r == router[n]
  <2>1. r # NoResult /\ r.corr \in Calls /\ Reported(r)
    BY <1>1, <1>6 DEF RouteSend
  <2>2. /\ executed' = executed /\ toServer' = toServer
        /\ \A m \in Nodes : router'[m] = router[m] \/ router'[m] = NoResult
        /\ \A c \in Calls : channel'[c] = channel[c] \/ (channel'[c] = r /\ c = r.corr)
    BY <1>6, <2>1 DEF RouteSend, TypeOK
  <2> HIDE DEF r
  <2>3. \A c \in Calls : channel'[c] # NoResult => channel'[c].corr = c /\ Reported(channel'[c])
    BY <1>1, <2>1, <2>2
  <2>4. AnswersTrue'
    BY <1>1, <2>2, <2>3 DEF AnswersTrue, Reported
  <2> QED BY <1>3, <2>2, <2>4 DEF AnsweredTruly
<1>7. ASSUME NEW n \in Nodes, NEW ok \in BOOLEAN, AgentAnswers(n, ok) PROVE AnsweredTruly'
  <2> DEFINE c == busy[n]
             r == [corr |-> c, ok |-> ok]
             Now(q) == executed'[q.corr].times = 1 /\ executed'[q.corr].ok = q.ok
  <2>1. c \in Calls /\ executed[c].times = 0
    BY <1>7 DEF AgentAnswers, TypeOK, PlacedOnce, BusyOnce
  <2>2. /\ executed'[c].times = 1 /\ executed'[c].ok = ok
        /\ \A d \in Calls : d # c => executed'[d] = executed[d]
        /\ UNCHANGED <<call, router, channel>>
    BY <1>7, <2>1 DEF AgentAnswers, TypeOK
  <2>3. r.corr = c /\ r.ok = ok
    OBVIOUS
  <2>4. \A m \in Nodes : \A i \in 1 .. Len(toServer'[m]) :
          \/ toServer'[m][i] = r
          \/ i \in 1 .. Len(toServer[m]) /\ toServer'[m][i] = toServer[m][i]
    <3>1. CASE toServer' = toServer
      BY <3>1
    <3>2. CASE toServer' # toServer
      <4>1. toServer' = [toServer EXCEPT ![n] = Append(@, r)]
        BY <1>7, <3>2 DEF AgentAnswers
      <4>2. r \in Results
        BY <2>1 DEF Results
      <4> HIDE DEF r
      <4> QED BY <4>1, <4>2 DEF TypeOK
    <3> QED BY <3>1, <3>2
  <2> HIDE DEF c, r
  <2>5. ASSUME NEW q, q.corr \in Calls, Reported(q) PROVE Now(q)
    <3>1. q.corr # c
      BY <2>1, <2>5 DEF Reported
    <3> QED BY <2>2, <2>5, <3>1 DEF Reported
  <2>6. Now(r)
    BY <2>2, <2>3
  <2> HIDE DEF Now
  <2>7. \A m \in Nodes : \A i \in 1 .. Len(toServer'[m]) : Now(toServer'[m][i])
    BY <1>1, <2>4, <2>5, <2>6
  <2>8. \A m \in Nodes : router'[m] # NoResult => Now(router'[m])
    BY <1>1, <2>2, <2>5
  <2>9. \A d \in Calls : channel'[d] # NoResult => channel'[d].corr = d /\ Now(channel'[d])
    BY <1>1, <2>2, <2>5
  <2>10. AnswersTrue'
    BY <2>7, <2>8, <2>9 DEF AnswersTrue, Reported, Now
  <2>11. AtMostOnce'
    BY <2>2 DEF AnsweredTruly, AtMostOnce
  <2>12. OwnAnswer'
    BY <2>1, <2>2 DEF AnsweredTruly, OwnAnswer
  <2> QED BY <2>10, <2>11, <2>12 DEF AnsweredTruly
<1>8. ASSUME NEW n \in Nodes, Break(n) PROVE AnsweredTruly'
  <2>1. /\ executed' = executed /\ UNCHANGED <<router, channel>>
        /\ \A m \in Nodes : \A i \in 1 .. Len(toServer'[m]) :
             m # n /\ i \in 1 .. Len(toServer[m]) /\ toServer'[m][i] = toServer[m][i]
    BY <1>8 DEF Break, TypeOK
  <2>2. AnswersTrue'
    BY <1>1, <2>1 DEF AnswersTrue, Reported
  <2> QED BY <1>3, <2>1, <2>2 DEF AnsweredTruly
<1> QED BY <1>4, <1>5, <1>6, <1>7, <1>8
        DEF Next, CallStep, NodeStep, Dispatch, Send, SendFails, Await, Answered, Expired,
            LeaveDispatch, AgentReceives, UnregisterConnection, Connect

------------------------------------------------------------------------------
LEMMA InitInv == Init => DispatchInv
<1> SUFFICES ASSUME Init PROVE DispatchInv
  OBVIOUS
<1>1. TypeOK
  BY InitTypes
<1>2. \A c \in Calls : call[c].pc = "idle" /\ call[c].outcome = None
                       /\ executed[c].times = 0 /\ channel[c] = NoResult
  BY DEF Init, NewCall
<1>3. \A n \in Nodes : Len(toAgent[n]) = 0 /\ Len(toServer[n]) = 0
                       /\ router[n] = NoResult /\ busy[n] = None
  BY DEF Init
<1>4. PendingIsExact
  BY <1>2 DEF PendingIsExact, Init
<1>5. AtMostOnce /\ OwnAnswer /\ UnsentUnexecuted
  BY <1>2 DEF AtMostOnce, OwnAnswer, UnsentUnexecuted, None
<1>6. InTransitFresh /\ InTransitOnce /\ BusyOnce /\ AnswersTrue
  BY <1>2, <1>3 DEF InTransitFresh, InTransitOnce, BusyOnce, AnswersTrue
<1> QED BY <1>1, <1>4, <1>5, <1>6 DEF DispatchInv

\* The inductive invariant is invariant.
LEMMA Inductive == Spec => []DispatchInv
<1>1. Init => DispatchInv
  BY InitInv
<1>2. DispatchInv /\ [Next]_vars => DispatchInv'
  BY StepTypes, StepPending, StepPlaces, StepAnswers DEF DispatchInv, PlacedOnce, AnsweredTruly
<1> QED BY <1>1, <1>2, PTL DEF Spec

\* The calls of DispatchCommand, the channels, the streams and what is in
\* transit keep their shape, for any number of nodes and calls.
THEOREM TypeCorrect == Spec => []TypeOK
<1>1. DispatchInv => TypeOK
  BY DEF DispatchInv
<1> QED BY <1>1, Inductive, PTL

\* The deferred delete of DispatchCommand leaves no correlation id behind: the
\* map of pending commands names the calls in progress, whichever of timeout,
\* send error, answer or broken stream ends them.
THEOREM PendingCorrect == Spec => []PendingIsExact
<1>1. DispatchInv => PendingIsExact
  BY DEF DispatchInv
<1> QED BY <1>1, Inductive, PTL

\* Breaks, reconnects and late answers never make an agent execute a command a
\* second time: a stream that breaks loses what it carries and DispatchCommand
\* never sends again.
THEOREM ExecutionCorrect == Spec => []AtMostOnce
<1>1. DispatchInv => AtMostOnce
  BY DEF DispatchInv
<1> QED BY <1>1, Inductive, PTL

\* HandleCommandResult gives a caller the result of its own command and of no
\* other, through the window between its lookup and its send.
THEOREM AnswersCorrect == Spec => []OwnAnswer
<1>1. DispatchInv => OwnAnswer
  BY DEF DispatchInv
<1> QED BY <1>1, Inductive, PTL

==============================================================================
