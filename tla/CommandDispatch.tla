--------------------------- MODULE CommandDispatch ---------------------------
(***************************************************************************)
(* Commands to nodes and their answers: DispatchCommand and                *)
(* HandleCommandResult of internal/app/node/connection_manager.go, the     *)
(* stream between gateway and agent, and the agent's synchronous receive   *)
(* loop (internal/app/agent/client.go).                                    *)
(*                                                                         *)
(* A call is one invocation of DispatchCommand, named by its fresh         *)
(* correlation id.  A stream that breaks loses what is in transit; the     *)
(* agent finishes the command it is executing before it dials again.       *)
(***************************************************************************)
EXTENDS Naturals, Sequences, FiniteSets

CONSTANTS
  Nodes,     \* nodes with an agent
  Calls,     \* correlation ids
  Unbounded  \* the calls whose context has no deadline (migration)

\* External: the zero value of an id.
None == "none"

ASSUME DispatchAssumption == Unbounded \subseteq Calls /\ None \notin Calls

VARIABLES
  call,      \* the goroutines inside DispatchCommand
  pending,   \* pendingCmds: the correlation ids with a channel
  channel,   \* the buffered result channel of each call
  link,      \* each node's stream and its entry in the connection map
  toAgent,   \* commands in transit
  toServer,  \* results in transit
  router,    \* HandleCommandResult, between its lookup and its send
  busy,      \* the command each agent executes
  executed   \* history: how often each command was executed, and how it ended

vars == <<call, pending, channel, link, toAgent, toServer, router, busy, executed>>

NewCall == [pc |-> "idle", node |-> None, live |-> FALSE, outcome |-> None]

Results == [corr : Calls, ok : BOOLEAN]

NoResult == [corr |-> None, ok |-> FALSE]

\* up: the stream carries messages; entry: the map names a stream of the node;
\* ending: the handler of a broken stream has not unregistered yet (MaxEnding = 1).
NoLink == [up |-> FALSE, entry |-> FALSE, ending |-> FALSE]

Init ==
  /\ call = [c \in Calls |-> NewCall]
  /\ pending = {}
  /\ channel = [c \in Calls |-> NoResult]
  /\ link = [n \in Nodes |-> NoLink]
  /\ toAgent = [n \in Nodes |-> <<>>]
  /\ toServer = [n \in Nodes |-> <<>>]
  /\ router = [n \in Nodes |-> NoResult]
  /\ busy = [n \in Nodes |-> None]
  /\ executed = [c \in Calls |-> [times |-> 0, ok |-> FALSE]]

(***************************************************************************)
(* DispatchCommand.                                                        *)
(***************************************************************************)
\* Mutant: no channel is made before the command is sent.
DispatchUnregistered(c, n) ==
  /\ call[c].pc = "idle"
  /\ call' = [call EXCEPT ![c] =
       IF link[n].entry
       THEN [pc |-> "sending", node |-> n, live |-> link[n].up, outcome |-> None]
       ELSE [NewCall EXCEPT !.pc = "done", !.node = n, !.outcome = "offline"]]
  /\ UNCHANGED <<pending, channel, link, toAgent, toServer, router, busy, executed>>

\* Under the lock: look the connection up and store a channel, or fail.
Dispatch(c, n) ==
  /\ call[c].pc = "idle"
  /\ IF link[n].entry
     THEN /\ call' = [call EXCEPT ![c] = [pc |-> "sending", node |-> n,
                                          live |-> link[n].up, outcome |-> None]]
          /\ pending' = pending \cup {c}
     ELSE /\ call' = [call EXCEPT ![c] = [NewCall EXCEPT !.pc = "done", !.node = n,
                                                         !.outcome = "offline"]]
          /\ UNCHANGED pending
  /\ UNCHANGED <<channel, link, toAgent, toServer, router, busy, executed>>

\* Mutant: the command is sent twice.
SendTwice(c) ==
  /\ call[c].pc = "sending"
  /\ call' = [call EXCEPT ![c].pc = "sent"]
  /\ toAgent' = IF call[c].live
                THEN [toAgent EXCEPT ![call[c].node] = @ \o <<c, c>>] ELSE toAgent
  /\ UNCHANGED <<pending, channel, link, toServer, router, busy, executed>>

\* Sender.Send on the stream found above: on a broken one the message is lost,
\* with or without an error.
Send(c) ==
  /\ call[c].pc = "sending"
  /\ call' = [call EXCEPT ![c].pc = "sent"]
  /\ toAgent' = IF call[c].live
                THEN [toAgent EXCEPT ![call[c].node] = Append(@, c)] ELSE toAgent
  /\ UNCHANGED <<pending, channel, link, toServer, router, busy, executed>>

\* Mutant: an outcome no caller knows.
SendFailsMisspelt(c) ==
  /\ call[c].pc = "sending" /\ ~call[c].live
  /\ call' = [call EXCEPT ![c].pc = "leaving", ![c].outcome = "failed"]
  /\ UNCHANGED <<pending, channel, link, toAgent, toServer, router, busy, executed>>

SendFails(c) ==
  /\ call[c].pc = "sending" /\ ~call[c].live
  /\ call' = [call EXCEPT ![c].pc = "leaving", ![c].outcome = "sendfail"]
  /\ UNCHANGED <<pending, channel, link, toAgent, toServer, router, busy, executed>>

\* Send has returned; the answer may be faster than the caller's next step.
Await(c) ==
  /\ call[c].pc = "sent"
  /\ call' = [call EXCEPT ![c].pc = "waiting"]
  /\ UNCHANGED <<pending, channel, link, toAgent, toServer, router, busy, executed>>

\* The select: the answer, or the context's end; either when both are ready.
Answered(c) ==
  /\ call[c].pc = "waiting" /\ channel[c] # NoResult
  /\ call' = [call EXCEPT ![c].pc = "leaving",
                          ![c].outcome = IF channel[c].ok THEN "ok" ELSE "rejected"]
  /\ UNCHANGED <<pending, channel, link, toAgent, toServer, router, busy, executed>>

Expired(c) ==
  /\ call[c].pc = "waiting" /\ c \notin Unbounded
  /\ call' = [call EXCEPT ![c].pc = "leaving", ![c].outcome = "expired"]
  /\ UNCHANGED <<pending, channel, link, toAgent, toServer, router, busy, executed>>

\* Mutant: a call that gives up leaves its channel in the map.
LeaveLeaks(c) ==
  /\ call[c].pc = "leaving"
  /\ call' = [call EXCEPT ![c].pc = "done"]
  /\ pending' = IF call[c].outcome \in {"ok", "rejected"} THEN pending \ {c} ELSE pending
  /\ UNCHANGED <<channel, link, toAgent, toServer, router, busy, executed>>

\* The deferred delete.
LeaveDispatch(c) ==
  /\ call[c].pc = "leaving"
  /\ call' = [call EXCEPT ![c].pc = "done"]
  /\ pending' = pending \ {c}
  /\ UNCHANGED <<channel, link, toAgent, toServer, router, busy, executed>>

(***************************************************************************)
(* The gateway's receive loop.                                             *)
(***************************************************************************)
\* HandleCommandResult finds the channel under the read lock ...
RouteLookup(n) ==
  /\ toServer[n] # <<>> /\ router[n] = NoResult
  /\ router' = [router EXCEPT ![n] =
       IF Head(toServer[n]).corr \in pending THEN Head(toServer[n]) ELSE NoResult]
  /\ toServer' = [toServer EXCEPT ![n] = Tail(@)]
  /\ UNCHANGED <<call, pending, channel, link, toAgent, busy, executed>>

\* Mutants: an unbuffered channel drops what nobody waits for; the result is
\* handed to some other waiting call.
RouteSendUnbuffered(n) ==
  /\ router[n] # NoResult
  /\ channel' = IF call[router[n].corr].pc = "waiting"
                THEN [channel EXCEPT ![router[n].corr] = router[n]] ELSE channel
  /\ router' = [router EXCEPT ![n] = NoResult]
  /\ UNCHANGED <<call, pending, link, toAgent, toServer, busy, executed>>

RouteSendAnyone(n) ==
  /\ router[n] # NoResult
  /\ \E c \in pending \cup {router[n].corr} :
       channel' = IF channel[c] = NoResult THEN [channel EXCEPT ![c] = router[n]] ELSE channel
  /\ router' = [router EXCEPT ![n] = NoResult]
  /\ UNCHANGED <<call, pending, link, toAgent, toServer, busy, executed>>

\* ... and sends without waiting into the buffer of one.
RouteSend(n) ==
  /\ router[n] # NoResult
  /\ channel' = IF channel[router[n].corr] = NoResult
                THEN [channel EXCEPT ![router[n].corr] = router[n]] ELSE channel
  /\ router' = [router EXCEPT ![n] = NoResult]
  /\ UNCHANGED <<call, pending, link, toAgent, toServer, busy, executed>>

(***************************************************************************)
(* The agent and the stream.                                               *)
(***************************************************************************)
AgentReceives(n) ==
  /\ busy[n] = None /\ toAgent[n] # <<>>
  /\ busy' = [busy EXCEPT ![n] = Head(toAgent[n])]
  /\ toAgent' = [toAgent EXCEPT ![n] = Tail(@)]
  /\ UNCHANGED <<call, pending, channel, link, toServer, router, executed>>

\* The driver returns and the result is sent, into the void if the stream broke.
AgentAnswers(n, ok) ==
  LET c == busy[n] IN
  /\ c # None
  /\ executed' = [executed EXCEPT ![c] = [times |-> @.times + 1, ok |-> ok]]
  /\ toServer' = IF link[n].up
                 THEN [toServer EXCEPT ![n] = Append(@, [corr |-> c, ok |-> ok])] ELSE toServer
  /\ busy' = [busy EXCEPT ![n] = None]
  /\ UNCHANGED <<call, pending, channel, link, toAgent, router>>

\* The agent dials; OnStreamConnected registers the stream.
Connect(n) ==
  /\ ~link[n].up /\ busy[n] = None
  /\ link' = [link EXCEPT ![n].up = TRUE, ![n].entry = TRUE]
  /\ UNCHANGED <<call, pending, channel, toAgent, toServer, router, busy, executed>>

Break(n) ==
  /\ link[n].up /\ ~link[n].ending
  /\ link' = [link EXCEPT ![n].up = FALSE, ![n].ending = TRUE]
  /\ toAgent' = [toAgent EXCEPT ![n] = <<>>]
  /\ toServer' = [toServer EXCEPT ![n] = <<>>]
  /\ call' = [c \in Calls |-> IF call[c].node = n THEN [call[c] EXCEPT !.live = FALSE]
                                                  ELSE call[c]]
  /\ UNCHANGED <<pending, channel, router, busy, executed>>

\* The broken stream's handler ends: the entry goes, the pending calls stay.
UnregisterConnection(n) ==
  /\ link[n].ending
  /\ link' = [link EXCEPT ![n].ending = FALSE, ![n].entry = FALSE]
  /\ UNCHANGED <<call, pending, channel, toAgent, toServer, router, busy, executed>>

------------------------------------------------------------------------------
CallStep(c) ==
  Send(c) \/ SendFails(c) \/ Await(c) \/ Answered(c) \/ Expired(c) \/ LeaveDispatch(c)

NodeStep(n) ==
  \/ RouteLookup(n)
  \/ RouteSend(n)
  \/ AgentReceives(n)
  \/ \E ok \in BOOLEAN : AgentAnswers(n, ok)
  \/ UnregisterConnection(n)

Next ==
  \/ \E c \in Calls : CallStep(c) \/ \E n \in Nodes : Dispatch(c, n)
  \/ \E n \in Nodes : NodeStep(n) \/ Connect(n) \/ Break(n)

Spec == Init /\ [][Next]_vars

\* Goroutines run, drivers return, deadlines expire, a dead stream is noticed.
\* Nobody has to call, to connect or to fail.
Fairness ==
  /\ \A c \in Calls : /\ WF_vars(Send(c) \/ SendFails(c)) /\ WF_vars(Await(c)) /\ WF_vars(Answered(c))
                      /\ WF_vars(Expired(c)) /\ WF_vars(LeaveDispatch(c))
  /\ \A n \in Nodes : /\ WF_vars(RouteLookup(n)) /\ WF_vars(RouteSend(n))
                      /\ WF_vars(AgentReceives(n)) /\ WF_vars(UnregisterConnection(n))
                      /\ WF_vars(\E ok \in BOOLEAN : AgentAnswers(n, ok))

FairSpec == Spec /\ Fairness

------------------------------------------------------------------------------
(***************************************************************************)
(* Properties.                                                             *)
(***************************************************************************)
CallType == [pc : {"idle", "sending", "sent", "waiting", "leaving", "done"},
             node : Nodes \cup {None}, live : BOOLEAN,
             outcome : {None, "offline", "sendfail", "ok", "rejected", "expired"}]

\* The shape of the calls, channels, links and messages in transit.
TypeOK ==
  /\ call \in [Calls -> CallType]
  /\ pending \in SUBSET Calls
  /\ channel \in [Calls -> Results \cup {NoResult}]
  /\ link \in [Nodes -> [up : BOOLEAN, entry : BOOLEAN, ending : BOOLEAN]]
  /\ toAgent \in [Nodes -> Seq(Calls)]
  /\ toServer \in [Nodes -> Seq(Results)]
  /\ router \in [Nodes -> Results \cup {NoResult}]
  /\ busy \in [Nodes -> Calls \cup {None}]
  /\ executed \in [Calls -> [times : Nat, ok : BOOLEAN]]

\* A caller that is told an outcome is told what the agent reported for its own
\* command, whatever late, unclaimed or concurrent answers are routed.
OwnAnswer ==
  \A c \in Calls : call[c].outcome \in {"ok", "rejected"} =>
    /\ executed[c].times > 0
    /\ (call[c].outcome = "ok") = executed[c].ok

\* pendingCmds holds the calls in progress and nothing else: no path out of
\* DispatchCommand, timeouts and send errors included, leaves an entry behind.
PendingIsExact ==
  pending = {c \in Calls : call[c].pc \in {"sending", "sent", "waiting", "leaving"}}

\* No command is executed twice, across breaks and reconnects.
AtMostOnce == \A c \in Calls : executed[c].times <= 1

\* An answer that reaches the gateway while its call is registered wakes that
\* call, even when it arrives before the caller has begun to wait.
AnswersWakeCallers ==
  \A c \in Calls :
    (\E n \in Nodes : router[n] # NoResult /\ router[n].corr = c) ~> (call[c].pc = "done")

\* Every call returns as long as the stream it was sent on does not break.
CallsReturn ==
  \A c \in Calls :
    (call[c].pc = "waiting" /\ call[c].live) ~> (call[c].pc = "done" \/ ~call[c].live)

\* UnregisterConnection "fails any pending commands for that node".
\* Does not hold for a call without a deadline.
DisconnectFailsPending ==
  \A c \in Calls :
    (/\ call[c].pc = "waiting" /\ ~call[c].live
     /\ ~link[call[c].node].entry) ~> (call[c].pc = "done")

==============================================================================
