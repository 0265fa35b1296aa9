------------------------------ MODULE Console -------------------------------
(***************************************************************************)
(* One interactive console session, end to end: the WebSocket handler      *)
(* (internal/transport/ws/console_handler.go), the session manager         *)
(* (internal/app/console/manager.go), the tunnel to the node and the       *)
(* server's receive loop (internal/transport/grpc/gateway.go), the agent's *)
(* console handler (internal/app/agent/client.go) and the simulated shell  *)
(* (internal/infra/incus/console_driver.go).                               *)
(*                                                                         *)
(* The client types the inputs 1, 2, ...; the shell echoes them.  A pipe   *)
(* of the agent has no buffer: its writer waits for the reader.  The       *)
(* banner, the answers to a resize and the farewell are notices, which use *)
(* the same pipe.  The tunnel's two directions hold Window messages each   *)
(* (HTTP/2 flow control), and a full direction blocks its sender.          *)
(***************************************************************************)
EXTENDS Naturals, Sequences, SequencesExt

CONSTANTS
  Inputs,      \* number of inputs the client types
  Window,      \* messages in flight in each direction
  InboundCap,  \* capacity of the session pipe's Inbound channel
  ResizeCap,   \* capacity of a session's resizeChan
  Beats        \* heartbeats the agent sends meanwhile

VARIABLES
  session,   \* the manager's session: none, open or closed
  client,    \* the WebSocket connection: inputs typed, whether it is open
  down,      \* server to node
  up,        \* node to server
  serverAcks,\* the server's receive loop has a heartbeat to acknowledge
  active,    \* activeConsoles has the session
  stdin,     \* the input the agent's receive loop is writing, 0 if none
  driver,    \* the shell: pc and the input it handles
  stdout,    \* the echo the output goroutine has read and not sent, 0 if none
  notice,    \* it has read a notice and not sent it
  resizes,   \* the resizes in resizeChan
  drained,   \* the agent's output goroutine has ended
  inbound,   \* SessionPipe.Inbound
  shown,     \* what the client saw
  beats

consVars == <<session, client, down, up, serverAcks, active, stdin, driver, stdout,
              drained, inbound, shown, notice, resizes, beats>>

Msg(kind, n) == [kind |-> kind, n |-> n]

Init ==
  /\ session = "none" /\ client = [open |-> TRUE, typed |-> 0]
  /\ down = <<>> /\ up = <<>> /\ serverAcks = FALSE
  /\ active = FALSE /\ stdin = 0 /\ driver = [pc |-> "none", n |-> 0]
  /\ stdout = 0 /\ notice = FALSE /\ resizes = 0 /\ drained = FALSE /\ inbound = <<>> /\ shown = <<>> /\ beats = 0

(***************************************************************************)
(* The server's side: sends to the node wait for room in the tunnel.       *)
(***************************************************************************)
sendToNode(m) == Len(down) < Window /\ down' = Append(down, m)

\* The instance runs and its node is connected.
StartSession ==
  /\ session = "none" /\ session' = "open" /\ sendToNode(Msg("START", 0))
  /\ UNCHANGED <<client, up, serverAcks, active, stdin, driver, stdout, drained, inbound, shown, notice, resizes, beats>>

SendData ==
  /\ session = "open" /\ client.open /\ client.typed < Inputs
  /\ client' = [client EXCEPT !.typed = @ + 1] /\ sendToNode(Msg("DATA", client.typed + 1))
  /\ UNCHANGED <<session, up, serverAcks, active, stdin, driver, stdout, drained, inbound, shown, notice, resizes, beats>>

ResizeTerminal ==
  /\ session = "open" /\ client.open /\ client.typed < Inputs /\ sendToNode(Msg("RESIZE", 0))
  /\ client' = [client EXCEPT !.typed = @ + 1]
  /\ UNCHANGED <<session, up, serverAcks, active, stdin, driver, stdout, drained, inbound, shown, notice, resizes, beats>>

\* The client goes, or the handler told it to.
ClientLeaves ==
  /\ session = "open" /\ client.open /\ client' = [client EXCEPT !.open = FALSE]
  /\ UNCHANGED <<session, down, up, serverAcks, active, stdin, driver, stdout, drained, inbound, shown, notice, resizes, beats>>

\* The deferred CloseSession.
CloseSession ==
  /\ session = "open" /\ ~client.open
  /\ session' = "closed" /\ sendToNode(Msg("CLOSE", 0))
  /\ UNCHANGED <<client, up, serverAcks, active, stdin, driver, stdout, drained, inbound, shown, notice, resizes, beats>>

\* HandleNodeMessage drops what does not fit or has no session.
HandleNodeMessage(m) ==
  IF session = "open" /\ Len(inbound) < InboundCap THEN Append(inbound, m) ELSE inbound

\* The receive loop of the tunnel; a heartbeat is acknowledged before the
\* next message is received.
ServerReceives ==
  /\ ~serverAcks /\ up # <<>> /\ up' = Tail(up)
  /\ serverAcks' = (Head(up).kind = "BEAT")
  /\ inbound' = IF Head(up).kind = "BEAT" THEN inbound ELSE HandleNodeMessage(Head(up))
  /\ UNCHANGED <<session, client, down, active, stdin, driver, stdout, drained, shown, notice, resizes, beats>>

ServerAcks ==
  /\ serverAcks /\ sendToNode(Msg("ACK", 0)) /\ serverAcks' = FALSE
  /\ UNCHANGED <<session, client, up, active, stdin, driver, stdout, drained, inbound, shown, notice, resizes, beats>>

\* The handler's goroutine writes to the client; a CLOSE ends the connection.
WriteClient ==
  /\ session = "open" /\ client.open /\ inbound # <<>> /\ inbound' = Tail(inbound)
  /\ shown' = IF Head(inbound).kind = "DATA" THEN Append(shown, Head(inbound).n) ELSE shown
  /\ client' = [client EXCEPT !.open = Head(inbound).kind # "CLOSE"]
  /\ UNCHANGED <<session, down, up, serverAcks, active, stdin, driver, stdout, drained, notice, resizes, beats>>

(***************************************************************************)
(* The agent.  Its receive loop handles one message at a time and holds    *)
(* consoleMu while it writes an input to the shell.                        *)
(***************************************************************************)
AgentStarts ==
  /\ stdin = 0 /\ down # <<>> /\ Head(down).kind = "START" /\ down' = Tail(down)
  /\ active' = TRUE /\ driver' = [pc |-> "banner", n |-> 0]
  /\ UNCHANGED <<session, client, up, serverAcks, stdin, stdout, drained, inbound, shown, notice, resizes, beats>>

\* The write of a DATA message fails at once when the shell has exited.
AgentWrites ==
  /\ stdin = 0 /\ down # <<>> /\ Head(down).kind = "DATA" /\ down' = Tail(down)
  /\ stdin' = IF active /\ driver.pc # "exit" THEN Head(down).n ELSE 0
  /\ UNCHANGED <<session, client, up, serverAcks, active, driver, stdout, drained, inbound, shown, notice, resizes, beats>>

\* Mutant: a CLOSE forgets the session and leaves the shell's input open.
AgentForgets ==
  /\ stdin = 0 /\ down # <<>> /\ Head(down).kind = "CLOSE" /\ down' = Tail(down)
  /\ active' = FALSE
  /\ UNCHANGED <<session, client, up, serverAcks, stdin, driver, stdout, drained, inbound, shown, notice, resizes, beats>>

\* A CLOSE cancels the shell's context and closes its input: a read returns,
\* and a shell that writes sees it when it is done.
AgentCloses ==
  /\ stdin = 0 /\ down # <<>> /\ Head(down).kind = "CLOSE" /\ down' = Tail(down)
  /\ active' = FALSE
  /\ driver' = IF driver.pc = "read" THEN [driver EXCEPT !.pc = "exit"] ELSE driver
  /\ UNCHANGED <<session, client, up, serverAcks, stdin, stdout, drained, inbound, shown, notice, resizes, beats>>

\* A RESIZE goes to a channel that drops what does not fit.
AgentResizes ==
  /\ stdin = 0 /\ down # <<>> /\ Head(down).kind = "RESIZE" /\ down' = Tail(down)
  /\ resizes' = IF active /\ resizes < ResizeCap THEN resizes + 1 ELSE resizes
  /\ UNCHANGED <<session, client, up, serverAcks, active, stdin, driver, stdout, drained, inbound, shown, notice, beats>>

\* An ACK is not looked at.
AgentIgnores ==
  /\ stdin = 0 /\ down # <<>> /\ Head(down).kind = "ACK" /\ down' = Tail(down)
  /\ UNCHANGED <<session, client, up, serverAcks, active, stdin, driver, stdout, drained, inbound, shown, notice, resizes, beats>>

AgentReceives == AgentStarts \/ AgentWrites \/ AgentCloses \/ AgentResizes \/ AgentIgnores

\* A write to the output pipe returns when the output goroutine has read it.
OutputReads == stdout = 0 /\ ~notice

\* The banner, before the first read, and the farewell of a canceled shell.
ShellNotifies ==
  /\ driver.pc \in {"banner", "bye"} /\ OutputReads /\ notice' = TRUE
  /\ driver' = [driver EXCEPT !.pc = IF driver.pc = "bye" THEN "exit" ELSE IF active THEN "read" ELSE "bye"]
  /\ UNCHANGED <<session, client, down, up, serverAcks, active, stdin, stdout, drained, inbound, shown, resizes, beats>>

\* The goroutine beside the shell answers a resize; its write to the pipe of a
\* shell that returned fails.
ResizeAnswered ==
  /\ resizes > 0 /\ resizes' = resizes - 1
  /\ driver.pc # "exit" => OutputReads
  /\ notice' = (notice \/ driver.pc # "exit")
  /\ UNCHANGED <<session, client, down, up, serverAcks, active, stdin, driver, stdout, drained, inbound, shown, beats>>

ShellReads ==
  /\ driver.pc = "read" /\ stdin # 0 /\ stdin' = 0
  /\ driver' = [pc |-> "write", n |-> stdin]
  /\ UNCHANGED <<session, client, down, up, serverAcks, active, stdout, drained, inbound, shown, notice, resizes, beats>>

\* The echo; after an "exit" the shell returns and closes both pipes, and a
\* write that waits for it fails.  A canceled shell says farewell.
ShellEchoes(exits) ==
  /\ driver.pc = "write" /\ OutputReads /\ stdout' = driver.n
  /\ driver' = [driver EXCEPT !.pc = IF exits THEN "exit" ELSE IF active THEN "read" ELSE "bye"]
  /\ stdin' = IF driver'.pc = "exit" THEN 0 ELSE stdin
  /\ UNCHANGED <<session, client, down, up, serverAcks, active, drained, inbound, shown, notice, resizes, beats>>

\* The output goroutine: echoes and notices, and a CLOSE when the shell is gone.
OutputSends ==
  /\ Len(up) < Window /\ ~drained
  /\ \/ stdout # 0 /\ up' = Append(up, Msg("DATA", stdout)) /\ stdout' = 0 /\ UNCHANGED <<notice, drained>>
     \/ notice /\ up' = Append(up, Msg("NOTICE", 0)) /\ notice' = FALSE /\ UNCHANGED <<stdout, drained>>
     \/ /\ OutputReads /\ driver.pc = "exit" /\ up' = Append(up, Msg("CLOSE", 0))
        /\ drained' = TRUE /\ UNCHANGED <<stdout, notice>>
  /\ UNCHANGED <<session, client, down, serverAcks, active, stdin, driver, inbound, shown, resizes, beats>>

AgentBeats ==
  /\ beats < Beats /\ beats' = beats + 1
  /\ Len(up) < Window /\ up' = Append(up, Msg("BEAT", 0))
  /\ UNCHANGED <<session, client, down, serverAcks, active, stdin, driver, stdout, drained, inbound, shown, notice, resizes>>

Server == ServerReceives \/ ServerAcks
Handler == WriteClient \/ CloseSession
Shell == ShellReads \/ ShellNotifies \/ \E exits \in BOOLEAN : ShellEchoes(exits)

Next ==
  \/ StartSession \/ SendData \/ ResizeTerminal \/ ClientLeaves
  \/ Server \/ Handler \/ AgentReceives \/ Shell \/ ResizeAnswered \/ OutputSends \/ AgentBeats

\* What the client sees is what it typed, in that order, although echoes may
\* be missing: six queues and five goroutines lie between the two.
EchoInOrder == \A i, j \in DOMAIN shown : i < j => shown[i] < shown[j] /\ shown[j] <= client.typed

\* The one circle of goroutines that wait for each other: the server's receive
\* loop for room to acknowledge a heartbeat, the agent's for the shell to read
\* an input, the shell for the output goroutine, and that one for the server.
\* Both directions of the tunnel are full.
Jammed ==
  /\ serverAcks /\ Len(down) = Window /\ stdin # 0
  /\ driver.pc \in {"banner", "write"} /\ ~OutputReads /\ Len(up) = Window

\* A session that the client left is gone from both sides in the end: no
\* shell, no goroutine and no entry outlives it, also when the shell is busy
\* or ended first.  Only the circle above keeps one for ever.
NoneLeftBehind ==
  session # "none" /\ ~client.open =>
    Jammed \/ (session = "closed" /\ ~active /\ driver.pc = "exit" /\ drained)

SessionEnds == <>[]NoneLeftBehind

\* Fairness: every goroutine runs when its channel allows it, and the client
\* that is told to close does (WriteClient).
Fairness ==
  /\ WF_consVars(Server) /\ WF_consVars(Handler) /\ WF_consVars(AgentReceives)
  /\ WF_consVars(Shell) /\ WF_consVars(OutputSends)

Spec == Init /\ [][Next]_consVars

FairSpec == Spec /\ Fairness
=============================================================================
