-------------------------- MODULE RemoteConnection --------------------------
(***************************************************************************)
(* How a window keeps its connections to a remote server: the reconnection *)
(* loop of class PersistentConnection                                      *)
(* (src/src/vs/platform/remote/common/remoteAgentConnection.ts), the       *)
(* handshake, the server's connections with their grace timers, and the    *)
(* extension host process to which the server sends sockets                *)
(* (src/src/vs/server/node/*.ts, workbench/api/node/extensionHostProcess). *)
(*                                                                         *)
(* What flows over an established socket is the business of                *)
(* PersistentProtocol; here a socket is alive or not.  The sockets of a    *)
(* connection are numbered in the order in which the client opens them.    *)
(* Every attempt uses the connection's one reconnection token, so that the *)
(* connection itself stands for the token.                                 *)
(***************************************************************************)
EXTENDS Integers, Sequences

CONSTANTS Connection,   \* the PersistentConnections of a window
          Management,   \* the management connection; the others have an
                        \* extension host behind them
          MaxSockets,   \* bound: sockets of a connection, the first included
          MaxAttempts   \* attempts after which a network error is permanent
                        \* (360 in the code)

ASSUME ConnectionAssumption ==
  /\ Management \subseteq Connection
  /\ MaxSockets \in Nat \ {0}
  /\ MaxAttempts \in Nat

Sockets == 1 .. MaxSockets
NoSocket == 0
Reduce == -1            \* the other message to a process: reduce the grace time

VARIABLES
  \* PersistentConnection
  loop,             \* where the reconnection loop waits; "idle" is ~_isReconnecting
  attempt, isDisposed,
  permanentFailure, \* the static field
  status,           \* the last event of onDidStateChange
  \* its protocol
  socket,
  listening,        \* the protocol has not been disposed since its last socket
  closeSeen,        \* onSocketClose was fired for the current socket
  didSendDisconnect,
  \* the network
  opened, alive,
  phase,            \* what of the handshake a socket carries or has carried
  \* the server's connections: ManagementConnection, or, for an extension host,
  \* ExtensionHostConnection and the process behind it
  known,            \* _managementConnections, _extHostConnections
  serverSocket, serverCloseSeen, disconnectRunner1, disconnectRunner2,
  process, ready, connectionData,
  draining,         \* sockets whose writes are drained before they are sent
  ipc,              \* messages to the extension host process
  startTimer        \* the process has no socket yet

loopVars == <<loop, attempt, isDisposed, permanentFailure, status>>
protocolVars == <<socket, listening, closeSeen, didSendDisconnect>>
runnerVars == <<disconnectRunner1, disconnectRunner2>>
serverVars == <<known, serverSocket, serverCloseSeen, runnerVars>>
processVars == <<process, ready, connectionData, draining, ipc, startTimer>>
vars == <<loopVars, protocolVars, opened, alive, phase, serverVars, processVars>>

Loop == {"idle", "waiting", "resolving", "connecting", "handshaking"}
Status == {"ConnectionGain", "ReconnectionWait", "ReconnectionRunning",
           "ReconnectionPermanentFailure"}
Phase == {"none", "auth", "sign", "connectionType", "port", "ok", "error", "done",
          "disconnect", "bye"}

ClientOK ==
  /\ loop \in [Connection -> Loop]
  /\ attempt \in [Connection -> Nat]
  /\ isDisposed \in [Connection -> BOOLEAN]
  /\ permanentFailure \in BOOLEAN
  /\ status \in [Connection -> Status]
  /\ socket \in [Connection -> Sockets]
  /\ listening \in [Connection -> BOOLEAN]
  /\ closeSeen \in [Connection -> BOOLEAN]
  /\ didSendDisconnect \in [Connection -> BOOLEAN]

NetworkOK ==
  /\ opened \in [Connection -> Sockets]
  /\ alive \in [Connection -> [Sockets -> BOOLEAN]]
  /\ phase \in [Connection -> [Sockets -> Phase]]

ServerOK ==
  /\ known \in [Connection -> BOOLEAN]
  /\ serverSocket \in [Connection -> Sockets \cup {NoSocket}]
  /\ serverCloseSeen \in [Connection -> BOOLEAN]
  /\ disconnectRunner1 \in [Connection -> BOOLEAN]
  /\ disconnectRunner2 \in [Connection -> BOOLEAN]

ProcessOK ==
  /\ process \in [Connection -> {"none", "failed", "launched", "listening", "gone"}]
  /\ ready \in [Connection -> {"no", "sent", "read"}]
  /\ connectionData \in [Connection -> Sockets \cup {NoSocket}]
  /\ draining \in [Connection -> SUBSET Sockets]
  /\ ipc \in [Connection -> Seq(Sockets \cup {Reduce})]
  /\ startTimer \in [Connection -> BOOLEAN]

TypeOK == ClientOK /\ NetworkOK /\ ServerOK /\ ProcessOK

\* The first handshake of every connection is over; an extension host is not
\* yet started, and its connection keeps the socket for it.
Init ==
  /\ loop = [c \in Connection |-> "idle"]
  /\ attempt = [c \in Connection |-> 0]
  /\ isDisposed = [c \in Connection |-> FALSE]
  /\ permanentFailure = FALSE
  /\ status = [c \in Connection |-> "ConnectionGain"]
  /\ socket = [c \in Connection |-> 1]
  /\ listening = [c \in Connection |-> TRUE]
  /\ closeSeen = [c \in Connection |-> FALSE]
  /\ didSendDisconnect = [c \in Connection |-> FALSE]
  /\ opened = [c \in Connection |-> 1]
  /\ alive = [c \in Connection |-> [k \in Sockets |-> k = 1]]
  /\ phase = [c \in Connection |-> [k \in Sockets |-> IF k = 1 THEN "done" ELSE "none"]]
  /\ known = [c \in Connection |-> TRUE]
  /\ serverSocket = [c \in Connection |-> IF c \in Management THEN 1 ELSE NoSocket]
  /\ serverCloseSeen = [c \in Connection |-> FALSE]
  /\ disconnectRunner1 = [c \in Connection |-> FALSE]
  /\ disconnectRunner2 = [c \in Connection |-> FALSE]
  /\ process = [c \in Connection |-> "none"]
  /\ ready = [c \in Connection |-> "no"]
  /\ connectionData = [c \in Connection |-> IF c \in Management THEN NoSocket ELSE 1]
  /\ draining = [c \in Connection |-> {}]
  /\ ipc = [c \in Connection |-> <<>>]
  /\ startTimer = [c \in Connection |-> FALSE]

-----------------------------------------------------------------------------
(***************************************************************************)
(* The client's reconnection loop.                                         *)
(***************************************************************************)
\* alive with socket k of c closed.
Closed(a, c, k) == [a EXCEPT ![c] = [i \in Sockets |-> i # k /\ @[i]]]

\* Mutant: the emitter outlives its connection.
fireAlways(c, event) == status' = [status EXCEPT ![c] = event]

\* onDidStateChange fires, unless the connection is disposed.
fire(c, event) == status' = [status EXCEPT ![c] = IF isDisposed[c] THEN @ ELSE event]

\* _beginReconnecting: one loop at a time.  The first attempt does not wait:
\* ConnectionLost is followed by ReconnectionRunning in the same task.
beginReconnecting(c) ==
  IF loop[c] = "idle" /\ ~permanentFailure /\ ~isDisposed[c]
    THEN /\ loop' = [loop EXCEPT ![c] = "resolving"]
         /\ attempt' = [attempt EXCEPT ![c] = 0]
         /\ fire(c, "ReconnectionRunning")
    ELSE UNCHANGED <<loop, attempt, status>>

onSocketClose(c) ==
  /\ listening[c] /\ ~closeSeen[c]
  /\ ~alive[c][socket[c]]
  /\ closeSeen' = [closeSeen EXCEPT ![c] = TRUE]
  /\ beginReconnecting(c)
  /\ UNCHANGED <<isDisposed, permanentFailure, socket, listening, didSendDisconnect, opened,
                 alive, phase, serverVars, processVars>>

\* The protocol fires onSocketTimeout on a silent socket, but not while it is
\* between two sockets.
onSocketTimeout(c) ==
  /\ listening[c] /\ loop[c] = "idle"
  /\ beginReconnecting(c)
  /\ UNCHANGED <<isDisposed, permanentFailure, protocolVars, opened, alive, phase,
                 serverVars, processVars>>

\* Mutant: the loop does not look whether there was a permanent failure.
wakeUpAnyway(c) ==
  /\ loop[c] = "waiting"
  /\ loop' = [loop EXCEPT ![c] = "resolving"]
  /\ fire(c, "ReconnectionRunning")
  /\ UNCHANGED <<attempt, isDisposed, permanentFailure, protocolVars, opened, alive, phase,
                 serverVars, processVars>>

\* The wait before an attempt is over, or the user skips it.
wakeUp(c) ==
  /\ loop[c] = "waiting"
  /\ loop' = [loop EXCEPT ![c] = IF permanentFailure THEN "idle" ELSE "resolving"]
  /\ IF permanentFailure THEN UNCHANGED status ELSE fire(c, "ReconnectionRunning")
  /\ UNCHANGED <<attempt, isDisposed, permanentFailure, protocolVars, opened, alive, phase,
                 serverVars, processVars>>

resolveConnectionOptions(c) ==
  /\ loop[c] = "resolving"
  /\ loop' = [loop EXCEPT ![c] = "connecting"]
  /\ UNCHANGED <<attempt, isDisposed, permanentFailure, status, protocolVars, opened, alive,
                 phase, serverVars, processVars>>

\* createSocket succeeds in time: beginAcceptReconnection disposes the previous
\* socket, and the AuthRequest is sent.
createSocket(c) ==
  LET k == opened[c] + 1
  IN  /\ loop[c] = "connecting"
      /\ k <= MaxSockets
      /\ loop' = [loop EXCEPT ![c] = "handshaking"]
      /\ opened' = [opened EXCEPT ![c] = k]
      /\ alive' = [alive EXCEPT ![c][socket[c]] = FALSE, ![c][k] = TRUE]
      /\ phase' = [phase EXCEPT ![c][k] = "auth"]
      /\ socket' = [socket EXCEPT ![c] = k]
      /\ listening' = [listening EXCEPT ![c] = TRUE]
      /\ closeSeen' = [closeSeen EXCEPT ![c] = FALSE]
      /\ UNCHANGED <<attempt, isDisposed, permanentFailure, status, didSendDisconnect,
                     serverVars, processVars>>

\* The client reads what the server has answered.
Reads(c, answer) ==
  /\ loop[c] = "handshaking"
  /\ listening[c] /\ ~closeSeen[c]
  /\ phase[c][socket[c]] = answer

receiveSign(c) ==
  /\ Reads(c, "sign")
  /\ phase' = [phase EXCEPT ![c][socket[c]] = "connectionType"]
  /\ UNCHANGED <<loopVars, protocolVars, opened, alive, serverVars, processVars>>

\* The handshake is finished: endAcceptReconnection, and the loop ends.  What
\* was not acknowledged is sent again, and so a Terminate, but no Disconnect.
receiveOk(c) ==
  /\ Reads(c, "ok")
  /\ phase' = [phase EXCEPT ![c][socket[c]] =
       IF didSendDisconnect[c] /\ c \notin Management THEN "disconnect" ELSE "done"]
  /\ loop' = [loop EXCEPT ![c] = "idle"]
  /\ fire(c, "ConnectionGain")
  /\ UNCHANGED <<attempt, isDisposed, permanentFailure, protocolVars, opened, alive,
                 serverVars, processVars>>

\* sendDisconnect, once; the extension host is also told to Terminate.
SaidGoodbye(c) == [phase EXCEPT ![c][socket[c]] =
  IF alive[c][socket[c]] /\ @ = "done" /\ ~didSendDisconnect[c] THEN "disconnect" ELSE @]

\* _gotoPermanentFailure of every connection in failing: an event, and protocol
\* and socket are disposed.  The management connection is disposed by who created
\* it as soon as its protocol is (AbstractRemoteAgentService), with a good-bye.
gotoPermanentFailure(failing) ==
  /\ status' = [c \in Connection |-> IF c \in failing /\ ~isDisposed[c]
                                       THEN "ReconnectionPermanentFailure" ELSE status[c]]
  /\ listening' = [c \in Connection |-> listening[c] /\ c \notin failing]
  /\ alive' = [c \in Connection |-> IF c \in failing THEN Closed(alive, c, socket[c])[c]
                                                     ELSE alive[c]]
  /\ phase' = [c \in Connection |-> IF c \in failing \cap Management THEN SaidGoodbye(c)[c]
                                                                     ELSE phase[c]]
  /\ isDisposed' = [c \in Connection |-> isDisposed[c] \/ c \in failing \cap Management]
  /\ didSendDisconnect' =
       [c \in Connection |-> didSendDisconnect[c] \/ c \in failing \cap Management]

Instances == {c \in Connection : ~isDisposed[c]}

\* The management connection takes itself off _instances while the list is being
\* walked, and the walk passes over the connection behind it.
PassedOver == {c \in Instances \ Management : Instances \cap Management # {}}

triggerPermanentFailure ==
  /\ permanentFailure' = TRUE
  /\ \E failing \in {Instances} \cup {Instances \ {c} : c \in PassedOver} :
       gotoPermanentFailure(failing)

\* _onReconnectionPermanentFailure: only the management connection's failure is
\* fatal for the whole window.
onReconnectionPermanentFailure(c) ==
  /\ loop' = [loop EXCEPT ![c] = "idle"]
  /\ \/ c \in Management /\ triggerPermanentFailure
     \/ c \notin Management /\ gotoPermanentFailure({c}) /\ UNCHANGED permanentFailure
  /\ UNCHANGED <<attempt, socket, closeSeen, opened, serverVars, processVars>>

receiveError(c) ==
  /\ Reads(c, "error")
  /\ onReconnectionPermanentFailure(c)

\* Mutant: the attempts are not counted.
attemptTimesOutUncounted(c) ==
  /\ loop[c] \in {"resolving", "connecting", "handshaking"}
  /\ IF permanentFailure \/ isDisposed[c]
       THEN loop' = [loop EXCEPT ![c] = "idle"] /\ UNCHANGED status
       ELSE loop' = [loop EXCEPT ![c] = "waiting"] /\ fire(c, "ReconnectionWait")
  /\ UNCHANGED <<attempt, isDisposed, permanentFailure, protocolVars, opened, alive, phase,
                 serverVars, processVars>>

\* Mutant: the loop ends with the first error.
attemptTimesOutOnce(c) ==
  /\ loop[c] \in {"resolving", "connecting", "handshaking"}
  /\ loop' = [loop EXCEPT ![c] = "idle"]
  /\ UNCHANGED <<attempt, status, isDisposed, permanentFailure, protocolVars, opened, alive, phase,
                 serverVars, processVars>>

\* An attempt ends with a network error or a timeout: it is tried again after a
\* while, until there have been too many.
attemptTimesOut(c) ==
  /\ loop[c] \in {"resolving", "connecting", "handshaking"}
  /\ \/ /\ attempt[c] > MaxAttempts
        /\ onReconnectionPermanentFailure(c)
     \/ /\ attempt[c] <= MaxAttempts
        /\ IF permanentFailure \/ isDisposed[c]
             THEN /\ loop' = [loop EXCEPT ![c] = "idle"]
                  /\ UNCHANGED <<attempt, status>>
             ELSE /\ loop' = [loop EXCEPT ![c] = "waiting"]
                  /\ attempt' = [attempt EXCEPT ![c] = @ + 1]
                  /\ fire(c, "ReconnectionWait")
        /\ UNCHANGED <<isDisposed, permanentFailure, protocolVars, opened, alive, phase,
                       serverVars, processVars>>

\* An attempt ends with an error that is not a network error, for instance of
\* the resolver or because the server's signature is not valid.
attemptFails(c) ==
  /\ loop[c] \in {"resolving", "connecting", "handshaking"}
  /\ onReconnectionPermanentFailure(c)

\* createInitialConnection gives up on yet another connection of the window.
initialConnectionFails ==
  /\ ~permanentFailure
  /\ triggerPermanentFailure
  /\ UNCHANGED <<loop, attempt, socket, closeSeen, opened, serverVars, processVars>>

\* The window shuts down (RemoteAgentConnection.end, RemoteExtensionHost.disconnect).
disconnect(c) ==
  /\ listening[c] /\ ~didSendDisconnect[c]
  /\ didSendDisconnect' = [didSendDisconnect EXCEPT ![c] = TRUE]
  /\ phase' = SaidGoodbye(c)
  /\ UNCHANGED <<loopVars, socket, listening, closeSeen, opened, alive, serverVars, processVars>>

\* dispose of a connection that says good-bye and ends its socket.  Client
\* disposes the protocol as well, RemoteExtensionHost does not.  In either case a
\* running loop is not stopped.
disposeClient(c) ==
  /\ isDisposed' = [isDisposed EXCEPT ![c] = TRUE]
  /\ didSendDisconnect' = [didSendDisconnect EXCEPT ![c] = TRUE]
  /\ listening' = [listening EXCEPT ![c] = @ /\ c \notin Management]
  /\ alive' = Closed(alive, c, socket[c])
  /\ UNCHANGED <<loop, attempt, permanentFailure, status, socket, closeSeen, opened,
                 serverVars, processVars>>

\* The owner disposes the connection.  A RemoteExtensionHost that is not yet
\* initialized has no protocol to say good-bye with.
dispose(c) ==
  /\ ~isDisposed[c]
  /\ \/ phase' = SaidGoodbye(c) /\ disposeClient(c)
     \/ /\ c \notin Management
        /\ isDisposed' = [isDisposed EXCEPT ![c] = TRUE]
        /\ UNCHANGED <<loop, attempt, permanentFailure, status, protocolVars, opened, alive,
                       phase, serverVars, processVars>>

\* The server has said good-bye: its management connection is disposed.
receiveBye(c) ==
  /\ listening[c] /\ ~closeSeen[c]
  /\ phase[c][socket[c]] = "bye"
  /\ phase' = [phase EXCEPT ![c][socket[c]] = "done"]
  /\ disposeClient(c)

-----------------------------------------------------------------------------
(***************************************************************************)
(* The server: handshake (_handleWebSocketConnection).  What a client sent *)
(* before it closed its socket may still be read.                          *)
(***************************************************************************)
\* An error is sent and the socket closed (_rejectWebSocketConnection).
reject(c, k) ==
  /\ phase' = [phase EXCEPT ![c][k] = "error"]
  /\ alive' = Closed(alive, c, k)

\* The AuthRequest is answered with a SignRequest, or refused.
receiveAuth(c, k) ==
  /\ phase[c][k] = "auth"
  /\ \/ phase' = [phase EXCEPT ![c][k] = "sign"] /\ UNCHANGED alive
     \/ reject(c, k)
  /\ UNCHANGED <<loopVars, protocolVars, opened, serverVars, processVars>>

\* shortenReconnectionGraceTimeIfNecessary: every connection whose client is
\* away will wait only a short time from now on.
Shortened == [c \in Connection |->
  disconnectRunner2[c] \/ (c \in Management /\ known[c] /\ disconnectRunner1[c])]

\* The extension host processes are told to decide for themselves.
Told == [c \in Connection |->
  IF known[c] /\ process[c] \in {"launched", "listening"} THEN Append(ipc[c], Reduce) ELSE ipc[c]]

\* Mutant: the short timer goes on.
continueOnKeepsTimer(c, k, runner2) ==
  /\ alive' = Closed(alive, c, serverSocket[c])
  /\ serverSocket' = [serverSocket EXCEPT ![c] = k]
  /\ serverCloseSeen' = [serverCloseSeen EXCEPT ![c] = FALSE]
  /\ disconnectRunner1' = [disconnectRunner1 EXCEPT ![c] = FALSE]
  /\ disconnectRunner2' = runner2

\* The protocol of the server or of the extension host process continues on
\* socket k: the timers are cancelled and its previous socket is disposed.
continueOn(c, k, runner2) ==
  /\ alive' = Closed(alive, c, serverSocket[c])
  /\ serverSocket' = [serverSocket EXCEPT ![c] = k]
  /\ serverCloseSeen' = [serverCloseSeen EXCEPT ![c] = FALSE]
  /\ disconnectRunner1' = [disconnectRunner1 EXCEPT ![c] = FALSE]
  /\ disconnectRunner2' = [runner2 EXCEPT ![c] = FALSE]

\* The ConnectionTypeRequest is valid, or refused.  A management connection is
\* continued in the same task; for an extension host a port is looked for.
receiveConnectionType(c, k) ==
  /\ phase[c][k] = "connectionType"
  /\ \/ /\ reject(c, k)
        /\ UNCHANGED <<serverSocket, serverCloseSeen, runnerVars, ipc>>
     \/ /\ ipc' = Told
        /\ \/ /\ c \in Management /\ known[c]
              /\ phase' = [phase EXCEPT ![c][k] = "ok"]
              /\ continueOn(c, k, Shortened)
           \/ /\ c \in Management /\ ~known[c]
              /\ reject(c, k)
              /\ disconnectRunner2' = Shortened
              /\ UNCHANGED <<serverSocket, serverCloseSeen, disconnectRunner1>>
           \/ /\ c \notin Management
              /\ phase' = [phase EXCEPT ![c][k] = "port"]
              /\ disconnectRunner2' = Shortened
              /\ UNCHANGED <<alive, serverSocket, serverCloseSeen, disconnectRunner1>>
  /\ UNCHANGED <<loopVars, protocolVars, opened, known, process, ready, connectionData,
                 draining, startTimer>>

\* _updateWithFreeDebugPort is done: the socket is kept for the extension host,
\* or drained and then sent to its process (ExtensionHostConnection.acceptReconnection).
acceptReconnection(c, k) ==
  /\ phase[c][k] = "port"
  /\ \/ /\ ~known[c]
        /\ reject(c, k)
        /\ UNCHANGED <<connectionData, draining>>
     \/ /\ known[c]
        /\ phase' = [phase EXCEPT ![c][k] = "ok"]
        /\ IF process[c] \in {"none", "failed"}
             THEN /\ connectionData' = [connectionData EXCEPT ![c] = k]
                  /\ UNCHANGED draining
             ELSE /\ draining' = [draining EXCEPT ![c] = @ \cup {k}]
                  /\ UNCHANGED connectionData
        /\ UNCHANGED alive
  /\ UNCHANGED <<loopVars, protocolVars, opened, serverVars, process, ready, ipc, startTimer>>

-----------------------------------------------------------------------------
(***************************************************************************)
(* The end of a connection.  Its client has gone for too long or has said  *)
(* good-bye; an extension host process may also end by itself.             *)
(***************************************************************************)
\* The connection belongs to the server process, or to a running process.
Running(c) == IF c \in Management THEN known[c] ELSE process[c] = "listening"

\* Mutant: the socket is not ended.
cleanResourcesKeepsSocket(c) ==
  /\ known' = [known EXCEPT ![c] = FALSE]
  /\ disconnectRunner1' = [disconnectRunner1 EXCEPT ![c] = FALSE]
  /\ disconnectRunner2' = [disconnectRunner2 EXCEPT ![c] = FALSE]
  /\ UNCHANGED <<alive, phase, processVars>>

\* ManagementConnection._cleanResources: a Disconnect, and the socket is ended.
cleanResources(c) ==
  /\ known' = [known EXCEPT ![c] = FALSE]
  /\ disconnectRunner1' = [disconnectRunner1 EXCEPT ![c] = FALSE]
  /\ disconnectRunner2' = [disconnectRunner2 EXCEPT ![c] = FALSE]
  /\ alive' = Closed(alive, c, serverSocket[c])
  /\ phase' = [phase EXCEPT ![c][serverSocket[c]] =
       IF alive[c][serverSocket[c]] THEN "bye" ELSE IF @ = "disconnect" THEN "done" ELSE @]
  /\ UNCHANGED processVars

\* The extension host process ends, and with it all that was sent to it.
terminate(c) ==
  /\ process' = [process EXCEPT ![c] = "gone"]
  /\ disconnectRunner1' = [disconnectRunner1 EXCEPT ![c] = FALSE]
  /\ disconnectRunner2' = [disconnectRunner2 EXCEPT ![c] = FALSE]
  /\ startTimer' = [startTimer EXCEPT ![c] = FALSE]
  /\ ipc' = [ipc EXCEPT ![c] = <<>>]
  /\ alive' = [alive EXCEPT ![c] = [k \in Sockets |->
       @[k] /\ k # serverSocket[c] /\ \A i \in 1 .. Len(ipc[c]) : ipc[c][i] # k]]
  /\ phase' = [phase EXCEPT ![c] = [k \in Sockets |->
       IF @[k] = "disconnect" THEN "done" ELSE @[k]]]
  /\ UNCHANGED <<known, ready, connectionData, draining>>

end(c) ==
  /\ IF c \in Management THEN cleanResources(c) ELSE terminate(c)
  /\ UNCHANGED <<loopVars, protocolVars, opened, serverSocket, serverCloseSeen>>

\* The socket has closed: the client gets some time to reconnect.
\* Mutant: no timer is started.
onServerSocketCloseForgets(c) ==
  /\ Running(c) /\ ~serverCloseSeen[c]
  /\ serverSocket[c] # NoSocket /\ ~alive[c][serverSocket[c]]
  /\ serverCloseSeen' = [serverCloseSeen EXCEPT ![c] = TRUE]
  /\ UNCHANGED <<loopVars, protocolVars, opened, alive, phase, known, serverSocket,
                 runnerVars, processVars>>

onServerSocketClose(c) ==
  /\ Running(c) /\ ~serverCloseSeen[c]
  /\ serverSocket[c] # NoSocket /\ ~alive[c][serverSocket[c]]
  /\ serverCloseSeen' = [serverCloseSeen EXCEPT ![c] = TRUE]
  /\ disconnectRunner1' = [disconnectRunner1 EXCEPT ![c] = TRUE]
  /\ UNCHANGED <<loopVars, protocolVars, opened, alive, phase, known, serverSocket,
                 disconnectRunner2, processVars>>

graceTimeExpires(c) ==
  /\ disconnectRunner1[c] \/ disconnectRunner2[c]
  /\ end(c)

receiveDisconnect(c) ==
  /\ Running(c) /\ ~serverCloseSeen[c]
  /\ serverSocket[c] # NoSocket
  /\ phase[c][serverSocket[c]] = "disconnect"
  /\ end(c)

\* The process has got no socket within a minute of asking for it.
startTimerFires(c) ==
  /\ startTimer[c]
  /\ end(c)

\* The extension host process ends by itself.
exit(c) ==
  /\ process[c] \in {"launched", "listening"}
  /\ end(c)

\* The server notices (ExtensionHostConnection._cleanResources).
onExit(c) ==
  /\ process[c] = "gone" /\ known[c]
  /\ known' = [known EXCEPT ![c] = FALSE]
  /\ alive' = Closed(alive, c, connectionData[c])
  /\ connectionData' = [connectionData EXCEPT ![c] = NoSocket]
  /\ UNCHANGED <<loopVars, protocolVars, opened, phase, serverSocket, serverCloseSeen,
                 runnerVars, process, ready, draining, ipc, startTimer>>

-----------------------------------------------------------------------------
(***************************************************************************)
(* ExtensionHostConnection and its process.                                *)
(***************************************************************************)
\* The process is launched; an error on the way is only logged.
start(c) ==
  /\ c \notin Management /\ process[c] = "none"
  /\ \E outcome \in {"launched", "failed"} : process' = [process EXCEPT ![c] = outcome]
  /\ UNCHANGED <<loopVars, protocolVars, opened, alive, phase, serverVars, ready,
                 connectionData, draining, ipc, startTimer>>

\* The process listens to its parent and says so (VSCODE_EXTHOST_IPC_READY).
sendReady(c) ==
  /\ process[c] = "launched"
  /\ process' = [process EXCEPT ![c] = "listening"]
  /\ ready' = [ready EXCEPT ![c] = "sent"]
  /\ startTimer' = [startTimer EXCEPT ![c] = TRUE]
  /\ UNCHANGED <<loopVars, protocolVars, opened, alive, phase, serverVars, connectionData,
                 draining, ipc>>

\* The server drains the socket it has kept, once.
\* Mutant: it goes on to listen for the message.
receiveReadyAgain(c) ==
  /\ ready[c] = "sent" /\ known[c]
  /\ draining' = [draining EXCEPT ![c] = @ \cup {connectionData[c]}]
  /\ connectionData' = [connectionData EXCEPT ![c] = NoSocket]
  /\ UNCHANGED <<loopVars, protocolVars, opened, alive, phase, serverVars, process, ready, ipc,
                 startTimer>>

receiveReady(c) ==
  /\ ready[c] = "sent" /\ known[c]
  /\ ready' = [ready EXCEPT ![c] = "read"]
  /\ draining' = [draining EXCEPT ![c] = @ \cup {connectionData[c]}]
  /\ connectionData' = [connectionData EXCEPT ![c] = NoSocket]
  /\ UNCHANGED <<loopVars, protocolVars, opened, alive, phase, serverVars, process, ipc,
                 startTimer>>

\* A socket is drained and sent; a process that is gone does not get it, and
\* nobody closes the socket.
sendSocket(c, k) ==
  /\ k \in draining[c]
  /\ draining' = [draining EXCEPT ![c] = @ \ {k}]
  /\ ipc' = IF process[c] = "gone" THEN ipc ELSE [ipc EXCEPT ![c] = Append(@, k)]
  /\ UNCHANGED <<loopVars, protocolVars, opened, alive, phase, serverVars, process, ready,
                 connectionData, startTimer>>

\* VSCODE_EXTHOST_IPC_REDUCE_GRACE_TIME.
receiveReduceGraceTime(c) ==
  /\ Head(ipc[c]) = Reduce
  /\ disconnectRunner2' =
       [disconnectRunner2 EXCEPT ![c] = @ \/ disconnectRunner1[c]]
  /\ UNCHANGED <<alive, serverSocket, serverCloseSeen, disconnectRunner1, startTimer>>

\* VSCODE_EXTHOST_IPC_SOCKET: the first socket, or the next one.
receiveSocket(c) ==
  /\ Head(ipc[c]) # Reduce
  /\ continueOn(c, Head(ipc[c]), disconnectRunner2)
  /\ startTimer' = [startTimer EXCEPT ![c] = FALSE]

receiveIpc(c) ==
  /\ process[c] = "listening" /\ ipc[c] # <<>>
  /\ ipc' = [ipc EXCEPT ![c] = Tail(@)]
  /\ receiveReduceGraceTime(c) \/ receiveSocket(c)
  /\ UNCHANGED <<loopVars, protocolVars, opened, phase, known, process, ready,
                 connectionData, draining>>

-----------------------------------------------------------------------------
\* The network (external): a socket breaks.
breakSocket(c, k) ==
  /\ alive[c][k]
  /\ alive' = Closed(alive, c, k)
  /\ UNCHANGED <<loopVars, protocolVars, opened, phase, serverVars, processVars>>

ClientStep(c) ==
  \/ onSocketClose(c) \/ onSocketTimeout(c)
  \/ wakeUp(c) \/ resolveConnectionOptions(c) \/ createSocket(c)
  \/ receiveSign(c) \/ receiveOk(c) \/ receiveError(c)
  \/ attemptTimesOut(c) \/ attemptFails(c)
  \/ disconnect(c) \/ dispose(c) \/ receiveBye(c)

ServerStep(c) ==
  \/ \E k \in Sockets :
       receiveAuth(c, k) \/ receiveConnectionType(c, k) \/ acceptReconnection(c, k)
  \/ onServerSocketClose(c) \/ graceTimeExpires(c) \/ receiveDisconnect(c)
  \/ start(c) \/ receiveReady(c) \/ onExit(c)
  \/ \E k \in Sockets : sendSocket(c, k)

ProcessStep(c) == sendReady(c) \/ receiveIpc(c) \/ startTimerFires(c) \/ exit(c)

Next ==
  \/ initialConnectionFails
  \/ \E c \in Connection :
       \/ ClientStep(c) \/ ServerStep(c) \/ ProcessStep(c)
       \/ \E k \in Sockets : breakSocket(c, k)

Spec == Init /\ [][Next]_vars

\* Events of sockets are reported and timers fire, processes read their messages,
\* and an attempt ends: what it awaits is raced with a timeout, but for the
\* resolver, which is assumed to answer.  Nothing is assumed of the network, of
\* the user, or of an attempt's success.
Fairness == \A c \in Connection :
  /\ WF_vars(onSocketClose(c))
  /\ WF_vars(wakeUp(c))
  /\ WF_vars(attemptTimesOut(c))
  /\ WF_vars(onServerSocketClose(c))
  /\ WF_vars(graceTimeExpires(c))
  /\ WF_vars(start(c))
  /\ WF_vars(sendReady(c))
  /\ WF_vars(receiveReady(c))
  /\ WF_vars(receiveIpc(c))
  /\ WF_vars(startTimerFires(c))
  /\ WF_vars(onExit(c))
  /\ \A k \in Sockets : WF_vars(sendSocket(c, k))

FairSpec == Spec /\ Fairness

-----------------------------------------------------------------------------
(***************************************************************************)
(* Properties.                                                             *)
(***************************************************************************)
\* A grace timer runs only while the client is away: whatever closes late, and
\* whoever shortens the timers of other connections meanwhile, a client that is
\* back is never disposed for having been away (disconnectRunner1 and 2).
GraceMeansDisconnected == \A c \in Connection :
  disconnectRunner1[c] \/ disconnectRunner2[c]
    => serverSocket[c] # NoSocket /\ ~alive[c][serverSocket[c]]

\* When an extension host process asks for its socket there is one for it
\* (this._connectionData! in start), however often the client has reconnected
\* or given up while the process was being started.
SocketIsKept == \A c \in Connection :
  known[c] /\ ready[c] = "sent" => connectionData[c] # NoSocket

\* The close event of a socket is never lost: an event that finds the loop
\* running is ignored by _beginReconnecting, and then the loop goes on until
\* there is another socket, the connection has failed, or it is disposed.
CloseIsHandled == \A c \in Connection :
  closeSeen[c] /\ listening[c] /\ ~isDisposed[c] /\ ~permanentFailure => loop[c] # "idle"

\* A management connection that its window believes to be up, on a socket that
\* is alive, is served: the server has that connection and continues it on that
\* very socket, even if requests of earlier attempts arrive late.
ConnectedIsServed == \A c \in Management :
  loop[c] = "idle" /\ listening[c] /\ ~isDisposed[c] /\ alive[c][socket[c]]
    => known[c] /\ serverSocket[c] = socket[c]

\* The permanent failure of the management connection is the last that its
\* window hears of it: an attempt that is still running when another
\* connection's failure becomes fatal cannot report a ConnectionGain.
FailureIsFinal ==
  [][\A c \in Management : status[c] = "ReconnectionPermanentFailure"
                             => status'[c] = "ReconnectionPermanentFailure"]_vars

\* A management connection that was lost is regained or fails for good, or it is
\* disposed: the loop never waits for something that does not come.  Of another
\* connection this is not true: it may be PassedOver.
LostIsResolved == \A c \in Management :
  status[c] \in {"ReconnectionWait", "ReconnectionRunning"}
    ~> \/ status[c] \in {"ConnectionGain", "ReconnectionPermanentFailure"}
       \/ isDisposed[c]

\* The server's connection continues on a socket that is up.
ClientIsBack(c) == \E k \in Sockets : k = serverSocket[c] /\ alive[c][k]

\* A connection of the server whose client has gone does not live for ever: the
\* client comes back, or the connection is disposed.  This holds through the
\* hand-over of sockets and the start of an extension host process, if it
\* starts at all.
AbandonedIsDisposed == \A c \in Connection :
  (known[c] /\ process[c] # "failed" /\ serverSocket[c] # NoSocket /\ ~ClientIsBack(c))
    ~> (~known[c] \/ ClientIsBack(c))

\* Once a failure is fatal for the window, no connection begins another attempt,
\* not even one whose loop was waiting: the static _permanentFailure is seen by
\* all the loops.
FailureStopsLoops ==
  [][\A c \in Connection :
       permanentFailure /\ loop'[c] = "resolving" => loop[c] = "resolving"]_vars

=============================================================================
