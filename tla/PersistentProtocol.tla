------------------------- MODULE PersistentProtocol -------------------------
(***************************************************************************)
(* The persistent message protocol between the workbench (the client) and  *)
(* a remote server or its extension host (the server):                     *)
(* src/src/vs/base/parts/ipc/common/ipc.net.ts, class PersistentProtocol   *)
(* with its ProtocolWriter, at both ends of a sequence of sockets.         *)
(*                                                                         *)
(* A socket carries whole messages in order and may break at any moment,   *)
(* losing what it still carries.  The client then opens the next socket    *)
(* and asks the server, with a control message, to continue the same       *)
(* protocol object on it; each end sends again what the other has not      *)
(* acknowledged.  Time is abstract: a timer is armed or not, and may fire  *)
(* at any moment after it was armed.                                       *)
(***************************************************************************)
EXTENDS Integers, Sequences

CONSTANTS Payload,      \* what the application sends
          MaxMessages,  \* bound: Regular messages sent by each end
          MaxSockets,   \* bound: sockets ever opened, the first included
          MaxInFlight,  \* bound: unread messages of an end from which it sends no KeepAlive
          ExtHost,      \* the server end is an extension host process
          Lossy         \* a live socket may lose messages

ASSUME BoundsAssumption ==
  /\ MaxSockets \in Nat \ {0}
  /\ MaxInFlight \in Nat
  /\ ExtHost \in BOOLEAN
  /\ Lossy \in BOOLEAN

Client == "client"
Server == "server"
Ends == {Client, Server}
Peer(e) == IF e = Client THEN Server ELSE Client

ASSUME MaxMessagesAssumption == MaxMessages \in [Ends -> Nat]

Sockets == 1 .. MaxSockets

(***************************************************************************)
(* Messages (class ProtocolMessage).  "empty" is getEmptyBuffer().         *)
(***************************************************************************)
ASSUME PayloadAssumption ==
  Payload \cap {"empty", "connectionType", "ok"} = {}

MessageType ==
  {"Regular", "Control", "Ack", "ReplayRequest", "Pause", "Resume", "KeepAlive"}

ProtocolMessage ==
  [type : MessageType, id : Nat, ack : Nat,
   data : Payload \cup {"empty", "connectionType", "ok"}]

Message(type, id, ack, data) ==
  [type |-> type, id |-> id, ack |-> ack, data |-> data]

ConnectionType == Message("Control", 0, 0, "connectionType")
Ok == Message("Control", 0, 0, "ok")

-----------------------------------------------------------------------------
VARIABLES
  \* PersistentProtocol, one per end
  isReconnecting, outgoingUnackMsg, outgoingMsgId, outgoingAckId,
  incomingMsgId, incomingAckId,
  outgoingAckTimeout,   \* the timer of _recvAckCheck is armed
  incomingAckTimeout,   \* the timer of _sendAckCheck is armed
  incomingFresh,        \* a message came after that timer was armed
  outgoingStale,        \* TimeoutTime has passed since the oldest unacknowledged
                        \* message was written, since data was read and since
                        \* the last socket timeout
  onSocketTimeout,      \* a socket timeout was fired on the current socket
  replayQuiet,          \* a ReplayRequest was written less than 10 s ago
  \* ProtocolWriter, one per end
  writerData, isPaused, writeNowTimeout,
  \* sockets
  socket,               \* the socket of each end
  opened,               \* how many sockets were ever opened
  alive, wire,          \* wire[k][e]: in flight on socket k towards end e
  handoff,              \* accepted sockets on their way to the extension host
  awaitingOk,           \* the client's reconnection attempt has not timed out
  \* what the application sent and got: history
  sent, received

outVars == <<outgoingUnackMsg, outgoingMsgId, outgoingAckId>>
inVars == <<incomingMsgId, incomingAckId>>
outTimerVars == <<outgoingAckTimeout, outgoingStale, onSocketTimeout>>
inTimerVars == <<incomingAckTimeout, incomingFresh>>
writerVars == <<writerData, isPaused, writeNowTimeout>>
netVars == <<socket, opened, alive, wire, handoff>>
connVars == <<isReconnecting, awaitingOk>>
histVars == <<sent, received>>
vars == <<outVars, inVars, outTimerVars, inTimerVars, replayQuiet,
          writerVars, netVars, connVars, histVars>>

CountersOK ==
  /\ outgoingMsgId \in [Ends -> Nat]
  /\ outgoingAckId \in [Ends -> Nat]
  /\ incomingMsgId \in [Ends -> Nat]
  /\ incomingAckId \in [Ends -> Nat]

TimersOK ==
  /\ outgoingAckTimeout \in [Ends -> BOOLEAN]
  /\ incomingAckTimeout \in [Ends -> BOOLEAN]
  /\ incomingFresh \in [Ends -> BOOLEAN]
  /\ outgoingStale \in [Ends -> BOOLEAN]
  /\ onSocketTimeout \in [Ends -> BOOLEAN]
  /\ replayQuiet \in [Ends -> BOOLEAN]
  /\ writeNowTimeout \in [Ends -> BOOLEAN]

FlagsOK ==
  /\ isReconnecting \in [Ends -> BOOLEAN]
  /\ isPaused \in [Ends -> BOOLEAN]
  /\ awaitingOk \in BOOLEAN

BuffersOK ==
  /\ outgoingUnackMsg \in [Ends -> Seq(ProtocolMessage)]
  /\ writerData \in [Ends -> Seq(ProtocolMessage)]
  /\ wire \in [Sockets -> [Ends -> Seq(ProtocolMessage)]]

SocketsOK ==
  /\ socket \in [Ends -> Sockets]
  /\ opened \in Sockets
  /\ alive \in [Sockets -> BOOLEAN]
  /\ handoff \in SUBSET Sockets

HistoryOK ==
  /\ sent \in [Ends -> Seq(Payload)]
  /\ received \in [Ends -> Seq(Payload)]

TypeOK ==
  CountersOK /\ TimersOK /\ FlagsOK /\ BuffersOK /\ SocketsOK /\ HistoryOK

\* The state after the first handshake: both ends use socket 1.
Init ==
  /\ isReconnecting = [e \in Ends |-> FALSE]
  /\ outgoingUnackMsg = [e \in Ends |-> <<>>]
  /\ outgoingMsgId = [e \in Ends |-> 0]
  /\ outgoingAckId = [e \in Ends |-> 0]
  /\ incomingMsgId = [e \in Ends |-> 0]
  /\ incomingAckId = [e \in Ends |-> 0]
  /\ outgoingAckTimeout = [e \in Ends |-> FALSE]
  /\ incomingAckTimeout = [e \in Ends |-> FALSE]
  /\ incomingFresh = [e \in Ends |-> FALSE]
  /\ outgoingStale = [e \in Ends |-> FALSE]
  /\ onSocketTimeout = [e \in Ends |-> FALSE]
  /\ replayQuiet = [e \in Ends |-> FALSE]
  /\ writerData = [e \in Ends |-> <<>>]
  /\ isPaused = [e \in Ends |-> FALSE]
  /\ writeNowTimeout = [e \in Ends |-> FALSE]
  /\ socket = [e \in Ends |-> 1]
  /\ opened = 1
  /\ alive = [k \in Sockets |-> k = 1]
  /\ wire = [k \in Sockets |-> [e \in Ends |-> <<>>]]
  /\ handoff = {}
  /\ awaitingOk = FALSE
  /\ sent = [e \in Ends |-> <<>>]
  /\ received = [e \in Ends |-> <<>>]

-----------------------------------------------------------------------------
\* The server end is in the middle of the task that continues its protocol on a
\* new socket (acceptReconnection, VSCODE_EXTHOST_IPC_SOCKET): it reads the data
\* that came with the socket, and no timer fires and nothing is sent meanwhile.
InTask(e) == e = Server /\ isReconnecting[e]

(***************************************************************************)
(* ProtocolWriter.  Writing buffers the messages and, when the buffer was  *)
(* empty, arms the timer that writes them to the socket.                   *)
(***************************************************************************)
write(e, ms) ==
  /\ writerData' = [writerData EXCEPT ![e] = @ \o ms]
  /\ writeNowTimeout' = [writeNowTimeout EXCEPT ![e] = @ \/ writerData[e] = <<>>]
  /\ UNCHANGED isPaused

\* What the wires carry after the writer of e is flushed to its socket:
\* a paused writer keeps its data, a dead socket swallows it.
Flushed(e) ==
  LET k == socket[e]
  IN  IF alive[k] /\ ~isPaused[e]
        THEN [wire EXCEPT ![k][Peer(e)] = @ \o writerData[e]]
        ELSE wire

\* The timer of _scheduleWriting fires.
writeNow(e) ==
  /\ writeNowTimeout[e] /\ ~InTask(e)
  /\ writeNowTimeout' = [writeNowTimeout EXCEPT ![e] = FALSE]
  /\ wire' = Flushed(e)
  /\ writerData' = [writerData EXCEPT ![e] = IF isPaused[e] THEN @ ELSE <<>>]
  /\ UNCHANGED <<isPaused, outVars, inVars, outTimerVars, inTimerVars, replayQuiet,
                 socket, opened, alive, handoff, connVars, histVars>>

-----------------------------------------------------------------------------
(***************************************************************************)
(* _recvAckCheck: while something is unacknowledged a timer is armed, and  *)
(* when TimeoutTime has passed in silence the socket is given up, unless   *)
(* the event loop itself was too busy to read.  reconnecting, unacked and  *)
(* stale are the values the handler has computed when it makes the check.  *)
(***************************************************************************)
\* Mutant: the check is made before isReconnecting is cleared.
recvAckCheckEarly(e, reconnecting, unacked, stale) ==
  LET checks == unacked /\ ~outgoingAckTimeout[e] /\ ~isReconnecting[e]
  IN  /\ outgoingAckTimeout' = [outgoingAckTimeout EXCEPT ![e] = @ \/ checks]
      /\ outgoingStale' = [outgoingStale EXCEPT ![e] = stale]
      /\ UNCHANGED onSocketTimeout

recvAckCheck(e, reconnecting, unacked, stale) ==
  \E highLoad \in BOOLEAN :
    LET checks == unacked /\ ~outgoingAckTimeout[e] /\ ~reconnecting
        fires == checks /\ stale /\ ~highLoad
    IN  /\ outgoingAckTimeout' =
             [outgoingAckTimeout EXCEPT ![e] = @ \/ (checks /\ ~fires)]
        /\ onSocketTimeout' = [onSocketTimeout EXCEPT ![e] = @ \/ fires]
        /\ outgoingStale' = [outgoingStale EXCEPT ![e] = stale /\ ~fires]

\* Mutant: the test for high load is inverted.
onOutgoingAckTimeoutInverted(e, highLoad) ==
  LET checks == outgoingMsgId[e] > outgoingAckId[e] /\ ~isReconnecting[e]
      fires == checks /\ outgoingStale[e] /\ highLoad
  IN  /\ outgoingAckTimeout[e] /\ ~InTask(e)
      /\ outgoingAckTimeout' = [outgoingAckTimeout EXCEPT ![e] = checks /\ ~fires]
      /\ onSocketTimeout' = [onSocketTimeout EXCEPT ![e] = @ \/ fires]
      /\ outgoingStale' = [outgoingStale EXCEPT ![e] = @ /\ ~fires]
      /\ UNCHANGED <<outVars, inVars, inTimerVars, replayQuiet, writerVars, netVars,
                     connVars, histVars>>

\* The timer armed by _recvAckCheck fires.
onOutgoingAckTimeout(e, highLoad) ==
  LET checks == outgoingMsgId[e] > outgoingAckId[e] /\ ~isReconnecting[e]
      fires == checks /\ outgoingStale[e] /\ ~highLoad
  IN  /\ outgoingAckTimeout[e] /\ ~InTask(e)
      /\ outgoingAckTimeout' = [outgoingAckTimeout EXCEPT ![e] = checks /\ ~fires]
      /\ onSocketTimeout' = [onSocketTimeout EXCEPT ![e] = @ \/ fires]
      /\ outgoingStale' = [outgoingStale EXCEPT ![e] = @ /\ ~fires]
      /\ UNCHANGED <<outVars, inVars, inTimerVars, replayQuiet, writerVars, netVars,
                     connVars, histVars>>

\* TimeoutTime passes at e without any data.
silence(e) ==
  /\ outgoingUnackMsg[e] # <<>>
  /\ ~outgoingStale[e]
  /\ outgoingStale' = [outgoingStale EXCEPT ![e] = TRUE]
  /\ UNCHANGED <<outgoingAckTimeout, onSocketTimeout, outVars, inVars, inTimerVars,
                 replayQuiet, writerVars, netVars, connVars, histVars>>

\* _sendAckCheck, made when message id was just received: a timer is armed
\* unless there is one or nothing is to be acknowledged.
sendAckCheck(e, id) ==
  LET pending == id > incomingAckId[e]
  IN  /\ incomingAckTimeout' = [incomingAckTimeout EXCEPT ![e] = @ \/ pending]
      /\ incomingFresh' = [incomingFresh EXCEPT ![e] = pending /\ incomingAckTimeout[e]]

\* Mutant: the timer is armed again for as long as something is pending.
onIncomingAckTimeoutAgain(e) ==
  LET pending == incomingMsgId[e] > incomingAckId[e]
  IN  /\ incomingAckTimeout[e] /\ ~InTask(e)
      /\ incomingFresh' = [incomingFresh EXCEPT ![e] = FALSE]
      /\ incomingAckTimeout' = [incomingAckTimeout EXCEPT ![e] = pending]
      /\ UNCHANGED <<inVars, writerVars, outVars, outTimerVars, replayQuiet, netVars,
                     connVars, histVars>>

\* The timer armed by _sendAckCheck fires: an Ack is written, unless another
\* message came within AcknowledgeTime, and then the timer is armed again.
onIncomingAckTimeout(e) ==
  LET pending == incomingMsgId[e] > incomingAckId[e]
  IN  /\ incomingAckTimeout[e] /\ ~InTask(e)
      /\ incomingFresh' = [incomingFresh EXCEPT ![e] = FALSE]
      /\ \/ /\ pending
            /\ incomingAckTimeout' = [incomingAckTimeout EXCEPT ![e] = FALSE]
            /\ incomingAckId' = [incomingAckId EXCEPT ![e] = incomingMsgId[e]]
            /\ write(e, <<Message("Ack", 0, incomingMsgId[e], "empty")>>)
         \/ /\ pending /\ incomingFresh[e]
            /\ UNCHANGED <<incomingAckTimeout, incomingAckId, writerVars>>
         \/ /\ ~pending
            /\ incomingAckTimeout' = [incomingAckTimeout EXCEPT ![e] = FALSE]
            /\ UNCHANGED <<incomingAckId, writerVars>>
      /\ UNCHANGED <<incomingMsgId, outVars, outTimerVars, replayQuiet, netVars,
                     connVars, histVars>>

\* Mutant: the acknowledgement names the message that is expected next.
sendKeepAliveNextId(e) ==
  /\ Len(writerData[e]) + Len(wire[socket[e]][Peer(e)]) < MaxInFlight
  /\ ~InTask(e)
  /\ incomingAckId' = [incomingAckId EXCEPT ![e] = incomingMsgId[e]]
  /\ write(e, <<Message("KeepAlive", 0, incomingMsgId[e] + 1, "empty")>>)
  /\ UNCHANGED <<incomingMsgId, outVars, outTimerVars, inTimerVars, replayQuiet,
                 netVars, connVars, histVars>>

\* The keep-alive interval fires (_sendKeepAlive).
sendKeepAlive(e) ==
  /\ Len(writerData[e]) + Len(wire[socket[e]][Peer(e)]) < MaxInFlight
  /\ ~InTask(e)
  /\ incomingAckId' = [incomingAckId EXCEPT ![e] = incomingMsgId[e]]
  /\ write(e, <<Message("KeepAlive", 0, incomingMsgId[e], "empty")>>)
  /\ UNCHANGED <<incomingMsgId, outVars, outTimerVars, inTimerVars, replayQuiet,
                 netVars, connVars, histVars>>

\* 10 s pass since the last ReplayRequest.
replayQuietEnds(e) ==
  /\ replayQuiet[e]
  /\ replayQuiet' = [replayQuiet EXCEPT ![e] = FALSE]
  /\ UNCHANGED <<outVars, inVars, outTimerVars, inTimerVars, writerVars, netVars,
                 connVars, histVars>>

-----------------------------------------------------------------------------
\* The application sends d.  While reconnecting the message is only queued.
send(e, d) ==
  LET id == outgoingMsgId[e] + 1
      msg == Message("Regular", id, incomingMsgId[e], d)
  IN  /\ outgoingMsgId[e] < MaxMessages[e] /\ ~InTask(e)
      /\ outgoingMsgId' = [outgoingMsgId EXCEPT ![e] = id]
      /\ incomingAckId' = [incomingAckId EXCEPT ![e] = incomingMsgId[e]]
      /\ outgoingUnackMsg' = [outgoingUnackMsg EXCEPT ![e] = Append(@, msg)]
      /\ sent' = [sent EXCEPT ![e] = Append(@, d)]
      /\ \/ /\ isReconnecting[e]
            /\ UNCHANGED <<writerVars, outTimerVars>>
         \/ /\ ~isReconnecting[e]
            /\ write(e, <<msg>>)
            /\ recvAckCheck(e, isReconnecting[e], TRUE,
                            outgoingStale[e] /\ outgoingUnackMsg[e] # <<>>)
      /\ UNCHANGED <<outgoingAckId, incomingMsgId, inTimerVars, replayQuiet, netVars,
                     connVars, received>>

-----------------------------------------------------------------------------
(***************************************************************************)
(* _receiveMessage.  Every message read resets the silence and applies its *)
(* acknowledgement; then each type has its own action.                     *)
(***************************************************************************)
\* Mutant: one message more than was confirmed is removed.
UnacknowledgedOffByOne(q, ack) ==
  LET n == CHOOSE i \in 0 .. Len(q) :
             /\ \A j \in 1 .. i : q[j].id <= ack + 1
             /\ i < Len(q) => q[i + 1].id > ack + 1
  IN  SubSeq(q, n + 1, Len(q))

\* q without the longest prefix of messages that ack confirms.
Unacknowledged(q, ack) ==
  LET n == CHOOSE i \in 0 .. Len(q) :
             /\ \A j \in 1 .. i : q[j].id <= ack
             /\ i < Len(q) => q[i + 1].id > ack
  IN  SubSeq(q, n + 1, Len(q))

UnackAfter(e, msg) ==
  IF msg.ack > outgoingAckId[e]
    THEN Unacknowledged(outgoingUnackMsg[e], msg.ack)
    ELSE outgoingUnackMsg[e]

AckIdAfter(e, msg) ==
  IF msg.ack > outgoingAckId[e] THEN msg.ack ELSE outgoingAckId[e]

Incoming(e) == wire[socket[e]][e]

\* msg is the next message e reads from its socket.
receive(e, msg) ==
  /\ Incoming(e) # <<>>
  /\ msg = Head(Incoming(e))
  /\ wire' = [wire EXCEPT ![socket[e]][e] = Tail(@)]
  /\ outgoingUnackMsg' = [outgoingUnackMsg EXCEPT ![e] = UnackAfter(e, msg)]
  /\ outgoingAckId' = [outgoingAckId EXCEPT ![e] = AckIdAfter(e, msg)]
  /\ UNCHANGED <<outgoingMsgId, socket, opened, alive, handoff, sent>>

silenceBroken(e) ==
  /\ outgoingStale' = [outgoingStale EXCEPT ![e] = FALSE]
  /\ UNCHANGED <<outgoingAckTimeout, onSocketTimeout>>

\* Mutant: a gap is not noticed.
isAnyNewer(e, msg) == msg.type = "Regular" /\ msg.id > incomingMsgId[e]

isExpected(e, msg) == msg.type = "Regular" /\ msg.id = incomingMsgId[e] + 1

\* The expected message: it is handed to the application and will be
\* acknowledged (_sendAckCheck arms its timer unless it is armed).
receiveRegular(e, msg) ==
  /\ isExpected(e, msg)
  /\ receive(e, msg)
  /\ silenceBroken(e)
  /\ incomingMsgId' = [incomingMsgId EXCEPT ![e] = msg.id]
  /\ sendAckCheck(e, msg.id)
  /\ received' = [received EXCEPT ![e] = Append(@, msg.data)]
  /\ UNCHANGED <<incomingAckId, replayQuiet, writerVars, connVars>>

\* A message that was already received is ignored.
receiveDuplicate(e, msg) ==
  /\ msg.type = "Regular"
  /\ msg.id <= incomingMsgId[e]
  /\ receive(e, msg)
  /\ silenceBroken(e)
  /\ UNCHANGED <<inVars, inTimerVars, replayQuiet, writerVars, connVars, received>>

\* A message is missing: the other end is asked, at most once every 10 s, to
\* send again.
receiveGap(e, msg) ==
  /\ msg.type = "Regular"
  /\ msg.id > incomingMsgId[e] + 1
  /\ receive(e, msg)
  /\ silenceBroken(e)
  /\ replayQuiet' = [replayQuiet EXCEPT ![e] = TRUE]
  /\ IF replayQuiet[e]
       THEN UNCHANGED writerVars
       ELSE write(e, <<Message("ReplayRequest", 0, 0, "empty")>>)
  /\ UNCHANGED <<inVars, inTimerVars, connVars, received>>

receiveAck(e, msg) ==
  /\ msg.type \in {"Ack", "KeepAlive"}
  /\ receive(e, msg)
  /\ silenceBroken(e)
  /\ UNCHANGED <<inVars, inTimerVars, replayQuiet, writerVars, connVars, received>>

\* Everything unacknowledged is written again.
receiveReplayRequest(e, msg) ==
  /\ msg.type = "ReplayRequest"
  /\ receive(e, msg)
  /\ write(e, UnackAfter(e, msg))
  /\ recvAckCheck(e, isReconnecting[e], outgoingMsgId[e] > AckIdAfter(e, msg), FALSE)
  /\ UNCHANGED <<inVars, inTimerVars, replayQuiet, connVars, received>>

receivePause(e, msg) ==
  /\ msg.type = "Pause"
  /\ receive(e, msg)
  /\ silenceBroken(e)
  /\ isPaused' = [isPaused EXCEPT ![e] = TRUE]
  /\ UNCHANGED <<inVars, inTimerVars, replayQuiet, writerData, writeNowTimeout,
                 connVars, received>>

receiveResume(e, msg) ==
  /\ msg.type = "Resume"
  /\ receive(e, msg)
  /\ silenceBroken(e)
  /\ isPaused' = [isPaused EXCEPT ![e] = FALSE]
  /\ writeNowTimeout' = [writeNowTimeout EXCEPT ![e] = TRUE]
  /\ UNCHANGED <<inVars, inTimerVars, replayQuiet, writerData, connVars, received>>

-----------------------------------------------------------------------------
(***************************************************************************)
(* Reconnection.  The client continues its protocol on a new socket with   *)
(* beginAcceptReconnection and asks the server to do the same; when the    *)
(* server has agreed, endAcceptReconnection sends again what may be lost.  *)
(***************************************************************************)
\* The wires once e has left its socket: the old writer was flushed, and what
\* the old socket still carries towards e is never read.
Abandoned(e) == [Flushed(e) EXCEPT ![socket[e]][e] = <<>>]

\* e continues on socket k with a new writer, to which it writes ms.
beginAcceptReconnection(e, k, ms) ==
  /\ isReconnecting' = [isReconnecting EXCEPT ![e] = TRUE]
  /\ socket' = [socket EXCEPT ![e] = k]
  /\ replayQuiet' = [replayQuiet EXCEPT ![e] = FALSE]
  /\ outgoingStale' = [outgoingStale EXCEPT ![e] = FALSE]
  /\ onSocketTimeout' = [onSocketTimeout EXCEPT ![e] = FALSE]
  /\ writerData' = [writerData EXCEPT ![e] = ms]
  /\ writeNowTimeout' = [writeNowTimeout EXCEPT ![e] = ms # <<>>]
  /\ isPaused' = [isPaused EXCEPT ![e] = FALSE]
  /\ UNCHANGED <<outgoingAckTimeout, outgoingMsgId, inVars, inTimerVars, histVars>>

\* What is written again after a reconnection.
Resent(e) == outgoingUnackMsg[e]

\* The other end is told again what was received, and everything it has not
\* acknowledged is written again, followed by ms.
endAcceptReconnection(e, ms) ==
  /\ isReconnecting' = [isReconnecting EXCEPT ![e] = FALSE]
  /\ incomingAckId' = [incomingAckId EXCEPT ![e] = incomingMsgId[e]]
  /\ write(e, <<Message("Ack", 0, incomingMsgId[e], "empty")>> \o Resent(e) \o ms)
  /\ recvAckCheck(e, FALSE, outgoingMsgId[e] > outgoingAckId[e], FALSE)
  /\ UNCHANGED <<outgoingMsgId, incomingMsgId, inTimerVars, replayQuiet, histVars>>

\* The client's reconnection loop opens the next socket and sends its request.
\* The auth and sign messages that precede it carry no protocol state.
reconnect ==
  LET k == opened + 1
  IN  /\ k <= MaxSockets
      /\ ~awaitingOk
      /\ opened' = k
      /\ awaitingOk' = TRUE
      /\ alive' = [alive EXCEPT ![socket[Client]] = FALSE, ![k] = TRUE]
      /\ wire' = Abandoned(Client)
      /\ beginAcceptReconnection(Client, k, <<ConnectionType>>)
      /\ UNCHANGED <<outgoingUnackMsg, outgoingAckId, handoff>>

\* The attempt times out: a later "ok" finds no listener.
reconnectTimeout ==
  /\ awaitingOk
  /\ awaitingOk' = FALSE
  /\ UNCHANGED <<isReconnecting, outVars, inVars, outTimerVars, inTimerVars, replayQuiet,
                 writerVars, netVars, histVars>>

\* Mutant: the client is paused only after it was told to continue.
AnswerThenPause == IF ExtHost THEN <<Ok, Message("Pause", 0, 0, "empty")>> ELSE <<Ok>>

\* What the server answers to a reconnection request.
Answer == IF ExtHost THEN <<Message("Pause", 0, 0, "empty"), Ok>> ELSE <<Ok>>

\* The server has read a reconnection request from socket k and answers it.
\* A management connection continues on k at once; for an extension host the
\* client is paused and the socket is sent to the extension host process.
acceptReconnection(k) ==
  LET replied(w) == [w EXCEPT ![k][Server] = Tail(wire[k][Server]),
                              ![k][Client] = IF alive[k] THEN @ \o Answer ELSE @]
  IN  /\ wire[k][Server] # <<>>
      /\ Head(wire[k][Server]) = ConnectionType
      /\ \/ /\ ExtHost
            /\ handoff' = handoff \cup {k}
            /\ wire' = replied(wire)
            /\ UNCHANGED <<isReconnecting, inVars, outTimerVars, inTimerVars,
                           replayQuiet, writerVars, socket, alive, outgoingMsgId, histVars>>
         \/ /\ ~ExtHost /\ ~InTask(Server)
            /\ alive' = [alive EXCEPT ![socket[Server]] = FALSE]
            /\ wire' = replied(Abandoned(Server))
            /\ beginAcceptReconnection(Server, k, <<>>)
            /\ UNCHANGED handoff
      /\ UNCHANGED <<outgoingUnackMsg, outgoingAckId, opened, awaitingOk>>

\* The extension host process gets socket k (VSCODE_EXTHOST_IPC_SOCKET).
receiveSocket(k) ==
  /\ k \in handoff /\ ~InTask(Server)
  /\ handoff' = handoff \ {k}
  /\ alive' = [alive EXCEPT ![socket[Server]] = FALSE]
  /\ wire' = Abandoned(Server)
  /\ beginAcceptReconnection(Server, k, <<>>)
  /\ UNCHANGED <<outgoingUnackMsg, outgoingAckId, opened, awaitingOk>>

\* The server end has processed the chunk it got with the socket, and its task
\* ends.
serverReconnected ==
  /\ isReconnecting[Server]
  /\ endAcceptReconnection(Server,
       IF ExtHost THEN <<Message("Resume", 0, 0, "empty")>> ELSE <<>>)
  /\ UNCHANGED <<outgoingUnackMsg, outgoingAckId, netVars, awaitingOk>>

\* The client reads the server's "ok".
receiveControl(e, msg) ==
  /\ msg = Ok
  /\ receive(e, msg)
  /\ awaitingOk' = FALSE
  /\ IF awaitingOk
       THEN endAcceptReconnection(e, <<>>)
       ELSE /\ silenceBroken(e)
            /\ UNCHANGED <<isReconnecting, inVars, inTimerVars, replayQuiet, writerVars,
                           received>>

-----------------------------------------------------------------------------
(***************************************************************************)
(* The network (external).                                                 *)
(***************************************************************************)
\* Socket k breaks.  What it carries may still be read, or never is.
breakSocket(k) ==
  /\ alive[k]
  /\ alive' = [alive EXCEPT ![k] = FALSE]
  /\ UNCHANGED <<outVars, inVars, outTimerVars, inTimerVars, replayQuiet, writerVars,
                 socket, opened, wire, handoff, connVars, histVars>>

\* A message is lost: nobody reads a socket that is sent to another process.
lose(k, e) ==
  /\ Lossy \/ (e = Server /\ k \in handoff)
  /\ wire[k][e] # <<>>
  /\ wire' = [wire EXCEPT ![k][e] = Tail(@)]
  /\ UNCHANGED <<outVars, inVars, outTimerVars, inTimerVars, replayQuiet, writerVars,
                 socket, opened, alive, handoff, connVars, histVars>>

-----------------------------------------------------------------------------
receiveMessage(e) ==
  \E msg \in {Head(Incoming(e))} :
    \/ receiveRegular(e, msg)
    \/ receiveDuplicate(e, msg)
    \/ receiveGap(e, msg)
    \/ receiveAck(e, msg)
    \/ receiveReplayRequest(e, msg)
    \/ receivePause(e, msg)
    \/ receiveResume(e, msg)
    \/ receiveControl(e, msg)

Next ==
  \/ \E e \in Ends :
       \/ \E d \in Payload : send(e, d)
       \/ writeNow(e)
       \/ \E highLoad \in BOOLEAN : onOutgoingAckTimeout(e, highLoad)
       \/ silence(e)
       \/ onIncomingAckTimeout(e)
       \/ sendKeepAlive(e)
       \/ replayQuietEnds(e)
       \/ Incoming(e) # <<>> /\ receiveMessage(e)
  \/ reconnect
  \/ reconnectTimeout
  \/ serverReconnected
  \/ \E k \in Sockets :
       \/ acceptReconnection(k)
       \/ receiveSocket(k)
       \/ breakSocket(k)
       \/ \E e \in Ends : lose(k, e)

Spec == Init /\ [][Next]_vars

\* Timers fire, tasks end, sockets that are alive deliver, time passes and the load of the
\* event loop is not high for ever.  Nothing is assumed of the network: neither
\* that a socket stays alive nor that a reconnection is ever attempted.
Fairness ==
  /\ \A e \in Ends :
       /\ WF_vars(writeNow(e))
       /\ WF_vars(alive[socket[e]] /\ Incoming(e) # <<>> /\ receiveMessage(e))
       /\ WF_vars(onIncomingAckTimeout(e))
       /\ WF_vars(onOutgoingAckTimeout(e, FALSE))
       /\ WF_vars(silence(e))
  /\ WF_vars(serverReconnected)

FairSpec == Spec /\ Fairness

-----------------------------------------------------------------------------
(***************************************************************************)
(* Properties.                                                             *)
(***************************************************************************)
Channel == INSTANCE MessageChannel WITH Ends <- Ends, Payload <- Payload, Peer <- Peer,
                                         sent <- sent, received <- received

\* What the two ends promise their applications: a pair of reliable channels.
\* Whatever breaks and reconnects, each end hands over exactly what the other
\* sent, once and in order (class PersistentProtocol, "will actually track
\* messages and acks").
ChannelSpec == Channel!Spec

\* A message that was sent and not yet handed over is still queued by its
\* sender, so that endAcceptReconnection or a ReplayRequest can send it again:
\* no acknowledgement ever removes it too early.
NothingLost == \A e \in Ends :
  \A id \in (Len(received[Peer(e)]) + 1) .. Len(sent[e]) :
    \E i \in 1 .. Len(outgoingUnackMsg[e]) :
      /\ outgoingUnackMsg[e][i].id = id
      /\ outgoingUnackMsg[e][i].data = sent[e][id]

\* Outside a reconnection, as long as something is unacknowledged either the
\* timer of _recvAckCheck is armed or the socket was already reported dead.
UnackedIsWatched == \A e \in Ends :
  outgoingMsgId[e] > outgoingAckId[e] /\ ~isReconnecting[e]
    => outgoingAckTimeout[e] \/ onSocketTimeout[e]

\* A received message that was not yet acknowledged has an armed timer that
\* will acknowledge it (_sendAckCheck), reconnecting or not.
AckIsComing == \A e \in Ends :
  incomingMsgId[e] > incomingAckId[e] => incomingAckTimeout[e]

\* A writer that has data and is not paused has a timer that will write it:
\* pausing, resuming and the "was empty" test of _bufferAdd lose no wake-up.
WriterScheduled == \A e \in Ends :
  writerData[e] # <<>> /\ ~isPaused[e] => writeNowTimeout[e]

\* No wake-up is lost: whatever is written, received or unacknowledged has a
\* timer that will see to it, however pausing, resuming, reconnecting and the
\* timers themselves interleave.
TimersAreArmed == UnackedIsWatched /\ AckIsComing /\ WriterScheduled

\* Sockets that lose nothing but their end never show a gap: no end reads a
\* message whose predecessors it did not get, so no ReplayRequest is written.
NoGap == \A e \in Ends :
  Incoming(e) # <<>> => Head(Incoming(e)).id <= incomingMsgId[e] + 1

Connected ==
  /\ socket[Client] = socket[Server]
  /\ alive[socket[Client]]
  /\ \A e \in Ends : ~isReconnecting[e]

\* If the two ends finally stay connected, everything that was sent is handed
\* over and acknowledged, however many sockets broke before.
StableDelivery ==
  <>[]Connected => <>[](\A e \in Ends : /\ received[e] = sent[Peer(e)]
                                        /\ outgoingUnackMsg[e] = <<>>)

\* A client with unacknowledged messages on a dead socket that nobody closed
\* notices: the socket times out, or the connection is already being replaced.
SilenceNoticed ==
  (/\ ~alive[socket[Client]]
   /\ outgoingUnackMsg[Client] # <<>>
   /\ ~isReconnecting[Client])
    ~> (onSocketTimeout[Client] \/ isReconnecting[Client] \/ outgoingUnackMsg[Client] = <<>>)
-----------------------------------------------------------------------------
(***************************************************************************)
(* The inductive invariant behind NothingLost and ChannelSpec.             *)
(***************************************************************************)
\* What e may have written: it confirms nothing e did not get, and a Regular
\* message carries what e sent under that id.
GenuineMessage(e) ==
  {msg \in ProtocolMessage :
     /\ msg.ack <= incomingMsgId[e]
     /\ msg.type = "Regular" => /\ msg.id \in 1 .. outgoingMsgId[e]
                                /\ msg.data = sent[e][msg.id]}

\* The message ids are positions in what was sent and received.
IdsArePositions == \A e \in Ends :
  /\ outgoingMsgId[e] = Len(sent[e])
  /\ incomingMsgId[e] = Len(received[e])

\* An end never believes more to be confirmed than the other end received.
AcksAreReceipts == \A e \in Ends :
  /\ outgoingAckId[e] <= incomingMsgId[Peer(e)]
  /\ incomingMsgId[Peer(e)] <= outgoingMsgId[e]

\* The queue holds exactly the messages after the last confirmed one.
QueueIsUnconfirmed == \A e \in Ends :
  /\ Len(outgoingUnackMsg[e]) = outgoingMsgId[e] - outgoingAckId[e]
  /\ outgoingUnackMsg[e] \in Seq(GenuineMessage(e))
  /\ \A i \in 1 .. Len(outgoingUnackMsg[e]) :
       /\ outgoingUnackMsg[e][i].type = "Regular"
       /\ outgoingUnackMsg[e][i].id = outgoingAckId[e] + i

WriterIsGenuine == \A e \in Ends : writerData[e] \in Seq(GenuineMessage(e))

WireIsGenuine == \A k \in Sockets, e \in Ends :
  wire[k][e] \in Seq(GenuineMessage(Peer(e)))

ReceivedIsSent == \A e \in Ends :
  \A i \in 1 .. Len(received[e]) : received[e][i] = sent[Peer(e)][i]

\* What the protocol relies on in every state: ids count messages, the queue
\* holds exactly what is unconfirmed, and whatever a writer buffers or a socket
\* carries, however old and however often resent, is still true.
Consistent ==
  /\ IdsArePositions
  /\ AcksAreReceipts
  /\ QueueIsUnconfirmed
  /\ WriterIsGenuine
  /\ WireIsGenuine
  /\ ReceivedIsSent
=============================================================================
