------------------------ MODULE RemoteConnectionProofs ------------------------
(***************************************************************************)
(* Proofs about RemoteConnection: its types, that a grace timer runs only  *)
(* while the client is away, and that there is a socket for an extension   *)
(* host process that asks for it.  The induction needs to know where a     *)
(* socket can come from (SocketsAreOpened) and what an extension host      *)
(* connection keeps until its process is up (ProcessIsStarted).            *)
(*                                                                         *)
(* Then that no close event is lost, that nothing is said of a connection  *)
(* after it has failed (FailureIsFatal), and that a window which believes  *)
(* to be connected is served on the socket it has (AnswerIsServed).        *)
(***************************************************************************)
EXTENDS RemoteConnection, SequenceTheorems, TLAPS

\* Only an extension host connection starts a process, and until the process has
\* asked for its socket the connection keeps one.
ProcessIsStarted == \A c \in Connection :
  /\ c \in Management => process[c] = "none"
  /\ process[c] \in {"none", "launched"} => ready[c] = "no"
  /\ c \notin Management /\ known[c] /\ ready[c] # "read" => connectionData[c] # NoSocket

\* The sockets of c that the server or the extension host process has, or that
\* are on their way to it.
Held(c) == {k \in Sockets :
  \/ k = serverSocket[c] \/ k = connectionData[c] \/ k \in draining[c]
  \/ \E i \in 1 .. Len(ipc[c]) : ipc[c][i] = k}

\* A socket is up, has been used, or is held by anybody only after it was opened.
SocketsAreOpened == \A c \in Connection, k \in Sockets :
  alive[c][k] \/ phase[c][k] # "none" \/ k \in Held(c) => k <= opened[c]

\* The inductive invariant.
Inv == TypeOK /\ ProcessIsStarted /\ SocketsAreOpened /\ GraceMeansDisconnected

\* Socket numbers are positive integers, and neither NoSocket nor Reduce is one.
LEMMA SocketNumbers ==
  /\ Sockets \subseteq Nat
  /\ NoSocket \notin Sockets /\ NoSocket \in Nat
  /\ Reduce \notin Sockets /\ Reduce \in Int
BY ConnectionAssumption DEF Sockets, NoSocket, Reduce

\* Closing a socket keeps the type of alive, and closes that socket only.
LEMMA ClosedType ==
  ASSUME alive \in [Connection -> [Sockets -> BOOLEAN]], NEW c \in Connection, NEW k
  PROVE  /\ Closed(alive, c, k) \in [Connection -> [Sockets -> BOOLEAN]]
         /\ \A d \in Connection, i \in Sockets :
              Closed(alive, c, k)[d][i] = (alive[d][i] /\ ~(d = c /\ i = k))
<1> DEFINE row == [i \in Sockets |-> i # k /\ alive[c][i]]
<1>1. row \in [Sockets -> BOOLEAN]
  OBVIOUS
<1>2. Closed(alive, c, k) = [alive EXCEPT ![c] = row]
  BY DEF Closed
<1>3. \A i \in Sockets : row[i] = (alive[c][i] /\ i # k)
  OBVIOUS
<1> HIDE DEF row
<1> QED BY <1>1, <1>2, <1>3

\* Assigning a phase keeps the type of phase, and changes that phase only.
LEMMA PhaseType ==
  ASSUME phase \in [Connection -> [Sockets -> Phase]], NEW c \in Connection, NEW k, NEW p,
         k \in Sockets => p \in Phase
  PROVE  /\ [phase EXCEPT ![c][k] = p] \in [Connection -> [Sockets -> Phase]]
         /\ \A d \in Connection, i \in Sockets :
              [phase EXCEPT ![c][k] = p][d][i] = IF d = c /\ i = k THEN p ELSE phase[d][i]
<1> DEFINE row == [phase[c] EXCEPT ![k] = p]
<1>1. row \in [Sockets -> Phase] /\ \A i \in Sockets : row[i] = IF i = k THEN p ELSE phase[c][i]
  OBVIOUS
<1>2. [phase EXCEPT ![c][k] = p] = [phase EXCEPT ![c] = row]
  OBVIOUS
<1> HIDE DEF row
<1> QED BY <1>1, <1>2

\* Entering the loop keeps the types of what it assigns.
LEMMA BeginReconnectingType ==
  ASSUME ClientOK, NEW c \in Connection, beginReconnecting(c)
  PROVE  /\ loop' \in [Connection -> Loop]
         /\ attempt' \in [Connection -> Nat]
         /\ status' \in [Connection -> Status]
<1>1. CASE loop[c] = "idle" /\ ~permanentFailure /\ ~isDisposed[c]
  BY <1>1 DEF beginReconnecting, fire, ClientOK, Loop, Status
<1>2. CASE ~(loop[c] = "idle" /\ ~permanentFailure /\ ~isDisposed[c])
  BY <1>2 DEF beginReconnecting, ClientOK
<1> QED BY <1>1, <1>2

\* Saying good-bye keeps the type of phase.
LEMMA GoodbyeType ==
  ASSUME phase \in [Connection -> [Sockets -> Phase]], NEW c \in Connection
  PROVE  /\ SaidGoodbye(c) \in [Connection -> [Sockets -> Phase]]
         /\ \A d \in Connection, i \in Sockets :
              SaidGoodbye(c)[d][i] # "none" => phase[d][i] # "none"
<1> DEFINE k == socket[c]
           next == IF alive[c][k] /\ phase[c][k] = "done" /\ ~didSendDisconnect[c]
                     THEN "disconnect" ELSE phase[c][k]
<1>1. SaidGoodbye(c) = [phase EXCEPT ![c][k] = next]
  BY DEF SaidGoodbye
<1>2. (k \in Sockets => next \in Phase) /\ (next # "none" => phase[c][k] # "none")
  BY DEF Phase
<1> HIDE DEF k, next
<1> QED BY <1>1, <1>2, PhaseType

\* A permanent failure keeps the types of what it assigns.
LEMMA PermanentFailureType ==
  ASSUME ClientOK, NetworkOK, NEW failing, gotoPermanentFailure(failing)
  PROVE  /\ status' \in [Connection -> Status]
         /\ listening' \in [Connection -> BOOLEAN]
         /\ isDisposed' \in [Connection -> BOOLEAN]
         /\ didSendDisconnect' \in [Connection -> BOOLEAN]
         /\ alive' \in [Connection -> [Sockets -> BOOLEAN]]
         /\ \A d \in Connection, i \in Sockets : alive'[d][i] => alive[d][i]
         /\ phase' \in [Connection -> [Sockets -> Phase]]
         /\ \A d \in Connection, i \in Sockets : phase'[d][i] # "none" => phase[d][i] # "none"
<1>1. status' \in [Connection -> Status]
  BY DEF gotoPermanentFailure, ClientOK, Status
<1>2. listening' \in [Connection -> BOOLEAN]
  BY Zenon DEF gotoPermanentFailure, ClientOK
<1>3. isDisposed' \in [Connection -> BOOLEAN]
  <2>1. isDisposed' = [c \in Connection |-> isDisposed[c] \/ c \in failing \cap Management]
    BY DEF gotoPermanentFailure
  <2> QED BY <2>1, Zenon
<1>4. didSendDisconnect' \in [Connection -> BOOLEAN]
  <2>1. didSendDisconnect' =
          [c \in Connection |-> didSendDisconnect[c] \/ c \in failing \cap Management]
    BY DEF gotoPermanentFailure
  <2> QED BY <2>1, Zenon
<1>5. /\ phase' \in [Connection -> [Sockets -> Phase]]
      /\ \A d \in Connection, i \in Sockets : phase'[d][i] # "none" => phase[d][i] # "none"
  <2>1. phase' = [c \in Connection |-> IF c \in failing \cap Management THEN SaidGoodbye(c)[c]
                                                                        ELSE phase[c]]
    BY DEF gotoPermanentFailure
  <2>2. \A c \in Connection : /\ SaidGoodbye(c)[c] \in [Sockets -> Phase]
                              /\ \A i \in Sockets :
                                   SaidGoodbye(c)[c][i] # "none" => phase[c][i] # "none"
    BY GoodbyeType DEF NetworkOK
  <2> QED BY <2>1, <2>2 DEF NetworkOK
<1>6. \A c \in Connection : /\ Closed(alive, c, socket[c])[c] \in [Sockets -> BOOLEAN]
                            /\ alive[c] \in [Sockets -> BOOLEAN]
                            /\ \A i \in Sockets : Closed(alive, c, socket[c])[c][i] => alive[c][i]
  <2> SUFFICES ASSUME NEW c \in Connection
               PROVE  /\ Closed(alive, c, socket[c])[c] \in [Sockets -> BOOLEAN]
                      /\ alive[c] \in [Sockets -> BOOLEAN]
                      /\ \A i \in Sockets : Closed(alive, c, socket[c])[c][i] => alive[c][i]
    OBVIOUS
  <2> DEFINE next == Closed(alive, c, socket[c])
  <2>1. /\ next \in [Connection -> [Sockets -> BOOLEAN]]
        /\ \A i \in Sockets : next[c][i] = (alive[c][i] /\ ~(c = c /\ i = socket[c]))
    BY ClosedType DEF NetworkOK
  <2> HIDE DEF next
  <2>2. next[c] \in [Sockets -> BOOLEAN] /\ alive[c] \in [Sockets -> BOOLEAN]
    BY <2>1 DEF NetworkOK
  <2>3. \A i \in Sockets : next[c][i] => alive[c][i]
    BY <2>1
  <2> QED BY <2>2, <2>3 DEF next
<1>7. alive' = [c \in Connection |-> IF c \in failing THEN Closed(alive, c, socket[c])[c]
                                                      ELSE alive[c]]
  BY DEF gotoPermanentFailure
<1> QED BY <1>1, <1>2, <1>6, <1>7, <1>3, <1>4, <1>5

\* The end of a connection keeps the types of what it assigns, and opens nothing.
LEMMA EndType ==
  ASSUME TypeOK, NEW c \in Connection, end(c)
  PROVE  /\ NetworkOK' /\ ServerOK' /\ ProcessOK'
         /\ \A d \in Connection, i \in Sockets : alive'[d][i] => alive[d][i]
         /\ \A d \in Connection, i \in Sockets :
              phase'[d][i] # "none" => phase[d][i] # "none" \/ alive[d][i]
<1> USE DEF TypeOK, NetworkOK, ServerOK, ProcessOK
<1>1. CASE c \in Management
  <2>1. cleanResources(c) /\ UNCHANGED <<opened, serverSocket, serverCloseSeen>>
    BY <1>1 DEF end
  <2>2. /\ alive' \in [Connection -> [Sockets -> BOOLEAN]]
        /\ \A d \in Connection, i \in Sockets : alive'[d][i] => alive[d][i]
    BY <2>1, ClosedType DEF cleanResources
  <2> DEFINE k == serverSocket[c]
             next == IF alive[c][k] THEN "bye"
                     ELSE IF phase[c][k] = "disconnect" THEN "done" ELSE phase[c][k]
  <2>3. phase' = [phase EXCEPT ![c][k] = next]
    BY <2>1 DEF cleanResources
  <2>4. /\ k \in Sockets => next \in Phase
        /\ next # "none" => phase[c][k] # "none" \/ alive[c][k]
    BY DEF Phase
  <2> HIDE DEF k, next
  <2>5. /\ phase' \in [Connection -> [Sockets -> Phase]]
        /\ \A d \in Connection, i \in Sockets :
             phase'[d][i] # "none" => phase[d][i] # "none" \/ alive[d][i]
    BY <2>3, <2>4, PhaseType
  <2> QED BY <2>1, <2>2, <2>5 DEF cleanResources, processVars
<1>2. CASE c \notin Management
  <2>1. terminate(c) /\ UNCHANGED <<opened, serverSocket, serverCloseSeen>>
    BY <1>2 DEF end
  <2> DEFINE row == [k \in Sockets |->
       alive[c][k] /\ k # serverSocket[c] /\ \A i \in 1 .. Len(ipc[c]) : ipc[c][i] # k]
  <2>2. row \in [Sockets -> BOOLEAN] /\ \A i \in Sockets : row[i] => alive[c][i]
    OBVIOUS
  <2>3. alive' = [alive EXCEPT ![c] = row]
    BY <2>1 DEF terminate
  <2> HIDE DEF row
  <2>4. /\ alive' \in [Connection -> [Sockets -> BOOLEAN]]
        /\ \A d \in Connection, i \in Sockets : alive'[d][i] => alive[d][i]
    BY <2>2, <2>3
  <2>5. NetworkOK' /\ \A d \in Connection, i \in Sockets :
                        phase'[d][i] # "none" => phase[d][i] # "none"
    BY <2>1, <2>4 DEF terminate, Phase
  <2> QED BY <2>1, <2>4, <2>5 DEF terminate
<1> QED BY <1>1, <1>2

\* A failed attempt keeps the types, and opens nothing.
LEMMA OnFailureType ==
  ASSUME TypeOK, NEW c \in Connection, onReconnectionPermanentFailure(c)
  PROVE  /\ TypeOK'
         /\ opened' = opened
         /\ \A d \in Connection, i \in Sockets : alive'[d][i] => alive[d][i]
         /\ \A d \in Connection, i \in Sockets : phase'[d][i] # "none" => phase[d][i] # "none"
<1>1. PICK failing : gotoPermanentFailure(failing)
  BY DEF onReconnectionPermanentFailure, triggerPermanentFailure
<1>2. /\ status' \in [Connection -> Status]
      /\ listening' \in [Connection -> BOOLEAN]
      /\ isDisposed' \in [Connection -> BOOLEAN]
      /\ didSendDisconnect' \in [Connection -> BOOLEAN]
      /\ alive' \in [Connection -> [Sockets -> BOOLEAN]]
      /\ phase' \in [Connection -> [Sockets -> Phase]]
      /\ \A d \in Connection, i \in Sockets : alive'[d][i] => alive[d][i]
      /\ \A d \in Connection, i \in Sockets : phase'[d][i] # "none" => phase[d][i] # "none"
  BY <1>1, PermanentFailureType DEF TypeOK
<1>3. permanentFailure' \in BOOLEAN
  BY DEF onReconnectionPermanentFailure, triggerPermanentFailure, TypeOK, ClientOK
<1>4. loop' \in [Connection -> Loop]
  BY DEF onReconnectionPermanentFailure, TypeOK, ClientOK, Loop
<1>5. UNCHANGED <<attempt, socket, closeSeen, opened, serverVars, processVars>>
  BY DEF onReconnectionPermanentFailure
<1> QED BY <1>2, <1>3, <1>4, <1>5 DEF TypeOK, ClientOK, NetworkOK, ServerOK, ProcessOK,
             serverVars, runnerVars, processVars

\* A disposed client keeps all types if its caller keeps that of phase.
LEMMA DisposeClientType ==
  ASSUME TypeOK, NEW c \in Connection, disposeClient(c),
         phase' \in [Connection -> [Sockets -> Phase]]
  PROVE  TypeOK'
<1>1. alive' \in [Connection -> [Sockets -> BOOLEAN]]
  BY ClosedType DEF disposeClient, TypeOK, NetworkOK
<1>2. /\ isDisposed' \in [Connection -> BOOLEAN]
      /\ didSendDisconnect' \in [Connection -> BOOLEAN]
      /\ listening' \in [Connection -> BOOLEAN]
  BY DEF disposeClient, TypeOK, ClientOK
<1>3. UNCHANGED <<loop, attempt, permanentFailure, status, socket, closeSeen, opened,
                  serverVars, processVars>>
  BY DEF disposeClient
<1> QED BY <1>1, <1>2, <1>3 DEF TypeOK, ClientOK, NetworkOK, ServerOK, ProcessOK, serverVars,
             runnerVars, processVars

\* Continuing on a socket keeps the types of what it assigns.
LEMMA ContinueOnType ==
  ASSUME TypeOK, NEW c \in Connection, NEW k \in Sockets, NEW runner2 \in [Connection -> BOOLEAN],
         continueOn(c, k, runner2)
  PROVE  /\ serverSocket' \in [Connection -> Sockets \cup {NoSocket}]
         /\ serverCloseSeen' \in [Connection -> BOOLEAN]
         /\ disconnectRunner1' \in [Connection -> BOOLEAN]
         /\ disconnectRunner2' \in [Connection -> BOOLEAN]
         /\ alive' \in [Connection -> [Sockets -> BOOLEAN]]
<1>1. alive' \in [Connection -> [Sockets -> BOOLEAN]]
  BY ClosedType DEF continueOn, TypeOK, NetworkOK
<1> QED BY <1>1 DEF continueOn, TypeOK, ServerOK

\* Shortening the grace times keeps the type of the timers ...
LEMMA ShortenedType ==
  ASSUME TypeOK
  PROVE  Shortened \in [Connection -> BOOLEAN]
BY Zenon DEF Shortened, TypeOK, ServerOK

\* ... and that of the messages.
LEMMA ToldType ==
  ASSUME TypeOK
  PROVE  /\ Told \in [Connection -> Seq(Sockets \cup {Reduce})]
         /\ \A d \in Connection : Told[d] = ipc[d] \/ Told[d] = Append(ipc[d], Reduce)
<1>1. \A d \in Connection : /\ ipc[d] \in Seq(Sockets \cup {Reduce})
                            /\ Append(ipc[d], Reduce) \in Seq(Sockets \cup {Reduce})
  BY DEF TypeOK, ProcessOK
<1> QED BY <1>1 DEF Told

\* Every step keeps the types.
LEMMA TypeStep ==
  ASSUME TypeOK, ProcessIsStarted, [Next]_vars
  PROVE  TypeOK'
<1>1. ASSUME NEW c \in Connection, onSocketClose(c) PROVE TypeOK'
  BY <1>1, BeginReconnectingType DEF onSocketClose, TypeOK, ClientOK, NetworkOK, ServerOK,
      ProcessOK, loopVars, protocolVars, serverVars, runnerVars, processVars
<1>2. ASSUME NEW c \in Connection, onSocketTimeout(c) PROVE TypeOK'
  BY <1>2, BeginReconnectingType DEF onSocketTimeout, TypeOK, ClientOK, NetworkOK, ServerOK,
      ProcessOK, loopVars, protocolVars, serverVars, runnerVars, processVars
<1>3. ASSUME NEW c \in Connection, wakeUp(c) PROVE TypeOK'
  BY <1>3 DEF wakeUp, fire, TypeOK, ClientOK, NetworkOK, ServerOK, ProcessOK, Loop, Status,
      loopVars, protocolVars, serverVars, runnerVars, processVars
<1>4. ASSUME NEW c \in Connection, resolveConnectionOptions(c) PROVE TypeOK'
  BY <1>4 DEF resolveConnectionOptions, TypeOK, ClientOK, NetworkOK, ServerOK, ProcessOK,
      Loop, loopVars, protocolVars, serverVars, runnerVars, processVars
<1>5. ASSUME NEW c \in Connection, createSocket(c) PROVE TypeOK'
  <2> DEFINE k == opened[c] + 1
             next == [phase EXCEPT ![c][k] = "auth"]
             up == [alive[c] EXCEPT ![socket[c]] = FALSE, ![k] = TRUE]
  <2>1. k \in Sockets
    BY <1>5, ConnectionAssumption DEF createSocket, TypeOK, NetworkOK, Sockets
  <2>2. next \in [Connection -> [Sockets -> Phase]]
    BY <2>1, PhaseType DEF TypeOK, NetworkOK, Phase
  <2>3. up \in [Sockets -> BOOLEAN]
    BY DEF TypeOK, NetworkOK
  <2>4. phase' = next /\ alive' = [alive EXCEPT ![c] = up]
    BY <1>5 DEF createSocket, TypeOK, NetworkOK
  <2>5. socket' = [socket EXCEPT ![c] = k] /\ opened' = [opened EXCEPT ![c] = k]
    BY <1>5 DEF createSocket
  <2> HIDE DEF k, next, up
  <2>6. ClientOK'
    BY <1>5, <2>1, <2>5 DEF createSocket, TypeOK, ClientOK, Loop
  <2>7. NetworkOK'
    BY <2>1, <2>2, <2>3, <2>4, <2>5 DEF TypeOK, NetworkOK
  <2> QED BY <1>5, <2>6, <2>7 DEF createSocket, TypeOK, ServerOK, ProcessOK, serverVars,
      runnerVars, processVars
<1>6. ASSUME NEW c \in Connection, receiveSign(c) PROVE TypeOK'
  <2>1. phase' \in [Connection -> [Sockets -> Phase]]
    BY <1>6, PhaseType DEF receiveSign, TypeOK, NetworkOK, Phase
  <2> QED BY <1>6, <2>1 DEF receiveSign, TypeOK, ClientOK, NetworkOK, ServerOK, ProcessOK,
      loopVars, protocolVars, serverVars, runnerVars, processVars
<1>7. ASSUME NEW c \in Connection, receiveOk(c) PROVE TypeOK'
  <2> DEFINE next == IF didSendDisconnect[c] /\ c \notin Management THEN "disconnect" ELSE "done"
  <2>1. next \in Phase /\ phase' = [phase EXCEPT ![c][socket[c]] = next]
    BY <1>7 DEF receiveOk, Phase
  <2> HIDE DEF next
  <2>2. phase' \in [Connection -> [Sockets -> Phase]]
    BY <2>1, PhaseType DEF TypeOK, NetworkOK
  <2> QED BY <1>7, <2>2 DEF receiveOk, fire, TypeOK, ClientOK, NetworkOK, ServerOK, ProcessOK,
      Loop, Status, loopVars, protocolVars, serverVars, runnerVars, processVars
<1>8. ASSUME NEW c \in Connection, receiveError(c) PROVE TypeOK'
  BY <1>8, OnFailureType DEF receiveError
<1>9. ASSUME NEW c \in Connection, attemptTimesOut(c) PROVE TypeOK'
  <2>1. CASE onReconnectionPermanentFailure(c)
    BY <2>1, OnFailureType
  <2>2. CASE ~onReconnectionPermanentFailure(c)
    <3>1. CASE permanentFailure \/ isDisposed[c]
      BY <1>9, <2>2, <3>1 DEF attemptTimesOut, TypeOK, ClientOK, NetworkOK, ServerOK,
          ProcessOK, Loop, loopVars, protocolVars, serverVars, runnerVars, processVars
    <3>2. CASE ~(permanentFailure \/ isDisposed[c])
      <4>1. /\ loop' = [loop EXCEPT ![c] = "waiting"]
            /\ attempt' = [attempt EXCEPT ![c] = @ + 1]
            /\ fire(c, "ReconnectionWait")
            /\ UNCHANGED <<isDisposed, permanentFailure, protocolVars, opened, alive, phase,
                           serverVars, processVars>>
        BY <1>9, <2>2, <3>2 DEF attemptTimesOut
      <4>2. status' \in [Connection -> Status]
        BY <4>1 DEF fire, TypeOK, ClientOK, Status
      <4>3. loop' \in [Connection -> Loop]
        BY <4>1 DEF TypeOK, ClientOK, Loop
      <4>4. attempt' \in [Connection -> Nat]
        BY <4>1 DEF TypeOK, ClientOK
      <4> QED BY <4>1, <4>2, <4>3, <4>4 DEF TypeOK, ClientOK, NetworkOK, ServerOK,
          ProcessOK, loopVars, protocolVars, serverVars, runnerVars, processVars
    <3> QED BY <3>1, <3>2
  <2> QED BY <2>1, <2>2
<1>10. ASSUME NEW c \in Connection, attemptFails(c) PROVE TypeOK'
  BY <1>10, OnFailureType DEF attemptFails
<1>11. ASSUME NEW c \in Connection, disconnect(c) PROVE TypeOK'
  <2>1. phase' \in [Connection -> [Sockets -> Phase]]
    BY <1>11, GoodbyeType DEF disconnect, TypeOK, NetworkOK
  <2> QED BY <1>11, <2>1 DEF disconnect, TypeOK, ClientOK, NetworkOK, ServerOK, ProcessOK,
      loopVars, protocolVars, serverVars, runnerVars, processVars
<1>12. ASSUME NEW c \in Connection, dispose(c) PROVE TypeOK'
  <2>1. CASE phase' = SaidGoodbye(c) /\ disposeClient(c)
    BY <2>1, GoodbyeType, DisposeClientType DEF TypeOK, NetworkOK
  <2>2. CASE ~(phase' = SaidGoodbye(c) /\ disposeClient(c))
    BY <1>12, <2>2 DEF dispose, TypeOK, ClientOK, NetworkOK, ServerOK, ProcessOK, loopVars,
        protocolVars, serverVars, runnerVars, processVars
  <2> QED BY <2>1, <2>2
<1>13. ASSUME NEW c \in Connection, receiveBye(c) PROVE TypeOK'
  <2>1. phase' \in [Connection -> [Sockets -> Phase]]
    BY <1>13, PhaseType DEF receiveBye, TypeOK, NetworkOK, Phase
  <2> QED BY <1>13, <2>1, DisposeClientType DEF receiveBye
<1>14. ASSUME NEW c \in Connection, onServerSocketClose(c) PROVE TypeOK'
  BY <1>14 DEF onServerSocketClose, TypeOK, ClientOK, NetworkOK, ServerOK, ProcessOK,
      loopVars, protocolVars, serverVars, runnerVars, processVars
<1>15. ASSUME NEW c \in Connection, graceTimeExpires(c) PROVE TypeOK'
  BY <1>15, EndType DEF graceTimeExpires, end, TypeOK, ClientOK, loopVars, protocolVars
<1>16. ASSUME NEW c \in Connection, receiveDisconnect(c) PROVE TypeOK'
  BY <1>16, EndType DEF receiveDisconnect, end, TypeOK, ClientOK, loopVars, protocolVars
<1>17. ASSUME NEW c \in Connection, start(c) PROVE TypeOK'
  BY <1>17 DEF start, TypeOK, ClientOK, NetworkOK, ServerOK, ProcessOK, loopVars,
      protocolVars, serverVars, runnerVars, processVars
<1>18. ASSUME NEW c \in Connection, sendReady(c) PROVE TypeOK'
  BY <1>18 DEF sendReady, TypeOK, ClientOK, NetworkOK, ServerOK, ProcessOK, loopVars,
      protocolVars, serverVars, runnerVars, processVars
<1>19. ASSUME NEW c \in Connection, receiveReady(c) PROVE TypeOK'
  <2>1. connectionData[c] \in Sockets
    BY <1>19 DEF receiveReady, ProcessIsStarted, TypeOK, ProcessOK
  <2> QED BY <1>19, <2>1 DEF receiveReady, TypeOK, ClientOK, NetworkOK, ServerOK, ProcessOK,
      loopVars, protocolVars, serverVars, runnerVars, processVars
<1>20. ASSUME NEW c \in Connection, receiveIpc(c) PROVE TypeOK'
  <2>1. /\ Head(ipc[c]) \in Sockets \cup {Reduce}
        /\ Tail(ipc[c]) \in Seq(Sockets \cup {Reduce})
    BY <1>20 DEF receiveIpc, TypeOK, ProcessOK
  <2>2. ipc' \in [Connection -> Seq(Sockets \cup {Reduce})]
    BY <1>20, <2>1 DEF receiveIpc, TypeOK, ProcessOK
  <2>3. CASE receiveReduceGraceTime(c)
    BY <1>20, <2>2, <2>3 DEF receiveIpc, receiveReduceGraceTime, TypeOK, ClientOK,
        NetworkOK, ServerOK, ProcessOK, loopVars, protocolVars, serverVars, runnerVars,
        processVars
  <2>4. CASE receiveSocket(c)
    <3>1. Head(ipc[c]) \in Sockets /\ disconnectRunner2 \in [Connection -> BOOLEAN]
      BY <2>1, <2>4 DEF receiveSocket, TypeOK, ServerOK
    <3>2. /\ serverSocket' \in [Connection -> Sockets \cup {NoSocket}]
          /\ serverCloseSeen' \in [Connection -> BOOLEAN]
          /\ disconnectRunner1' \in [Connection -> BOOLEAN]
          /\ disconnectRunner2' \in [Connection -> BOOLEAN]
          /\ alive' \in [Connection -> [Sockets -> BOOLEAN]]
      BY <2>4, <3>1, ContinueOnType DEF receiveSocket
    <3> QED BY <1>20, <2>2, <2>4, <3>2 DEF receiveIpc, receiveSocket, TypeOK, ClientOK,
        NetworkOK, ServerOK, ProcessOK, loopVars, protocolVars, serverVars, runnerVars,
        processVars
  <2> QED BY <1>20, <2>3, <2>4 DEF receiveIpc
<1>21. ASSUME NEW c \in Connection, startTimerFires(c) PROVE TypeOK'
  BY <1>21, EndType DEF startTimerFires, end, TypeOK, ClientOK, loopVars, protocolVars
<1>22. ASSUME NEW c \in Connection, exit(c) PROVE TypeOK'
  BY <1>22, EndType DEF exit, end, TypeOK, ClientOK, loopVars, protocolVars
<1>23. ASSUME NEW c \in Connection, onExit(c) PROVE TypeOK'
  BY <1>23, ClosedType DEF onExit, TypeOK, ClientOK, NetworkOK, ServerOK, ProcessOK, loopVars,
      protocolVars, serverVars, runnerVars, processVars
<1>24. ASSUME NEW c \in Connection, NEW k \in Sockets, receiveAuth(c, k) PROVE TypeOK'
  <2>1. PICK p \in {"sign", "error"} : phase' = [phase EXCEPT ![c][k] = p]
    BY <1>24 DEF receiveAuth, reject
  <2>2. phase' \in [Connection -> [Sockets -> Phase]]
    BY <2>1, PhaseType DEF TypeOK, NetworkOK, Phase
  <2>3. alive' \in [Connection -> [Sockets -> BOOLEAN]]
    BY <1>24, ClosedType DEF receiveAuth, reject, TypeOK, NetworkOK
  <2> QED BY <1>24, <2>2, <2>3 DEF receiveAuth, TypeOK, ClientOK, NetworkOK, ServerOK,
      ProcessOK, loopVars, protocolVars, serverVars, runnerVars, processVars
<1>25. ASSUME NEW c \in Connection, NEW k \in Sockets, receiveConnectionType(c, k) PROVE TypeOK'
  <2>1. PICK p \in {"ok", "error", "port"} : phase' = [phase EXCEPT ![c][k] = p]
    BY <1>25 DEF receiveConnectionType, reject
  <2>2. phase' \in [Connection -> [Sockets -> Phase]]
    BY <2>1, PhaseType DEF TypeOK, NetworkOK, Phase
  <2>3. Shortened \in [Connection -> BOOLEAN] /\ ipc' \in [Connection -> Seq(Sockets \cup {Reduce})]
    BY <1>25, ShortenedType, ToldType DEF receiveConnectionType, TypeOK, ProcessOK
  <2>4. /\ serverSocket' \in [Connection -> Sockets \cup {NoSocket}]
        /\ serverCloseSeen' \in [Connection -> BOOLEAN]
        /\ disconnectRunner1' \in [Connection -> BOOLEAN]
        /\ disconnectRunner2' \in [Connection -> BOOLEAN]
        /\ alive' \in [Connection -> [Sockets -> BOOLEAN]]
    <3>1. CASE continueOn(c, k, Shortened)
      BY <2>3, <3>1, ContinueOnType
    <3>2. CASE reject(c, k) /\ UNCHANGED <<serverSocket, serverCloseSeen, disconnectRunner1>>
                           /\ disconnectRunner2' \in {disconnectRunner2, Shortened}
      BY <2>3, <3>2, ClosedType DEF reject, TypeOK, NetworkOK, ServerOK
    <3>3. CASE UNCHANGED <<alive, serverSocket, serverCloseSeen, disconnectRunner1>>
               /\ disconnectRunner2' = Shortened
      BY <2>3, <3>3 DEF TypeOK, NetworkOK, ServerOK
    <3> QED BY <1>25, <3>1, <3>2, <3>3 DEF receiveConnectionType, runnerVars
  <2> QED BY <1>25, <2>2, <2>3, <2>4 DEF receiveConnectionType, TypeOK, ClientOK, NetworkOK,
      ServerOK, ProcessOK, loopVars, protocolVars, serverVars, runnerVars, processVars
<1>26. ASSUME NEW c \in Connection, NEW k \in Sockets, acceptReconnection(c, k) PROVE TypeOK'
  <2>1. PICK p \in {"ok", "error"} : phase' = [phase EXCEPT ![c][k] = p]
    BY <1>26 DEF acceptReconnection, reject
  <2>2. phase' \in [Connection -> [Sockets -> Phase]]
    BY <2>1, PhaseType DEF TypeOK, NetworkOK, Phase
  <2>3. alive' \in [Connection -> [Sockets -> BOOLEAN]]
    BY <1>26, ClosedType DEF acceptReconnection, reject, TypeOK, NetworkOK
  <2>4. /\ connectionData' \in [Connection -> Sockets \cup {NoSocket}]
        /\ draining' \in [Connection -> SUBSET Sockets]
    <3>1. CASE ~known[c]
      BY <1>26, <3>1 DEF acceptReconnection, TypeOK, ProcessOK
    <3>2. CASE known[c] /\ process[c] \in {"none", "failed"}
      BY <1>26, <3>2 DEF acceptReconnection, TypeOK, ProcessOK
    <3>3. CASE known[c] /\ process[c] \notin {"none", "failed"}
      BY <1>26, <3>3 DEF acceptReconnection, TypeOK, ProcessOK
    <3> QED BY <3>1, <3>2, <3>3
  <2> QED BY <1>26, <2>2, <2>3, <2>4 DEF acceptReconnection, TypeOK, ClientOK, NetworkOK,
      ServerOK, ProcessOK, loopVars, protocolVars, serverVars, runnerVars, processVars
<1>27. ASSUME NEW c \in Connection, NEW k \in Sockets, sendSocket(c, k) PROVE TypeOK'
  BY <1>27 DEF sendSocket, TypeOK, ClientOK, NetworkOK, ServerOK, ProcessOK, loopVars,
      protocolVars, serverVars, runnerVars, processVars
<1>28. ASSUME NEW c \in Connection, NEW k \in Sockets, breakSocket(c, k) PROVE TypeOK'
  BY <1>28, ClosedType DEF breakSocket, TypeOK, ClientOK, NetworkOK, ServerOK, ProcessOK,
      loopVars, protocolVars, serverVars, runnerVars, processVars
<1>29. CASE initialConnectionFails
  <2>1. PICK failing : gotoPermanentFailure(failing)
    BY <1>29 DEF initialConnectionFails, triggerPermanentFailure
  <2>2. /\ status' \in [Connection -> Status]
        /\ listening' \in [Connection -> BOOLEAN]
        /\ isDisposed' \in [Connection -> BOOLEAN]
        /\ didSendDisconnect' \in [Connection -> BOOLEAN]
        /\ alive' \in [Connection -> [Sockets -> BOOLEAN]]
        /\ phase' \in [Connection -> [Sockets -> Phase]]
    BY <2>1, PermanentFailureType DEF TypeOK
  <2> QED BY <1>29, <2>2 DEF initialConnectionFails, triggerPermanentFailure, TypeOK,
      ClientOK, NetworkOK, ServerOK, ProcessOK, loopVars, protocolVars, serverVars,
      runnerVars, processVars
<1>30. CASE UNCHANGED vars
  BY <1>30 DEF vars, TypeOK, ClientOK, NetworkOK, ServerOK, ProcessOK, loopVars, protocolVars,
      serverVars, runnerVars, processVars
<1> QED
  <2>1. ASSUME NEW c \in Connection, ClientStep(c) PROVE TypeOK'
    BY <2>1, <1>1, <1>2, <1>3, <1>4, <1>5, <1>6, <1>7, <1>8, <1>9, <1>10, <1>11, <1>12,
        <1>13 DEF ClientStep
  <2>2. ASSUME NEW c \in Connection, ServerStep(c) PROVE TypeOK'
    BY <2>2, <1>14, <1>15, <1>16, <1>17, <1>19, <1>23, <1>24, <1>25, <1>26, <1>27 DEF ServerStep
  <2>3. ASSUME NEW c \in Connection, ProcessStep(c) PROVE TypeOK'
    BY <2>3, <1>18, <1>20, <1>21, <1>22 DEF ProcessStep
  <2> QED BY <2>1, <2>2, <2>3, <1>28, <1>29, <1>30 DEF Next

-----------------------------------------------------------------------------
\* A client's step leaves the server and its processes alone.
LEMMA ClientLeavesServer ==
  ASSUME NEW c \in Connection, ClientStep(c)
  PROVE  UNCHANGED <<serverVars, processVars>>
BY DEF ClientStep, onSocketClose, onSocketTimeout, wakeUp, resolveConnectionOptions,
   createSocket, receiveSign, receiveOk, receiveError, attemptTimesOut, attemptFails,
   onReconnectionPermanentFailure, disconnect, dispose, receiveBye, disposeClient

\* No step but createSocket opens a socket, or says the first word on it.
LEMMA OnlyClientOpens ==
  ASSUME TypeOK, [Next]_vars, \A c \in Connection : ~createSocket(c)
  PROVE  /\ opened' = opened
         /\ \A d \in Connection, i \in Sockets : alive'[d][i] => alive[d][i]
         /\ \A d \in Connection, i \in Sockets :
              phase'[d][i] # "none" => phase[d][i] # "none" \/ alive[d][i]
<1> DEFINE Opens == /\ opened' = opened
                    /\ \A d \in Connection, i \in Sockets : alive'[d][i] => alive[d][i]
                    /\ \A d \in Connection, i \in Sockets :
                         phase'[d][i] # "none" => phase[d][i] # "none" \/ alive[d][i]
<1> SUFFICES Opens
  OBVIOUS
<1>1. ASSUME NEW c \in Connection, onSocketClose(c) \/ onSocketTimeout(c) \/ wakeUp(c)
                                   \/ resolveConnectionOptions(c)
      PROVE  Opens
  BY <1>1 DEF onSocketClose, onSocketTimeout, wakeUp, resolveConnectionOptions
<1>2. ASSUME NEW c \in Connection, receiveSign(c) \/ receiveOk(c) PROVE Opens
  <2>1. PICK p \in Phase : /\ phase' = [phase EXCEPT ![c][socket[c]] = p]
                           /\ phase[c][socket[c]] # "none"
                           /\ UNCHANGED <<opened, alive>>
    BY <1>2 DEF receiveSign, receiveOk, Reads, Phase
  <2> QED BY <2>1, PhaseType DEF TypeOK, NetworkOK
<1>3. ASSUME NEW c \in Connection, receiveError(c) PROVE Opens
  BY <1>3, OnFailureType DEF receiveError
<1>4. ASSUME NEW c \in Connection, attemptTimesOut(c) \/ attemptFails(c) PROVE Opens
  <2>1. CASE onReconnectionPermanentFailure(c)
    BY <2>1, OnFailureType
  <2>2. CASE ~onReconnectionPermanentFailure(c)
    BY <1>4, <2>2 DEF attemptTimesOut, attemptFails
  <2> QED BY <2>1, <2>2
<1>5. ASSUME NEW c \in Connection, disconnect(c) PROVE Opens
  BY <1>5, GoodbyeType DEF disconnect, TypeOK, NetworkOK
<1>6. ASSUME NEW c \in Connection, dispose(c) PROVE Opens
  <2>1. CASE phase' = SaidGoodbye(c) /\ disposeClient(c)
    BY <2>1, GoodbyeType, ClosedType DEF disposeClient, TypeOK, NetworkOK
  <2>2. CASE ~(phase' = SaidGoodbye(c) /\ disposeClient(c))
    BY <1>6, <2>2 DEF dispose
  <2> QED BY <2>1, <2>2
<1>7. ASSUME NEW c \in Connection, receiveBye(c) PROVE Opens
  BY <1>7, PhaseType, ClosedType DEF receiveBye, disposeClient, TypeOK, NetworkOK, Phase
<1>8. ASSUME NEW c \in Connection, graceTimeExpires(c) \/ receiveDisconnect(c)
                                   \/ startTimerFires(c) \/ exit(c)
      PROVE  Opens
  <2>1. end(c)
    BY <1>8 DEF graceTimeExpires, receiveDisconnect, startTimerFires, exit
  <2> QED BY <2>1, EndType DEF end
<1>9. ASSUME NEW c \in Connection, NEW k \in Sockets,
             receiveAuth(c, k) \/ receiveConnectionType(c, k) \/ acceptReconnection(c, k)
      PROVE  Opens
  <2>1. PICK p \in Phase : /\ phase' = [phase EXCEPT ![c][k] = p]
                           /\ phase[c][k] # "none"
                           /\ opened' = opened
    BY <1>9 DEF receiveAuth, receiveConnectionType, acceptReconnection, reject, Phase
  <2>2. \/ alive' = alive
        \/ alive' = Closed(alive, c, k)
        \/ alive' = Closed(alive, c, serverSocket[c])
    BY <1>9 DEF receiveAuth, receiveConnectionType, acceptReconnection, reject, continueOn
  <2> QED BY <2>1, <2>2, PhaseType, ClosedType DEF TypeOK, NetworkOK
<1>10. ASSUME NEW c \in Connection, receiveIpc(c) \/ onExit(c) PROVE Opens
  <2>1. /\ UNCHANGED <<opened, phase>>
        /\ \/ alive' = alive
           \/ alive' = Closed(alive, c, serverSocket[c])
           \/ alive' = Closed(alive, c, connectionData[c])
    BY <1>10 DEF receiveIpc, receiveReduceGraceTime, receiveSocket, continueOn, onExit
  <2> QED BY <2>1, ClosedType DEF TypeOK, NetworkOK
<1>11. ASSUME NEW c \in Connection, NEW k \in Sockets, breakSocket(c, k) PROVE Opens
  BY <1>11, ClosedType DEF breakSocket, TypeOK, NetworkOK
<1>12. ASSUME NEW c \in Connection, onServerSocketClose(c) \/ start(c) \/ sendReady(c)
                                    \/ receiveReady(c)
       PROVE  Opens
  BY <1>12 DEF onServerSocketClose, start, sendReady, receiveReady
<1>13. ASSUME NEW c \in Connection, NEW k \in Sockets, sendSocket(c, k) PROVE Opens
  BY <1>13 DEF sendSocket
<1>14. CASE initialConnectionFails
  <2>1. PICK failing : gotoPermanentFailure(failing)
    BY <1>14 DEF initialConnectionFails, triggerPermanentFailure
  <2> QED BY <1>14, <2>1, PermanentFailureType DEF initialConnectionFails, TypeOK
<1>15. CASE UNCHANGED vars
  BY <1>15 DEF vars
<1> HIDE DEF Opens
<1> QED
  <2>1. ASSUME NEW c \in Connection, ClientStep(c) PROVE Opens
    BY <1>1, <1>2, <1>3, <1>4, <1>5, <1>6, <1>7, <2>1 DEF ClientStep
  <2>2. ASSUME NEW c \in Connection, ServerStep(c) PROVE Opens
    BY <1>8, <1>9, <1>10, <1>12, <1>13, <2>2 DEF ServerStep
  <2>3. ASSUME NEW c \in Connection, ProcessStep(c) PROVE Opens
    BY <1>8, <1>10, <1>12, <2>3 DEF ProcessStep
  <2> QED BY <1>11, <1>14, <1>15, <2>1, <2>2, <2>3 DEF Next

\* A socket gets to the server's side only through the handshake.
LEMMA HeldStep ==
  ASSUME TypeOK, ProcessIsStarted, [Next]_vars
  PROVE  \A d \in Connection, i \in Sockets :
           i \in Held(d)' => i \in Held(d) \/ phase[d][i] # "none"
<1> DEFINE Holds == \A d \in Connection, i \in Sockets :
                      i \in Held(d)' => i \in Held(d) \/ phase[d][i] # "none"
<1> SUFFICES Holds
  OBVIOUS
<1>1. ASSUME UNCHANGED <<serverSocket, connectionData, draining, ipc>> PROVE Holds
  BY <1>1 DEF Held
<1>2. ASSUME NEW c \in Connection, ClientStep(c) PROVE Holds
  BY <1>1, <1>2, ClientLeavesServer DEF serverVars, processVars
<1>3. ASSUME NEW c \in Connection, NEW k \in Sockets,
             receiveAuth(c, k) \/ breakSocket(c, k)
      PROVE  Holds
  BY <1>1, <1>3 DEF receiveAuth, breakSocket, serverVars, processVars
<1>4. ASSUME NEW c \in Connection, onServerSocketClose(c) \/ start(c) \/ sendReady(c)
      PROVE  Holds
  BY <1>1, <1>4 DEF onServerSocketClose, start, sendReady, serverVars, processVars
<1>5. ASSUME NEW c \in Connection, graceTimeExpires(c) \/ receiveDisconnect(c)
                                   \/ startTimerFires(c) \/ exit(c)
      PROVE  Holds
  <2>1. end(c)
    BY <1>5 DEF graceTimeExpires, receiveDisconnect, startTimerFires, exit
  <2>2. CASE c \in Management
    BY <1>1, <2>1, <2>2 DEF end, cleanResources, processVars
  <2>3. CASE c \notin Management
    <3>1. ipc' = [ipc EXCEPT ![c] = <<>>] /\ UNCHANGED <<serverSocket, connectionData, draining>>
      BY <2>1, <2>3 DEF end, terminate
    <3> QED BY <3>1 DEF Held, TypeOK, ProcessOK
  <2> QED BY <2>2, <2>3
<1>6. ASSUME NEW c \in Connection, NEW k \in Sockets, receiveConnectionType(c, k) PROVE Holds
  <2>1. /\ UNCHANGED <<connectionData, draining>>
        /\ ipc' = ipc \/ ipc' = Told
        /\ serverSocket' = serverSocket \/ serverSocket' = [serverSocket EXCEPT ![c] = k]
        /\ phase[c][k] # "none"
    BY <1>6 DEF receiveConnectionType, continueOn
  <2>2. ASSUME NEW d \in Connection, NEW i \in Sockets, NEW j \in 1 .. Len(ipc'[d]), ipc'[d][j] = i
        PROVE  \E l \in 1 .. Len(ipc[d]) : ipc[d][l] = i
    <3>1. ipc[d] \in Seq(Sockets \cup {Reduce}) /\ i # Reduce
      BY SocketNumbers DEF TypeOK, ProcessOK
    <3>2. ipc'[d] = ipc[d] \/ ipc'[d] = Append(ipc[d], Reduce)
      BY <2>1, ToldType
    <3> QED BY <2>2, <3>1, <3>2
  <2> QED BY <2>1, <2>2 DEF Held, TypeOK, ServerOK
<1>7. ASSUME NEW c \in Connection, NEW k \in Sockets, acceptReconnection(c, k) PROVE Holds
  <2>1. /\ UNCHANGED <<serverSocket, ipc>>
        /\ phase[c][k] # "none"
        /\ \/ connectionData' = connectionData
           \/ connectionData' = [connectionData EXCEPT ![c] = k]
        /\ draining' = draining \/ draining' = [draining EXCEPT ![c] = @ \cup {k}]
    BY <1>7 DEF acceptReconnection, serverVars
  <2>2. ASSUME NEW d \in Connection, NEW i \in Sockets
        PROVE  /\ i = connectionData'[d] => i = connectionData[d] \/ (d = c /\ i = k)
               /\ i \in draining'[d] => i \in draining[d] \/ (d = c /\ i = k)
    BY <2>1 DEF TypeOK, ProcessOK
  <2> QED BY <2>1, <2>2 DEF Held
<1>8. ASSUME NEW c \in Connection, receiveReady(c) PROVE Holds
  BY <1>8, SocketNumbers DEF receiveReady, Held, serverVars, TypeOK, ProcessOK
<1>9. ASSUME NEW c \in Connection, NEW k \in Sockets, sendSocket(c, k) PROVE Holds
  <2>1. /\ UNCHANGED <<serverSocket, connectionData>>
        /\ k \in draining[c] /\ draining' = [draining EXCEPT ![c] = @ \ {k}]
        /\ ipc' = ipc \/ ipc' = [ipc EXCEPT ![c] = Append(@, k)]
    BY <1>9 DEF sendSocket, serverVars
  <2>2. ASSUME NEW d \in Connection, NEW i \in Sockets, NEW j \in 1 .. Len(ipc'[d]), ipc'[d][j] = i
        PROVE  (d = c /\ i = k) \/ \E l \in 1 .. Len(ipc[d]) : ipc[d][l] = i
    <3>1. ipc[d] \in Seq(Sockets \cup {Reduce})
      BY DEF TypeOK, ProcessOK
    <3>2. ipc'[d] = ipc[d] \/ (d = c /\ ipc'[d] = Append(ipc[d], k))
      <4>1. DOMAIN ipc = Connection
        BY DEF TypeOK, ProcessOK
      <4>2. [ipc EXCEPT ![c] = Append(@, k)][d] = IF d = c THEN Append(ipc[d], k) ELSE ipc[d]
        BY <4>1
      <4> QED BY <2>1, <4>2
    <3> QED BY <2>2, <3>1, <3>2
  <2> QED BY <2>1, <2>2 DEF Held, TypeOK, ProcessOK
<1>10. ASSUME NEW c \in Connection, receiveIpc(c) PROVE Holds
  <2>1. /\ ipc[c] \in Seq(Sockets \cup {Reduce}) /\ ipc[c] # <<>>
        /\ ipc' = [ipc EXCEPT ![c] = Tail(@)]
        /\ UNCHANGED <<connectionData, draining>>
        /\ serverSocket' = serverSocket \/ serverSocket' = [serverSocket EXCEPT ![c] = Head(ipc[c])]
    BY <1>10 DEF receiveIpc, receiveReduceGraceTime, receiveSocket, continueOn, TypeOK,
        ProcessOK
  <2>2. Head(ipc[c]) = ipc[c][1] /\ 1 \in 1 .. Len(ipc[c])
    BY <2>1
  <2>3. ASSUME NEW d \in Connection, NEW i \in Sockets, NEW j \in 1 .. Len(ipc'[d]), ipc'[d][j] = i
        PROVE  \E l \in 1 .. Len(ipc[d]) : ipc[d][l] = i
    <3>1. CASE d # c
      BY <2>1, <2>3, <3>1 DEF TypeOK, ProcessOK
    <3>2. CASE d = c
      <4>1. ipc'[d] = Tail(ipc[d])
        BY <2>1, <3>2 DEF TypeOK, ProcessOK
      <4>2. /\ Len(Tail(ipc[c])) = Len(ipc[c]) - 1
            /\ \A l \in 1 .. Len(Tail(ipc[c])) : Tail(ipc[c])[l] = ipc[c][l + 1]
        BY <2>1, HeadTailProperties
      <4>3. j \in 1 .. Len(Tail(ipc[c])) /\ Tail(ipc[c])[j] = i
        BY <2>3, <3>2, <4>1
      <4>4. Len(ipc[c]) \in Nat
        BY <2>1, LenProperties
      <4>5. j + 1 \in 1 .. Len(ipc[c])
        BY <4>2, <4>3, <4>4
      <4>6. ipc[c][j + 1] = i
        BY <4>2, <4>3
      <4> QED BY <3>2, <4>5, <4>6
    <3> QED BY <3>1, <3>2
  <2> QED BY <2>1, <2>2, <2>3 DEF Held, TypeOK, ServerOK
<1>11. ASSUME NEW c \in Connection, onExit(c) PROVE Holds
  BY <1>11, SocketNumbers DEF onExit, Held, TypeOK, ProcessOK
<1>12. CASE initialConnectionFails \/ UNCHANGED vars
  BY <1>1, <1>12 DEF initialConnectionFails, vars, serverVars, processVars
<1> HIDE DEF Holds
<1> QED BY <1>2, <1>3, <1>4, <1>5, <1>6, <1>7, <1>8, <1>9, <1>10, <1>11, <1>12
        DEF Next, ServerStep, ProcessStep

\* A socket is opened before it is used or held.
LEMMA OpenedStep ==
  ASSUME TypeOK, ProcessIsStarted, SocketsAreOpened, [Next]_vars
  PROVE  SocketsAreOpened'
<1>1. CASE \A c \in Connection : ~createSocket(c)
  <2> SUFFICES ASSUME NEW c \in Connection, NEW k \in Sockets,
                      alive'[c][k] \/ phase'[c][k] # "none" \/ k \in Held(c)'
               PROVE  k <= opened'[c]
    BY DEF SocketsAreOpened
  <2>1. alive[c][k] \/ phase[c][k] # "none" \/ k \in Held(c)
    BY <1>1, OnlyClientOpens, HeldStep
  <2> QED BY <1>1, <2>1, OnlyClientOpens DEF SocketsAreOpened
<1>2. ASSUME NEW c \in Connection, createSocket(c) PROVE SocketsAreOpened'
  <2> SUFFICES ASSUME NEW d \in Connection, NEW i \in Sockets,
                      alive'[d][i] \/ phase'[d][i] # "none" \/ i \in Held(d)'
               PROVE  i <= opened'[d]
    BY DEF SocketsAreOpened
  <2> DEFINE k == opened[c] + 1
  <2>1. k \in Sockets /\ k \in Nat /\ i \in Nat /\ opened[d] \in Nat
    BY <1>2, ConnectionAssumption DEF createSocket, TypeOK, NetworkOK, Sockets
  <2>2. opened'[d] = IF d = c THEN k ELSE opened[d]
    BY <1>2 DEF createSocket, TypeOK, NetworkOK
  <2>3. Held(d)' = Held(d)
    <3>1. UNCHANGED <<serverSocket, connectionData, draining, ipc>>
      BY <1>2 DEF createSocket, serverVars, processVars
    <3> QED BY <3>1 DEF Held
  <2> DEFINE up == [alive[c] EXCEPT ![socket[c]] = FALSE, ![k] = TRUE]
  <2>4. phase' = [phase EXCEPT ![c][k] = "auth"] /\ alive' = [alive EXCEPT ![c] = up]
    BY <1>2 DEF createSocket, TypeOK, NetworkOK
  <2>5. up[i] => alive[c][i] \/ i = k
    BY DEF TypeOK, NetworkOK
  <2> HIDE DEF k, up
  <2>6. alive'[d][i] => alive[d][i] \/ (d = c /\ i = k)
    BY <2>4, <2>5 DEF TypeOK, NetworkOK
  <2>7. phase'[d][i] # "none" => phase[d][i] # "none" \/ (d = c /\ i = k)
    BY <2>1, <2>4, PhaseType DEF TypeOK, NetworkOK, Phase
  <2>8. i <= opened[d] \/ (d = c /\ i = k)
    BY <2>3, <2>6, <2>7 DEF SocketsAreOpened
  <2> QED BY <2>1, <2>2, <2>8 DEF k
<1> QED BY <1>1, <1>2

\* Until the process has asked for its socket, its connection has one for it.
LEMMA StartedStep ==
  ASSUME TypeOK, ProcessIsStarted, [Next]_vars
  PROVE  ProcessIsStarted'
<1>1. ASSUME UNCHANGED <<known, process, ready, connectionData>> PROVE ProcessIsStarted'
  BY <1>1 DEF ProcessIsStarted
<1>2. ASSUME NEW c \in Connection, ClientStep(c) PROVE ProcessIsStarted'
  BY <1>1, <1>2, ClientLeavesServer DEF serverVars, processVars
<1>3. ASSUME NEW c \in Connection, NEW k \in Sockets,
             receiveAuth(c, k) \/ receiveConnectionType(c, k) \/ sendSocket(c, k)
             \/ breakSocket(c, k)
      PROVE  ProcessIsStarted'
  BY <1>1, <1>3 DEF receiveAuth, receiveConnectionType, sendSocket, breakSocket, serverVars,
                    processVars
<1>4. ASSUME NEW c \in Connection, onServerSocketClose(c) \/ receiveIpc(c)
      PROVE  ProcessIsStarted'
  BY <1>1, <1>4 DEF onServerSocketClose, receiveIpc, processVars
<1>5. ASSUME NEW c \in Connection, NEW k \in Sockets, acceptReconnection(c, k)
      PROVE  ProcessIsStarted'
  <2>1. /\ UNCHANGED <<known, process, ready>>
        /\ \/ connectionData' = connectionData
           \/ connectionData' = [connectionData EXCEPT ![c] = k]
    BY <1>5 DEF acceptReconnection, serverVars
  <2> QED BY <2>1, SocketNumbers DEF ProcessIsStarted, TypeOK, ProcessOK
<1>6. ASSUME NEW c \in Connection, graceTimeExpires(c) \/ receiveDisconnect(c)
                                   \/ startTimerFires(c) \/ exit(c)
      PROVE  ProcessIsStarted'
  <2>1. end(c)
    BY <1>6 DEF graceTimeExpires, receiveDisconnect, startTimerFires, exit
  <2>2. CASE c \in Management
    BY <2>1, <2>2 DEF end, cleanResources, processVars, ProcessIsStarted, TypeOK, ServerOK
  <2>3. CASE c \notin Management
    BY <2>1, <2>3 DEF end, terminate, ProcessIsStarted, TypeOK, ProcessOK
  <2> QED BY <2>2, <2>3
<1>7. ASSUME NEW c \in Connection, start(c) \/ sendReady(c) PROVE ProcessIsStarted'
  <2>1. /\ c \notin Management
        /\ \A d \in Connection : d # c => process'[d] = process[d] /\ ready'[d] = ready[d]
        /\ ready'[c] = "read" => ready[c] = "read"
        /\ UNCHANGED <<known, connectionData>>
    BY <1>7 DEF start, sendReady, serverVars, ProcessIsStarted, TypeOK, ProcessOK
  <2> SUFFICES ASSUME NEW d \in Connection
               PROVE  /\ d \in Management => process'[d] = "none"
                      /\ process'[d] \in {"none", "launched"} => ready'[d] = "no"
                      /\ d \notin Management /\ known'[d] /\ ready'[d] # "read"
                           => connectionData'[d] # NoSocket
    BY DEF ProcessIsStarted
  <2>2. /\ d \in Management => process'[d] = "none"
        /\ process'[d] \in {"none", "launched"} => ready'[d] = "no"
    BY <1>7, <2>1 DEF ProcessIsStarted, start, sendReady, TypeOK, ProcessOK
  <2>3. ASSUME d \notin Management, known'[d], ready'[d] # "read"
        PROVE  connectionData'[d] # NoSocket
    <3>1. known[d] /\ ready[d] # "read"
      BY <1>7, <2>1, <2>3 DEF ProcessIsStarted, start, sendReady, TypeOK, ProcessOK
    <3> QED BY <2>1, <2>3, <3>1 DEF ProcessIsStarted
  <2> QED BY <2>2, <2>3
<1>8. ASSUME NEW c \in Connection, receiveReady(c) PROVE ProcessIsStarted'
  BY <1>8 DEF receiveReady, serverVars, ProcessIsStarted, TypeOK, ProcessOK
<1>9. ASSUME NEW c \in Connection, onExit(c) PROVE ProcessIsStarted'
  BY <1>9 DEF onExit, ProcessIsStarted, TypeOK, ServerOK, ProcessOK
<1>10. CASE initialConnectionFails \/ UNCHANGED vars
  BY <1>1, <1>10 DEF initialConnectionFails, vars, serverVars, processVars
<1> QED BY <1>2, <1>3, <1>4, <1>5, <1>6, <1>7, <1>8, <1>9, <1>10
        DEF Next, ServerStep, ProcessStep

\* A grace timer that runs after a step ran before it, or the step has seen the
\* socket closed; in either case the connection keeps its socket.
LEMMA RunnersStep ==
  ASSUME TypeOK, [Next]_vars,
         NEW d \in Connection, disconnectRunner1'[d] \/ disconnectRunner2'[d]
  PROVE  /\ serverSocket'[d] = serverSocket[d]
         /\ \/ disconnectRunner1[d] \/ disconnectRunner2[d]
            \/ serverSocket[d] # NoSocket /\ ~alive[d][serverSocket[d]]
<1> DEFINE Runs == /\ serverSocket'[d] = serverSocket[d]
                   /\ \/ disconnectRunner1[d] \/ disconnectRunner2[d]
                      \/ serverSocket[d] # NoSocket /\ ~alive[d][serverSocket[d]]
<1> SUFFICES Runs
  OBVIOUS
<1>1. ASSUME UNCHANGED <<serverSocket, disconnectRunner1, disconnectRunner2>> PROVE Runs
  BY <1>1
<1>2. ASSUME NEW c \in Connection, ClientStep(c) PROVE Runs
  BY <1>1, <1>2, ClientLeavesServer DEF serverVars, runnerVars
<1>3. ASSUME NEW c \in Connection, NEW k \in Sockets,
             receiveAuth(c, k) \/ acceptReconnection(c, k) \/ sendSocket(c, k)
             \/ breakSocket(c, k)
      PROVE  Runs
  BY <1>1, <1>3 DEF receiveAuth, acceptReconnection, sendSocket, breakSocket, serverVars,
                    runnerVars
<1>4. ASSUME NEW c \in Connection, start(c) \/ sendReady(c) \/ receiveReady(c) \/ onExit(c)
      PROVE  Runs
  BY <1>1, <1>4 DEF start, sendReady, receiveReady, onExit, serverVars, runnerVars
<1>5. ASSUME NEW c \in Connection, graceTimeExpires(c) \/ receiveDisconnect(c)
                                   \/ startTimerFires(c) \/ exit(c)
      PROVE  Runs
  <2>1. end(c)
    BY <1>5 DEF graceTimeExpires, receiveDisconnect, startTimerFires, exit
  <2>2. /\ serverSocket' = serverSocket
        /\ disconnectRunner1' = [disconnectRunner1 EXCEPT ![c] = FALSE]
        /\ disconnectRunner2' = [disconnectRunner2 EXCEPT ![c] = FALSE]
    BY <2>1 DEF end, cleanResources, terminate
  <2> QED BY <2>2 DEF TypeOK, ServerOK
<1>6. ASSUME NEW c \in Connection, onServerSocketClose(c) PROVE Runs
  BY <1>6 DEF onServerSocketClose, TypeOK, ServerOK
<1>7. ASSUME Shortened[d] PROVE disconnectRunner1[d] \/ disconnectRunner2[d]
  BY <1>7 DEF Shortened
<1>8. ASSUME NEW c \in Connection, NEW k, NEW runner2 \in [Connection -> BOOLEAN],
             continueOn(c, k, runner2)
      PROVE  /\ serverSocket'[d] = serverSocket[d]
             /\ disconnectRunner1[d] \/ runner2[d]
  BY <1>8 DEF continueOn, TypeOK, ServerOK
<1>9. ASSUME NEW c \in Connection, NEW k \in Sockets, receiveConnectionType(c, k) PROVE Runs
  <2>1. CASE continueOn(c, k, Shortened)
    BY <1>7, <1>8, <2>1, ShortenedType
  <2>2. CASE /\ UNCHANGED <<serverSocket, disconnectRunner1>>
             /\ disconnectRunner2' = disconnectRunner2 \/ disconnectRunner2' = Shortened
    BY <1>7, <2>2
  <2> QED BY <1>9, <2>1, <2>2 DEF receiveConnectionType, runnerVars
<1>10. ASSUME NEW c \in Connection, receiveIpc(c) PROVE Runs
  <2>1. CASE receiveReduceGraceTime(c)
    BY <2>1 DEF receiveReduceGraceTime, TypeOK, ServerOK
  <2>2. CASE receiveSocket(c)
    BY <1>8, <2>2 DEF receiveSocket, TypeOK, ServerOK
  <2> QED BY <1>10, <2>1, <2>2 DEF receiveIpc
<1>11. CASE initialConnectionFails \/ UNCHANGED vars
  BY <1>1, <1>11 DEF initialConnectionFails, vars, serverVars, runnerVars
<1> HIDE DEF Runs
<1> QED BY <1>2, <1>3, <1>4, <1>5, <1>6, <1>9, <1>10, <1>11 DEF Next, ServerStep, ProcessStep

\* Every step keeps the grace timers of connected clients stopped.
LEMMA GraceStep ==
  ASSUME TypeOK, SocketsAreOpened, GraceMeansDisconnected, [Next]_vars
  PROVE  GraceMeansDisconnected'
<1> SUFFICES ASSUME NEW d \in Connection, disconnectRunner1'[d] \/ disconnectRunner2'[d]
             PROVE  serverSocket'[d] # NoSocket /\ ~alive'[d][serverSocket'[d]]
  BY DEF GraceMeansDisconnected
<1> DEFINE k == serverSocket[d]
<1>1. serverSocket'[d] = k /\ k # NoSocket /\ ~alive[d][k]
  BY RunnersStep DEF GraceMeansDisconnected
<1>2. k \in Sockets
  BY <1>1 DEF TypeOK, ServerOK
<1> SUFFICES ~alive'[d][k]
  BY <1>1
<1>3. CASE \A c \in Connection : ~createSocket(c)
  BY <1>1, <1>2, <1>3, OnlyClientOpens
<1>4. ASSUME NEW c \in Connection, createSocket(c) PROVE ~alive'[d][k]
  <2>1. k \in Nat /\ opened[d] \in Nat /\ k <= opened[d]
    BY <1>2, SocketNumbers DEF SocketsAreOpened, Held, TypeOK, NetworkOK
  <2>2. k # opened[d] + 1
    BY <2>1
  <2> DEFINE up == [alive[c] EXCEPT ![socket[c]] = FALSE, ![opened[c] + 1] = TRUE]
  <2>3. alive' = [alive EXCEPT ![c] = up]
    BY <1>4 DEF createSocket, TypeOK, NetworkOK
  <2>4. d = c => ~up[k]
    BY <1>1, <1>2, <2>2 DEF TypeOK, NetworkOK
  <2> HIDE DEF k, up
  <2> QED BY <1>1, <1>2, <2>3, <2>4 DEF TypeOK, NetworkOK
<1> QED BY <1>3, <1>4

\* Inv holds initially, and every step keeps it.
LEMMA Invariant == Spec => []Inv
<1>1. Init => Inv
  <2> SUFFICES ASSUME Init PROVE Inv
    OBVIOUS
  <2>1. 1 \in Sockets
    BY ConnectionAssumption DEF Sockets
  <2>2. ClientOK /\ ServerOK
    BY <2>1 DEF Init, ClientOK, ServerOK, Loop, Status
  <2>3. NetworkOK
    BY <2>1 DEF Init, NetworkOK, Phase
  <2>4. ProcessOK
    BY <2>1 DEF Init, ProcessOK
  <2>5. ProcessIsStarted
    <3>1. \A c \in Connection : /\ process[c] = "none" /\ ready[c] = "no"
                                /\ c \notin Management => connectionData[c] = 1
      BY DEF Init
    <3>2. \A c \in Connection : c \notin Management => connectionData[c] # NoSocket
      BY <3>1 DEF NoSocket
    <3> QED BY <3>1, <3>2, Zenon DEF ProcessIsStarted
  <2>6. SocketsAreOpened
    <3> SUFFICES ASSUME NEW c \in Connection, NEW k \in Sockets,
                        alive[c][k] \/ phase[c][k] # "none" \/ k \in Held(c)
                 PROVE  k <= opened[c]
      BY DEF SocketsAreOpened
    <3>1. opened[c] = 1 /\ k \in Nat /\ k # NoSocket
      BY SocketNumbers DEF Init
    <3>2. alive[c][k] => k = 1
      BY DEF Init
    <3>3. phase[c][k] # "none" => k = 1
      BY DEF Init
    <3>4. k \in Held(c) => k = 1
      <4>1. ipc[c] = <<>> /\ draining[c] = {}
        BY DEF Init
      <4>2. serverSocket[c] \in {1, NoSocket} /\ connectionData[c] \in {1, NoSocket}
        BY DEF Init
      <4> QED BY <3>1, <4>1, <4>2 DEF Held
    <3> QED BY <3>1, <3>2, <3>3, <3>4
  <2>7. GraceMeansDisconnected
    BY DEF Init, GraceMeansDisconnected
  <2> QED BY <2>2, <2>3, <2>4, <2>5, <2>6, <2>7 DEF Inv, TypeOK
<1>2. Inv /\ [Next]_vars => Inv'
  BY TypeStep, StartedStep, OpenedStep, GraceStep DEF Inv
<1> QED BY <1>1, <1>2, PTL DEF Spec

\* The variables keep their types: every socket that is drained, sent, or
\* continued on is one of the connection's sockets.
THEOREM TypeCorrect == Spec => []TypeOK
<1>1. Inv => TypeOK
  BY DEF Inv
<1> QED BY <1>1, Invariant, PTL

\* For any number of connections, sockets and attempts: no grace timer, long or
\* short, runs on the server or in an extension host process for a connection
\* whose socket is up (ManagementConnection, extensionHostProcess).
THEOREM GraceIsSafe == Spec => []GraceMeansDisconnected
<1>1. Inv => GraceMeansDisconnected
  BY DEF Inv
<1> QED BY <1>1, Invariant, PTL

\* When the extension host process asks for its socket, _connectionData is not
\* null (ExtensionHostConnection.start).
THEOREM SocketIsThere == Spec => []SocketIsKept
<1>1. Inv => SocketIsKept
  BY DEF Inv, ProcessIsStarted, SocketIsKept
<1> QED BY <1>1, Invariant, PTL

\* For any number of connections: after a permanent failure no connection of the
\* window begins another attempt, the one included that triggerPermanentFailure
\* passed over (_beginReconnecting, _runReconnectingLoop).
THEOREM FailureStops == Spec => FailureStopsLoops
<1> DEFINE Stops == \A c \in Connection :
                      permanentFailure /\ loop'[c] = "resolving" => loop[c] = "resolving"
<1>1. ASSUME TypeOK, [Next]_vars PROVE Stops
  <2> SUFFICES ASSUME permanentFailure, NEW d \in Connection, loop'[d] = "resolving"
               PROVE  loop[d] = "resolving"
    OBVIOUS
  <2> DEFINE Kept == loop[d] = "resolving"
  <2>1. CASE loop' = loop
    BY <2>1
  <2>2. ASSUME NEW c \in Connection, NEW l, l # "resolving", loop' = [loop EXCEPT ![c] = l]
        PROVE  Kept
    BY <2>2 DEF TypeOK, ClientOK
  <2>3. ASSUME NEW c \in Connection, beginReconnecting(c) PROVE Kept
    BY <2>1, <2>3 DEF beginReconnecting
  <2>4. ASSUME NEW c \in Connection, onReconnectionPermanentFailure(c) PROVE Kept
    BY <2>2, <2>4 DEF onReconnectionPermanentFailure
  <2>5. ASSUME NEW c \in Connection, ClientStep(c) PROVE Kept
    <3>1. CASE onSocketClose(c) \/ onSocketTimeout(c)
      BY <2>3, <3>1 DEF onSocketClose, onSocketTimeout
    <3>2. CASE wakeUp(c)
      BY <2>2, <3>2 DEF wakeUp
    <3>3. CASE resolveConnectionOptions(c) \/ createSocket(c) \/ receiveOk(c)
      BY <2>2, <3>3 DEF resolveConnectionOptions, createSocket, receiveOk
    <3>4. CASE receiveError(c) \/ attemptFails(c)
      BY <2>4, <3>4 DEF receiveError, attemptFails
    <3>5. CASE attemptTimesOut(c)
      BY <2>2, <2>4, <3>5 DEF attemptTimesOut
    <3>6. CASE receiveSign(c) \/ disconnect(c) \/ dispose(c) \/ receiveBye(c)
      BY <2>1, <3>6 DEF receiveSign, disconnect, dispose, disposeClient, receiveBye, loopVars
    <3> QED BY <2>5, <3>1, <3>2, <3>3, <3>4, <3>5, <3>6 DEF ClientStep
  <2>6. ASSUME NEW c \in Connection, ServerStep(c) PROVE Kept
    <3>1. loop' = loop
      BY <2>6 DEF ServerStep, receiveAuth, receiveConnectionType, acceptReconnection,
                  onServerSocketClose, graceTimeExpires, receiveDisconnect, end, start,
                  receiveReady, onExit, sendSocket, loopVars
    <3> QED BY <2>1, <3>1
  <2>7. ASSUME NEW c \in Connection, ProcessStep(c) \/ \E k \in Sockets : breakSocket(c, k)
        PROVE  Kept
    <3>1. loop' = loop
      BY <2>7 DEF ProcessStep, sendReady, receiveIpc, receiveReduceGraceTime, receiveSocket,
                  startTimerFires, exit, end, breakSocket, loopVars
    <3> QED BY <2>1, <3>1
  <2>8. ASSUME initialConnectionFails \/ UNCHANGED vars PROVE Kept
    BY <2>1, <2>8 DEF initialConnectionFails, vars, loopVars
  <2> HIDE DEF Kept
  <2>9. Kept
    BY <1>1, <2>5, <2>6, <2>7, <2>8 DEF Next
  <2> QED BY <2>9 DEF Kept
<1>2. ASSUME TypeOK, [Next]_vars PROVE [Stops]_vars
  BY <1>1, <1>2
<1> QED BY <1>2, TypeCorrect, PTL DEF Spec, FailureStopsLoops

-----------------------------------------------------------------------------
(***************************************************************************)
(* What the window believes: no close event is lost, a connection that     *)
(* seems to be up is served, and a failure is final.                       *)
(***************************************************************************)
\* The server, the processes and the network leave the client's state alone.
LEMMA OthersLeaveClient ==
  ASSUME NEW c \in Connection,
         ServerStep(c) \/ ProcessStep(c) \/ \E k \in Sockets : breakSocket(c, k)
  PROVE  UNCHANGED <<loopVars, protocolVars>>
<1>1. CASE ServerStep(c)
  BY <1>1 DEF ServerStep, receiveAuth, receiveConnectionType, acceptReconnection,
     onServerSocketClose, graceTimeExpires, receiveDisconnect, end, start,
     receiveReady, onExit, sendSocket
<1>2. CASE ProcessStep(c) \/ \E k \in Sockets : breakSocket(c, k)
  BY <1>2 DEF ProcessStep, sendReady, receiveIpc, startTimerFires, exit, end, breakSocket
<1> QED BY <1>1, <1>2

\* A permanent failure disposes the protocols of those that fail, and the
\* management connection altogether.
LEMMA FailureEffect ==
  ASSUME TypeOK, NEW failing, gotoPermanentFailure(failing), NEW d \in Connection
  PROVE  /\ listening'[d] => listening[d] /\ d \notin failing
         /\ isDisposed[d] => isDisposed'[d]
         /\ d \in failing \cap Management => isDisposed'[d]
         /\ isDisposed[d] \/ d \notin failing => status'[d] = status[d]
         /\ \A i \in Sockets : phase'[d][i] \in {"ok", "port"} => phase'[d][i] = phase[d][i]
         /\ \A i \in Sockets : alive'[d][i] => alive[d][i]
<1>1. /\ listening'[d] => listening[d] /\ d \notin failing
      /\ isDisposed[d] => isDisposed'[d]
      /\ d \in failing \cap Management => isDisposed'[d]
      /\ isDisposed[d] \/ d \notin failing => status'[d] = status[d]
  BY DEF gotoPermanentFailure
<1>2. ASSUME NEW i \in Sockets, phase'[d][i] \in {"ok", "port"} PROVE phase'[d][i] = phase[d][i]
  <2> DEFINE k == socket[d]
             next == IF alive[d][k] /\ phase[d][k] = "done" /\ ~didSendDisconnect[d]
                       THEN "disconnect" ELSE phase[d][k]
  <2>1. SaidGoodbye(d) = [phase EXCEPT ![d][k] = next]
    BY DEF SaidGoodbye
  <2>2. k \in Sockets /\ next \in Phase /\ phase \in [Connection -> [Sockets -> Phase]]
    BY DEF TypeOK, NetworkOK, ClientOK, Phase
  <2>3. next = phase[d][k] \/ next = "disconnect"
    OBVIOUS
  <2> HIDE DEF k, next
  <2>4. SaidGoodbye(d)[d][i] = IF i = k THEN next ELSE phase[d][i]
    BY <2>1, <2>2, PhaseType
  <2>5. phase'[d] = SaidGoodbye(d)[d] \/ phase'[d] = phase[d]
    BY DEF gotoPermanentFailure
  <2> QED BY <1>2, <2>3, <2>4, <2>5
<1>3. \A i \in Sockets : alive'[d][i] => alive[d][i]
  BY PermanentFailureType DEF TypeOK
<1> QED BY <1>1, <1>2, <1>3

\* Whoever is passed over, the management connection is not.
LEMMA TriggerEffect ==
  ASSUME TypeOK, triggerPermanentFailure
  PROVE  /\ permanentFailure' /\ \A d \in Management : isDisposed'[d]
         /\ \E failing : gotoPermanentFailure(failing)
<1>1. PICK failing \in {Instances} \cup {Instances \ {c} : c \in PassedOver} : gotoPermanentFailure(failing)
  BY DEF triggerPermanentFailure
<1>2. ASSUME NEW d \in Management PROVE isDisposed'[d]
  <2>1. d \in Connection
    BY ConnectionAssumption
  <2>2. isDisposed[d] \/ d \in failing
    BY <2>1 DEF Instances, PassedOver
  <2> QED BY <1>1, <2>1, <2>2, FailureEffect
<1> QED BY <1>1, <1>2 DEF triggerPermanentFailure

\* An attempt fails for good.
LEMMA OnFailureEffect ==
  ASSUME TypeOK, NEW c \in Connection, onReconnectionPermanentFailure(c)
  PROVE  /\ \E failing : /\ gotoPermanentFailure(failing)
                         /\ c \notin Management => failing = {c}
         /\ c \in Management => permanentFailure' /\ \A d \in Management : isDisposed'[d]
         /\ c \notin Management => permanentFailure' = permanentFailure
         /\ loop' = [loop EXCEPT ![c] = "idle"]
         /\ UNCHANGED <<socket, closeSeen, serverVars>>
<1>1. CASE c \in Management
  BY <1>1, TriggerEffect DEF onReconnectionPermanentFailure
<1>2. CASE c \notin Management
  BY <1>2 DEF onReconnectionPermanentFailure
<1> QED BY <1>1, <1>2

\* CloseIsHandled is inductive: whatever ends the loop or ignores an event has
\* taken the connection out of service.
LEMMA CloseStep ==
  ASSUME TypeOK, CloseIsHandled, [Next]_vars PROVE CloseIsHandled'
<1> SUFFICES ASSUME NEW d \in Connection, closeSeen'[d], listening'[d], ~isDisposed'[d], ~permanentFailure'
             PROVE  loop'[d] # "idle"
  BY DEF CloseIsHandled
<1> DEFINE Handled == loop'[d] # "idle"
<1>0. /\ loop \in [Connection -> Loop] /\ closeSeen \in [Connection -> BOOLEAN]
      /\ isDisposed \in [Connection -> BOOLEAN] /\ listening \in [Connection -> BOOLEAN]
  BY DEF TypeOK, ClientOK
<1>1. ASSUME loop'[d] = loop[d], closeSeen'[d] = closeSeen[d], listening'[d] => listening[d],
             isDisposed[d] => isDisposed'[d], permanentFailure => permanentFailure'
      PROVE  Handled
  BY <1>1 DEF CloseIsHandled
<1>2. ASSUME NEW c \in Connection, onReconnectionPermanentFailure(c) PROVE Handled
  <2>1. PICK failing : gotoPermanentFailure(failing) /\ (c \notin Management => failing = {c})
    BY <1>2, OnFailureEffect
  <2>2. c \notin Management /\ permanentFailure' = permanentFailure
    BY <1>2, OnFailureEffect
  <2>3. d # c /\ (listening'[d] => listening[d]) /\ (isDisposed[d] => isDisposed'[d])
    BY <2>1, <2>2, FailureEffect
  <2>4. loop'[d] = loop[d] /\ closeSeen'[d] = closeSeen[d]
    BY <1>0, <1>2, <2>3, OnFailureEffect
  <2> QED BY <1>1, <2>2, <2>3, <2>4
<1>3. ASSUME NEW c \in Connection, ClientStep(c) PROVE Handled
  <2>1. CASE onSocketClose(c)
    <3>1. /\ closeSeen' = [closeSeen EXCEPT ![c] = TRUE] /\ beginReconnecting(c)
          /\ UNCHANGED <<listening, isDisposed, permanentFailure>>
      BY <2>1 DEF onSocketClose
    <3>2. CASE d = c
      BY <1>0, <3>1, <3>2 DEF beginReconnecting
    <3>3. CASE d # c
      <4>1. loop'[d] = loop[d] /\ closeSeen'[d] = closeSeen[d]
        BY <1>0, <3>1, <3>3 DEF beginReconnecting
      <4> QED BY <1>1, <3>1, <4>1
    <3> QED BY <3>2, <3>3
  <2>2. CASE onSocketTimeout(c) \/ wakeUp(c) \/ resolveConnectionOptions(c)
    BY <1>0, <2>2 DEF onSocketTimeout, beginReconnecting, wakeUp, resolveConnectionOptions,
       protocolVars, CloseIsHandled
  <2>3. CASE createSocket(c)
    BY <1>0, <2>3 DEF createSocket, CloseIsHandled
  <2>4. CASE receiveOk(c)
    BY <1>0, <2>4 DEF receiveOk, Reads, protocolVars, CloseIsHandled
  <2>5. CASE receiveError(c) \/ attemptFails(c)
    BY <1>2, <2>5 DEF receiveError, attemptFails
  <2>6. CASE attemptTimesOut(c)
    <3>1. CASE onReconnectionPermanentFailure(c)
      BY <1>2, <3>1
    <3>2. CASE ~onReconnectionPermanentFailure(c)
      BY <1>0, <2>6, <3>2 DEF attemptTimesOut, protocolVars, CloseIsHandled
    <3> QED BY <3>1, <3>2
  <2>7. CASE receiveSign(c) \/ disconnect(c)
    BY <1>1, <2>7 DEF receiveSign, disconnect, loopVars, protocolVars
  <2>8. CASE dispose(c) \/ receiveBye(c)
    <3>1. UNCHANGED <<loop, closeSeen, permanentFailure>>
      BY <2>8 DEF dispose, receiveBye, disposeClient, protocolVars
    <3>2. (isDisposed[d] => isDisposed'[d]) /\ (listening'[d] => listening[d])
      BY <1>0, <2>8 DEF dispose, receiveBye, disposeClient, protocolVars
    <3> QED BY <1>1, <3>1, <3>2
  <2> QED BY <1>3, <2>1, <2>2, <2>3, <2>4, <2>5, <2>6, <2>7, <2>8 DEF ClientStep
<1>4. ASSUME initialConnectionFails PROVE Handled
  BY <1>4, TriggerEffect DEF initialConnectionFails
<1>5. ASSUME UNCHANGED <<loopVars, protocolVars>> PROVE Handled
  BY <1>1, <1>5 DEF loopVars, protocolVars
<1>6. ASSUME UNCHANGED vars PROVE Handled
  BY <1>5, <1>6 DEF vars
<1> HIDE DEF Handled
<1>7. ASSUME NEW c \in Connection,
             ServerStep(c) \/ ProcessStep(c) \/ \E k \in Sockets : breakSocket(c, k)
      PROVE  Handled
  BY <1>5, <1>7, OthersLeaveClient
<1>8. Handled
  BY <1>3, <1>4, <1>6, <1>7 DEF Next
<1> QED BY <1>8 DEF Handled

\* For any number of connections: no close event is lost, although an event that
\* finds the loop running is ignored (PersistentConnection._beginReconnecting).
THEOREM NoCloseIsLost == Spec => []CloseIsHandled
<1>1. Init => CloseIsHandled
  BY DEF Init, CloseIsHandled
<1>2. TypeOK /\ CloseIsHandled /\ [Next]_vars => CloseIsHandled'
  BY CloseStep
<1> QED BY <1>1, <1>2, TypeCorrect, PTL DEF Spec

\* A failure that is fatal for the window has disposed the management connection,
\* and so has a failure that the window was told of.
FailureIsFatal == \A c \in Management :
  permanentFailure \/ status[c] = "ReconnectionPermanentFailure" => isDisposed[c]

\* A port is looked for on behalf of extension hosts only.
PortIsForHosts == \A c \in Management, k \in Sockets : phase[c][k] # "port"

\* What the window knows of a connection speaks for its being up: the server's
\* answer is on the way, or the loop has ended and nobody has disposed it.
SeemsUp(c) ==
  /\ alive[c][socket[c]]
  /\ phase[c][socket[c]] = "ok" \/ (loop[c] = "idle" /\ listening[c] /\ ~isDisposed[c])

\* ConnectedIsServed holds from the moment the server has answered.
AnswerIsServed == \A c \in Management :
  SeemsUp(c) => known[c] /\ serverSocket[c] = socket[c]

LEMMA FatalStep ==
  ASSUME TypeOK, FailureIsFatal, [Next]_vars PROVE FailureIsFatal'
<1> SUFFICES ASSUME NEW d \in Management, permanentFailure' \/ status'[d] = "ReconnectionPermanentFailure"
             PROVE  isDisposed'[d]
  BY DEF FailureIsFatal
<1> DEFINE Fatal == isDisposed'[d]
<1>0. /\ d \in Connection /\ status \in [Connection -> Status]
      /\ isDisposed \in [Connection -> BOOLEAN]
  BY ConnectionAssumption DEF TypeOK, ClientOK
<1>1. ASSUME permanentFailure' = permanentFailure, isDisposed[d] => isDisposed'[d],
             \/ status'[d] = status[d]
             \/ status'[d] # "ReconnectionPermanentFailure"
      PROVE  Fatal
  BY <1>1 DEF FailureIsFatal
<1>2. ASSUME NEW c \in Connection, onReconnectionPermanentFailure(c) PROVE Fatal
  <2>1. PICK failing : gotoPermanentFailure(failing) /\ (c \notin Management => failing = {c})
    BY <1>2, OnFailureEffect
  <2>2. CASE c \in Management
    BY <1>2, <2>2, OnFailureEffect
  <2>3. CASE c \notin Management
    <3>1. permanentFailure' = permanentFailure
      BY <1>2, <2>3, OnFailureEffect
    <3>2. (isDisposed[d] => isDisposed'[d]) /\ status'[d] = status[d]
      BY <1>0, <2>1, <2>3, FailureEffect
    <3> QED BY <1>1, <3>1, <3>2
  <2> QED BY <2>2, <2>3
<1>3. ASSUME NEW c \in Connection, ClientStep(c) PROVE Fatal
  <2>1. CASE onSocketClose(c) \/ onSocketTimeout(c)
    <3>1. permanentFailure' = permanentFailure /\ isDisposed' = isDisposed /\ beginReconnecting(c)
      BY <2>1 DEF onSocketClose, onSocketTimeout
    <3>2. status'[d] = status[d] \/ status'[d] # "ReconnectionPermanentFailure"
      BY <1>0, <3>1 DEF beginReconnecting, fire
    <3> QED BY <1>1, <3>1, <3>2
  <2>2. CASE wakeUp(c)
    <3>1. permanentFailure' = permanentFailure /\ isDisposed' = isDisposed
      BY <2>2 DEF wakeUp
    <3>2. status'[d] = status[d] \/ status'[d] # "ReconnectionPermanentFailure"
      BY <1>0, <2>2 DEF wakeUp, fire
    <3> QED BY <1>1, <3>1, <3>2
  <2>3. CASE resolveConnectionOptions(c) \/ createSocket(c) \/ receiveSign(c) \/ disconnect(c)
    BY <1>1, <2>3 DEF resolveConnectionOptions, createSocket, receiveSign, disconnect, loopVars
  <2>4. CASE receiveOk(c)
    <3>1. permanentFailure' = permanentFailure /\ isDisposed' = isDisposed
      BY <2>4 DEF receiveOk
    <3>2. status'[d] = status[d] \/ status'[d] # "ReconnectionPermanentFailure"
      BY <1>0, <2>4 DEF receiveOk, fire
    <3> QED BY <1>1, <3>1, <3>2
  <2>5. CASE receiveError(c) \/ attemptFails(c)
    BY <1>2, <2>5 DEF receiveError, attemptFails
  <2>6. CASE attemptTimesOut(c)
    <3>1. CASE onReconnectionPermanentFailure(c)
      BY <1>2, <3>1
    <3>2. CASE ~onReconnectionPermanentFailure(c)
      <4>1. permanentFailure' = permanentFailure /\ isDisposed' = isDisposed
        BY <2>6, <3>2 DEF attemptTimesOut
      <4>2. status'[d] = status[d] \/ status'[d] # "ReconnectionPermanentFailure"
        BY <1>0, <2>6, <3>2 DEF attemptTimesOut, fire
      <4> QED BY <1>1, <4>1, <4>2
    <3> QED BY <3>1, <3>2
  <2>7. CASE dispose(c) \/ receiveBye(c)
    <3>1. UNCHANGED <<status, permanentFailure>>
      BY <2>7 DEF dispose, receiveBye, disposeClient
    <3>2. isDisposed[d] => isDisposed'[d]
      BY <1>0, <2>7 DEF dispose, receiveBye, disposeClient
    <3> QED BY <1>1, <3>1, <3>2
  <2> QED BY <1>3, <2>1, <2>2, <2>3, <2>4, <2>5, <2>6, <2>7 DEF ClientStep
<1>4. ASSUME initialConnectionFails PROVE Fatal
  BY <1>4, TriggerEffect DEF initialConnectionFails
<1>5. ASSUME UNCHANGED <<loopVars, protocolVars>> PROVE Fatal
  BY <1>1, <1>5 DEF loopVars
<1>6. ASSUME UNCHANGED vars PROVE Fatal
  BY <1>5, <1>6 DEF vars
<1> HIDE DEF Fatal
<1>7. ASSUME NEW c \in Connection,
             ServerStep(c) \/ ProcessStep(c) \/ \E k \in Sockets : breakSocket(c, k)
      PROVE  Fatal
  BY <1>5, <1>7, OthersLeaveClient
<1>8. Fatal
  BY <1>3, <1>4, <1>6, <1>7 DEF Next
<1> QED BY <1>8 DEF Fatal

\* For any number of connections: once the window was told that its management
\* connection has failed, it hears nothing else of it, whatever attempt is still
\* running (onDidStateChange, disposed with the connection).
THEOREM NothingAfterFailure == Spec => FailureIsFinal
<1> DEFINE Final == \A c \in Management : status[c] = "ReconnectionPermanentFailure"
                                           => status'[c] = "ReconnectionPermanentFailure"
<1>1. Init => FailureIsFatal
  BY ConnectionAssumption DEF Init, FailureIsFatal
<1>2. TypeOK /\ FailureIsFatal /\ [Next]_vars => FailureIsFatal'
  BY FatalStep
<1>3. ASSUME TypeOK, FailureIsFatal, [Next]_vars PROVE Final
  <2> SUFFICES ASSUME NEW d \in Management, status[d] = "ReconnectionPermanentFailure"
               PROVE  status'[d] = "ReconnectionPermanentFailure"
    OBVIOUS
  <2> DEFINE Kept == status'[d] = status[d]
  <2>1. /\ d \in Connection /\ isDisposed[d] /\ status \in [Connection -> Status]
    BY <1>3, ConnectionAssumption DEF TypeOK, ClientOK, FailureIsFatal
  <2>2. ASSUME NEW c \in Connection, NEW event, fire(c, event) PROVE Kept
    BY <2>1, <2>2 DEF fire
  <2>3. ASSUME NEW failing, gotoPermanentFailure(failing) PROVE Kept
    BY <1>3, <2>1, <2>3, FailureEffect
  <2>4. ASSUME UNCHANGED status PROVE Kept
    BY <2>4
  <2>5. ASSUME triggerPermanentFailure PROVE Kept
    BY <1>3, <2>3, <2>5, TriggerEffect
  <2>6. ASSUME NEW c \in Connection, onReconnectionPermanentFailure(c) PROVE Kept
    BY <1>3, <2>3, <2>6, OnFailureEffect
  <2> HIDE DEF Kept
  <2>7. ASSUME NEW c \in Connection, ClientStep(c) PROVE Kept
    <3>1. CASE onSocketClose(c) \/ onSocketTimeout(c)
      BY <2>2, <2>4, <3>1 DEF onSocketClose, onSocketTimeout, beginReconnecting
    <3>2. CASE wakeUp(c) \/ receiveOk(c)
      BY <2>2, <2>4, <3>2 DEF wakeUp, receiveOk
    <3>3. CASE receiveError(c) \/ attemptFails(c)
      BY <2>6, <3>3 DEF receiveError, attemptFails
    <3>4. CASE attemptTimesOut(c)
      BY <2>2, <2>4, <2>6, <3>4 DEF attemptTimesOut
    <3>5. CASE \/ resolveConnectionOptions(c) \/ createSocket(c) \/ receiveSign(c)
               \/ disconnect(c) \/ dispose(c) \/ receiveBye(c)
      BY <2>4, <3>5 DEF resolveConnectionOptions, createSocket, receiveSign, disconnect,
         dispose, receiveBye, disposeClient, loopVars
    <3> QED BY <2>7, <3>1, <3>2, <3>3, <3>4, <3>5 DEF ClientStep
  <2>8. ASSUME initialConnectionFails PROVE Kept
    BY <2>5, <2>8 DEF initialConnectionFails
  <2>9. ASSUME NEW c \in Connection,
               ServerStep(c) \/ ProcessStep(c) \/ \E k \in Sockets : breakSocket(c, k)
        PROVE  Kept
    BY <2>4, <2>9, OthersLeaveClient DEF loopVars
  <2>10. ASSUME UNCHANGED vars PROVE Kept
    BY <2>4, <2>10 DEF vars, loopVars
  <2>11. Kept
    BY <1>3, <2>7, <2>8, <2>9, <2>10 DEF Next
  <2> QED BY <2>11 DEF Kept
<1>4. TypeOK /\ FailureIsFatal /\ [Next]_vars => [Final]_vars
  BY <1>3
<1> QED BY <1>1, <1>2, <1>4, TypeCorrect, PTL DEF Spec, FailureIsFinal

\* No step but the server's answer makes a phase "ok", and none makes it "port"
\* for a management connection; whom the server answers, it serves.
LEMMA AnswerStep ==
  ASSUME TypeOK, ProcessIsStarted, PortIsForHosts, [Next]_vars, NEW d \in Management,
         NEW i \in Sockets, phase'[d][i] \in {"ok", "port"}
  PROVE  \/ phase'[d][i] = phase[d][i]
         \/ phase'[d][i] = "ok" /\ known'[d] /\ serverSocket'[d] = i
<1> DEFINE Answered == \/ phase'[d][i] = phase[d][i]
                       \/ phase'[d][i] = "ok" /\ known'[d] /\ serverSocket'[d] = i
<1>0. /\ d \in Connection /\ phase \in [Connection -> [Sockets -> Phase]]
      /\ alive \in [Connection -> [Sockets -> BOOLEAN]]
      /\ serverSocket \in [Connection -> Sockets \cup {NoSocket}]
      /\ socket \in [Connection -> Sockets]
  BY ConnectionAssumption DEF TypeOK, ClientOK, NetworkOK, ServerOK
<1>1. ASSUME phase' = phase PROVE Answered
  BY <1>1
<1>2. ASSUME NEW c \in Connection, NEW k, NEW p \in Phase, p \notin {"ok", "port"},
             phase' = [phase EXCEPT ![c][k] = p]
      PROVE  Answered
  BY <1>0, <1>2, PhaseType
<1>3. ASSUME NEW c \in Connection, phase' = SaidGoodbye(c) PROVE Answered
  <2> DEFINE k == socket[c]
             next == IF alive[c][k] /\ phase[c][k] = "done" /\ ~didSendDisconnect[c]
                       THEN "disconnect" ELSE phase[c][k]
  <2>1. phase' = [phase EXCEPT ![c][k] = next]
    BY <1>3 DEF SaidGoodbye
  <2>2. next \in Phase /\ (next = phase[c][k] \/ next = "disconnect")
    BY <1>0 DEF Phase
  <2> HIDE DEF k, next
  <2> QED BY <1>0, <2>1, <2>2, PhaseType
<1>4. ASSUME NEW c \in Connection, onReconnectionPermanentFailure(c) PROVE Answered
  BY <1>0, <1>4, OnFailureEffect, FailureEffect
<1>5. ASSUME NEW c \in Connection, ClientStep(c) PROVE Answered
  <2>1. CASE \/ onSocketClose(c) \/ onSocketTimeout(c) \/ wakeUp(c) \/ resolveConnectionOptions(c)
    BY <1>1, <2>1 DEF onSocketClose, onSocketTimeout, wakeUp, resolveConnectionOptions
  <2>2. CASE createSocket(c)
    BY <1>2, <2>2 DEF createSocket, Phase
  <2>3. CASE receiveSign(c)
    BY <1>2, <2>3 DEF receiveSign, Phase
  <2>4. CASE receiveOk(c)
    BY <1>2, <2>4 DEF receiveOk, Phase
  <2>5. CASE receiveError(c) \/ attemptFails(c)
    BY <1>4, <2>5 DEF receiveError, attemptFails
  <2>6. CASE attemptTimesOut(c)
    BY <1>1, <1>4, <2>6 DEF attemptTimesOut
  <2>7. CASE disconnect(c)
    BY <1>3, <2>7 DEF disconnect
  <2>8. CASE dispose(c)
    BY <1>1, <1>3, <2>8 DEF dispose
  <2>9. CASE receiveBye(c)
    BY <1>2, <2>9 DEF receiveBye, Phase
  <2> QED BY <1>5, <2>1, <2>2, <2>3, <2>4, <2>5, <2>6, <2>7, <2>8, <2>9 DEF ClientStep
<1>6. ASSUME NEW c \in Connection, end(c) PROVE Answered
  <2>1. CASE c \in Management
    <3> DEFINE k == serverSocket[c]
               next == IF alive[c][k] THEN "bye"
                       ELSE IF phase[c][k] = "disconnect" THEN "done" ELSE phase[c][k]
    <3>1. phase' = [phase EXCEPT ![c][k] = next]
      BY <1>6, <2>1 DEF end, cleanResources
    <3>2. k \in Sockets => next \in Phase
      BY <1>0 DEF Phase
    <3>3. next \in {"bye", "done"} \/ next = phase[c][k]
      OBVIOUS
    <3> HIDE DEF k, next
    <3> QED BY <1>0, <3>1, <3>2, <3>3, PhaseType
  <2>2. CASE c \notin Management
    <3>1. phase' = [phase EXCEPT ![c] = [k \in Sockets |->
                      IF @[k] = "disconnect" THEN "done" ELSE @[k]]]
      BY <1>6, <2>2 DEF end, terminate
    <3>2. phase'[d] = phase[d]
      BY <1>0, <2>2, <3>1
    <3> QED BY <3>2
  <2> QED BY <2>1, <2>2
<1>7. ASSUME NEW c \in Connection, ServerStep(c) PROVE Answered
  <2>1. ASSUME NEW k \in Sockets, receiveAuth(c, k) PROVE Answered
    BY <1>2, <2>1 DEF receiveAuth, reject, Phase
  <2>2. ASSUME NEW k \in Sockets, receiveConnectionType(c, k) PROVE Answered
    <3>1. CASE reject(c, k)
      BY <1>2, <3>1 DEF reject, Phase
    <3>2. CASE /\ c \in Management /\ known[c] /\ phase' = [phase EXCEPT ![c][k] = "ok"]
               /\ continueOn(c, k, Shortened) /\ known' = known
      <4>1. phase'[d][i] = IF d = c /\ i = k THEN "ok" ELSE phase[d][i]
        BY <1>0, <3>2, PhaseType DEF Phase
      <4>2. serverSocket'[c] = k
        BY <1>0, <3>2 DEF continueOn
      <4> QED BY <3>2, <4>1, <4>2
    <3>3. CASE c \notin Management /\ phase' = [phase EXCEPT ![c][k] = "port"]
      <4>1. phase'[d][i] = IF d = c /\ i = k THEN "port" ELSE phase[d][i]
        BY <1>0, <3>3, PhaseType DEF Phase
      <4> QED BY <3>3, <4>1
    <3> QED BY <2>2, <3>1, <3>2, <3>3 DEF receiveConnectionType
  <2>3. ASSUME NEW k \in Sockets, acceptReconnection(c, k) PROVE Answered
    <3>1. CASE reject(c, k)
      BY <1>2, <3>1 DEF reject, Phase
    <3>2. CASE phase' = [phase EXCEPT ![c][k] = "ok"]
      <4>1. c # d
        BY <2>3 DEF acceptReconnection, PortIsForHosts
      <4>2. phase'[d][i] = IF d = c /\ i = k THEN "ok" ELSE phase[d][i]
        BY <1>0, <3>2, PhaseType DEF Phase
      <4> QED BY <4>1, <4>2
    <3> QED BY <2>3, <3>1, <3>2 DEF acceptReconnection
  <2>4. CASE graceTimeExpires(c) \/ receiveDisconnect(c)
    BY <1>6, <2>4 DEF graceTimeExpires, receiveDisconnect
  <2>5. CASE \/ onServerSocketClose(c) \/ start(c) \/ receiveReady(c) \/ onExit(c)
             \/ \E k \in Sockets : sendSocket(c, k)
    BY <1>1, <2>5 DEF onServerSocketClose, start, receiveReady, onExit, sendSocket
  <2> QED BY <1>7, <2>1, <2>2, <2>3, <2>4, <2>5 DEF ServerStep
<1>8. ASSUME NEW c \in Connection, ProcessStep(c) \/ \E k \in Sockets : breakSocket(c, k)
      PROVE  Answered
  BY <1>1, <1>6, <1>8 DEF ProcessStep, sendReady, receiveIpc, startTimerFires, exit, breakSocket
<1>9. ASSUME initialConnectionFails PROVE Answered
  BY <1>0, <1>9, TriggerEffect, FailureEffect DEF initialConnectionFails
<1>10. ASSUME UNCHANGED vars PROVE Answered
  BY <1>1, <1>10 DEF vars
<1> HIDE DEF Answered
<1>11. Answered
  BY <1>5, <1>7, <1>8, <1>9, <1>10 DEF Next
<1> QED BY <1>11 DEF Answered

\* The server goes on to serve a management connection on a socket that stays up.
LEMMA ServingStep ==
  ASSUME TypeOK, ProcessIsStarted, PortIsForHosts, [Next]_vars, NEW d \in Management,
         known[d], serverSocket[d] \in Sockets, alive'[d][serverSocket[d]]
  PROVE  known'[d] /\ serverSocket'[d] = serverSocket[d]
<1> DEFINE Serves == known'[d] /\ serverSocket'[d] = serverSocket[d]
<1>0. /\ d \in Connection /\ process[d] = "none"
      /\ alive \in [Connection -> [Sockets -> BOOLEAN]]
      /\ known \in [Connection -> BOOLEAN]
      /\ serverSocket \in [Connection -> Sockets \cup {NoSocket}]
  BY ConnectionAssumption DEF TypeOK, NetworkOK, ServerOK, ProcessIsStarted
<1>1. ASSUME UNCHANGED <<known, serverSocket>> PROVE Serves
  BY <1>1
<1>2. ASSUME alive' = Closed(alive, d, serverSocket[d]) PROVE FALSE
  BY <1>0, <1>2, ClosedType
<1>3. ASSUME NEW c \in Connection, end(c) PROVE Serves
  <2>1. CASE c \in Management
    <3>1. c # d
      BY <1>2, <1>3, <2>1 DEF end, cleanResources
    <3> QED BY <1>0, <1>3, <2>1, <3>1 DEF end, cleanResources
  <2>2. CASE c \notin Management
    BY <1>1, <1>3, <2>2 DEF end, terminate
  <2> QED BY <2>1, <2>2
<1>4. ASSUME NEW c \in Connection, NEW k, NEW runner2, continueOn(c, k, runner2), known' = known
      PROVE  Serves
  <2>1. c # d
    BY <1>2, <1>4 DEF continueOn
  <2> QED BY <1>0, <1>4, <2>1 DEF continueOn
<1>5. ASSUME NEW c \in Connection, ServerStep(c) PROVE Serves
  <2>1. ASSUME NEW k \in Sockets, receiveAuth(c, k) \/ acceptReconnection(c, k) PROVE Serves
    BY <1>1, <2>1 DEF receiveAuth, acceptReconnection, serverVars
  <2>2. ASSUME NEW k \in Sockets, receiveConnectionType(c, k) PROVE Serves
    BY <1>1, <1>4, <2>2 DEF receiveConnectionType
  <2>3. CASE graceTimeExpires(c) \/ receiveDisconnect(c)
    BY <1>3, <2>3 DEF graceTimeExpires, receiveDisconnect
  <2>4. CASE onExit(c)
    BY <1>0, <2>4 DEF onExit
  <2>5. CASE \/ onServerSocketClose(c) \/ start(c) \/ receiveReady(c)
             \/ \E k \in Sockets : sendSocket(c, k)
    BY <1>1, <2>5 DEF onServerSocketClose, start, receiveReady, sendSocket, serverVars
  <2> QED BY <1>5, <2>1, <2>2, <2>3, <2>4, <2>5 DEF ServerStep
<1>6. ASSUME NEW c \in Connection, ProcessStep(c) \/ \E k \in Sockets : breakSocket(c, k)
      PROVE  Serves
  <2>1. CASE receiveIpc(c)
    BY <1>1, <1>4, <2>1 DEF receiveIpc, receiveReduceGraceTime, receiveSocket
  <2>2. CASE sendReady(c) \/ \E k \in Sockets : breakSocket(c, k)
    BY <1>1, <2>2 DEF sendReady, breakSocket, serverVars
  <2>3. CASE startTimerFires(c) \/ exit(c)
    BY <1>3, <2>3 DEF startTimerFires, exit
  <2> QED BY <1>6, <2>1, <2>2, <2>3 DEF ProcessStep
<1>7. ASSUME NEW c \in Connection, ClientStep(c) PROVE Serves
  BY <1>1, <1>7, ClientLeavesServer DEF serverVars
<1>8. ASSUME initialConnectionFails \/ UNCHANGED vars PROVE Serves
  BY <1>1, <1>8 DEF initialConnectionFails, vars, serverVars
<1> HIDE DEF Serves
<1>9. Serves
  BY <1>5, <1>6, <1>7, <1>8 DEF Next
<1> QED BY <1>9 DEF Serves

\* Unless it opens a socket, a management connection gets into service only by
\* reading the server's answer: whatever else ends its loop finds it disposed.
LEMMA BeliefStep ==
  ASSUME TypeOK, FailureIsFatal, [Next]_vars, \A c \in Connection : ~createSocket(c),
         NEW d \in Management
  PROVE  /\ socket'[d] = socket[d]
         /\ loop'[d] = "idle" /\ listening'[d] /\ ~isDisposed'[d]
              => \/ loop[d] = "idle" /\ listening[d] /\ ~isDisposed[d]
                 \/ phase[d][socket[d]] = "ok"
<1> DEFINE Believes == /\ socket'[d] = socket[d]
                       /\ loop'[d] = "idle" /\ listening'[d] /\ ~isDisposed'[d]
                            => \/ loop[d] = "idle" /\ listening[d] /\ ~isDisposed[d]
                               \/ phase[d][socket[d]] = "ok"
<1>0. /\ d \in Connection /\ loop \in [Connection -> Loop]
      /\ isDisposed \in [Connection -> BOOLEAN] /\ listening \in [Connection -> BOOLEAN]
  BY ConnectionAssumption DEF TypeOK, ClientOK
<1>1. ASSUME socket' = socket, loop'[d] = loop[d] \/ loop'[d] # "idle",
             listening'[d] => listening[d], isDisposed[d] => isDisposed'[d]
      PROVE  Believes
  BY <1>1
<1>2. ASSUME NEW c \in Connection, onReconnectionPermanentFailure(c) PROVE Believes
  <2>1. PICK failing : gotoPermanentFailure(failing)
    BY <1>2, OnFailureEffect
  <2>2. (listening'[d] => listening[d]) /\ (isDisposed[d] => isDisposed'[d])
    BY <1>0, <2>1, FailureEffect
  <2>3. socket' = socket
    BY <1>2, OnFailureEffect
  <2>4. CASE c \in Management
    BY <1>2, <2>3, <2>4, OnFailureEffect
  <2>5. CASE c \notin Management
    <3>1. loop'[d] = loop[d]
      BY <1>0, <1>2, <2>5, OnFailureEffect
    <3> QED BY <1>1, <2>2, <2>3, <3>1
  <2> QED BY <2>4, <2>5
<1>3. ASSUME NEW c \in Connection, ClientStep(c) PROVE Believes
  <2>1. CASE onSocketClose(c) \/ onSocketTimeout(c)
    <3>1. UNCHANGED <<socket, listening, isDisposed>> /\ beginReconnecting(c)
      BY <2>1 DEF onSocketClose, onSocketTimeout, protocolVars
    <3>2. loop'[d] = loop[d] \/ loop'[d] # "idle"
      BY <1>0, <3>1 DEF beginReconnecting
    <3> QED BY <1>1, <3>1, <3>2
  <2>2. CASE wakeUp(c)
    <3>1. UNCHANGED <<socket, listening, isDisposed>>
      BY <2>2 DEF wakeUp, protocolVars
    <3>2. CASE permanentFailure
      BY <3>1, <3>2 DEF FailureIsFatal
    <3>3. CASE ~permanentFailure
      <4>1. loop'[d] = loop[d] \/ loop'[d] # "idle"
        BY <1>0, <2>2, <3>3 DEF wakeUp
      <4> QED BY <1>1, <3>1, <4>1
    <3> QED BY <3>2, <3>3
  <2>3. CASE resolveConnectionOptions(c)
    <3>1. UNCHANGED <<socket, listening, isDisposed>>
      BY <2>3 DEF resolveConnectionOptions, protocolVars
    <3>2. loop'[d] = loop[d] \/ loop'[d] # "idle"
      BY <1>0, <2>3 DEF resolveConnectionOptions
    <3> QED BY <1>1, <3>1, <3>2
  <2>4. CASE receiveSign(c) \/ disconnect(c)
    BY <1>1, <2>4 DEF receiveSign, disconnect, loopVars, protocolVars
  <2>5. CASE receiveOk(c)
    <3>1. UNCHANGED <<socket, listening, isDisposed>> /\ phase[c][socket[c]] = "ok"
      BY <2>5 DEF receiveOk, Reads, protocolVars
    <3>2. CASE c = d
      BY <3>1, <3>2
    <3>3. CASE c # d
      <4>1. loop'[d] = loop[d]
        BY <1>0, <2>5, <3>3 DEF receiveOk
      <4> QED BY <1>1, <3>1, <4>1
    <3> QED BY <3>2, <3>3
  <2>6. CASE receiveError(c) \/ attemptFails(c)
    BY <1>2, <2>6 DEF receiveError, attemptFails
  <2>7. CASE attemptTimesOut(c)
    <3>1. CASE onReconnectionPermanentFailure(c)
      BY <1>2, <3>1
    <3>2. CASE ~onReconnectionPermanentFailure(c)
      <4>1. UNCHANGED <<socket, listening, isDisposed>>
        BY <2>7, <3>2 DEF attemptTimesOut, protocolVars
      <4>2. CASE loop'[d] = loop[d] \/ loop'[d] # "idle"
        BY <1>1, <4>1, <4>2
      <4>3. CASE loop'[d] # loop[d] /\ loop'[d] = "idle"
        <5>1. permanentFailure \/ isDisposed[d]
          BY <1>0, <2>7, <3>2, <4>3 DEF attemptTimesOut
        <5>2. isDisposed[d]
          BY <5>1 DEF FailureIsFatal
        <5> QED BY <4>1, <5>2
      <4> QED BY <4>2, <4>3
    <3> QED BY <3>1, <3>2
  <2>8. CASE dispose(c) \/ receiveBye(c)
    <3>1. UNCHANGED <<socket, loop>>
      BY <2>8 DEF dispose, receiveBye, disposeClient, protocolVars
    <3>2. (listening'[d] => listening[d]) /\ (isDisposed[d] => isDisposed'[d])
      BY <1>0, <2>8 DEF dispose, receiveBye, disposeClient, protocolVars
    <3> QED BY <1>1, <3>1, <3>2
  <2> QED BY <1>3, <2>1, <2>2, <2>3, <2>4, <2>5, <2>6, <2>7, <2>8 DEF ClientStep
<1>4. ASSUME initialConnectionFails PROVE Believes
  BY <1>4, TriggerEffect DEF initialConnectionFails
<1>5. ASSUME UNCHANGED <<loopVars, protocolVars>> PROVE Believes
  BY <1>1, <1>5 DEF loopVars, protocolVars
<1>6. ASSUME UNCHANGED vars PROVE Believes
  BY <1>5, <1>6 DEF vars
<1> HIDE DEF Believes
<1>7. ASSUME NEW c \in Connection,
             ServerStep(c) \/ ProcessStep(c) \/ \E k \in Sockets : breakSocket(c, k)
      PROVE  Believes
  BY <1>5, <1>7, OthersLeaveClient
<1>8. Believes
  BY <1>3, <1>4, <1>6, <1>7 DEF Next
<1> QED BY <1>8 DEF Believes

\* AnswerIsServed is inductive.  Were another request of the same connection
\* accepted, the server would close the socket on which it serves it.
LEMMA ServedStep ==
  ASSUME TypeOK, ProcessIsStarted, FailureIsFatal, PortIsForHosts, AnswerIsServed, [Next]_vars
  PROVE  AnswerIsServed'
<1> SUFFICES ASSUME NEW d \in Management, SeemsUp(d)' PROVE known'[d] /\ serverSocket'[d] = socket'[d]
  BY DEF AnswerIsServed
<1>0. /\ d \in Connection /\ socket \in [Connection -> Sockets]
      /\ phase \in [Connection -> [Sockets -> Phase]] /\ loop \in [Connection -> Loop]
      /\ alive \in [Connection -> [Sockets -> BOOLEAN]] /\ opened \in [Connection -> Sockets]
      /\ listening \in [Connection -> BOOLEAN]
  BY ConnectionAssumption DEF TypeOK, ClientOK, NetworkOK
<1> DEFINE k == socket[d]
<1>1. CASE \A c \in Connection : ~createSocket(c)
  <2>1. socket'[d] = k /\ k \in Sockets
    BY <1>0, <1>1, BeliefStep
  <2>2. alive'[d][k] /\ alive[d][k]
    BY <1>0, <1>1, <2>1, OnlyClientOpens DEF SeemsUp
  <2>3. ASSUME SeemsUp(d) PROVE known'[d] /\ serverSocket'[d] = k
    <3>1. known[d] /\ serverSocket[d] = k
      BY <2>3 DEF AnswerIsServed
    <3> QED BY <2>1, <2>2, <3>1, ServingStep
  <2>4. CASE phase'[d][k] = "ok"
    <3>1. phase[d][k] = "ok" \/ (known'[d] /\ serverSocket'[d] = k)
      BY <2>1, <2>4, AnswerStep
    <3> QED BY <2>1, <2>2, <2>3, <3>1 DEF SeemsUp
  <2>5. CASE loop'[d] = "idle" /\ listening'[d] /\ ~isDisposed'[d]
    <3>1. \/ loop[d] = "idle" /\ listening[d] /\ ~isDisposed[d]
          \/ phase[d][k] = "ok"
      BY <1>1, <2>5, BeliefStep
    <3> QED BY <2>1, <2>2, <2>3, <3>1 DEF SeemsUp
  <2> QED BY <2>1, <2>4, <2>5 DEF SeemsUp
<1>2. ASSUME NEW c \in Connection, createSocket(c) PROVE known'[d] /\ serverSocket'[d] = socket'[d]
  <2> DEFINE n == opened[c] + 1
  <2>1. n \in Sockets
    BY <1>0, <1>2, ConnectionAssumption DEF createSocket, Sockets
  <2>2. \A i \in Sockets : phase'[d][i] = IF d = c /\ i = n THEN "auth" ELSE phase[d][i]
    BY <1>0, <1>2, <2>1, PhaseType DEF createSocket, Phase
  <2>3. CASE d = c
    <3>1. socket'[d] = n /\ loop'[d] = "handshaking"
      BY <1>0, <1>2, <2>3 DEF createSocket
    <3> QED BY <2>1, <2>2, <2>3, <3>1 DEF SeemsUp
  <2>4. CASE d # c
    <3>1. /\ socket'[d] = socket[d] /\ loop'[d] = loop[d] /\ listening'[d] = listening[d]
          /\ alive'[d] = alive[d] /\ UNCHANGED <<isDisposed, known, serverSocket>>
      BY <1>0, <1>2, <2>4 DEF createSocket, serverVars
    <3>2. phase'[d][k] = phase[d][k]
      BY <1>0, <2>2, <2>4
    <3>3. SeemsUp(d)
      BY <3>1, <3>2 DEF SeemsUp
    <3> QED BY <3>1, <3>3 DEF AnswerIsServed
  <2> QED BY <2>3, <2>4
<1> QED BY <1>1, <1>2

\* For any number of connections, sockets and attempts: a management connection
\* that its window believes to be up, on a live socket, is served on that socket
\* (RemoteExtensionHostAgentServer, ManagementConnection.acceptReconnection).
THEOREM BeliefIsTrue == Spec => []ConnectedIsServed
<1> DEFINE Up == FailureIsFatal /\ PortIsForHosts /\ AnswerIsServed
<1>1. Init => Up
  <2> SUFFICES ASSUME Init PROVE Up
    OBVIOUS
  <2>1. 1 \in Sockets
    BY ConnectionAssumption DEF Sockets
  <2>2. FailureIsFatal
    BY ConnectionAssumption DEF Init, FailureIsFatal
  <2>3. PortIsForHosts
    BY ConnectionAssumption DEF Init, PortIsForHosts
  <2>4. AnswerIsServed
    BY <2>1, ConnectionAssumption DEF Init, AnswerIsServed
  <2> QED BY <2>2, <2>3, <2>4
<1>2. Inv /\ Up /\ [Next]_vars => Up'
  <2> SUFFICES ASSUME Inv, Up, [Next]_vars PROVE Up'
    OBVIOUS
  <2>1. FailureIsFatal'
    BY FatalStep DEF Inv
  <2>2. PortIsForHosts'
    BY AnswerStep DEF Inv, PortIsForHosts
  <2>3. AnswerIsServed'
    BY ServedStep DEF Inv
  <2> QED BY <2>1, <2>2, <2>3
<1>3. Up => ConnectedIsServed
  BY DEF AnswerIsServed, SeemsUp, ConnectedIsServed
<1> QED BY <1>1, <1>2, <1>3, Invariant, PTL DEF Spec
=============================================================================
