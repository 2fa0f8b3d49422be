------------------- MODULE PersistentProtocolOrderProofs -------------------
(***************************************************************************)
(* More proofs about PersistentProtocol: no wake-up is lost, and on        *)
(* sockets that lose nothing but their end no gap ever shows.              *)
(***************************************************************************)
EXTENDS PersistentProtocolProofs

-----------------------------------------------------------------------------
(***************************************************************************)
(* Timers.  TimersAreArmed is inductive; its three parts are about         *)
(* different variables, so each has a lemma that says what a step may do   *)
(* to those variables.                                                     *)
(***************************************************************************)
\* What write does is enough for WriterScheduled.
LEMMA WriteIsScheduled ==
  ASSUME TypeOK, WriterScheduled, NEW e \in Ends, NEW ms, write(e, ms)
  PROVE  WriterScheduled'
<1>1. /\ writerData' = [writerData EXCEPT ![e] = writerData[e] \o ms]
      /\ writeNowTimeout' = [writeNowTimeout EXCEPT ![e] = writeNowTimeout[e] \/ writerData[e] = <<>>]
      /\ isPaused' = isPaused
  BY DEF write
<1>2. writerData \in [Ends -> Seq(ProtocolMessage)] /\ writeNowTimeout \in [Ends -> BOOLEAN]
  BY DEF TypeOK, BuffersOK, TimersOK
<1>3. ASSUME NEW f \in Ends, ~isPaused[f], writerData'[f] # <<>>
      PROVE  writeNowTimeout'[f]
  <2>1. CASE f = e
    BY <1>1, <1>2, <1>3, <2>1 DEF WriterScheduled
  <2>2. CASE f # e
    BY <1>1, <1>2, <1>3, <2>2 DEF WriterScheduled
  <2> QED BY <2>1, <2>2
<1> QED BY <1>1, <1>3 DEF WriterScheduled

\* recvAckCheck arms the timer or reports the socket, unless there is nothing
\* to watch.
LEMMA CheckIsWatched ==
  ASSUME TypeOK, UnackedIsWatched, NEW e \in Ends, NEW r \in BOOLEAN, NEW u \in BOOLEAN, NEW s \in BOOLEAN,
         recvAckCheck(e, r, u, s),
         \A f \in Ends \ {e} : /\ outgoingMsgId'[f] = outgoingMsgId[f]
                               /\ outgoingAckId'[f] = outgoingAckId[f]
                               /\ isReconnecting'[f] = isReconnecting[f],
         isReconnecting'[e] = r, outgoingMsgId'[e] > outgoingAckId'[e] => u
  PROVE  UnackedIsWatched'
<1>1. PICK highLoad \in BOOLEAN :
        LET checks == u /\ ~outgoingAckTimeout[e] /\ ~r
            fires == checks /\ s /\ ~highLoad
        IN  /\ outgoingAckTimeout' =
                 [outgoingAckTimeout EXCEPT ![e] = @ \/ (checks /\ ~fires)]
            /\ onSocketTimeout' = [onSocketTimeout EXCEPT ![e] = @ \/ fires]
  BY DEF recvAckCheck
<1>2. outgoingAckTimeout \in [Ends -> BOOLEAN] /\ onSocketTimeout \in [Ends -> BOOLEAN]
  BY DEF TypeOK, TimersOK
<1>3. ASSUME NEW f \in Ends, f # e
      PROVE  outgoingAckTimeout'[f] = outgoingAckTimeout[f] /\ onSocketTimeout'[f] = onSocketTimeout[f]
  BY <1>1, <1>2, <1>3
<1>4. u /\ ~r => outgoingAckTimeout'[e] \/ onSocketTimeout'[e]
  BY <1>1, <1>2
<1> QED BY <1>3, <1>4 DEF UnackedIsWatched
\* The actions, with the message that is read named.
Step ==
  \/ \E e \in Ends :
       \/ \E d \in Payload : send(e, d)
       \/ writeNow(e)
       \/ \E highLoad \in BOOLEAN : onOutgoingAckTimeout(e, highLoad)
       \/ silence(e) \/ onIncomingAckTimeout(e) \/ sendKeepAlive(e) \/ replayQuietEnds(e)
       \/ \E msg : \/ receiveRegular(e, msg) \/ receiveDuplicate(e, msg) \/ receiveGap(e, msg)
                   \/ receiveAck(e, msg) \/ receiveReplayRequest(e, msg) \/ receivePause(e, msg)
                   \/ receiveResume(e, msg) \/ receiveControl(e, msg)
  \/ reconnect \/ reconnectTimeout \/ serverReconnected
  \/ \E k \in Sockets :
       \/ acceptReconnection(k) \/ receiveSocket(k) \/ breakSocket(k)
       \/ \E e \in Ends : lose(k, e)
  \/ UNCHANGED vars

LEMMA NextIsStep == [Next]_vars => Step
<1> SUFFICES ASSUME Next PROVE Step
  BY DEF Step
<1>1. ASSUME NEW e \in Ends, Incoming(e) # <<>> /\ receiveMessage(e) PROVE Step
  BY <1>1 DEF receiveMessage, Step
<1>2. CASE ~\E e \in Ends : Incoming(e) # <<>> /\ receiveMessage(e)
  BY <1>2 DEF Next, Step
<1> QED BY <1>1, <1>2

LEMMA WriterStep == TypeOK /\ WriterScheduled /\ Step => WriterScheduled'
<1> SUFFICES ASSUME TypeOK, WriterScheduled, Step PROVE WriterScheduled'
  OBVIOUS
<1>0. /\ writerData \in [Ends -> Seq(ProtocolMessage)] /\ writeNowTimeout \in [Ends -> BOOLEAN]
      /\ isPaused \in [Ends -> BOOLEAN]
  BY DEF TypeOK, BuffersOK, TimersOK, FlagsOK
<1>1. CASE UNCHANGED writerVars
  BY <1>1 DEF writerVars, WriterScheduled
<1>2. CASE \E e \in Ends : \E ms : write(e, ms)
  BY <1>2, WriteIsScheduled
<1>3. ASSUME NEW e \in Ends, writeNow(e) PROVE WriterScheduled'
  <2>1. /\ writeNowTimeout' = [writeNowTimeout EXCEPT ![e] = FALSE]
        /\ writerData' = [writerData EXCEPT ![e] = IF isPaused[e] THEN @ ELSE <<>>]
        /\ isPaused' = isPaused
    BY <1>3 DEF writeNow
  <2> QED BY <1>0, <2>1 DEF WriterScheduled
<1>4. ASSUME NEW e \in Ends, NEW k, NEW ms, beginAcceptReconnection(e, k, ms) PROVE WriterScheduled'
  BY <1>0, <1>4 DEF beginAcceptReconnection, WriterScheduled
<1>5. ASSUME NEW e \in Ends, NEW msg, receivePause(e, msg) \/ receiveResume(e, msg) PROVE WriterScheduled'
  BY <1>0, <1>5 DEF receivePause, receiveResume, WriterScheduled
<1>6. ASSUME NEW e \in Ends, NEW msg, receiveGap(e, msg) \/ receiveReplayRequest(e, msg) \/ receiveControl(e, msg)
      PROVE  WriterScheduled'
  <2>1. UNCHANGED writerVars \/ \E ms : write(e, ms)
    BY <1>6 DEF receiveGap, receiveReplayRequest, receiveControl, endAcceptReconnection
  <2> QED BY <2>1, <1>1, <1>2
<1>7. ASSUME NEW e \in Ends, NEW msg, receiveRegular(e, msg) \/ receiveDuplicate(e, msg) \/ receiveAck(e, msg)
      PROVE  WriterScheduled'
  BY <1>1, <1>7 DEF receiveRegular, receiveDuplicate, receiveAck
<1>8. ASSUME NEW e \in Ends, onIncomingAckTimeout(e) \/ sendKeepAlive(e) \/ \E d \in Payload : send(e, d)
      PROVE  WriterScheduled'
  <2>1. UNCHANGED writerVars \/ \E ms : write(e, ms)
    BY <1>8 DEF onIncomingAckTimeout, sendKeepAlive, send
  <2> QED BY <2>1, <1>1, <1>2
<1>9. ASSUME NEW e \in Ends, silence(e) \/ replayQuietEnds(e) \/ \E highLoad \in BOOLEAN : onOutgoingAckTimeout(e, highLoad)
      PROVE  WriterScheduled'
  BY <1>1, <1>9 DEF silence, replayQuietEnds, onOutgoingAckTimeout
<1>10. CASE reconnect \/ reconnectTimeout \/ serverReconnected
  <2>1. Client \in Ends /\ Server \in Ends
    BY DEF Ends
  <2>2. \/ UNCHANGED writerVars \/ \E ms : write(Server, ms)
        \/ \E k, ms : beginAcceptReconnection(Client, k, ms)
    BY <1>10 DEF reconnect, reconnectTimeout, serverReconnected, endAcceptReconnection
  <2> QED BY <2>1, <2>2, <1>1, <1>2, <1>4
<1>11. ASSUME NEW k \in Sockets, acceptReconnection(k) \/ receiveSocket(k) PROVE WriterScheduled'
  <2>1. Server \in Ends
    BY DEF Ends
  <2>2. UNCHANGED writerVars \/ beginAcceptReconnection(Server, k, <<>>)
    BY <1>11 DEF acceptReconnection, receiveSocket
  <2> QED BY <2>1, <2>2, <1>1, <1>4
<1>12. ASSUME NEW k \in Sockets, breakSocket(k) \/ \E e \in Ends : lose(k, e) PROVE WriterScheduled'
  BY <1>1, <1>12 DEF breakSocket, lose
<1>13. CASE UNCHANGED vars
  BY <1>1, <1>13 DEF vars
<1> QED BY <1>3, <1>5, <1>6, <1>7, <1>8, <1>9, <1>10, <1>11, <1>12, <1>13 DEF Step
LEMMA AckStep == TypeOK /\ AckIsComing /\ Step => AckIsComing'
<1> SUFFICES ASSUME TypeOK, AckIsComing, Step PROVE AckIsComing'
  OBVIOUS
<1>0. /\ incomingMsgId \in [Ends -> Nat] /\ incomingAckId \in [Ends -> Nat]
      /\ incomingAckTimeout \in [Ends -> BOOLEAN]
  BY DEF TypeOK, CountersOK, TimersOK
<1>1. CASE UNCHANGED <<inVars, incomingAckTimeout>>
  BY <1>1 DEF inVars, AckIsComing
<1>2. ASSUME NEW e \in Ends, incomingAckId' = [incomingAckId EXCEPT ![e] = incomingMsgId[e]],
             UNCHANGED <<incomingMsgId, incomingAckTimeout>>
      PROVE  AckIsComing'
  BY <1>0, <1>2 DEF AckIsComing
<1>3. ASSUME NEW e \in Ends, NEW msg, receiveRegular(e, msg) PROVE AckIsComing'
  <2>1. /\ incomingMsgId' = [incomingMsgId EXCEPT ![e] = msg.id]
        /\ incomingAckTimeout' = [incomingAckTimeout EXCEPT ![e] = @ \/ msg.id > incomingAckId[e]]
        /\ incomingAckId' = incomingAckId
    BY <1>3 DEF receiveRegular, sendAckCheck
  <2> QED BY <1>0, <2>1 DEF AckIsComing
<1>4. ASSUME NEW e \in Ends, onIncomingAckTimeout(e) PROVE AckIsComing'
  <2>1. incomingMsgId' = incomingMsgId
    BY <1>4 DEF onIncomingAckTimeout
  <2>2. \/ /\ incomingAckTimeout' = [incomingAckTimeout EXCEPT ![e] = FALSE]
           /\ incomingAckId' = [incomingAckId EXCEPT ![e] = incomingMsgId[e]]
        \/ UNCHANGED <<incomingAckTimeout, incomingAckId>>
        \/ /\ ~(incomingMsgId[e] > incomingAckId[e])
           /\ incomingAckTimeout' = [incomingAckTimeout EXCEPT ![e] = FALSE]
           /\ UNCHANGED incomingAckId
    BY <1>4 DEF onIncomingAckTimeout
  <2> QED BY <1>0, <2>1, <2>2 DEF AckIsComing
<1>5. ASSUME NEW e \in Ends, NEW ms, endAcceptReconnection(e, ms) PROVE AckIsComing'
  BY <1>2, <1>5 DEF endAcceptReconnection, inTimerVars
<1>6. ASSUME NEW e \in Ends, sendKeepAlive(e) \/ \E d \in Payload : send(e, d) PROVE AckIsComing'
  BY <1>2, <1>6 DEF sendKeepAlive, send, inTimerVars
<1>7. ASSUME NEW e \in Ends, NEW msg,
             \/ receiveDuplicate(e, msg) \/ receiveGap(e, msg) \/ receiveAck(e, msg)
             \/ receiveReplayRequest(e, msg) \/ receivePause(e, msg) \/ receiveResume(e, msg)
      PROVE  AckIsComing'
  BY <1>1, <1>7 DEF receiveDuplicate, receiveGap, receiveAck, receiveReplayRequest, receivePause, receiveResume, inTimerVars
<1>8. ASSUME NEW e \in Ends, NEW msg, receiveControl(e, msg) PROVE AckIsComing'
  BY <1>1, <1>5, <1>8 DEF receiveControl, inTimerVars
<1>9. ASSUME NEW e \in Ends, \/ silence(e) \/ replayQuietEnds(e) \/ writeNow(e)
                             \/ \E highLoad \in BOOLEAN : onOutgoingAckTimeout(e, highLoad)
      PROVE  AckIsComing'
  BY <1>1, <1>9 DEF silence, replayQuietEnds, writeNow, onOutgoingAckTimeout, inTimerVars
<1>10. CASE reconnect \/ reconnectTimeout
  BY <1>1, <1>10 DEF reconnect, reconnectTimeout, beginAcceptReconnection, inTimerVars
<1>11. CASE serverReconnected
  BY <1>5, <1>11 DEF serverReconnected, Ends
<1>12. ASSUME NEW k \in Sockets, \/ acceptReconnection(k) \/ receiveSocket(k) \/ breakSocket(k)
                                 \/ \E e \in Ends : lose(k, e)
       PROVE  AckIsComing'
  BY <1>1, <1>12 DEF acceptReconnection, receiveSocket, breakSocket, lose, beginAcceptReconnection, inTimerVars
<1>13. CASE UNCHANGED vars
  BY <1>1, <1>13 DEF vars, inTimerVars
<1> QED BY <1>3, <1>4, <1>6, <1>7, <1>8, <1>9, <1>10, <1>11, <1>12, <1>13 DEF Step

\* Reading a message confirms more, or nothing.
LEMMA AckIdGrows ==
  ASSUME Inv, NEW e \in Ends, NEW msg, receive(e, msg)
  PROVE  /\ outgoingAckId' \in [Ends -> Nat] /\ outgoingMsgId' = outgoingMsgId
         /\ AckIdAfter(e, msg) \in Nat /\ outgoingAckId'[e] = AckIdAfter(e, msg)
         /\ \A f \in Ends : outgoingAckId'[f] >= outgoingAckId[f]
         /\ \A f \in Ends \ {e} : outgoingAckId'[f] = outgoingAckId[f]
<1>1. outgoingAckId \in [Ends -> Nat]
  BY DEF Inv, TypeOK, CountersOK
<1>2. msg.ack \in Nat
  <2>1. msg \in GenuineMessage(Peer(e))
    BY ReceiveEffect
  <2> QED BY <2>1 DEF GenuineMessage, ProtocolMessage
<1>3. outgoingAckId' = [outgoingAckId EXCEPT ![e] = AckIdAfter(e, msg)] /\ outgoingMsgId' = outgoingMsgId
  BY DEF receive
<1> QED BY <1>1, <1>2, <1>3 DEF AckIdAfter

LEMMA WatchStep == Inv /\ UnackedIsWatched /\ Step => UnackedIsWatched'
<1> SUFFICES ASSUME Inv, UnackedIsWatched, Step PROVE UnackedIsWatched'
  OBVIOUS
<1>0. /\ outgoingMsgId \in [Ends -> Nat] /\ outgoingAckId \in [Ends -> Nat]
      /\ outgoingAckTimeout \in [Ends -> BOOLEAN] /\ onSocketTimeout \in [Ends -> BOOLEAN]
      /\ isReconnecting \in [Ends -> BOOLEAN] /\ outgoingStale \in [Ends -> BOOLEAN]
      /\ TypeOK
  BY DEF Inv, TypeOK, CountersOK, TimersOK, FlagsOK
<1>1. CASE UNCHANGED <<outgoingMsgId, outgoingAckId, outgoingAckTimeout, onSocketTimeout, isReconnecting>>
  BY <1>1 DEF UnackedIsWatched
<1>2. ASSUME NEW e \in Ends, NEW msg, receive(e, msg), silenceBroken(e), UNCHANGED isReconnecting
      PROVE  UnackedIsWatched'
  <2>1. UNCHANGED <<outgoingMsgId, outgoingAckTimeout, onSocketTimeout, isReconnecting>>
    BY <1>2 DEF receive, silenceBroken
  <2>2. outgoingAckId' \in [Ends -> Nat] /\ \A f \in Ends : outgoingAckId'[f] >= outgoingAckId[f]
    BY <1>2, AckIdGrows
  <2> QED BY <1>0, <2>1, <2>2 DEF UnackedIsWatched
<1>3. ASSUME NEW e \in Ends, NEW k, NEW ms, beginAcceptReconnection(e, k, ms),
             UNCHANGED outgoingAckId
      PROVE  UnackedIsWatched'
  BY <1>0, <1>3 DEF beginAcceptReconnection, UnackedIsWatched
<1>4. ASSUME NEW e \in Ends, NEW ms, endAcceptReconnection(e, ms),
             outgoingAckId' \in [Ends -> Nat],
             outgoingAckId'[e] >= outgoingAckId[e],
             \A f \in Ends \ {e} : outgoingAckId'[f] = outgoingAckId[f]
      PROVE  UnackedIsWatched'
  <2> DEFINE u == outgoingMsgId[e] > outgoingAckId[e]
  <2>1. /\ isReconnecting' = [isReconnecting EXCEPT ![e] = FALSE]
        /\ outgoingMsgId' = outgoingMsgId
        /\ recvAckCheck(e, FALSE, u, FALSE)
    BY <1>4 DEF endAcceptReconnection
  <2>2. outgoingMsgId'[e] > outgoingAckId'[e] => u
    BY <1>0, <1>4, <2>1
  <2>3. u \in BOOLEAN /\ FALSE \in BOOLEAN
    OBVIOUS
  <2> HIDE DEF u
  <2> QED BY <1>0, <1>4, <2>1, <2>2, <2>3, CheckIsWatched
<1>5. ASSUME NEW e \in Ends, NEW d \in Payload, send(e, d) PROVE UnackedIsWatched'
  <2>1. /\ outgoingMsgId' = [outgoingMsgId EXCEPT ![e] = outgoingMsgId[e] + 1]
        /\ UNCHANGED <<outgoingAckId, isReconnecting>>
    BY <1>5 DEF send, connVars
  <2>2. CASE isReconnecting[e]
    <3>1. UNCHANGED <<outgoingAckTimeout, onSocketTimeout>>
      BY <1>5, <2>2 DEF send, outTimerVars
    <3> QED BY <1>0, <2>1, <2>2, <3>1 DEF UnackedIsWatched
  <2>3. CASE ~isReconnecting[e]
    <3> DEFINE s == outgoingStale[e] /\ outgoingUnackMsg[e] # <<>>
    <3>1. recvAckCheck(e, isReconnecting[e], TRUE, s)
      BY <1>5, <2>3 DEF send
    <3>2. s \in BOOLEAN /\ isReconnecting[e] \in BOOLEAN /\ TRUE \in BOOLEAN
      BY <1>0
    <3> HIDE DEF s
    <3>3. /\ \A f \in Ends \ {e} : /\ outgoingMsgId'[f] = outgoingMsgId[f]
                                  /\ outgoingAckId'[f] = outgoingAckId[f]
                                  /\ isReconnecting'[f] = isReconnecting[f]
          /\ isReconnecting'[e] = isReconnecting[e]
      BY <1>0, <2>1
    <3> QED BY <1>0, <3>1, <3>2, <3>3, CheckIsWatched
  <2> QED BY <2>2, <2>3
<1>6. ASSUME NEW e \in Ends, NEW highLoad \in BOOLEAN, onOutgoingAckTimeout(e, highLoad) PROVE UnackedIsWatched'
  <2> DEFINE checks == outgoingMsgId[e] > outgoingAckId[e] /\ ~isReconnecting[e]
             fires == checks /\ outgoingStale[e] /\ ~highLoad
  <2>1. /\ outgoingAckTimeout' = [outgoingAckTimeout EXCEPT ![e] = checks /\ ~fires]
        /\ onSocketTimeout' = [onSocketTimeout EXCEPT ![e] = @ \/ fires]
        /\ UNCHANGED <<outgoingMsgId, outgoingAckId, isReconnecting>>
    BY <1>6 DEF onOutgoingAckTimeout, outVars, connVars
  <2> QED BY <1>0, <2>1 DEF UnackedIsWatched
<1>7. ASSUME NEW e \in Ends, NEW msg, receiveReplayRequest(e, msg) PROVE UnackedIsWatched'
  <2> DEFINE u == outgoingMsgId[e] > AckIdAfter(e, msg)
  <2>1. /\ receive(e, msg)
        /\ recvAckCheck(e, isReconnecting[e], u, FALSE)
        /\ UNCHANGED isReconnecting
    BY <1>7 DEF receiveReplayRequest, connVars
  <2>2. /\ outgoingMsgId' = outgoingMsgId
        /\ outgoingAckId'[e] = AckIdAfter(e, msg)
        /\ \A f \in Ends \ {e} : outgoingAckId'[f] = outgoingAckId[f]
    BY <2>1, AckIdGrows
  <2>3. u \in BOOLEAN /\ FALSE \in BOOLEAN /\ isReconnecting[e] \in BOOLEAN
    BY <1>0
  <2>4. outgoingMsgId'[e] > outgoingAckId'[e] => u
    BY <2>2
  <2> HIDE DEF u
  <2> QED BY <1>0, <2>1, <2>2, <2>3, <2>4, CheckIsWatched
<1>8. ASSUME NEW e \in Ends, NEW msg,
             \/ receiveRegular(e, msg) \/ receiveDuplicate(e, msg) \/ receiveGap(e, msg)
             \/ receiveAck(e, msg) \/ receivePause(e, msg) \/ receiveResume(e, msg)
      PROVE  UnackedIsWatched'
  BY <1>2, <1>8 DEF receiveRegular, receiveDuplicate, receiveGap, receiveAck, receivePause, receiveResume, connVars
<1>9. ASSUME NEW e \in Ends, NEW msg, receiveControl(e, msg) PROVE UnackedIsWatched'
  <2>1. /\ receive(e, msg)
        /\ endAcceptReconnection(e, <<>>) \/ (silenceBroken(e) /\ UNCHANGED isReconnecting)
    BY <1>9 DEF receiveControl
  <2>2. /\ outgoingAckId' \in [Ends -> Nat] /\ outgoingAckId'[e] >= outgoingAckId[e]
        /\ \A f \in Ends \ {e} : outgoingAckId'[f] = outgoingAckId[f]
    BY <2>1, AckIdGrows
  <2> QED BY <1>2, <1>4, <2>1, <2>2
<1>10. ASSUME NEW e \in Ends, \/ silence(e) \/ replayQuietEnds(e) \/ writeNow(e)
                              \/ onIncomingAckTimeout(e) \/ sendKeepAlive(e)
       PROVE  UnackedIsWatched'
  BY <1>1, <1>10 DEF silence, replayQuietEnds, writeNow, onIncomingAckTimeout, sendKeepAlive, outVars, outTimerVars, connVars
<1>11. CASE reconnect
  BY <1>3, <1>11 DEF reconnect, Ends
<1>12. CASE reconnectTimeout
  BY <1>1, <1>12 DEF reconnectTimeout, outVars, outTimerVars
<1>13. CASE serverReconnected
  <2>1. /\ UNCHANGED outgoingAckId /\ Server \in Ends
        /\ \E ms : endAcceptReconnection(Server, ms)
    BY <1>13 DEF serverReconnected, Ends
  <2>2. outgoingAckId'[Server] >= outgoingAckId[Server]
    BY <1>0, <2>1
  <2> QED BY <1>0, <1>4, <2>1, <2>2
<1>14. ASSUME NEW k \in Sockets, acceptReconnection(k) \/ receiveSocket(k) PROVE UnackedIsWatched'
  <2>1. /\ UNCHANGED outgoingAckId /\ Server \in Ends
        /\ \/ beginAcceptReconnection(Server, k, <<>>)
           \/ UNCHANGED <<outgoingMsgId, outgoingAckTimeout, onSocketTimeout, isReconnecting>>
    BY <1>14 DEF acceptReconnection, receiveSocket, outTimerVars, Ends
  <2> QED BY <2>1, <1>1, <1>3
<1>15. ASSUME NEW k \in Sockets, breakSocket(k) \/ \E e \in Ends : lose(k, e) PROVE UnackedIsWatched'
  BY <1>1, <1>15 DEF breakSocket, lose, outVars, outTimerVars, connVars
<1>16. CASE UNCHANGED vars
  BY <1>1, <1>16 DEF vars, outVars, outTimerVars, connVars
<1> QED BY <1>5, <1>6, <1>7, <1>8, <1>9, <1>10, <1>11, <1>12, <1>13, <1>14, <1>15, <1>16 DEF Step

\* No wake-up is lost, whatever the sockets do: what is unacknowledged is
\* watched, what was received will be acknowledged, what is buffered will be
\* written (_recvAckCheck, _sendAckCheck, ProtocolWriter).
THEOREM NoWakeUpIsLost == Spec => []TimersAreArmed
<1>1. Init => TimersAreArmed
  BY DEF Init, TimersAreArmed, UnackedIsWatched, AckIsComing, WriterScheduled
<1>2. Inv /\ TimersAreArmed /\ [Next]_vars => TimersAreArmed'
  BY NextIsStep, WriterStep, AckStep, WatchStep DEF TimersAreArmed, Inv
<1>3. Spec => []Inv
  BY InitInv, NextInv, PTL DEF Spec
<1> QED BY <1>1, <1>2, <1>3, PTL DEF Spec
-----------------------------------------------------------------------------
(***************************************************************************)
(* No gap.  What matters is the line of an end: what its socket carries    *)
(* towards the other end, followed by what its writer holds.  As long as   *)
(* the socket is alive the line arrives as it is, and the ids of its       *)
(* Regular messages rise in steps of one from what the other end has got.  *)
(***************************************************************************)
IsRegular(msg, id) == msg.type = "Regular" /\ msg.id = id
Carries(q, id) == \E i \in 1 .. Len(q) : IsRegular(q[i], id)

\* Read from position n on, q shows no gap.
GapFree(q, n) == \A i \in 1 .. Len(q) :
  q[i].type = "Regular" /\ q[i].id > n + 1 => \E j \in 1 .. i - 1 : IsRegular(q[j], q[i].id - 1)

\* Only Regular messages have an id, and nobody asks for a replay.
RoutineMessage ==
  {msg \in ProtocolMessage : msg.type # "ReplayRequest" /\ (msg.type = "Regular" \/ msg.id = 0)}

\* Nothing that counts as a message of the application.
QuietMessage == {msg \in ProtocolMessage : msg.type # "Regular"}

NotRequest == ProtocolMessage \ {ConnectionType}

Line(e) == wire[socket[e]][Peer(e)] \o writerData[e]

AllRoutine ==
  /\ \A e \in Ends : writerData[e] \in Seq(RoutineMessage)
  /\ \A k \in Sockets, e \in Ends : wire[k][e] \in Seq(RoutineMessage)

WiresGapFree == \A k \in Sockets, e \in Ends : GapFree(wire[k][e], incomingMsgId[e])

LinesGapFree == \A e \in Ends :
  alive[socket[e]] => GapFree(Line(e), incomingMsgId[Peer(e)])

\* The newest message was received or is on its way: the next one leaves no gap.
LinesComplete == \A e \in Ends :
  alive[socket[e]] /\ ~isReconnecting[e] /\ outgoingMsgId[e] > incomingMsgId[Peer(e)]
    => Carries(Line(e), outgoingMsgId[e])

\* Sockets that were not opened yet are unused.
UnopenedIsUnused ==
  /\ \A e \in Ends : socket[e] <= opened
  /\ \A k \in Sockets : k > opened => k \notin handoff /\ \A e \in Ends : wire[k][e] = <<>>

\* A socket on its way to the extension host, which nobody reads, carries no
\* Regular message and will not get one: the client is paused, or is about to
\* be before it continues.
HandoffIsQuiet ==
  /\ \A k \in handoff : /\ ExtHost /\ k # socket[Server]
                        /\ wire[k][Server] \in Seq(QuietMessage) /\ wire[k][Server] \in Seq(NotRequest)
                        /\ wire[k][Client] \in {Answer, <<Ok>>, <<>>}
  /\ socket[Client] \in handoff /\ alive[socket[Client]]
       => isPaused[Client] \/ (isReconnecting[Client] /\ wire[socket[Client]][Client] = Answer)
  /\ isReconnecting[Client] => writerData[Client] \in Seq(QuietMessage)

\* A request that was not read yet comes first on its socket, and the server
\* has not used that socket.
Unanswered(k) ==
  /\ k \notin handoff /\ k # socket[Server] /\ wire[k][Client] = <<>>
  /\ k = socket[Client] => isReconnecting[Client]

RequestsAreFirst ==
  /\ \A k \in Sockets : wire[k][Server] # <<>> =>
       /\ Tail(wire[k][Server]) \in Seq(NotRequest)
       /\ Head(wire[k][Server]) = ConnectionType => Unanswered(k) /\ wire[k][Server] \in Seq(QuietMessage)
  /\ writerData[Client] # <<>> =>
       /\ Tail(writerData[Client]) \in Seq(NotRequest)
       /\ Head(writerData[Client]) = ConnectionType
            => Unanswered(socket[Client]) /\ wire[socket[Client]][Server] = <<>>

OrderInv ==
  /\ AllRoutine /\ WiresGapFree /\ LinesGapFree /\ LinesComplete
  /\ UnopenedIsUnused /\ HandoffIsQuiet /\ RequestsAreFirst

-----------------------------------------------------------------------------
(***************************************************************************)
(* Sequences without gaps.                                                 *)
(***************************************************************************)
LEMMA ElementId ==
  ASSUME NEW q \in Seq(ProtocolMessage), NEW i \in 1 .. Len(q)
  PROVE  q[i] \in ProtocolMessage /\ q[i].id \in Nat
<1>1. q[i] \in ProtocolMessage
  OBVIOUS
<1> QED BY <1>1 DEF ProtocolMessage

LEMMA CarriesConcat ==
  ASSUME NEW s \in Seq(ProtocolMessage), NEW t \in Seq(ProtocolMessage), NEW id,
         Carries(s, id) \/ Carries(t, id)
  PROVE  Carries(s \o t, id)
<1>1. ASSUME NEW i \in 1 .. Len(s), IsRegular(s[i], id) PROVE Carries(s \o t, id)
  <2>1. i \in 1 .. Len(s \o t) /\ (s \o t)[i] = s[i]
    OBVIOUS
  <2> QED BY <1>1, <2>1 DEF Carries
<1>2. ASSUME NEW i \in 1 .. Len(t), IsRegular(t[i], id) PROVE Carries(s \o t, id)
  <2>1. Len(s) + i \in 1 .. Len(s \o t) /\ (s \o t)[Len(s) + i] = t[i]
    OBVIOUS
  <2> QED BY <1>2, <2>1 DEF Carries
<1> QED BY <1>1, <1>2 DEF Carries

LEMMA CarriesTail ==
  ASSUME NEW q \in Seq(ProtocolMessage), q # <<>>, NEW id, Carries(q, id)
  PROVE  Carries(Tail(q), id) \/ IsRegular(Head(q), id)
<1>1. PICK i \in 1 .. Len(q) : IsRegular(q[i], id)
  BY DEF Carries
<1>2. CASE i = 1
  BY <1>1, <1>2
<1>3. CASE i # 1
  <2>1. i - 1 \in 1 .. Len(Tail(q)) /\ Tail(q)[i - 1] = q[i]
    BY <1>3
  <2> QED BY <1>1, <2>1 DEF Carries
<1> QED BY <1>2, <1>3

LEMMA JoinLines ==
  ASSUME NEW s \in Seq(ProtocolMessage), NEW t \in Seq(ProtocolMessage), NEW u \in Seq(ProtocolMessage)
  PROVE  (s \o t) \o u = s \o (t \o u)
BY ConcatAssociative

LEMMA GapFreePrefix ==
  ASSUME NEW s \in Seq(ProtocolMessage), NEW t \in Seq(ProtocolMessage), NEW n \in Nat, GapFree(s \o t, n)
  PROVE  GapFree(s, n)
<1> SUFFICES ASSUME NEW i \in 1 .. Len(s), s[i].type = "Regular", s[i].id > n + 1
             PROVE  \E j \in 1 .. i - 1 : IsRegular(s[j], s[i].id - 1)
  BY DEF GapFree
<1>1. i \in 1 .. Len(s \o t) /\ (s \o t)[i] = s[i]
  OBVIOUS
<1>2. PICK j \in 1 .. i - 1 : IsRegular((s \o t)[j], s[i].id - 1)
  BY <1>1 DEF GapFree
<1>3. (s \o t)[j] = s[j]
  OBVIOUS
<1> QED BY <1>2, <1>3

LEMMA GapFreeLater ==
  ASSUME NEW q \in Seq(ProtocolMessage), NEW n \in Nat, NEW m \in Nat, n <= m, GapFree(q, n)
  PROVE  GapFree(q, m)
<1>1. \A i \in 1 .. Len(q) : q[i].id \in Nat
  BY ElementId
<1> QED BY <1>1 DEF GapFree

\* What follows s leaves no gap if each of its messages follows what n or s
\* or t have before it.
LEMMA GapFreeJoin ==
  ASSUME NEW s \in Seq(ProtocolMessage), NEW t \in Seq(ProtocolMessage), NEW n \in Nat, GapFree(s, n),
         \A i \in 1 .. Len(t) : t[i].type = "Regular" =>
           t[i].id <= n + 1 \/ Carries(s, t[i].id - 1) \/ \E j \in 1 .. i - 1 : IsRegular(t[j], t[i].id - 1)
  PROVE  GapFree(s \o t, n)
<1> DEFINE q == s \o t
<1>0. Len(q) = Len(s) + Len(t) /\ Len(s) \in Nat /\ Len(t) \in Nat
  OBVIOUS
<1>1. \A i \in 1 .. Len(s) : q[i] = s[i]
  OBVIOUS
<1>2. \A i \in 1 .. Len(t) : q[Len(s) + i] = t[i]
  OBVIOUS
<1> HIDE DEF q
<1> SUFFICES ASSUME NEW i \in 1 .. Len(q), q[i].type = "Regular", q[i].id > n + 1
             PROVE  \E j \in 1 .. i - 1 : IsRegular(q[j], q[i].id - 1)
  BY DEF GapFree, q
<1>3. CASE i <= Len(s)
  <2>1. i \in 1 .. Len(s)
    BY <1>0, <1>3
  <2>2. PICK j \in 1 .. i - 1 : IsRegular(s[j], s[i].id - 1)
    BY <1>1, <2>1 DEF GapFree
  <2>3. j \in 1 .. Len(s)
    BY <1>0, <2>1
  <2> QED BY <1>1, <2>1, <2>2, <2>3
<1>4. CASE i > Len(s)
  <2> DEFINE m == i - Len(s)
  <2>1. m \in 1 .. Len(t) /\ i = Len(s) + m
    BY <1>0, <1>4
  <2> HIDE DEF m
  <2>2. q[i] = t[m]
    BY <1>2, <2>1
  <2>3. t[m].id \in Nat
    BY <2>1, ElementId
  <2>4. Carries(s, t[m].id - 1) \/ \E j \in 1 .. m - 1 : IsRegular(t[j], t[m].id - 1)
    BY <2>1, <2>2, <2>3
  <2>5. ASSUME NEW j \in 1 .. Len(s), IsRegular(s[j], t[m].id - 1)
        PROVE  \E k \in 1 .. i - 1 : IsRegular(q[k], q[i].id - 1)
    <3>1. j \in 1 .. i - 1
      BY <1>0, <1>4
    <3> QED BY <3>1, <2>5, <2>2, <1>1
  <2>6. ASSUME NEW j \in 1 .. m - 1, IsRegular(t[j], t[m].id - 1)
        PROVE  \E k \in 1 .. i - 1 : IsRegular(q[k], q[i].id - 1)
    <3>1. Len(s) + j \in 1 .. i - 1 /\ j \in 1 .. Len(t)
      BY <1>0, <2>1
    <3> QED BY <3>1, <2>6, <2>2, <1>2
  <2> QED BY <2>4, <2>5, <2>6 DEF Carries
<1> QED BY <1>0, <1>3, <1>4

LEMMA GapFreeQuiet ==
  ASSUME NEW s \in Seq(ProtocolMessage), NEW t \in Seq(QuietMessage), NEW n \in Nat, GapFree(s, n)
  PROVE  GapFree(s \o t, n)
<1>1. QuietMessage \subseteq ProtocolMessage
  BY DEF QuietMessage
<1>2. t \in Seq(ProtocolMessage)
  BY <1>1, SeqMono
<1>3. \A i \in 1 .. Len(t) : t[i].type # "Regular"
  BY DEF QuietMessage
<1> QED BY <1>2, <1>3, GapFreeJoin

\* Reading the first message, which was received or is the next one.
LEMMA GapFreeTail ==
  ASSUME NEW q \in Seq(ProtocolMessage), q # <<>>, NEW n \in Nat, NEW m \in Nat, n <= m, GapFree(q, n),
         Head(q).type = "Regular" => Head(q).id <= m
  PROVE  GapFree(Tail(q), m)
<1> DEFINE r == Tail(q)
<1>1. Len(r) = Len(q) - 1 /\ \A i \in 1 .. Len(r) : r[i] = q[i + 1] /\ i + 1 \in 1 .. Len(q)
  OBVIOUS
<1>2. Len(q) \in Nat /\ Head(q) = q[1]
  OBVIOUS
<1> HIDE DEF r
<1> SUFFICES ASSUME NEW i \in 1 .. Len(r), r[i].type = "Regular", r[i].id > m + 1
             PROVE  \E j \in 1 .. i - 1 : IsRegular(r[j], r[i].id - 1)
  BY DEF GapFree, r
<1>3. q[i + 1].id \in Nat
  BY <1>1, ElementId
<1>4. PICK j \in 1 .. (i + 1) - 1 : IsRegular(q[j], r[i].id - 1)
  BY <1>1, <1>3 DEF GapFree
<1>5. j # 1
  BY <1>1, <1>2, <1>3, <1>4 DEF IsRegular
<1>6. j - 1 \in 1 .. i - 1 /\ r[j - 1] = q[j]
  <2>1. j - 1 \in 1 .. i - 1 /\ j - 1 \in 1 .. Len(r) /\ (j - 1) + 1 = j
    BY <1>5, <1>2, <1>1
  <2> QED BY <2>1, <1>1
<1> QED BY <1>4, <1>6

LEMMA GapFreeHead ==
  ASSUME NEW q \in Seq(ProtocolMessage), q # <<>>, NEW n \in Nat, GapFree(q, n), Head(q).type = "Regular"
  PROVE  Head(q).id <= n + 1
<1>1. Head(q) = q[1] /\ 1 \in 1 .. Len(q)
  OBVIOUS
<1>2. q[1].id \in Nat
  BY <1>1, ElementId
<1> QED BY <1>1, <1>2 DEF GapFree

LEMMA TailConcat ==
  ASSUME NEW S, NEW s \in Seq(S), NEW t \in Seq(S), s # <<>>
  PROVE  Tail(s \o t) = Tail(s) \o t /\ Head(s \o t) = Head(s) /\ s \o t # <<>>
<1> DEFINE a == Tail(s \o t)
           b == Tail(s) \o t
<1>1. a \in Seq(S) /\ b \in Seq(S) /\ Len(a) = Len(s) + Len(t) - 1 /\ Len(b) = Len(s) + Len(t) - 1
  OBVIOUS
<1>2. ASSUME NEW i \in 1 .. Len(a) PROVE a[i] = b[i]
  OBVIOUS
<1>3. a = b
  BY <1>1, <1>2, SeqEqual
<1> QED BY <1>3

-----------------------------------------------------------------------------
(***************************************************************************)
(* What the parts of an action do to the lines.                            *)
(***************************************************************************)
LEMMA NetTypes ==
  ASSUME Inv
  PROVE  /\ wire \in [Sockets -> [Ends -> Seq(ProtocolMessage)]]
         /\ writerData \in [Ends -> Seq(ProtocolMessage)]
         /\ socket \in [Ends -> Sockets] /\ alive \in [Sockets -> BOOLEAN]
         /\ opened \in Sockets /\ handoff \subseteq Sockets
         /\ isReconnecting \in [Ends -> BOOLEAN] /\ isPaused \in [Ends -> BOOLEAN]
         /\ incomingMsgId \in [Ends -> Nat] /\ outgoingMsgId \in [Ends -> Nat]
         /\ \A e \in Ends : Line(e) \in Seq(ProtocolMessage)
<1>1. /\ wire \in [Sockets -> [Ends -> Seq(ProtocolMessage)]]
      /\ writerData \in [Ends -> Seq(ProtocolMessage)]
      /\ socket \in [Ends -> Sockets] /\ alive \in [Sockets -> BOOLEAN]
      /\ opened \in Sockets /\ handoff \subseteq Sockets
      /\ isReconnecting \in [Ends -> BOOLEAN] /\ isPaused \in [Ends -> BOOLEAN]
      /\ incomingMsgId \in [Ends -> Nat] /\ outgoingMsgId \in [Ends -> Nat]
  BY DEF Inv, TypeOK, BuffersOK, SocketsOK, FlagsOK, CountersOK
<1>2. ASSUME NEW e \in Ends PROVE Line(e) \in Seq(ProtocolMessage)
  BY <1>1, PeerType, ConcatType DEF Line
<1> QED BY <1>1, <1>2

LEMMA TwoEnds ==
  /\ Client \in Ends /\ Server \in Ends /\ Client # Server
  /\ Peer(Client) = Server /\ Peer(Server) = Client
  /\ \A e \in Ends : e = Client \/ e = Server
  /\ \A e \in Ends : Peer(e) # e /\ Peer(e) \in Ends /\ Peer(Peer(e)) = e
BY DEF Ends, Peer, Client, Server

LEMMA SpecialMessages ==
  /\ RoutineMessage \subseteq ProtocolMessage /\ QuietMessage \subseteq ProtocolMessage
  /\ NotRequest \subseteq ProtocolMessage
BY DEF RoutineMessage, QuietMessage, NotRequest

\* The writer of e gets ms: what has to be known of ms.
Writable(e, ms) ==
  /\ ms \in Seq(RoutineMessage) /\ ms \in Seq(NotRequest)
  /\ writerData' = [writerData EXCEPT ![e] = writerData[e] \o ms]
  /\ isReconnecting' \in [Ends -> BOOLEAN] /\ outgoingMsgId' \in [Ends -> Nat]
  /\ \A f \in Ends \ {e} : isReconnecting'[f] = isReconnecting[f] /\ outgoingMsgId'[f] = outgoingMsgId[f]
  /\ e = Client /\ isReconnecting'[e] => isReconnecting[e] /\ ms \in Seq(QuietMessage)
  /\ alive[socket[e]] => GapFree(Line(e) \o ms, incomingMsgId[Peer(e)])
  /\ alive[socket[e]] /\ ~isReconnecting'[e] /\ outgoingMsgId'[e] > incomingMsgId[Peer(e)]
       => Carries(Line(e) \o ms, outgoingMsgId'[e])

\* What the writers hold then.
LEMMA WrittenData ==
  ASSUME Inv, OrderInv, NEW e \in Ends, NEW ms, Writable(e, ms)
  PROVE  /\ writerData'[e] = writerData[e] \o ms /\ \A f \in Ends \ {e} : writerData'[f] = writerData[f]
         /\ \A f \in Ends : writerData'[f] \in Seq(RoutineMessage)
         /\ isReconnecting'[Client] => isReconnecting[Client] /\ writerData'[Client] \in Seq(QuietMessage)
         /\ writerData'[Client] # <<>> =>
              /\ Tail(writerData'[Client]) \in Seq(NotRequest)
              /\ Head(writerData'[Client]) = ConnectionType
                   => writerData[Client] # <<>> /\ Head(writerData[Client]) = ConnectionType
         /\ Line(e) \o ms = wire[socket[e]][Peer(e)] \o writerData'[e]
         /\ ms \in Seq(ProtocolMessage)
<1> USE TwoEnds
<1>1. /\ writerData \in [Ends -> Seq(ProtocolMessage)]
      /\ wire \in [Sockets -> [Ends -> Seq(ProtocolMessage)]] /\ socket \in [Ends -> Sockets]
  BY NetTypes
<1>2. ms \in Seq(RoutineMessage) /\ ms \in Seq(NotRequest) /\ ms \in Seq(ProtocolMessage)
  BY SpecialMessages, SeqMono DEF Writable
<1>3. writerData'[e] = writerData[e] \o ms /\ \A f \in Ends \ {e} : writerData'[f] = writerData[f]
  BY <1>1 DEF Writable
<1>4. \A f \in Ends : writerData'[f] \in Seq(RoutineMessage)
  <2>1. \A f \in Ends : writerData[f] \in Seq(RoutineMessage)
    BY DEF OrderInv, AllRoutine
  <2>2. writerData[e] \o ms \in Seq(RoutineMessage)
    BY <1>2, <2>1, ConcatType
  <2> QED BY <1>3, <2>1, <2>2
<1>5. ASSUME isReconnecting'[Client] PROVE isReconnecting[Client] /\ writerData'[Client] \in Seq(QuietMessage)
  <2>1. isReconnecting[Client]
    BY <1>5 DEF Writable
  <2>2. writerData[Client] \in Seq(QuietMessage)
    BY <2>1 DEF OrderInv, HandoffIsQuiet
  <2>3. CASE e = Client
    <3>1. ms \in Seq(QuietMessage)
      BY <1>5, <2>3 DEF Writable
    <3>2. writerData[Client] \o ms \in Seq(QuietMessage)
      BY <3>1, <2>2, ConcatType
    <3> QED BY <1>3, <2>1, <2>3, <3>2
  <2> QED BY <1>3, <2>1, <2>2, <2>3
<1>6. ASSUME writerData'[Client] # <<>>
      PROVE  /\ Tail(writerData'[Client]) \in Seq(NotRequest)
             /\ Head(writerData'[Client]) = ConnectionType
                  => writerData[Client] # <<>> /\ Head(writerData[Client]) = ConnectionType
  <2>1. writerData[Client] # <<>> => Tail(writerData[Client]) \in Seq(NotRequest)
    BY DEF OrderInv, RequestsAreFirst
  <2>2. CASE e # Client
    BY <1>3, <1>6, <2>1, <2>2
  <2>3. CASE e = Client /\ writerData[Client] = <<>>
    <3>1. writerData'[Client] = ms
      BY <1>2, <1>3, <2>3, ConcatEmptySeq
    <3>2. Tail(ms) \in Seq(NotRequest) /\ Head(ms) \in NotRequest
      BY <1>2, <1>6, <3>1, TailType
    <3> QED BY <3>1, <3>2 DEF NotRequest
  <2>4. CASE e = Client /\ writerData[Client] # <<>>
    <3>1. /\ Tail(writerData[Client] \o ms) = Tail(writerData[Client]) \o ms
          /\ Head(writerData[Client] \o ms) = Head(writerData[Client])
      BY <1>1, <1>2, <2>4, TailConcat
    <3>2. Tail(writerData[Client]) \o ms \in Seq(NotRequest)
      BY <1>2, <2>1, <2>4, ConcatType
    <3> QED BY <1>3, <2>4, <3>1, <3>2
  <2> QED BY <2>2, <2>3, <2>4
<1>7. Line(e) \o ms = wire[socket[e]][Peer(e)] \o writerData'[e]
  <2>1. wire[socket[e]][Peer(e)] \in Seq(ProtocolMessage) /\ writerData[e] \in Seq(ProtocolMessage)
    BY <1>1
  <2>2. (wire[socket[e]][Peer(e)] \o writerData[e]) \o ms = wire[socket[e]][Peer(e)] \o (writerData[e] \o ms)
    BY <1>2, <2>1, JoinLines
  <2> QED BY <1>3, <2>2 DEF Line
<1> QED BY <1>2, <1>3, <1>4, <1>5, <1>6, <1>7

LEMMA WriteKeepsOrder ==
  ASSUME Inv, OrderInv, NEW e \in Ends, NEW ms, Writable(e, ms),
         UNCHANGED <<wire, alive, socket, incomingMsgId, isPaused, handoff, opened>>,
         isReconnecting'[Client] = isReconnecting[Client]
  PROVE  OrderInv'
<1> USE TwoEnds
<1>1. /\ writerData'[e] = writerData[e] \o ms /\ \A f \in Ends \ {e} : writerData'[f] = writerData[f]
      /\ \A f \in Ends : writerData'[f] \in Seq(RoutineMessage)
      /\ isReconnecting'[Client] => isReconnecting[Client] /\ writerData'[Client] \in Seq(QuietMessage)
      /\ writerData'[Client] # <<>> =>
           /\ Tail(writerData'[Client]) \in Seq(NotRequest)
           /\ Head(writerData'[Client]) = ConnectionType
                => writerData[Client] # <<>> /\ Head(writerData[Client]) = ConnectionType
      /\ Line(e) \o ms = wire[socket[e]][Peer(e)] \o writerData'[e]
  BY WrittenData
<1>2. AllRoutine'
  BY <1>1 DEF OrderInv, AllRoutine
<1>3. WiresGapFree' /\ UnopenedIsUnused'
  BY DEF OrderInv, WiresGapFree, UnopenedIsUnused
<1>4. Line(e)' = Line(e) \o ms /\ \A f \in Ends \ {e} : Line(f)' = Line(f)
  BY <1>1 DEF Line
<1>5. LinesGapFree'
  <2> SUFFICES ASSUME NEW f \in Ends, alive[socket[f]] PROVE GapFree(Line(f)', incomingMsgId[Peer(f)])
    BY DEF LinesGapFree
  <2>1. CASE f = e
    BY <1>4, <2>1 DEF Writable
  <2>2. CASE f # e
    BY <1>4, <2>2 DEF OrderInv, LinesGapFree
  <2> QED BY <2>1, <2>2
<1>6. LinesComplete'
  <2> SUFFICES ASSUME NEW f \in Ends, alive[socket[f]], ~isReconnecting'[f], outgoingMsgId'[f] > incomingMsgId[Peer(f)]
               PROVE  Carries(Line(f)', outgoingMsgId'[f])
    BY DEF LinesComplete
  <2>1. CASE f = e
    BY <1>4, <2>1 DEF Writable
  <2>2. CASE f # e
    BY <1>4, <2>2 DEF OrderInv, LinesComplete, Writable
  <2> QED BY <2>1, <2>2
<1>7. HandoffIsQuiet'
  BY <1>1 DEF OrderInv, HandoffIsQuiet
<1>8. RequestsAreFirst'
  <2>1. \A k \in Sockets : Unanswered(k) => Unanswered(k)'
    BY DEF Unanswered
  <2> QED BY <1>1, <2>1, NetTypes DEF OrderInv, RequestsAreFirst
<1> QED BY <1>2, <1>3, <1>5, <1>6, <1>7, <1>8 DEF OrderInv

\* e reads a message that shows no gap, and may write.
LEMMA ReadKeepsOrder ==
  ASSUME Inv, OrderInv, NEW e \in Ends, NEW msg, receive(e, msg), NEW ms, Writable(e, ms),
         incomingMsgId' \in [Ends -> Nat], \A f \in Ends : incomingMsgId[f] <= incomingMsgId'[f],
         incomingMsgId'[Peer(e)] = incomingMsgId[Peer(e)],
         msg.type = "Regular" => msg.id <= incomingMsgId'[e],
         \A f \in Ends \ {e} : isPaused'[f] = isPaused[f],
         msg.type = "Pause" => isPaused'[e], msg = Ok => isPaused'[e] = isPaused[e],
         outgoingMsgId' = outgoingMsgId,
         isReconnecting'[e] = isReconnecting[e] \/ msg = Ok
  PROVE  OrderInv'
<1> USE TwoEnds
<1> DEFINE n == socket[e]
<1>0. /\ wire \in [Sockets -> [Ends -> Seq(ProtocolMessage)]] /\ writerData \in [Ends -> Seq(ProtocolMessage)]
      /\ socket \in [Ends -> Sockets] /\ alive \in [Sockets -> BOOLEAN] /\ n \in Sockets
      /\ incomingMsgId \in [Ends -> Nat] /\ outgoingMsgId \in [Ends -> Nat]
      /\ handoff \subseteq Sockets /\ isReconnecting \in [Ends -> BOOLEAN]
  BY NetTypes
<1>1. /\ writerData'[e] = writerData[e] \o ms /\ \A f \in Ends \ {e} : writerData'[f] = writerData[f]
      /\ \A f \in Ends : writerData'[f] \in Seq(RoutineMessage)
      /\ isReconnecting'[Client] => isReconnecting[Client] /\ writerData'[Client] \in Seq(QuietMessage)
      /\ writerData'[Client] # <<>> =>
           /\ Tail(writerData'[Client]) \in Seq(NotRequest)
           /\ Head(writerData'[Client]) = ConnectionType
                => writerData[Client] # <<>> /\ Head(writerData[Client]) = ConnectionType
      /\ Line(e) \o ms = wire[socket[e]][Peer(e)] \o writerData'[e]
  BY WrittenData
<1>2. /\ wire[n][e] # <<>> /\ msg = Head(wire[n][e])
      /\ wire' = [wire EXCEPT ![n][e] = Tail(wire[n][e])]
      /\ UNCHANGED <<socket, opened, alive, handoff>>
  BY DEF receive, Incoming
<1> HIDE DEF n
<1>3. /\ wire'[n][e] = Tail(wire[n][e])
      /\ \A k \in Sockets, f \in Ends : k # n \/ f # e => wire'[k][f] = wire[k][f]
  BY <1>0, <1>2
<1>4. wire[n][e] \in Seq(ProtocolMessage)
  BY <1>0
<1>5. AllRoutine'
  <2>1. Tail(wire[n][e]) \in Seq(RoutineMessage)
    BY <1>0, <1>2, TailType DEF OrderInv, AllRoutine
  <2> QED BY <1>1, <1>3, <2>1 DEF OrderInv, AllRoutine
<1>6. WiresGapFree'
  <2> SUFFICES ASSUME NEW k \in Sockets, NEW f \in Ends PROVE GapFree(wire'[k][f], incomingMsgId'[f])
    BY DEF WiresGapFree
  <2>1. GapFree(wire[k][f], incomingMsgId[f]) /\ wire[k][f] \in Seq(ProtocolMessage)
        /\ incomingMsgId[f] \in Nat /\ incomingMsgId'[f] \in Nat /\ incomingMsgId[f] <= incomingMsgId'[f]
    BY <1>0 DEF OrderInv, WiresGapFree
  <2>2. CASE k = n /\ f = e
    BY <1>2, <1>3, <2>1, <2>2, GapFreeTail
  <2>3. CASE k # n \/ f # e
    BY <1>3, <2>1, <2>3, GapFreeLater
  <2> QED BY <2>2, <2>3
<1>7. Line(e)' = Line(e) \o ms
  BY <1>0, <1>1, <1>2, <1>3 DEF Line, n
<1> DEFINE p == Peer(e)
<1>8. p \in Ends /\ p # e /\ Peer(p) = e
  OBVIOUS
<1>9. /\ socket[p] # n => Line(p)' = Line(p)
      /\ socket[p] = n => Line(p)' = Tail(Line(p)) /\ Head(Line(p)) = msg /\ Line(p) # <<>>
  <2>1. Line(p) = wire[socket[p]][e] \o writerData[p]
        /\ Line(p)' = wire'[socket[p]][e] \o writerData[p]
    BY <1>1, <1>2, <1>8 DEF Line
  <2>2. writerData[p] \in Seq(ProtocolMessage) /\ socket[p] \in Sockets
    BY <1>0, <1>8
  <2>3. CASE socket[p] = n
    <3>1. /\ Tail(wire[n][e] \o writerData[p]) = Tail(wire[n][e]) \o writerData[p]
          /\ Head(wire[n][e] \o writerData[p]) = Head(wire[n][e])
          /\ wire[n][e] \o writerData[p] # <<>>
      BY <1>2, <1>4, <2>2, TailConcat
    <3>2. Line(p) = wire[n][e] \o writerData[p] /\ Line(p)' = wire'[n][e] \o writerData[p]
      BY <2>1, <2>3
    <3>3. Line(p)' = Tail(Line(p)) /\ Head(Line(p)) = msg /\ Line(p) # <<>>
      BY <1>2, <1>3, <3>1, <3>2
    <3> QED BY <2>3, <3>3
  <2>4. CASE socket[p] # n
    BY <1>3, <1>8, <2>1, <2>2, <2>4
  <2> QED BY <2>3, <2>4
<1> HIDE DEF p
<1>10. \A f \in Ends : f = e \/ f = p
  BY DEF p
<1>11. Line(p) \in Seq(ProtocolMessage)
  BY <1>8, NetTypes
<1>12. incomingMsgId[e] \in Nat /\ incomingMsgId'[e] \in Nat /\ incomingMsgId[e] <= incomingMsgId'[e]
  BY <1>0
<1>13. LinesGapFree'
  <2> SUFFICES ASSUME NEW f \in Ends, alive[socket[f]] PROVE GapFree(Line(f)', incomingMsgId'[Peer(f)])
    BY <1>2 DEF LinesGapFree
  <2>1. CASE f = e
    BY <1>7, <2>1 DEF Writable
  <2>2. CASE f = p
    <3>1. GapFree(Line(p), incomingMsgId[e])
      BY <1>8, <2>2 DEF OrderInv, LinesGapFree
    <3>2. CASE socket[p] = n
      BY <1>8, <1>9, <1>11, <1>12, <2>2, <3>1, <3>2, GapFreeTail
    <3>3. CASE socket[p] # n
      BY <1>8, <1>9, <1>11, <1>12, <2>2, <3>1, <3>3, GapFreeLater
    <3> QED BY <3>2, <3>3
  <2> QED BY <1>10, <2>1, <2>2
<1>14. LinesComplete'
  <2> SUFFICES ASSUME NEW f \in Ends, alive[socket[f]], ~isReconnecting'[f], outgoingMsgId'[f] > incomingMsgId'[Peer(f)]
               PROVE  Carries(Line(f)', outgoingMsgId'[f])
    BY <1>2 DEF LinesComplete
  <2>1. CASE f = e
    BY <1>7, <2>1 DEF Writable
  <2>2. CASE f = p
    <3>1. ~isReconnecting[p] /\ outgoingMsgId[p] \in Nat
      BY <1>0, <1>8, <2>2 DEF Writable
    <3>2. outgoingMsgId[p] > incomingMsgId'[e]
      BY <1>8, <2>2
    <3>3. outgoingMsgId[p] > incomingMsgId[e]
      BY <1>12, <3>1, <3>2
    <3>4. Carries(Line(p), outgoingMsgId[p])
      BY <1>8, <2>2, <3>1, <3>3 DEF OrderInv, LinesComplete
    <3>5. CASE socket[p] = n
      <4>1. Carries(Tail(Line(p)), outgoingMsgId[p]) \/ IsRegular(msg, outgoingMsgId[p])
        BY <1>9, <1>11, <3>4, <3>5, CarriesTail
      <4>2. ~IsRegular(msg, outgoingMsgId[p])
        BY <1>12, <3>1, <3>2 DEF IsRegular
      <4> QED BY <1>9, <2>2, <3>5, <4>1, <4>2
    <3>6. CASE socket[p] # n
      BY <1>9, <2>2, <3>4, <3>6
    <3> QED BY <3>5, <3>6
  <2> QED BY <1>10, <2>1, <2>2
<1>15. UnopenedIsUnused'
  <2>1. \A k \in Sockets : k > opened => k # n
    BY <1>2 DEF OrderInv, UnopenedIsUnused
  <2> QED BY <1>2, <1>3, <2>1 DEF OrderInv, UnopenedIsUnused
<1>16. HandoffIsQuiet'
  <2>1. ASSUME NEW k \in handoff
        PROVE  /\ ExtHost /\ k # socket[Server]
               /\ wire'[k][Server] \in Seq(QuietMessage) /\ wire'[k][Server] \in Seq(NotRequest)
               /\ wire'[k][Client] \in {Answer, <<Ok>>, <<>>}
               /\ k = n /\ e = Client =>
                    \/ wire[n][Client] = Answer /\ msg.type = "Pause"
                    \/ wire[n][Client] = <<Ok>> /\ msg = Ok
    <3>1. /\ ExtHost /\ k # socket[Server] /\ k \in Sockets
          /\ wire[k][Server] \in Seq(QuietMessage) /\ wire[k][Server] \in Seq(NotRequest)
          /\ wire[k][Client] \in {Answer, <<Ok>>, <<>>}
      BY <1>0 DEF OrderInv, HandoffIsQuiet
    <3>2. wire'[k][Server] = wire[k][Server]
      BY <1>3, <3>1 DEF n
    <3>3. Head(Answer).type = "Pause" /\ Tail(Answer) = <<Ok>> /\ Tail(<<Ok>>) = <<>> /\ Head(<<Ok>>) = Ok
      BY <3>1 DEF Answer, Message
    <3>4. CASE k = n /\ e = Client
      BY <1>2, <1>3, <3>1, <3>2, <3>3, <3>4
    <3>5. CASE ~(k = n /\ e = Client)
      BY <1>3, <3>1, <3>2, <3>5
    <3> QED BY <3>4, <3>5
  <2>2. ASSUME socket[Client] \in handoff, alive[socket[Client]]
        PROVE  isPaused'[Client] \/ (isReconnecting'[Client] /\ wire'[socket[Client]][Client] = Answer)
    <3>1. isPaused[Client] \/ (isReconnecting[Client] /\ wire[socket[Client]][Client] = Answer)
      BY <2>2 DEF OrderInv, HandoffIsQuiet
    <3>2. CASE e = Client
      <4>1. n = socket[Client]
        BY <3>2 DEF n
      <4>2. <<Ok>> # Answer
        <5>1. ExtHost
          BY <2>1, <2>2
        <5>2. Answer = <<Message("Pause", 0, 0, "empty"), Ok>>
          BY <5>1 DEF Answer
        <5>3. Len(<<Ok>>) = 1 /\ Len(Answer) = 2
          BY <5>2
        <5> QED BY <5>3
      <4>3. CASE wire[n][Client] = Answer /\ msg.type = "Pause"
        BY <3>2, <4>3
      <4>4. CASE wire[n][Client] = <<Ok>> /\ msg = Ok
        BY <3>1, <3>2, <4>1, <4>2, <4>4
      <4> QED BY <2>1, <2>2, <3>2, <4>1, <4>3, <4>4
    <3>3. CASE e # Client
      <4>1. isReconnecting'[Client] = isReconnecting[Client] /\ isPaused'[Client] = isPaused[Client]
        BY <3>3 DEF Writable
      <4>2. wire'[socket[Client]][Client] = wire[socket[Client]][Client]
        BY <1>0, <1>3, <3>3
      <4> QED BY <3>1, <4>1, <4>2
    <3> QED BY <3>2, <3>3
  <2> QED BY <1>1, <1>2, <2>1, <2>2 DEF HandoffIsQuiet
<1>17. ASSUME NEW k \in Sockets, Unanswered(k) PROVE Unanswered(k)'
  <2>1. /\ k \notin handoff /\ k # socket[Server] /\ wire[k][Client] = <<>>
        /\ k = socket[Client] => isReconnecting[Client]
    BY <1>17 DEF Unanswered
  <2>2. k # n \/ e # Client
    BY <1>2, <2>1
  <2>3. wire'[k][Client] = <<>>
    BY <1>3, <2>1, <2>2
  <2>4. k = socket[Client] => isReconnecting'[Client] = isReconnecting[Client]
    <3>1. CASE e # Client
      BY <3>1 DEF Writable
    <3>2. CASE e = Client
      BY <2>2, <3>2 DEF n
    <3> QED BY <3>1, <3>2
  <2> QED BY <1>2, <2>1, <2>3, <2>4 DEF Unanswered
<1>18. RequestsAreFirst'
  <2>1. ASSUME NEW k \in Sockets, wire'[k][Server] # <<>>
        PROVE  /\ Tail(wire'[k][Server]) \in Seq(NotRequest)
               /\ Head(wire'[k][Server]) = ConnectionType => Unanswered(k)' /\ wire'[k][Server] \in Seq(QuietMessage)
    <3>1. CASE k = n /\ e = Server
      <4>1. Tail(wire[k][Server]) \in Seq(NotRequest) /\ wire'[k][Server] = Tail(wire[k][Server])
        BY <1>2, <1>3, <3>1 DEF OrderInv, RequestsAreFirst
      <4>2. Tail(wire'[k][Server]) \in Seq(NotRequest) /\ Head(wire'[k][Server]) \in NotRequest
        BY <2>1, <4>1, TailType
      <4> QED BY <4>2 DEF NotRequest
    <3>2. CASE ~(k = n /\ e = Server)
      <4>1. wire'[k][Server] = wire[k][Server]
        BY <1>3, <3>2
      <4> QED BY <1>17, <2>1, <4>1 DEF OrderInv, RequestsAreFirst
    <3> QED BY <3>1, <3>2
  <2>2. ASSUME writerData'[Client] # <<>>, Head(writerData'[Client]) = ConnectionType
        PROVE  Unanswered(socket[Client])' /\ wire'[socket[Client]][Server] = <<>>
    <3>1. Unanswered(socket[Client]) /\ wire[socket[Client]][Server] = <<>> /\ socket[Client] \in Sockets
      BY <1>0, <1>1, <2>2 DEF OrderInv, RequestsAreFirst
    <3>2. ~(socket[Client] = n /\ e = Server)
      BY <1>2, <3>1
    <3>3. wire'[socket[Client]][Server] = <<>>
      BY <1>3, <3>1, <3>2
    <3>4. socket'[Client] = socket[Client]
      BY <1>2
    <3> QED BY <1>17, <3>1, <3>3, <3>4 DEF Unanswered
  <2> QED BY <1>1, <1>2, <2>1, <2>2 DEF RequestsAreFirst
<1> QED BY <1>5, <1>6, <1>13, <1>14, <1>15, <1>16, <1>18 DEF OrderInv

LEMMA NotRequestSeq ==
  ASSUME NEW q \in Seq(ProtocolMessage), q # <<>>, Tail(q) \in Seq(NotRequest), Head(q) # ConnectionType
  PROVE  q \in Seq(NotRequest)
<1>1. \A i \in 1 .. Len(q) : q[i] \in NotRequest
  <2> TAKE i \in 1 .. Len(q)
  <2>1. CASE i = 1
    <3>1. q[1] = Head(q) /\ q[1] \in ProtocolMessage
      OBVIOUS
    <3> QED BY <2>1, <3>1 DEF NotRequest
  <2>2. CASE i # 1
    <3>1. i - 1 \in 1 .. Len(Tail(q)) /\ Tail(q)[i - 1] = q[i]
      BY <2>2
    <3>2. Tail(q)[i - 1] \in NotRequest
      BY <3>1, ElementOfSeq
    <3> QED BY <3>1, <3>2
  <2> QED BY <2>1, <2>2
<1> QED BY <1>1

\* The wires once the writer of e was flushed.
LEMMA FlushedOrder ==
  ASSUME Inv, OrderInv, NEW e \in Ends
  PROVE  /\ \A k \in Sockets, f \in Ends : k # socket[e] \/ f # Peer(e) => Flushed(e)[k][f] = wire[k][f]
         /\ Flushed(e)[socket[e]][Peer(e)] =
              IF alive[socket[e]] /\ ~isPaused[e] THEN Line(e) ELSE wire[socket[e]][Peer(e)]
         /\ \A k \in Sockets, f \in Ends : /\ Flushed(e)[k][f] \in Seq(RoutineMessage)
                                           /\ GapFree(Flushed(e)[k][f], incomingMsgId[f])
                                           /\ k > opened => Flushed(e)[k][f] = <<>>
         /\ \A k \in handoff : /\ Flushed(e)[k][Server] \in Seq(QuietMessage)
                               /\ Flushed(e)[k][Server] \in Seq(NotRequest)
                               /\ Flushed(e)[k][Client] = wire[k][Client]
         /\ \A k \in Sockets : Unanswered(k) => Flushed(e)[k][Client] = <<>>
         /\ \A k \in Sockets : Flushed(e)[k][Server] # <<>> =>
              /\ Tail(Flushed(e)[k][Server]) \in Seq(NotRequest)
              /\ Head(Flushed(e)[k][Server]) = ConnectionType
                   => Unanswered(k) /\ Flushed(e)[k][Server] \in Seq(QuietMessage)
<1> USE TwoEnds
<1> DEFINE n == socket[e]
           p == Peer(e)
           F == Flushed(e)
           goes == alive[n] /\ ~isPaused[e]
<1>0. /\ wire \in [Sockets -> [Ends -> Seq(ProtocolMessage)]] /\ writerData \in [Ends -> Seq(ProtocolMessage)]
      /\ socket \in [Ends -> Sockets] /\ n \in Sockets /\ p \in Ends /\ p # e /\ Peer(p) = e
      /\ incomingMsgId \in [Ends -> Nat] /\ handoff \subseteq Sockets /\ opened \in Sockets
      /\ Line(e) \in Seq(ProtocolMessage)
  BY NetTypes
<1>1. F = IF goes THEN [wire EXCEPT ![n][p] = wire[n][p] \o writerData[e]] ELSE wire
  BY DEF Flushed
<1>2. Line(e) = wire[n][p] \o writerData[e]
  BY DEF Line
<1> HIDE DEF F, goes, n, p
<1>3. /\ \A k \in Sockets, f \in Ends : k # n \/ f # p => F[k][f] = wire[k][f]
      /\ F[n][p] = IF goes THEN Line(e) ELSE wire[n][p]
  BY <1>0, <1>1, <1>2
<1>4. ASSUME NEW k \in Sockets, NEW f \in Ends
      PROVE  /\ F[k][f] \in Seq(RoutineMessage)
             /\ GapFree(F[k][f], incomingMsgId[f])
             /\ k > opened => F[k][f] = <<>>
  <2>1. /\ wire[k][f] \in Seq(RoutineMessage) /\ GapFree(wire[k][f], incomingMsgId[f])
        /\ k > opened => wire[k][f] = <<>>
    BY DEF OrderInv, AllRoutine, WiresGapFree, UnopenedIsUnused
  <2>2. CASE k = n /\ f = p /\ goes
    <3>1. F[k][f] = Line(e)
      BY <1>3, <2>2
    <3>2. GapFree(Line(e), incomingMsgId[p])
      BY <2>2 DEF OrderInv, LinesGapFree, goes, n, p
    <3>3. Line(e) \in Seq(RoutineMessage)
      BY <1>0, <1>2, ConcatType DEF OrderInv, AllRoutine
    <3>4. ~(n > opened)
      BY <1>0 DEF OrderInv, UnopenedIsUnused, n, Sockets
    <3> QED BY <2>2, <3>1, <3>2, <3>3, <3>4
  <2>3. CASE ~(k = n /\ f = p /\ goes)
    <3>1. F[k][f] = wire[k][f]
      BY <1>3, <2>3
    <3> QED BY <2>1, <3>1
  <2> QED BY <2>2, <2>3
<1>5. ASSUME e = Client, writerData[e] # <<>>, Head(writerData[e]) # ConnectionType
      PROVE  writerData[e] \in Seq(NotRequest)
  BY <1>0, <1>5, NotRequestSeq DEF OrderInv, RequestsAreFirst
<1>6. <<>> \in Seq(NotRequest)
  OBVIOUS
<1>7. ASSUME NEW k \in handoff
      PROVE  /\ F[k][Server] \in Seq(QuietMessage) /\ F[k][Server] \in Seq(NotRequest)
             /\ F[k][Client] = wire[k][Client]
  <2>1. /\ k \in Sockets /\ k # socket[Server]
        /\ wire[k][Server] \in Seq(QuietMessage) /\ wire[k][Server] \in Seq(NotRequest)
    BY <1>0 DEF OrderInv, HandoffIsQuiet
  <2>2. CASE k = n /\ e = Client /\ goes
    <3>1. p = Server /\ F[k][Server] = wire[k][Server] \o writerData[e]
      BY <1>2, <1>3, <2>2 DEF p
    <3>2. isReconnecting[Client]
      BY <2>2 DEF OrderInv, HandoffIsQuiet, goes, n
    <3>3. writerData[e] \in Seq(QuietMessage)
      BY <2>2, <3>2 DEF OrderInv, HandoffIsQuiet
    <3>4. ~(writerData[e] # <<>> /\ Head(writerData[e]) = ConnectionType)
      BY <2>2 DEF OrderInv, RequestsAreFirst, Unanswered, n
    <3>5. writerData[e] \in Seq(NotRequest)
      BY <1>5, <1>6, <2>2, <3>4
    <3>6. F[k][Server] \in Seq(QuietMessage) /\ F[k][Server] \in Seq(NotRequest)
      BY <2>1, <3>1, <3>3, <3>5, ConcatType
    <3>7. F[k][Client] = wire[k][Client]
      BY <1>3, <2>1, <3>1
    <3> QED BY <3>6, <3>7
  <2>3. CASE ~(k = n /\ e = Client /\ goes)
    <3>1. F[k][Server] = wire[k][Server] /\ F[k][Client] = wire[k][Client]
      BY <1>3, <2>1, <2>3 DEF n, p
    <3> QED BY <2>1, <3>1
  <2> QED BY <2>2, <2>3
<1>8. ASSUME NEW k \in Sockets, Unanswered(k) PROVE F[k][Client] = <<>>
  <2>1. k # socket[Server] /\ wire[k][Client] = <<>>
    BY <1>8 DEF Unanswered
  <2>2. k # n \/ Client # p
    BY <2>1 DEF n, p
  <2> QED BY <1>3, <2>1, <2>2
<1>9. ASSUME NEW k \in Sockets, F[k][Server] # <<>>
      PROVE  /\ Tail(F[k][Server]) \in Seq(NotRequest)
             /\ Head(F[k][Server]) = ConnectionType => Unanswered(k) /\ F[k][Server] \in Seq(QuietMessage)
  <2>1. wire[k][Server] # <<>> =>
          /\ Tail(wire[k][Server]) \in Seq(NotRequest)
          /\ Head(wire[k][Server]) = ConnectionType => Unanswered(k) /\ wire[k][Server] \in Seq(QuietMessage)
    BY DEF OrderInv, RequestsAreFirst
  <2>2. CASE k = n /\ e = Client /\ goes
    <3> DEFINE w == wire[k][Server]
               d == writerData[e]
    <3>1. p = Server /\ F[k][Server] = w \o d /\ w \in Seq(ProtocolMessage) /\ d \in Seq(ProtocolMessage)
      BY <1>0, <1>2, <1>3, <2>2 DEF p
    <3>2. Unanswered(k) => d \in Seq(QuietMessage)
      BY <2>2 DEF Unanswered, n, OrderInv, HandoffIsQuiet
    <3>3. d # <<>> => /\ Tail(d) \in Seq(NotRequest)
                      /\ Head(d) = ConnectionType => Unanswered(k) /\ w = <<>>
      BY <2>2 DEF OrderInv, RequestsAreFirst, n
    <3> HIDE DEF w, d
    <3>4. CASE w = <<>>
      <4>1. F[k][Server] = d /\ d # <<>>
        BY <1>9, <3>1, <3>4, ConcatEmptySeq
      <4> QED BY <3>2, <3>3, <4>1
    <3>5. CASE w # <<>>
      <4>1. Tail(F[k][Server]) = Tail(w) \o d /\ Head(F[k][Server]) = Head(w)
        BY <3>1, <3>5, TailConcat
      <4>2. d \in Seq(NotRequest)
        BY <1>5, <1>6, <2>2, <3>3, <3>5 DEF d
      <4>3. Tail(w) \o d \in Seq(NotRequest)
        BY <2>1, <3>5, <4>2, ConcatType DEF w
      <4>4. ASSUME Head(w) = ConnectionType PROVE Unanswered(k) /\ w \o d \in Seq(QuietMessage)
        <5>1. Unanswered(k) /\ w \in Seq(QuietMessage)
          BY <2>1, <3>5, <4>4 DEF w
        <5> QED BY <3>2, <5>1, ConcatType
      <4> QED BY <3>1, <4>1, <4>3, <4>4
    <3> QED BY <3>4, <3>5
  <2>3. CASE ~(k = n /\ e = Client /\ goes)
    <3>1. F[k][Server] = wire[k][Server]
      <4>1. CASE k # n \/ Server # p
        BY <1>3, <4>1
      <4>2. CASE k = n /\ Server = p
        BY <1>3, <2>3, <4>2 DEF p
      <4> QED BY <4>1, <4>2
    <3> QED BY <1>9, <2>1, <3>1
  <2> QED BY <2>2, <2>3
<1> QED BY <1>3, <1>4, <1>7, <1>8, <1>9 DEF F, n, p, goes

LEMMA WriteNowOrder ==
  ASSUME Inv, OrderInv, NEW e \in Ends, writeNow(e) PROVE OrderInv'
<1> USE TwoEnds
<1> DEFINE F == Flushed(e)
           p == Peer(e)
<1>0. /\ wire \in [Sockets -> [Ends -> Seq(ProtocolMessage)]] /\ writerData \in [Ends -> Seq(ProtocolMessage)]
      /\ socket \in [Ends -> Sockets] /\ p \in Ends /\ p # e /\ Peer(p) = e /\ \A f \in Ends : f = e \/ f = p
      /\ handoff \subseteq Sockets /\ Line(e) \in Seq(ProtocolMessage)
  BY NetTypes
<1>1. /\ wire' = F
      /\ writerData' = [writerData EXCEPT ![e] = IF isPaused[e] THEN writerData[e] ELSE <<>>]
      /\ UNCHANGED <<isPaused, socket, opened, alive, handoff, isReconnecting, incomingMsgId, outgoingMsgId>>
  BY DEF writeNow, outVars, inVars, connVars
<1>2. /\ \A k \in Sockets, f \in Ends : k # socket[e] \/ f # p => F[k][f] = wire[k][f]
      /\ F[socket[e]][p] = IF alive[socket[e]] /\ ~isPaused[e] THEN Line(e) ELSE wire[socket[e]][p]
      /\ \A k \in Sockets, f \in Ends : /\ F[k][f] \in Seq(RoutineMessage)
                                        /\ GapFree(F[k][f], incomingMsgId[f])
                                        /\ k > opened => F[k][f] = <<>>
      /\ \A k \in handoff : /\ F[k][Server] \in Seq(QuietMessage) /\ F[k][Server] \in Seq(NotRequest)
                            /\ F[k][Client] = wire[k][Client]
      /\ \A k \in Sockets : Unanswered(k) => F[k][Client] = <<>>
      /\ \A k \in Sockets : F[k][Server] # <<>> =>
           /\ Tail(F[k][Server]) \in Seq(NotRequest)
           /\ Head(F[k][Server]) = ConnectionType => Unanswered(k) /\ F[k][Server] \in Seq(QuietMessage)
  BY FlushedOrder
<1> HIDE DEF F, p
<1>3. /\ writerData'[e] = IF isPaused[e] THEN writerData[e] ELSE <<>>
      /\ \A f \in Ends : writerData'[f] = writerData[f] \/ writerData'[f] = <<>>
      /\ writerData'[p] = writerData[p]
  BY <1>0, <1>1
<1>4. AllRoutine'
  BY <1>1, <1>2, <1>3 DEF AllRoutine, OrderInv
<1>5. WiresGapFree'
  BY <1>1, <1>2 DEF WiresGapFree
<1>6. UnopenedIsUnused'
  BY <1>1, <1>2 DEF OrderInv, UnopenedIsUnused
<1>7. Line(p)' = Line(p)
  BY <1>0, <1>1, <1>2, <1>3 DEF Line
<1>8. alive[socket[e]] => Line(e)' = Line(e)
  <2>1. Line(e)' = F[socket[e]][p] \o writerData'[e] /\ Line(e) = wire[socket[e]][p] \o writerData[e]
    BY <1>1 DEF Line, p
  <2>2. CASE isPaused[e]
    BY <1>2, <1>3, <2>1, <2>2
  <2>3. CASE ~isPaused[e] /\ alive[socket[e]]
    <3>1. Line(e) \o <<>> = Line(e)
      BY <1>0, ConcatEmptySeq
    <3> QED BY <1>2, <1>3, <2>1, <2>3, <3>1
  <2> QED BY <2>2, <2>3
<1>9. \A f \in Ends : alive[socket[f]] => Line(f)' = Line(f)
  BY <1>0, <1>7, <1>8
<1>13. LinesGapFree'
  <2> SUFFICES ASSUME NEW f \in Ends, alive[socket[f]] PROVE GapFree(Line(f)', incomingMsgId[Peer(f)])
    BY <1>1 DEF LinesGapFree
  <2> QED BY <1>9 DEF OrderInv, LinesGapFree
<1>14. LinesComplete'
  <2> SUFFICES ASSUME NEW f \in Ends, alive[socket[f]], ~isReconnecting[f], outgoingMsgId[f] > incomingMsgId[Peer(f)]
               PROVE  Carries(Line(f)', outgoingMsgId[f])
    BY <1>1 DEF LinesComplete
  <2> QED BY <1>9 DEF OrderInv, LinesComplete
<1>10. HandoffIsQuiet'
  <2>0. <<>> \in Seq(QuietMessage)
    OBVIOUS
  <2>1. isReconnecting[Client] => writerData'[Client] \in Seq(QuietMessage)
    <3>1. writerData'[Client] = writerData[Client] \/ writerData'[Client] = <<>>
      BY <1>3
    <3>2. isReconnecting[Client] => writerData[Client] \in Seq(QuietMessage)
      BY DEF OrderInv, HandoffIsQuiet
    <3> QED BY <2>0, <3>1, <3>2
  <2> QED BY <1>1, <1>2, <2>1 DEF OrderInv, HandoffIsQuiet
<1>11. \A k \in Sockets : Unanswered(k) => Unanswered(k)'
  BY <1>1, <1>2 DEF Unanswered
<1>12. RequestsAreFirst'
  <2>1. ASSUME writerData'[Client] # <<>>
        PROVE  /\ Tail(writerData'[Client]) \in Seq(NotRequest)
               /\ Head(writerData'[Client]) = ConnectionType
                    => Unanswered(socket[Client])' /\ wire'[socket[Client]][Server] = <<>>
    <3>1. writerData'[Client] = writerData[Client] /\ (e = Client => isPaused[e])
      BY <1>3, <2>1
    <3>2. socket[Client] \in Sockets /\ socket' = socket
      BY <1>0, <1>1
    <3>3. wire'[socket[Client]][Server] = wire[socket[Client]][Server]
      BY <1>1, <1>2, <3>1, <3>2 DEF p
    <3>4. Unanswered(socket[Client]) => Unanswered(socket[Client])'
      BY <1>11, <3>2 DEF Unanswered
    <3> QED BY <2>1, <3>1, <3>3, <3>4 DEF OrderInv, RequestsAreFirst
  <2> QED BY <1>1, <1>2, <1>11, <2>1 DEF RequestsAreFirst
<1> QED BY <1>4, <1>5, <1>6, <1>13, <1>14, <1>10, <1>12 DEF OrderInv

-----------------------------------------------------------------------------
(***************************************************************************)
(* What the actions write.                                                 *)
(***************************************************************************)
\* An Ack, a KeepAlive or a Resume.
LEMMA ServiceMessage ==
  ASSUME NEW type \in {"Ack", "KeepAlive", "Resume"}, NEW ack \in Nat, NEW ms,
         ms = <<Message(type, 0, ack, "empty")>>
  PROVE  ms \in Seq(RoutineMessage) /\ ms \in Seq(NotRequest) /\ ms \in Seq(QuietMessage)
<1> DEFINE msg == Message(type, 0, ack, "empty")
<1>1. msg \in ProtocolMessage /\ msg.type = type /\ msg.id = 0
  BY MessageProtocol DEF MessageType
<1>2. ConnectionType.type = "Control"
  BY DEF ConnectionType, Message
<1> HIDE DEF msg
<1>3. msg \in RoutineMessage /\ msg \in NotRequest /\ msg \in QuietMessage
  BY <1>1, <1>2 DEF RoutineMessage, NotRequest, QuietMessage
<1> QED BY <1>3 DEF msg

LEMMA SeqOfElements ==
  ASSUME NEW S, NEW T, NEW q \in Seq(S), \A i \in 1 .. Len(q) : q[i] \in T
  PROVE  q \in Seq(T)
OBVIOUS

LEMMA NothingToWrite ==
  /\ <<>> \in Seq(RoutineMessage) /\ <<>> \in Seq(NotRequest) /\ <<>> \in Seq(QuietMessage)
  /\ <<>> \in Seq(ProtocolMessage)
OBVIOUS

LEMMA QuietWritable ==
  ASSUME Inv, OrderInv, NEW e \in Ends, NEW ms,
         ms \in Seq(RoutineMessage), ms \in Seq(NotRequest), ms \in Seq(QuietMessage),
         writerData' = [writerData EXCEPT ![e] = writerData[e] \o ms],
         UNCHANGED isReconnecting, outgoingMsgId' \in [Ends -> Nat],
         \A f \in Ends : outgoingMsgId'[f] = outgoingMsgId[f] \/ (f = e /\ isReconnecting[e])
  PROVE  Writable(e, ms)
<1>1. /\ isReconnecting \in [Ends -> BOOLEAN] /\ incomingMsgId[Peer(e)] \in Nat
      /\ Line(e) \in Seq(ProtocolMessage) /\ ms \in Seq(ProtocolMessage)
  BY NetTypes, TwoEnds, SpecialMessages, SeqMono
<1>2. alive[socket[e]] => GapFree(Line(e) \o ms, incomingMsgId[Peer(e)])
  BY <1>1, GapFreeQuiet DEF OrderInv, LinesGapFree
<1>3. ASSUME alive[socket[e]], ~isReconnecting[e], outgoingMsgId'[e] > incomingMsgId[Peer(e)]
      PROVE  Carries(Line(e) \o ms, outgoingMsgId'[e])
  <2>1. outgoingMsgId'[e] = outgoingMsgId[e]
    BY <1>3
  <2>2. Carries(Line(e), outgoingMsgId'[e])
    BY <1>3, <2>1 DEF OrderInv, LinesComplete
  <2> QED BY <1>1, <2>2, CarriesConcat
<1> QED BY <1>1, <1>2, <1>3 DEF Writable

\* Nothing is written.
LEMMA SilentWritable ==
  ASSUME Inv, OrderInv, NEW e \in Ends, UNCHANGED <<writerData, isReconnecting>>,
         outgoingMsgId' \in [Ends -> Nat],
         \A f \in Ends : outgoingMsgId'[f] = outgoingMsgId[f] \/ (f = e /\ isReconnecting[e])
  PROVE  Writable(e, <<>>)
<1>1. writerData \in [Ends -> Seq(ProtocolMessage)]
  BY NetTypes
<1>2. writerData[e] \o <<>> = writerData[e]
  BY <1>1, ConcatEmptySeq
<1>3. writerData' = [writerData EXCEPT ![e] = writerData[e] \o <<>>]
  BY <1>1, <1>2
<1> QED BY <1>3, NothingToWrite, QuietWritable

\* What endAcceptReconnection writes: the queue continues what the other end
\* has confirmed, and ends with the newest message.
LEMMA ResentWritable ==
  ASSUME Inv, OrderInv, NEW e \in Ends, NEW t, NEW ms,
         t \in Seq(RoutineMessage), t \in Seq(NotRequest), t \in Seq(QuietMessage),
         ms = <<Message("Ack", 0, incomingMsgId[e], "empty")>> \o Resent(e) \o t,
         writerData' = [writerData EXCEPT ![e] = writerData[e] \o ms],
         isReconnecting' = [isReconnecting EXCEPT ![e] = FALSE], UNCHANGED outgoingMsgId
  PROVE  Writable(e, ms)
<1> DEFINE q == outgoingUnackMsg[e]
           a == outgoingAckId[e]
           A == <<Message("Ack", 0, incomingMsgId[e], "empty")>>
           n == incomingMsgId[Peer(e)]
<1>1. /\ isReconnecting \in [Ends -> BOOLEAN] /\ outgoingMsgId \in [Ends -> Nat] /\ n \in Nat
      /\ incomingMsgId[e] \in Nat /\ Line(e) \in Seq(ProtocolMessage)
  BY NetTypes, TwoEnds
<1>2. A \in Seq(RoutineMessage) /\ A \in Seq(NotRequest) /\ A \in Seq(QuietMessage)
  BY <1>1, ServiceMessage
<1>3. QueueAfter(e, q, a)
  BY QueueNow
<1>4. /\ a \in Nat /\ a <= n /\ Len(q) = outgoingMsgId[e] - a /\ q \in Seq(ProtocolMessage)
      /\ \A i \in 1 .. Len(q) : q[i].type = "Regular" /\ q[i].id = a + i
  BY <1>3, GenuineSeqType DEF QueueAfter
<1>5. ms = (A \o q) \o t
  BY DEF Resent
<1> HIDE DEF q, a, A, n
<1>6. A \in Seq(ProtocolMessage) /\ t \in Seq(ProtocolMessage)
  BY <1>2, SpecialMessages, SeqMono
<1>7. \A i \in 1 .. Len(q) : q[i] \in RoutineMessage /\ q[i] \in NotRequest
  <2> TAKE i \in 1 .. Len(q)
  <2>1. q[i] \in ProtocolMessage /\ q[i].type = "Regular"
    BY <1>4, ElementId
  <2>2. ConnectionType.type = "Control"
    BY DEF ConnectionType, Message
  <2> QED BY <2>1, <2>2 DEF RoutineMessage, NotRequest
<1>8. q \in Seq(RoutineMessage) /\ q \in Seq(NotRequest)
  BY <1>4, <1>7, SeqOfElements
<1>9. ms \in Seq(RoutineMessage) /\ ms \in Seq(NotRequest)
  <2>1. A \o q \in Seq(RoutineMessage) /\ A \o q \in Seq(NotRequest)
    BY <1>2, <1>8, ConcatType
  <2> QED BY <1>5, <2>1, ConcatType
<1>10. Line(e) \o ms = ((Line(e) \o A) \o q) \o t
  <2>1. A \o q \in Seq(ProtocolMessage) /\ Line(e) \o A \in Seq(ProtocolMessage)
    BY <1>1, <1>4, <1>6, ConcatType
  <2>2. (Line(e) \o (A \o q)) \o t = Line(e) \o ((A \o q) \o t)
    BY <1>1, <1>6, <2>1, JoinLines
  <2>3. (Line(e) \o A) \o q = Line(e) \o (A \o q)
    BY <1>1, <1>4, <1>6, JoinLines
  <2> QED BY <1>5, <2>2, <2>3
<1>11. Line(e) \o A \in Seq(ProtocolMessage) /\ (Line(e) \o A) \o q \in Seq(ProtocolMessage)
  BY <1>1, <1>4, <1>6, ConcatType
<1>12. ASSUME alive[socket[e]] PROVE GapFree(Line(e) \o ms, n)
  <2>1. GapFree(Line(e) \o A, n)
    BY <1>1, <1>2, <1>12, GapFreeQuiet DEF OrderInv, LinesGapFree, n
  <2>2. ASSUME NEW i \in 1 .. Len(q)
        PROVE  q[i].id <= n + 1 \/ \E j \in 1 .. i - 1 : IsRegular(q[j], q[i].id - 1)
    <3>1. CASE i = 1
      BY <1>1, <1>4, <3>1
    <3>2. CASE i # 1
      <4>1. i - 1 \in 1 .. i - 1 /\ i - 1 \in 1 .. Len(q) /\ a + (i - 1) = (a + i) - 1
        BY <1>4, <3>2
      <4>2. IsRegular(q[i - 1], q[i].id - 1)
        BY <1>4, <4>1 DEF IsRegular
      <4> QED BY <4>1, <4>2
    <3> QED BY <3>1, <3>2
  <2>3. GapFree((Line(e) \o A) \o q, n)
    BY <1>1, <1>4, <1>11, <2>1, <2>2, GapFreeJoin
  <2> QED BY <1>1, <1>10, <1>11, <2>3, GapFreeQuiet
<1>13. ASSUME outgoingMsgId[e] > n PROVE Carries(Line(e) \o ms, outgoingMsgId[e])
  <2>1. Len(q) \in 1 .. Len(q) /\ a + Len(q) = outgoingMsgId[e]
    BY <1>1, <1>4, <1>13
  <2>2. Carries(q, outgoingMsgId[e])
    BY <1>4, <2>1 DEF Carries, IsRegular
  <2>3. Carries((Line(e) \o A) \o q, outgoingMsgId[e])
    BY <1>4, <1>11, <2>2, CarriesConcat
  <2> QED BY <1>6, <1>10, <1>11, <2>3, CarriesConcat
<1> QED BY <1>1, <1>9, <1>12, <1>13 DEF Writable, n

-----------------------------------------------------------------------------
(***************************************************************************)
(* The actions.                                                            *)
(***************************************************************************)
LEMMA QuietActionOrder ==
  ASSUME Inv, OrderInv, NEW e \in Ends, NEW ms,
         ms \in Seq(RoutineMessage), ms \in Seq(NotRequest), ms \in Seq(QuietMessage),
         write(e, ms), UNCHANGED <<outgoingMsgId, incomingMsgId, netVars, connVars>>
  PROVE  OrderInv'
<1>1. Writable(e, ms)
  BY QuietWritable, NetTypes DEF write, connVars
<1> QED BY <1>1, WriteKeepsOrder DEF write, netVars, connVars

\* An action that touches neither writers nor sockets.
LEMMA IdleOrder ==
  ASSUME Inv, OrderInv,
         UNCHANGED <<writerData, isPaused, isReconnecting, outgoingMsgId, incomingMsgId, netVars>>
  PROVE  OrderInv'
<1>1. Writable(Client, <<>>)
  BY SilentWritable, NetTypes, TwoEnds
<1> QED BY <1>1, WriteKeepsOrder, TwoEnds DEF netVars

LEMMA SendKeepAliveOrder ==
  ASSUME Inv, OrderInv, NEW e \in Ends, sendKeepAlive(e) PROVE OrderInv'
<1> DEFINE ms == <<Message("KeepAlive", 0, incomingMsgId[e], "empty")>>
<1>1. incomingMsgId[e] \in Nat
  BY NetTypes
<1>2. ms \in Seq(RoutineMessage) /\ ms \in Seq(NotRequest) /\ ms \in Seq(QuietMessage)
  BY <1>1, ServiceMessage
<1>3. write(e, ms) /\ UNCHANGED <<outgoingMsgId, incomingMsgId, netVars, connVars>>
  BY DEF sendKeepAlive, outVars
<1> QED BY <1>2, <1>3, QuietActionOrder

LEMMA OnIncomingAckTimeoutOrder ==
  ASSUME Inv, OrderInv, NEW e \in Ends, onIncomingAckTimeout(e) PROVE OrderInv'
<1> DEFINE ms == <<Message("Ack", 0, incomingMsgId[e], "empty")>>
<1>1. incomingMsgId[e] \in Nat
  BY NetTypes
<1>2. ms \in Seq(RoutineMessage) /\ ms \in Seq(NotRequest) /\ ms \in Seq(QuietMessage)
  BY <1>1, ServiceMessage
<1>3. UNCHANGED <<outgoingMsgId, incomingMsgId, netVars, connVars>>
  BY DEF onIncomingAckTimeout, outVars
<1>4. write(e, ms) \/ UNCHANGED writerVars
  BY DEF onIncomingAckTimeout
<1>5. CASE write(e, ms)
  BY <1>2, <1>3, <1>5, QuietActionOrder
<1>6. CASE UNCHANGED writerVars
  BY <1>3, <1>6, IdleOrder DEF writerVars, connVars
<1> QED BY <1>4, <1>5, <1>6

LEMMA SendOrder ==
  ASSUME Inv, OrderInv, NEW e \in Ends, NEW d \in Payload, send(e, d) PROVE OrderInv'
<1> DEFINE id == outgoingMsgId[e] + 1
           msg == Message("Regular", id, incomingMsgId[e], d)
           n == incomingMsgId[Peer(e)]
<1>0. /\ outgoingMsgId \in [Ends -> Nat] /\ incomingMsgId \in [Ends -> Nat] /\ Peer(e) \in Ends
      /\ isReconnecting \in [Ends -> BOOLEAN] /\ Line(e) \in Seq(ProtocolMessage)
  BY NetTypes, TwoEnds
<1>1. /\ outgoingMsgId \in [Ends -> Nat] /\ incomingMsgId[e] \in Nat /\ n \in Nat /\ id \in Nat
      /\ isReconnecting \in [Ends -> BOOLEAN] /\ Line(e) \in Seq(ProtocolMessage)
  BY <1>0
<1>2. /\ outgoingMsgId' = [outgoingMsgId EXCEPT ![e] = id]
      /\ UNCHANGED <<incomingMsgId, netVars, connVars>>
      /\ \/ isReconnecting[e] /\ UNCHANGED writerVars
         \/ ~isReconnecting[e] /\ write(e, <<msg>>)
  BY DEF send
<1>3. outgoingMsgId' \in [Ends -> Nat] /\ \A f \in Ends : outgoingMsgId'[f] = IF f = e THEN id ELSE outgoingMsgId[f]
  BY <1>1, <1>2
<1>4. msg \in ProtocolMessage /\ msg.type = "Regular" /\ msg.id = id
  BY <1>1, MessageProtocol DEF MessageType
<1> HIDE DEF msg, n
<1>5. CASE isReconnecting[e] /\ UNCHANGED writerVars
  <2>1. Writable(e, <<>>)
    BY <1>2, <1>3, <1>5, SilentWritable DEF writerVars, connVars
  <2> QED BY <1>2, <1>5, <2>1, WriteKeepsOrder DEF writerVars, netVars, connVars
<1>6. CASE ~isReconnecting[e] /\ write(e, <<msg>>)
  <2> DEFINE ms == <<msg>>
  <2>1. msg \in RoutineMessage /\ msg \in NotRequest
    <3>1. ConnectionType.type = "Control"
      BY DEF ConnectionType, Message
    <3> QED BY <1>4, <3>1 DEF RoutineMessage, NotRequest
  <2>2. ms \in Seq(RoutineMessage) /\ ms \in Seq(NotRequest) /\ ms \in Seq(ProtocolMessage)
    BY <1>4, <2>1
  <2>3. Len(ms) = 1 /\ ms[1] = msg
    OBVIOUS
  <2> HIDE DEF ms
  <2>4. ASSUME alive[socket[e]] PROVE GapFree(Line(e) \o ms, n)
    <3>1. GapFree(Line(e), n)
      BY <2>4 DEF OrderInv, LinesGapFree, n
    <3>2. id <= n + 1 \/ Carries(Line(e), id - 1)
      <4>1. outgoingMsgId[e] > n => Carries(Line(e), outgoingMsgId[e])
        BY <1>6, <2>4 DEF OrderInv, LinesComplete, n
      <4>2. id - 1 = outgoingMsgId[e] /\ (outgoingMsgId[e] > n \/ id <= n + 1)
        BY <1>1
      <4> QED BY <4>1, <4>2
    <3>3. \A i \in 1 .. Len(ms) : ms[i].type = "Regular" => ms[i].id <= n + 1 \/ Carries(Line(e), ms[i].id - 1)
      BY <1>4, <2>3, <3>2
    <3> QED BY <1>1, <2>2, <3>1, <3>3, GapFreeJoin
  <2>5. Carries(Line(e) \o ms, id)
    <3>1. Carries(ms, id)
      BY <1>4, <2>3 DEF Carries, IsRegular
    <3> QED BY <1>1, <2>2, <3>1, CarriesConcat
  <2>6. Writable(e, ms)
    BY <1>1, <1>2, <1>3, <1>6, <2>2, <2>4, <2>5 DEF Writable, write, connVars, n, ms
  <2> QED BY <1>2, <1>6, <2>6, WriteKeepsOrder DEF write, netVars, connVars
<1> QED BY <1>2, <1>5, <1>6

LEMMA ServerReconnectedOrder ==
  ASSUME Inv, OrderInv, serverReconnected PROVE OrderInv'
<1> DEFINE t == IF ExtHost THEN <<Message("Resume", 0, 0, "empty")>> ELSE <<>>
           ms == <<Message("Ack", 0, incomingMsgId[Server], "empty")>> \o Resent(Server) \o t
<1>1. t \in Seq(RoutineMessage) /\ t \in Seq(NotRequest) /\ t \in Seq(QuietMessage)
  BY ServiceMessage, NothingToWrite
<1>2. endAcceptReconnection(Server, t) /\ UNCHANGED <<netVars, awaitingOk>>
  BY DEF serverReconnected
<1> HIDE DEF t
<1>3. /\ isReconnecting' = [isReconnecting EXCEPT ![Server] = FALSE] /\ write(Server, ms)
      /\ UNCHANGED <<outgoingMsgId, incomingMsgId>>
  BY <1>2 DEF endAcceptReconnection
<1>4. Writable(Server, ms)
  BY <1>1, <1>3, TwoEnds, ResentWritable DEF write
<1>5. isReconnecting'[Client] = isReconnecting[Client]
  BY <1>3, NetTypes, TwoEnds
<1> HIDE DEF ms
<1> QED BY <1>2, <1>3, <1>4, <1>5, TwoEnds, WriteKeepsOrder DEF write, netVars

\* What e reads next is not a request for a replay and shows no gap.
LEMMA NextMessage ==
  ASSUME Inv, OrderInv, NEW e \in Ends, NEW msg, receive(e, msg)
  PROVE  /\ msg \in RoutineMessage /\ msg.id \in Nat
         /\ msg.type = "Regular" => msg.id <= incomingMsgId[e] + 1
<1> DEFINE q == wire[socket[e]][e]
<1>1. q # <<>> /\ msg = Head(q)
  BY DEF receive, Incoming
<1>2. socket[e] \in Sockets /\ q \in Seq(ProtocolMessage) /\ incomingMsgId[e] \in Nat
  BY NetTypes
<1>3. q \in Seq(RoutineMessage) /\ GapFree(q, incomingMsgId[e])
  BY <1>2 DEF OrderInv, AllRoutine, WiresGapFree
<1> HIDE DEF q
<1>4. msg \in RoutineMessage
  BY <1>1, <1>3, TailType
<1>5. msg.id \in Nat
  BY <1>4 DEF RoutineMessage, ProtocolMessage
<1> QED BY <1>1, <1>2, <1>3, <1>4, <1>5, GapFreeHead

\* e reads a message and writes nothing.
LEMMA ReadOnlyOrder ==
  ASSUME Inv, OrderInv, NEW e \in Ends, NEW msg, receive(e, msg),
         UNCHANGED <<writerData, isReconnecting>>,
         \/ UNCHANGED incomingMsgId
         \/ incomingMsgId' = [incomingMsgId EXCEPT ![e] = incomingMsgId[e] + 1],
         msg.type = "Regular" => msg.id <= incomingMsgId'[e],
         \A f \in Ends \ {e} : isPaused'[f] = isPaused[f],
         msg.type = "Pause" => isPaused'[e], msg = Ok => isPaused'[e] = isPaused[e]
  PROVE  OrderInv'
<1>1. outgoingMsgId' = outgoingMsgId
  BY DEF receive
<1>2. Writable(e, <<>>)
  BY <1>1, SilentWritable, NetTypes
<1>3. incomingMsgId \in [Ends -> Nat]
  BY NetTypes
<1>4. incomingMsgId' \in [Ends -> Nat] /\ \A f \in Ends : incomingMsgId[f] <= incomingMsgId'[f]
  BY <1>3
<1>5. incomingMsgId'[Peer(e)] = incomingMsgId[Peer(e)]
  BY <1>3, TwoEnds
<1> QED BY <1>1, <1>2, <1>4, <1>5, ReadKeepsOrder

LEMMA ReceiveControlOrder ==
  ASSUME Inv, OrderInv, NEW e \in Ends, NEW msg, receiveControl(e, msg) PROVE OrderInv'
<1>1. msg = Ok /\ receive(e, msg) /\ msg.type = "Control"
  BY DEF receiveControl, Ok, Message
<1>2. CASE awaitingOk
  <2> DEFINE ms == <<Message("Ack", 0, incomingMsgId[e], "empty")>> \o Resent(e) \o <<>>
  <2>1. endAcceptReconnection(e, <<>>)
    BY <1>2 DEF receiveControl
  <2>2. /\ isReconnecting' = [isReconnecting EXCEPT ![e] = FALSE] /\ write(e, ms)
        /\ UNCHANGED <<outgoingMsgId, incomingMsgId>>
    BY <2>1 DEF endAcceptReconnection
  <2>3. Writable(e, ms)
    BY <2>2, NothingToWrite, ResentWritable DEF write
  <2> HIDE DEF ms
  <2>4. incomingMsgId \in [Ends -> Nat] /\ \A f \in Ends : incomingMsgId[f] <= incomingMsgId[f]
    BY NetTypes
  <2> QED BY <1>1, <2>2, <2>3, <2>4, ReadKeepsOrder DEF write
<1>3. CASE ~awaitingOk
  <2>1. UNCHANGED <<isReconnecting, incomingMsgId, writerData, isPaused>>
    BY <1>3 DEF receiveControl, inVars, writerVars
  <2> QED BY <1>1, <2>1, ReadOnlyOrder
<1> QED BY <1>2, <1>3

LEMMA ReceiveMessageOrder ==
  ASSUME Inv, OrderInv, NEW e \in Ends, NEW msg,
         \/ receiveRegular(e, msg) \/ receiveDuplicate(e, msg) \/ receiveGap(e, msg) \/ receiveAck(e, msg)
         \/ receiveReplayRequest(e, msg) \/ receivePause(e, msg) \/ receiveResume(e, msg)
         \/ receiveControl(e, msg)
  PROVE  OrderInv'
<1>0. /\ Ok.type = "Control" /\ incomingMsgId[e] \in Nat
      /\ incomingMsgId \in [Ends -> Nat] /\ isPaused \in [Ends -> BOOLEAN]
  BY NetTypes DEF Ok, Message
<1>1. CASE receiveRegular(e, msg)
  <2>1. /\ msg.type = "Regular" /\ msg.id = incomingMsgId[e] + 1 /\ receive(e, msg)
        /\ incomingMsgId' = [incomingMsgId EXCEPT ![e] = msg.id]
        /\ UNCHANGED <<writerData, isReconnecting, isPaused>>
    BY <1>1 DEF receiveRegular, isExpected, writerVars, connVars
  <2>2. msg.id <= incomingMsgId'[e]
    BY <1>0, <2>1
  <2> QED BY <1>0, <2>1, <2>2, ReadOnlyOrder
<1>2. CASE receiveDuplicate(e, msg)
  <2>1. /\ msg.type = "Regular" /\ msg.id <= incomingMsgId[e] /\ receive(e, msg)
        /\ UNCHANGED <<incomingMsgId, writerData, isReconnecting, isPaused>>
    BY <1>2 DEF receiveDuplicate, inVars, writerVars, connVars
  <2> QED BY <1>0, <2>1, ReadOnlyOrder
<1>3. CASE receiveGap(e, msg)
  <2>1. msg.type = "Regular" /\ msg.id > incomingMsgId[e] + 1 /\ receive(e, msg)
    BY <1>3 DEF receiveGap
  <2>2. msg.id <= incomingMsgId[e] + 1 /\ msg.id \in Nat
    BY <2>1, NextMessage
  <2> QED BY <1>0, <2>1, <2>2
<1>4. CASE receiveAck(e, msg)
  <2>1. /\ msg.type \in {"Ack", "KeepAlive"} /\ receive(e, msg)
        /\ UNCHANGED <<incomingMsgId, writerData, isReconnecting, isPaused>>
    BY <1>4 DEF receiveAck, inVars, writerVars, connVars
  <2> QED BY <1>0, <2>1, ReadOnlyOrder
<1>5. CASE receiveReplayRequest(e, msg)
  <2>1. msg.type = "ReplayRequest" /\ receive(e, msg)
    BY <1>5 DEF receiveReplayRequest
  <2> QED BY <2>1, NextMessage DEF RoutineMessage
<1>6. CASE receivePause(e, msg)
  <2>1. /\ msg.type = "Pause" /\ receive(e, msg) /\ isPaused' = [isPaused EXCEPT ![e] = TRUE]
        /\ UNCHANGED <<incomingMsgId, writerData, isReconnecting>>
    BY <1>6 DEF receivePause, inVars, connVars
  <2>2. isPaused'[e] /\ \A f \in Ends \ {e} : isPaused'[f] = isPaused[f]
    BY <1>0, <2>1
  <2> QED BY <1>0, <2>1, <2>2, ReadOnlyOrder
<1>7. CASE receiveResume(e, msg)
  <2>1. /\ msg.type = "Resume" /\ receive(e, msg) /\ isPaused' = [isPaused EXCEPT ![e] = FALSE]
        /\ UNCHANGED <<incomingMsgId, writerData, isReconnecting>>
    BY <1>7 DEF receiveResume, inVars, connVars
  <2>2. \A f \in Ends \ {e} : isPaused'[f] = isPaused[f]
    BY <1>0, <2>1
  <2> QED BY <1>0, <2>1, <2>2, ReadOnlyOrder
<1>8. CASE receiveControl(e, msg)
  BY <1>8, ReceiveControlOrder
<1> QED BY <1>1, <1>2, <1>3, <1>4, <1>5, <1>6, <1>7, <1>8

-----------------------------------------------------------------------------
(***************************************************************************)
(* Sockets: reconnection, hand-over and loss.                              *)
(***************************************************************************)
LEMMA EmptyGapFree == \A n : GapFree(<<>>, n)
BY DEF GapFree

\* The wires once e has left its socket.
LEMMA AbandonedIs ==
  ASSUME Inv, NEW e \in Ends, NEW k \in Sockets, NEW f \in Ends
  PROVE  Abandoned(e)[k][f] = IF k = socket[e] /\ f = e THEN <<>> ELSE Flushed(e)[k][f]
<1>1. Flushed(e) \in [Sockets -> [Ends -> Seq(ProtocolMessage)]]
  BY FlushedOK DEF WireOK
<1>2. socket[e] \in Sockets
  BY NetTypes
<1> HIDE DEF Flushed
<1> QED BY <1>1, <1>2 DEF Abandoned

\* The server's side takes the first message, which is not Regular, from the
\* socket of the client.
LEMMA TailLine ==
  ASSUME Inv, OrderInv, wire[socket[Client]][Server] # <<>>,
         Head(wire[socket[Client]][Server]).type # "Regular",
         wire'[socket[Client]][Server] = Tail(wire[socket[Client]][Server]),
         socket'[Client] = socket[Client], writerData'[Client] = writerData[Client]
  PROVE  /\ alive[socket[Client]] => GapFree(Line(Client)', incomingMsgId[Server])
         /\ \A id : Carries(Line(Client), id) => Carries(Line(Client)', id)
<1> DEFINE w == wire[socket[Client]][Server]
           d == writerData[Client]
<1>1. /\ w \in Seq(ProtocolMessage) /\ d \in Seq(ProtocolMessage) /\ incomingMsgId[Server] \in Nat
      /\ Line(Client) \in Seq(ProtocolMessage)
  BY NetTypes, TwoEnds
<1>2. Line(Client) = w \o d /\ Line(Client)' = Tail(w) \o d
  BY TwoEnds DEF Line
<1>3. Tail(w \o d) = Tail(w) \o d /\ Head(w \o d) = Head(w) /\ w \o d # <<>>
  BY <1>1, TailConcat
<1>4. Head(w).type # "Regular"
  OBVIOUS
<1> HIDE DEF w, d
<1>5. Line(Client)' = Tail(Line(Client)) /\ Head(Line(Client)).type # "Regular" /\ Line(Client) # <<>>
  BY <1>2, <1>3, <1>4
<1>6. ASSUME alive[socket[Client]] PROVE GapFree(Line(Client)', incomingMsgId[Server])
  <2>1. GapFree(Line(Client), incomingMsgId[Server])
    BY <1>6, TwoEnds DEF OrderInv, LinesGapFree
  <2>2. GapFree(Tail(Line(Client)), incomingMsgId[Server])
    BY <1>1, <1>5, <2>1, GapFreeTail
  <2> QED BY <1>5, <2>2
<1>7. ASSUME NEW id, Carries(Line(Client), id) PROVE Carries(Line(Client)', id)
  <2>1. Carries(Tail(Line(Client)), id) \/ IsRegular(Head(Line(Client)), id)
    BY <1>1, <1>5, <1>7, CarriesTail
  <2> QED BY <1>5, <2>1 DEF IsRegular
<1> QED BY <1>6, <1>7

LEMMA BreakSocketOrder ==
  ASSUME Inv, OrderInv, NEW k \in Sockets, breakSocket(k) PROVE OrderInv'
<1>1. /\ UNCHANGED <<writerData, isPaused, isReconnecting, outgoingMsgId, incomingMsgId,
                     socket, opened, wire, handoff>>
      /\ \A j \in Sockets : alive'[j] => alive[j]
  BY NetTypes DEF breakSocket, outVars, inVars, writerVars, connVars
<1>2. socket \in [Ends -> Sockets] /\ Client \in Ends
  BY NetTypes, TwoEnds
<1>3. \A e \in Ends : Line(e)' = Line(e)
  BY <1>1 DEF Line
<1>4. AllRoutine' /\ WiresGapFree' /\ UnopenedIsUnused'
  BY <1>1 DEF OrderInv, AllRoutine, WiresGapFree, UnopenedIsUnused
<1>5. LinesGapFree'
  <2> SUFFICES ASSUME NEW f \in Ends, alive'[socket[f]] PROVE GapFree(Line(f)', incomingMsgId[Peer(f)])
    BY <1>1 DEF LinesGapFree
  <2> QED BY <1>1, <1>2, <1>3 DEF OrderInv, LinesGapFree
<1>6. LinesComplete'
  <2> SUFFICES ASSUME NEW f \in Ends, alive'[socket[f]], ~isReconnecting[f], outgoingMsgId[f] > incomingMsgId[Peer(f)]
               PROVE  Carries(Line(f)', outgoingMsgId[f])
    BY <1>1 DEF LinesComplete
  <2> QED BY <1>1, <1>2, <1>3 DEF OrderInv, LinesComplete
<1>7. HandoffIsQuiet'
  BY <1>1, <1>2 DEF OrderInv, HandoffIsQuiet
<1>8. RequestsAreFirst'
  BY <1>1 DEF OrderInv, RequestsAreFirst, Unanswered
<1> QED BY <1>4, <1>5, <1>6, <1>7, <1>8 DEF OrderInv

LEMMA LoseOrder ==
  ASSUME Inv, OrderInv, ~Lossy, NEW k \in Sockets, NEW e \in Ends, lose(k, e) PROVE OrderInv'
<1> USE TwoEnds
<1> DEFINE q == wire[k][Server]
<1>0. /\ wire \in [Sockets -> [Ends -> Seq(ProtocolMessage)]] /\ socket \in [Ends -> Sockets]
      /\ incomingMsgId \in [Ends -> Nat] /\ handoff \subseteq Sockets /\ q \in Seq(ProtocolMessage)
  BY NetTypes
<1>1. /\ e = Server /\ k \in handoff /\ q # <<>> /\ wire' = [wire EXCEPT ![k][Server] = Tail(q)]
      /\ UNCHANGED <<writerData, isPaused, isReconnecting, outgoingMsgId, incomingMsgId,
                     socket, opened, alive, handoff>>
  BY DEF lose, outVars, inVars, writerVars, connVars
<1>2. wire'[k][Server] = Tail(q) /\ \A j \in Sockets, f \in Ends : j # k \/ f # Server => wire'[j][f] = wire[j][f]
  BY <1>0, <1>1
<1>3. q \in Seq(QuietMessage) /\ q \in Seq(NotRequest) /\ q \in Seq(RoutineMessage)
  BY <1>1 DEF OrderInv, HandoffIsQuiet, AllRoutine
<1>4. /\ Tail(q) \in Seq(QuietMessage) /\ Tail(q) \in Seq(NotRequest) /\ Tail(q) \in Seq(RoutineMessage)
      /\ Head(q) \in QuietMessage
  BY <1>1, <1>3, TailType
<1>5. Head(q).type # "Regular"
  BY <1>4 DEF QuietMessage
<1> HIDE DEF q
<1>6. AllRoutine'
  BY <1>1, <1>2, <1>4 DEF OrderInv, AllRoutine
<1>7. WiresGapFree'
  <2> SUFFICES ASSUME NEW j \in Sockets, NEW f \in Ends PROVE GapFree(wire'[j][f], incomingMsgId[f])
    BY <1>1 DEF WiresGapFree
  <2>1. GapFree(wire[j][f], incomingMsgId[f]) /\ incomingMsgId[f] \in Nat
    BY <1>0 DEF OrderInv, WiresGapFree
  <2>2. CASE j = k /\ f = Server
    <3>1. GapFree(q, incomingMsgId[f])
      BY <2>1, <2>2 DEF q
    <3> QED BY <1>0, <1>1, <1>2, <1>5, <2>1, <2>2, <3>1, GapFreeTail
  <2> QED BY <1>2, <2>1, <2>2
<1>8. socket[Client] # k => Line(Client)' = Line(Client)
  BY <1>0, <1>1, <1>2 DEF Line
<1>9. Line(Server)' = Line(Server)
  BY <1>0, <1>1, <1>2 DEF Line
<1>10. socket[Client] = k => /\ alive[k] => GapFree(Line(Client)', incomingMsgId[Server])
                             /\ \A id : Carries(Line(Client), id) => Carries(Line(Client)', id)
  BY <1>1, <1>2, <1>5, TailLine DEF q
<1>11. LinesGapFree'
  <2> SUFFICES ASSUME NEW f \in Ends, alive[socket[f]] PROVE GapFree(Line(f)', incomingMsgId[Peer(f)])
    BY <1>1 DEF LinesGapFree
  <2>1. GapFree(Line(f), incomingMsgId[Peer(f)])
    BY DEF OrderInv, LinesGapFree
  <2> QED BY <1>8, <1>9, <1>10, <2>1
<1>12. LinesComplete'
  <2> SUFFICES ASSUME NEW f \in Ends, alive[socket[f]], ~isReconnecting[f], outgoingMsgId[f] > incomingMsgId[Peer(f)]
               PROVE  Carries(Line(f)', outgoingMsgId[f])
    BY <1>1 DEF LinesComplete
  <2>1. Carries(Line(f), outgoingMsgId[f])
    BY DEF OrderInv, LinesComplete
  <2> QED BY <1>8, <1>9, <1>10, <2>1
<1>13. UnopenedIsUnused'
  BY <1>1, <1>2 DEF OrderInv, UnopenedIsUnused
<1>14. HandoffIsQuiet'
  <2>1. ASSUME NEW j \in handoff
        PROVE  /\ wire'[j][Server] \in Seq(QuietMessage) /\ wire'[j][Server] \in Seq(NotRequest)
               /\ wire'[j][Client] = wire[j][Client]
    <3>1. /\ wire[j][Server] \in Seq(QuietMessage) /\ wire[j][Server] \in Seq(NotRequest) /\ j \in Sockets
          /\ wire'[j][Client] = wire[j][Client]
      BY <1>0, <1>2 DEF OrderInv, HandoffIsQuiet
    <3>2. CASE j = k
      BY <1>2, <1>4, <3>1, <3>2
    <3>3. CASE j # k
      BY <1>2, <3>1, <3>3
    <3> QED BY <3>2, <3>3
  <2> QED BY <1>0, <1>1, <1>2, <2>1 DEF OrderInv, HandoffIsQuiet
<1>15. \A j \in Sockets : Unanswered(j) => Unanswered(j)'
  BY <1>1, <1>2 DEF Unanswered
<1>16. RequestsAreFirst'
  <2>1. ASSUME NEW j \in Sockets, wire'[j][Server] # <<>>
        PROVE  /\ Tail(wire'[j][Server]) \in Seq(NotRequest)
               /\ Head(wire'[j][Server]) = ConnectionType => Unanswered(j)' /\ wire'[j][Server] \in Seq(QuietMessage)
    <3>1. CASE j = k
      <4>1. Tail(wire'[k][Server]) \in Seq(NotRequest) /\ Head(wire'[k][Server]) \in NotRequest
        BY <1>2, <1>4, <2>1, <3>1, TailType
      <4> QED BY <3>1, <4>1 DEF NotRequest
    <3>2. CASE j # k
      BY <1>2, <1>15, <2>1, <3>2 DEF OrderInv, RequestsAreFirst
    <3> QED BY <3>1, <3>2
  <2>2. ASSUME writerData[Client] # <<>>, Head(writerData[Client]) = ConnectionType
        PROVE  Unanswered(socket[Client])' /\ wire'[socket[Client]][Server] = <<>>
    <3>1. Unanswered(socket[Client]) /\ wire[socket[Client]][Server] = <<>> /\ socket[Client] \in Sockets
      BY <1>0, <2>2 DEF OrderInv, RequestsAreFirst
    <3>2. socket[Client] # k
      BY <1>1, <3>1 DEF Unanswered
    <3> QED BY <1>1, <1>2, <1>15, <3>1, <3>2 DEF Unanswered
  <2> QED BY <1>1, <2>1, <2>2 DEF OrderInv, RequestsAreFirst
<1> QED BY <1>6, <1>7, <1>11, <1>12, <1>13, <1>14, <1>16 DEF OrderInv

LEMMA RequestMessage ==
  LET ms == <<ConnectionType>>
  IN  /\ ms \in Seq(RoutineMessage) /\ ms \in Seq(QuietMessage) /\ ms \in Seq(ProtocolMessage)
      /\ Tail(ms) = <<>> /\ Head(ms) = ConnectionType /\ ms # <<>>
<1>1. ConnectionType \in ProtocolMessage /\ ConnectionType.type = "Control" /\ ConnectionType.id = 0
  BY MessageProtocol DEF ConnectionType, MessageType
<1>2. ConnectionType \in RoutineMessage /\ ConnectionType \in QuietMessage
  BY <1>1 DEF RoutineMessage, QuietMessage
<1> QED BY <1>1, <1>2

LEMMA ReconnectOrder ==
  ASSUME Inv, OrderInv, reconnect PROVE OrderInv'
<1> USE TwoEnds
<1> DEFINE k == opened + 1
           c == socket[Client]
           ms == <<ConnectionType>>
           F == Flushed(Client)
<1>0. /\ writerData \in [Ends -> Seq(ProtocolMessage)] /\ alive \in [Sockets -> BOOLEAN]
      /\ socket \in [Ends -> Sockets] /\ incomingMsgId \in [Ends -> Nat] /\ handoff \subseteq Sockets
      /\ isReconnecting \in [Ends -> BOOLEAN] /\ isPaused \in [Ends -> BOOLEAN] /\ opened \in Sockets
  BY NetTypes
<1>1. /\ k <= MaxSockets /\ opened' = k /\ wire' = Abandoned(Client)
      /\ alive' = [alive EXCEPT ![c] = FALSE, ![k] = TRUE]
      /\ isReconnecting' = [isReconnecting EXCEPT ![Client] = TRUE]
      /\ socket' = [socket EXCEPT ![Client] = k] /\ writerData' = [writerData EXCEPT ![Client] = ms]
      /\ UNCHANGED <<handoff, outgoingMsgId, incomingMsgId>>
  BY DEF reconnect, beginAcceptReconnection, inVars
<1>2. k \in Sockets /\ \A j \in Sockets : j > k => j > opened
  BY <1>0, <1>1, BoundsAssumption DEF Sockets
<1>3. c \in Sockets /\ c # k /\ socket[Server] # k /\ k \notin handoff /\ \A e \in Ends : socket[e] <= k
  <2>1. \A e \in Ends : socket[e] <= opened /\ socket[e] \in Nat
    BY <1>0 DEF OrderInv, UnopenedIsUnused, Sockets
  <2>2. opened \in Nat /\ k > opened
    BY <1>0 DEF Sockets
  <2> QED BY <1>0, <1>2, <2>1, <2>2 DEF OrderInv, UnopenedIsUnused
<1>4. /\ \A j \in Sockets, f \in Ends : j # c \/ f # Server => F[j][f] = wire[j][f]
      /\ \A j \in Sockets, f \in Ends : /\ F[j][f] \in Seq(RoutineMessage)
                                        /\ GapFree(F[j][f], incomingMsgId[f])
                                        /\ j > opened => F[j][f] = <<>>
      /\ \A j \in handoff : /\ F[j][Server] \in Seq(QuietMessage) /\ F[j][Server] \in Seq(NotRequest)
                            /\ F[j][Client] = wire[j][Client]
      /\ \A j \in Sockets : Unanswered(j) => F[j][Client] = <<>>
      /\ \A j \in Sockets : F[j][Server] # <<>> =>
           /\ Tail(F[j][Server]) \in Seq(NotRequest)
           /\ Head(F[j][Server]) = ConnectionType => Unanswered(j) /\ F[j][Server] \in Seq(QuietMessage)
  BY FlushedOrder
<1>5. \A j \in Sockets, f \in Ends : wire'[j][f] = IF j = c /\ f = Client THEN <<>> ELSE F[j][f]
  BY <1>1, AbandonedIs
<1>6. /\ ms \in Seq(RoutineMessage) /\ ms \in Seq(QuietMessage) /\ ms \in Seq(ProtocolMessage)
      /\ Tail(ms) = <<>> /\ Head(ms) = ConnectionType /\ ms # <<>>
  BY RequestMessage
<1> HIDE DEF k, c, ms, F
<1>7. /\ socket'[Client] = k /\ socket'[Server] = socket[Server] /\ isReconnecting'[Client]
      /\ isReconnecting'[Server] = isReconnecting[Server]
      /\ writerData'[Client] = ms /\ writerData'[Server] = writerData[Server]
      /\ ~alive'[c] /\ \A j \in Sockets : j # c /\ j # k => alive'[j] = alive[j]
  BY <1>0, <1>1, <1>2, <1>3
<1>8. wire'[k][Client] = <<>> /\ wire'[k][Server] = <<>>
  <2>1. k > opened
    BY <1>0 DEF k, Sockets
  <2> QED BY <1>2, <1>3, <1>4, <1>5, <2>1
<1>9. AllRoutine'
  <2>1. \A j \in Sockets, f \in Ends : wire'[j][f] \in Seq(RoutineMessage)
    BY <1>4, <1>5, NothingToWrite
  <2>2. ASSUME NEW f \in Ends PROVE writerData'[f] \in Seq(RoutineMessage)
    BY <1>6, <1>7 DEF OrderInv, AllRoutine
  <2> QED BY <2>1, <2>2 DEF AllRoutine
<1>10. WiresGapFree'
  <2> SUFFICES ASSUME NEW j \in Sockets, NEW f \in Ends PROVE GapFree(wire'[j][f], incomingMsgId[f])
    BY <1>1 DEF WiresGapFree
  <2> QED BY <1>4, <1>5, EmptyGapFree
<1>11. Line(Client)' = ms
  <2>1. Line(Client)' = <<>> \o ms
    BY <1>7, <1>8 DEF Line
  <2> QED BY <1>6, <2>1, ConcatEmptySeq
<1>12. ASSUME alive'[socket[Server]] PROVE alive[socket[Server]] /\ Line(Server)' = Line(Server)
  <2>1. socket[Server] # c /\ socket[Server] \in Sockets /\ alive[socket[Server]]
    BY <1>0, <1>3, <1>7, <1>12
  <2>2. wire'[socket[Server]][Client] = wire[socket[Server]][Client]
    BY <1>4, <1>5, <2>1
  <2> QED BY <1>7, <2>1, <2>2 DEF Line
<1>13. LinesGapFree'
  <2>1. GapFree(ms, incomingMsgId[Server])
    <3>1. GapFree(<<>> \o ms, incomingMsgId[Server])
      BY <1>0, <1>6, EmptyGapFree, NothingToWrite, GapFreeQuiet
    <3> QED BY <1>6, <3>1, ConcatEmptySeq
  <2> SUFFICES ASSUME NEW f \in Ends, alive'[socket'[f]] PROVE GapFree(Line(f)', incomingMsgId[Peer(f)])
    BY <1>1 DEF LinesGapFree
  <2>2. CASE f = Client
    BY <1>11, <2>1, <2>2
  <2>3. CASE f = Server
    BY <1>7, <1>12, <2>3 DEF OrderInv, LinesGapFree
  <2> QED BY <2>2, <2>3
<1>14. LinesComplete'
  <2> SUFFICES ASSUME NEW f \in Ends, alive'[socket'[f]], ~isReconnecting'[f], outgoingMsgId[f] > incomingMsgId[Peer(f)]
               PROVE  Carries(Line(f)', outgoingMsgId[f])
    BY <1>1 DEF LinesComplete
  <2>1. f = Server
    BY <1>7
  <2> QED BY <1>7, <1>12, <2>1 DEF OrderInv, LinesComplete
<1>15. UnopenedIsUnused'
  <2>1. \A e \in Ends : socket'[e] <= k
    <3>1. k <= k
      BY <1>2 DEF Sockets
    <3> QED BY <1>3, <1>7, <3>1
  <2>2. \A j \in Sockets : j > k => j \notin handoff /\ \A e \in Ends : wire'[j][e] = <<>>
    BY <1>2, <1>4, <1>5 DEF OrderInv, UnopenedIsUnused
  <2> QED BY <1>1, <2>1, <2>2 DEF UnopenedIsUnused, k
<1>16. HandoffIsQuiet'
  <2>1. ASSUME NEW j \in handoff
        PROVE  /\ ExtHost /\ j # socket'[Server]
               /\ wire'[j][Server] \in Seq(QuietMessage) /\ wire'[j][Server] \in Seq(NotRequest)
               /\ wire'[j][Client] \in {Answer, <<Ok>>, <<>>}
    <3>1. /\ ExtHost /\ j # socket[Server] /\ j \in Sockets
          /\ wire[j][Client] \in {Answer, <<Ok>>, <<>>}
      BY <1>0 DEF OrderInv, HandoffIsQuiet
    <3>2. wire'[j][Server] = F[j][Server] /\ (wire'[j][Client] = <<>> \/ wire'[j][Client] = wire[j][Client])
      BY <1>4, <1>5, <3>1
    <3> QED BY <1>4, <1>7, <3>1, <3>2
  <2> QED BY <1>1, <1>3, <1>6, <1>7, <2>1 DEF HandoffIsQuiet
<1>17. ASSUME NEW j \in Sockets, Unanswered(j) PROVE Unanswered(j)'
  <2>1. j \notin handoff /\ j # socket[Server]
    BY <1>17 DEF Unanswered
  <2>2. wire'[j][Client] = <<>>
    BY <1>4, <1>5, <1>17
  <2> QED BY <1>1, <1>7, <2>1, <2>2 DEF Unanswered
<1>18. RequestsAreFirst'
  <2>1. ASSUME NEW j \in Sockets, wire'[j][Server] # <<>>
        PROVE  /\ Tail(wire'[j][Server]) \in Seq(NotRequest)
               /\ Head(wire'[j][Server]) = ConnectionType => Unanswered(j)' /\ wire'[j][Server] \in Seq(QuietMessage)
    <3>1. wire'[j][Server] = F[j][Server]
      BY <1>5
    <3> QED BY <1>4, <1>17, <2>1, <3>1
  <2>2. Unanswered(socket[Client])' /\ wire'[socket'[Client]][Server] = <<>>
    <3>1. k \notin handoff' /\ k # socket'[Server] /\ wire'[k][Client] = <<>>
      BY <1>1, <1>3, <1>7, <1>8
    <3> QED BY <1>7, <1>8, <3>1 DEF Unanswered
  <2>3. Tail(writerData'[Client]) \in Seq(NotRequest)
    BY <1>6, <1>7, NothingToWrite
  <2> QED BY <2>1, <2>2, <2>3 DEF RequestsAreFirst
<1> QED BY <1>9, <1>10, <1>13, <1>14, <1>15, <1>16, <1>18 DEF OrderInv

\* The server end continues on socket k: it was handed over, or its request was
\* just read and answered.
ServerMoves(k) ==
  /\ alive' = [alive EXCEPT ![socket[Server]] = FALSE]
  /\ isReconnecting' = [isReconnecting EXCEPT ![Server] = TRUE]
  /\ socket' = [socket EXCEPT ![Server] = k] /\ writerData' = [writerData EXCEPT ![Server] = <<>>]
  /\ isPaused' = [isPaused EXCEPT ![Server] = FALSE]
  /\ UNCHANGED <<opened, outgoingMsgId, incomingMsgId>>

LEMMA ServerMovesEffect ==
  ASSUME Inv, OrderInv, NEW k \in Sockets, k # socket[Server], k <= opened, ServerMoves(k), handoff' \subseteq handoff,
         wire' \in [Sockets -> [Ends -> Seq(ProtocolMessage)]],
         \A j \in Sockets, f \in Ends : j # k => wire'[j][f] = Abandoned(Server)[j][f],
         \A f \in Ends : wire'[k][f] \in Seq(RoutineMessage) /\ GapFree(wire'[k][f], incomingMsgId[f]),
         socket[Client] = k =>
           /\ alive[k] => GapFree(Line(Client)', incomingMsgId[Server])
           /\ isReconnecting[Client] \/ Line(Client)' = Line(Client)
  PROVE  /\ AllRoutine' /\ WiresGapFree' /\ LinesGapFree' /\ LinesComplete' /\ UnopenedIsUnused'
         /\ socket'[Client] = socket[Client] /\ socket'[Server] = k
         /\ isReconnecting'[Client] = isReconnecting[Client] /\ isPaused'[Client] = isPaused[Client]
         /\ writerData'[Client] = writerData[Client]
         /\ \A j \in Sockets : alive'[j] => alive[j] /\ j # socket[Server]
         /\ \A j \in handoff \ {k} : /\ wire'[j][Server] \in Seq(QuietMessage) /\ wire'[j][Server] \in Seq(NotRequest)
                                     /\ wire'[j][Client] = wire[j][Client]
         /\ \A j \in Sockets \ {k} : Unanswered(j) => wire'[j][Client] = <<>>
         /\ \A j \in Sockets \ {k} : wire'[j][Server] # <<>> =>
              /\ Tail(wire'[j][Server]) \in Seq(NotRequest)
              /\ Head(wire'[j][Server]) = ConnectionType => Unanswered(j) /\ wire'[j][Server] \in Seq(QuietMessage)
         /\ socket[Client] # k /\ wire[socket[Client]][Server] = <<>> => wire'[socket[Client]][Server] = <<>>
<1> USE TwoEnds
<1> DEFINE s == socket[Server]
           F == Flushed(Server)
<1>0. /\ writerData \in [Ends -> Seq(ProtocolMessage)] /\ alive \in [Sockets -> BOOLEAN]
      /\ socket \in [Ends -> Sockets] /\ incomingMsgId \in [Ends -> Nat] /\ handoff \subseteq Sockets
      /\ isReconnecting \in [Ends -> BOOLEAN] /\ isPaused \in [Ends -> BOOLEAN] /\ opened \in Sockets
  BY NetTypes
<1>1. /\ \A j \in Sockets, f \in Ends : j # s \/ f # Client => F[j][f] = wire[j][f]
      /\ \A j \in Sockets, f \in Ends : /\ F[j][f] \in Seq(RoutineMessage)
                                        /\ GapFree(F[j][f], incomingMsgId[f])
                                        /\ j > opened => F[j][f] = <<>>
      /\ \A j \in handoff : /\ F[j][Server] \in Seq(QuietMessage) /\ F[j][Server] \in Seq(NotRequest)
                            /\ F[j][Client] = wire[j][Client]
      /\ \A j \in Sockets : Unanswered(j) => F[j][Client] = <<>>
      /\ \A j \in Sockets : F[j][Server] # <<>> =>
           /\ Tail(F[j][Server]) \in Seq(NotRequest)
           /\ Head(F[j][Server]) = ConnectionType => Unanswered(j) /\ F[j][Server] \in Seq(QuietMessage)
  BY FlushedOrder
<1>2. \A j \in Sockets, f \in Ends : j # k => wire'[j][f] = IF j = s /\ f = Server THEN <<>> ELSE F[j][f]
  BY AbandonedIs
<1>3. s \in Sockets /\ s # k
  BY <1>0
<1> HIDE DEF s, F
<1>4. /\ socket'[Client] = socket[Client] /\ socket'[Server] = k
      /\ isReconnecting'[Client] = isReconnecting[Client] /\ isReconnecting'[Server]
      /\ isPaused'[Client] = isPaused[Client]
      /\ writerData'[Client] = writerData[Client] /\ writerData'[Server] = <<>>
  BY <1>0 DEF ServerMoves
<1>5. \A j \in Sockets : alive'[j] => alive[j] /\ j # s
  BY <1>0, <1>3 DEF ServerMoves, s
<1>6. AllRoutine'
  <2>1. ASSUME NEW j \in Sockets, NEW f \in Ends PROVE wire'[j][f] \in Seq(RoutineMessage)
    <3>1. j = k \/ wire'[j][f] = <<>> \/ wire'[j][f] = F[j][f]
      BY <1>2
    <3> QED BY <1>1, <3>1, NothingToWrite
  <2>2. ASSUME NEW f \in Ends PROVE writerData'[f] \in Seq(RoutineMessage)
    BY <1>4, NothingToWrite DEF OrderInv, AllRoutine
  <2> QED BY <2>1, <2>2 DEF AllRoutine
<1>7. WiresGapFree'
  <2> SUFFICES ASSUME NEW j \in Sockets, NEW f \in Ends PROVE GapFree(wire'[j][f], incomingMsgId[f])
    BY DEF WiresGapFree, ServerMoves
  <2>1. j = k \/ wire'[j][f] = <<>> \/ wire'[j][f] = F[j][f]
    BY <1>2
  <2> QED BY <1>1, <2>1, EmptyGapFree
<1>8. Line(Server)' = wire'[k][Client]
  <2>1. Line(Server)' = wire'[k][Client] \o <<>> /\ wire'[k][Client] \in Seq(ProtocolMessage)
    BY <1>4 DEF Line
  <2> QED BY <2>1, ConcatEmptySeq
<1>9. ASSUME alive'[socket[Client]], socket[Client] # k PROVE alive[socket[Client]] /\ Line(Client)' = Line(Client)
  <2>1. socket[Client] # s /\ socket[Client] \in Sockets /\ alive[socket[Client]]
    BY <1>0, <1>5, <1>9
  <2>2. wire'[socket[Client]][Server] = wire[socket[Client]][Server]
    BY <1>1, <1>2, <1>9, <2>1
  <2> QED BY <1>4, <2>1, <2>2 DEF Line
<1>10. LinesGapFree'
  <2> SUFFICES ASSUME NEW f \in Ends, alive'[socket'[f]] PROVE GapFree(Line(f)', incomingMsgId[Peer(f)])
    BY DEF LinesGapFree, ServerMoves
  <2>1. CASE f = Server
    BY <1>8, <2>1
  <2>2. CASE f = Client /\ socket[Client] # k
    BY <1>4, <1>9, <2>2 DEF OrderInv, LinesGapFree
  <2>3. CASE f = Client /\ socket[Client] = k
    BY <1>4, <1>5, <2>3
  <2> QED BY <2>1, <2>2, <2>3
<1>11. LinesComplete'
  <2> SUFFICES ASSUME NEW f \in Ends, alive'[socket'[f]], ~isReconnecting'[f], outgoingMsgId[f] > incomingMsgId[Peer(f)]
               PROVE  Carries(Line(f)', outgoingMsgId[f])
    BY DEF LinesComplete, ServerMoves
  <2>1. f = Client
    BY <1>4
  <2>2. CASE socket[Client] # k
    BY <1>4, <1>9, <2>1, <2>2 DEF OrderInv, LinesComplete
  <2>3. CASE socket[Client] = k
    <3>1. Line(Client)' = Line(Client) /\ alive[k]
      BY <1>4, <1>5, <2>1, <2>3
    <3>2. Carries(Line(Client), outgoingMsgId[Client])
      BY <1>4, <2>1, <2>3, <3>1 DEF OrderInv, LinesComplete
    <3> QED BY <2>1, <3>1, <3>2
  <2> QED BY <2>2, <2>3
<1>12. UnopenedIsUnused'
  <2>1. \A e \in Ends : socket'[e] <= opened'
    BY <1>4 DEF OrderInv, UnopenedIsUnused, ServerMoves
  <2>2. ASSUME NEW j \in Sockets, j > opened, NEW e \in Ends PROVE wire'[j][e] = <<>>
    <3>1. j # k
      BY <1>0, <2>2 DEF Sockets
    <3>2. wire'[j][e] = <<>> \/ wire'[j][e] = F[j][e]
      BY <1>2, <3>1
    <3> QED BY <1>1, <2>2, <3>2
  <2>3. \A j \in Sockets : j > opened => j \notin handoff'
    BY DEF OrderInv, UnopenedIsUnused
  <2> QED BY <2>1, <2>2, <2>3 DEF UnopenedIsUnused, ServerMoves
<1>13. ASSUME NEW j \in handoff \ {k}
       PROVE  /\ wire'[j][Server] \in Seq(QuietMessage) /\ wire'[j][Server] \in Seq(NotRequest)
              /\ wire'[j][Client] = wire[j][Client]
  <2>1. j \in Sockets /\ j # s
    BY <1>0 DEF OrderInv, HandoffIsQuiet, s
  <2>2. wire'[j][Server] = F[j][Server] /\ wire'[j][Client] = F[j][Client]
    BY <1>2, <2>1
  <2> QED BY <1>1, <2>2
<1>14. \A j \in Sockets \ {k} : Unanswered(j) => wire'[j][Client] = <<>>
  BY <1>1, <1>2
<1>15. ASSUME NEW j \in Sockets \ {k}, wire'[j][Server] # <<>>
       PROVE  /\ Tail(wire'[j][Server]) \in Seq(NotRequest)
              /\ Head(wire'[j][Server]) = ConnectionType => Unanswered(j) /\ wire'[j][Server] \in Seq(QuietMessage)
  BY <1>1, <1>2, <1>15
<1>16. socket[Client] # k /\ wire[socket[Client]][Server] = <<>> => wire'[socket[Client]][Server] = <<>>
  BY <1>0, <1>1, <1>2
<1> QED BY <1>4, <1>5, <1>6, <1>7, <1>10, <1>11, <1>12, <1>13, <1>14, <1>15, <1>16 DEF s

LEMMA ReceiveSocketOrder ==
  ASSUME Inv, OrderInv, NEW k \in Sockets, receiveSocket(k) PROVE OrderInv'
<1> USE TwoEnds
<1>0. socket \in [Ends -> Sockets] /\ handoff \subseteq Sockets /\ opened \in Sockets
  BY NetTypes
<1>1. /\ k \in handoff /\ handoff' = handoff \ {k} /\ wire' = Abandoned(Server) /\ ServerMoves(k)
  BY DEF receiveSocket, beginAcceptReconnection, ServerMoves, inVars
<1>2. k # socket[Server] /\ k <= opened
  BY <1>0, <1>1 DEF OrderInv, HandoffIsQuiet, UnopenedIsUnused, Sockets
<1>3. \A f \in Ends : wire'[k][f] = wire[k][f]
  <2> TAKE f \in Ends
  <2>1. wire'[k][f] = Flushed(Server)[k][f]
    BY <1>1, <1>2, AbandonedIs
  <2>2. Flushed(Server)[k][f] = wire[k][f]
    BY <1>2, FlushedOrder
  <2> QED BY <2>1, <2>2
<1>4. wire' \in [Sockets -> [Ends -> Seq(ProtocolMessage)]]
  BY <1>1, AbandonedOK DEF WireOK
<1>5. \A f \in Ends : wire'[k][f] \in Seq(RoutineMessage) /\ GapFree(wire'[k][f], incomingMsgId[f])
  BY <1>3 DEF OrderInv, AllRoutine, WiresGapFree
<1>6. ASSUME socket[Client] = k
      PROVE  /\ alive[k] => GapFree(Line(Client)', incomingMsgId[Server])
             /\ Line(Client)' = Line(Client)
  <2>1. socket'[Client] = k /\ writerData'[Client] = writerData[Client]
    BY <1>0, <1>1, <1>6, NetTypes DEF ServerMoves
  <2>2. Line(Client)' = Line(Client)
    BY <1>3, <1>6, <2>1 DEF Line
  <2> QED BY <1>6, <2>2 DEF OrderInv, LinesGapFree
<1>7. /\ AllRoutine' /\ WiresGapFree' /\ LinesGapFree' /\ LinesComplete' /\ UnopenedIsUnused'
      /\ socket'[Client] = socket[Client] /\ socket'[Server] = k
      /\ isReconnecting'[Client] = isReconnecting[Client] /\ isPaused'[Client] = isPaused[Client]
      /\ writerData'[Client] = writerData[Client]
      /\ \A j \in Sockets : alive'[j] => alive[j] /\ j # socket[Server]
      /\ \A j \in handoff \ {k} : /\ wire'[j][Server] \in Seq(QuietMessage) /\ wire'[j][Server] \in Seq(NotRequest)
                                  /\ wire'[j][Client] = wire[j][Client]
      /\ \A j \in Sockets \ {k} : Unanswered(j) => wire'[j][Client] = <<>>
      /\ \A j \in Sockets \ {k} : wire'[j][Server] # <<>> =>
           /\ Tail(wire'[j][Server]) \in Seq(NotRequest)
           /\ Head(wire'[j][Server]) = ConnectionType => Unanswered(j) /\ wire'[j][Server] \in Seq(QuietMessage)
      /\ socket[Client] # k /\ wire[socket[Client]][Server] = <<>> => wire'[socket[Client]][Server] = <<>>
  BY <1>1, <1>2, <1>4, <1>5, <1>6, ServerMovesEffect
<1>8. HandoffIsQuiet'
  <2>1. \A j \in handoff' : /\ ExtHost /\ j # socket'[Server]
                            /\ wire'[j][Server] \in Seq(QuietMessage) /\ wire'[j][Server] \in Seq(NotRequest)
                            /\ wire'[j][Client] \in {Answer, <<Ok>>, <<>>}
    BY <1>1, <1>7 DEF OrderInv, HandoffIsQuiet
  <2>2. ASSUME socket[Client] \in handoff', alive'[socket[Client]]
        PROVE  isPaused'[Client] \/ (isReconnecting'[Client] /\ wire'[socket[Client]][Client] = Answer)
    <3>1. socket[Client] \in handoff \ {k} /\ alive[socket[Client]]
      BY <1>0, <1>1, <1>7, <2>2
    <3> QED BY <1>7, <3>1 DEF OrderInv, HandoffIsQuiet
  <2> QED BY <1>7, <2>1, <2>2 DEF OrderInv, HandoffIsQuiet
<1>9. ASSUME NEW j \in Sockets, Unanswered(j) PROVE j # k /\ Unanswered(j)'
  <2>1. j \notin handoff /\ j # k /\ (j = socket[Client] => isReconnecting[Client])
    BY <1>1, <1>9 DEF Unanswered
  <2> QED BY <1>1, <1>7, <1>9, <2>1 DEF Unanswered
<1>10. RequestsAreFirst'
  <2>1. ASSUME NEW j \in Sockets, wire'[j][Server] # <<>>
        PROVE  /\ Tail(wire'[j][Server]) \in Seq(NotRequest)
               /\ Head(wire'[j][Server]) = ConnectionType => Unanswered(j)' /\ wire'[j][Server] \in Seq(QuietMessage)
    <3>1. CASE j = k
      <4>1. wire'[k][Server] = wire[k][Server] /\ wire[k][Server] \in Seq(NotRequest)
        BY <1>1, <1>3 DEF OrderInv, HandoffIsQuiet
      <4>2. Tail(wire'[k][Server]) \in Seq(NotRequest) /\ Head(wire'[k][Server]) \in NotRequest
        BY <2>1, <3>1, <4>1, TailType
      <4> QED BY <3>1, <4>2 DEF NotRequest
    <3>2. CASE j # k
      BY <1>7, <1>9, <2>1, <3>2
    <3> QED BY <3>1, <3>2
  <2>2. ASSUME writerData[Client] # <<>>, Head(writerData[Client]) = ConnectionType
        PROVE  Unanswered(socket[Client])' /\ wire'[socket[Client]][Server] = <<>>
    <3>1. Unanswered(socket[Client]) /\ wire[socket[Client]][Server] = <<>> /\ socket[Client] \in Sockets
      BY <1>0, <2>2 DEF OrderInv, RequestsAreFirst
    <3> QED BY <1>7, <1>9, <3>1 DEF Unanswered
  <2> QED BY <1>7, <2>1, <2>2 DEF OrderInv, RequestsAreFirst
<1> QED BY <1>7, <1>8, <1>10 DEF OrderInv

LEMMA AnswerMessages ==
  /\ Answer \in Seq(RoutineMessage) /\ Answer \in Seq(QuietMessage) /\ Answer \in Seq(ProtocolMessage)
  /\ <<>> \o Answer = Answer /\ (~ExtHost => Answer = <<Ok>>)
<1>1. Ok \in ProtocolMessage /\ Ok.type = "Control" /\ Ok.id = 0
  BY MessageProtocol DEF Ok, MessageType
<1> DEFINE P == Message("Pause", 0, 0, "empty")
<1>2. P \in ProtocolMessage /\ P.type = "Pause" /\ P.id = 0
  BY MessageProtocol DEF MessageType
<1>3. Answer = <<P, Ok>> \/ Answer = <<Ok>>
  BY DEF Answer
<1> HIDE DEF P
<1>4. P \in RoutineMessage /\ P \in QuietMessage /\ Ok \in RoutineMessage /\ Ok \in QuietMessage
  BY <1>1, <1>2 DEF RoutineMessage, QuietMessage
<1>5. ASSUME NEW S, P \in S, Ok \in S PROVE Answer \in Seq(S)
  <2>1. <<P, Ok>> \in Seq(S) /\ <<Ok>> \in Seq(S)
    BY <1>5
  <2> QED BY <1>3, <2>1
<1>6. Answer \in Seq(RoutineMessage) /\ Answer \in Seq(QuietMessage) /\ Answer \in Seq(ProtocolMessage)
  BY <1>1, <1>2, <1>4, <1>5
<1> QED BY <1>6, ConcatEmptySeq DEF Answer

LEMMA AcceptReconnectionOrder ==
  ASSUME Inv, OrderInv, NEW k \in Sockets, acceptReconnection(k) PROVE OrderInv'
<1> USE TwoEnds
<1> DEFINE q == wire[k][Server]
           answer == IF alive[k] THEN Answer ELSE <<>>
           replied(w) == [w EXCEPT ![k][Server] = Tail(q), ![k][Client] = IF alive[k] THEN @ \o Answer ELSE @]
<1>0. /\ wire \in [Sockets -> [Ends -> Seq(ProtocolMessage)]] /\ writerData \in [Ends -> Seq(ProtocolMessage)]
      /\ socket \in [Ends -> Sockets] /\ handoff \subseteq Sockets /\ opened \in Sockets
      /\ incomingMsgId \in [Ends -> Nat] /\ q \in Seq(ProtocolMessage)
  BY NetTypes
<1>1. q # <<>> /\ Head(q) = ConnectionType
  BY DEF acceptReconnection
<1>2. /\ Unanswered(k) /\ q \in Seq(QuietMessage) /\ Tail(q) \in Seq(NotRequest)
      /\ q \in Seq(RoutineMessage) /\ GapFree(q, incomingMsgId[Server])
  BY <1>1 DEF OrderInv, RequestsAreFirst, AllRoutine, WiresGapFree
<1>3. /\ k \notin handoff /\ k # socket[Server] /\ wire[k][Client] = <<>> /\ k <= opened
      /\ k = socket[Client] => isReconnecting[Client]
  BY <1>0, <1>1, <1>2 DEF Unanswered, OrderInv, UnopenedIsUnused, Sockets
<1>4. Head(q).type # "Regular"
  <2>1. Head(q) \in QuietMessage
    BY <1>1, <1>2, TailType
  <2> QED BY <2>1 DEF QuietMessage
<1>5. /\ Tail(q) \in Seq(RoutineMessage) /\ Tail(q) \in Seq(QuietMessage) /\ Tail(q) \in Seq(ProtocolMessage)
      /\ GapFree(Tail(q), incomingMsgId[Server])
  BY <1>0, <1>1, <1>2, <1>4, TailType, GapFreeTail
<1>6. /\ answer \in Seq(RoutineMessage) /\ answer \in Seq(ProtocolMessage)
      /\ \A n \in Nat : GapFree(answer, n) /\ (alive[k] => answer = Answer)
  <2>1. Answer \in Seq(RoutineMessage) /\ Answer \in Seq(ProtocolMessage)
    BY AnswerMessages
  <2>2. \A n \in Nat : GapFree(<<>> \o Answer, n)
    BY EmptyGapFree, AnswerMessages, NothingToWrite, GapFreeQuiet
  <2> QED BY <2>1, <2>2, EmptyGapFree, AnswerMessages, NothingToWrite
<1>7. ASSUME NEW w \in [Sockets -> [Ends -> Seq(ProtocolMessage)]], w[k][Client] = <<>>
      PROVE  /\ replied(w) \in [Sockets -> [Ends -> Seq(ProtocolMessage)]]
             /\ replied(w)[k][Server] = Tail(q) /\ replied(w)[k][Client] = answer
             /\ \A j \in Sockets, f \in Ends : j # k => replied(w)[j][f] = w[j][f]
  <2>1. replied(w) = [w EXCEPT ![k][Server] = Tail(q), ![k][Client] = answer]
    BY <1>7, AnswerMessages
  <2> HIDE DEF answer, q, replied
  <2> DEFINE u == [w EXCEPT ![k][Server] = Tail(q)]
  <2>2. /\ u \in [Sockets -> [Ends -> Seq(ProtocolMessage)]]
        /\ u[k][Server] = Tail(q)
        /\ \A j \in Sockets, f \in Ends : j # k => u[j][f] = w[j][f]
    BY <1>5
  <2>3. replied(w) = [u EXCEPT ![k][Client] = answer]
    BY <2>1
  <2> HIDE DEF u
  <2>4. replied(w) \in [Sockets -> [Ends -> Seq(ProtocolMessage)]]
    BY <1>6, <2>2, <2>3
  <2>5. /\ replied(w)[k][Server] = u[k][Server] /\ replied(w)[k][Client] = answer
        /\ \A j \in Sockets, f \in Ends : j # k => replied(w)[j][f] = u[j][f]
    BY <2>2, <2>3
  <2> QED BY <2>2, <2>4, <2>5
<1>8. \/ /\ ExtHost /\ handoff' = handoff \cup {k} /\ wire' = replied(wire)
         /\ UNCHANGED <<isReconnecting, incomingMsgId, writerData, isPaused, socket, alive, outgoingMsgId, opened>>
      \/ ~ExtHost /\ handoff' = handoff /\ wire' = replied(Abandoned(Server)) /\ ServerMoves(k)
  BY DEF acceptReconnection, beginAcceptReconnection, ServerMoves, inVars, writerVars
<1> HIDE DEF replied
<1>9. CASE /\ ExtHost /\ handoff' = handoff \cup {k} /\ wire' = replied(wire)
           /\ UNCHANGED <<isReconnecting, incomingMsgId, writerData, isPaused, socket, alive, outgoingMsgId, opened>>
  <2>1. /\ wire'[k][Server] = Tail(q) /\ wire'[k][Client] = answer
        /\ \A j \in Sockets, f \in Ends : j # k => wire'[j][f] = wire[j][f]
    <3>1. wire' = replied(wire)
      BY <1>9
    <3> HIDE DEF q, answer
    <3>2. /\ replied(wire)[k][Server] = Tail(q) /\ replied(wire)[k][Client] = answer
          /\ \A j \in Sockets, f \in Ends : j # k => replied(wire)[j][f] = wire[j][f]
      <4>1. wire \in [Sockets -> [Ends -> Seq(ProtocolMessage)]]
        BY <1>0
      <4>2. wire[k][Client] = <<>>
        BY <1>3
      <4> QED BY ONLY <1>7, <4>1, <4>2
    <3> QED BY <3>1, <3>2
  <2> HIDE DEF answer
  <2>2. AllRoutine'
    <3>1. ASSUME NEW j \in Sockets, NEW f \in Ends PROVE wire'[j][f] \in Seq(RoutineMessage)
      BY <1>5, <1>6, <2>1 DEF OrderInv, AllRoutine
    <3> QED BY <1>9, <3>1 DEF OrderInv, AllRoutine
  <2>3. WiresGapFree'
    <3> SUFFICES ASSUME NEW j \in Sockets, NEW f \in Ends PROVE GapFree(wire'[j][f], incomingMsgId[f])
      BY <1>9 DEF WiresGapFree
    <3>1. GapFree(wire[j][f], incomingMsgId[f]) /\ incomingMsgId[f] \in Nat
      BY <1>0 DEF OrderInv, WiresGapFree
    <3> QED BY <1>5, <1>6, <2>1, <3>1
  <2>4. Line(Server)' = Line(Server) /\ (socket[Client] # k => Line(Client)' = Line(Client))
    BY <1>0, <1>3, <1>9, <2>1 DEF Line
  <2>5. socket[Client] = k /\ alive[k] => GapFree(Line(Client)', incomingMsgId[Server])
    BY <1>1, <1>4, <1>9, <2>1, TailLine
  <2>6. LinesGapFree'
    <3> SUFFICES ASSUME NEW f \in Ends, alive[socket[f]] PROVE GapFree(Line(f)', incomingMsgId[Peer(f)])
      BY <1>9 DEF LinesGapFree
    <3>1. GapFree(Line(f), incomingMsgId[Peer(f)])
      BY DEF OrderInv, LinesGapFree
    <3> QED BY <2>4, <2>5, <3>1
  <2>7. LinesComplete'
    <3> SUFFICES ASSUME NEW f \in Ends, alive[socket[f]], ~isReconnecting[f], outgoingMsgId[f] > incomingMsgId[Peer(f)]
                 PROVE  Carries(Line(f)', outgoingMsgId[f])
      BY <1>9 DEF LinesComplete
    <3>1. Carries(Line(f), outgoingMsgId[f])
      BY DEF OrderInv, LinesComplete
    <3> QED BY <1>3, <2>4, <3>1
  <2>8. UnopenedIsUnused'
    <3>1. ASSUME NEW j \in Sockets, j > opened PROVE j # k
      BY <1>0, <1>3, <3>1 DEF Sockets
    <3> QED BY <1>9, <2>1, <3>1 DEF OrderInv, UnopenedIsUnused
  <2>9. HandoffIsQuiet'
    <3>1. ASSUME NEW j \in handoff \cup {k}
          PROVE  /\ ExtHost /\ j # socket[Server]
                 /\ wire'[j][Server] \in Seq(QuietMessage) /\ wire'[j][Server] \in Seq(NotRequest)
                 /\ wire'[j][Client] \in {Answer, <<Ok>>, <<>>}
      <4>1. CASE j = k
        BY <1>2, <1>3, <1>5, <1>9, <2>1, <4>1 DEF answer
      <4>2. CASE j \in handoff /\ j # k
        <5>1. \A f \in Ends : wire'[j][f] = wire[j][f]
          BY <1>0, <2>1, <4>2
        <5> QED BY <4>2, <5>1 DEF OrderInv, HandoffIsQuiet
      <4> QED BY <4>1, <4>2
    <3>2. ASSUME socket[Client] \in handoff \cup {k}, alive[socket[Client]]
          PROVE  isPaused[Client] \/ (isReconnecting[Client] /\ wire'[socket[Client]][Client] = Answer)
      <4>1. CASE socket[Client] = k
        BY <1>3, <2>1, <3>2, <4>1 DEF answer
      <4>2. CASE socket[Client] \in handoff /\ socket[Client] # k
        <5>1. wire'[socket[Client]][Client] = wire[socket[Client]][Client]
          BY <1>0, <2>1, <4>2
        <5> QED BY <3>2, <4>2, <5>1 DEF OrderInv, HandoffIsQuiet
      <4> QED BY <3>2, <4>1, <4>2
    <3> QED BY <1>9, <3>1, <3>2 DEF OrderInv, HandoffIsQuiet
  <2>10. ASSUME NEW j \in Sockets, Unanswered(j), j # k PROVE Unanswered(j)'
    BY <1>9, <2>1, <2>10 DEF Unanswered
  <2>11. RequestsAreFirst'
    <3>1. ASSUME NEW j \in Sockets, wire'[j][Server] # <<>>
          PROVE  /\ Tail(wire'[j][Server]) \in Seq(NotRequest)
                 /\ Head(wire'[j][Server]) = ConnectionType => Unanswered(j)' /\ wire'[j][Server] \in Seq(QuietMessage)
      <4>1. CASE j = k
        <5>1. Tail(wire'[k][Server]) \in Seq(NotRequest) /\ Head(wire'[k][Server]) \in NotRequest
          BY <1>2, <2>1, <3>1, <4>1, TailType
        <5> QED BY <4>1, <5>1 DEF NotRequest
      <4>2. CASE j # k
        BY <2>1, <2>10, <3>1, <4>2 DEF OrderInv, RequestsAreFirst
      <4> QED BY <4>1, <4>2
    <3>2. ASSUME writerData[Client] # <<>>, Head(writerData[Client]) = ConnectionType
          PROVE  Unanswered(socket[Client])' /\ wire'[socket[Client]][Server] = <<>>
      <4>1. Unanswered(socket[Client]) /\ wire[socket[Client]][Server] = <<>> /\ socket[Client] \in Sockets
        BY <1>0, <3>2 DEF OrderInv, RequestsAreFirst
      <4>2. socket[Client] # k
        BY <1>1, <4>1
      <4> QED BY <1>9, <2>1, <2>10, <4>1, <4>2 DEF Unanswered
    <3> QED BY <1>9, <3>1, <3>2 DEF OrderInv, RequestsAreFirst
  <2> QED BY <2>2, <2>3, <2>6, <2>7, <2>8, <2>9, <2>11 DEF OrderInv
<1>10. CASE ~ExtHost /\ handoff' = handoff /\ wire' = replied(Abandoned(Server)) /\ ServerMoves(k)
  <2>1. Abandoned(Server) \in [Sockets -> [Ends -> Seq(ProtocolMessage)]]
    BY AbandonedOK DEF WireOK
  <2>2. Abandoned(Server)[k][Client] = <<>>
    <3>1. Abandoned(Server)[k][Client] = Flushed(Server)[k][Client]
      BY AbandonedIs
    <3>2. Flushed(Server)[k][Client] = <<>>
      BY <1>2, FlushedOrder
    <3> QED BY <3>1, <3>2
  <2>3. /\ wire'[k][Server] = Tail(q) /\ wire'[k][Client] = answer
        /\ wire' \in [Sockets -> [Ends -> Seq(ProtocolMessage)]]
        /\ \A j \in Sockets, f \in Ends : j # k => wire'[j][f] = Abandoned(Server)[j][f]
    BY <1>7, <1>10, <2>1, <2>2
  <2> HIDE DEF answer
  <2>4. handoff = {}
    BY <1>10 DEF OrderInv, HandoffIsQuiet
  <2>5. ASSUME NEW f \in Ends PROVE wire'[k][f] \in Seq(RoutineMessage) /\ GapFree(wire'[k][f], incomingMsgId[f])
    BY <1>0, <1>5, <1>6, <2>3
  <2>6. ASSUME socket[Client] = k
        PROVE  (alive[k] => GapFree(Line(Client)', incomingMsgId[Server])) /\ isReconnecting[Client]
    <3>1. socket'[Client] = k /\ writerData'[Client] = writerData[Client]
      BY <1>0, <1>10, <2>6 DEF ServerMoves
    <3> QED BY <1>1, <1>3, <1>4, <2>3, <2>6, <3>1, TailLine
  <2>7. /\ AllRoutine' /\ WiresGapFree' /\ LinesGapFree' /\ LinesComplete' /\ UnopenedIsUnused'
        /\ socket'[Client] = socket[Client] /\ socket'[Server] = k
        /\ isReconnecting'[Client] = isReconnecting[Client]
        /\ writerData'[Client] = writerData[Client]
        /\ \A j \in Sockets \ {k} : Unanswered(j) => wire'[j][Client] = <<>>
        /\ \A j \in Sockets \ {k} : wire'[j][Server] # <<>> =>
             /\ Tail(wire'[j][Server]) \in Seq(NotRequest)
             /\ Head(wire'[j][Server]) = ConnectionType => Unanswered(j) /\ wire'[j][Server] \in Seq(QuietMessage)
        /\ socket[Client] # k /\ wire[socket[Client]][Server] = <<>> => wire'[socket[Client]][Server] = <<>>
    BY <1>3, <1>10, <2>3, <2>5, <2>6, ServerMovesEffect
  <2>8. HandoffIsQuiet'
    BY <1>10, <2>4, <2>7 DEF OrderInv, HandoffIsQuiet
  <2>9. ASSUME NEW j \in Sockets, Unanswered(j), j # k PROVE Unanswered(j)'
    <3>1. j = socket[Client] => isReconnecting[Client]
      BY <2>9 DEF Unanswered
    <3> QED BY <1>10, <2>4, <2>7, <2>9, <3>1 DEF Unanswered
  <2>10. RequestsAreFirst'
    <3>1. ASSUME NEW j \in Sockets, wire'[j][Server] # <<>>
          PROVE  /\ Tail(wire'[j][Server]) \in Seq(NotRequest)
                 /\ Head(wire'[j][Server]) = ConnectionType => Unanswered(j)' /\ wire'[j][Server] \in Seq(QuietMessage)
      <4>1. CASE j = k
        <5>1. Tail(wire'[k][Server]) \in Seq(NotRequest) /\ Head(wire'[k][Server]) \in NotRequest
          BY <1>2, <2>3, <3>1, <4>1, TailType
        <5> QED BY <4>1, <5>1 DEF NotRequest
      <4>2. CASE j # k
        BY <2>7, <2>9, <3>1, <4>2
      <4> QED BY <4>1, <4>2
    <3>2. ASSUME writerData[Client] # <<>>, Head(writerData[Client]) = ConnectionType
          PROVE  Unanswered(socket[Client])' /\ wire'[socket[Client]][Server] = <<>>
      <4>1. Unanswered(socket[Client]) /\ wire[socket[Client]][Server] = <<>> /\ socket[Client] \in Sockets
        BY <1>0, <3>2 DEF OrderInv, RequestsAreFirst
      <4>2. socket[Client] # k
        BY <1>1, <4>1
      <4> QED BY <2>7, <2>9, <4>1, <4>2 DEF Unanswered
    <3> QED BY <2>7, <3>1, <3>2 DEF OrderInv, RequestsAreFirst
  <2> QED BY <2>7, <2>8, <2>10 DEF OrderInv
<1> QED BY <1>8, <1>9, <1>10

LEMMA InitOrder == Init => OrderInv
<1> SUFFICES ASSUME Init PROVE OrderInv
  OBVIOUS
<1> USE TwoEnds
<1>1. /\ \A e \in Ends : writerData[e] = <<>> /\ socket[e] = 1 /\ ~isReconnecting[e]
      /\ \A e \in Ends : incomingMsgId[e] = 0 /\ outgoingMsgId[e] = 0
      /\ \A k \in Sockets, e \in Ends : wire[k][e] = <<>>
      /\ opened = 1 /\ handoff = {}
  BY DEF Init
<1>2. 1 \in Sockets
  BY BoundsAssumption DEF Sockets
<1>3. \A e \in Ends : Line(e) = <<>>
  BY <1>1, <1>2, NothingToWrite, ConcatEmptySeq DEF Line
<1>4. AllRoutine /\ WiresGapFree
  BY <1>1, NothingToWrite, EmptyGapFree DEF AllRoutine, WiresGapFree
<1>5. LinesGapFree /\ LinesComplete
  BY <1>1, <1>3, EmptyGapFree DEF LinesGapFree, LinesComplete
<1>6. UnopenedIsUnused /\ HandoffIsQuiet /\ RequestsAreFirst
  BY <1>1, <1>2 DEF UnopenedIsUnused, HandoffIsQuiet, RequestsAreFirst
<1> QED BY <1>4, <1>5, <1>6 DEF OrderInv

LEMMA NextOrder ==
  ASSUME Inv, OrderInv, ~Lossy, [Next]_vars PROVE OrderInv'
<1>1. Step \/ UNCHANGED vars
  BY NextIsStep
<1>2. ASSUME NEW e \in Ends, NEW d \in Payload, send(e, d) PROVE OrderInv'
  BY <1>2, SendOrder
<1>3. ASSUME NEW e \in Ends, writeNow(e) PROVE OrderInv'
  BY <1>3, WriteNowOrder
<1>4. ASSUME NEW e \in Ends, NEW highLoad \in BOOLEAN, onOutgoingAckTimeout(e, highLoad) PROVE OrderInv'
  BY <1>4, IdleOrder DEF onOutgoingAckTimeout, outVars, inVars, writerVars, connVars
<1>5. ASSUME NEW e \in Ends, silence(e) PROVE OrderInv'
  BY <1>5, IdleOrder DEF silence, outVars, inVars, writerVars, connVars
<1>6. ASSUME NEW e \in Ends, onIncomingAckTimeout(e) PROVE OrderInv'
  BY <1>6, OnIncomingAckTimeoutOrder
<1>7. ASSUME NEW e \in Ends, sendKeepAlive(e) PROVE OrderInv'
  BY <1>7, SendKeepAliveOrder
<1>8. ASSUME NEW e \in Ends, replayQuietEnds(e) PROVE OrderInv'
  BY <1>8, IdleOrder DEF replayQuietEnds, outVars, inVars, writerVars, connVars
<1>9. CASE reconnect
  BY <1>9, ReconnectOrder
<1>10. CASE reconnectTimeout
  BY <1>10, IdleOrder DEF reconnectTimeout, outVars, inVars, writerVars
<1>11. CASE serverReconnected
  BY <1>11, ServerReconnectedOrder
<1>12. ASSUME NEW k \in Sockets, acceptReconnection(k) \/ receiveSocket(k) \/ breakSocket(k) PROVE OrderInv'
  BY <1>12, AcceptReconnectionOrder, ReceiveSocketOrder, BreakSocketOrder
<1>13. ASSUME NEW k \in Sockets, NEW e \in Ends, lose(k, e) PROVE OrderInv'
  BY <1>13, LoseOrder
<1>14. CASE UNCHANGED vars
  BY <1>14, IdleOrder DEF vars, outVars, inVars, writerVars, connVars
<1> QED BY <1>1, <1>2, <1>3, <1>4, <1>5, <1>6, <1>7, <1>8, <1>9, <1>10, <1>11, <1>12, <1>13, <1>14,
           ReceiveMessageOrder DEF Step

\* Without a gap in any wire, what is read next is the next message or an old
\* one.
LEMMA OrderIsNoGap ==
  ASSUME Inv, OrderInv PROVE NoGap
<1> SUFFICES ASSUME NEW e \in Ends, Incoming(e) # <<>> PROVE Head(Incoming(e)).id <= incomingMsgId[e] + 1
  BY DEF NoGap
<1>1. socket[e] \in Sockets /\ Incoming(e) \in Seq(ProtocolMessage) /\ incomingMsgId[e] \in Nat
  BY NetTypes DEF Incoming
<1>2. Incoming(e) \in Seq(RoutineMessage) /\ GapFree(Incoming(e), incomingMsgId[e])
  BY <1>1 DEF OrderInv, AllRoutine, WiresGapFree, Incoming
<1>3. Head(Incoming(e)) \in RoutineMessage
  BY <1>2, TailType
<1>4. CASE Head(Incoming(e)).type = "Regular"
  BY <1>1, <1>2, <1>4, GapFreeHead
<1>5. CASE Head(Incoming(e)).id = 0
  BY <1>1, <1>5
<1> QED BY <1>3, <1>4, <1>5 DEF RoutineMessage

\* Unless live sockets lose messages no end ever reads a message whose
\* predecessors it did not get, so the ReplayRequest branch of _receiveMessage
\* is never reached, however sockets break and reconnections interleave with
\* sending, pausing and the hand-over to the extension host.
THEOREM NoGapWithoutLoss ==
  ASSUME ~Lossy PROVE Spec => []NoGap
<1>1. Spec => []Inv
  BY InitInv, NextInv, PTL DEF Spec
<1>2. Inv /\ OrderInv /\ [Next]_vars => OrderInv'
  BY NextOrder
<1>3. Inv /\ OrderInv => NoGap
  BY OrderIsNoGap
<1> QED BY <1>1, <1>2, <1>3, InitOrder, PTL DEF Spec
=============================================================================
