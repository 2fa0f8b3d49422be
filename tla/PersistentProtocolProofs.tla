---------------------- MODULE PersistentProtocolProofs ----------------------
(***************************************************************************)
(* Proofs about PersistentProtocol, for every number of messages and       *)
(* sockets.                                                                *)
(***************************************************************************)
EXTENDS PersistentProtocol, SequenceTheorems, TLAPS

Inv == TypeOK /\ Consistent

-----------------------------------------------------------------------------
(***************************************************************************)
(* Sequences and messages.                                                 *)
(***************************************************************************)
LEMMA PeerType == \A e \in Ends : Peer(e) \in Ends /\ Peer(Peer(e)) = e
BY DEF Ends, Peer, Client, Server

LEMMA SeqMono ==
  ASSUME NEW S, NEW T, S \subseteq T, NEW s \in Seq(S)
  PROVE  s \in Seq(T)
OBVIOUS

LEMMA ConcatType ==
  ASSUME NEW S, NEW s \in Seq(S), NEW t \in Seq(S)
  PROVE  s \o t \in Seq(S)
OBVIOUS

LEMMA TailType ==
  ASSUME NEW S, NEW s \in Seq(S), s # <<>>
  PROVE  Tail(s) \in Seq(S) /\ Head(s) \in S
OBVIOUS

LEMMA SuffixType ==
  ASSUME NEW S, NEW s \in Seq(S), NEW n \in 0 .. Len(s)
  PROVE  /\ SubSeq(s, n + 1, Len(s)) \in Seq(S)
         /\ Len(SubSeq(s, n + 1, Len(s))) = Len(s) - n
         /\ \A i \in 1 .. Len(s) - n : SubSeq(s, n + 1, Len(s))[i] = s[n + i]
<1>1. n + 1 \in Int /\ Len(s) \in Int /\ Len(s) - (n + 1) + 1 = Len(s) - n
  OBVIOUS
<1>2. \A i \in n + 1 .. Len(s) : s[i] \in S
  OBVIOUS
<1> DEFINE r == SubSeq(s, n + 1, Len(s))
<1>3. /\ r \in Seq(S)
      /\ Len(r) = IF n + 1 <= Len(s) THEN Len(s) - (n + 1) + 1 ELSE 0
      /\ \A i \in 1 .. Len(s) - (n + 1) + 1 : r[i] = s[n + 1 + i - 1]
  BY <1>1, <1>2, SubSeqProperties
<1> HIDE DEF r
<1>4. Len(r) = Len(s) - n
  <2>1. CASE n + 1 <= Len(s)
    BY <2>1, <1>1, <1>3
  <2>2. CASE n = Len(s)
    <3>1. ~(n + 1 <= Len(s)) /\ Len(s) - n = 0
      BY <2>2
    <3> QED BY <3>1, <1>3
  <2> QED BY <2>1, <2>2
<1>5. \A i \in 1 .. Len(s) - n : r[i] = s[n + i]
  <2> TAKE i \in 1 .. Len(s) - n
  <2>1. i \in 1 .. Len(s) - (n + 1) + 1 /\ n + 1 + i - 1 = n + i
    BY <1>1
  <2> QED BY <2>1, <1>3
<1> QED BY <1>3, <1>4, <1>5 DEF r

LEMMA MessageProtocol ==
  ASSUME NEW type \in MessageType, NEW id \in Nat, NEW ack \in Nat,
         NEW d \in Payload \cup {"empty", "connectionType", "ok"}
  PROVE  /\ Message(type, id, ack, d) \in ProtocolMessage
         /\ Message(type, id, ack, d).type = type
         /\ Message(type, id, ack, d).id = id
         /\ Message(type, id, ack, d).ack = ack
         /\ Message(type, id, ack, d).data = d
BY DEF Message, ProtocolMessage

\* A message that is not Regular and confirms no more than was received is genuine.
LEMMA PlainMessage ==
  ASSUME TypeOK, NEW e \in Ends, NEW type \in MessageType, type # "Regular",
         NEW ack \in Nat, ack <= incomingMsgId[e],
         NEW d \in {"empty", "connectionType", "ok"}
  PROVE  Message(type, 0, ack, d) \in GenuineMessage(e)
<1>1. Message(type, 0, ack, d) \in ProtocolMessage
  BY DEF Message, ProtocolMessage
<1>2. Message(type, 0, ack, d).type = type /\ Message(type, 0, ack, d).ack = ack
  BY DEF Message
<1> QED BY <1>1, <1>2 DEF GenuineMessage

LEMMA InitInv == Init => Inv
<1> SUFFICES ASSUME Init PROVE Inv OBVIOUS
<1> USE BoundsAssumption DEF Init
<1>a. 1 \in Sockets
  BY DEF Sockets
<1>b. alive \in [Sockets -> BOOLEAN]
  BY Zenon
<1>1. TypeOK
  <2>1. CountersOK /\ HistoryOK /\ BuffersOK
    BY DEF CountersOK, HistoryOK, BuffersOK
  <2>2. TimersOK /\ FlagsOK
    BY Zenon DEF TimersOK, FlagsOK
  <2>3. SocketsOK
    BY <1>a, <1>b DEF SocketsOK
  <2> QED BY <2>1, <2>2, <2>3 DEF TypeOK
<1>2. IdsArePositions /\ AcksAreReceipts /\ ReceivedIsSent
  BY PeerType DEF IdsArePositions, AcksAreReceipts, ReceivedIsSent
<1>3. QueueIsUnconfirmed
  BY DEF QueueIsUnconfirmed
<1>4. WriterIsGenuine /\ WireIsGenuine
  BY DEF WriterIsGenuine, WireIsGenuine
<1> QED BY <1>1, <1>2, <1>3, <1>4 DEF Inv, Consistent
-----------------------------------------------------------------------------
(***************************************************************************)
(* What the parts of an action do.                                         *)
(***************************************************************************)
\* What was sent and received decides what is genuine.
LEMMA LedgerStable ==
  ASSUME Consistent, UNCHANGED <<outgoingMsgId, incomingMsgId, histVars>>
  PROVE  /\ IdsArePositions'
         /\ ReceivedIsSent'
         /\ \A e \in Ends : GenuineMessage(e)' = GenuineMessage(e)
<1>1. IdsArePositions' /\ ReceivedIsSent'
  BY DEF Consistent, histVars, IdsArePositions, ReceivedIsSent
<1>2. \A e \in Ends : GenuineMessage(e)' = GenuineMessage(e)
  BY DEF histVars, GenuineMessage
<1> QED BY <1>1, <1>2

\* A step that leaves ids, queues and histories alone has only its writers and
\* its wires to answer for.
LEMMA QuietStep ==
  ASSUME Consistent, UNCHANGED <<outVars, incomingMsgId, histVars>>,
         \A e \in Ends : writerData'[e] \in Seq(GenuineMessage(e)),
         \A k \in Sockets, e \in Ends : wire'[k][e] \in Seq(GenuineMessage(Peer(e)))
  PROVE  Consistent'
<1>1. UNCHANGED <<outgoingMsgId, incomingMsgId, histVars>>
  BY DEF outVars
<1>2. /\ IdsArePositions'
      /\ ReceivedIsSent'
      /\ \A e \in Ends : GenuineMessage(e)' = GenuineMessage(e)
  BY <1>1, LedgerStable
<1>3. AcksAreReceipts'
  BY DEF outVars, Consistent, AcksAreReceipts
<1>4. QueueIsUnconfirmed'
  BY <1>2 DEF outVars, Consistent, QueueIsUnconfirmed
<1>5. WriterIsGenuine'
  BY <1>2 DEF WriterIsGenuine
<1>6. WireIsGenuine'
  BY <1>2, PeerType DEF WireIsGenuine
<1> QED BY <1>2, <1>3, <1>4, <1>5, <1>6 DEF Consistent

\* Every genuine message is a message.
LEMMA GenuineSeqType == \A e \in Ends : Seq(GenuineMessage(e)) \subseteq Seq(ProtocolMessage)
<1> SUFFICES ASSUME NEW e \in Ends, NEW s \in Seq(GenuineMessage(e))
             PROVE  s \in Seq(ProtocolMessage)
  OBVIOUS
<1>1. GenuineMessage(e) \subseteq ProtocolMessage
  BY DEF GenuineMessage
<1> QED BY <1>1, SeqMono

LEMMA WriteEffect ==
  ASSUME Inv, NEW e \in Ends, NEW ms \in Seq(GenuineMessage(e)), write(e, ms)
  PROVE  /\ writerData' \in [Ends -> Seq(ProtocolMessage)]
         /\ writeNowTimeout' \in [Ends -> BOOLEAN]
         /\ isPaused' = isPaused
         /\ \A f \in Ends : writerData'[f] \in Seq(GenuineMessage(f))
<1>1. /\ writerData \in [Ends -> Seq(ProtocolMessage)]
      /\ writeNowTimeout \in [Ends -> BOOLEAN]
  BY DEF Inv, TypeOK, BuffersOK, TimersOK
<1>2. \A f \in Ends : writerData[f] \in Seq(GenuineMessage(f))
  BY DEF Inv, Consistent, WriterIsGenuine
<1>3. writerData[e] \o ms \in Seq(GenuineMessage(e))
  BY <1>2, ConcatType
<1>4. writerData' = [writerData EXCEPT ![e] = writerData[e] \o ms]
  BY DEF write
<1>5. \A f \in Ends : writerData'[f] \in Seq(GenuineMessage(f))
  BY <1>1, <1>2, <1>3, <1>4
<1>6. writerData' \in [Ends -> Seq(ProtocolMessage)]
  BY <1>1, <1>3, <1>4, GenuineSeqType
<1>7. writeNowTimeout' \in [Ends -> BOOLEAN] /\ isPaused' = isPaused
  BY <1>1 DEF write
<1> QED BY <1>5, <1>6, <1>7

WireOK(w) ==
  /\ w \in [Sockets -> [Ends -> Seq(ProtocolMessage)]]
  /\ \A k \in Sockets, e \in Ends : w[k][e] \in Seq(GenuineMessage(Peer(e)))

LEMMA WireNow ==
  ASSUME Inv PROVE WireOK(wire)
BY DEF Inv, TypeOK, BuffersOK, Consistent, WireIsGenuine, WireOK

\* Putting genuine messages on a wire, or clearing it, keeps it genuine.
LEMMA WireUpdate ==
  ASSUME NEW w, WireOK(w), NEW k \in Sockets, NEW e \in Ends,
         NEW ms \in Seq(GenuineMessage(Peer(e)))
  PROVE  WireOK([w EXCEPT ![k][e] = ms])
<1>1. ms \in Seq(ProtocolMessage)
  BY PeerType, GenuineSeqType
<1>2. [w EXCEPT ![k][e] = ms] \in [Sockets -> [Ends -> Seq(ProtocolMessage)]]
  BY <1>1 DEF WireOK
<1>3. ASSUME NEW j \in Sockets, NEW f \in Ends
      PROVE  [w EXCEPT ![k][e] = ms][j][f] \in Seq(GenuineMessage(Peer(f)))
  BY <1>3 DEF WireOK
<1> QED BY <1>2, <1>3 DEF WireOK

LEMMA FlushedOK ==
  ASSUME Inv, NEW e \in Ends PROVE WireOK(Flushed(e))
<1>1. WireOK(wire)
  BY WireNow
<1>2. socket[e] \in Sockets /\ Peer(e) \in Ends /\ Peer(Peer(e)) = e
  BY PeerType DEF Inv, TypeOK, SocketsOK
<1>3. writerData[e] \in Seq(GenuineMessage(e))
  BY DEF Inv, Consistent, WriterIsGenuine
<1>4. wire[socket[e]][Peer(e)] \o writerData[e] \in Seq(GenuineMessage(Peer(Peer(e))))
  BY <1>1, <1>2, <1>3, ConcatType DEF WireOK
<1> DEFINE full == [wire EXCEPT ![socket[e]][Peer(e)] = wire[socket[e]][Peer(e)] \o writerData[e]]
<1>5. WireOK(full)
  BY <1>1, <1>2, <1>4, WireUpdate
<1>6. Flushed(e) = IF alive[socket[e]] /\ ~isPaused[e] THEN full ELSE wire
  BY DEF Flushed
<1> QED BY <1>1, <1>5, <1>6

LEMMA AbandonedOK ==
  ASSUME Inv, NEW e \in Ends PROVE WireOK(Abandoned(e))
<1>1. WireOK(Flushed(e))
  BY FlushedOK
<1>2. socket[e] \in Sockets
  BY DEF Inv, TypeOK, SocketsOK
<1>3. <<>> \in Seq(GenuineMessage(Peer(e)))
  OBVIOUS
<1> QED BY <1>1, <1>2, <1>3, WireUpdate DEF Abandoned

-----------------------------------------------------------------------------
(***************************************************************************)
(* Acknowledgements.                                                       *)
(***************************************************************************)
\* q is what remains of e's queue when everything up to a is confirmed.
QueueAfter(e, q, a) ==
  /\ a \in Nat
  /\ a <= incomingMsgId[Peer(e)]
  /\ Len(q) = outgoingMsgId[e] - a
  /\ q \in Seq(GenuineMessage(e))
  /\ \A i \in 1 .. Len(q) : q[i].type = "Regular" /\ q[i].id = a + i

LEMMA QueueNow ==
  ASSUME Inv, NEW e \in Ends
  PROVE  QueueAfter(e, outgoingUnackMsg[e], outgoingAckId[e])
BY PeerType DEF Inv, TypeOK, CountersOK, Consistent, AcksAreReceipts, QueueIsUnconfirmed, QueueAfter

\* Since the ids in the queue are consecutive, exactly ack - a messages go.
LEMMA UnacknowledgedIs ==
  ASSUME NEW S, NEW q \in Seq(S), NEW a \in Nat, NEW ack \in Nat,
         a <= ack, ack <= a + Len(q),
         \A i \in 1 .. Len(q) : q[i].id = a + i
  PROVE  Unacknowledged(q, ack) = SubSeq(q, ack - a + 1, Len(q))
<1> DEFINE P(i) == /\ \A j \in 1 .. i : q[j].id <= ack
                   /\ i < Len(q) => q[i + 1].id > ack
<1>1. ack - a \in 0 .. Len(q) /\ P(ack - a)
  OBVIOUS
<1>2. ASSUME NEW i \in 0 .. Len(q), P(i) PROVE i = ack - a
  <2>1. CASE i < ack - a
    BY <2>1, <1>2
  <2>2. CASE i > ack - a
    <3>1. i \in 1 .. i /\ i \in 1 .. Len(q)
      BY <2>2
    <3> QED BY <3>1, <2>2, <1>2
  <2> QED BY <2>1, <2>2
<1>3. (CHOOSE i \in 0 .. Len(q) : P(i)) = ack - a
  BY <1>1, <1>2
<1> QED BY <1>3 DEF Unacknowledged

LEMMA AckEffect ==
  ASSUME Inv, NEW e \in Ends, NEW msg \in GenuineMessage(Peer(e))
  PROVE  QueueAfter(e, UnackAfter(e, msg), AckIdAfter(e, msg))
<1> DEFINE q == outgoingUnackMsg[e]
           a == outgoingAckId[e]
<1>1. QueueAfter(e, q, a)
  BY QueueNow
<1>2. msg.ack \in Nat /\ msg.ack <= incomingMsgId[Peer(e)]
  BY DEF GenuineMessage, ProtocolMessage
<1>3. CASE ~(msg.ack > a)
  BY <1>1, <1>3 DEF UnackAfter, AckIdAfter
<1>4. CASE msg.ack > a
  <2>1. UnackAfter(e, msg) = Unacknowledged(q, msg.ack) /\ AckIdAfter(e, msg) = msg.ack
    BY <1>4 DEF UnackAfter, AckIdAfter
  <2>2. /\ incomingMsgId[Peer(e)] \in Nat
        /\ outgoingMsgId[e] \in Nat
        /\ incomingMsgId[Peer(e)] <= outgoingMsgId[e]
    BY PeerType DEF Inv, TypeOK, CountersOK, Consistent, AcksAreReceipts
  <2> DEFINE G == GenuineMessage(e)
             n == msg.ack - a
  <2>3. /\ q \in Seq(G)
        /\ a \in Nat
        /\ Len(q) = outgoingMsgId[e] - a
        /\ \A i \in 1 .. Len(q) : q[i].type = "Regular" /\ q[i].id = a + i
    BY <1>1 DEF QueueAfter
  <2> HIDE DEF G, q, a
  <2>4. /\ n \in Nat /\ n >= 1 /\ n <= Len(q)
        /\ msg.ack <= a + Len(q)
    BY <1>2, <1>4, <2>2, <2>3
  <2> DEFINE r == SubSeq(q, n + 1, Len(q))
  <2>5. Unacknowledged(q, msg.ack) = r
    <3>1. \A i \in 1 .. Len(q) : q[i].id = a + i
      BY <2>3
    <3>2. a <= msg.ack
      BY <1>2, <1>4, <2>3
    <3> QED BY <1>2, <2>3, <2>4, <3>1, <3>2, UnacknowledgedIs
  <2> n \in 0 .. Len(q)
    BY <2>3, <2>4
  <2> HIDE DEF n
  <2>6. /\ r \in Seq(G) /\ Len(r) = Len(q) - n
        /\ \A i \in 1 .. Len(q) - n : r[i] = q[n + i]
    BY <2>3, SuffixType
  <2>7. \A i \in 1 .. Len(r) : r[i] = q[n + i]
    BY <2>6
  <2>8. \A i \in 1 .. Len(r) : r[i].type = "Regular" /\ r[i].id = msg.ack + i
    <3> TAKE i \in 1 .. Len(r)
    <3>1. n + i \in 1 .. Len(q)
      BY <2>3, <2>4, <2>6
    <3>2. r[i].type = "Regular" /\ r[i].id = a + (n + i)
      BY <3>1, <2>3, <2>7
    <3>3. a + (n + i) = msg.ack + i
      BY <1>2, <2>3 DEF n
    <3> QED BY <3>2, <3>3
  <2>9. Len(r) = outgoingMsgId[e] - msg.ack
    BY <2>2, <2>3, <2>6, <1>2 DEF n
  <2> HIDE DEF r
  <2> QED BY <1>2, <2>1, <2>5, <2>6, <2>8, <2>9 DEF QueueAfter, G
<1> QED BY <1>3, <1>4

\* The state after e has read msg: its wire is shorter and its queue is trimmed.
LEMMA ReceiveEffect ==
  ASSUME Inv, NEW e \in Ends, NEW msg, receive(e, msg)
  PROVE  /\ msg \in GenuineMessage(Peer(e))
         /\ WireOK(wire')
         /\ outgoingUnackMsg' \in [Ends -> Seq(ProtocolMessage)]
         /\ outgoingAckId' \in [Ends -> Nat]
         /\ \A f \in Ends : QueueAfter(f, outgoingUnackMsg'[f], outgoingAckId'[f])
<1>1. socket[e] \in Sockets
  BY DEF Inv, TypeOK, SocketsOK
<1>2. wire[socket[e]][e] \in Seq(GenuineMessage(Peer(e))) /\ wire[socket[e]][e] # <<>>
  BY <1>1, WireNow DEF WireOK, receive, Incoming
<1>3. msg \in GenuineMessage(Peer(e)) /\ Tail(wire[socket[e]][e]) \in Seq(GenuineMessage(Peer(e)))
  BY <1>2, TailType DEF receive, Incoming
<1>4. wire' = [wire EXCEPT ![socket[e]][e] = Tail(wire[socket[e]][e])]
  BY DEF receive
<1>5. WireOK(wire')
  BY <1>1, <1>3, <1>4, WireNow, WireUpdate
<1>6. QueueAfter(e, UnackAfter(e, msg), AckIdAfter(e, msg))
  BY <1>3, AckEffect
<1>7. /\ outgoingUnackMsg' = [outgoingUnackMsg EXCEPT ![e] = UnackAfter(e, msg)]
      /\ outgoingAckId' = [outgoingAckId EXCEPT ![e] = AckIdAfter(e, msg)]
  BY DEF receive
<1>8. /\ outgoingUnackMsg \in [Ends -> Seq(ProtocolMessage)]
      /\ outgoingAckId \in [Ends -> Nat]
  BY DEF Inv, TypeOK, BuffersOK, CountersOK
<1>9. UnackAfter(e, msg) \in Seq(ProtocolMessage) /\ AckIdAfter(e, msg) \in Nat
  BY <1>6, GenuineSeqType DEF QueueAfter
<1>10. \A f \in Ends : QueueAfter(f, outgoingUnackMsg'[f], outgoingAckId'[f])
  BY <1>6, <1>7, <1>8, QueueNow
<1> QED BY <1>3, <1>5, <1>7, <1>8, <1>9, <1>10

-----------------------------------------------------------------------------
(***************************************************************************)
(* One lemma per action.                                                   *)
(***************************************************************************)
\* The shape of most steps: the new state is well typed, and the messages that
\* its writers and wires hold are genuine in the old state.
LEMMA QuietStepInv ==
  ASSUME Inv, UNCHANGED <<outVars, incomingMsgId, histVars>>,
         CountersOK', TimersOK', FlagsOK', SocketsOK',
         writerData' \in [Ends -> Seq(ProtocolMessage)],
         \A e \in Ends : writerData'[e] \in Seq(GenuineMessage(e)),
         WireOK(wire')
  PROVE  Inv'
<1>1. HistoryOK'
  BY DEF Inv, TypeOK, HistoryOK, histVars
<1>2. BuffersOK'
  BY DEF Inv, TypeOK, BuffersOK, WireOK, outVars
<1>3. Consistent'
  BY QuietStep DEF Inv, WireOK
<1> QED BY <1>1, <1>2, <1>3 DEF Inv, TypeOK

LEMMA WriterNow ==
  ASSUME Inv
  PROVE  /\ writerData \in [Ends -> Seq(ProtocolMessage)]
         /\ \A e \in Ends : writerData[e] \in Seq(GenuineMessage(e))
BY DEF Inv, TypeOK, BuffersOK, Consistent, WriterIsGenuine

LEMMA WriteNowInv ==
  ASSUME Inv, NEW e \in Ends, writeNow(e) PROVE Inv'
<1>1. UNCHANGED <<outVars, incomingMsgId, histVars>>
  BY DEF writeNow, inVars
<1>2. CountersOK' /\ SocketsOK'
  BY DEF Inv, TypeOK, CountersOK, SocketsOK, writeNow, inVars, outVars
<1>3. TimersOK' /\ FlagsOK'
  BY DEF Inv, TypeOK, TimersOK, FlagsOK, writeNow, outTimerVars, inTimerVars, connVars
<1>4. WireOK(wire')
  BY FlushedOK DEF writeNow
<1>5. writerData' = [writerData EXCEPT ![e] = IF isPaused[e] THEN writerData[e] ELSE <<>>]
  BY DEF writeNow
<1>6. /\ writerData' \in [Ends -> Seq(ProtocolMessage)]
      /\ \A f \in Ends : writerData'[f] \in Seq(GenuineMessage(f))
  BY <1>5, WriterNow
<1> QED BY <1>1, <1>2, <1>3, <1>4, <1>6, QuietStepInv

LEMMA TimerOnlyInv ==
  ASSUME Inv, UNCHANGED <<outVars, inVars, writerData, isPaused, netVars, connVars, histVars>>,
         TimersOK'
  PROVE  Inv'
<1>1. UNCHANGED <<outVars, incomingMsgId, histVars>>
  BY DEF inVars
<1>2. CountersOK' /\ SocketsOK' /\ FlagsOK'
  BY DEF Inv, TypeOK, CountersOK, SocketsOK, FlagsOK, inVars, outVars, netVars, connVars
<1>3. WireOK(wire')
  BY WireNow DEF netVars
<1> QED BY <1>1, <1>2, <1>3, WriterNow, QuietStepInv

LEMMA OnOutgoingAckTimeoutInv ==
  ASSUME Inv, NEW e \in Ends, NEW highLoad \in BOOLEAN, onOutgoingAckTimeout(e, highLoad)
  PROVE  Inv'
<1>1. TimersOK'
  BY DEF Inv, TypeOK, TimersOK, FlagsOK, onOutgoingAckTimeout, inTimerVars, writerVars
<1> QED BY <1>1, TimerOnlyInv DEF onOutgoingAckTimeout, writerVars

LEMMA SilenceInv ==
  ASSUME Inv, NEW e \in Ends, silence(e) PROVE Inv'
<1>1. TimersOK'
  BY DEF Inv, TypeOK, TimersOK, silence, inTimerVars, writerVars
<1> QED BY <1>1, TimerOnlyInv DEF silence, writerVars

LEMMA ReplayQuietEndsInv ==
  ASSUME Inv, NEW e \in Ends, replayQuietEnds(e) PROVE Inv'
<1>1. TimersOK'
  BY DEF Inv, TypeOK, TimersOK, replayQuietEnds, inTimerVars, outTimerVars, writerVars
<1> QED BY <1>1, TimerOnlyInv DEF replayQuietEnds, writerVars

LEMMA SendKeepAliveInv ==
  ASSUME Inv, NEW e \in Ends, sendKeepAlive(e) PROVE Inv'
<1> DEFINE msg == Message("KeepAlive", 0, incomingMsgId[e], "empty")
<1>1. incomingMsgId[e] \in Nat
  BY DEF Inv, TypeOK, CountersOK
<1>2. msg \in GenuineMessage(e)
  BY <1>1, PlainMessage DEF Inv, MessageType
<1> HIDE DEF msg
<1>3. <<msg>> \in Seq(GenuineMessage(e))
  BY <1>2
<1>4. write(e, <<msg>>)
  BY DEF sendKeepAlive, msg
<1>5. /\ writerData' \in [Ends -> Seq(ProtocolMessage)]
      /\ writeNowTimeout' \in [Ends -> BOOLEAN]
      /\ isPaused' = isPaused
      /\ \A f \in Ends : writerData'[f] \in Seq(GenuineMessage(f))
  BY <1>3, <1>4, WriteEffect
<1>6. UNCHANGED <<outVars, incomingMsgId, histVars>>
  BY DEF sendKeepAlive
<1>7. CountersOK' /\ SocketsOK'
  BY <1>1 DEF Inv, TypeOK, CountersOK, SocketsOK, sendKeepAlive, outVars, netVars
<1>8. TimersOK' /\ FlagsOK'
  BY <1>5 DEF Inv, TypeOK, TimersOK, FlagsOK, sendKeepAlive, outTimerVars, inTimerVars, connVars
<1>9. WireOK(wire')
  BY WireNow DEF sendKeepAlive, netVars
<1> QED BY <1>5, <1>6, <1>7, <1>8, <1>9, QuietStepInv

LEMMA OnIncomingAckTimeoutInv ==
  ASSUME Inv, NEW e \in Ends, onIncomingAckTimeout(e) PROVE Inv'
<1> DEFINE msg == Message("Ack", 0, incomingMsgId[e], "empty")
           pending == incomingMsgId[e] > incomingAckId[e]
<1>1. incomingMsgId[e] \in Nat
  BY DEF Inv, TypeOK, CountersOK
<1>2. msg \in GenuineMessage(e)
  BY <1>1, PlainMessage DEF Inv, MessageType
<1> HIDE DEF msg
<1>3. <<msg>> \in Seq(GenuineMessage(e))
  BY <1>2
<1>4. /\ UNCHANGED <<outVars, incomingMsgId, histVars>>
      /\ UNCHANGED <<outTimerVars, replayQuiet, netVars, connVars>>
      /\ incomingFresh' = [incomingFresh EXCEPT ![e] = FALSE]
  BY DEF onIncomingAckTimeout
<1>5. \/ /\ write(e, <<msg>>)
         /\ incomingAckTimeout' = [incomingAckTimeout EXCEPT ![e] = FALSE]
         /\ incomingAckId' = [incomingAckId EXCEPT ![e] = incomingMsgId[e]]
      \/ UNCHANGED <<incomingAckTimeout, incomingAckId, writerVars>>
      \/ /\ incomingAckTimeout' = [incomingAckTimeout EXCEPT ![e] = FALSE]
         /\ UNCHANGED <<incomingAckId, writerVars>>
  BY DEF onIncomingAckTimeout, msg
<1>6. /\ writerData' \in [Ends -> Seq(ProtocolMessage)]
      /\ writeNowTimeout' \in [Ends -> BOOLEAN]
      /\ isPaused' = isPaused
      /\ \A f \in Ends : writerData'[f] \in Seq(GenuineMessage(f))
  <2>1. CASE write(e, <<msg>>)
    BY <2>1, <1>3, WriteEffect
  <2>2. CASE UNCHANGED writerVars
    BY <2>2, WriterNow DEF writerVars, Inv, TypeOK, TimersOK
  <2> QED BY <2>1, <2>2, <1>5
<1>7. CountersOK' /\ SocketsOK'
  BY <1>1, <1>4, <1>5 DEF Inv, TypeOK, CountersOK, SocketsOK, outVars, netVars
<1>8. incomingAckTimeout' \in [Ends -> BOOLEAN]
  BY <1>5 DEF Inv, TypeOK, TimersOK
<1>9. TimersOK' /\ FlagsOK'
  BY <1>4, <1>6, <1>8 DEF Inv, TypeOK, TimersOK, FlagsOK, outTimerVars, connVars
<1>10. WireOK(wire')
  BY <1>4, WireNow DEF netVars
<1> QED BY <1>4, <1>6, <1>7, <1>9, <1>10, QuietStepInv

\* _recvAckCheck changes timers only.
LEMMA RecvAckCheckType ==
  ASSUME TimersOK, NEW e \in Ends, NEW reconnecting, NEW unacked,
         NEW stale, recvAckCheck(e, reconnecting, unacked, stale)
  PROVE  /\ outgoingAckTimeout' \in [Ends -> BOOLEAN]
         /\ onSocketTimeout' \in [Ends -> BOOLEAN]
         /\ outgoingStale' \in [Ends -> BOOLEAN]
BY DEF TimersOK, recvAckCheck

\* What is genuine stays genuine when more is sent or received.
LEMMA GenuineGrows ==
  ASSUME CountersOK, CountersOK', NEW e \in Ends,
         incomingMsgId[e] <= incomingMsgId'[e], outgoingMsgId[e] <= outgoingMsgId'[e],
         \A i \in 1 .. outgoingMsgId[e] : sent'[e][i] = sent[e][i]
  PROVE  /\ GenuineMessage(e) \subseteq GenuineMessage(e)'
         /\ \A s \in Seq(GenuineMessage(e)) : s \in Seq(GenuineMessage(e)')
<1>1. GenuineMessage(e) \subseteq GenuineMessage(e)'
  <2> SUFFICES ASSUME NEW msg \in GenuineMessage(e) PROVE msg \in GenuineMessage(e)'
    OBVIOUS
  <2>1. /\ msg \in ProtocolMessage
        /\ msg.ack <= incomingMsgId[e]
        /\ msg.type = "Regular" => /\ msg.id \in 1 .. outgoingMsgId[e]
                                   /\ msg.data = sent[e][msg.id]
    BY DEF GenuineMessage
  <2>2. msg.ack \in Nat /\ msg.id \in Nat
    BY <2>1 DEF ProtocolMessage
  <2>3. msg.ack <= incomingMsgId'[e]
    BY <2>1, <2>2 DEF CountersOK
  <2>4. msg.type = "Regular" => /\ msg.id \in 1 .. outgoingMsgId'[e]
                                /\ msg.data = sent'[e][msg.id]
    BY <2>1, <2>2 DEF CountersOK
  <2> QED BY <2>1, <2>3, <2>4 DEF GenuineMessage
<1> QED BY <1>1, SeqMono

LEMMA SendInv ==
  ASSUME Inv, NEW e \in Ends, NEW d \in Payload, send(e, d) PROVE Inv'
<1> DEFINE n == outgoingMsgId[e] + 1
           msg == Message("Regular", n, incomingMsgId[e], d)
<1>1. CountersOK /\ TimersOK /\ FlagsOK /\ BuffersOK /\ SocketsOK /\ HistoryOK /\ Consistent
  BY DEF Inv, TypeOK
<1>2. incomingMsgId[e] \in Nat /\ outgoingMsgId[e] \in Nat /\ n \in Nat
  BY <1>1 DEF CountersOK
<1>3. /\ msg \in ProtocolMessage
      /\ msg.type = "Regular" /\ msg.id = n
      /\ msg.ack = incomingMsgId[e] /\ msg.data = d
  BY <1>2, MessageProtocol DEF MessageType
<1>4. /\ outgoingMsgId' = [outgoingMsgId EXCEPT ![e] = n]
      /\ incomingAckId' = [incomingAckId EXCEPT ![e] = incomingMsgId[e]]
      /\ outgoingUnackMsg' = [outgoingUnackMsg EXCEPT ![e] = Append(outgoingUnackMsg[e], msg)]
      /\ sent' = [sent EXCEPT ![e] = Append(sent[e], d)]
      /\ UNCHANGED <<outgoingAckId, incomingMsgId, inTimerVars, replayQuiet, netVars,
                     connVars, received>>
      /\ \/ UNCHANGED <<writerVars, outTimerVars>>
         \/ /\ write(e, <<msg>>)
            /\ recvAckCheck(e, isReconnecting[e], TRUE,
                            outgoingStale[e] /\ outgoingUnackMsg[e] # <<>>)
  BY DEF send
<1> HIDE DEF msg, n
<1>5. CountersOK'
  BY <1>1, <1>2, <1>4 DEF CountersOK
<1>6. HistoryOK' /\ SocketsOK'
  BY <1>1, <1>4 DEF HistoryOK, SocketsOK, netVars
<1>7. TimersOK'
  <2>1. CASE UNCHANGED <<writerVars, outTimerVars>>
    BY <2>1, <1>1, <1>4 DEF TimersOK, writerVars, outTimerVars, inTimerVars
  <2>2. CASE /\ write(e, <<msg>>)
             /\ recvAckCheck(e, isReconnecting[e], TRUE,
                             outgoingStale[e] /\ outgoingUnackMsg[e] # <<>>)
    <3>1. isReconnecting[e] \in BOOLEAN
      BY <1>1 DEF FlagsOK
    <3>2. /\ outgoingAckTimeout' \in [Ends -> BOOLEAN]
          /\ onSocketTimeout' \in [Ends -> BOOLEAN]
          /\ outgoingStale' \in [Ends -> BOOLEAN]
      BY <2>2, <3>1, <1>1, RecvAckCheckType
    <3>3. writeNowTimeout' \in [Ends -> BOOLEAN]
      BY <2>2, <1>1 DEF write, TimersOK
    <3> QED BY <3>2, <3>3, <1>1, <1>4 DEF TimersOK, inTimerVars
  <2> QED BY <1>4, <2>1, <2>2
<1>8. FlagsOK'
  BY <1>1, <1>4 DEF FlagsOK, write, writerVars, connVars
<1>9. /\ Len(sent[e]) = outgoingMsgId[e]
      /\ \A f \in Ends : Len(sent[f]) = outgoingMsgId[f]
      /\ \A f \in Ends : sent[f] \in Seq(Payload)
  BY <1>1 DEF Consistent, IdsArePositions, HistoryOK
<1>10. /\ Len(sent'[e]) = n /\ sent'[e][n] = d
       /\ \A f \in Ends : \A i \in 1 .. Len(sent[f]) : sent'[f][i] = sent[f][i]
  BY <1>1, <1>2, <1>4, <1>9 DEF HistoryOK, n
<1>11. \A f \in Ends : /\ outgoingMsgId[f] <= outgoingMsgId'[f]
                       /\ incomingMsgId[f] <= incomingMsgId'[f]
  BY <1>1, <1>4, <1>2 DEF CountersOK, n
<1>12. ASSUME NEW f \in Ends
       PROVE  \A s \in Seq(GenuineMessage(f)) : s \in Seq(GenuineMessage(f)')
  BY <1>1, <1>5, <1>9, <1>10, <1>11, GenuineGrows
<1>13. msg \in GenuineMessage(e)'
  <2>1. incomingMsgId'[e] = incomingMsgId[e] /\ outgoingMsgId'[e] = n
    BY <1>1, <1>4 DEF CountersOK
  <2>2. n \in 1 .. n
    BY <1>2 DEF n
  <2> QED BY <1>2, <1>3, <1>10, <2>1, <2>2 DEF GenuineMessage
<1>14. IdsArePositions' /\ ReceivedIsSent'
  <2>1. IdsArePositions'
    BY <1>1, <1>4, <1>9, <1>10 DEF Consistent, IdsArePositions, CountersOK, HistoryOK
  <2>2. ReceivedIsSent'
    <3> SUFFICES ASSUME NEW f \in Ends, NEW i \in 1 .. Len(received[f])
                 PROVE  received[f][i] = sent'[Peer(f)][i]
      BY <1>4 DEF ReceivedIsSent
    <3>1. received[f][i] = sent[Peer(f)][i]
      BY <1>1 DEF Consistent, ReceivedIsSent
    <3>2. Peer(f) \in Ends /\ Peer(Peer(f)) = f
      BY PeerType
    <3>3. Len(received[f]) <= Len(sent[Peer(f)])
      BY <1>1, <3>2 DEF Consistent, IdsArePositions, AcksAreReceipts
    <3>4. i \in 1 .. Len(sent[Peer(f)])
      BY <3>2, <3>3, <1>1, <1>9 DEF HistoryOK
    <3> QED BY <1>10, <3>1, <3>2, <3>4
  <2> QED BY <2>1, <2>2
<1>15. AcksAreReceipts'
  BY <1>1, <1>4, <1>5, <1>11, PeerType DEF Consistent, AcksAreReceipts, CountersOK
<1>16. QueueIsUnconfirmed'
  <2> SUFFICES ASSUME NEW f \in Ends
               PROVE  /\ Len(outgoingUnackMsg'[f]) = outgoingMsgId'[f] - outgoingAckId[f]
                      /\ outgoingUnackMsg'[f] \in Seq(GenuineMessage(f)')
                      /\ \A i \in 1 .. Len(outgoingUnackMsg'[f]) :
                           /\ outgoingUnackMsg'[f][i].type = "Regular"
                           /\ outgoingUnackMsg'[f][i].id = outgoingAckId[f] + i
    BY <1>4 DEF QueueIsUnconfirmed
  <2> DEFINE q == outgoingUnackMsg[f]
             a == outgoingAckId[f]
  <2>1. /\ Len(q) = outgoingMsgId[f] - a
        /\ q \in Seq(GenuineMessage(f)')
        /\ \A i \in 1 .. Len(q) : q[i].type = "Regular" /\ q[i].id = a + i
    BY <1>1, <1>12 DEF Consistent, QueueIsUnconfirmed
  <2>2. CASE f # e
    BY <2>1, <2>2, <1>1, <1>4 DEF CountersOK, BuffersOK
  <2>3. CASE f = e
    <3>1. a \in Nat /\ outgoingMsgId'[f] = n /\ outgoingUnackMsg'[f] = Append(q, msg)
      BY <2>3, <1>1, <1>4 DEF CountersOK, BuffersOK
    <3> DEFINE r == Append(q, msg)
    <3> HIDE DEF q, a
    <3>2. /\ r \in Seq(GenuineMessage(f)') /\ Len(r) = Len(q) + 1
          /\ \A i \in 1 .. Len(q) : r[i] = q[i]
          /\ r[Len(q) + 1] = msg
      BY <2>1, <2>3, <1>13
    <3>3. Len(q) + 1 = n - a /\ a + (Len(q) + 1) = n
      BY <2>1, <2>3, <3>1, <1>2 DEF n
    <3> HIDE DEF r
    <3>4. \A i \in 1 .. Len(r) : r[i].type = "Regular" /\ r[i].id = a + i
      <4> TAKE i \in 1 .. Len(r)
      <4>1. CASE i \in 1 .. Len(q)
        BY <4>1, <2>1, <3>2
      <4>2. CASE i = Len(q) + 1
        BY <4>2, <3>2, <3>3, <1>3
      <4>3. i \in 1 .. Len(q) \/ i = Len(q) + 1
        BY <2>1, <3>2
      <4> QED BY <4>1, <4>2, <4>3
    <3> QED BY <3>1, <3>2, <3>3, <3>4 DEF r, a
  <2> QED BY <2>2, <2>3
<1>17. WriterIsGenuine'
  <2> SUFFICES ASSUME NEW f \in Ends PROVE writerData'[f] \in Seq(GenuineMessage(f)')
    BY DEF WriterIsGenuine
  <2>1. writerData[f] \in Seq(GenuineMessage(f)')
    BY <1>1, <1>12 DEF Consistent, WriterIsGenuine
  <2>2. CASE UNCHANGED writerVars
    BY <2>1, <2>2 DEF writerVars
  <2>3. CASE writerData' = [writerData EXCEPT ![e] = writerData[e] \o <<msg>>]
    <3>1. <<msg>> \in Seq(GenuineMessage(e)')
      BY <1>13
    <3>2. f = e => writerData[f] \o <<msg>> \in Seq(GenuineMessage(f)')
      BY <2>1, <3>1, ConcatType
    <3> QED BY <2>1, <2>3, <3>2, <1>1 DEF BuffersOK
  <2> QED BY <1>4, <2>2, <2>3 DEF write
<1>18. WireIsGenuine'
  <2> SUFFICES ASSUME NEW k \in Sockets, NEW f \in Ends
               PROVE  wire[k][f] \in Seq(GenuineMessage(Peer(f))')
    BY <1>4 DEF WireIsGenuine, netVars
  <2> QED BY <1>1, <1>12, PeerType DEF Consistent, WireIsGenuine
<1>19. BuffersOK'
  <2>1. outgoingUnackMsg' \in [Ends -> Seq(ProtocolMessage)]
    BY <1>1, <1>3, <1>4 DEF BuffersOK
  <2>2. <<msg>> \in Seq(ProtocolMessage)
    BY <1>3
  <2>3. writerData' \in [Ends -> Seq(ProtocolMessage)]
    <3>1. writerData[e] \o <<msg>> \in Seq(ProtocolMessage)
      BY <1>1, <2>2, ConcatType DEF BuffersOK
    <3>2. CASE UNCHANGED writerVars
      BY <3>2, <1>1 DEF BuffersOK, writerVars
    <3>3. CASE write(e, <<msg>>)
      BY <3>1, <3>3, <1>1 DEF BuffersOK, write
    <3> QED BY <3>2, <3>3, <1>4
  <2> QED BY <2>1, <2>3, <1>1, <1>4 DEF BuffersOK, netVars
<1>20. Consistent'
  BY <1>14, <1>15, <1>16, <1>17, <1>18 DEF Consistent
<1>21. TypeOK'
  BY <1>5, <1>6, <1>7, <1>8, <1>19 DEF TypeOK
<1> QED BY <1>20, <1>21 DEF Inv

\* A message was read and it was not the expected one: nothing is handed over.
LEMMA ReceiveStepInv ==
  ASSUME Inv, NEW e \in Ends, NEW msg, receive(e, msg),
         UNCHANGED <<incomingMsgId, received>>,
         incomingAckId' \in [Ends -> Nat], TimersOK', FlagsOK',
         writerData' \in [Ends -> Seq(ProtocolMessage)],
         \A f \in Ends : writerData'[f] \in Seq(GenuineMessage(f))
  PROVE  Inv'
<1>1. /\ WireOK(wire')
      /\ outgoingUnackMsg' \in [Ends -> Seq(ProtocolMessage)]
      /\ outgoingAckId' \in [Ends -> Nat]
      /\ \A f \in Ends : QueueAfter(f, outgoingUnackMsg'[f], outgoingAckId'[f])
  BY ReceiveEffect
<1>2. UNCHANGED <<outgoingMsgId, socket, opened, alive, handoff, sent>>
  BY DEF receive
<1>3. CountersOK' /\ SocketsOK' /\ HistoryOK'
  BY <1>1, <1>2 DEF Inv, TypeOK, CountersOK, SocketsOK, HistoryOK
<1>4. BuffersOK'
  BY <1>1 DEF BuffersOK, WireOK
<1>5. /\ IdsArePositions'
      /\ ReceivedIsSent'
      /\ \A f \in Ends : GenuineMessage(f)' = GenuineMessage(f)
  BY <1>2, LedgerStable DEF Inv, histVars
<1>6. AcksAreReceipts'
  BY <1>1, <1>2 DEF Inv, Consistent, AcksAreReceipts, QueueAfter
<1>7. QueueIsUnconfirmed'
  BY <1>1, <1>2, <1>5 DEF QueueIsUnconfirmed, QueueAfter
<1>8. WriterIsGenuine'
  BY <1>5 DEF WriterIsGenuine
<1>9. WireIsGenuine'
  BY <1>1, <1>5, PeerType DEF WireIsGenuine, WireOK
<1>10. Consistent'
  BY <1>5, <1>6, <1>7, <1>8, <1>9 DEF Consistent
<1> QED BY <1>3, <1>4, <1>10 DEF Inv, TypeOK

LEMMA SilenceBrokenType ==
  ASSUME TimersOK, NEW e \in Ends, silenceBroken(e)
  PROVE  /\ outgoingAckTimeout' \in [Ends -> BOOLEAN]
         /\ onSocketTimeout' \in [Ends -> BOOLEAN]
         /\ outgoingStale' \in [Ends -> BOOLEAN]
BY DEF TimersOK, silenceBroken

LEMMA ReceiveDuplicateInv ==
  ASSUME Inv, NEW e \in Ends, NEW msg, receiveDuplicate(e, msg) \/ receiveAck(e, msg)
  PROVE  Inv'
<1>1. /\ receive(e, msg) /\ silenceBroken(e)
      /\ UNCHANGED <<inVars, inTimerVars, replayQuiet, writerVars, connVars, received>>
  BY DEF receiveDuplicate, receiveAck
<1>2. TimersOK' /\ FlagsOK' /\ incomingAckId' \in [Ends -> Nat]
  BY <1>1, SilenceBrokenType
  DEF Inv, TypeOK, CountersOK, TimersOK, FlagsOK, inVars, inTimerVars, writerVars, connVars
<1>3. UNCHANGED <<incomingMsgId, received, writerData>>
  BY <1>1 DEF inVars, writerVars
<1> QED BY <1>1, <1>2, <1>3, WriterNow, ReceiveStepInv

LEMMA ReceivePauseInv ==
  ASSUME Inv, NEW e \in Ends, NEW msg, receivePause(e, msg) \/ receiveResume(e, msg)
  PROVE  Inv'
<1>1. /\ receive(e, msg) /\ silenceBroken(e)
      /\ UNCHANGED <<inVars, inTimerVars, replayQuiet, writerData, connVars, received>>
  BY DEF receivePause, receiveResume
<1>2. /\ isPaused' \in [Ends -> BOOLEAN]
      /\ writeNowTimeout' \in [Ends -> BOOLEAN]
  BY DEF receivePause, receiveResume, Inv, TypeOK, TimersOK, FlagsOK
<1>3. TimersOK' /\ FlagsOK' /\ incomingAckId' \in [Ends -> Nat]
  BY <1>1, <1>2, SilenceBrokenType
  DEF Inv, TypeOK, CountersOK, TimersOK, FlagsOK, inVars, inTimerVars, connVars
<1>4. UNCHANGED <<incomingMsgId, received, writerData>>
  BY <1>1 DEF inVars
<1> QED BY <1>1, <1>3, <1>4, WriterNow, ReceiveStepInv

LEMMA ReceiveGapInv ==
  ASSUME Inv, NEW e \in Ends, NEW msg, receiveGap(e, msg) PROVE Inv'
<1> DEFINE req == Message("ReplayRequest", 0, 0, "empty")
<1>1. /\ receive(e, msg) /\ silenceBroken(e)
      /\ UNCHANGED <<inVars, inTimerVars, connVars, received>>
      /\ replayQuiet' = [replayQuiet EXCEPT ![e] = TRUE]
      /\ UNCHANGED writerVars \/ write(e, <<req>>)
  BY DEF receiveGap
<1>2. req \in GenuineMessage(e)
  BY PlainMessage DEF Inv, MessageType, TypeOK, CountersOK
<1> HIDE DEF req
<1>3. <<req>> \in Seq(GenuineMessage(e))
  BY <1>2
<1>4. /\ writerData' \in [Ends -> Seq(ProtocolMessage)]
      /\ writeNowTimeout' \in [Ends -> BOOLEAN]
      /\ isPaused' = isPaused
      /\ \A f \in Ends : writerData'[f] \in Seq(GenuineMessage(f))
  <2>1. CASE write(e, <<req>>)
    BY <2>1, <1>3, WriteEffect
  <2>2. CASE UNCHANGED writerVars
    BY <2>2, WriterNow DEF writerVars, Inv, TypeOK, TimersOK
  <2> QED BY <2>1, <2>2, <1>1
<1>5. TimersOK' /\ FlagsOK' /\ incomingAckId' \in [Ends -> Nat]
  BY <1>1, <1>4, SilenceBrokenType
  DEF Inv, TypeOK, CountersOK, TimersOK, FlagsOK, inVars, inTimerVars, connVars
<1>6. UNCHANGED <<incomingMsgId, received>>
  BY <1>1 DEF inVars
<1> QED BY <1>1, <1>4, <1>5, <1>6, ReceiveStepInv

LEMMA ReceiveReplayRequestInv ==
  ASSUME Inv, NEW e \in Ends, NEW msg, receiveReplayRequest(e, msg) PROVE Inv'
<1>1. /\ receive(e, msg)
      /\ write(e, UnackAfter(e, msg))
      /\ recvAckCheck(e, isReconnecting[e], outgoingMsgId[e] > AckIdAfter(e, msg), FALSE)
      /\ UNCHANGED <<inVars, inTimerVars, replayQuiet, connVars, received>>
  BY DEF receiveReplayRequest
<1>2. UnackAfter(e, msg) \in Seq(GenuineMessage(e))
  BY <1>1, ReceiveEffect, AckEffect DEF QueueAfter
<1>3. /\ writerData' \in [Ends -> Seq(ProtocolMessage)]
      /\ writeNowTimeout' \in [Ends -> BOOLEAN]
      /\ isPaused' = isPaused
      /\ \A f \in Ends : writerData'[f] \in Seq(GenuineMessage(f))
  BY <1>1, <1>2, WriteEffect
<1>4. isReconnecting[e] \in BOOLEAN /\ TimersOK
  BY DEF Inv, TypeOK, FlagsOK
<1>5. /\ outgoingAckTimeout' \in [Ends -> BOOLEAN]
      /\ onSocketTimeout' \in [Ends -> BOOLEAN]
      /\ outgoingStale' \in [Ends -> BOOLEAN]
  BY <1>1, <1>4, RecvAckCheckType
<1>6. TimersOK' /\ FlagsOK' /\ incomingAckId' \in [Ends -> Nat]
  BY <1>1, <1>3, <1>5
  DEF Inv, TypeOK, CountersOK, TimersOK, FlagsOK, inVars, inTimerVars, connVars
<1>7. UNCHANGED <<incomingMsgId, received>>
  BY <1>1 DEF inVars
<1> QED BY <1>1, <1>3, <1>6, <1>7, ReceiveStepInv

LEMMA ReceiveRegularInv ==
  ASSUME Inv, NEW e \in Ends, NEW msg, receiveRegular(e, msg) PROVE Inv'
<1>1. /\ isExpected(e, msg) /\ receive(e, msg) /\ silenceBroken(e)
      /\ incomingMsgId' = [incomingMsgId EXCEPT ![e] = msg.id]
      /\ sendAckCheck(e, msg.id)
      /\ received' = [received EXCEPT ![e] = Append(received[e], msg.data)]
      /\ UNCHANGED <<incomingAckId, replayQuiet, writerVars, connVars>>
      /\ UNCHANGED <<outgoingMsgId, socket, opened, alive, handoff, sent>>
  BY DEF receiveRegular, receive
<1>2. /\ msg \in GenuineMessage(Peer(e))
      /\ WireOK(wire')
      /\ outgoingUnackMsg' \in [Ends -> Seq(ProtocolMessage)]
      /\ outgoingAckId' \in [Ends -> Nat]
      /\ \A f \in Ends : QueueAfter(f, outgoingUnackMsg'[f], outgoingAckId'[f])
  BY <1>1, ReceiveEffect
<1>3. CountersOK /\ TimersOK /\ FlagsOK /\ BuffersOK /\ SocketsOK /\ HistoryOK /\ Consistent
  BY DEF Inv, TypeOK
<1>4. Peer(e) \in Ends /\ Peer(Peer(e)) = e
  BY PeerType
<1> DEFINE n == incomingMsgId[e]
<1>5. n \in Nat /\ msg.id = n + 1 /\ msg.id \in 1 .. outgoingMsgId[Peer(e)]
      /\ msg.data = sent[Peer(e)][msg.id]
  BY <1>1, <1>2, <1>3 DEF CountersOK, isExpected, GenuineMessage
<1>6. msg.data \in Payload
  BY <1>3, <1>4, <1>5 DEF HistoryOK, Consistent, IdsArePositions
<1>7. Len(received[e]) = n /\ received[e] \in Seq(Payload)
  BY <1>3 DEF HistoryOK, Consistent, IdsArePositions
<1>8. CountersOK'
  BY <1>1, <1>2, <1>3, <1>5 DEF CountersOK
<1>9. HistoryOK' /\ SocketsOK'
  BY <1>1, <1>3, <1>6 DEF HistoryOK, SocketsOK
<1>10. TimersOK'
  <2>1. incomingAckTimeout' \in [Ends -> BOOLEAN] /\ incomingFresh' \in [Ends -> BOOLEAN]
    BY <1>1, <1>3 DEF sendAckCheck, TimersOK
  <2> QED BY <2>1, <1>1, <1>3, SilenceBrokenType DEF TimersOK, writerVars
<1>11. FlagsOK'
  BY <1>1, <1>3 DEF FlagsOK, connVars, writerVars
<1>12. BuffersOK'
  BY <1>1, <1>2, <1>3 DEF BuffersOK, WireOK, writerVars
<1>13. \A f \in Ends : incomingMsgId[f] <= incomingMsgId'[f]
  BY <1>1, <1>3, <1>5 DEF CountersOK
<1>14. ASSUME NEW f \in Ends
       PROVE  \A s \in Seq(GenuineMessage(f)) : s \in Seq(GenuineMessage(f)')
  <2>1. outgoingMsgId[f] <= outgoingMsgId'[f]
    BY <1>1, <1>3 DEF CountersOK
  <2>2. \A i \in 1 .. outgoingMsgId[f] : sent'[f][i] = sent[f][i]
    BY <1>1
  <2> QED BY <1>3, <1>8, <1>13, <2>1, <2>2, GenuineGrows
<1>15. IdsArePositions'
  BY <1>1, <1>3, <1>5, <1>7 DEF Consistent, IdsArePositions, CountersOK, HistoryOK
<1>16. AcksAreReceipts'
  <2> SUFFICES ASSUME NEW f \in Ends
               PROVE  /\ outgoingAckId'[f] <= incomingMsgId'[Peer(f)]
                      /\ incomingMsgId'[Peer(f)] <= outgoingMsgId[f]
    BY <1>1 DEF AcksAreReceipts
  <2>1. Peer(f) \in Ends /\ Peer(Peer(f)) = f
    BY PeerType
  <2>2. outgoingAckId'[f] <= incomingMsgId[Peer(f)] /\ outgoingAckId'[f] \in Nat
    BY <1>2 DEF QueueAfter
  <2>3. outgoingAckId'[f] <= incomingMsgId'[Peer(f)]
    BY <2>1, <2>2, <1>3, <1>8, <1>13 DEF CountersOK
  <2>4. CASE Peer(f) = e
    BY <2>1, <2>3, <2>4, <1>1, <1>3, <1>5 DEF CountersOK
  <2>5. CASE Peer(f) # e
    BY <2>1, <2>3, <2>5, <1>1, <1>3 DEF CountersOK, Consistent, AcksAreReceipts
  <2> QED BY <2>4, <2>5
<1>17. QueueIsUnconfirmed'
  BY <1>1, <1>2, <1>14 DEF QueueIsUnconfirmed, QueueAfter
<1>18. WriterIsGenuine'
  BY <1>1, <1>3, <1>14 DEF Consistent, WriterIsGenuine, writerVars
<1>19. WireIsGenuine'
  BY <1>2, <1>14, PeerType DEF WireIsGenuine, WireOK
<1>20. ReceivedIsSent'
  <2> SUFFICES ASSUME NEW f \in Ends, NEW i \in 1 .. Len(received'[f])
               PROVE  received'[f][i] = sent[Peer(f)][i]
    BY <1>1 DEF ReceivedIsSent
  <2>1. CASE f # e
    BY <2>1, <1>1, <1>3 DEF HistoryOK, Consistent, ReceivedIsSent
  <2>2. CASE f = e
    <3>1. received'[f] = Append(received[e], msg.data)
      BY <2>2, <1>1, <1>3 DEF HistoryOK
    <3>2. i \in 1 .. n \/ i = n + 1
      BY <3>1, <1>5, <1>6, <1>7
    <3>3. CASE i \in 1 .. n
      <4>1. received'[f][i] = received[e][i]
        BY <3>1, <3>3, <1>6, <1>7
      <4> QED BY <4>1, <2>2, <3>3, <1>3, <1>7 DEF Consistent, ReceivedIsSent
    <3>4. CASE i = n + 1
      <4>1. received'[f][i] = msg.data
        BY <3>1, <3>4, <1>6, <1>7
      <4> QED BY <4>1, <2>2, <3>4, <1>5
    <3> QED BY <3>2, <3>3, <3>4
  <2> QED BY <2>1, <2>2
<1>21. Consistent'
  BY <1>15, <1>16, <1>17, <1>18, <1>19, <1>20 DEF Consistent
<1>22. TypeOK'
  BY <1>8, <1>9, <1>10, <1>11, <1>12 DEF TypeOK
<1> QED BY <1>21, <1>22 DEF Inv

LEMMA BreakSocketInv ==
  ASSUME Inv, NEW k \in Sockets, breakSocket(k) PROVE Inv'
<1>1. UNCHANGED <<outVars, incomingMsgId, histVars>>
  BY DEF breakSocket, inVars
<1>2. CountersOK' /\ TimersOK' /\ FlagsOK'
  BY DEF Inv, TypeOK, CountersOK, TimersOK, FlagsOK, breakSocket, outVars, inVars,
         outTimerVars, inTimerVars, writerVars, connVars
<1>3. SocketsOK'
  BY DEF Inv, TypeOK, SocketsOK, breakSocket
<1>4. UNCHANGED <<writerData, wire>>
  BY DEF breakSocket, writerVars
<1> QED BY <1>1, <1>2, <1>3, <1>4, WriterNow, WireNow, QuietStepInv

LEMMA LoseInv ==
  ASSUME Inv, NEW k \in Sockets, NEW e \in Ends, lose(k, e) PROVE Inv'
<1>1. UNCHANGED <<outVars, incomingMsgId, histVars>>
  BY DEF lose, inVars
<1>2. CountersOK' /\ TimersOK' /\ FlagsOK' /\ SocketsOK'
  BY DEF Inv, TypeOK, CountersOK, TimersOK, FlagsOK, SocketsOK, lose, outVars, inVars,
         outTimerVars, inTimerVars, writerVars, connVars
<1>3. UNCHANGED writerData
  BY DEF lose, writerVars
<1>4. wire[k][e] \in Seq(GenuineMessage(Peer(e))) /\ wire[k][e] # <<>>
  BY WireNow DEF WireOK, lose
<1>5. Tail(wire[k][e]) \in Seq(GenuineMessage(Peer(e)))
  BY <1>4, TailType
<1>6. wire' = [wire EXCEPT ![k][e] = Tail(wire[k][e])]
  BY DEF lose
<1>7. WireOK(wire')
  BY <1>5, <1>6, WireNow, WireUpdate
<1> QED BY <1>1, <1>2, <1>3, <1>7, WriterNow, QuietStepInv

LEMMA BeginEffect ==
  ASSUME Inv, NEW e \in Ends, NEW k \in Sockets, NEW ms \in Seq(GenuineMessage(e)),
         beginAcceptReconnection(e, k, ms), awaitingOk' \in BOOLEAN,
         UNCHANGED <<outgoingUnackMsg, outgoingAckId>>
  PROVE  /\ UNCHANGED <<outVars, incomingMsgId, histVars>>
         /\ CountersOK' /\ TimersOK' /\ FlagsOK'
         /\ socket' \in [Ends -> Sockets]
         /\ writerData' \in [Ends -> Seq(ProtocolMessage)]
         /\ \A f \in Ends : writerData'[f] \in Seq(GenuineMessage(f))
<1>1. UNCHANGED <<outVars, incomingMsgId, histVars>>
  BY DEF beginAcceptReconnection, outVars, inVars
<1>2. CountersOK'
  BY DEF Inv, TypeOK, CountersOK, beginAcceptReconnection, outVars, inVars
<1>3. TimersOK' /\ FlagsOK'
  BY DEF Inv, TypeOK, TimersOK, FlagsOK, beginAcceptReconnection, inTimerVars
<1>4. socket' \in [Ends -> Sockets]
  BY DEF Inv, TypeOK, SocketsOK, beginAcceptReconnection
<1>5. writerData' = [writerData EXCEPT ![e] = ms]
  BY DEF beginAcceptReconnection
<1>6. ms \in Seq(ProtocolMessage)
  BY GenuineSeqType
<1>7. /\ writerData' \in [Ends -> Seq(ProtocolMessage)]
      /\ \A f \in Ends : writerData'[f] \in Seq(GenuineMessage(f))
  BY <1>5, <1>6, WriterNow
<1> QED BY <1>1, <1>2, <1>3, <1>4, <1>7

LEMMA ControlMessages ==
  ASSUME Inv, NEW e \in Ends
  PROVE  /\ <<ConnectionType>> \in Seq(GenuineMessage(e))
         /\ Answer \in Seq(GenuineMessage(e))
<1>1. 0 <= incomingMsgId[e]
  BY DEF Inv, TypeOK, CountersOK
<1>2. ConnectionType \in GenuineMessage(e) /\ Ok \in GenuineMessage(e)
  BY <1>1, PlainMessage DEF Inv, MessageType, ConnectionType, Ok
<1>3. Message("Pause", 0, 0, "empty") \in GenuineMessage(e)
  BY <1>1, PlainMessage DEF Inv, MessageType
<1> QED BY <1>2, <1>3 DEF Answer

LEMMA ReconnectInv ==
  ASSUME Inv, reconnect PROVE Inv'
<1> DEFINE k == opened + 1
<1>1. k \in Sockets /\ Client \in Ends
  BY DEF reconnect, Inv, TypeOK, SocketsOK, Sockets, Ends
<1>2. /\ beginAcceptReconnection(Client, k, <<ConnectionType>>)
      /\ opened' = k /\ awaitingOk' = TRUE
      /\ alive' = [alive EXCEPT ![socket[Client]] = FALSE, ![k] = TRUE]
      /\ wire' = Abandoned(Client)
      /\ UNCHANGED <<outgoingUnackMsg, outgoingAckId, handoff>>
  BY DEF reconnect
<1> HIDE DEF k
<1>3. /\ UNCHANGED <<outVars, incomingMsgId, histVars>>
      /\ CountersOK' /\ TimersOK' /\ FlagsOK'
      /\ socket' \in [Ends -> Sockets]
      /\ writerData' \in [Ends -> Seq(ProtocolMessage)]
      /\ \A f \in Ends : writerData'[f] \in Seq(GenuineMessage(f))
  BY <1>1, <1>2, ControlMessages, BeginEffect
<1>4. SocketsOK'
  BY <1>1, <1>2, <1>3 DEF Inv, TypeOK, SocketsOK
<1>5. WireOK(wire')
  BY <1>1, <1>2, AbandonedOK
<1> QED BY <1>3, <1>4, <1>5, QuietStepInv

LEMMA ReconnectTimeoutInv ==
  ASSUME Inv, reconnectTimeout PROVE Inv'
<1>1. UNCHANGED <<outVars, incomingMsgId, histVars>>
  BY DEF reconnectTimeout, inVars
<1>2. CountersOK' /\ TimersOK' /\ FlagsOK' /\ SocketsOK'
  BY DEF Inv, TypeOK, CountersOK, TimersOK, FlagsOK, SocketsOK, reconnectTimeout,
         outVars, inVars, outTimerVars, inTimerVars, writerVars, netVars
<1>3. UNCHANGED <<writerData, wire>>
  BY DEF reconnectTimeout, writerVars, netVars
<1> QED BY <1>1, <1>2, <1>3, WriterNow, WireNow, QuietStepInv

\* The wires after the server has read and answered a request on socket k.
LEMMA RepliedOK ==
  ASSUME Inv, NEW w, WireOK(w), NEW k \in Sockets, wire[k][Server] # <<>>
  PROVE  WireOK([w EXCEPT ![k][Server] = Tail(wire[k][Server]),
                          ![k][Client] = IF alive[k] THEN @ \o Answer ELSE @])
<1>1. /\ Client \in Ends /\ Server \in Ends /\ Client # Server
      /\ Peer(Client) = Server /\ Peer(Server) = Client
  BY DEF Ends, Peer, Client, Server
<1>2. /\ wire[k][Server] \in Seq(GenuineMessage(Peer(Server)))
      /\ w[k][Client] \in Seq(GenuineMessage(Peer(Client)))
  BY <1>1, WireNow DEF WireOK
<1>3. Tail(wire[k][Server]) \in Seq(GenuineMessage(Peer(Server)))
  BY <1>2, TailType
<1> DEFINE w1 == [w EXCEPT ![k][Server] = Tail(wire[k][Server])]
           ms == IF alive[k] THEN w[k][Client] \o Answer ELSE w[k][Client]
<1>4. WireOK(w1)
  BY <1>1, <1>3, WireUpdate
<1>5. Answer \in Seq(GenuineMessage(Peer(Client)))
  BY <1>1, ControlMessages
<1>6. ms \in Seq(GenuineMessage(Peer(Client)))
  BY <1>2, <1>5, ConcatType
<1>7. WireOK([w1 EXCEPT ![k][Client] = ms])
  BY <1>1, <1>4, <1>6, WireUpdate
<1>8. [w EXCEPT ![k][Server] = Tail(wire[k][Server]),
                ![k][Client] = IF alive[k] THEN @ \o Answer ELSE @]
        = [w1 EXCEPT ![k][Client] = ms]
  BY <1>1 DEF WireOK
<1> QED BY <1>7, <1>8

LEMMA ReceiveSocketInv ==
  ASSUME Inv, NEW k \in Sockets, receiveSocket(k) PROVE Inv'
<1>1. /\ beginAcceptReconnection(Server, k, <<>>)
      /\ alive' = [alive EXCEPT ![socket[Server]] = FALSE]
      /\ handoff' = handoff \ {k}
      /\ wire' = Abandoned(Server)
      /\ UNCHANGED <<outgoingUnackMsg, outgoingAckId, opened, awaitingOk>>
  BY DEF receiveSocket
<1>2. Server \in Ends /\ <<>> \in Seq(GenuineMessage(Server)) /\ awaitingOk' \in BOOLEAN
  BY <1>1 DEF Ends, Inv, TypeOK, FlagsOK
<1>3. /\ UNCHANGED <<outVars, incomingMsgId, histVars>>
      /\ CountersOK' /\ TimersOK' /\ FlagsOK'
      /\ socket' \in [Ends -> Sockets]
      /\ writerData' \in [Ends -> Seq(ProtocolMessage)]
      /\ \A f \in Ends : writerData'[f] \in Seq(GenuineMessage(f))
  BY <1>1, <1>2, BeginEffect
<1>4. SocketsOK'
  BY <1>1, <1>3 DEF Inv, TypeOK, SocketsOK
<1>5. WireOK(wire')
  BY <1>1, <1>2, AbandonedOK
<1> QED BY <1>3, <1>4, <1>5, QuietStepInv

LEMMA AcceptReconnectionInv ==
  ASSUME Inv, NEW k \in Sockets, acceptReconnection(k) PROVE Inv'
<1> DEFINE replied(w) == [w EXCEPT ![k][Server] = Tail(wire[k][Server]),
                                   ![k][Client] = IF alive[k] THEN @ \o Answer ELSE @]
<1>1. /\ wire[k][Server] # <<>>
      /\ UNCHANGED <<outgoingUnackMsg, outgoingAckId, opened, awaitingOk>>
  BY DEF acceptReconnection
<1>2. \A w : WireOK(w) => WireOK(replied(w))
  BY <1>1, RepliedOK
<1>3. \/ /\ handoff' = handoff \cup {k}
         /\ wire' = replied(wire)
         /\ UNCHANGED <<isReconnecting, inVars, outTimerVars, inTimerVars,
                        replayQuiet, writerVars, socket, alive, outgoingMsgId, histVars>>
      \/ /\ alive' = [alive EXCEPT ![socket[Server]] = FALSE]
         /\ wire' = replied(Abandoned(Server))
         /\ beginAcceptReconnection(Server, k, <<>>)
         /\ UNCHANGED handoff
  BY DEF acceptReconnection
<1> HIDE DEF replied
<1>4. CASE /\ handoff' = handoff \cup {k}
           /\ wire' = replied(wire)
           /\ UNCHANGED <<isReconnecting, inVars, outTimerVars, inTimerVars,
                          replayQuiet, writerVars, socket, alive, outgoingMsgId, histVars>>
  <2>1. UNCHANGED <<outVars, incomingMsgId, histVars>>
    BY <1>1, <1>4 DEF outVars, inVars
  <2>2. CountersOK' /\ TimersOK' /\ FlagsOK' /\ SocketsOK'
    BY <1>1, <1>4 DEF Inv, TypeOK, CountersOK, TimersOK, FlagsOK, SocketsOK,
         inVars, outTimerVars, inTimerVars, writerVars
  <2>3. WireOK(wire') /\ UNCHANGED writerData
    BY <1>2, <1>4, WireNow DEF writerVars
  <2> QED BY <2>1, <2>2, <2>3, WriterNow, QuietStepInv
<1>5. CASE /\ alive' = [alive EXCEPT ![socket[Server]] = FALSE]
           /\ wire' = replied(Abandoned(Server))
           /\ beginAcceptReconnection(Server, k, <<>>)
           /\ UNCHANGED handoff
  <2>1. Server \in Ends /\ <<>> \in Seq(GenuineMessage(Server)) /\ awaitingOk' \in BOOLEAN
    BY <1>1 DEF Ends, Inv, TypeOK, FlagsOK
  <2>2. /\ UNCHANGED <<outVars, incomingMsgId, histVars>>
        /\ CountersOK' /\ TimersOK' /\ FlagsOK'
        /\ socket' \in [Ends -> Sockets]
        /\ writerData' \in [Ends -> Seq(ProtocolMessage)]
        /\ \A f \in Ends : writerData'[f] \in Seq(GenuineMessage(f))
    BY <1>1, <1>5, <2>1, BeginEffect
  <2>3. SocketsOK'
    BY <1>1, <1>5, <2>2 DEF Inv, TypeOK, SocketsOK
  <2>4. WireOK(wire')
    BY <1>2, <1>5, <2>1, AbandonedOK
  <2> QED BY <2>2, <2>3, <2>4, QuietStepInv
<1> QED BY <1>3, <1>4, <1>5

LEMMA EndEffect ==
  ASSUME Inv, NEW e \in Ends, NEW ms \in Seq(GenuineMessage(e)), endAcceptReconnection(e, ms),
         awaitingOk' \in BOOLEAN
  PROVE  /\ UNCHANGED <<outgoingMsgId, incomingMsgId, histVars>>
         /\ incomingAckId' \in [Ends -> Nat]
         /\ TimersOK' /\ FlagsOK'
         /\ writerData' \in [Ends -> Seq(ProtocolMessage)]
         /\ \A f \in Ends : writerData'[f] \in Seq(GenuineMessage(f))
<1> DEFINE ack == <<Message("Ack", 0, incomingMsgId[e], "empty")>>
           out == ack \o Resent(e) \o ms
<1>1. /\ isReconnecting' = [isReconnecting EXCEPT ![e] = FALSE]
      /\ incomingAckId' = [incomingAckId EXCEPT ![e] = incomingMsgId[e]]
      /\ write(e, out)
      /\ recvAckCheck(e, FALSE, outgoingMsgId[e] > outgoingAckId[e], FALSE)
      /\ UNCHANGED <<outgoingMsgId, incomingMsgId, inTimerVars, replayQuiet, histVars>>
  BY DEF endAcceptReconnection
<1>2. incomingMsgId[e] \in Nat
  BY DEF Inv, TypeOK, CountersOK
<1>3. ack \in Seq(GenuineMessage(e))
  BY <1>2, PlainMessage DEF Inv, MessageType
<1>4. Resent(e) \in Seq(GenuineMessage(e))
  BY DEF Resent, Inv, Consistent, QueueIsUnconfirmed
<1> HIDE DEF ack
<1>5. out \in Seq(GenuineMessage(e))
  BY <1>3, <1>4, ConcatType
<1> HIDE DEF out
<1>6. /\ writerData' \in [Ends -> Seq(ProtocolMessage)]
      /\ writeNowTimeout' \in [Ends -> BOOLEAN]
      /\ isPaused' = isPaused
      /\ \A f \in Ends : writerData'[f] \in Seq(GenuineMessage(f))
  BY <1>1, <1>5, WriteEffect
<1>7. /\ outgoingAckTimeout' \in [Ends -> BOOLEAN]
      /\ onSocketTimeout' \in [Ends -> BOOLEAN]
      /\ outgoingStale' \in [Ends -> BOOLEAN]
  BY <1>1, RecvAckCheckType DEF Inv, TypeOK
<1>8. TimersOK' /\ FlagsOK'
  BY <1>1, <1>6, <1>7 DEF Inv, TypeOK, TimersOK, FlagsOK, inTimerVars
<1>9. incomingAckId' \in [Ends -> Nat]
  BY <1>1, <1>2 DEF Inv, TypeOK, CountersOK
<1> QED BY <1>1, <1>6, <1>8, <1>9

LEMMA ServerReconnectedInv ==
  ASSUME Inv, serverReconnected PROVE Inv'
<1> DEFINE ms == IF ExtHost THEN <<Message("Resume", 0, 0, "empty")>> ELSE <<>>
<1>1. /\ endAcceptReconnection(Server, ms)
      /\ UNCHANGED <<outgoingUnackMsg, outgoingAckId, netVars, awaitingOk>>
  BY DEF serverReconnected
<1>2. Server \in Ends /\ 0 <= incomingMsgId[Server] /\ awaitingOk' \in BOOLEAN
  BY <1>1 DEF Ends, Inv, TypeOK, CountersOK, FlagsOK
<1>3. ms \in Seq(GenuineMessage(Server))
  BY <1>2, PlainMessage DEF Inv, MessageType
<1> HIDE DEF ms
<1>4. /\ UNCHANGED <<outgoingMsgId, incomingMsgId, histVars>>
      /\ incomingAckId' \in [Ends -> Nat]
      /\ TimersOK' /\ FlagsOK'
      /\ writerData' \in [Ends -> Seq(ProtocolMessage)]
      /\ \A f \in Ends : writerData'[f] \in Seq(GenuineMessage(f))
  BY <1>1, <1>2, <1>3, EndEffect
<1>5. UNCHANGED <<outVars, incomingMsgId, histVars>>
  BY <1>1, <1>4 DEF outVars
<1>6. CountersOK' /\ SocketsOK'
  BY <1>1, <1>4 DEF Inv, TypeOK, CountersOK, SocketsOK, netVars
<1>7. WireOK(wire')
  BY <1>1, WireNow DEF netVars
<1> QED BY <1>4, <1>5, <1>6, <1>7, QuietStepInv

LEMMA ReceiveControlInv ==
  ASSUME Inv, NEW e \in Ends, NEW msg, receiveControl(e, msg) PROVE Inv'
<1>1. receive(e, msg) /\ awaitingOk' = FALSE
  BY DEF receiveControl
<1>2. CASE endAcceptReconnection(e, <<>>)
  <2>1. /\ UNCHANGED <<outgoingMsgId, incomingMsgId, histVars>>
        /\ incomingAckId' \in [Ends -> Nat]
        /\ TimersOK' /\ FlagsOK'
        /\ writerData' \in [Ends -> Seq(ProtocolMessage)]
        /\ \A f \in Ends : writerData'[f] \in Seq(GenuineMessage(f))
    <3>1. <<>> \in Seq(GenuineMessage(e))
      OBVIOUS
    <3>2. awaitingOk' \in BOOLEAN
      BY <1>1, Zenon
    <3> QED BY <1>2, <3>1, <3>2, EndEffect
  <2> QED BY <1>1, <2>1, ReceiveStepInv DEF histVars
<1>3. CASE /\ silenceBroken(e)
           /\ UNCHANGED <<isReconnecting, inVars, inTimerVars, replayQuiet, writerVars, received>>
  <2>1. TimersOK' /\ FlagsOK' /\ incomingAckId' \in [Ends -> Nat]
    BY <1>1, <1>3, SilenceBrokenType
    DEF Inv, TypeOK, CountersOK, TimersOK, FlagsOK, inVars, inTimerVars, writerVars
  <2>2. UNCHANGED <<incomingMsgId, received, writerData>>
    BY <1>3 DEF inVars, writerVars
  <2> QED BY <1>1, <2>1, <2>2, WriterNow, ReceiveStepInv
<1> QED BY <1>2, <1>3 DEF receiveControl

LEMMA StutterInv == Inv /\ UNCHANGED vars => Inv'
<1> SUFFICES ASSUME Inv, UNCHANGED vars PROVE Inv' OBVIOUS
<1> USE DEF vars, outVars, inVars, outTimerVars, inTimerVars, writerVars, netVars, connVars, histVars
<1>1. UNCHANGED <<outVars, incomingMsgId, histVars>> /\ UNCHANGED <<writerData, wire>>
  OBVIOUS
<1>2. CountersOK' /\ TimersOK' /\ FlagsOK' /\ SocketsOK'
  BY DEF Inv, TypeOK, CountersOK, TimersOK, FlagsOK, SocketsOK
<1> QED BY <1>1, <1>2, WriterNow, WireNow, QuietStepInv

LEMMA NextInv == Inv /\ [Next]_vars => Inv'
<1> SUFFICES ASSUME Inv, [Next]_vars PROVE Inv' OBVIOUS
<1>1. CASE UNCHANGED vars
  BY <1>1, StutterInv
<1>2. CASE Next
  <2>1. ASSUME NEW e \in Ends, NEW d \in Payload, send(e, d) PROVE Inv'
    BY <2>1, SendInv
  <2>2. ASSUME NEW e \in Ends, writeNow(e) PROVE Inv'
    BY <2>2, WriteNowInv
  <2>3. ASSUME NEW e \in Ends, NEW highLoad \in BOOLEAN, onOutgoingAckTimeout(e, highLoad) PROVE Inv'
    BY <2>3, OnOutgoingAckTimeoutInv
  <2>4. ASSUME NEW e \in Ends, silence(e) \/ onIncomingAckTimeout(e) \/ sendKeepAlive(e) \/ replayQuietEnds(e)
        PROVE  Inv'
    BY <2>4, SilenceInv, OnIncomingAckTimeoutInv, SendKeepAliveInv, ReplayQuietEndsInv
  <2>5. ASSUME NEW e \in Ends, receiveMessage(e) PROVE Inv'
    <3> DEFINE msg == Head(Incoming(e))
    <3>1. \/ receiveRegular(e, msg)
          \/ receiveDuplicate(e, msg)
          \/ receiveGap(e, msg)
          \/ receiveAck(e, msg)
          \/ receiveReplayRequest(e, msg)
          \/ receivePause(e, msg)
          \/ receiveResume(e, msg)
          \/ receiveControl(e, msg)
      BY <2>5 DEF receiveMessage
    <3> HIDE DEF msg
    <3> QED BY <3>1, ReceiveRegularInv, ReceiveDuplicateInv, ReceiveGapInv, ReceiveReplayRequestInv,
               ReceivePauseInv, ReceiveControlInv
  <2>6. CASE reconnect \/ reconnectTimeout \/ serverReconnected
    BY <2>6, ReconnectInv, ReconnectTimeoutInv, ServerReconnectedInv
  <2>7. ASSUME NEW k \in Sockets, acceptReconnection(k) \/ receiveSocket(k) \/ breakSocket(k) PROVE Inv'
    BY <2>7, AcceptReconnectionInv, ReceiveSocketInv, BreakSocketInv
  <2>8. ASSUME NEW k \in Sockets, NEW e \in Ends, lose(k, e) PROVE Inv'
    BY <2>8, LoseInv
  <2> QED BY <1>2, <2>1, <2>2, <2>3, <2>4, <2>5, <2>6, <2>7, <2>8 DEF Next
<1> QED BY <1>1, <1>2

-----------------------------------------------------------------------------
(***************************************************************************)
(* The theorems.                                                           *)
(***************************************************************************)
\* The state of both ends, their writers and their sockets is always well
\* typed: in particular acknowledging never leaves the queue undefined.
THEOREM TypeCorrect == Spec => []TypeOK
<1>1. Spec => []Inv
  BY InitInv, NextInv, PTL DEF Spec
<1>2. Inv => TypeOK
  BY DEF Inv
<1> QED BY <1>1, <1>2, PTL

\* Every state is Consistent: ids count messages, the queue of each end is
\* exactly what the other has not confirmed, and every message buffered or in
\* flight, on whatever socket, tells the truth.
THEOREM ConsistentAlways == Spec => []Consistent
<1>1. Spec => []Inv
  BY InitInv, NextInv, PTL DEF Spec
<1>2. Inv => Consistent
  BY DEF Inv
<1> QED BY <1>1, <1>2, PTL

LEMMA ConsistentNothingLost == Inv => NothingLost
<1> SUFFICES ASSUME Inv, NEW e \in Ends,
                    NEW id \in (Len(received[Peer(e)]) + 1) .. Len(sent[e])
             PROVE  \E i \in 1 .. Len(outgoingUnackMsg[e]) :
                      /\ outgoingUnackMsg[e][i].id = id
                      /\ outgoingUnackMsg[e][i].data = sent[e][id]
  BY DEF NothingLost
<1> DEFINE q == outgoingUnackMsg[e]
           a == outgoingAckId[e]
<1>1. Peer(e) \in Ends
  BY PeerType
<1>2. /\ a \in Nat /\ a <= Len(received[Peer(e)])
      /\ Len(received[Peer(e)]) \in Nat /\ Len(sent[e]) \in Nat
      /\ Len(q) = Len(sent[e]) - a
  BY <1>1 DEF Inv, TypeOK, CountersOK, HistoryOK, Consistent, IdsArePositions,
              AcksAreReceipts, QueueIsUnconfirmed
<1>3. id - a \in 1 .. Len(q) /\ a + (id - a) = id
  BY <1>2
<1>4. q[id - a].type = "Regular" /\ q[id - a].id = id /\ q[id - a] \in GenuineMessage(e)
  BY <1>3 DEF Inv, Consistent, QueueIsUnconfirmed
<1>5. q[id - a].data = sent[e][id]
  BY <1>4 DEF GenuineMessage
<1> QED BY <1>3, <1>4, <1>5

\* A message that was sent and not handed over can always be sent again: no
\* acknowledgement, timeout, replay or reconnection removes it from its queue.
THEOREM NothingIsLost == Spec => []NothingLost
<1>1. Spec => []Inv
  BY InitInv, NextInv, PTL DEF Spec
<1> QED BY <1>1, ConsistentNothingLost, PTL

LEMMA ChannelStep == Inv /\ [Next]_vars => [Channel!Next]_<<sent, received>>
<1> SUFFICES ASSUME Inv, [Next]_vars
             PROVE  Channel!Next \/ UNCHANGED <<sent, received>>
  OBVIOUS
<1>1. CASE UNCHANGED vars
  BY <1>1 DEF vars, histVars
<1>2. ASSUME NEW e \in Ends, NEW d \in Payload, send(e, d) PROVE Channel!Next
  BY <1>2 DEF send, Channel!Next, Channel!Send
<1>3. ASSUME NEW e \in Ends, NEW msg, receiveRegular(e, msg) PROVE Channel!Next
  <2>1. /\ isExpected(e, msg) /\ receive(e, msg)
        /\ received' = [received EXCEPT ![e] = Append(received[e], msg.data)]
        /\ sent' = sent
    BY <1>3 DEF receiveRegular, receive
  <2>2. msg \in GenuineMessage(Peer(e)) /\ Peer(e) \in Ends
    BY <2>1, ReceiveEffect, PeerType
  <2>3. /\ msg.id = Len(received[e]) + 1
        /\ msg.id \in 1 .. Len(sent[Peer(e)])
        /\ msg.data = sent[Peer(e)][msg.id]
    BY <2>1, <2>2 DEF isExpected, GenuineMessage, Inv, Consistent, IdsArePositions
  <2>4. received[e] \in Seq(Payload) /\ sent[Peer(e)] \in Seq(Payload)
    BY <2>2 DEF Inv, TypeOK, HistoryOK
  <2>5. Len(received[e]) < Len(sent[Peer(e)])
    BY <2>3, <2>4
  <2>6. Channel!Deliver(e)
    BY <2>1, <2>3, <2>5 DEF Channel!Deliver
  <2> QED BY <2>6 DEF Channel!Next
<1>4. ASSUME NEW e \in Ends, NEW msg,
             \/ receiveDuplicate(e, msg)
             \/ receiveGap(e, msg)
             \/ receiveAck(e, msg)
             \/ receiveReplayRequest(e, msg)
             \/ receivePause(e, msg)
             \/ receiveResume(e, msg)
      PROVE  UNCHANGED <<sent, received>>
  BY <1>4 DEF receiveDuplicate, receiveGap, receiveAck, receiveReplayRequest, receivePause,
              receiveResume, receive
<1>5. ASSUME NEW e \in Ends, NEW msg, receiveControl(e, msg)
      PROVE  UNCHANGED <<sent, received>>
  BY <1>5 DEF receiveControl, receive, endAcceptReconnection, histVars
<1>6. ASSUME NEW e \in Ends,
             \/ writeNow(e) \/ silence(e) \/ onIncomingAckTimeout(e) \/ sendKeepAlive(e)
             \/ replayQuietEnds(e) \/ \E highLoad \in BOOLEAN : onOutgoingAckTimeout(e, highLoad)
      PROVE  UNCHANGED <<sent, received>>
  BY <1>6 DEF writeNow, silence, onIncomingAckTimeout, sendKeepAlive, replayQuietEnds,
              onOutgoingAckTimeout, histVars
<1>7. CASE reconnect \/ reconnectTimeout \/ serverReconnected
  BY <1>7 DEF reconnect, reconnectTimeout, serverReconnected, beginAcceptReconnection,
              endAcceptReconnection, histVars
<1>8. ASSUME NEW k \in Sockets,
             \/ acceptReconnection(k) \/ receiveSocket(k) \/ breakSocket(k)
             \/ \E e \in Ends : lose(k, e)
      PROVE  UNCHANGED <<sent, received>>
  BY <1>8 DEF acceptReconnection, receiveSocket, breakSocket, lose, beginAcceptReconnection, histVars
<1>9. ASSUME NEW e \in Ends, receiveMessage(e)
      PROVE  Channel!Next \/ UNCHANGED <<sent, received>>
  BY <1>9, <1>3, <1>4, <1>5 DEF receiveMessage
<1> QED BY <1>1, <1>2, <1>6, <1>7, <1>8, <1>9 DEF Next

\* The protocol implements a pair of reliable channels: whatever breaks, times
\* out, is lost, replayed or reconnected, each end hands its application exactly
\* what the other end sent, once and in order.
THEOREM ProtocolImplementsChannel == Spec => ChannelSpec
<1>1. Init => Channel!Init
  BY DEF Init, Channel!Init
<1>2. Spec => []Inv
  BY InitInv, NextInv, PTL DEF Spec
<1> QED BY <1>1, <1>2, ChannelStep, PTL DEF Spec, ChannelSpec, Channel!Spec

=============================================================================
