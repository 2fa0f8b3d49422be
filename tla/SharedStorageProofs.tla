------------------------- MODULE SharedStorageProofs -------------------------
(***************************************************************************)
(* Proofs about SharedStorage: its types, that no write is forgotten       *)
(* between the main process's cache and its database, that a database that *)
(* was closed holds the cache, that no write of a window comes after the   *)
(* main process has closed, and that windows converge.  The first three    *)
(* rest on Inv; the fourth on Sessions, which says how far each window has *)
(* come between its opening and its closing; the last on Truthful, which   *)
(* says of every key where the news is that a window has not heard.        *)
(***************************************************************************)
EXTENDS SharedStorage, SequenceTheorems, TLAPS

\* Main is a Storage and no window, and the empty items and request are well formed.
LEMMA MainIsStorage ==
  /\ Main \in Storages
  /\ Window \subseteq Storages
  /\ \A w \in Window : w # Main
  /\ NoItems \in Items
  /\ NoRequest \in Request
BY StorageAssumption DEF Storages, NoItems, Items, NoRequest, Request

\* What Pending(n) in Request says of the two fields it is built from.
LEMMA PendingInRequest ==
  ASSUME NEW n, Pending(n) \in Request
  PROVE  /\ pendingInserts[n] \in Items
         /\ pendingDeletes[n] \in SUBSET Key
         /\ \A k \in pendingDeletes[n] : pendingInserts[n][k] = Absent
BY DEF Pending, Request

\* Overlaying a request on items gives items.
LEMMA OverlaidType ==
  ASSUME NEW items \in Items, NEW insert \in Items, NEW deleted \in SUBSET Key
  PROVE  Overlaid(items, [insert |-> insert, delete |-> deleted]) \in Items
BY DEF Overlaid, Items

\* A batch of set and delete calls keeps the types of the Storage it is made on.
LEMMA AcceptType ==
  ASSUME StorageOK, DelayerOK, MainOK,
         NEW n \in Storages, NEW insert \in Items, NEW deleted \in SUBSET Key,
         \A k \in deleted : insert[k] = Absent,
         accept(n, insert, deleted)
  PROVE  /\ cache' \in [Storages -> Items]
         /\ pendingInserts' \in [Storages -> Items]
         /\ pendingDeletes' \in [Storages -> SUBSET Key]
         /\ \A m \in Storages : Pending(m)' \in Request
         /\ deferred' \in [Storages -> BOOLEAN]
         /\ changedKeys' \in SUBSET Key
<1> DEFINE S == Differing(n, insert)
           D == Present(n, deleted)
<1>1. S \in SUBSET Key /\ D \in SUBSET Key /\ S \cap D = {}
  BY DEF Differing, Present
<1>2. \A items \in Items : Changed(items, insert, S, D) \in Items
  <2> SUFFICES ASSUME NEW items \in Items PROVE Changed(items, insert, S, D) \in Items
    OBVIOUS
  <2> HIDE DEF S, D
  <2> QED BY <1>1 DEF Changed, Items
<1>3. /\ cache' = [cache EXCEPT ![n] = Changed(cache[n], insert, S, D)]
      /\ pendingInserts' = [pendingInserts EXCEPT ![n] = Changed(pendingInserts[n], insert, S, D)]
      /\ pendingDeletes' = [pendingDeletes EXCEPT ![n] = (pendingDeletes[n] \ S) \cup D]
      /\ deferred' = [deferred EXCEPT ![n] = deferred[n] \/ S \cup D # {}]
      /\ changedKeys' = IF n = Main THEN changedKeys \cup S \cup D ELSE changedKeys
  BY DEF accept
<1> HIDE DEF S, D
<1>4. cache' \in [Storages -> Items] /\ pendingInserts' \in [Storages -> Items]
  BY <1>2, <1>3 DEF StorageOK
<1>5. pendingDeletes' \in [Storages -> SUBSET Key] /\ changedKeys' \in SUBSET Key
  BY <1>1, <1>3 DEF StorageOK, MainOK
<1>6. deferred' \in [Storages -> BOOLEAN]
  BY <1>3 DEF DelayerOK
<1>7. ASSUME NEW m \in Storages PROVE Pending(m)' \in Request
  <2>1. pendingInserts'[m] \in Items /\ pendingDeletes'[m] \in SUBSET Key
    BY <1>4, <1>5
  <2>2. \A k \in pendingDeletes[m] : pendingInserts[m][k] = Absent
    BY PendingInRequest DEF StorageOK
  <2>3. ASSUME NEW k \in pendingDeletes'[m] PROVE pendingInserts'[m][k] = Absent
    <3>1. CASE m # n
      BY <1>3, <2>2, <2>3, <3>1 DEF StorageOK
    <3>2. CASE m = n
      <4>1. k \in Key /\ (k \in D \/ (k \in pendingDeletes[n] /\ k \notin S))
        BY <1>3, <2>1, <2>3, <3>2 DEF StorageOK
      <4>2. pendingInserts'[n][k] =
              IF k \in S THEN insert[k] ELSE IF k \in D THEN Absent ELSE pendingInserts[n][k]
        BY <1>3, <4>1 DEF StorageOK, Changed
      <4> QED BY <1>1, <2>2, <3>2, <4>1, <4>2
    <3> QED BY <3>1, <3>2
  <2> QED BY <2>1, <2>3 DEF Pending, Request
<1> QED BY <1>4, <1>5, <1>6, <1>7

\* A flush keeps the types of the Storage, its delayer and its database.
LEMMA FlushPendingType ==
  ASSUME TypeOK, NEW n \in Storages, NEW waited,
         NEW next \in {"active", "queued"}, flushPending(n, waited, next)
  PROVE  /\ toMain' \in [Window -> Seq(Call)]
         /\ updating' \in Request
         /\ pendingInserts' \in [Storages -> Items]
         /\ pendingDeletes' \in [Storages -> SUBSET Key]
         /\ \A m \in Storages : Pending(m)' \in Request
         /\ activePromise' \in [Storages -> BOOLEAN]
         /\ closing' \in [Storages -> {"no", "delayer", "active", "queued", "never",
                                       "database", "done", "failed"}]
<1> USE DEF TypeOK, StorageOK, DelayerOK, ChannelOK, MainOK
<1>1. Pending(n) \in Request
  OBVIOUS
<1>2. [type |-> "updateItems", request |-> Pending(n)] \in Call
  BY <1>1 DEF Call
<1>3. toMain' \in [Window -> Seq(Call)] /\ updating' \in Request
  <2>1. CASE hasPending(n) /\ n = Main
    BY <1>1, <2>1 DEF flushPending, startUpdate
  <2>2. CASE hasPending(n) /\ n # Main
    <3>1. n \in Window
      BY <2>2 DEF Storages
    <3>2. /\ toMain' = [toMain EXCEPT ![n] =
                 Append(toMain[n], [type |-> "updateItems", request |-> Pending(n)])]
          /\ updating' = updating
      BY <2>2 DEF flushPending, startUpdate
    <3>3. Append(toMain[n], [type |-> "updateItems", request |-> Pending(n)]) \in Seq(Call)
      BY <1>2, <3>1, AppendProperties
    <3> QED BY <3>1, <3>2, <3>3
  <2>3. CASE ~hasPending(n)
    BY <2>3, MainIsStorage DEF flushPending
  <2> QED BY <2>1, <2>2, <2>3
<1>4. pendingInserts' \in [Storages -> Items] /\ pendingDeletes' \in [Storages -> SUBSET Key]
  BY MainIsStorage DEF flushPending
<1>5. ASSUME NEW m \in Storages PROVE Pending(m)' \in Request
  <2>1. CASE m = n
    <3>1. pendingInserts'[m] = NoItems /\ pendingDeletes'[m] = {}
      BY <2>1 DEF flushPending
    <3> QED BY <3>1, MainIsStorage DEF Pending, Request
  <2>2. CASE m # n
    <3>1. pendingInserts'[m] = pendingInserts[m] /\ pendingDeletes'[m] = pendingDeletes[m]
      BY <2>2 DEF flushPending
    <3> QED BY <3>1 DEF Pending
  <2> QED BY <2>1, <2>2
<1>6. hasPending(n) \in BOOLEAN
  BY DEF hasPending
<1>7. activePromise' \in [Storages -> BOOLEAN]
  BY <1>6 DEF flushPending
<1>8. closing' \in [Storages -> {"no", "delayer", "active", "queued", "never",
                                 "database", "done", "failed"}]
  BY DEF flushPending
<1> QED BY <1>3, <1>4, <1>5, <1>7, <1>8

\* So does the end of an update.
LEMMA FinishedType ==
  ASSUME TypeOK, NEW n \in Storages, NEW rejected \in BOOLEAN, finished(n, rejected)
  PROVE  /\ toMain' \in [Window -> Seq(Call)]
         /\ updating' \in Request
         /\ pendingInserts' \in [Storages -> Items]
         /\ pendingDeletes' \in [Storages -> SUBSET Key]
         /\ \A m \in Storages : Pending(m)' \in Request
         /\ whenFlushedCallbacks' \in [Storages -> BOOLEAN]
         /\ activePromise' \in [Storages -> BOOLEAN]
         /\ queuedPromise' \in [Storages -> BOOLEAN]
         /\ closing' \in [Storages -> {"no", "delayer", "active", "queued", "never",
                                       "database", "done", "failed"}]
<1> USE DEF TypeOK, StorageOK, DelayerOK, ChannelOK, MainOK
<1>1. hasPending(n) \in BOOLEAN
  BY DEF hasPending
<1>2. /\ whenFlushedCallbacks' \in [Storages -> BOOLEAN]
      /\ queuedPromise' \in [Storages -> BOOLEAN]
  BY <1>1 DEF finished
<1>3. CASE queuedPromise[n]
  <2>1. flushPending(n, "queued", "queued")
    BY <1>3 DEF finished
  <2> QED BY <1>2, <2>1, FlushPendingType
<1>4. CASE ~queuedPromise[n]
  <2>1. /\ activePromise' = [activePromise EXCEPT ![n] = FALSE]
        /\ updating' = IF n = Main THEN NoRequest ELSE updating
        /\ UNCHANGED <<pendingInserts, pendingDeletes, toMain>>
        /\ closing' = [closing EXCEPT ![n] =
                         CASE closing[n] = "active" -> "database"
                           [] closing[n] = "queued" -> IF rejected THEN "never" ELSE "database"
                           [] OTHER -> closing[n]]
    BY <1>4 DEF finished
  <2>2. closing' \in [Storages -> {"no", "delayer", "active", "queued", "never",
                                   "database", "done", "failed"}]
    BY <2>1
  <2>3. \A m \in Storages : Pending(m)' = Pending(m)
    BY <2>1 DEF Pending
  <2>4. updating' \in Request
    BY <2>1, MainIsStorage
  <2> QED BY <1>2, <2>1, <2>2, <2>3, <2>4
<1> QED BY <1>3, <1>4

\* A message of either channel is of its type when it was taken from it.
LEMMA HeadOfCall ==
  ASSUME ChannelOK, NEW w \in Window, toMain[w] # <<>>
  PROVE  /\ Head(toMain[w]) \in Call
         /\ Tail(toMain[w]) \in Seq(Call)
BY HeadTailProperties DEF ChannelOK

LEMMA HeadOfReply ==
  ASSUME ChannelOK, NEW w \in Window, toWindow[w] # <<>>
  PROVE  /\ Head(toWindow[w]) \in Reply
         /\ Tail(toWindow[w]) \in Seq(Reply)
BY HeadTailProperties DEF ChannelOK

\* A call of updateItems carries a request.
LEMMA RequestOfCall ==
  ASSUME NEW c \in Call, c.type = "updateItems"
  PROVE  /\ c.request \in Request
         /\ c.request.insert \in Items
         /\ c.request.delete \in SUBSET Key
         /\ \A k \in c.request.delete : c.request.insert[k] = Absent
<1>1. c.request \in Request
  BY DEF Call
<1> QED BY <1>1 DEF Request

\* Every step of the application on a Storage keeps the types.
LEMMA ApplicationType ==
  ASSUME TypeOK, NEW n \in Storages,
         \/ \E k \in Key : delete(n, k) \/ \E v \in Value : set(n, k, v)
         \/ flush(n)
         \/ whenFlushed(n)
         \/ close(n)
  PROVE  TypeOK'
<1> USE DEF TypeOK
<1>1. ASSUME NEW k \in Key, NEW v \in Value, set(n, k, v) PROVE TypeOK'
  <2>1. [NoItems EXCEPT ![k] = v] \in Items
    BY MainIsStorage DEF Items
  <2>2. accept(n, [NoItems EXCEPT ![k] = v], {})
    BY <1>1 DEF set
  <2>3. /\ cache' \in [Storages -> Items]
        /\ pendingInserts' \in [Storages -> Items]
        /\ pendingDeletes' \in [Storages -> SUBSET Key]
        /\ \A m \in Storages : Pending(m)' \in Request
        /\ deferred' \in [Storages -> BOOLEAN]
        /\ changedKeys' \in SUBSET Key
    BY <2>1, <2>2, AcceptType
  <2>5. writes' \in 0 .. MaxWrites
    BY <1>1, StorageAssumption DEF set, Writable, BoundsOK
  <2>6. StorageOK' /\ DelayerOK'
    BY <1>1, <2>3 DEF set, StorageOK, DelayerOK
  <2>7. ChannelOK' /\ MainOK' /\ BoundsOK'
    BY <1>1, <2>3, <2>5 DEF set, ChannelOK, MainOK, BoundsOK, channelVars
  <2> QED BY <2>6, <2>7
<1>2. ASSUME NEW k \in Key, delete(n, k) PROVE TypeOK'
  <2>1. accept(n, NoItems, {k}) /\ NoItems[k] = Absent
    BY <1>2 DEF delete, NoItems
  <2>2. /\ cache' \in [Storages -> Items]
        /\ pendingInserts' \in [Storages -> Items]
        /\ pendingDeletes' \in [Storages -> SUBSET Key]
        /\ \A m \in Storages : Pending(m)' \in Request
        /\ deferred' \in [Storages -> BOOLEAN]
        /\ changedKeys' \in SUBSET Key
    BY <2>1, AcceptType, MainIsStorage
  <2>4. writes' \in 0 .. MaxWrites
    BY <1>2, StorageAssumption DEF delete, Writable, BoundsOK
  <2>5. StorageOK' /\ DelayerOK'
    BY <1>2, <2>2 DEF delete, StorageOK, DelayerOK
  <2>6. ChannelOK' /\ MainOK' /\ BoundsOK'
    BY <1>2, <2>2, <2>4 DEF delete, ChannelOK, MainOK, BoundsOK, channelVars
  <2> QED BY <2>5, <2>6
<1>3. CASE flush(n)
  BY <1>3 DEF flush, StorageOK, DelayerOK, ChannelOK, MainOK, BoundsOK, Pending,
              storageVars, channelVars, mainVars, boundVars
<1>4. CASE whenFlushed(n)
  BY <1>4 DEF whenFlushed, StorageOK, DelayerOK, ChannelOK, MainOK, BoundsOK, Pending,
              delayerVars, channelVars, mainVars, boundVars
<1>5. CASE close(n)
  BY <1>5 DEF close, StorageOK, DelayerOK, ChannelOK, MainOK, BoundsOK, Pending,
              channelVars, mainVars, boundVars
<1> QED BY <1>1, <1>2, <1>3, <1>4, <1>5

\* The timer of the Delayer keeps the types.
LEMMA TriggerType ==
  ASSUME TypeOK, NEW n \in Storages, trigger(n)
  PROVE  TypeOK'
<1> USE DEF TypeOK
<1>1. /\ deferred' = [deferred EXCEPT ![n] = FALSE]
      /\ UNCHANGED <<state, cache, whenFlushedCallbacks, ready, toWindow, listening,
                     changedKeys, db, isErroneous, boundVars>>
  BY DEF trigger
<1>2. CASE activePromise[n]
  <2>1. /\ queuedPromise' = [queuedPromise EXCEPT ![n] = TRUE]
        /\ closing' = [closing EXCEPT ![n] =
                         IF closing[n] = "delayer" THEN "queued" ELSE closing[n]]
        /\ UNCHANGED <<activePromise, pendingInserts, pendingDeletes, updating, toMain>>
    BY <1>2 DEF trigger
  <2> QED BY <1>1, <2>1 DEF StorageOK, DelayerOK, ChannelOK, MainOK, BoundsOK, Pending, boundVars
<1>3. CASE ~activePromise[n]
  <2>1. flushPending(n, "delayer", "active") /\ UNCHANGED queuedPromise
    BY <1>3 DEF trigger
  <2>2. /\ toMain' \in [Window -> Seq(Call)]
        /\ updating' \in Request
        /\ pendingInserts' \in [Storages -> Items]
        /\ pendingDeletes' \in [Storages -> SUBSET Key]
        /\ \A m \in Storages : Pending(m)' \in Request
        /\ activePromise' \in [Storages -> BOOLEAN]
        /\ closing' \in [Storages -> {"no", "delayer", "active", "queued", "never",
                                      "database", "done", "failed"}]
    BY <2>1, FlushPendingType
  <2> QED BY <1>1, <2>1, <2>2 DEF StorageOK, DelayerOK, ChannelOK, MainOK, BoundsOK, boundVars
<1> QED BY <1>2, <1>3

\* The main process keeps the types when it answers a call.
LEMMA CallType ==
  ASSUME TypeOK, NEW w \in Window, call(w)
  PROVE  TypeOK'
<1> USE DEF TypeOK
<1>1. /\ toMain[w] # <<>>
      /\ toMain' = [toMain EXCEPT ![w] = Tail(toMain[w])]
  BY DEF call
<1>2. toMain' \in [Window -> Seq(Call)] /\ Head(toMain[w]) \in Call
  BY <1>1, HeadOfCall DEF ChannelOK
<1>3. \A msg \in Reply : Answered(w, msg) \in [Window -> Seq(Reply)]
  BY AppendProperties DEF Answered, ChannelOK
<1>4. CASE callListen(w)
  BY <1>2, <1>4 DEF callListen, StorageOK, DelayerOK, ChannelOK, MainOK, BoundsOK, Pending,
                    storageVars, delayerVars, mainVars, boundVars
<1>5. CASE callGetItems(w)
  <2>1. [type |-> "items", items |-> cache[Main]] \in Reply
    BY MainIsStorage DEF Reply, StorageOK
  <2>2. toWindow' \in [Window -> Seq(Reply)]
    BY <1>3, <1>5, <2>1 DEF callGetItems
  <2> QED BY <1>2, <1>5, <2>2
          DEF callGetItems, StorageOK, DelayerOK, ChannelOK, MainOK, BoundsOK, Pending,
              storageVars, delayerVars, mainVars, boundVars
<1>6. CASE callUpdateItems(w)
  <2>1. [type |-> "updated"] \in Reply
    BY DEF Reply
  <2>2. toWindow' \in [Window -> Seq(Reply)]
    BY <1>3, <1>6, <2>1 DEF callUpdateItems
  <2>3. UNCHANGED <<state, whenFlushedCallbacks, closing, ready, activePromise, queuedPromise,
                    listening, updating, db, isErroneous, boundVars>>
    BY <1>6 DEF callUpdateItems
  <2>4. /\ cache' \in [Storages -> Items]
        /\ pendingInserts' \in [Storages -> Items]
        /\ pendingDeletes' \in [Storages -> SUBSET Key]
        /\ \A m \in Storages : Pending(m)' \in Request
        /\ deferred' \in [Storages -> BOOLEAN]
        /\ changedKeys' \in SUBSET Key
    <3>1. CASE state[Main] = "Closed"
      BY <1>6, <3>1 DEF callUpdateItems, StorageOK, DelayerOK, MainOK, Pending
    <3>2. CASE state[Main] # "Closed"
      <4>1. accept(Main, Head(toMain[w]).request.insert, Head(toMain[w]).request.delete)
        BY <1>6, <3>2 DEF callUpdateItems
      <4>2. Head(toMain[w]).type = "updateItems"
        BY <1>6 DEF callUpdateItems
      <4> DEFINE r == Head(toMain[w]).request
      <4>3. /\ r.insert \in Items
            /\ r.delete \in SUBSET Key
            /\ \A k \in r.delete : r.insert[k] = Absent
        BY <1>2, <4>2, RequestOfCall
      <4> HIDE DEF r
      <4> QED BY <4>1, <4>3, AcceptType, MainIsStorage DEF r
    <3> QED BY <3>1, <3>2
  <2> QED BY <1>2, <2>2, <2>3, <2>4 DEF StorageOK, DelayerOK, ChannelOK, MainOK, BoundsOK, boundVars
<1> QED BY <1>4, <1>5, <1>6 DEF call

\* A change event and its broadcast keep the types.
LEMMA FireType ==
  ASSUME TypeOK, fireChangeEvents
  PROVE  TypeOK'
<1> USE DEF TypeOK
<1>1. ChangeEvent(changedKeys) \in Reply
  <2>1. [k \in Key |-> IF k \in changedKeys THEN cache[Main][k] ELSE Absent] \in Items
    BY MainIsStorage DEF StorageOK, Items
  <2>2. {k \in changedKeys : cache[Main][k] = Absent} \in SUBSET Key
    BY DEF MainOK
  <2> QED BY <2>1, <2>2 DEF ChangeEvent, Reply
<1>2. ASSUME NEW w \in Window
      PROVE  Append(toWindow[w], ChangeEvent(changedKeys)) \in Seq(Reply)
  BY <1>1, AppendProperties DEF ChannelOK
<1>3. toWindow' \in [Window -> Seq(Reply)]
  BY <1>2 DEF fireChangeEvents, ChannelOK
<1>4. /\ changedKeys' = {}
      /\ UNCHANGED <<storageVars, delayerVars, toMain, listening, updating, db, isErroneous,
                     boundVars>>
  BY DEF fireChangeEvents
<1> QED BY <1>3, <1>4 DEF StorageOK, DelayerOK, ChannelOK, MainOK, BoundsOK, Pending,
                          storageVars, delayerVars, boundVars

\* A window keeps the types when it gets a message.
LEMMA ReceiveType ==
  ASSUME TypeOK, NEW w \in Window, receive(w)
  PROVE  TypeOK'
<1> USE DEF TypeOK
<1> DEFINE e == Head(toWindow[w])
<1>1. /\ toWindow[w] # <<>>
      /\ toWindow' = [toWindow EXCEPT ![w] = Tail(toWindow[w])]
      /\ UNCHANGED <<listening, changedKeys, db, isErroneous, boundVars>>
  BY DEF receive
<1>2. toWindow' \in [Window -> Seq(Reply)] /\ e \in Reply
  BY <1>1, HeadOfReply DEF ChannelOK
<1>3. w \in Storages
  BY MainIsStorage
<1> HIDE DEF e
<1>4. CASE receiveItems(w)
  <2>1. e.items \in Items
    BY <1>2, <1>4 DEF receiveItems, Reply, e
  <2>2. cache' \in [Storages -> Items]
    BY <1>3, <1>4, <2>1 DEF receiveItems, StorageOK, e
  <2> QED BY <1>1, <1>2, <1>4, <2>2
          DEF receiveItems, StorageOK, DelayerOK, ChannelOK, MainOK, BoundsOK, Pending,
              delayerVars, boundVars
<1>5. CASE receiveChange(w)
  <2>1. e.changed \in Items
    BY <1>2, <1>5 DEF receiveChange, Reply, e
  <2>2. cache' = IF state[w] = "Closed" THEN cache
                 ELSE [cache EXCEPT ![w] =
                        [k \in Key |-> IF e.changed[k] # Absent THEN e.changed[k]
                                       ELSE IF k \in e.deleted THEN Absent ELSE cache[w][k]]]
    BY <1>5 DEF receiveChange, e
  <2>3. [k \in Key |-> IF e.changed[k] # Absent THEN e.changed[k]
                       ELSE IF k \in e.deleted THEN Absent ELSE cache[w][k]] \in Items
    BY <1>3, <2>1 DEF StorageOK, Items
  <2>4. cache' \in [Storages -> Items]
    BY <2>2, <2>3 DEF StorageOK
  <2> QED BY <1>1, <1>2, <1>5, <2>4
          DEF receiveChange, StorageOK, DelayerOK, ChannelOK, MainOK, BoundsOK, Pending,
              delayerVars, boundVars
<1>6. CASE receiveUpdated(w)
  <2>1. finished(w, FALSE) /\ UNCHANGED <<state, cache, ready, deferred>>
    BY <1>6 DEF receiveUpdated
  <2>2. /\ toMain' \in [Window -> Seq(Call)]
        /\ updating' \in Request
        /\ pendingInserts' \in [Storages -> Items]
        /\ pendingDeletes' \in [Storages -> SUBSET Key]
        /\ \A m \in Storages : Pending(m)' \in Request
        /\ whenFlushedCallbacks' \in [Storages -> BOOLEAN]
        /\ activePromise' \in [Storages -> BOOLEAN]
        /\ queuedPromise' \in [Storages -> BOOLEAN]
        /\ closing' \in [Storages -> {"no", "delayer", "active", "queued", "never",
                                      "database", "done", "failed"}]
    BY <1>3, <2>1, FinishedType
  <2> QED BY <1>1, <1>2, <2>1, <2>2
          DEF StorageOK, DelayerOK, ChannelOK, MainOK, BoundsOK, boundVars
<1> QED BY <1>4, <1>5, <1>6 DEF receive

\* Opening a window and closing its client keep the types.
LEMMA WindowType ==
  ASSUME TypeOK, NEW w \in Window, openWindow(w) \/ closeClient(w)
  PROVE  TypeOK'
<1> USE DEF TypeOK
<1>1. w \in Storages
  BY MainIsStorage
<1>2. CASE openWindow(w)
  <2>1. <<[type |-> "listen"], [type |-> "getItems"]>> \in Seq(Call)
    BY DEF Call
  <2>2. toMain' \in [Window -> Seq(Call)]
    BY <1>2, <2>1 DEF openWindow, ChannelOK
  <2>3. opens' \in 0 .. MaxOpens
    BY <1>2, StorageAssumption DEF openWindow, BoundsOK
  <2>4. cache' \in [Storages -> Items]
    BY <1>2, MainIsStorage DEF openWindow, StorageOK
  <2>5. StorageOK'
    BY <1>2, <2>4 DEF openWindow, StorageOK, Pending
  <2> QED BY <1>2, <2>2, <2>3, <2>5
          DEF openWindow, DelayerOK, ChannelOK, MainOK, BoundsOK, delayerVars, mainVars
<1>3. CASE closeClient(w)
  <2>1. <<>> \in Seq(Reply)
    OBVIOUS
  <2>2. ChannelOK'
    BY <1>3, <2>1 DEF closeClient, ChannelOK
  <2>3. StorageOK'
    BY <1>3 DEF closeClient, StorageOK, Pending
  <2> QED BY <1>3, <2>2, <2>3
          DEF closeClient, DelayerOK, MainOK, BoundsOK, delayerVars, mainVars, boundVars
<1> QED BY <1>2, <1>3

\* The database keeps the types.
LEMMA DatabaseType ==
  ASSUME TypeOK, updateItems \/ updateItemsFails \/ closeDatabase \/ closeDatabaseFails
  PROVE  TypeOK'
<1> USE DEF TypeOK
<1>1. /\ updating = [insert |-> updating.insert, delete |-> updating.delete]
      /\ updating.insert \in Items
      /\ updating.delete \in SUBSET Key
  BY DEF MainOK, Request
<1>2. /\ Overlaid(db, updating) \in Items
      /\ Overlaid(db, [updating EXCEPT !.insert = NoItems]) \in Items
      /\ Overlaid(db, [updating EXCEPT !.delete = {}]) \in Items
  <2>1. [updating EXCEPT !.insert = NoItems] = [insert |-> NoItems, delete |-> updating.delete]
    BY <1>1
  <2>2. [updating EXCEPT !.delete = {}] = [insert |-> updating.insert, delete |-> {}]
    BY <1>1
  <2>3. db \in Items
    BY DEF MainOK
  <2> QED BY <1>1, <2>1, <2>2, <2>3, OverlaidType, MainIsStorage
<1>3. ASSUME NEW rejected \in BOOLEAN, finished(Main, rejected),
             db' \in Items, isErroneous' \in BOOLEAN, BoundsOK',
             UNCHANGED <<state, cache, ready, deferred, toWindow, listening, changedKeys>>
      PROVE  TypeOK'
  <2>1. /\ toMain' \in [Window -> Seq(Call)]
        /\ updating' \in Request
        /\ pendingInserts' \in [Storages -> Items]
        /\ pendingDeletes' \in [Storages -> SUBSET Key]
        /\ \A m \in Storages : Pending(m)' \in Request
        /\ whenFlushedCallbacks' \in [Storages -> BOOLEAN]
        /\ activePromise' \in [Storages -> BOOLEAN]
        /\ queuedPromise' \in [Storages -> BOOLEAN]
        /\ closing' \in [Storages -> {"no", "delayer", "active", "queued", "never",
                                      "database", "done", "failed"}]
    BY <1>3, FinishedType, MainIsStorage
  <2> QED BY <1>3, <2>1 DEF StorageOK, DelayerOK, ChannelOK, MainOK
<1>4. CASE updateItems
  <2>1. finished(Main, FALSE) /\ db' \in Items
    BY <1>2, <1>4 DEF updateItems
  <2>2. isErroneous' \in BOOLEAN /\ BoundsOK'
    BY <1>4 DEF updateItems, MainOK, BoundsOK, boundVars
  <2>3. UNCHANGED <<state, cache, ready, deferred, toWindow, listening, changedKeys>>
    BY <1>4 DEF updateItems
  <2> QED BY <1>3, <2>1, <2>2, <2>3
<1>5. CASE updateItemsFails
  <2>1. (finished(Main, TRUE) \/ finished(Main, FALSE)) /\ db' \in Items
    BY <1>2, <1>5 DEF updateItemsFails, MainOK
  <2>2. isErroneous' \in BOOLEAN /\ BoundsOK'
    BY <1>5, StorageAssumption DEF updateItemsFails, BoundsOK
  <2>3. UNCHANGED <<state, cache, ready, deferred, toWindow, listening, changedKeys>>
    BY <1>5 DEF updateItemsFails
  <2> QED BY <1>3, <2>1, <2>2, <2>3
<1>6. CASE closeDatabase
  <2>1. db' \in Items
    BY <1>6, MainIsStorage DEF closeDatabase, StorageOK, MainOK
  <2> QED BY <1>6, <2>1
          DEF closeDatabase, StorageOK, DelayerOK, ChannelOK, MainOK, BoundsOK, Pending,
              delayerVars, channelVars, boundVars
<1>7. CASE closeDatabaseFails
  <2>1. db' \in Items
    BY <1>7, MainIsStorage DEF closeDatabaseFails, MainOK
  <2>2. failures' \in 0 .. MaxFailures
    BY <1>7, StorageAssumption DEF closeDatabaseFails, BoundsOK
  <2> QED BY <1>7, <2>1, <2>2
          DEF closeDatabaseFails, StorageOK, DelayerOK, ChannelOK, MainOK, BoundsOK, Pending,
              delayerVars, channelVars
<1> QED BY <1>4, <1>5, <1>6, <1>7

LEMMA TypeInit == Init => TypeOK
<1> SUFFICES ASSUME Init PROVE TypeOK
  OBVIOUS
<1>1. \A n \in Storages : Pending(n) = NoRequest
  BY DEF Init, Pending, NoRequest
<1>2. StorageOK
  BY <1>1, MainIsStorage DEF Init, StorageOK
<1>3. DelayerOK
  BY DEF Init, DelayerOK
<1>4. ChannelOK
  BY DEF Init, ChannelOK
<1>5. MainOK
  BY MainIsStorage DEF Init, MainOK
<1>6. BoundsOK
  BY StorageAssumption DEF Init, BoundsOK
<1> QED BY <1>2, <1>3, <1>4, <1>5, <1>6 DEF TypeOK

LEMMA TypeNext == TypeOK /\ [Next]_vars => TypeOK'
<1> SUFFICES ASSUME TypeOK, [Next]_vars PROVE TypeOK'
  OBVIOUS
<1>1. CASE UNCHANGED vars
  BY <1>1 DEF TypeOK, StorageOK, DelayerOK, ChannelOK, MainOK, BoundsOK, Pending, vars,
              storageVars, delayerVars, channelVars, mainVars, boundVars
<1>2. CASE Next
  BY <1>2, ApplicationType, TriggerType, CallType, WindowType, ReceiveType, FireType,
     DatabaseType DEF Next
<1> QED BY <1>1, <1>2

\* In every reachable state each Storage, channel and the database have their
\* types, and no key is ever both to be inserted and to be deleted (set and
\* delete take back each other's pending entry).
THEOREM StorageTypeCorrect == Spec => []TypeOK
BY TypeInit, TypeNext, PTL DEF Spec

-----------------------------------------------------------------------------
(***************************************************************************)
(* The main process's cache and its database.                              *)
(***************************************************************************)
Inv ==
  /\ TypeOK
  /\ ThrottlerOrder
  /\ CloseOrder
  /\ CacheIsAccounted
  /\ ClosedIsStored

\* The variables of the main process's Storage and database.
mainStorageVars ==
  <<state[Main], cache[Main], pendingInserts[Main], pendingDeletes[Main], closing[Main],
    deferred[Main], activePromise[Main], queuedPromise[Main], updating, db, isErroneous>>

\* A step that leaves them alone preserves the invariant.
LEMMA OtherSteps ==
  ASSUME Inv, TypeOK', UNCHANGED mainStorageVars
  PROVE  Inv'
<1>1. Pending(Main)' = Pending(Main) /\ hasPending(Main)' = hasPending(Main)
  BY DEF Pending, hasPending, mainStorageVars
<1> HIDE DEF Pending, hasPending
<1>2. ThrottlerOrder' /\ ClosedIsStored'
  BY DEF Inv, ThrottlerOrder, ClosedIsStored, mainStorageVars
<1>3. CloseOrder'
  BY <1>1 DEF Inv, CloseOrder, Idle, mainStorageVars
<1>4. CacheIsAccounted'
  <2>1. Overlaid(Overlaid(db, updating), Pending(Main))' =
          Overlaid(Overlaid(db, updating), Pending(Main))
    BY <1>1 DEF Overlaid, mainStorageVars
  <2> QED BY <2>1 DEF Inv, CacheIsAccounted, mainStorageVars
<1> QED BY <1>2, <1>3, <1>4 DEF Inv

\* With nothing pending and no update, the overlays change nothing.
LEMMA OverlaidNothing ==
  ASSUME NEW items \in Items
  PROVE  Overlaid(items, NoRequest) = items
BY DEF Overlaid, NoRequest, NoItems, Items

\* Pending writes that are changed by a batch of set and delete calls overlay
\* to what the batch makes of what they overlaid to before.
LEMMA OverlaidChanged ==
  ASSUME NEW base \in Items, NEW insert \in Items,
         NEW ins \in Items, NEW del \in SUBSET Key,
         NEW S \in SUBSET Key, NEW D \in SUBSET Key,
         \A k \in S : insert[k] # Absent,
         S \cap D = {}
  PROVE  Overlaid(base, [insert |-> Changed(ins, insert, S, D), delete |-> (del \ S) \cup D])
           = Changed(Overlaid(base, [insert |-> ins, delete |-> del]), insert, S, D)
<1> DEFINE L == Overlaid(base, [insert |-> Changed(ins, insert, S, D), delete |-> (del \ S) \cup D])
           R == Changed(Overlaid(base, [insert |-> ins, delete |-> del]), insert, S, D)
<1>1. ASSUME NEW k \in Key PROVE L[k] = R[k]
  BY DEF Overlaid, Changed
<1>2. L = [k \in Key |-> L[k]] /\ R = [k \in Key |-> R[k]]
  BY DEF Overlaid, Changed
<1> HIDE DEF L, R
<1>3. L = R
  BY <1>1, <1>2
<1> QED BY <1>3 DEF L, R

\* A batch of set and delete calls on the main process's Storage that is not
\* closed preserves the invariant.
LEMMA AcceptMain ==
  ASSUME Inv, TypeOK', NEW insert \in Items, NEW deleted \in SUBSET Key,
         \A k \in deleted : insert[k] = Absent,
         accept(Main, insert, deleted),
         state[Main] # "Closed",
         UNCHANGED <<state, closing, activePromise, queuedPromise, updating, db, isErroneous>>
  PROVE  Inv'
<1> DEFINE S == Differing(Main, insert)
           D == Present(Main, deleted)
<1>1. /\ S \in SUBSET Key /\ D \in SUBSET Key /\ S \cap D = {}
      /\ \A k \in S : insert[k] # Absent
  BY DEF Differing, Present
<1>2. /\ cache'[Main] = Changed(cache[Main], insert, S, D)
      /\ pendingInserts'[Main] = Changed(pendingInserts[Main], insert, S, D)
      /\ pendingDeletes'[Main] = (pendingDeletes[Main] \ S) \cup D
  BY MainIsStorage DEF accept, Inv, TypeOK, StorageOK
<1> HIDE DEF S, D
<1>3. closing[Main] = "no" /\ closing'[Main] = "no" /\ state'[Main] # "Closed"
  BY DEF Inv, CloseOrder
<1>4. ThrottlerOrder' /\ CloseOrder' /\ ClosedIsStored'
  BY <1>3 DEF Inv, ThrottlerOrder, CloseOrder, ClosedIsStored
<1>5. CacheIsAccounted'
  <2> SUFFICES ASSUME ~isErroneous
               PROVE  cache'[Main] = Overlaid(Overlaid(db, updating), Pending(Main)')
    BY DEF CacheIsAccounted, Overlaid
  <2> DEFINE base == Overlaid(db, updating)
  <2>1. base \in Items
    <3>1. updating = [insert |-> updating.insert, delete |-> updating.delete]
          /\ updating.insert \in Items /\ updating.delete \in SUBSET Key /\ db \in Items
      BY DEF Inv, TypeOK, MainOK, Request
    <3> QED BY <3>1, OverlaidType
  <2>2. cache[Main] = Overlaid(base, Pending(Main))
    BY DEF Inv, CacheIsAccounted
  <2>3. pendingInserts[Main] \in Items /\ pendingDeletes[Main] \in SUBSET Key
    BY MainIsStorage DEF Inv, TypeOK, StorageOK
  <2> HIDE DEF base
  <2>4. Overlaid(base, Pending(Main)') = Changed(Overlaid(base, Pending(Main)), insert, S, D)
    <3> DEFINE ins == pendingInserts[Main]
               del == pendingDeletes[Main]
    <3>1. Overlaid(base, [insert |-> Changed(ins, insert, S, D), delete |-> (del \ S) \cup D])
            = Changed(Overlaid(base, [insert |-> ins, delete |-> del]), insert, S, D)
      BY <1>1, <2>1, <2>3, OverlaidChanged
    <3>2. /\ Pending(Main)' = [insert |-> Changed(ins, insert, S, D), delete |-> (del \ S) \cup D]
          /\ Pending(Main) = [insert |-> ins, delete |-> del]
      BY <1>2 DEF Pending
    <3> QED BY <3>1, <3>2
  <2> QED BY <1>2, <2>2, <2>4 DEF base
<1> QED BY <1>4, <1>5 DEF Inv

\* What is not pending is the empty request.
LEMMA NothingPending ==
  ASSUME NEW n, ~hasPending(n)
  PROVE  Pending(n) = NoRequest
BY DEF hasPending, Pending, NoRequest

\* A flush moves what is pending into the running update.
LEMMA FlushMain ==
  ASSUME TypeOK, NEW base \in Items, NEW waited, NEW next,
         flushPending(Main, waited, next)
  PROVE  /\ ~hasPending(Main)'
         /\ Overlaid(Overlaid(base, updating'), Pending(Main)') = Overlaid(base, Pending(Main))
         /\ activePromise'[Main] = hasPending(Main)
         /\ ~activePromise'[Main] => updating' = NoRequest
         /\ closing'[Main] = IF closing[Main] # waited THEN closing[Main]
                             ELSE IF hasPending(Main) THEN next ELSE "database"
<1>1. /\ pendingInserts'[Main] = NoItems
      /\ pendingDeletes'[Main] = {}
      /\ activePromise'[Main] = hasPending(Main)
      /\ closing'[Main] = IF closing[Main] # waited THEN closing[Main]
                          ELSE IF hasPending(Main) THEN next ELSE "database"
  BY MainIsStorage DEF flushPending, TypeOK, StorageOK, DelayerOK
<1>2. ~hasPending(Main)' /\ Pending(Main)' = NoRequest
  BY <1>1 DEF hasPending, Pending, NoRequest
<1>3. updating' = Pending(Main)
  <2>1. CASE hasPending(Main)
    BY <2>1 DEF flushPending, startUpdate
  <2>2. CASE ~hasPending(Main)
    BY <2>2, NothingPending DEF flushPending
  <2> QED BY <2>1, <2>2
<1>4. Overlaid(base, Pending(Main)) \in Items
  BY MainIsStorage, OverlaidType DEF TypeOK, StorageOK, Pending
<1>5. ~hasPending(Main) => updating' = NoRequest
  BY <1>3, NothingPending
<1> QED BY <1>1, <1>2, <1>3, <1>4, <1>5, OverlaidNothing

\* The timer of the main process's Delayer preserves the invariant.
LEMMA TriggerMain ==
  ASSUME Inv, TypeOK', trigger(Main)
  PROVE  Inv'
<1> USE DEF Inv
<1>1. /\ deferred[Main]
      /\ ~deferred'[Main]
      /\ UNCHANGED <<state, cache, db, isErroneous>>
      /\ closing[Main] \in {"no", "delayer"}
  BY MainIsStorage DEF trigger, CloseOrder, Idle, TypeOK, StorageOK, DelayerOK
<1>2. CASE activePromise[Main]
  <2>1. /\ queuedPromise'[Main]
        /\ closing'[Main] = IF closing[Main] = "delayer" THEN "queued" ELSE closing[Main]
        /\ UNCHANGED <<activePromise, pendingInserts, pendingDeletes, updating>>
    BY <1>2, MainIsStorage DEF trigger, TypeOK, StorageOK, DelayerOK
  <2>2. Pending(Main)' = Pending(Main) /\ hasPending(Main)' = hasPending(Main)
    BY <2>1 DEF Pending, hasPending
  <2>3. ThrottlerOrder'
    BY <1>2, <2>1 DEF ThrottlerOrder
  <2>4. CloseOrder'
    BY <1>1, <1>2, <2>1 DEF CloseOrder
  <2>5. CacheIsAccounted'
    BY <1>1, <2>1, <2>2 DEF CacheIsAccounted, Overlaid
  <2>6. ClosedIsStored'
    BY <1>1, <2>1 DEF ClosedIsStored
  <2> QED BY <2>3, <2>4, <2>5, <2>6
<1>3. CASE ~activePromise[Main]
  <2>1. flushPending(Main, "delayer", "active") /\ queuedPromise' = queuedPromise
    BY <1>3 DEF trigger
  <2>2. db \in Items
    BY DEF TypeOK, MainOK
  <2>3. /\ ~hasPending(Main)'
        /\ Overlaid(Overlaid(db, updating'), Pending(Main)') = Overlaid(db, Pending(Main))
        /\ activePromise'[Main] = hasPending(Main)
        /\ ~activePromise'[Main] => updating' = NoRequest
        /\ closing'[Main] = IF closing[Main] # "delayer" THEN closing[Main]
                            ELSE IF hasPending(Main) THEN "active" ELSE "database"
    BY <2>1, <2>2, FlushMain
  <2>4. ~queuedPromise[Main] /\ updating = NoRequest
    BY <1>3 DEF ThrottlerOrder
  <2>5. ThrottlerOrder'
    BY <2>1, <2>3, <2>4 DEF ThrottlerOrder
  <2>6. CloseOrder'
    BY <1>1, <2>1, <2>3, <2>4 DEF CloseOrder, Idle
  <2>7. CacheIsAccounted'
    <3> SUFFICES ASSUME ~isErroneous
                 PROVE  cache[Main] = Overlaid(Overlaid(db, updating'), Pending(Main)')
      BY <1>1 DEF CacheIsAccounted, Overlaid
    <3>1. cache[Main] = Overlaid(db, Pending(Main))
      BY <2>2, <2>4, OverlaidNothing DEF CacheIsAccounted
    <3> QED BY <2>3, <3>1
  <2>8. ClosedIsStored'
    BY <1>1, <2>3 DEF ClosedIsStored
  <2> QED BY <2>5, <2>6, <2>7, <2>8
<1> QED BY <1>2, <1>3

\* The end of an update preserves the invariant if the database then holds what
\* was updated, or an error is remembered.
LEMMA FinishedMain ==
  ASSUME Inv, TypeOK', NEW rejected \in BOOLEAN, finished(Main, rejected),
         activePromise[Main],
         ~isErroneous' => ~isErroneous /\ db' = Overlaid(db, updating),
         UNCHANGED <<state, cache, deferred>>
  PROVE  Inv'
<1> USE DEF Inv
<1>1. closing[Main] \in {"no", "delayer", "active", "queued"}
  BY MainIsStorage DEF CloseOrder, Idle, TypeOK, StorageOK
<1>2. db' \in Items
  BY DEF TypeOK, MainOK
<1>3. ~isErroneous' => cache[Main] = Overlaid(db', Pending(Main))
  BY DEF CacheIsAccounted
<1>4. ~queuedPromise'[Main]
  BY MainIsStorage DEF finished, TypeOK, DelayerOK
<1>5. CASE queuedPromise[Main]
  <2>1. flushPending(Main, "queued", "queued")
    BY <1>5 DEF finished
  <2>2. /\ ~hasPending(Main)'
        /\ Overlaid(Overlaid(db', updating'), Pending(Main)') = Overlaid(db', Pending(Main))
        /\ activePromise'[Main] = hasPending(Main)
        /\ ~activePromise'[Main] => updating' = NoRequest
        /\ closing'[Main] = IF closing[Main] # "queued" THEN closing[Main]
                            ELSE IF hasPending(Main) THEN "queued" ELSE "database"
    BY <1>2, <2>1, FlushMain
  <2>3. closing[Main] # "active"
    BY <1>5 DEF CloseOrder
  <2>4. ThrottlerOrder'
    BY <1>4, <2>2 DEF ThrottlerOrder
  <2>5. CloseOrder'
    BY <1>1, <1>4, <2>2, <2>3 DEF CloseOrder, Idle
  <2>6. CacheIsAccounted'
    BY <1>3, <2>2 DEF CacheIsAccounted, Overlaid
  <2>7. ClosedIsStored'
    BY <1>1, <2>2 DEF ClosedIsStored
  <2> QED BY <2>4, <2>5, <2>6, <2>7
<1>6. CASE ~queuedPromise[Main]
  <2>1. /\ ~activePromise'[Main]
        /\ updating' = NoRequest
        /\ UNCHANGED <<pendingInserts, pendingDeletes>>
    BY <1>6, MainIsStorage DEF finished, TypeOK, DelayerOK
  <2>2. /\ closing[Main] \in {"active", "queued"} => closing'[Main] \in {"never", "database"}
        /\ closing[Main] \in {"no", "delayer"} => closing'[Main] = closing[Main]
    BY <1>6, MainIsStorage DEF finished, TypeOK, StorageOK
  <2>3. Pending(Main)' = Pending(Main) /\ hasPending(Main)' = hasPending(Main)
    BY <2>1 DEF Pending, hasPending
  <2>4. ThrottlerOrder'
    BY <1>4, <2>1 DEF ThrottlerOrder
  <2>5. CloseOrder'
    <3>1. CASE closing[Main] \in {"active", "queued"}
      <4>1. ~deferred[Main] /\ ~hasPending(Main) /\ state[Main] = "Closed"
        BY <1>6, <3>1 DEF CloseOrder
      <4> QED BY <1>4, <2>1, <2>2, <2>3, <3>1, <4>1 DEF CloseOrder, Idle
    <3>2. CASE closing[Main] \in {"no", "delayer"}
      BY <2>2, <3>2 DEF CloseOrder
    <3> QED BY <1>1, <3>1, <3>2
  <2>6. CacheIsAccounted'
    <3>1. Overlaid(db', NoRequest) = db'
      BY <1>2, OverlaidNothing
    <3>2. Overlaid(Overlaid(db, updating), Pending(Main))' =
            Overlaid(Overlaid(db', NoRequest), Pending(Main))
      BY <2>1, <2>3 DEF Overlaid
    <3> QED BY <1>3, <3>1, <3>2 DEF CacheIsAccounted
  <2>7. ClosedIsStored'
    BY <1>1, <2>2 DEF ClosedIsStored
  <2> QED BY <2>4, <2>5, <2>6, <2>7
<1> QED BY <1>5, <1>6

\* The application's calls on the main process's Storage preserve the invariant.
LEMMA ApplicationMain ==
  ASSUME Inv, TypeOK',
         \/ \E k \in Key : delete(Main, k) \/ \E v \in Value : set(Main, k, v)
         \/ flush(Main)
         \/ whenFlushed(Main)
         \/ close(Main)
  PROVE  Inv'
<1>1. ASSUME NEW k \in Key, NEW v \in Value, set(Main, k, v) PROVE Inv'
  <2>1. [NoItems EXCEPT ![k] = v] \in Items
    BY MainIsStorage DEF Items
  <2>2. /\ accept(Main, [NoItems EXCEPT ![k] = v], {})
        /\ state[Main] # "Closed"
        /\ UNCHANGED <<state, closing, activePromise, queuedPromise, updating, db, isErroneous>>
    BY <1>1 DEF set, Writable
  <2> QED BY <2>1, <2>2, AcceptMain
<1>2. ASSUME NEW k \in Key, delete(Main, k) PROVE Inv'
  <2>1. /\ accept(Main, NoItems, {k})
        /\ state[Main] # "Closed"
        /\ UNCHANGED <<state, closing, activePromise, queuedPromise, updating, db, isErroneous>>
    BY <1>2 DEF delete, Writable
  <2>2. NoItems \in Items /\ {k} \in SUBSET Key /\ \A j \in {k} : NoItems[j] = Absent
    BY MainIsStorage DEF NoItems
  <2> QED BY <2>1, <2>2, AcceptMain
<1>3. CASE flush(Main)
  <2>1. /\ state[Main] = "Initialized"
        /\ UNCHANGED <<state, cache, pendingInserts, pendingDeletes, closing, activePromise,
                       queuedPromise, updating, db, isErroneous>>
    BY <1>3 DEF flush, storageVars, mainVars
  <2>2. Pending(Main)' = Pending(Main)
    BY <2>1 DEF Pending
  <2>3. CloseOrder'
    BY <2>1 DEF Inv, CloseOrder
  <2>4. ThrottlerOrder' /\ CacheIsAccounted' /\ ClosedIsStored'
    BY <2>1, <2>2 DEF Inv, ThrottlerOrder, CacheIsAccounted, ClosedIsStored, Overlaid
  <2> QED BY <2>3, <2>4 DEF Inv
<1>4. CASE whenFlushed(Main)
  BY <1>4, OtherSteps DEF whenFlushed, mainStorageVars, delayerVars, mainVars
<1>5. CASE close(Main)
  <2>1. /\ state'[Main] = "Closed"
        /\ deferred'[Main]
        /\ closing'[Main] = "delayer"
        /\ UNCHANGED <<cache, pendingInserts, pendingDeletes, activePromise, queuedPromise,
                       updating, db, isErroneous>>
    BY <1>5, MainIsStorage DEF close, mainVars, Inv, TypeOK, StorageOK, DelayerOK
  <2>2. Pending(Main)' = Pending(Main)
    BY <2>1 DEF Pending
  <2>3. CloseOrder' /\ ClosedIsStored'
    BY <2>1 DEF CloseOrder, ClosedIsStored
  <2>4. ThrottlerOrder' /\ CacheIsAccounted'
    BY <2>1, <2>2 DEF Inv, ThrottlerOrder, CacheIsAccounted, Overlaid
  <2> QED BY <2>3, <2>4 DEF Inv
<1> QED BY <1>1, <1>2, <1>3, <1>4, <1>5

\* What happens on a window's Storage leaves the main process's alone.
LEMMA WindowSteps ==
  ASSUME Inv, TypeOK', NEW w \in Window,
         \/ \E k \in Key : delete(w, k) \/ \E v \in Value : set(w, k, v)
         \/ trigger(w)
         \/ flush(w)
         \/ whenFlushed(w)
         \/ close(w)
         \/ openWindow(w)
         \/ receive(w)
         \/ closeClient(w)
  PROVE  Inv'
<1>1. w # Main /\ w \in Storages /\ Main \in Storages
  BY MainIsStorage
<1> USE DEF mainStorageVars
<1>2. ASSUME NEW insert, NEW deleted, accept(w, insert, deleted)
      PROVE  UNCHANGED <<cache[Main], pendingInserts[Main], pendingDeletes[Main], deferred[Main]>>
  BY <1>1, <1>2 DEF accept, Inv, TypeOK, StorageOK, DelayerOK
<1>3. ASSUME NEW waited, NEW next, flushPending(w, waited, next)
      PROVE  UNCHANGED <<pendingInserts[Main], pendingDeletes[Main], closing[Main],
                         activePromise[Main], updating>>
  BY <1>1, <1>3 DEF flushPending, startUpdate, Inv, TypeOK, StorageOK, DelayerOK
<1>4. CASE \E k \in Key : delete(w, k) \/ \E v \in Value : set(w, k, v)
  <2>1. UNCHANGED mainStorageVars
    BY <1>2, <1>4 DEF delete, set
  <2> QED BY <2>1, OtherSteps
<1>5. CASE trigger(w)
  <2>1. UNCHANGED <<state, cache, db, isErroneous, deferred[Main], queuedPromise[Main]>>
    BY <1>1, <1>5 DEF trigger, Inv, TypeOK, DelayerOK
  <2>2. UNCHANGED <<pendingInserts[Main], pendingDeletes[Main], closing[Main],
                    activePromise[Main], updating>>
    BY <1>1, <1>3, <1>5 DEF trigger, Inv, TypeOK, StorageOK
  <2> QED BY <2>1, <2>2, OtherSteps
<1>6. CASE flush(w) \/ whenFlushed(w) \/ close(w)
  <2>1. UNCHANGED mainStorageVars
    BY <1>1, <1>6 DEF flush, whenFlushed, close, storageVars, delayerVars, mainVars,
                      Inv, TypeOK, StorageOK, DelayerOK
  <2> QED BY <2>1, OtherSteps
<1>7. CASE openWindow(w) \/ closeClient(w)
  <2>1. UNCHANGED mainStorageVars
    BY <1>1, <1>7 DEF openWindow, closeClient, delayerVars, mainVars, Inv, TypeOK, StorageOK
  <2> QED BY <2>1, OtherSteps
<1>8. CASE receive(w)
  <2>1. CASE receiveItems(w) \/ receiveChange(w)
    <3>1. UNCHANGED mainStorageVars
      BY <1>1, <1>8, <2>1 DEF receive, receiveItems, receiveChange, delayerVars,
                              Inv, TypeOK, StorageOK
    <3> QED BY <3>1, OtherSteps
  <2>2. CASE receiveUpdated(w)
    <3>1. finished(w, FALSE) /\ UNCHANGED <<state, cache, deferred, db, isErroneous>>
      BY <1>8, <2>2 DEF receive, receiveUpdated
    <3>2. queuedPromise'[Main] = queuedPromise[Main]
      BY <1>1, <3>1 DEF finished, Inv, TypeOK, DelayerOK
    <3>3. UNCHANGED <<pendingInserts[Main], pendingDeletes[Main], closing[Main],
                      activePromise[Main], updating>>
      BY <1>1, <1>3, <3>1 DEF finished, Inv, TypeOK, StorageOK, DelayerOK
    <3> QED BY <3>1, <3>2, <3>3, OtherSteps
  <2> QED BY <1>8, <2>1, <2>2 DEF receive
<1> QED BY <1>4, <1>5, <1>6, <1>7, <1>8

\* Answering a window preserves the invariant: a closed Storage ignores writes.
LEMMA CallMain ==
  ASSUME Inv, TypeOK', NEW w \in Window, call(w)
  PROVE  Inv'
<1>1. CASE callListen(w) \/ callGetItems(w)
  BY <1>1, OtherSteps DEF callListen, callGetItems, mainStorageVars, storageVars, delayerVars,
                          mainVars
<1>2. CASE callUpdateItems(w)
  <2>1. UNCHANGED <<state, closing, activePromise, queuedPromise, updating, db, isErroneous>>
    BY <1>2 DEF callUpdateItems
  <2>2. CASE state[Main] = "Closed"
    BY <1>2, <2>1, <2>2, OtherSteps DEF callUpdateItems, mainStorageVars
  <2>3. CASE state[Main] # "Closed"
    <3> DEFINE r == Head(toMain[w]).request
    <3>1. accept(Main, r.insert, r.delete)
      BY <1>2, <2>3 DEF callUpdateItems
    <3>2. Head(toMain[w]) \in Call /\ Head(toMain[w]).type = "updateItems"
      BY <1>2, HeadOfCall DEF call, callUpdateItems, Inv, TypeOK
    <3>3. /\ r.insert \in Items
          /\ r.delete \in SUBSET Key
          /\ \A k \in r.delete : r.insert[k] = Absent
      BY <3>2, RequestOfCall
    <3> HIDE DEF r
    <3> QED BY <2>1, <2>3, <3>1, <3>3, AcceptMain
  <2> QED BY <2>2, <2>3
<1> QED BY <1>1, <1>2 DEF call

\* So do the database's own steps.
LEMMA DatabaseMain ==
  ASSUME Inv, TypeOK', updateItems \/ updateItemsFails \/ closeDatabase \/ closeDatabaseFails
  PROVE  Inv'
<1>1. CASE updateItems
  BY <1>1, FinishedMain DEF updateItems
<1>2. CASE updateItemsFails
  BY <1>2, FinishedMain DEF updateItemsFails
<1>3. CASE closeDatabase \/ closeDatabaseFails
  <2>1. /\ closing[Main] = "database"
        /\ closing'[Main] \in {"done", "failed"}
        /\ closing'[Main] = "failed" => isErroneous
        /\ closing'[Main] = "done" => db' = IF isErroneous THEN cache[Main] ELSE db
        /\ ~isErroneous => db' = db
        /\ UNCHANGED <<state, cache, pendingInserts, pendingDeletes, deferred, activePromise,
                       queuedPromise, updating, isErroneous>>
    BY <1>3, MainIsStorage DEF closeDatabase, closeDatabaseFails, delayerVars,
                               Inv, TypeOK, StorageOK
  <2>2. Pending(Main)' = Pending(Main) /\ hasPending(Main)' = hasPending(Main)
    BY <2>1 DEF Pending, hasPending
  <2>3. Idle(Main) /\ state[Main] = "Closed"
    BY <2>1 DEF Inv, CloseOrder
  <2>4. Idle(Main)'
    BY <2>1, <2>2, <2>3 DEF Idle
  <2>5. ThrottlerOrder' /\ CloseOrder'
    BY <2>1, <2>3, <2>4 DEF Inv, ThrottlerOrder, CloseOrder
  <2>6. CacheIsAccounted'
    BY <2>1, <2>2 DEF Inv, CacheIsAccounted, Overlaid
  <2>7. ~isErroneous => cache[Main] = db
    <3>1. Pending(Main) = NoRequest /\ updating = NoRequest
      BY <2>3, NothingPending DEF Idle, Inv, ThrottlerOrder
    <3>2. Overlaid(Overlaid(db, NoRequest), NoRequest) = db
      BY OverlaidNothing DEF Inv, TypeOK, MainOK
    <3> QED BY <3>1, <3>2 DEF Inv, CacheIsAccounted
  <2>8. ClosedIsStored'
    BY <2>1, <2>7 DEF ClosedIsStored
  <2> QED BY <2>5, <2>6, <2>8 DEF Inv
<1> QED BY <1>1, <1>2, <1>3

LEMMA InvInit == Init => Inv
<1> SUFFICES ASSUME Init PROVE Inv
  OBVIOUS
<1>1. TypeOK
  BY TypeInit
<1>2. Pending(Main) = NoRequest /\ updating = NoRequest /\ cache[Main] = db
  BY MainIsStorage DEF Init, Pending, NoRequest
<1>3. CacheIsAccounted
  BY <1>1, <1>2, OverlaidNothing DEF CacheIsAccounted, TypeOK, MainOK
<1>4. ThrottlerOrder /\ CloseOrder /\ ClosedIsStored
  BY MainIsStorage DEF Init, ThrottlerOrder, CloseOrder, ClosedIsStored
<1> QED BY <1>1, <1>3, <1>4 DEF Inv

LEMMA InvNext == Inv /\ [Next]_vars => Inv'
<1> SUFFICES ASSUME Inv, [Next]_vars PROVE Inv'
  OBVIOUS
<1>1. TypeOK'
  BY TypeNext DEF Inv
<1>2. CASE UNCHANGED vars
  BY <1>1, <1>2, OtherSteps DEF vars, mainStorageVars, storageVars, delayerVars, mainVars
<1>3. ASSUME NEW n \in Storages,
             \/ \E k \in Key : delete(n, k) \/ \E v \in Value : set(n, k, v)
             \/ trigger(n)
             \/ flush(n)
             \/ whenFlushed(n)
             \/ close(n)
      PROVE  Inv'
  <2>1. CASE n = Main
    BY <1>1, <1>3, <2>1, ApplicationMain, TriggerMain
  <2>2. CASE n \in Window
    BY <1>1, <1>3, <2>2, WindowSteps
  <2> QED BY <2>1, <2>2 DEF Storages
<1>4. ASSUME NEW w \in Window, call(w) \/ openWindow(w) \/ receive(w) \/ closeClient(w)
      PROVE  Inv'
  BY <1>1, <1>4, CallMain, WindowSteps
<1>5. CASE fireChangeEvents
  BY <1>1, <1>5, OtherSteps DEF fireChangeEvents, mainStorageVars, storageVars, delayerVars
<1>6. CASE updateItems \/ updateItemsFails \/ closeDatabase \/ closeDatabaseFails
  BY <1>1, <1>6, DatabaseMain
<1> QED BY <1>2, <1>3, <1>4, <1>5, <1>6 DEF Next

\* As long as the database has reported no error, its contents, changed by the
\* running update and by what is pending, are what the main process answers
\* from its cache: flushPending hands every write to the database exactly once
\* and in order, whatever set, delete, flush and close do meanwhile.
THEOREM CacheAlwaysAccounted == Spec => []CacheIsAccounted
<1>1. Inv => CacheIsAccounted
  BY DEF Inv
<1> QED BY <1>1, InvInit, InvNext, PTL DEF Spec

\* A database that was closed without an error of the recovery holds the main
\* process's cache, whichever updates failed before (doClose and
\* SQLiteStorageDatabase.close with its recovery).
THEOREM ClosedAlwaysStored == Spec => []ClosedIsStored
<1>1. Inv => ClosedIsStored
  BY DEF Inv
<1> QED BY <1>1, InvInit, InvNext, PTL DEF Spec

-----------------------------------------------------------------------------
(***************************************************************************)
(* The sessions of the windows: between opening and closing a window goes  *)
(* through stages that leave no call and no reply behind, which is what    *)
(* ClosedIsFlushed says.                                                   *)
(***************************************************************************)
\* No reply, or exactly one, of a type is on its way.
None(s, type) == \A i \in 1 .. Len(s) : s[i].type # type
One(s, type) == \E i \in 1 .. Len(s) :
  s[i].type = type /\ \A j \in 1 .. Len(s) : j # i => s[j].type # type

\* The window was not opened yet, or it is gone.
Shut(w) ==
  /\ \/ state[w] = "None" /\ closing[w] = "no"
     \/ state[w] = "Closed" /\ closing[w] = "done"
  /\ ~ready[w] /\ ~listening[w] /\ Idle(w)
  /\ toMain[w] = <<>> /\ toWindow[w] = <<>>

\* The window waits for its items: its two calls and their one reply are read
\* one after the other.
Starting(w) ==
  /\ state[w] = "Initialized" /\ closing[w] = "no"
  /\ ~ready[w] /\ Idle(w) /\ None(toWindow[w], "updated")
  /\ \/ /\ toMain[w] = <<[type |-> "listen"], [type |-> "getItems"]>>
        /\ ~listening[w] /\ toWindow[w] = <<>>
     \/ /\ toMain[w] = <<[type |-> "getItems"]>>
        /\ listening[w] /\ None(toWindow[w], "items")
     \/ toMain[w] = <<>> /\ listening[w] /\ One(toWindow[w], "items")

\* doClose() of a window has always something to wait for until nothing is
\* pending; its updates are never rejected.
WindowCloseOrder(w) ==
  /\ closing[w] \in {"no", "delayer", "active", "queued", "database"}
  /\ closing[w] = "no" <=> state[w] = "Initialized"
  /\ closing[w] = "delayer" => deferred[w]
  /\ closing[w] \in {"active", "queued"} => activePromise[w] /\ ~deferred[w]
  /\ closing[w] = "active" => ~queuedPromise[w] /\ ~hasPending(w)
  /\ closing[w] = "queued" => queuedPromise[w] \/ ~hasPending(w)
  /\ closing[w] = "database" => Idle(w)

\* The running promise of a window stands for one update: it is on its way to
\* the main process, or its confirmation is on the way back.
UpdateUnderWay(w) ==
  \/ ~activePromise[w] /\ toMain[w] = <<>> /\ None(toWindow[w], "updated")
  \/ /\ activePromise[w] /\ Len(toMain[w]) = 1 /\ toMain[w][1].type = "updateItems"
     /\ None(toWindow[w], "updated")
  \/ activePromise[w] /\ toMain[w] = <<>> /\ One(toWindow[w], "updated")

\* The window has its items and is not closed yet.
Serving(w) ==
  /\ state[w] # "None" /\ ready[w] /\ listening[w] /\ None(toWindow[w], "items")
  /\ queuedPromise[w] => activePromise[w]
  /\ WindowCloseOrder(w)
  /\ UpdateUnderWay(w)

Session(w) == Shut(w) \/ Starting(w) \/ Serving(w)

\* The main process closes when every window is gone, and none opens later.
Sessions ==
  /\ \A w \in Window : Session(w)
  /\ state[Main] = "Closed" => \A w \in Window : Shut(w)

\* What the stage of window w depends on, the replies apart.
Own(w) == <<state[w], closing[w], ready[w], listening[w], deferred[w], activePromise[w],
            queuedPromise[w], pendingInserts[w], pendingDeletes[w], toMain[w]>>

\* A reply at the end.
LEMMA AppendReply ==
  ASSUME NEW s \in Seq(Reply), NEW m \in Reply, NEW type
  PROVE  /\ None(s, type) /\ m.type # type => None(Append(s, m), type)
         /\ One(s, type) /\ m.type # type => One(Append(s, m), type)
         /\ None(s, type) /\ m.type = type => One(Append(s, m), type)
<1> DEFINE t == Append(s, m)
<1>1. /\ Len(t) = Len(s) + 1 /\ t[Len(s) + 1] = m /\ Len(s) \in Nat
      /\ \A i \in 1 .. Len(s) : t[i] = s[i]
  OBVIOUS
<1> HIDE DEF t
<1>2. ASSUME None(s, type), m.type # type PROVE None(t, type)
  BY <1>1, <1>2 DEF None
<1>3. ASSUME One(s, type), m.type # type PROVE One(t, type)
  <2>1. PICK i \in 1 .. Len(s) : s[i].type = type /\ \A j \in 1 .. Len(s) : j # i => s[j].type # type
    BY <1>3 DEF One
  <2>2. i \in 1 .. Len(t) /\ t[i].type = type
    BY <1>1, <2>1
  <2>3. \A j \in 1 .. Len(t) : j # i => t[j].type # type
    BY <1>1, <1>3, <2>1
  <2> QED BY <2>2, <2>3 DEF One
<1>4. ASSUME None(s, type), m.type = type PROVE One(t, type)
  <2>1. Len(t) \in 1 .. Len(t) /\ t[Len(t)].type = type
    BY <1>1, <1>4
  <2>2. \A j \in 1 .. Len(t) : j # Len(t) => t[j].type # type
    BY <1>1, <1>4 DEF None
  <2> QED BY <2>1, <2>2 DEF One
<1> QED BY <1>2, <1>3, <1>4 DEF t

\* The first reply is read.
LEMMA ReadReply ==
  ASSUME NEW s \in Seq(Reply), s # <<>>, NEW type
  PROVE  /\ None(s, type) => Head(s).type # type /\ None(Tail(s), type)
         /\ One(s, type) /\ Head(s).type # type => One(Tail(s), type)
         /\ One(s, type) /\ Head(s).type = type => None(Tail(s), type)
<1> DEFINE t == Tail(s)
<1>1. /\ Len(t) = Len(s) - 1 /\ Head(s) = s[1] /\ Len(s) \in Nat /\ Len(s) >= 1
      /\ \A i \in 1 .. Len(t) : t[i] = s[i + 1]
  BY HeadTailProperties
<1> HIDE DEF t
<1>2. ASSUME None(s, type) PROVE Head(s).type # type /\ None(t, type)
  BY <1>1, <1>2 DEF None
<1>3. ASSUME One(s, type) PROVE IF Head(s).type = type THEN None(t, type) ELSE One(t, type)
  <2>1. PICK i \in 1 .. Len(s) : s[i].type = type /\ \A j \in 1 .. Len(s) : j # i => s[j].type # type
    BY <1>3 DEF One
  <2>2. CASE i = 1
    BY <1>1, <2>1, <2>2 DEF None
  <2>3. CASE i # 1
    <3>1. i - 1 \in 1 .. Len(t) /\ t[i - 1] = s[i]
      BY <1>1, <2>1, <2>3
    <3>2. \A j \in 1 .. Len(t) : j # i - 1 => t[j].type # type
      BY <1>1, <2>1, <2>3
    <3>3. Head(s).type # type
      BY <1>1, <2>1, <2>3
    <3> QED BY <2>1, <3>1, <3>2, <3>3 DEF One
  <2> QED BY <2>2, <2>3
<1> QED BY <1>2, <1>3 DEF t

\* A step that leaves the window and its replies alone.
LEMMA SessionKept ==
  ASSUME NEW w, UNCHANGED <<Own(w), toWindow[w]>>
  PROVE  Shut(w)' = Shut(w) /\ (Session(w) => Session(w)')
BY DEF Own, Session, Shut, Starting, Serving, WindowCloseOrder, UpdateUnderWay, Idle, hasPending

\* A change event leaves the stage as it is.
LEMMA SessionTold ==
  ASSUME NEW w, toWindow[w] \in Seq(Reply), NEW m \in Reply, m.type = "change", UNCHANGED Own(w),
         listening[w], toWindow'[w] = Append(toWindow[w], m), Session(w)
  PROVE  Session(w)'
<1>1. \A type \in {"items", "updated"} :
        /\ None(toWindow[w], type) => None(toWindow'[w], type)
        /\ One(toWindow[w], type) => One(toWindow'[w], type)
  BY AppendReply
<1>2. ~Shut(w)
  BY DEF Shut
<1>3. CASE Starting(w)
  BY <1>1, <1>3 DEF Own, Session, Starting, Idle, hasPending
<1>4. CASE Serving(w)
  BY <1>1, <1>4 DEF Own, Session, Serving, WindowCloseOrder, UpdateUnderWay, Idle, hasPending
<1> QED BY <1>2, <1>3, <1>4 DEF Session

\* What is done to one Storage leaves the others alone.
LEMMA AcceptOther ==
  ASSUME TypeOK, NEW n \in Storages, NEW m \in Storages, m # n, NEW insert, NEW deleted,
         accept(n, insert, deleted)
  PROVE  /\ cache'[m] = cache[m] /\ deferred'[m] = deferred[m]
         /\ pendingInserts'[m] = pendingInserts[m] /\ pendingDeletes'[m] = pendingDeletes[m]
<1>1. cache'[m] = cache[m]
  BY DEF accept, TypeOK, StorageOK
<1>2. deferred'[m] = deferred[m]
  BY DEF accept, TypeOK, DelayerOK
<1>3. pendingInserts'[m] = pendingInserts[m]
  BY DEF accept, TypeOK, StorageOK
<1>4. pendingDeletes'[m] = pendingDeletes[m]
  BY DEF accept, TypeOK, StorageOK
<1> QED BY <1>1, <1>2, <1>3, <1>4

LEMMA FlushOther ==
  ASSUME TypeOK, NEW n \in Storages, NEW m \in Storages, m # n, NEW waited, NEW next,
         flushPending(n, waited, next)
  PROVE  /\ pendingInserts'[m] = pendingInserts[m] /\ pendingDeletes'[m] = pendingDeletes[m]
         /\ activePromise'[m] = activePromise[m] /\ closing'[m] = closing[m]
         /\ m \in Window => toMain'[m] = toMain[m]
<1>1. m \in Window => toMain'[m] = toMain[m]
  BY DEF flushPending, startUpdate, TypeOK, ChannelOK
<1>2. /\ pendingInserts'[m] = pendingInserts[m] /\ pendingDeletes'[m] = pendingDeletes[m]
      /\ closing'[m] = closing[m]
  BY DEF flushPending, TypeOK, StorageOK
<1>3. activePromise'[m] = activePromise[m]
  BY DEF flushPending, TypeOK, DelayerOK
<1> QED BY <1>1, <1>2, <1>3

LEMMA FinishedOther ==
  ASSUME TypeOK, NEW n \in Storages, NEW m \in Storages, m # n, NEW rejected, finished(n, rejected)
  PROVE  /\ pendingInserts'[m] = pendingInserts[m] /\ pendingDeletes'[m] = pendingDeletes[m]
         /\ activePromise'[m] = activePromise[m] /\ closing'[m] = closing[m]
         /\ queuedPromise'[m] = queuedPromise[m]
         /\ m \in Window => toMain'[m] = toMain[m]
<1>1. queuedPromise'[m] = queuedPromise[m]
  BY DEF finished, TypeOK, DelayerOK
<1>2. CASE queuedPromise[n]
  BY <1>1, <1>2, FlushOther DEF finished
<1>3. CASE ~queuedPromise[n]
  <2>1. activePromise'[m] = activePromise[m]
    BY <1>3 DEF finished, TypeOK, DelayerOK
  <2>2. closing'[m] = closing[m]
    BY <1>3 DEF finished, TypeOK, StorageOK
  <2>3. UNCHANGED <<pendingInserts, pendingDeletes, toMain>>
    BY <1>3 DEF finished
  <2> QED BY <1>1, <2>1, <2>2, <2>3
<1> QED BY <1>2, <1>3

\* The steps of the application and of the timer of one Storage.
StorageStep(n) ==
  \/ \E k \in Key : delete(n, k) \/ \E v \in Value : set(n, k, v)
  \/ trigger(n)
  \/ flush(n)
  \/ whenFlushed(n)
  \/ close(n)

\* The steps of the main process's database.
DatabaseStep == updateItems \/ updateItemsFails \/ closeDatabase \/ closeDatabaseFails

LEMMA StorageStepOther ==
  ASSUME TypeOK, NEW n \in Storages, StorageStep(n), NEW w \in Window, w # n
  PROVE  UNCHANGED <<Own(w), toWindow[w], cache[w]>>
<1>0. w \in Storages
  BY MainIsStorage
<1>1. ASSUME NEW insert, NEW deleted, accept(n, insert, deleted),
             UNCHANGED <<state, whenFlushedCallbacks, closing, ready, activePromise, queuedPromise,
                         channelVars>>
      PROVE  UNCHANGED <<Own(w), toWindow[w], cache[w]>>
  BY <1>0, <1>1, AcceptOther DEF Own, channelVars
<1>2. CASE \E k \in Key : delete(n, k) \/ \E v \in Value : set(n, k, v)
  BY <1>1, <1>2 DEF set, delete
<1>3. CASE trigger(n)
  <2>1. /\ deferred'[w] = deferred[w]
        /\ UNCHANGED <<state, cache, ready, toWindow, listening>>
    BY <1>0, <1>3 DEF trigger, TypeOK, DelayerOK
  <2>2. CASE activePromise[n]
    <3>1. closing'[w] = closing[w] /\ queuedPromise'[w] = queuedPromise[w]
      BY <1>0, <1>3, <2>2 DEF trigger, TypeOK, DelayerOK, StorageOK
    <3>2. UNCHANGED <<activePromise, pendingInserts, pendingDeletes, toMain>>
      BY <1>3, <2>2 DEF trigger
    <3> QED BY <2>1, <3>1, <3>2 DEF Own
  <2>3. CASE ~activePromise[n]
    <3>1. flushPending(n, "delayer", "active") /\ UNCHANGED queuedPromise
      BY <1>3, <2>3 DEF trigger
    <3> QED BY <1>0, <2>1, <3>1, FlushOther DEF Own
  <2> QED BY <2>2, <2>3
<1>4. CASE flush(n) \/ whenFlushed(n)
  BY <1>0, <1>4 DEF flush, whenFlushed, Own, storageVars, delayerVars, channelVars, TypeOK,
                    DelayerOK
<1>5. CASE close(n)
  BY <1>0, <1>5 DEF close, Own, channelVars, TypeOK, DelayerOK, StorageOK
<1> QED BY <1>2, <1>3, <1>4, <1>5 DEF StorageStep

LEMMA WindowStepOther ==
  ASSUME TypeOK, NEW v \in Window, call(v) \/ openWindow(v) \/ receive(v) \/ closeClient(v),
         NEW w \in Window, w # v
  PROVE  UNCHANGED <<Own(w), toWindow[w], cache[w]>>
<1>0. w \in Storages /\ v \in Storages /\ Main \in Storages /\ w # Main
  BY MainIsStorage
<1>1. CASE call(v)
  <2>1. toMain'[w] = toMain[w] /\ UNCHANGED <<state, closing, ready, activePromise, queuedPromise>>
    BY <1>1 DEF call, callListen, callGetItems, callUpdateItems, storageVars, delayerVars,
                TypeOK, ChannelOK
  <2>2. listening'[w] = listening[w] /\ toWindow'[w] = toWindow[w]
    BY <1>1 DEF call, callListen, callGetItems, callUpdateItems, Answered, TypeOK, ChannelOK
  <2>3. /\ cache'[w] = cache[w] /\ deferred'[w] = deferred[w]
        /\ pendingInserts'[w] = pendingInserts[w] /\ pendingDeletes'[w] = pendingDeletes[w]
    <3>1. CASE callListen(v) \/ callGetItems(v)
      BY <3>1 DEF callListen, callGetItems, storageVars, delayerVars
    <3>2. CASE callUpdateItems(v)
      BY <1>0, <3>2, AcceptOther DEF callUpdateItems
    <3> QED BY <1>1, <3>1, <3>2 DEF call
  <2> QED BY <2>1, <2>2, <2>3 DEF Own
<1>2. CASE openWindow(v)
  BY <1>0, <1>2 DEF openWindow, Own, delayerVars, TypeOK, StorageOK, ChannelOK
<1>3. CASE receive(v)
  <2>1. toWindow'[w] = toWindow[w] /\ listening' = listening
    BY <1>3 DEF receive, TypeOK, ChannelOK
  <2>2. CASE receiveItems(v) \/ receiveChange(v)
    BY <1>0, <2>1, <2>2 DEF receiveItems, receiveChange, Own, delayerVars, TypeOK, StorageOK
  <2>3. CASE receiveUpdated(v)
    BY <1>0, <2>1, <2>3, FinishedOther DEF receiveUpdated, Own
  <2> QED BY <1>3, <2>2, <2>3 DEF receive
<1>4. CASE closeClient(v)
  BY <1>0, <1>4 DEF closeClient, Own, delayerVars, TypeOK, StorageOK, ChannelOK
<1> QED BY <1>1, <1>2, <1>3, <1>4

LEMMA DatabaseStepOther ==
  ASSUME TypeOK, DatabaseStep, NEW w \in Window
  PROVE  UNCHANGED <<Own(w), toWindow[w], cache[w]>>
<1>0. w \in Storages /\ Main \in Storages /\ w # Main
  BY MainIsStorage
<1>1. CASE updateItems \/ updateItemsFails
  <2>1. /\ \E rejected \in BOOLEAN : finished(Main, rejected)
        /\ UNCHANGED <<state, cache, ready, deferred, toWindow, listening>>
    BY <1>1 DEF updateItems, updateItemsFails
  <2> QED BY <1>0, <2>1, FinishedOther DEF Own
<1>2. CASE closeDatabase \/ closeDatabaseFails
  BY <1>0, <1>2 DEF closeDatabase, closeDatabaseFails, Own, delayerVars, channelVars, TypeOK,
                    StorageOK
<1> QED BY <1>1, <1>2 DEF DatabaseStep

\* A flush of a window whose last update is confirmed.
LEMMA FlushWindow ==
  ASSUME TypeOK, NEW w \in Window, NEW waited, NEW next, flushPending(w, waited, next),
         toMain[w] = <<>>
  PROVE  /\ ~hasPending(w)'
         /\ activePromise'[w] = hasPending(w)
         /\ closing'[w] = IF closing[w] # waited THEN closing[w]
                          ELSE IF hasPending(w) THEN next ELSE "database"
         /\ toMain'[w] = IF hasPending(w)
                           THEN <<[type |-> "updateItems", request |-> Pending(w)]>> ELSE <<>>
<1>0. w \in Storages /\ w # Main
  BY MainIsStorage
<1>1. ~hasPending(w)' /\ pendingInserts'[w] = NoItems /\ pendingDeletes'[w] = {}
  BY <1>0 DEF flushPending, hasPending, TypeOK, StorageOK
<1>2. activePromise'[w] = hasPending(w)
  BY <1>0 DEF flushPending, TypeOK, DelayerOK
<1>3. closing'[w] = IF closing[w] # waited THEN closing[w]
                    ELSE IF hasPending(w) THEN next ELSE "database"
  BY <1>0 DEF flushPending, TypeOK, StorageOK
<1>4. CASE hasPending(w)
  <2>1. toMain'[w] = Append(toMain[w], [type |-> "updateItems", request |-> Pending(w)])
    BY <1>0, <1>4 DEF flushPending, startUpdate, TypeOK, ChannelOK
  <2> QED BY <1>1, <1>2, <1>3, <1>4, <2>1
<1>5. CASE ~hasPending(w)
  <2>1. toMain' = toMain
    BY <1>5 DEF flushPending
  <2> QED BY <1>1, <1>2, <1>3, <1>5, <2>1
<1> QED BY <1>4, <1>5

LEMMA SessionStorageStep ==
  ASSUME TypeOK, NEW w \in Window, Session(w), StorageStep(w)
  PROVE  Session(w)'
<1>0. w \in Storages /\ w # Main
  BY MainIsStorage
<1>1. Serving(w)
  BY DEF StorageStep, set, delete, Writable, trigger, flush, whenFlushed, close, MayClose,
         Session, Shut, Starting, Idle
<1>2. toWindow' = toWindow /\ ready' = ready /\ listening' = listening
  BY DEF StorageStep, set, delete, trigger, flush, whenFlushed, close, storageVars, channelVars
<1>3. ASSUME state'[w] = "Initialized", closing[w] = "no", closing'[w] = "no",
             activePromise'[w] = activePromise[w], queuedPromise'[w] = queuedPromise[w],
             toMain'[w] = toMain[w]
      PROVE  Serving(w)'
  BY <1>1, <1>2, <1>3 DEF Serving, WindowCloseOrder, UpdateUnderWay
<1>4. CASE \/ \E k \in Key : delete(w, k) \/ \E v \in Value : set(w, k, v)
           \/ flush(w) \/ whenFlushed(w)
  <2>1. /\ state[w] = "Initialized"
        /\ UNCHANGED <<state, closing, activePromise, queuedPromise, toMain>>
    BY <1>4 DEF set, delete, Writable, flush, whenFlushed, storageVars, delayerVars, channelVars
  <2>2. closing[w] = "no"
    BY <1>1, <2>1 DEF Serving, WindowCloseOrder
  <2> QED BY <1>3, <2>1, <2>2 DEF Session
<1>5. CASE close(w)
  <2>1. /\ state'[w] = "Closed" /\ deferred'[w] /\ closing'[w] = "delayer"
        /\ UNCHANGED <<activePromise, queuedPromise, toMain>>
    BY <1>0, <1>5 DEF close, channelVars, TypeOK, StorageOK, DelayerOK
  <2>2. WindowCloseOrder(w)'
    BY <2>1 DEF WindowCloseOrder
  <2> QED BY <1>1, <1>2, <2>1, <2>2 DEF Session, Serving, UpdateUnderWay
<1>6. CASE trigger(w)
  <2>1. /\ deferred[w] /\ ~deferred'[w] /\ state' = state
        /\ closing[w] \in {"no", "delayer"}
    BY <1>0, <1>1, <1>6 DEF trigger, Serving, WindowCloseOrder, Idle, TypeOK, DelayerOK
  <2>2. CASE activePromise[w]
    <3>1. /\ queuedPromise'[w]
          /\ closing'[w] = IF closing[w] = "delayer" THEN "queued" ELSE closing[w]
          /\ UNCHANGED <<activePromise, pendingInserts, pendingDeletes, toMain>>
      BY <1>0, <1>6, <2>2 DEF trigger, TypeOK, StorageOK, DelayerOK
    <3>2. WindowCloseOrder(w)'
      BY <1>1, <2>1, <2>2, <3>1 DEF Serving, WindowCloseOrder
    <3> QED BY <1>1, <1>2, <2>1, <2>2, <3>1, <3>2 DEF Session, Serving, UpdateUnderWay
  <2>3. CASE ~activePromise[w]
    <3>1. flushPending(w, "delayer", "active") /\ UNCHANGED queuedPromise
      BY <1>6, <2>3 DEF trigger
    <3>2. toMain[w] = <<>> /\ ~queuedPromise[w] /\ None(toWindow[w], "updated")
      BY <1>1, <2>3 DEF Serving, UpdateUnderWay
    <3>3. /\ ~hasPending(w)'
          /\ activePromise'[w] = hasPending(w)
          /\ closing'[w] = IF closing[w] # "delayer" THEN closing[w]
                           ELSE IF hasPending(w) THEN "active" ELSE "database"
          /\ toMain'[w] = IF hasPending(w)
                            THEN <<[type |-> "updateItems", request |-> Pending(w)]>> ELSE <<>>
      BY <3>1, <3>2, FlushWindow
    <3> HIDE DEF hasPending
    <3>4. WindowCloseOrder(w)'
      BY <1>1, <2>1, <2>3, <3>1, <3>2, <3>3 DEF Serving, WindowCloseOrder, Idle
    <3>5. UpdateUnderWay(w)'
      BY <1>2, <3>2, <3>3 DEF UpdateUnderWay
    <3> QED BY <1>1, <1>2, <2>1, <3>1, <3>2, <3>4, <3>5 DEF Session, Serving
  <2> QED BY <2>2, <2>3
<1> QED BY <1>4, <1>5, <1>6 DEF StorageStep

LEMMA SessionCall ==
  ASSUME TypeOK, NEW w \in Window, Session(w), call(w)
  PROVE  Session(w)' /\ (callUpdateItems(w) => Serving(w) /\ toMain'[w] = <<>>)
<1>0. w \in Storages /\ w # Main /\ Main \in Storages
  BY MainIsStorage
<1>1. /\ toMain[w] # <<>> /\ toMain'[w] = Tail(toMain[w])
      /\ UNCHANGED <<state, closing, ready, activePromise, queuedPromise>>
  BY DEF call, callListen, callGetItems, callUpdateItems, storageVars, delayerVars, TypeOK, ChannelOK
<1>2. /\ deferred'[w] = deferred[w]
      /\ pendingInserts'[w] = pendingInserts[w] /\ pendingDeletes'[w] = pendingDeletes[w]
  <2>1. CASE callListen(w) \/ callGetItems(w)
    BY <2>1 DEF callListen, callGetItems, storageVars, delayerVars
  <2>2. CASE callUpdateItems(w)
    BY <1>0, <2>2, AcceptOther DEF callUpdateItems
  <2> QED BY <2>1, <2>2 DEF call
<1>3. Idle(w)' = Idle(w) /\ hasPending(w)' = hasPending(w)
  BY <1>1, <1>2 DEF Idle, hasPending
<1>4. toWindow \in [Window -> Seq(Reply)] /\ listening \in [Window -> BOOLEAN] /\ cache[Main] \in Items
  BY <1>0 DEF TypeOK, ChannelOK, StorageOK
<1>5. CASE toMain[w] = <<[type |-> "listen"], [type |-> "getItems"]>>
  <2>1. Head(toMain[w]) = [type |-> "listen"] /\ Tail(toMain[w]) = <<[type |-> "getItems"]>>
    BY <1>5
  <2>2. callListen(w) /\ ~callUpdateItems(w)
    BY <2>1 DEF call, callListen, callGetItems, callUpdateItems
  <2>3. listening'[w] /\ toWindow' = toWindow
    BY <1>4, <2>2 DEF callListen
  <2>4. Starting(w)
    BY <1>1, <1>5 DEF Session, Shut, Serving, UpdateUnderWay
  <2>5. None(toWindow[w], "items")
    BY <1>5, <2>4 DEF Starting, None
  <2> QED BY <1>1, <1>3, <2>1, <2>2, <2>3, <2>4, <2>5, <1>5 DEF Session, Starting
<1>6. CASE toMain[w] = <<[type |-> "getItems"]>>
  <2>1. Head(toMain[w]) = [type |-> "getItems"] /\ Tail(toMain[w]) = <<>>
    BY <1>6
  <2>2. callGetItems(w) /\ ~callUpdateItems(w)
    BY <2>1 DEF call, callListen, callGetItems, callUpdateItems
  <2> DEFINE m == [type |-> "items", items |-> cache[Main]]
  <2>3. m \in Reply /\ m.type = "items"
    BY <1>4 DEF Reply
  <2>4. toWindow'[w] = Append(toWindow[w], m) /\ listening' = listening
    BY <1>4, <2>2 DEF callGetItems, Answered
  <2>5. Starting(w) /\ listening[w] /\ None(toWindow[w], "items") /\ None(toWindow[w], "updated")
    BY <1>1, <1>6 DEF Session, Shut, Serving, UpdateUnderWay, Starting
  <2> HIDE DEF m
  <2>6. One(toWindow'[w], "items") /\ None(toWindow'[w], "updated")
    BY <1>4, <2>3, <2>4, <2>5, AppendReply
  <2> QED BY <1>1, <1>3, <2>1, <2>2, <2>4, <2>5, <2>6 DEF Session, Starting
<1>7. CASE Serving(w)
  <2>1. Len(toMain[w]) = 1 /\ toMain[w][1].type = "updateItems" /\ None(toWindow[w], "updated")
    BY <1>1, <1>7 DEF Serving, UpdateUnderWay
  <2>2. toMain[w] \in Seq(Call)
    BY DEF TypeOK, ChannelOK
  <2>3. Head(toMain[w]).type = "updateItems" /\ Tail(toMain[w]) = <<>>
    <3>1. /\ Head(toMain[w]) = toMain[w][1] /\ Tail(toMain[w]) \in Seq(Call)
          /\ Len(Tail(toMain[w])) = 0
      BY <1>1, <2>1, <2>2, HeadTailProperties
    <3>2. Tail(toMain[w]) = <<>>
      BY <3>1, EmptySeq
    <3> QED BY <2>1, <3>1, <3>2
  <2>4. callUpdateItems(w)
    BY <2>3 DEF call, callListen, callGetItems, callUpdateItems
  <2> DEFINE m == [type |-> "updated"]
  <2>5. m \in Reply /\ m.type = "updated"
    BY DEF Reply
  <2>6. toWindow'[w] = Append(toWindow[w], m) /\ listening' = listening
    BY <1>4, <2>4 DEF callUpdateItems, Answered
  <2> HIDE DEF m
  <2>7. One(toWindow'[w], "updated") /\ None(toWindow'[w], "items")
    BY <1>4, <1>7, <2>1, <2>5, <2>6, AppendReply DEF Serving
  <2>8. WindowCloseOrder(w)'
    BY <1>1, <1>2, <1>3, <1>7 DEF Serving, WindowCloseOrder
  <2>9. UpdateUnderWay(w)'
    BY <1>1, <1>7, <2>1, <2>3, <2>7 DEF UpdateUnderWay, Serving
  <2> QED BY <1>1, <1>7, <2>3, <2>6, <2>7, <2>8, <2>9 DEF Session, Serving
<1> QED BY <1>1, <1>5, <1>6, <1>7 DEF Session, Shut, Starting

LEMMA SessionWindowStep ==
  ASSUME TypeOK, NEW w \in Window, Session(w), openWindow(w) \/ closeClient(w)
  PROVE  Session(w)'
<1>0. w \in Storages /\ w # Main
  BY MainIsStorage
<1>1. CASE openWindow(w)
  <2>1. Shut(w)
    BY <1>1 DEF openWindow, Session, Starting, Serving, WindowCloseOrder
  <2>2. /\ state'[w] = "Initialized" /\ closing'[w] = "no"
        /\ toMain'[w] = <<[type |-> "listen"], [type |-> "getItems"]>>
        /\ UNCHANGED <<pendingInserts, pendingDeletes, ready, delayerVars, toWindow, listening>>
    BY <1>0, <1>1 DEF openWindow, TypeOK, StorageOK, ChannelOK
  <2>3. None(toWindow[w], "updated")
    BY <2>1 DEF Shut, None
  <2> QED BY <2>1, <2>2, <2>3 DEF Session, Shut, Starting, Idle, hasPending, delayerVars
<1>2. CASE closeClient(w)
  <2>1. Serving(w) /\ closing[w] = "database"
    BY <1>2 DEF closeClient, Session, Shut, Starting
  <2>2. state[w] = "Closed" /\ Idle(w) /\ toMain[w] = <<>>
    BY <1>0, <2>1 DEF Serving, WindowCloseOrder, UpdateUnderWay, Idle, TypeOK, StorageOK
  <2>3. /\ closing'[w] = "done" /\ ~ready'[w] /\ ~listening'[w] /\ toWindow'[w] = <<>>
        /\ UNCHANGED <<state, pendingInserts, pendingDeletes, delayerVars, toMain>>
    BY <1>0, <1>2 DEF closeClient, TypeOK, StorageOK, ChannelOK
  <2> QED BY <2>2, <2>3 DEF Session, Shut, Idle, hasPending, delayerVars
<1> QED BY <1>1, <1>2

LEMMA SessionReceive ==
  ASSUME TypeOK, NEW w \in Window, Session(w), receive(w)
  PROVE  Session(w)'
<1>0. w \in Storages /\ w # Main
  BY MainIsStorage
<1>1. /\ toWindow[w] # <<>> /\ toWindow[w] \in Seq(Reply)
      /\ toWindow'[w] = Tail(toWindow[w]) /\ listening' = listening
  BY DEF receive, TypeOK, ChannelOK
<1>2. \A type \in {"items", "updated"} :
        /\ None(toWindow[w], type) => Head(toWindow[w]).type # type /\ None(toWindow'[w], type)
        /\ One(toWindow[w], type) /\ Head(toWindow[w]).type # type => One(toWindow'[w], type)
        /\ One(toWindow[w], type) /\ Head(toWindow[w]).type = type => None(toWindow'[w], type)
  BY <1>1, ReadReply
<1>3. ~Shut(w)
  BY <1>1 DEF Shut
<1>4. CASE receiveItems(w)
  <2>1. /\ Head(toWindow[w]).type = "items" /\ ready'[w]
        /\ UNCHANGED <<state, pendingInserts, pendingDeletes, closing, delayerVars, toMain>>
    BY <1>0, <1>4 DEF receiveItems, TypeOK, StorageOK
  <2>2. Starting(w) /\ toMain[w] = <<>> /\ listening[w]
    BY <1>1, <1>2, <1>3, <2>1 DEF Session, Serving, Starting
  <2>3. None(toWindow'[w], "items") /\ None(toWindow'[w], "updated")
    BY <1>2, <2>1, <2>2 DEF Starting
  <2>4. WindowCloseOrder(w)' /\ UpdateUnderWay(w)'
    BY <2>1, <2>2, <2>3 DEF WindowCloseOrder, UpdateUnderWay, Starting, Idle, delayerVars
  <2> QED BY <1>1, <2>1, <2>2, <2>3, <2>4 DEF Session, Serving, Starting, Idle, delayerVars
<1>5. CASE receiveChange(w)
  <2>1. /\ Head(toWindow[w]).type = "change"
        /\ UNCHANGED <<state, pendingInserts, pendingDeletes, closing, ready, delayerVars, toMain>>
    BY <1>5 DEF receiveChange
  <2>2. Idle(w)' = Idle(w) /\ hasPending(w)' = hasPending(w)
    BY <2>1 DEF Idle, hasPending, delayerVars
  <2>3. \A type \in {"items", "updated"} :
          /\ None(toWindow[w], type) => None(toWindow'[w], type)
          /\ One(toWindow[w], type) => One(toWindow'[w], type)
    BY <1>2, <2>1
  <2>4. CASE Starting(w)
    BY <1>1, <2>1, <2>2, <2>3, <2>4 DEF Session, Starting
  <2>5. CASE Serving(w)
    BY <1>1, <2>1, <2>2, <2>3, <2>5 DEF Session, Serving, WindowCloseOrder, UpdateUnderWay,
                                        delayerVars
  <2> QED BY <1>3, <2>4, <2>5 DEF Session
<1>6. CASE receiveUpdated(w)
  <2>1. /\ Head(toWindow[w]).type = "updated" /\ finished(w, FALSE)
        /\ UNCHANGED <<state, ready, deferred>>
    BY <1>6 DEF receiveUpdated
  <2>2. Serving(w)
    BY <1>2, <1>3, <2>1 DEF Session, Starting
  <2>3. activePromise[w] /\ toMain[w] = <<>> /\ One(toWindow[w], "updated")
    BY <1>2, <2>1, <2>2 DEF Serving, UpdateUnderWay
  <2>4. None(toWindow'[w], "items") /\ None(toWindow'[w], "updated")
    BY <1>2, <2>1, <2>2, <2>3 DEF Serving
  <2>5. closing[w] \in {"no", "delayer", "active", "queued"} /\ ~queuedPromise'[w]
    BY <1>0, <2>1, <2>2, <2>3 DEF Serving, WindowCloseOrder, Idle, finished, TypeOK, DelayerOK
  <2>6. CASE queuedPromise[w]
    <3>1. flushPending(w, "queued", "queued")
      BY <2>1, <2>6 DEF finished
    <3>2. /\ ~hasPending(w)'
          /\ activePromise'[w] = hasPending(w)
          /\ closing'[w] = IF closing[w] # "queued" THEN closing[w]
                           ELSE IF hasPending(w) THEN "queued" ELSE "database"
          /\ toMain'[w] = IF hasPending(w)
                            THEN <<[type |-> "updateItems", request |-> Pending(w)]>> ELSE <<>>
      BY <2>3, <3>1, FlushWindow
    <3> HIDE DEF hasPending
    <3>3. WindowCloseOrder(w)'
      BY <2>1, <2>2, <2>5, <2>6, <3>2 DEF Serving, WindowCloseOrder, Idle
    <3>4. UpdateUnderWay(w)'
      BY <2>4, <3>2 DEF UpdateUnderWay
    <3> QED BY <1>1, <2>1, <2>2, <2>4, <2>5, <3>3, <3>4 DEF Session, Serving
  <2>7. CASE ~queuedPromise[w]
    <3>1. /\ ~activePromise'[w] /\ UNCHANGED <<pendingInserts, pendingDeletes, toMain>>
      BY <1>0, <2>1, <2>7 DEF finished, TypeOK, DelayerOK
    <3>2. closing'[w] = IF closing[w] \in {"active", "queued"} THEN "database" ELSE closing[w]
      BY <1>0, <2>1, <2>7 DEF finished, TypeOK, StorageOK
    <3>3. hasPending(w)' = hasPending(w)
      BY <3>1 DEF hasPending
    <3> HIDE DEF hasPending
    <3>4. WindowCloseOrder(w)'
      BY <2>1, <2>2, <2>5, <2>7, <3>1, <3>2, <3>3 DEF Serving, WindowCloseOrder, Idle
    <3>5. UpdateUnderWay(w)'
      BY <2>3, <2>4, <3>1 DEF UpdateUnderWay
    <3> QED BY <1>1, <2>1, <2>2, <2>4, <2>5, <3>4, <3>5 DEF Session, Serving
  <2> QED BY <2>6, <2>7
<1> QED BY <1>4, <1>5, <1>6 DEF receive

\* The change events reach the windows that listen.
LEMMA FireEffect ==
  ASSUME TypeOK, fireChangeEvents, NEW w \in Window
  PROVE  /\ UNCHANGED <<Own(w), cache[w]>>
         /\ ChangeEvent(changedKeys) \in Reply
         /\ toWindow'[w] = IF listening[w] THEN Append(toWindow[w], ChangeEvent(changedKeys))
                                           ELSE toWindow[w]
<1>1. ChangeEvent(changedKeys) \in Reply
  <2>1. [k \in Key |-> IF k \in changedKeys THEN cache[Main][k] ELSE Absent] \in Items
    BY MainIsStorage DEF TypeOK, StorageOK, Items
  <2>2. {k \in changedKeys : cache[Main][k] = Absent} \in SUBSET Key
    BY DEF TypeOK, MainOK
  <2> QED BY <2>1, <2>2 DEF ChangeEvent, Reply
<1>2. toWindow'[w] = IF listening[w] THEN Append(toWindow[w], ChangeEvent(changedKeys))
                                     ELSE toWindow[w]
  BY DEF fireChangeEvents
<1>3. UNCHANGED <<Own(w), cache[w]>>
  BY DEF fireChangeEvents, Own, storageVars, delayerVars
<1> QED BY <1>1, <1>2, <1>3

LEMMA SessionStep ==
  ASSUME TypeOK, Sessions, [Next]_vars, NEW w \in Window
  PROVE  Session(w)'
<1>0. Session(w)
  BY DEF Sessions
<1>1. ASSUME NEW n \in Storages, StorageStep(n) PROVE Session(w)'
  BY <1>0, <1>1, SessionStorageStep, StorageStepOther, SessionKept
<1>2. ASSUME NEW v \in Window, call(v) \/ openWindow(v) \/ receive(v) \/ closeClient(v)
      PROVE  Session(w)'
  <2>1. CASE v = w
    BY <1>0, <1>2, <2>1, SessionCall, SessionWindowStep, SessionReceive
  <2>2. CASE v # w
    BY <1>0, <1>2, <2>2, WindowStepOther, SessionKept
  <2> QED BY <2>1, <2>2
<1>3. CASE fireChangeEvents
  <2>1. toWindow[w] \in Seq(Reply)
    BY DEF TypeOK, ChannelOK
  <2>2. ChangeEvent(changedKeys).type = "change"
    BY DEF ChangeEvent
  <2> QED BY <1>0, <1>3, <2>1, <2>2, FireEffect, SessionTold, SessionKept
<1>4. CASE DatabaseStep
  BY <1>0, <1>4, DatabaseStepOther, SessionKept
<1>5. CASE UNCHANGED vars
  <2>1. UNCHANGED <<Own(w), toWindow[w]>>
    BY <1>5 DEF vars, Own, storageVars, delayerVars, channelVars
  <2> QED BY <1>0, <2>1, SessionKept
<1> QED BY <1>1, <1>2, <1>3, <1>4, <1>5 DEF Next, StorageStep, DatabaseStep

\* A window that is shut stays so without the main process.
LEMMA ShutStays ==
  ASSUME TypeOK, NEW w \in Window, Shut(w), state[Main] = "Closed", [Next]_vars
  PROVE  Shut(w)'
<1>1. ASSUME NEW n \in Storages, StorageStep(n) PROVE Shut(w)'
  <2>1. n # w
    BY <1>1 DEF StorageStep, set, delete, Writable, trigger, flush, whenFlushed, close, MayClose,
                Shut, Idle
  <2> QED BY <1>1, <2>1, StorageStepOther, SessionKept
<1>2. ASSUME NEW v \in Window, call(v) \/ openWindow(v) \/ receive(v) \/ closeClient(v)
      PROVE  Shut(w)'
  <2>1. v # w
    BY <1>2 DEF call, openWindow, receive, closeClient, Shut
  <2> QED BY <1>2, <2>1, WindowStepOther, SessionKept
<1>3. CASE fireChangeEvents
  <2>1. ~listening[w]
    BY DEF Shut
  <2> QED BY <1>3, <2>1, FireEffect, SessionKept
<1>4. CASE DatabaseStep
  BY <1>4, DatabaseStepOther, SessionKept
<1>5. CASE UNCHANGED vars
  <2>1. UNCHANGED <<Own(w), toWindow[w]>>
    BY <1>5 DEF vars, Own, storageVars, delayerVars, channelVars
  <2> QED BY <2>1, SessionKept
<1> QED BY <1>1, <1>2, <1>3, <1>4, <1>5 DEF Next, StorageStep, DatabaseStep

\* Only close() closes the main process's Storage.
LEMMA MainCloses ==
  ASSUME TypeOK, [Next]_vars, state[Main] # "Closed", state'[Main] = "Closed"
  PROVE  close(Main)
<1> DEFINE Open == state'[Main] = state[Main]
<1>0. Main \in Storages /\ state \in [Storages -> {"None", "Initialized", "Closed"}]
  BY MainIsStorage DEF TypeOK, StorageOK
<1>1. ASSUME NEW n \in Storages, StorageStep(n), ~close(n) PROVE Open
  BY <1>1 DEF StorageStep, set, delete, trigger, flush, whenFlushed, storageVars
<1>2. ASSUME NEW n \in Storages, close(n), n # Main PROVE Open
  BY <1>0, <1>2 DEF close
<1>3. ASSUME NEW v \in Window, call(v) \/ receive(v) \/ closeClient(v) PROVE Open
  BY <1>3 DEF call, callListen, callGetItems, callUpdateItems, receive, receiveItems,
              receiveChange, receiveUpdated, closeClient, storageVars
<1>4. ASSUME NEW v \in Window, openWindow(v) PROVE Open
  BY <1>0, <1>4, MainIsStorage DEF openWindow
<1>5. ASSUME fireChangeEvents \/ DatabaseStep \/ UNCHANGED vars PROVE Open
  BY <1>5 DEF fireChangeEvents, DatabaseStep, updateItems, updateItemsFails, closeDatabase,
              closeDatabaseFails, vars, storageVars
<1>6. ~Open
  OBVIOUS
<1> HIDE DEF Open
<1> QED BY <1>1, <1>2, <1>3, <1>4, <1>5, <1>6 DEF Next, StorageStep, DatabaseStep

LEMMA SessionsInit == Init => Sessions
<1> SUFFICES ASSUME Init PROVE Sessions
  OBVIOUS
<1>1. ASSUME NEW w \in Window PROVE Shut(w)
  <2>1. w \in Storages /\ w # Main
    BY MainIsStorage
  <2>2. Idle(w)
    BY <2>1 DEF Init, Idle, hasPending
  <2> QED BY <2>1, <2>2 DEF Init, Shut
<1> QED BY <1>1 DEF Sessions, Session

LEMMA SessionsNext == TypeOK /\ Sessions /\ [Next]_vars => Sessions'
<1> SUFFICES ASSUME TypeOK, Sessions, [Next]_vars PROVE Sessions'
  OBVIOUS
<1>1. \A w \in Window : Session(w)'
  BY SessionStep
<1>2. ASSUME state'[Main] = "Closed", NEW w \in Window PROVE Shut(w)'
  <2>1. CASE state[Main] = "Closed"
    BY <2>1, ShutStays DEF Sessions
  <2>2. CASE state[Main] # "Closed"
    <3>1. close(Main)
      BY <1>2, <2>2, MainCloses
    <3>2. Shut(w)
      BY <3>1 DEF close, MayClose, Sessions, Session, Starting, Serving, WindowCloseOrder
    <3>3. Main \in Storages /\ w # Main /\ StorageStep(Main)
      BY <3>1, MainIsStorage DEF StorageStep
    <3> QED BY <3>2, <3>3, StorageStepOther, SessionKept
  <2> QED BY <2>1, <2>2
<1> QED BY <1>1, <1>2 DEF Sessions

LEMMA SessionsAlways == Spec => []Sessions
BY SessionsInit, SessionsNext, StorageTypeCorrect, PTL DEF Spec

\* For any number of windows, keys and writes: a window that has closed has
\* nothing pending and nothing on its way, and no write of a window comes to the
\* main process after it has closed (Storage.doClose, onWillShutdown).
THEOREM NothingComesLate == Spec => []ClosedIsFlushed
<1>1. Sessions => ClosedIsFlushed
  <2> SUFFICES ASSUME Sessions PROVE ClosedIsFlushed
    OBVIOUS
  <2>1. ASSUME NEW w \in Window, closing[w] = "done" PROVE Idle(w) /\ toMain[w] = <<>>
    BY <2>1 DEF Sessions, Session, Shut, Starting, Serving, WindowCloseOrder
  <2>2. ASSUME state[Main] = "Closed", NEW w \in Window, NEW i \in 1 .. Len(toMain[w])
        PROVE  FALSE
    <3>1. toMain[w] = <<>>
      BY <2>2 DEF Sessions, Shut
    <3> QED BY <2>2, <3>1
  <2> QED BY <2>1, <2>2 DEF ClosedIsFlushed
<1> QED BY <1>1, SessionsAlways, PTL

-----------------------------------------------------------------------------
(***************************************************************************)
(* Converged.  What a window has for a key is what the main process has,   *)
(* unless one of them is about to hear from the other: the key has changed *)
(* and no event was sent, the last message that mentions the key is still  *)
(* on its way, or the window's own write is.                               *)
(***************************************************************************)
\* A message to a window gives it a value for k: an item, or a change.
Mentions(m, k) ==
  \/ m.type = "items"
  \/ m.type = "change" /\ (m.changed[k] # Absent \/ k \in m.deleted)

Reports(m, k) == IF m.type = "items" THEN m.items[k] ELSE m.changed[k]

Unmentioned(s, k) == \A i \in 1 .. Len(s) : ~Mentions(s[i], k)

\* The last of the messages s that mentions k, if any, reports v.
LastReports(s, k, v) == \A i \in 1 .. Len(s) :
  Mentions(s[i], k) /\ (\A j \in 1 .. Len(s) : j > i => ~Mentions(s[j], k))
    => Reports(s[i], k) = v

\* What a window will hear last of k is true.
LastIsTrue(w, k) == k \in changedKeys \/ LastReports(toWindow[w], k, cache[Main][k])

\* A request writes k.
Writes(r, k) == r.insert[k] # Absent \/ k \in r.delete

\* The window's last write of k is v, and the main process has not got it yet.
OnItsWay(w, k, v) ==
  \/ Writes(Pending(w), k) /\ pendingInserts[w][k] = v
  \/ /\ ~Writes(Pending(w), k) /\ toMain[w] # <<>>
     /\ Writes(toMain[w][1].request, k) /\ toMain[w][1].request.insert[k] = v

\* A window that will hear nothing more of k has the value that the main process
\* has or will have.
Informed(w, k) ==
  ready[w] /\ state[w] = "Initialized" /\ Unmentioned(toWindow[w], k)
    => k \in changedKeys \/ cache[w][k] = cache[Main][k] \/ OnItsWay(w, k, cache[w][k])

Truthful == \A w \in Window, k \in Key : LastIsTrue(w, k) /\ Informed(w, k)

LEMMA AppendMessage ==
  ASSUME NEW s \in Seq(Reply), NEW m \in Reply, NEW k, NEW v
  PROVE  /\ Mentions(m, k) => ~Unmentioned(Append(s, m), k)
         /\ Mentions(m, k) /\ Reports(m, k) = v => LastReports(Append(s, m), k, v)
         /\ ~Mentions(m, k) => /\ Unmentioned(Append(s, m), k) => Unmentioned(s, k)
                               /\ LastReports(s, k, v) => LastReports(Append(s, m), k, v)
<1> DEFINE t == Append(s, m)
<1>1. /\ Len(t) = Len(s) + 1 /\ t[Len(s) + 1] = m /\ Len(s) \in Nat
      /\ \A i \in 1 .. Len(s) : t[i] = s[i]
  OBVIOUS
<1> HIDE DEF t
<1>2. Mentions(m, k) => ~Unmentioned(t, k)
  BY <1>1 DEF Unmentioned
<1>3. ASSUME Mentions(m, k), Reports(m, k) = v PROVE LastReports(t, k, v)
  BY <1>1, <1>3 DEF LastReports
<1>4. ASSUME ~Mentions(m, k), Unmentioned(t, k) PROVE Unmentioned(s, k)
  BY <1>1, <1>4 DEF Unmentioned
<1>5. ASSUME ~Mentions(m, k), LastReports(s, k, v) PROVE LastReports(t, k, v)
  <2> SUFFICES ASSUME NEW i \in 1 .. Len(t), Mentions(t[i], k),
                      \A j \in 1 .. Len(t) : j > i => ~Mentions(t[j], k)
               PROVE  Reports(t[i], k) = v
    BY DEF LastReports
  <2>1. i \in 1 .. Len(s) /\ t[i] = s[i]
    BY <1>1, <1>5
  <2>2. \A j \in 1 .. Len(s) : j > i => ~Mentions(s[j], k)
    BY <1>1
  <2> QED BY <1>5, <2>1, <2>2 DEF LastReports
<1> QED BY <1>2, <1>3, <1>4, <1>5 DEF t

LEMMA ReadMessage ==
  ASSUME NEW s \in Seq(Reply), s # <<>>, NEW k, NEW v
  PROVE  /\ LastReports(s, k, v) => LastReports(Tail(s), k, v)
         /\ Unmentioned(Tail(s), k) /\ ~Mentions(Head(s), k) => Unmentioned(s, k)
         /\ Unmentioned(Tail(s), k) /\ Mentions(Head(s), k) /\ LastReports(s, k, v)
              => Reports(Head(s), k) = v
<1> DEFINE t == Tail(s)
<1>1. /\ Len(t) = Len(s) - 1 /\ Head(s) = s[1] /\ Len(s) \in Nat /\ Len(s) >= 1
      /\ \A i \in 1 .. Len(t) : t[i] = s[i + 1]
  BY HeadTailProperties
<1> HIDE DEF t
<1>0. \A i \in 2 .. Len(s) : i - 1 \in 1 .. Len(t) /\ s[i] = t[i - 1]
  BY <1>1
<1>2. ASSUME LastReports(s, k, v) PROVE LastReports(t, k, v)
  <2> SUFFICES ASSUME NEW i \in 1 .. Len(t), Mentions(t[i], k),
                      \A j \in 1 .. Len(t) : j > i => ~Mentions(t[j], k)
               PROVE  Reports(t[i], k) = v
    BY DEF LastReports
  <2>1. i + 1 \in 1 .. Len(s) /\ t[i] = s[i + 1]
    BY <1>1
  <2>2. ASSUME NEW j \in 1 .. Len(s), j > i + 1 PROVE ~Mentions(s[j], k)
    <3>1. j \in 2 .. Len(s) /\ j - 1 > i
      BY <2>2
    <3> QED BY <1>0, <3>1
  <2> QED BY <1>2, <2>1, <2>2 DEF LastReports
<1>3. ASSUME Unmentioned(t, k) PROVE \A j \in 1 .. Len(s) : j > 1 => ~Mentions(s[j], k)
  <2> SUFFICES ASSUME NEW j \in 1 .. Len(s), j > 1 PROVE ~Mentions(s[j], k)
    OBVIOUS
  <2>1. j \in 2 .. Len(s)
    OBVIOUS
  <2> QED BY <1>0, <1>3, <2>1 DEF Unmentioned
<1>4. ASSUME Unmentioned(t, k), ~Mentions(Head(s), k) PROVE Unmentioned(s, k)
  <2> SUFFICES ASSUME NEW j \in 1 .. Len(s) PROVE ~Mentions(s[j], k)
    BY DEF Unmentioned
  <2>1. CASE j = 1
    BY <1>1, <1>4, <2>1
  <2>2. CASE j # 1
    BY <1>3, <1>4, <2>2
  <2> QED BY <2>1, <2>2
<1>5. ASSUME Unmentioned(t, k), Mentions(Head(s), k), LastReports(s, k, v)
      PROVE  Reports(Head(s), k) = v
  <2>1. 1 \in 1 .. Len(s) /\ Mentions(s[1], k)
    BY <1>1, <1>5
  <2>2. \A j \in 1 .. Len(s) : j > 1 => ~Mentions(s[j], k)
    BY <1>3, <1>5
  <2>3. Reports(s[1], k) = v
    BY <1>5, <2>1, <2>2 DEF LastReports
  <2> QED BY <1>1, <2>3
<1> QED BY <1>2, <1>4, <1>5 DEF t

\* What a batch of set and delete calls does to key k of its Storage.
LEMMA AcceptEffect ==
  ASSUME TypeOK, NEW n \in Storages, NEW insert \in Items, NEW deleted \in SUBSET Key,
         \A j \in deleted : insert[j] = Absent,
         accept(n, insert, deleted), NEW k \in Key
  PROVE  /\ cache'[n][k] = IF insert[k] # Absent \/ k \in deleted THEN insert[k] ELSE cache[n][k]
         /\ cache'[n][k] # cache[n][k] =>
              /\ n = Main => k \in changedKeys'
              /\ Writes(Pending(n), k)' /\ pendingInserts'[n][k] = cache'[n][k]
         /\ cache'[n][k] = cache[n][k] =>
              /\ pendingInserts'[n][k] = pendingInserts[n][k]
              /\ k \in pendingDeletes'[n] <=> k \in pendingDeletes[n]
         /\ changedKeys \subseteq changedKeys'
         /\ n # Main => changedKeys' = changedKeys
<1> DEFINE S == Differing(n, insert)
           D == Present(n, deleted)
<1>1. /\ k \in S <=> insert[k] # Absent /\ cache[n][k] # insert[k]
      /\ k \in D <=> k \in deleted /\ cache[n][k] # Absent
  BY DEF Differing, Present
<1>2. /\ cache' = [cache EXCEPT ![n] = Changed(cache[n], insert, S, D)]
      /\ pendingInserts' = [pendingInserts EXCEPT ![n] = Changed(pendingInserts[n], insert, S, D)]
      /\ pendingDeletes' = [pendingDeletes EXCEPT ![n] = (pendingDeletes[n] \ S) \cup D]
      /\ changedKeys' = IF n = Main THEN changedKeys \cup S \cup D ELSE changedKeys
  BY DEF accept
<1> HIDE DEF S, D
<1>3. /\ cache'[n][k] = IF k \in S THEN insert[k] ELSE IF k \in D THEN Absent ELSE cache[n][k]
      /\ pendingInserts'[n][k] =
           IF k \in S THEN insert[k] ELSE IF k \in D THEN Absent ELSE pendingInserts[n][k]
      /\ k \in pendingDeletes'[n] <=> (k \in pendingDeletes[n] /\ k \notin S) \/ k \in D
  BY <1>2 DEF Changed, TypeOK, StorageOK
<1>4. cache'[n][k] = IF insert[k] # Absent \/ k \in deleted THEN insert[k] ELSE cache[n][k]
  BY <1>1, <1>3
<1>5. ASSUME cache'[n][k] # cache[n][k]
      PROVE  /\ n = Main => k \in changedKeys'
             /\ Writes(Pending(n), k)' /\ pendingInserts'[n][k] = cache'[n][k]
  <2>1. k \in S \/ k \in D
    BY <1>3, <1>5
  <2>2. Writes(Pending(n), k)'
    BY <1>1, <1>3, <2>1 DEF Writes, Pending
  <2> QED BY <1>2, <1>3, <2>1, <2>2
<1>6. ASSUME cache'[n][k] = cache[n][k]
      PROVE  /\ pendingInserts'[n][k] = pendingInserts[n][k]
             /\ k \in pendingDeletes'[n] <=> k \in pendingDeletes[n]
  BY <1>1, <1>3, <1>6
<1> QED BY <1>2, <1>4, <1>5, <1>6

\* Unless the events fire, the main process forgets no change of key k.
LEMMA ChangeIsNoted ==
  ASSUME TypeOK, [Next]_vars, ~fireChangeEvents, NEW k \in Key
  PROVE  k \in changedKeys' \/ (k \notin changedKeys /\ cache'[Main][k] = cache[Main][k])
<1> DEFINE Noted == k \in changedKeys' \/ (k \notin changedKeys /\ cache'[Main][k] = cache[Main][k])
<1>0. Main \in Storages
  BY MainIsStorage
<1>1. ASSUME changedKeys' = changedKeys, cache'[Main] = cache[Main] PROVE Noted
  BY <1>1
<1>2. ASSUME NEW n \in Storages, NEW insert \in Items, NEW deleted \in SUBSET Key,
             \A j \in deleted : insert[j] = Absent, accept(n, insert, deleted)
      PROVE  Noted
  <2>1. CASE n = Main
    BY <1>2, <2>1, AcceptEffect
  <2>2. CASE n # Main
    <3>1. cache'[Main] = cache[Main]
      BY <1>0, <1>2, <2>2, AcceptOther
    <3>2. changedKeys' = changedKeys
      BY <2>2, <1>2 DEF accept
    <3> QED BY <1>1, <3>1, <3>2
  <2> QED BY <2>1, <2>2
<1>3. ASSUME NEW n \in Storages, NEW j \in Key, NEW v \in Value, set(n, j, v) PROVE Noted
  <2>1. [NoItems EXCEPT ![j] = v] \in Items
    BY DEF NoItems, Items
  <2> QED BY <1>2, <1>3, <2>1 DEF set
<1>4. ASSUME NEW n \in Storages, NEW j \in Key, delete(n, j) PROVE Noted
  <2>1. {j} \in SUBSET Key /\ NoItems \in Items /\ \A i \in {j} : NoItems[i] = Absent
    BY DEF NoItems, Items
  <2> QED BY <1>2, <1>4, <2>1 DEF delete
<1>5. ASSUME NEW n \in Storages, trigger(n) \/ flush(n) \/ whenFlushed(n) \/ close(n) PROVE Noted
  BY <1>1, <1>5 DEF trigger, flush, whenFlushed, close, storageVars, mainVars
<1>6. ASSUME NEW w \in Window, call(w) PROVE Noted
  <2>1. CASE callListen(w) \/ callGetItems(w)
    BY <1>1, <2>1 DEF callListen, callGetItems, storageVars, mainVars
  <2>2. CASE callUpdateItems(w)
    <3> DEFINE r == Head(toMain[w]).request
    <3>1. Head(toMain[w]) \in Call /\ Head(toMain[w]).type = "updateItems"
      BY <1>6, <2>2, HeadOfCall DEF call, callUpdateItems, TypeOK
    <3>2. /\ r.insert \in Items /\ r.delete \in SUBSET Key
          /\ \A j \in r.delete : r.insert[j] = Absent
      BY <3>1, RequestOfCall
    <3>3. \/ accept(Main, r.insert, r.delete)
          \/ UNCHANGED <<cache, changedKeys>>
      BY <2>2 DEF callUpdateItems
    <3> QED BY <1>0, <1>1, <1>2, <3>2, <3>3
  <2> QED BY <1>6, <2>1, <2>2 DEF call
<1>7. ASSUME NEW w \in Window, openWindow(w) \/ receive(w) \/ closeClient(w) PROVE Noted
  <2>1. w # Main /\ w \in Storages
    BY MainIsStorage
  <2>2. changedKeys' = changedKeys
    BY <1>7 DEF openWindow, receive, closeClient, mainVars
  <2>3. cache'[Main] = cache[Main]
    BY <1>0, <1>7, <2>1 DEF openWindow, receive, receiveItems, receiveChange, receiveUpdated,
                            closeClient, TypeOK, StorageOK
  <2> QED BY <1>1, <2>2, <2>3
<1>8. ASSUME DatabaseStep \/ UNCHANGED vars PROVE Noted
  BY <1>1, <1>8 DEF DatabaseStep, updateItems, updateItemsFails, closeDatabase, closeDatabaseFails,
                    vars, storageVars, mainVars
<1> HIDE DEF Noted
<1>9. Noted
  BY <1>3, <1>4, <1>5, <1>6, <1>7, <1>8 DEF Next, DatabaseStep
<1> QED BY <1>9 DEF Noted

\* A flush sends what the window has written.
LEMMA FlushOnItsWay ==
  ASSUME TypeOK, NEW w \in Window, NEW waited, NEW next, flushPending(w, waited, next),
         toMain[w] = <<>>, NEW k \in Key, NEW v, OnItsWay(w, k, v)
  PROVE  OnItsWay(w, k, v)'
<1>0. w \in Storages
  BY MainIsStorage
<1>1. Writes(Pending(w), k) /\ pendingInserts[w][k] = v
  BY DEF OnItsWay
<1>2. hasPending(w)
  BY <1>1 DEF Writes, Pending, hasPending, NoItems
<1>3. toMain'[w] = <<[type |-> "updateItems", request |-> Pending(w)]>>
  BY <1>2, FlushWindow
<1>4. /\ toMain'[w] # <<>> /\ toMain'[w][1].request = Pending(w)
      /\ Pending(w).insert = pendingInserts[w]
  BY <1>3 DEF Pending
<1>5. ~Writes(Pending(w), k)'
  <2>1. pendingInserts'[w] = NoItems /\ pendingDeletes'[w] = {}
    BY <1>0 DEF flushPending, TypeOK, StorageOK
  <2> QED BY <2>1 DEF Writes, Pending, NoItems
<1> QED BY <1>1, <1>4, <1>5 DEF OnItsWay

\* The change events fire.
LEMMA TruthFire ==
  ASSUME TypeOK, Sessions, fireChangeEvents, NEW w \in Window, NEW k \in Key,
         LastIsTrue(w, k), Informed(w, k)
  PROVE  LastIsTrue(w, k)' /\ Informed(w, k)'
<1> DEFINE m == ChangeEvent(changedKeys)
<1>0. /\ toWindow[w] \in Seq(Reply) /\ m \in Reply
      /\ UNCHANGED <<Own(w), cache[w]>> /\ cache' = cache /\ changedKeys' = {}
      /\ toWindow'[w] = IF listening[w] THEN Append(toWindow[w], m) ELSE toWindow[w]
  BY FireEffect DEF TypeOK, ChannelOK, fireChangeEvents, storageVars
<1>1. /\ Mentions(m, k) <=> k \in changedKeys
      /\ k \in changedKeys => Reports(m, k) = cache[Main][k]
  BY DEF ChangeEvent, Mentions, Reports
<1> HIDE DEF m
<1>2. CASE ~listening[w]
  <2>1. toWindow[w] = <<>> /\ ~ready[w]
    BY <1>2 DEF Sessions, Session, Shut, Starting, Serving
  <2>2. LastIsTrue(w, k)'
    BY <1>0, <1>2, <2>1 DEF LastIsTrue, LastReports
  <2>3. Informed(w, k)'
    BY <1>0, <2>1 DEF Informed, Own
  <2> QED BY <2>2, <2>3
<1>3. CASE listening[w] /\ k \in changedKeys
  <2>1. LastReports(toWindow'[w], k, cache[Main][k]) /\ ~Unmentioned(toWindow'[w], k)
    BY <1>0, <1>1, <1>3, AppendMessage
  <2> QED BY <1>0, <2>1 DEF LastIsTrue, Informed
<1>4. CASE listening[w] /\ k \notin changedKeys
  <2>1. LastReports(toWindow[w], k, cache[Main][k])
    BY <1>4 DEF LastIsTrue
  <2>2. /\ LastReports(toWindow'[w], k, cache[Main][k])
        /\ Unmentioned(toWindow'[w], k) => Unmentioned(toWindow[w], k)
    BY <1>0, <1>1, <1>4, <2>1, AppendMessage
  <2>3. ASSUME OnItsWay(w, k, cache[w][k]) PROVE OnItsWay(w, k, cache[w][k])'
    <3>1. OnItsWay(w, k, cache[w][k]) <=> OnItsWay(w, k, cache[w][k])'
      BY <1>0 DEF OnItsWay, Writes, Pending, Own
    <3> QED BY <2>3, <3>1
  <2>4. Informed(w, k)'
    BY <1>0, <1>4, <2>2, <2>3 DEF Informed, Own
  <2> QED BY <1>0, <2>2, <2>4 DEF LastIsTrue
<1> QED BY <1>2, <1>3, <1>4

\* What LastIsTrue and Informed need of a step that does not fire events and
\* leaves key k of the main process as it is.
LEMMA TruthKept ==
  ASSUME NEW w \in Window, NEW k \in Key, LastIsTrue(w, k), Informed(w, k), k \notin changedKeys,
         cache'[Main][k] = cache[Main][k], UNCHANGED <<Own(w), toWindow[w], cache[w]>>
  PROVE  LastIsTrue(w, k)' /\ Informed(w, k)'
<1>1. LastIsTrue(w, k)'
  BY DEF LastIsTrue
<1>2. OnItsWay(w, k, cache[w][k]) <=> OnItsWay(w, k, cache[w][k])'
  BY DEF OnItsWay, Writes, Pending, Own
<1>3. Informed(w, k)'
  BY <1>2 DEF Informed, Own
<1> QED BY <1>1, <1>3

LEMMA TruthStorageStep ==
  ASSUME TypeOK, Sessions, NEW w \in Window, NEW k \in Key, StorageStep(w),
         LastIsTrue(w, k), Informed(w, k), k \notin changedKeys,
         cache'[Main][k] = cache[Main][k]
  PROVE  LastIsTrue(w, k)' /\ Informed(w, k)'
<1>0. w \in Storages /\ w # Main
  BY MainIsStorage
<1>1. toWindow' = toWindow /\ ready' = ready
  BY DEF StorageStep, set, delete, trigger, flush, whenFlushed, close, storageVars, channelVars
<1>2. LastIsTrue(w, k)'
  BY <1>1 DEF LastIsTrue
<1>3. ASSUME state'[w] = "Initialized" => state[w] = "Initialized",
             \/ cache'[w][k] = cache[w][k] /\ (OnItsWay(w, k, cache[w][k]) => OnItsWay(w, k, cache[w][k])')
             \/ OnItsWay(w, k, cache[w][k])'
      PROVE  Informed(w, k)'
  BY <1>1, <1>3 DEF Informed
<1>4. ASSUME NEW insert \in Items, NEW deleted \in SUBSET Key,
             \A j \in deleted : insert[j] = Absent, accept(w, insert, deleted),
             UNCHANGED <<state, toMain>>
      PROVE  Informed(w, k)'
  <2>1. CASE cache'[w][k] = cache[w][k]
    <3>1. /\ pendingInserts'[w][k] = pendingInserts[w][k]
          /\ k \in pendingDeletes'[w] <=> k \in pendingDeletes[w]
      BY <1>0, <1>4, <2>1, AcceptEffect
    <3>2. OnItsWay(w, k, cache[w][k]) => OnItsWay(w, k, cache[w][k])'
      BY <1>4, <2>1, <3>1 DEF OnItsWay, Writes, Pending
    <3> QED BY <1>3, <1>4, <2>1, <3>2
  <2>2. CASE cache'[w][k] # cache[w][k]
    <3>1. Writes(Pending(w), k)' /\ pendingInserts'[w][k] = cache'[w][k]
      BY <1>0, <1>4, <2>2, AcceptEffect
    <3> QED BY <1>3, <1>4, <3>1 DEF OnItsWay
  <2> QED BY <2>1, <2>2
<1>5. ASSUME NEW j \in Key, NEW v \in Value, set(w, j, v) PROVE Informed(w, k)'
  <2>1. [NoItems EXCEPT ![j] = v] \in Items
    BY DEF NoItems, Items
  <2> QED BY <1>4, <1>5, <2>1 DEF set, channelVars
<1>6. ASSUME NEW j \in Key, delete(w, j) PROVE Informed(w, k)'
  <2>1. {j} \in SUBSET Key /\ NoItems \in Items /\ \A i \in {j} : NoItems[i] = Absent
    BY DEF NoItems, Items
  <2> QED BY <1>4, <1>6, <2>1 DEF delete, channelVars
<1>7. CASE flush(w) \/ whenFlushed(w)
  <2>1. UNCHANGED <<state, cache, pendingInserts, pendingDeletes, toMain>>
    BY <1>7 DEF flush, whenFlushed, storageVars, channelVars
  <2> QED BY <1>2, <1>3, <2>1 DEF OnItsWay, Writes, Pending
<1>8. CASE close(w)
  <2>1. state'[w] = "Closed"
    BY <1>0, <1>8 DEF close, TypeOK, StorageOK
  <2> QED BY <1>2, <2>1 DEF Informed
<1>9. CASE trigger(w)
  <2>1. UNCHANGED <<state, cache>>
    BY <1>9 DEF trigger
  <2>2. CASE activePromise[w]
    <3>1. UNCHANGED <<pendingInserts, pendingDeletes, toMain>>
      BY <1>9, <2>2 DEF trigger
    <3> QED BY <1>2, <1>3, <2>1, <3>1 DEF OnItsWay, Writes, Pending
  <2>3. CASE ~activePromise[w]
    <3>1. flushPending(w, "delayer", "active") /\ deferred[w]
      BY <1>9, <2>3 DEF trigger
    <3>2. toMain[w] = <<>>
      BY <2>3, <3>1 DEF Sessions, Session, Shut, Starting, Idle, Serving, UpdateUnderWay
    <3>3. \A v : OnItsWay(w, k, v) => OnItsWay(w, k, v)'
      BY <3>1, <3>2, FlushOnItsWay
    <3>4. OnItsWay(w, k, cache[w][k]) => OnItsWay(w, k, cache[w][k])'
      BY <2>1, <3>3 DEF OnItsWay
    <3> QED BY <1>2, <1>3, <2>1, <3>4
  <2> QED BY <2>2, <2>3
<1> QED BY <1>2, <1>5, <1>6, <1>7, <1>8, <1>9 DEF StorageStep

LEMMA TruthCall ==
  ASSUME TypeOK, Sessions, NEW w \in Window, NEW k \in Key, call(w),
         LastIsTrue(w, k), Informed(w, k), k \notin changedKeys,
         cache'[Main][k] = cache[Main][k]
  PROVE  LastIsTrue(w, k)' /\ Informed(w, k)'
<1>0. /\ w \in Storages /\ w # Main /\ Main \in Storages
      /\ toWindow \in [Window -> Seq(Reply)] /\ cache[Main] \in Items /\ Session(w)
      /\ toMain[w] # <<>> /\ toMain[w] \in Seq(Call) /\ toMain'[w] = Tail(toMain[w])
  BY MainIsStorage DEF TypeOK, StorageOK, ChannelOK, Sessions, call
<1>1. LastReports(toWindow[w], k, cache[Main][k])
  BY DEF LastIsTrue
<1>2. CASE callListen(w) \/ callGetItems(w)
  <2>1. UNCHANGED <<cache, ready, state>>
    BY <1>2 DEF callListen, callGetItems, storageVars
  <2>2. ~ready[w]
    <3>1. Head(toMain[w]) = toMain[w][1]
      BY <1>0, HeadTailProperties
    <3> QED BY <1>0, <1>2, <3>1 DEF callListen, callGetItems, Session, Shut, Starting, Serving,
                                   UpdateUnderWay
  <2>3. LastReports(toWindow'[w], k, cache[Main][k])
    <3>1. CASE callListen(w)
      BY <1>1, <3>1 DEF callListen
    <3>2. CASE callGetItems(w)
      <4> DEFINE m == [type |-> "items", items |-> cache[Main]]
      <4>1. m \in Reply /\ Mentions(m, k) /\ Reports(m, k) = cache[Main][k]
        BY <1>0 DEF Reply, Mentions, Reports
      <4>2. toWindow'[w] = Append(toWindow[w], m)
        BY <1>0, <3>2 DEF callGetItems, Answered
      <4> HIDE DEF m
      <4> QED BY <1>0, <4>1, <4>2, AppendMessage
    <3> QED BY <1>2, <3>1, <3>2
  <2> QED BY <2>1, <2>2, <2>3 DEF LastIsTrue, Informed
<1>3. CASE callUpdateItems(w)
  <2> DEFINE m == [type |-> "updated"]
             r == Head(toMain[w]).request
  <2>1. m \in Reply /\ ~Mentions(m, k)
    BY DEF Reply, Mentions
  <2>2. toWindow'[w] = Append(toWindow[w], m) /\ UNCHANGED <<ready, state>>
    BY <1>0, <1>3 DEF callUpdateItems, Answered
  <2> HIDE DEF m
  <2>3. /\ LastReports(toWindow'[w], k, cache[Main][k])
        /\ Unmentioned(toWindow'[w], k) => Unmentioned(toWindow[w], k)
    BY <1>0, <1>1, <2>1, <2>2, AppendMessage
  <2>4. LastIsTrue(w, k)'
    BY <2>3 DEF LastIsTrue
  <2>5. Head(toMain[w]) \in Call /\ Head(toMain[w]).type = "updateItems" /\ Head(toMain[w]) = toMain[w][1]
    BY <1>0, <1>3, HeadTailProperties DEF callUpdateItems
  <2>6. /\ r \in Request /\ r.insert \in Items /\ r.delete \in SUBSET Key
        /\ \A j \in r.delete : r.insert[j] = Absent
    BY <2>5, RequestOfCall
  <2>7. state[Main] # "Closed"
    BY <1>0 DEF Sessions, Shut
  <2>8. accept(Main, r.insert, r.delete)
    BY <1>3, <2>7 DEF callUpdateItems
  <2>9. cache'[Main][k] = IF r.insert[k] # Absent \/ k \in r.delete THEN r.insert[k] ELSE cache[Main][k]
    <3> HIDE DEF r
    <3> QED BY <1>0, <2>6, <2>8, AcceptEffect
  <2>10. /\ cache'[w] = cache[w]
         /\ pendingInserts'[w] = pendingInserts[w] /\ pendingDeletes'[w] = pendingDeletes[w]
    BY <1>0, <2>8, AcceptOther
  <2>11. Informed(w, k)'
    <3> SUFFICES ASSUME ready[w], state[w] = "Initialized", Unmentioned(toWindow'[w], k),
                        cache[w][k] # cache[Main][k]
                 PROVE  OnItsWay(w, k, cache[w][k])'
      BY <2>2, <2>10 DEF Informed
    <3>1. OnItsWay(w, k, cache[w][k])
      BY <2>3 DEF Informed
    <3>2. Writes(Pending(w), k) /\ pendingInserts[w][k] = cache[w][k]
      BY <2>5, <2>9, <3>1 DEF OnItsWay, Writes
    <3> QED BY <2>10, <3>2 DEF OnItsWay, Writes, Pending
  <2> QED BY <2>4, <2>11
<1> QED BY <1>2, <1>3 DEF call

LEMMA TruthReceive ==
  ASSUME TypeOK, Sessions, NEW w \in Window, NEW k \in Key, receive(w),
         LastIsTrue(w, k), Informed(w, k), k \notin changedKeys,
         cache'[Main][k] = cache[Main][k]
  PROVE  LastIsTrue(w, k)' /\ Informed(w, k)'
<1> DEFINE e == Head(toWindow[w])
<1>0. /\ w \in Storages /\ w # Main /\ Session(w)
      /\ toWindow[w] # <<>> /\ toWindow[w] \in Seq(Reply) /\ toWindow'[w] = Tail(toWindow[w])
  BY MainIsStorage DEF TypeOK, ChannelOK, Sessions, receive
<1>1. LastReports(toWindow[w], k, cache[Main][k])
  BY DEF LastIsTrue
<1>2. /\ LastReports(toWindow'[w], k, cache[Main][k])
      /\ Unmentioned(toWindow'[w], k) /\ ~Mentions(e, k) => Unmentioned(toWindow[w], k)
      /\ Unmentioned(toWindow'[w], k) /\ Mentions(e, k) => Reports(e, k) = cache[Main][k]
  BY <1>0, <1>1, ReadMessage
<1>3. LastIsTrue(w, k)'
  BY <1>2 DEF LastIsTrue
<1>4. CASE receiveItems(w)
  <2>1. Mentions(e, k) /\ cache'[w] = e.items /\ Reports(e, k) = e.items[k]
    BY <1>0, <1>4 DEF receiveItems, Mentions, Reports, TypeOK, StorageOK
  <2> QED BY <1>2, <1>3, <2>1 DEF Informed
<1>5. CASE receiveChange(w)
  <2>1. /\ e.type = "change"
        /\ UNCHANGED <<state, pendingInserts, pendingDeletes, ready, toMain>>
    BY <1>5 DEF receiveChange
  <2>2. ASSUME state[w] = "Initialized"
        PROVE  cache'[w][k] = IF Mentions(e, k) THEN Reports(e, k) ELSE cache[w][k]
    <3>1. cache'[w][k] = IF e.changed[k] # Absent THEN e.changed[k]
                         ELSE IF k \in e.deleted THEN Absent ELSE cache[w][k]
      BY <1>0, <1>5, <2>2 DEF receiveChange, TypeOK, StorageOK
    <3> QED BY <2>1, <3>1 DEF Mentions, Reports
  <2>3. Informed(w, k)'
    <3> SUFFICES ASSUME ready[w], state[w] = "Initialized", Unmentioned(toWindow'[w], k),
                        cache'[w][k] # cache[Main][k]
                 PROVE  OnItsWay(w, k, cache[w][k])'
      BY <2>1 DEF Informed
    <3>1. ~Mentions(e, k) /\ cache'[w][k] = cache[w][k]
      BY <1>2, <2>2
    <3>2. OnItsWay(w, k, cache[w][k])
      BY <1>2, <3>1 DEF Informed
    <3> QED BY <2>1, <3>1, <3>2 DEF OnItsWay, Writes, Pending
  <2> QED BY <1>3, <2>3
<1>6. CASE receiveUpdated(w)
  <2>1. e.type = "updated" /\ finished(w, FALSE) /\ UNCHANGED <<state, cache, ready>>
    BY <1>6 DEF receiveUpdated
  <2>2. ~Mentions(e, k)
    BY <2>1 DEF Mentions
  <2>3. Informed(w, k)'
    <3> SUFFICES ASSUME ready[w], state[w] = "Initialized", Unmentioned(toWindow'[w], k),
                        cache[w][k] # cache[Main][k]
                 PROVE  OnItsWay(w, k, cache[w][k])'
      BY <2>1 DEF Informed
    <3>1. OnItsWay(w, k, cache[w][k])
      BY <1>2, <2>2 DEF Informed
    <3>2. CASE queuedPromise[w]
      <4>1. flushPending(w, "queued", "queued")
        BY <2>1, <3>2 DEF finished
      <4>2. Serving(w)
        BY <1>0 DEF Session, Shut, Starting
      <4>3. ~None(toWindow[w], "updated")
        BY <1>0, <2>1, ReadReply
      <4>4. toMain[w] = <<>>
        BY <4>2, <4>3 DEF Serving, UpdateUnderWay
      <4>5. \A v : OnItsWay(w, k, v) => OnItsWay(w, k, v)'
        BY <4>1, <4>4, FlushOnItsWay
      <4> QED BY <2>1, <3>1, <4>5 DEF OnItsWay
    <3>3. CASE ~queuedPromise[w]
      <4>1. UNCHANGED <<pendingInserts, pendingDeletes, toMain>>
        BY <2>1, <3>3 DEF finished
      <4> QED BY <2>1, <3>1, <4>1 DEF OnItsWay, Writes, Pending
    <3> QED BY <3>2, <3>3
  <2> QED BY <1>3, <2>3
<1> QED BY <1>4, <1>5, <1>6 DEF receive

LEMMA TruthNext == TypeOK /\ Sessions /\ Truthful /\ [Next]_vars => Truthful'
<1> SUFFICES ASSUME TypeOK, Sessions, Truthful, [Next]_vars, NEW w \in Window, NEW k \in Key
             PROVE  LastIsTrue(w, k)' /\ Informed(w, k)'
  BY DEF Truthful
<1> DEFINE True == LastIsTrue(w, k)' /\ Informed(w, k)'
<1>0. LastIsTrue(w, k) /\ Informed(w, k)
  BY DEF Truthful
<1>1. CASE fireChangeEvents
  BY <1>0, <1>1, TruthFire
<1>2. CASE k \in changedKeys'
  BY <1>2 DEF LastIsTrue, Informed
<1>3. CASE ~fireChangeEvents /\ k \notin changedKeys'
  <2>1. k \notin changedKeys /\ cache'[Main][k] = cache[Main][k]
    BY <1>3, ChangeIsNoted
  <2>2. ASSUME UNCHANGED <<Own(w), toWindow[w], cache[w]>> PROVE True
    BY <1>0, <2>1, <2>2, TruthKept
  <2> HIDE DEF True
  <2>3. ASSUME NEW n \in Storages, StorageStep(n) PROVE True
    <3>1. CASE n = w
      BY <1>0, <2>1, <2>3, <3>1, TruthStorageStep DEF True
    <3>2. CASE n # w
      BY <2>2, <2>3, <3>2, StorageStepOther
    <3> QED BY <3>1, <3>2
  <2>4. ASSUME NEW v \in Window, call(v) \/ openWindow(v) \/ receive(v) \/ closeClient(v), v # w
        PROVE  True
    BY <2>2, <2>4, WindowStepOther
  <2>5. ASSUME call(w) PROVE True
    BY <1>0, <2>1, <2>5, TruthCall DEF True
  <2>6. ASSUME receive(w) PROVE True
    BY <1>0, <2>1, <2>6, TruthReceive DEF True
  <2>7. ASSUME openWindow(w) PROVE True
    <3>1. Shut(w)
      BY <2>7 DEF openWindow, Sessions, Session, Starting, Serving, WindowCloseOrder
    <3>2. ~ready[w] /\ UNCHANGED <<ready, toWindow>>
      BY <2>7, <3>1 DEF openWindow, Shut
    <3> QED BY <1>0, <2>1, <3>2 DEF True, LastIsTrue, Informed
  <2>8. ASSUME closeClient(w) PROVE True
    <3>1. ~ready'[w] /\ toWindow'[w] = <<>>
      BY <2>8, MainIsStorage DEF closeClient, TypeOK, StorageOK, ChannelOK
    <3> QED BY <3>1 DEF True, LastIsTrue, LastReports, Informed
  <2>9. ASSUME DatabaseStep PROVE True
    BY <2>2, <2>9, DatabaseStepOther
  <2>10. ASSUME UNCHANGED vars PROVE True
    BY <2>2, <2>10 DEF vars, Own, storageVars, delayerVars, channelVars
  <2>11. True
    BY <1>3, <2>3, <2>4, <2>5, <2>6, <2>7, <2>8, <2>9, <2>10 DEF Next, StorageStep, DatabaseStep
  <2> QED BY <2>11 DEF True
<1> QED BY <1>1, <1>2, <1>3

\* For any number of windows, keys, values and writes: when nothing is on its way
\* any more, every open window has exactly the items of the main process, in
\* whatever order writes, confirmations and change events were delivered
\* (Storage.acceptExternal, StorageDatabaseChannel.serializeStorageChangeEvents).
THEOREM WindowsConverge == Spec => []Converged
<1>1. Init => Truthful
  <2> SUFFICES ASSUME Init, NEW w \in Window, NEW k \in Key PROVE LastIsTrue(w, k) /\ Informed(w, k)
    BY DEF Truthful
  <2> QED BY MainIsStorage DEF Init, LastIsTrue, LastReports, Informed
<1>2. TypeOK /\ Sessions /\ Truthful => Converged
  <2> SUFFICES ASSUME TypeOK, Sessions, Truthful, Quiet, NEW w \in Window, state[w] = "Initialized"
               PROVE  cache[w] = cache[Main]
    BY DEF Converged
  <2>1. toMain[w] = <<>> /\ toWindow[w] = <<>> /\ changedKeys = {} /\ Idle(w)
    BY DEF Quiet
  <2>2. ready[w]
    BY <2>1 DEF Sessions, Session, Shut, Starting, One, Serving
  <2>3. ASSUME NEW k \in Key PROVE cache[w][k] = cache[Main][k]
    <3>1. Unmentioned(toWindow[w], k)
      BY <2>1 DEF Unmentioned
    <3>2. ~Writes(Pending(w), k)
      BY <2>1 DEF Idle, hasPending, Writes, Pending, NoItems
    <3> QED BY <2>1, <2>2, <3>1, <3>2 DEF Truthful, Informed, OnItsWay
  <2>4. cache[w] \in Items /\ cache[Main] \in Items
    BY MainIsStorage DEF TypeOK, StorageOK
  <2> QED BY <2>3, <2>4 DEF Items
<1> QED BY <1>1, <1>2, TruthNext, SessionsAlways, StorageTypeCorrect, PTL DEF Spec
=============================================================================
