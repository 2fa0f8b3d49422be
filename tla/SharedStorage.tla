---------------------------- MODULE SharedStorage ----------------------------
(***************************************************************************)
(* The key-value storage that several windows share: each window keeps a   *)
(* Storage object (src/src/vs/base/parts/storage/common/storage.ts) whose  *)
(* database is a channel to the main process, and the main process keeps a *)
(* Storage object of the same class whose database is SQLite.  A Storage   *)
(* answers from its cache, collects writes and flushes them later through  *)
(* a ThrottledDelayer; the main process tells every window what changed.   *)
(*                                                                         *)
(* Absent stands for a key without a value.  Time is abstract: a timer is  *)
(* armed or not and may fire at any moment after it was armed.             *)
(***************************************************************************)
EXTENDS Integers, Sequences

CONSTANTS Window, Key, Value, Main, Absent,
          Writers,      \* the Storages to which the application writes
          MaxWrites,    \* bound: calls of set and delete by the application
          MaxOpens,     \* bound: windows ever opened
          MaxFailures   \* bound: failing database operations

ASSUME StorageAssumption ==
  /\ Main \notin Window
  /\ Absent \notin Value
  /\ Writers \subseteq Window \cup {Main}
  /\ MaxWrites \in Nat
  /\ MaxOpens \in Nat
  /\ MaxFailures \in Nat

Storages == Window \cup {Main}
Items == [Key -> Value \cup {Absent}]
NoItems == [k \in Key |-> Absent]

\* An IUpdateRequest.  Inserts are applied before deletes, so no key may be
\* in both.
Request ==
  {r \in [insert : Items, delete : SUBSET Key] : \A k \in r.delete : r.insert[k] = Absent}
NoRequest == [insert |-> NoItems, delete |-> {}]

VARIABLES
  \* Storage, one per window and one in the main process
  state, cache, pendingInserts, pendingDeletes,
  whenFlushedCallbacks,  \* somebody waits for whenFlushed()
  closing,          \* what doClose() waits for
  ready,            \* init() has replaced the cache
  \* its flushDelayer: the Delayer's timer, the Throttler's two promises
  deferred, activePromise, queuedPromise,
  \* the channel between each window and the main process
  toMain, toWindow, listening,
  \* the main process: debounced change events, the SQLite database
  changedKeys, updating, db, isErroneous,
  \* bounds
  writes, opens, failures

storageVars == <<state, cache, pendingInserts, pendingDeletes, whenFlushedCallbacks,
                 closing, ready>>
delayerVars == <<deferred, activePromise, queuedPromise>>
channelVars == <<toMain, toWindow, listening>>
mainVars == <<changedKeys, updating, db, isErroneous>>
boundVars == <<writes, opens, failures>>
vars == <<storageVars, delayerVars, channelVars, mainVars, boundVars>>

Call == [type : {"listen", "getItems"}] \cup [type : {"updateItems"}, request : Request]
Reply == [type : {"items"}, items : Items]
         \cup [type : {"updated"}]
         \cup [type : {"change"}, changed : Items, deleted : SUBSET Key]

Pending(n) == [insert |-> pendingInserts[n], delete |-> pendingDeletes[n]]

StorageOK ==
  /\ state \in [Storages -> {"None", "Initialized", "Closed"}]
  /\ cache \in [Storages -> Items]
  /\ pendingInserts \in [Storages -> Items]
  /\ pendingDeletes \in [Storages -> SUBSET Key]
  /\ \A n \in Storages : Pending(n) \in Request
  /\ whenFlushedCallbacks \in [Storages -> BOOLEAN]
  /\ closing \in [Storages -> {"no", "delayer", "active", "queued", "never", "database",
                                "done", "failed"}]
  /\ ready \in [Storages -> BOOLEAN]

DelayerOK ==
  /\ deferred \in [Storages -> BOOLEAN]
  /\ activePromise \in [Storages -> BOOLEAN]
  /\ queuedPromise \in [Storages -> BOOLEAN]

ChannelOK ==
  /\ toMain \in [Window -> Seq(Call)]
  /\ toWindow \in [Window -> Seq(Reply)]
  /\ listening \in [Window -> BOOLEAN]

MainOK ==
  /\ changedKeys \in SUBSET Key
  /\ updating \in Request
  /\ db \in Items
  /\ isErroneous \in BOOLEAN

BoundsOK ==
  /\ writes \in 0 .. MaxWrites
  /\ opens \in 0 .. MaxOpens
  /\ failures \in 0 .. MaxFailures

\* Every Storage, the channels and the main process have their types; no key is
\* ever both to be inserted and to be deleted.
TypeOK == StorageOK /\ DelayerOK /\ ChannelOK /\ MainOK /\ BoundsOK

\* The main process has opened its database; no window is open.
Init ==
  /\ db \in Items
  /\ state = [n \in Storages |-> IF n = Main THEN "Initialized" ELSE "None"]
  /\ cache = [n \in Storages |-> IF n = Main THEN db ELSE NoItems]
  /\ pendingInserts = [n \in Storages |-> NoItems]
  /\ pendingDeletes = [n \in Storages |-> {}]
  /\ whenFlushedCallbacks = [n \in Storages |-> FALSE]
  /\ closing = [n \in Storages |-> "no"]
  /\ ready = [n \in Storages |-> n = Main]
  /\ deferred = [n \in Storages |-> FALSE]
  /\ activePromise = [n \in Storages |-> FALSE]
  /\ queuedPromise = [n \in Storages |-> FALSE]
  /\ toMain = [w \in Window |-> <<>>]
  /\ toWindow = [w \in Window |-> <<>>]
  /\ listening = [w \in Window |-> FALSE]
  /\ changedKeys = {}
  /\ updating = NoRequest
  /\ isErroneous = FALSE
  /\ writes = 0
  /\ opens = 0
  /\ failures = 0

-----------------------------------------------------------------------------
(***************************************************************************)
(* set and delete.  A value that the cache already has, or a key it has    *)
(* not, returns early; everything else is cached, becomes pending, fires   *)
(* an event (which the main process debounces) and triggers a flush.       *)
(***************************************************************************)
Differing(n, insert) == {k \in Key : insert[k] # Absent /\ cache[n][k] # insert[k]}

Present(n, delete) == {k \in delete : cache[n][k] # Absent}

Changed(items, insert, set, deleted) ==
  [k \in Key |-> IF k \in set THEN insert[k] ELSE IF k \in deleted THEN Absent ELSE items[k]]

\* A batch of set and delete calls on n; no key is in both.
\* Mutant: setting a key does not take back its pending delete.
acceptKeepsDelete(n, insert, delete) ==
  LET set == Differing(n, insert)
      deleted == Present(n, delete)
  IN  /\ cache' = [cache EXCEPT ![n] = Changed(@, insert, set, deleted)]
      /\ pendingInserts' = [pendingInserts EXCEPT ![n] = Changed(@, insert, set, deleted)]
      /\ pendingDeletes' = [pendingDeletes EXCEPT ![n] = @ \cup deleted]
      /\ deferred' = [deferred EXCEPT ![n] = @ \/ set \cup deleted # {}]
      /\ changedKeys' = IF n = Main THEN changedKeys \cup set \cup deleted ELSE changedKeys

accept(n, insert, delete) ==
  LET set == Differing(n, insert)
      deleted == Present(n, delete)
  IN  /\ cache' = [cache EXCEPT ![n] = Changed(@, insert, set, deleted)]
      /\ pendingInserts' = [pendingInserts EXCEPT ![n] = Changed(@, insert, set, deleted)]
      /\ pendingDeletes' = [pendingDeletes EXCEPT ![n] = (@ \ set) \cup deleted]
      /\ deferred' = [deferred EXCEPT ![n] = @ \/ set \cup deleted # {}]
      /\ changedKeys' = IF n = Main THEN changedKeys \cup set \cup deleted ELSE changedKeys

\* The application calls a Storage only after its init() (desktop.main.ts
\* awaits it); a closed Storage returns early.
Writable(n) ==
  n \in Writers /\ state[n] = "Initialized" /\ ready[n] /\ writes < MaxWrites

set(n, k, v) ==
  /\ Writable(n)
  /\ accept(n, [NoItems EXCEPT ![k] = v], {})
  /\ writes' = writes + 1
  /\ UNCHANGED <<state, whenFlushedCallbacks, closing, ready, activePromise, queuedPromise,
                 channelVars, updating, db, isErroneous, opens, failures>>

delete(n, k) ==
  /\ Writable(n)
  /\ accept(n, NoItems, {k})
  /\ writes' = writes + 1
  /\ UNCHANGED <<state, whenFlushedCallbacks, closing, ready, activePromise, queuedPromise,
                 channelVars, updating, db, isErroneous, opens, failures>>

-----------------------------------------------------------------------------
(***************************************************************************)
(* Flushing.  The Delayer's timer queues flushPending on the Throttler,    *)
(* which runs it at once, or once more after the one that is running.      *)
(***************************************************************************)
hasPending(n) == pendingInserts[n] # NoItems \/ pendingDeletes[n] # {}

\* The database of n starts an update.
startUpdate(n, request) ==
  IF n = Main
    THEN updating' = request /\ UNCHANGED toMain
    ELSE /\ toMain' = [toMain EXCEPT ![n] =
                         Append(@, [type |-> "updateItems", request |-> request])]
         /\ UNCHANGED updating

\* flushPending: what is pending goes to the database, or nothing happens.
\* doClose() follows if it waited for this flush: it then waits for the promise
\* named by next, or goes on when nothing was pending.
flushPending(n, waited, next) ==
  /\ IF hasPending(n)
       THEN startUpdate(n, Pending(n))
       ELSE UNCHANGED toMain /\ updating' = IF n = Main THEN NoRequest ELSE updating
  /\ pendingInserts' = [pendingInserts EXCEPT ![n] = NoItems]
  /\ pendingDeletes' = [pendingDeletes EXCEPT ![n] = {}]
  /\ activePromise' = [activePromise EXCEPT ![n] = hasPending(n)]
  /\ closing' = [closing EXCEPT ![n] =
                   IF @ # waited THEN @ ELSE IF hasPending(n) THEN next ELSE "database"]

\* The Delayer's timer fires: Throttler.queue(flushPending).
\* Mutant: a flush that finds another one running is forgotten.
triggerForgets(n) ==
  /\ deferred[n]
  /\ deferred' = [deferred EXCEPT ![n] = FALSE]
  /\ IF activePromise[n]
       THEN UNCHANGED <<queuedPromise, closing, activePromise, pendingInserts, pendingDeletes,
                        updating, toMain>>
       ELSE flushPending(n, "delayer", "active") /\ UNCHANGED queuedPromise
  /\ UNCHANGED <<state, cache, whenFlushedCallbacks, ready, toWindow, listening,
                 changedKeys, db, isErroneous, boundVars>>

trigger(n) ==
  /\ deferred[n]
  /\ deferred' = [deferred EXCEPT ![n] = FALSE]
  /\ \/ /\ activePromise[n]
        /\ queuedPromise' = [queuedPromise EXCEPT ![n] = TRUE]
        /\ closing' = [closing EXCEPT ![n] = IF @ = "delayer" THEN "queued" ELSE @]
        /\ UNCHANGED <<activePromise, pendingInserts, pendingDeletes, updating, toMain>>
     \/ /\ ~activePromise[n]
        /\ flushPending(n, "delayer", "active")
        /\ UNCHANGED queuedPromise
  /\ UNCHANGED <<state, cache, whenFlushedCallbacks, ready, toWindow, listening,
                 changedKeys, db, isErroneous, boundVars>>

\* flush() and optimize(): the timer is armed even if nothing is pending.
flush(n) ==
  /\ state[n] = "Initialized" /\ ready[n]
  /\ deferred' = [deferred EXCEPT ![n] = TRUE]
  /\ UNCHANGED <<storageVars, activePromise, queuedPromise, channelVars, mainVars, boundVars>>

\* The application waits until everything is flushed; with nothing pending
\* whenFlushed() returns at once.
whenFlushed(n) ==
  /\ state[n] = "Initialized" /\ ready[n]
  /\ hasPending(n)
  /\ whenFlushedCallbacks' = [whenFlushedCallbacks EXCEPT ![n] = TRUE]
  /\ UNCHANGED <<state, cache, pendingInserts, pendingDeletes, closing, ready, delayerVars,
                 channelVars, mainVars, boundVars>>

\* The database has finished an update of n: waiters are released if nothing
\* new is pending, and doClose() goes on if it waited for this update.  Then a
\* queued flush starts.  A rejection reaches who waits for the running promise;
\* the Throttler only ever resolves its queued promise, so who waits for that
\* one is never told.
\* Mutant: the queued flush is not started.
finishedStopsQueue(n, rejected) ==
  /\ whenFlushedCallbacks' = [whenFlushedCallbacks EXCEPT ![n] = @ /\ hasPending(n)]
  /\ queuedPromise' = [queuedPromise EXCEPT ![n] = FALSE]
  /\ activePromise' = [activePromise EXCEPT ![n] = FALSE]
  /\ updating' = IF n = Main THEN NoRequest ELSE updating
  /\ closing' = [closing EXCEPT ![n] = IF @ = "active" THEN "database" ELSE @]
  /\ UNCHANGED <<pendingInserts, pendingDeletes, toMain>>

finished(n, rejected) ==
  /\ whenFlushedCallbacks' = [whenFlushedCallbacks EXCEPT ![n] = @ /\ hasPending(n)]
  /\ queuedPromise' = [queuedPromise EXCEPT ![n] = FALSE]
  /\ \/ /\ queuedPromise[n]
        /\ flushPending(n, "queued", "queued")
     \/ /\ ~queuedPromise[n]
        /\ activePromise' = [activePromise EXCEPT ![n] = FALSE]
        /\ updating' = IF n = Main THEN NoRequest ELSE updating
        /\ closing' = [closing EXCEPT ![n] =
                         CASE @ = "active" -> "database"
                           [] @ = "queued" -> IF rejected THEN "never" ELSE "database"
                           [] OTHER -> @]
        /\ UNCHANGED <<pendingInserts, pendingDeletes, toMain>>

-----------------------------------------------------------------------------
(***************************************************************************)
(* The main process answers the windows (StorageDatabaseChannel).          *)
(***************************************************************************)
Answered(w, msg) == [toWindow EXCEPT ![w] = Append(@, msg)]

callListen(w) ==
  /\ Head(toMain[w]).type = "listen"
  /\ listening' = [listening EXCEPT ![w] = TRUE]
  /\ UNCHANGED <<storageVars, delayerVars, toWindow, mainVars, boundVars>>

callGetItems(w) ==
  /\ Head(toMain[w]).type = "getItems"
  /\ toWindow' = Answered(w, [type |-> "items", items |-> cache[Main]])
  /\ UNCHANGED <<storageVars, delayerVars, listening, mainVars, boundVars>>

\* A closed Storage ignores the writes, and the window is told nothing of it.
callUpdateItems(w) ==
  /\ Head(toMain[w]).type = "updateItems"
  /\ LET request == Head(toMain[w]).request
     IN  IF state[Main] = "Closed"
           THEN UNCHANGED <<cache, pendingInserts, pendingDeletes, deferred, changedKeys>>
           ELSE accept(Main, request.insert, request.delete)
  /\ toWindow' = Answered(w, [type |-> "updated"])
  /\ UNCHANGED <<state, whenFlushedCallbacks, closing, ready, activePromise, queuedPromise,
                 listening, updating, db, isErroneous, boundVars>>

call(w) ==
  /\ toMain[w] # <<>>
  /\ toMain' = [toMain EXCEPT ![w] = Tail(@)]
  /\ callListen(w) \/ callGetItems(w) \/ callUpdateItems(w)

\* Mutant: only the keys that still have a value are reported.
ChangeEventNoDeletes(keys) ==
  [type |-> "change",
   changed |-> [k \in Key |-> IF k \in keys THEN cache[Main][k] ELSE Absent],
   deleted |-> {}]

\* The debounced change events fire: every listening window gets, for each key
\* that changed, the value it has now.
ChangeEvent(keys) ==
  [type |-> "change",
   changed |-> [k \in Key |-> IF k \in keys THEN cache[Main][k] ELSE Absent],
   deleted |-> {k \in keys : cache[Main][k] = Absent}]

fireChangeEvents ==
  /\ changedKeys # {}
  /\ toWindow' = [w \in Window |-> IF listening[w]
                                     THEN Append(toWindow[w], ChangeEvent(changedKeys))
                                     ELSE toWindow[w]]
  /\ changedKeys' = {}
  /\ UNCHANGED <<storageVars, delayerVars, toMain, listening, updating, db, isErroneous, boundVars>>

-----------------------------------------------------------------------------
(***************************************************************************)
(* A window's Storage.                                                     *)
(***************************************************************************)
\* A window opens: a new Storage object, whose database client listens for
\* changes before init() asks for the items.
openWindow(w) ==
  /\ state[w] = "None" \/ closing[w] = "done"
  /\ opens < MaxOpens
  /\ opens' = opens + 1
  /\ state[Main] = "Initialized"
  /\ state' = [state EXCEPT ![w] = "Initialized"]
  /\ cache' = [cache EXCEPT ![w] = NoItems]
  /\ whenFlushedCallbacks' = [whenFlushedCallbacks EXCEPT ![w] = FALSE]
  /\ closing' = [closing EXCEPT ![w] = "no"]
  /\ toMain' = [toMain EXCEPT ![w] = <<[type |-> "listen"], [type |-> "getItems"]>>]
  /\ UNCHANGED <<pendingInserts, pendingDeletes, ready, delayerVars, toWindow, listening,
                 mainVars, writes, failures>>

\* init() gets the items.
receiveItems(w) ==
  /\ Head(toWindow[w]).type = "items"
  /\ cache' = [cache EXCEPT ![w] = Head(toWindow[w]).items]
  /\ ready' = [ready EXCEPT ![w] = TRUE]
  /\ UNCHANGED <<state, pendingInserts, pendingDeletes, whenFlushedCallbacks, closing, delayerVars,
                 toMain, updating>>

\* onDidChangeItemsExternal: the cache accepts the values as they are.
receiveChange(w) ==
  /\ Head(toWindow[w]).type = "change"
  /\ LET e == Head(toWindow[w])
     IN  cache' = IF state[w] = "Closed" THEN cache
                  ELSE [cache EXCEPT ![w] =
                         [k \in Key |-> IF e.changed[k] # Absent THEN e.changed[k]
                                        ELSE IF k \in e.deleted THEN Absent ELSE @[k]]]
  /\ UNCHANGED <<state, pendingInserts, pendingDeletes, whenFlushedCallbacks, closing, ready,
                 delayerVars, toMain, updating>>

\* An update is confirmed.
receiveUpdated(w) ==
  /\ Head(toWindow[w]).type = "updated"
  /\ finished(w, FALSE)
  /\ UNCHANGED <<state, cache, ready, deferred>>

receive(w) ==
  /\ toWindow[w] # <<>>
  /\ toWindow' = [toWindow EXCEPT ![w] = Tail(@)]
  /\ receiveItems(w) \/ receiveChange(w) \/ receiveUpdated(w)
  /\ UNCHANGED <<listening, changedKeys, db, isErroneous, boundVars>>

-----------------------------------------------------------------------------
(***************************************************************************)
(* Closing: a last flush, whatever its result, and then the database.      *)
(***************************************************************************)
\* A window closes at any time; the main process when no window is open
\* (onWillShutdown).
MayClose(n) ==
  /\ state[n] = "Initialized" /\ ready[n]
  /\ n = Main => \A w \in Window : state[w] = "None" \/ closing[w] = "done"

\* Mutant: the last flush is not awaited.
closeAtOnce(n) ==
  /\ MayClose(n)
  /\ state' = [state EXCEPT ![n] = "Closed"]
  /\ deferred' = [deferred EXCEPT ![n] = TRUE]
  /\ closing' = [closing EXCEPT ![n] = "database"]
  /\ UNCHANGED <<cache, pendingInserts, pendingDeletes, whenFlushedCallbacks, ready, activePromise,
                 queuedPromise, channelVars, mainVars, boundVars>>

close(n) ==
  /\ MayClose(n)
  /\ state' = [state EXCEPT ![n] = "Closed"]
  /\ deferred' = [deferred EXCEPT ![n] = TRUE]
  /\ closing' = [closing EXCEPT ![n] = "delayer"]
  /\ UNCHANGED <<cache, pendingInserts, pendingDeletes, whenFlushedCallbacks, ready, activePromise,
                 queuedPromise, channelVars, mainVars, boundVars>>

\* A window's client disposes its listener, and the window is gone.
closeClient(w) ==
  /\ closing[w] = "database"
  /\ closing' = [closing EXCEPT ![w] = "done"]
  /\ ready' = [ready EXCEPT ![w] = FALSE]
  /\ listening' = [listening EXCEPT ![w] = FALSE]
  /\ toWindow' = [toWindow EXCEPT ![w] = <<>>]
  /\ UNCHANGED <<state, cache, pendingInserts, pendingDeletes, whenFlushedCallbacks, delayerVars,
                 toMain, mainVars, boundVars>>

-----------------------------------------------------------------------------
(***************************************************************************)
(* SQLiteStorageDatabase.                                                  *)
(***************************************************************************)
Overlaid(items, request) ==
  [k \in Key |-> IF k \in request.delete THEN Absent
                 ELSE IF request.insert[k] # Absent THEN request.insert[k] ELSE items[k]]

\* The transaction of the running update ends.
updateItems ==
  /\ activePromise[Main]
  /\ db' = Overlaid(db, updating)
  /\ finished(Main, FALSE)
  /\ UNCHANGED <<state, cache, ready, deferred, toWindow, listening, changedKeys,
                 isErroneous, boundVars>>

\* The running update fails: its END TRANSACTION is refused, and the promise is
\* rejected; or a statement fails, and only the error is remembered.
updateItemsFails ==
  /\ activePromise[Main]
  /\ failures < MaxFailures
  /\ failures' = failures + 1
  /\ isErroneous' = TRUE
  /\ \/ UNCHANGED db /\ finished(Main, TRUE)
     \/ /\ \/ db' = Overlaid(db, [updating EXCEPT !.insert = NoItems])
           \/ db' = Overlaid(db, [updating EXCEPT !.delete = {}])
        /\ finished(Main, FALSE)
  /\ UNCHANGED <<state, cache, ready, deferred, toWindow, listening, changedKeys,
                 writes, opens>>

\* Mutant: no recovery.
closeDatabaseWithoutRecovery ==
  /\ closing[Main] = "database"
  /\ closing' = [closing EXCEPT ![Main] = "done"]
  /\ UNCHANGED <<state, cache, pendingInserts, pendingDeletes, whenFlushedCallbacks, ready,
                 delayerVars, channelVars, mainVars, boundVars>>

\* close(recovery): a database that had errors is written again from the cache.
closeDatabase ==
  /\ closing[Main] = "database"
  /\ closing' = [closing EXCEPT ![Main] = "done"]
  /\ db' = IF isErroneous THEN cache[Main] ELSE db
  /\ UNCHANGED <<state, cache, pendingInserts, pendingDeletes, whenFlushedCallbacks, ready,
                 delayerVars, channelVars, changedKeys, updating, isErroneous, boundVars>>

\* The recovery fails: the file cannot be removed, or not be written again.
closeDatabaseFails ==
  /\ closing[Main] = "database"
  /\ isErroneous
  /\ failures < MaxFailures
  /\ failures' = failures + 1
  /\ closing' = [closing EXCEPT ![Main] = "failed"]
  /\ db' \in {db, NoItems}
  /\ UNCHANGED <<state, cache, pendingInserts, pendingDeletes, whenFlushedCallbacks, ready,
                 delayerVars, channelVars, changedKeys, updating, isErroneous,
                 writes, opens>>

-----------------------------------------------------------------------------
Next ==
  \/ \E n \in Storages :
       \/ \E k \in Key : delete(n, k) \/ \E v \in Value : set(n, k, v)
       \/ trigger(n)
       \/ flush(n)
       \/ whenFlushed(n)
       \/ close(n)
  \/ \E w \in Window : call(w) \/ openWindow(w) \/ receive(w) \/ closeClient(w)
  \/ fireChangeEvents
  \/ updateItems
  \/ updateItemsFails
  \/ closeDatabase
  \/ closeDatabaseFails

Spec == Init /\ [][Next]_vars

\* Timers fire, calls are answered and messages arrive, and every operation of
\* the database ends.  Nothing is assumed of the application.
Fairness ==
  /\ \A n \in Storages : WF_vars(trigger(n))
  /\ \A w \in Window : WF_vars(call(w)) /\ WF_vars(receive(w)) /\ WF_vars(closeClient(w))
  /\ WF_vars(fireChangeEvents)
  /\ WF_vars(updateItems \/ updateItemsFails)
  /\ WF_vars(closeDatabase \/ closeDatabaseFails)

FairSpec == Spec /\ Fairness

-----------------------------------------------------------------------------
(***************************************************************************)
(* Properties.                                                             *)
(***************************************************************************)
Idle(n) == ~deferred[n] /\ ~activePromise[n] /\ ~queuedPromise[n] /\ ~hasPending(n)

\* Nothing is on its way between the windows and the main process.
Quiet ==
  /\ \A w \in Window : Idle(w) /\ toMain[w] = <<>> /\ toWindow[w] = <<>>
  /\ changedKeys = {}

\* When nothing is on its way, every open window has exactly the items of the
\* main process: whatever the windows wrote concurrently, and although a
\* change event reports the value at the time it fires and overwrites newer
\* values in the caches, no window is left behind (serializeStorageChangeEvents,
\* acceptExternal).
Converged ==
  Quiet => \A w \in Window : state[w] = "Initialized" => cache[w] = cache[Main]

\* A window that has closed has nothing pending and nothing on its way, so the
\* main process has all it wrote (doClose awaits the last flush), and when the
\* main process closes no write can come late and be ignored.
ClosedIsFlushed ==
  /\ \A w \in Window : closing[w] = "done" => Idle(w) /\ toMain[w] = <<>>
  /\ state[Main] = "Closed" =>
       \A w \in Window : \A i \in 1 .. Len(toMain[w]) : toMain[w][i].type # "updateItems"

\* As long as the database has reported no error, what it holds, changed by the
\* running update and by what is pending, is what the main process answers from
\* its cache: no write is forgotten between set() and the database, and none
\* is applied in the wrong order.
CacheIsAccounted ==
  ~isErroneous =>
    cache[Main] = Overlaid(Overlaid(db, updating), Pending(Main))

\* A database that was closed holds what the main process had in its cache,
\* even if updates failed before: either everything was flushed, or the error
\* was remembered and the recovery wrote it again (SQLiteStorageDatabase.close).
ClosedIsStored == closing[Main] = "done" => db = cache[Main]

\* Who waits for whenFlushed() is told in the end, although a flush may fail
\* and new writes may become pending: the callback survives until a flush
\* leaves nothing pending.
WhenFlushedResolves ==
  \A n \in Storages : whenFlushedCallbacks[n] ~> ~whenFlushedCallbacks[n]

\* A window that closes is closed in the end (join.closeStorage).
WindowCloses == \A w \in Window : state[w] = "Closed" ~> closing[w] \in {"done", "no"}

\* The main process's database is always closed, "even if there is an error
\* flushing" (doClose).
DatabaseCloses == state[Main] = "Closed" ~> closing[Main] \in {"done", "failed"}
-----------------------------------------------------------------------------
(***************************************************************************)
(* The inductive invariant behind CacheIsAccounted and ClosedIsStored.     *)
(***************************************************************************)
\* The Throttler queues a flush only behind a running one, and an update is
\* under way only while its promise is.
ThrottlerOrder ==
  /\ queuedPromise[Main] => activePromise[Main]
  /\ ~activePromise[Main] => updating = NoRequest

\* doClose() has always something to wait for until nothing is pending.
CloseOrder ==
  /\ closing[Main] = "no" <=> state[Main] # "Closed"
  /\ closing[Main] = "delayer" => deferred[Main]
  /\ closing[Main] \in {"active", "queued"} => activePromise[Main] /\ ~deferred[Main]
  /\ closing[Main] = "active" => ~queuedPromise[Main] /\ ~hasPending(Main)
  /\ closing[Main] = "queued" => queuedPromise[Main] \/ ~hasPending(Main)
  /\ closing[Main] \in {"never", "database", "done", "failed"} => Idle(Main)
=============================================================================
