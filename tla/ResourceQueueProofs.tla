------------------------- MODULE ResourceQueueProofs -------------------------
(***************************************************************************)
(* Proofs about ResourceQueue, for every set of resources, tasks and       *)
(* waiters, whether factories throw or not.                                *)
(***************************************************************************)
EXTENDS ResourceQueue, TLAPS

\* A task that was queued has a resource, a Queue and a place.
QueuedHasPlace ==
  \A t \in Task :
    /\ state[t] # "new" => keyOf[t] \in Key /\ owner[t] > 0 /\ ticket[t] > 0
    /\ state[t] = "new" => keyOf[t] = NoKey /\ ticket[t] = 0
    /\ ticket[t] <= tickets
    /\ owner[t] <= drainListenerCount

\* Queues are numbered in the order they were made.
QueueNumbers == \A k \in Key : queues[k] <= drainListenerCount

\* Tasks that dispose() left running belong to no Queue of the map.
OrphansAreUntracked ==
  \A t \in orphans : state[t] \in Busy \cup {"done"} /\ ~Tracked(t)

\* The tasks that wait are the ones in outstandingPromises, in their order.
OutstandingIsQueued ==
  /\ \A k \in Key : \A i \in 1 .. Len(outstandingPromises[k]) :
       LET t == outstandingPromises[k][i] IN
         state[t] = "outstanding" /\ keyOf[t] = k /\ owner[t] = queues[k]
  /\ \A t \in Task :
       state[t] = "outstanding" =>
         \E i \in 1 .. Len(outstandingPromises[keyOf[t]]) :
           outstandingPromises[keyOf[t]][i] = t
  /\ \A k \in Key : \A i, j \in 1 .. Len(outstandingPromises[k]) :
       i < j => ticket[outstandingPromises[k][i]] < ticket[outstandingPromises[k][j]]

\* A task that runs in a Queue of the map is the one that runs there, and was
\* queued before all that wait.
BusyIsFirst ==
  /\ \A t \in Task \ orphans :
       state[t] \in Busy =>
         /\ queues[keyOf[t]] = owner[t]
         /\ \A i \in 1 .. Len(outstandingPromises[keyOf[t]]) :
              ticket[t] < ticket[outstandingPromises[keyOf[t]][i]]
  /\ \A t, u \in Task \ orphans :
       state[t] \in Busy /\ state[u] \in Busy /\ keyOf[t] = keyOf[u] => t = u

Inv ==
  /\ TypeOK
  /\ SizeIsExact
  /\ QueueNumbers
  /\ QueuedHasPlace
  /\ OrphansAreUntracked
  /\ OutstandingIsQueued
  /\ BusyIsFirst
  /\ InOrder
  /\ DrainersCanWake

(***************************************************************************)
(* What the actions do in the states that Inv allows, with the cases of    *)
(* consume resolved.                                                       *)
(***************************************************************************)
FirstStarts(k, t) ==
  /\ queues[k] = NoQueue
  /\ queues' = [queues EXCEPT ![k] = drainListenerCount + 1]
  /\ drainListenerCount' = drainListenerCount + 1
  /\ size' = [size EXCEPT ![k] = 1]
  /\ runningPromises' = [runningPromises EXCEPT ![k] = 1]
  /\ outstandingPromises' = [outstandingPromises EXCEPT ![k] = <<>>]
  /\ \E o \in {"running", "rejected"} : state' = [state EXCEPT ![t] = o]

LaterWaits(k, t) ==
  /\ queues[k] # NoQueue
  /\ UNCHANGED <<queues, drainListenerCount, runningPromises>>
  /\ size' = [size EXCEPT ![k] = @ + 1]
  /\ outstandingPromises' = [outstandingPromises EXCEPT ![k] = Append(@, t)]
  /\ state' = [state EXCEPT ![t] = "outstanding"]

Called(k, t) ==
  /\ state[t] = "new"
  /\ keyOf' = [keyOf EXCEPT ![t] = k]
  /\ owner' = [owner EXCEPT ![t] = queues'[k]]
  /\ ticket' = [ticket EXCEPT ![t] = tickets + 1]
  /\ tickets' = tickets + 1
  /\ UNCHANGED <<drainers, drained, orphans>>

Ignored(t) ==
  /\ ~Tracked(t)
  /\ state' = [state EXCEPT ![t] = "done"]
  /\ UNCHANGED <<limiter, drainers, drained>>

Drains(k, t) ==
  /\ Tracked(t)
  /\ k = keyOf[t]
  /\ outstandingPromises[k] = <<>>
  /\ onDrained(k)
  /\ state' = [state EXCEPT ![t] = "done"]

StartsNext(k, t) ==
  LET n == Head(outstandingPromises[k]) IN
  /\ Tracked(t)
  /\ k = keyOf[t]
  /\ outstandingPromises[k] # <<>>
  /\ size' = [size EXCEPT ![k] = @ - 1]
  /\ outstandingPromises' = [outstandingPromises EXCEPT ![k] = Tail(@)]
  /\ \E o \in {"running", "unsettled"} : state' = [state EXCEPT ![t] = "done", ![n] = o]
  /\ UNCHANGED <<queues, runningPromises, drainers, drained>>

Finishes(t) ==
  /\ state[t] = "settled"
  /\ UNCHANGED <<drainListenerCount, calls, orphans>>

\* queueFor starts the first task of a Queue at once and lets all others wait.
LEMMA QueueForCases ==
  ASSUME Inv, NEW k \in Key, NEW t \in Task, queueFor(k, t)
  PROVE  Called(k, t) /\ (FirstStarts(k, t) \/ LaterWaits(k, t))
<1>1. Called(k, t)
  BY DEF queueFor, Called
<1>2. CASE queues[k] = NoQueue
  <2>1. size[k] = 0 /\ runningPromises[k] = 0 /\ outstandingPromises[k] = <<>>
    BY <1>2 DEF Inv, TypeOK, SizeIsExact
  <2>2. Append(outstandingPromises[k], t) = <<t>> /\ Head(<<t>>) = t /\ Tail(<<t>>) = <<>>
    BY <2>1
  <2>3. /\ runningPromises' = [runningPromises EXCEPT ![k] = 1]
        /\ outstandingPromises' = [outstandingPromises EXCEPT ![k] = <<>>]
        /\ \E o \in {"running", "rejected"} : state' = [state EXCEPT ![t] = o]
    BY <2>1, <2>2 DEF queueFor, consume, maxDegreeOfParalellism, Inv, TypeOK
  <2>4. size' = [size EXCEPT ![k] = 1]
    BY <2>1 DEF queueFor, Inv, TypeOK
  <2> QED
    BY <1>1, <1>2, <2>3, <2>4 DEF queueFor, FirstStarts
<1>3. CASE queues[k] # NoQueue
  <2>1. runningPromises[k] = 1
    BY <1>3 DEF Inv, SizeIsExact
  <2>2. /\ runningPromises' = runningPromises
        /\ outstandingPromises' = [outstandingPromises EXCEPT ![k] = Append(@, t)]
        /\ state' = [state EXCEPT ![t] = "outstanding"]
    <3>1. ~(runningPromises[k] < maxDegreeOfParalellism)
      BY <2>1 DEF maxDegreeOfParalellism
    <3>2. /\ runningPromises' = [runningPromises EXCEPT ![k] = runningPromises[k]]
          /\ outstandingPromises' = [outstandingPromises EXCEPT ![k] = Append(outstandingPromises[k], t)]
          /\ state' = [state EXCEPT ![t] = "outstanding"]
      BY <3>1 DEF queueFor, consume
    <3> QED
      BY <3>2 DEF Inv, TypeOK
  <2> QED
    BY <1>1, <1>3, <2>2 DEF queueFor, LaterWaits
<1> QED
  BY <1>2, <1>3

\* consumed does nothing for a disposed Queue, drains the Queue if the task
\* was its last one and starts the next task otherwise.
LEMMA ConsumedCases ==
  ASSUME Inv, NEW t \in Task, consumed(t)
  PROVE  /\ Finishes(t)
         /\ keyOf[t] \in Key
         /\ Ignored(t) \/ Drains(keyOf[t], t) \/ StartsNext(keyOf[t], t)
<1> DEFINE k == keyOf[t]
<1>1. Finishes(t)
  BY DEF consumed, Finishes
<1>2. k \in Key /\ owner[t] > 0
  BY <1>1 DEF Finishes, Inv, QueuedHasPlace
<1>3. CASE ~Tracked(t)
  BY <1>1, <1>2, <1>3 DEF consumed, Ignored
<1>4. CASE Tracked(t)
  <2>1. runningPromises[k] = 1 /\ size[k] = Len(outstandingPromises[k]) + 1
    BY <1>2, <1>4 DEF Tracked, Inv, SizeIsExact, NoQueue, TypeOK
  <2>2. outstandingPromises[k] \in Seq(Task) /\ size[k] \in Nat
    BY <1>2 DEF Inv, TypeOK
  <2>3. CASE size[k] = 1
    <3>1. outstandingPromises[k] = <<>>
      BY <2>1, <2>2, <2>3
    <3> QED
      BY <1>1, <1>2, <1>4, <2>3, <3>1 DEF consumed, Drains
  <2>4. CASE size[k] # 1
    <3>1. outstandingPromises[k] # <<>>
      BY <2>1, <2>2, <2>4
    <3>2. /\ size' = [size EXCEPT ![k] = @ - 1]
          /\ consume(k, 0, outstandingPromises[k], [state EXCEPT ![t] = "done"], "unsettled")
          /\ UNCHANGED <<queues, drainers, drained>>
      BY <1>4, <2>1, <2>4 DEF consumed
    <3>3. /\ runningPromises' = runningPromises
          /\ outstandingPromises' = [outstandingPromises EXCEPT ![k] = Tail(@)]
          /\ \E o \in {"running", "unsettled"} :
               state' = [state EXCEPT ![t] = "done", ![Head(outstandingPromises[k])] = o]
      <4>1. 0 < maxDegreeOfParalellism
        BY DEF maxDegreeOfParalellism
      <4>2. /\ runningPromises' = [runningPromises EXCEPT ![k] = 0 + 1]
            /\ outstandingPromises' = [outstandingPromises EXCEPT ![k] = Tail(outstandingPromises[k])]
            /\ \E o \in {"running", "unsettled"} :
                 state' = [state EXCEPT ![t] = "done", ![Head(outstandingPromises[k])] = o]
        BY <3>1, <3>2, <4>1 DEF consume
      <4>3. runningPromises' = runningPromises
        BY <1>2, <2>1, <4>2 DEF Inv, TypeOK
      <4> QED
        BY <4>2, <4>3
    <3> QED
      BY <1>1, <1>2, <1>4, <3>1, <3>2, <3>3 DEF StartsNext
  <2> QED
    BY <2>3, <2>4
<1> QED
  BY <1>3, <1>4

\* What outstandingPromises holds.
LEMMA OutstandingAreTasks ==
  ASSUME Inv, NEW j \in Key, NEW i \in 1 .. Len(outstandingPromises[j])
  PROVE  /\ outstandingPromises[j][i] \in Task
         /\ state[outstandingPromises[j][i]] = "outstanding"
         /\ keyOf[outstandingPromises[j][i]] = j
         /\ owner[outstandingPromises[j][i]] = queues[j]
<1>1. outstandingPromises[j] \in Seq(Task)
  BY DEF Inv, TypeOK
<1>2. outstandingPromises[j][i] \in Task
  BY <1>1
<1> QED
  BY <1>2 DEF Inv, OutstandingIsQueued

\* The first task of a Queue keeps the invariant.
LEMMA FirstStartsKeeps ==
  ASSUME Inv, NEW k \in Key, NEW t \in Task, Called(k, t), FirstStarts(k, t)
  PROVE  Inv'
<1>a. outstandingPromises[k] = <<>> /\ Len(outstandingPromises[k]) = 0
  BY DEF Inv, TypeOK, SizeIsExact, FirstStarts
<1>b. t \notin orphans /\ \A j \in Key : \A i \in 1 .. Len(outstandingPromises[j]) :
         outstandingPromises[j][i] \in Task \ {t}
  <2>1. t \notin orphans
    BY DEF Inv, OrphansAreUntracked, Called, Busy
  <2> QED
    BY <2>1, OutstandingAreTasks DEF Called
<1>c. \A u \in Task : state[u] = "outstanding" => keyOf[u] \in Key /\ keyOf[u] # k
  BY <1>a DEF Inv, OutstandingIsQueued, QueuedHasPlace
<1>d. \A u \in Task \ orphans : state[u] \in Busy => keyOf[u] \in Key /\ keyOf[u] # k
  BY DEF Inv, TypeOK, BusyIsFirst, QueuedHasPlace, FirstStarts, NoQueue, Busy
<1>e. \A j \in Key : j # k => outstandingPromises'[j] = outstandingPromises[j] /\ queues'[j] = queues[j]
  BY DEF Inv, TypeOK, FirstStarts
<1>f. outstandingPromises'[k] = <<>> /\ Len(outstandingPromises'[k]) = 0
  BY DEF Inv, TypeOK, FirstStarts
<1>g. /\ \A u \in Task : u # t => state'[u] = state[u] /\ keyOf'[u] = keyOf[u]
                              /\ owner'[u] = owner[u] /\ ticket'[u] = ticket[u]
      /\ keyOf'[t] = k /\ owner'[t] = queues'[k] /\ ticket'[t] = tickets + 1
      /\ state'[t] \in {"running", "rejected"} /\ orphans' = orphans
  BY DEF Inv, TypeOK, FirstStarts, Called
<1>h. \A u \in Task : ticket[u] \in Nat /\ ticket[u] <= tickets /\ tickets \in Nat
  BY DEF Inv, TypeOK, QueuedHasPlace
<1>1. TypeOK'
  BY DEF Inv, TypeOK, Called, FirstStarts, State
<1>2. SizeIsExact'
  BY DEF Inv, TypeOK, SizeIsExact, Called, FirstStarts, NoQueue
<1>3. QueueNumbers'
  BY DEF Inv, TypeOK, QueueNumbers, Called, FirstStarts, NoQueue
<1>4. QueuedHasPlace'
  BY DEF Inv, TypeOK, QueuedHasPlace, Called, FirstStarts, NoQueue
<1>5. OrphansAreUntracked'
  <2>1. \A u \in orphans : u \in Task /\ u # t /\ keyOf[u] \in Key /\ owner[u] <= drainListenerCount
                         /\ queues[keyOf[u]] # owner[u]
    BY <1>b DEF Inv, TypeOK, OrphansAreUntracked, QueuedHasPlace, Tracked, Busy
  <2>2. queues'[k] = drainListenerCount + 1 /\ drainListenerCount \in Nat /\ owner \in [Task -> Nat]
    BY DEF FirstStarts, Inv, TypeOK
  <2> QED
    BY <1>e, <1>g, <2>1, <2>2 DEF Inv, OrphansAreUntracked, Tracked
<1>6. OutstandingIsQueued'
  <2>1. \A j \in Key : j # k => \A i \in 1 .. Len(outstandingPromises'[j]) :
          LET u == outstandingPromises'[j][i] IN
            u \in Task \ {t} /\ state'[u] = "outstanding" /\ keyOf'[u] = j /\ owner'[u] = queues'[j]
    BY <1>b, <1>e, <1>g DEF Inv, OutstandingIsQueued
  <2>2. \A j \in Key : \A i \in 1 .. Len(outstandingPromises'[j]) :
          LET u == outstandingPromises'[j][i] IN
            state'[u] = "outstanding" /\ keyOf'[u] = j /\ owner'[u] = queues'[j]
    BY <1>f, <2>1
  <2>3. ASSUME NEW u \in Task, state'[u] = "outstanding"
        PROVE  \E i \in 1 .. Len(outstandingPromises'[keyOf'[u]]) :
                 outstandingPromises'[keyOf'[u]][i] = u
    BY <1>c, <1>e, <1>g, <2>3 DEF Inv, OutstandingIsQueued
  <2>4. ASSUME NEW j \in Key, NEW i \in 1 .. Len(outstandingPromises'[j]),
               NEW l \in 1 .. Len(outstandingPromises'[j]), i < l
        PROVE  ticket'[outstandingPromises'[j][i]] < ticket'[outstandingPromises'[j][l]]
    <3>1. j # k
      BY <1>f
    <3>2. ticket[outstandingPromises[j][i]] < ticket[outstandingPromises[j][l]]
      BY <1>e, <2>4, <3>1 DEF Inv, OutstandingIsQueued
    <3> QED
      BY <1>b, <1>e, <1>g, <3>1, <3>2
  <2> QED
    BY <2>2, <2>3, <2>4 DEF OutstandingIsQueued
<1>7. BusyIsFirst'
  <2>1. ASSUME NEW u \in Task \ orphans', state'[u] \in Busy
        PROVE  /\ queues'[keyOf'[u]] = owner'[u]
               /\ \A i \in 1 .. Len(outstandingPromises'[keyOf'[u]]) :
                    ticket'[u] < ticket'[outstandingPromises'[keyOf'[u]][i]]
    <3>1. CASE u = t
      BY <1>f, <1>g, <3>1
    <3>2. CASE u # t
      <4>1. state[u] \in Busy /\ u \in Task \ orphans
        BY <1>g, <2>1, <3>2
      <4>2. keyOf[u] \in Key /\ keyOf[u] # k /\ keyOf'[u] = keyOf[u]
        BY <1>d, <1>g, <3>2, <4>1
      <4>3. /\ queues[keyOf[u]] = owner[u]
            /\ \A i \in 1 .. Len(outstandingPromises[keyOf[u]]) :
                 ticket[u] < ticket[outstandingPromises[keyOf[u]][i]]
        BY <4>1 DEF Inv, BusyIsFirst
      <4>4. outstandingPromises'[keyOf[u]] = outstandingPromises[keyOf[u]]
            /\ queues'[keyOf[u]] = queues[keyOf[u]]
        BY <1>e, <4>2
      <4>5. \A i \in 1 .. Len(outstandingPromises[keyOf[u]]) :
              ticket'[outstandingPromises[keyOf[u]][i]] = ticket[outstandingPromises[keyOf[u]][i]]
        BY <1>b, <1>g, <4>2
      <4> QED
        BY <1>g, <3>2, <4>2, <4>3, <4>4, <4>5
    <3> QED
      BY <3>1, <3>2
  <2>2. ASSUME NEW u \in Task \ orphans', NEW v \in Task \ orphans',
               state'[u] \in Busy, state'[v] \in Busy, keyOf'[u] = keyOf'[v]
        PROVE  u = v
    BY <1>d, <1>g, <2>2 DEF Inv, BusyIsFirst
  <2> QED
    BY <2>1, <2>2 DEF BusyIsFirst
<1>8. InOrder'
  <2> SUFFICES ASSUME NEW u \in Task, NEW v \in Task, keyOf'[u] = keyOf'[v],
                      0 < ticket'[u], ticket'[u] < ticket'[v],
                      state'[v] \in Busy \cup {"done"}
               PROVE  state'[u] \notin Busy \cup {"outstanding"} \/ u \in orphans'
    BY DEF InOrder
  <2>1. u # t
    BY <1>g, <1>h
  <2>2. CASE v = t
    BY <1>c, <1>d, <1>g, <2>1, <2>2
  <2>3. CASE v # t
    BY <1>g, <2>1, <2>3 DEF Inv, InOrder
  <2> QED
    BY <2>2, <2>3
<1>9. DrainersCanWake'
  BY DEF Inv, TypeOK, DrainersCanWake, Called, FirstStarts, NoQueue, isDrained
<1> QED
  BY <1>1, <1>2, <1>3, <1>4, <1>5, <1>6, <1>7, <1>8, <1>9 DEF Inv

\* A task that waits keeps the invariant.
LEMMA LaterWaitsKeeps ==
  ASSUME Inv, NEW k \in Key, NEW t \in Task, Called(k, t), LaterWaits(k, t)
  PROVE  Inv'
<1>a. /\ outstandingPromises[k] \in Seq(Task)
      /\ outstandingPromises'[k] = Append(outstandingPromises[k], t)
      /\ \A j \in Key : j # k => outstandingPromises'[j] = outstandingPromises[j]
  BY DEF Inv, TypeOK, LaterWaits
<1>b. t \notin orphans /\ \A j \in Key : \A i \in 1 .. Len(outstandingPromises[j]) :
         outstandingPromises[j][i] \in Task \ {t}
  <2>1. t \notin orphans
    BY DEF Inv, OrphansAreUntracked, Called, Busy
  <2> QED
    BY <2>1, OutstandingAreTasks DEF Called
<1>c. /\ Len(outstandingPromises'[k]) = Len(outstandingPromises[k]) + 1
      /\ Len(outstandingPromises[k]) \in Nat
      /\ outstandingPromises'[k][Len(outstandingPromises[k]) + 1] = t
      /\ \A i \in 1 .. Len(outstandingPromises[k]) :
           outstandingPromises'[k][i] = outstandingPromises[k][i]
  BY <1>a
<1>d. /\ \A u \in Task : u # t => state'[u] = state[u] /\ keyOf'[u] = keyOf[u]
                              /\ owner'[u] = owner[u] /\ ticket'[u] = ticket[u]
      /\ keyOf'[t] = k /\ owner'[t] = queues[k] /\ ticket'[t] = tickets + 1
      /\ state'[t] = "outstanding" /\ orphans' = orphans /\ queues' = queues
  BY DEF Inv, TypeOK, LaterWaits, Called
<1>e. \A u \in Task : ticket[u] \in Nat /\ ticket[u] <= tickets /\ tickets \in Nat
  BY DEF Inv, TypeOK, QueuedHasPlace
<1>f. \A u \in Task : state[u] # "new" => keyOf[u] \in Key
  BY DEF Inv, QueuedHasPlace
<1>1. TypeOK'
  BY DEF Inv, TypeOK, Called, LaterWaits, State
<1>2. SizeIsExact'
  BY DEF Inv, TypeOK, SizeIsExact, Called, LaterWaits, NoQueue
<1>3. QueueNumbers'
  BY DEF Inv, TypeOK, QueueNumbers, Called, LaterWaits, NoQueue
<1>4. QueuedHasPlace'
  <2>1. queues[k] > 0 /\ queues[k] <= drainListenerCount
    BY DEF LaterWaits, Inv, TypeOK, QueueNumbers, NoQueue
  <2> QED
    BY <1>d, <1>e, <2>1 DEF Inv, TypeOK, QueuedHasPlace, Called, LaterWaits
<1>5. OrphansAreUntracked'
  BY DEF Inv, TypeOK, OrphansAreUntracked, Called, LaterWaits, Busy, Tracked, NoQueue
<1>6. OutstandingIsQueued'
  <2>1. ASSUME NEW j \in Key, NEW i \in 1 .. Len(outstandingPromises'[j])
        PROVE  LET u == outstandingPromises'[j][i] IN
                 state'[u] = "outstanding" /\ keyOf'[u] = j /\ owner'[u] = queues'[j]
    <3>1. CASE j = k /\ i = Len(outstandingPromises[k]) + 1
      BY <1>c, <1>d, <3>1
    <3>2. CASE ~(j = k /\ i = Len(outstandingPromises[k]) + 1)
      <4>1. i \in 1 .. Len(outstandingPromises[j]) /\ outstandingPromises'[j][i] = outstandingPromises[j][i]
        BY <1>a, <1>c, <3>2
      <4> QED
        BY <1>b, <1>d, <4>1 DEF Inv, OutstandingIsQueued
    <3> QED
      BY <3>1, <3>2
  <2>2. ASSUME NEW u \in Task, state'[u] = "outstanding"
        PROVE  \E i \in 1 .. Len(outstandingPromises'[keyOf'[u]]) :
                 outstandingPromises'[keyOf'[u]][i] = u
    <3>1. CASE u = t
      BY <1>c, <1>d, <3>1
    <3>2. CASE u # t
      <4>1. state[u] = "outstanding" /\ keyOf'[u] = keyOf[u] /\ keyOf[u] \in Key
        BY <1>d, <1>f, <2>2, <3>2
      <4>2. PICK i \in 1 .. Len(outstandingPromises[keyOf[u]]) : outstandingPromises[keyOf[u]][i] = u
        BY <4>1 DEF Inv, OutstandingIsQueued
      <4>3. i \in 1 .. Len(outstandingPromises'[keyOf[u]]) /\ outstandingPromises'[keyOf[u]][i] = u
        BY <1>a, <1>c, <4>1, <4>2
      <4> QED
        BY <4>1, <4>3
    <3> QED
      BY <3>1, <3>2
  <2>3. ASSUME NEW j \in Key, NEW i \in 1 .. Len(outstandingPromises'[j]),
               NEW l \in 1 .. Len(outstandingPromises'[j]), i < l
        PROVE  ticket'[outstandingPromises'[j][i]] < ticket'[outstandingPromises'[j][l]]
    <3>0. outstandingPromises'[j] \in Seq(Task) /\ outstandingPromises[j] \in Seq(Task)
      BY <1>1 DEF Inv, TypeOK
    <3>1. i \in 1 .. Len(outstandingPromises[j]) /\ outstandingPromises'[j][i] = outstandingPromises[j][i]
      <4>1. CASE j = k
        BY <1>c, <2>3, <4>1
      <4>2. CASE j # k
        BY <1>a, <4>2
      <4> QED
        BY <4>1, <4>2
    <3>2. CASE j = k /\ l = Len(outstandingPromises[k]) + 1
      BY <1>b, <1>c, <1>d, <1>e, <3>1, <3>2
    <3>3. CASE ~(j = k /\ l = Len(outstandingPromises[k]) + 1)
      <4>1. l \in 1 .. Len(outstandingPromises[j]) /\ outstandingPromises'[j][l] = outstandingPromises[j][l]
        BY <1>a, <1>c, <3>3
      <4>2. ticket[outstandingPromises[j][i]] < ticket[outstandingPromises[j][l]]
        BY <2>3, <3>1, <4>1 DEF Inv, OutstandingIsQueued
      <4> QED
        BY <1>b, <1>d, <3>1, <4>1, <4>2
    <3> QED
      BY <3>2, <3>3
  <2> QED
    BY <2>1, <2>2, <2>3 DEF OutstandingIsQueued
<1>7. BusyIsFirst'
  <2>0. \A u \in Task : state'[u] \in Busy => u # t /\ state[u] \in Busy /\ keyOf'[u] = keyOf[u]
                                              /\ keyOf[u] \in Key
    BY <1>d, <1>f DEF Busy
  <2>1. ASSUME NEW u \in Task \ orphans', state'[u] \in Busy
        PROVE  /\ queues'[keyOf'[u]] = owner'[u]
               /\ \A i \in 1 .. Len(outstandingPromises'[keyOf'[u]]) :
                    ticket'[u] < ticket'[outstandingPromises'[keyOf'[u]][i]]
    <3>1. queues'[keyOf'[u]] = owner'[u]
      BY <1>d, <2>0, <2>1 DEF Inv, BusyIsFirst
    <3>2. ASSUME NEW i \in 1 .. Len(outstandingPromises'[keyOf[u]])
          PROVE  ticket'[u] < ticket'[outstandingPromises'[keyOf[u]][i]]
      <4>1. CASE keyOf[u] = k /\ i = Len(outstandingPromises[k]) + 1
        BY <1>c, <1>d, <1>e, <2>0, <2>1, <4>1
      <4>2. CASE ~(keyOf[u] = k /\ i = Len(outstandingPromises[k]) + 1)
        <5>1. /\ i \in 1 .. Len(outstandingPromises[keyOf[u]])
              /\ outstandingPromises'[keyOf[u]][i] = outstandingPromises[keyOf[u]][i]
          BY <1>a, <1>c, <2>0, <2>1, <4>2
        <5>2. ticket[u] < ticket[outstandingPromises[keyOf[u]][i]]
          BY <1>d, <2>0, <2>1, <5>1 DEF Inv, BusyIsFirst
        <5> QED
          BY <1>b, <1>d, <2>0, <2>1, <5>1, <5>2
      <4> QED
        BY <4>1, <4>2
    <3> QED
      BY <2>0, <2>1, <3>1, <3>2
  <2>2. ASSUME NEW u \in Task \ orphans', NEW v \in Task \ orphans',
               state'[u] \in Busy, state'[v] \in Busy, keyOf'[u] = keyOf'[v]
        PROVE  u = v
    BY <1>d, <2>0, <2>2 DEF Inv, BusyIsFirst
  <2> QED
    BY <2>1, <2>2 DEF BusyIsFirst
<1>8. InOrder'
  <2> SUFFICES ASSUME NEW u \in Task, NEW v \in Task, keyOf'[u] = keyOf'[v],
                      0 < ticket'[u], ticket'[u] < ticket'[v],
                      state'[v] \in Busy \cup {"done"}
               PROVE  state'[u] \notin Busy \cup {"outstanding"} \/ u \in orphans'
    BY DEF InOrder
  <2>1. u # t /\ v # t
    BY <1>d, <1>e DEF Busy
  <2> QED
    BY <1>d, <2>1 DEF Inv, InOrder
<1>9. DrainersCanWake'
  BY DEF Inv, TypeOK, DrainersCanWake, Called, LaterWaits, NoQueue, isDrained
<1> QED
  BY <1>1, <1>2, <1>3, <1>4, <1>5, <1>6, <1>7, <1>8, <1>9 DEF Inv

\* A promise that settles keeps the invariant.
LEMMA SettleKeeps ==
  ASSUME Inv, NEW t \in Task, settle(t)
  PROVE  Inv'
<1>1. TypeOK'
  BY DEF Inv, TypeOK, settle, limiter, calls, State
<1>2. SizeIsExact'
  BY DEF Inv, TypeOK, SizeIsExact, settle, limiter, calls, NoQueue
<1>3. QueueNumbers'
  BY DEF Inv, TypeOK, QueueNumbers, settle, limiter, calls, NoQueue
<1>4. QueuedHasPlace'
  BY DEF Inv, TypeOK, QueuedHasPlace, settle, limiter, calls, NoQueue
<1>5. OrphansAreUntracked'
  BY DEF Inv, TypeOK, OrphansAreUntracked, settle, limiter, calls, Busy, Tracked, NoQueue
<1>6. OutstandingIsQueued'
  BY DEF Inv, TypeOK, OutstandingIsQueued, settle, limiter, calls, NoQueue
<1>7. BusyIsFirst'
  BY DEF Inv, TypeOK, BusyIsFirst, settle, limiter, calls, Busy, Tracked, NoQueue
<1>8. InOrder'
  BY DEF Inv, TypeOK, InOrder, settle, limiter, calls, Busy, Tracked
<1>9. DrainersCanWake'
  BY DEF Inv, TypeOK, DrainersCanWake, settle, limiter, calls, NoQueue, isDrained
<1> QED
  BY <1>1, <1>2, <1>3, <1>4, <1>5, <1>6, <1>7, <1>8, <1>9 DEF Inv

\* A task of a disposed Queue that ends keeps the invariant.
LEMMA IgnoredKeeps ==
  ASSUME Inv, NEW t \in Task, Finishes(t), Ignored(t)
  PROVE  Inv'
<1>1. TypeOK'
  BY DEF Inv, TypeOK, Finishes, Ignored, limiter, calls, State
<1>2. SizeIsExact'
  BY DEF Inv, TypeOK, SizeIsExact, Finishes, Ignored, limiter, calls, NoQueue
<1>3. QueueNumbers'
  BY DEF Inv, TypeOK, QueueNumbers, Finishes, Ignored, limiter, calls, NoQueue
<1>4. QueuedHasPlace'
  BY DEF Inv, TypeOK, QueuedHasPlace, Finishes, Ignored, limiter, calls, NoQueue
<1>5. OrphansAreUntracked'
  BY DEF Inv, TypeOK, OrphansAreUntracked, Finishes, Ignored, limiter, calls, Busy, Tracked, NoQueue
<1>6. OutstandingIsQueued'
  BY DEF Inv, TypeOK, OutstandingIsQueued, Finishes, Ignored, limiter, calls, NoQueue
<1>7. BusyIsFirst'
  BY DEF Inv, TypeOK, BusyIsFirst, Finishes, Ignored, limiter, calls, Busy, Tracked, NoQueue
<1>8. InOrder'
  BY DEF Inv, TypeOK, InOrder, Finishes, Ignored, limiter, calls, Busy, Tracked
<1>9. DrainersCanWake'
  BY DEF Inv, TypeOK, DrainersCanWake, Finishes, Ignored, limiter, calls, NoQueue, isDrained
<1> QED
  BY <1>1, <1>2, <1>3, <1>4, <1>5, <1>6, <1>7, <1>8, <1>9 DEF Inv

\* A Queue that drains keeps the invariant.
LEMMA DrainsKeeps ==
  ASSUME Inv, NEW k \in Key, NEW t \in Task, Finishes(t), Drains(k, t)
  PROVE  Inv'
<1>a. /\ keyOf[t] = k /\ queues[k] = owner[t] /\ state[t] = "settled"
      /\ outstandingPromises[k] = <<>> /\ Len(outstandingPromises[k]) = 0 /\ t \notin orphans
  BY DEF Drains, Finishes, Tracked, Inv, OrphansAreUntracked
<1>b. \A u \in Task : state[u] = "outstanding" => keyOf[u] \in Key /\ keyOf[u] # k
  BY <1>a DEF Inv, OutstandingIsQueued, QueuedHasPlace
<1>c. \A u \in Task \ orphans : state[u] \in Busy => keyOf[u] \in Key /\ (keyOf[u] = k => u = t)
  BY <1>a DEF Inv, BusyIsFirst, QueuedHasPlace, Busy
<1>d. /\ queues' = [queues EXCEPT ![k] = 0]
      /\ size' = [size EXCEPT ![k] = 0]
      /\ runningPromises' = [runningPromises EXCEPT ![k] = 0]
      /\ outstandingPromises' = [outstandingPromises EXCEPT ![k] = <<>>]
      /\ state' = [state EXCEPT ![t] = "done"]
      /\ UNCHANGED <<drainListenerCount, keyOf, owner, ticket, tickets, orphans>>
  BY DEF Drains, Finishes, onDrained, calls, NoQueue
<1>e. \/ drainers' = {} /\ drained' = drained \cup drainers
      \/ drainers' = drainers /\ drained' = drained /\ ~isDrained(size')
  <2>1. IF isDrained(size') THEN releaseDrainers ELSE UNCHANGED <<drainers, drained>>
    BY DEF Drains, onDrained
  <2> QED
    BY <2>1 DEF releaseDrainers
<1>f. \A j \in Key : j # k => outstandingPromises'[j] = outstandingPromises[j] /\ queues'[j] = queues[j]
  BY <1>d DEF Inv, TypeOK
<1>g. outstandingPromises'[k] = <<>> /\ Len(outstandingPromises'[k]) = 0 /\ queues'[k] = 0
  BY <1>d DEF Inv, TypeOK
<1>h. state'[t] = "done" /\ \A u \in Task : u # t => state'[u] = state[u]
  BY <1>d DEF Inv, TypeOK
<1>1. TypeOK'
  BY <1>d, <1>e DEF Inv, TypeOK, State
<1>2. SizeIsExact'
  BY DEF Inv, TypeOK, SizeIsExact, Finishes, Drains, onDrained, releaseDrainers, limiter, calls, NoQueue
<1>3. QueueNumbers'
  BY DEF Inv, TypeOK, QueueNumbers, Finishes, Drains, onDrained, releaseDrainers, limiter, calls, NoQueue
<1>4. QueuedHasPlace'
  BY DEF Inv, TypeOK, QueuedHasPlace, Finishes, Drains, onDrained, releaseDrainers, limiter, calls, NoQueue
<1>5. OrphansAreUntracked'
  <2>1. ASSUME NEW u \in orphans
        PROVE  u \in Task /\ u # t /\ keyOf[u] \in Key /\ owner[u] > 0 /\ queues[keyOf[u]] # owner[u]
    BY <1>a DEF Inv, TypeOK, OrphansAreUntracked, QueuedHasPlace, Tracked, Busy
  <2> QED
    BY <1>d, <1>f, <1>g, <1>h, <2>1 DEF Inv, OrphansAreUntracked, Tracked
<1>6. OutstandingIsQueued'
  <2>1. ASSUME NEW j \in Key, NEW i \in 1 .. Len(outstandingPromises'[j])
        PROVE  LET u == outstandingPromises'[j][i] IN
                 state'[u] = "outstanding" /\ keyOf'[u] = j /\ owner'[u] = queues'[j]
    <3>1. j # k
      BY <1>g
    <3> QED
      BY <1>a, <1>d, <1>f, <1>h, <3>1, OutstandingAreTasks
  <2>2. ASSUME NEW u \in Task, state'[u] = "outstanding"
        PROVE  \E i \in 1 .. Len(outstandingPromises'[keyOf'[u]]) :
                 outstandingPromises'[keyOf'[u]][i] = u
    BY <1>b, <1>d, <1>f, <1>h, <2>2 DEF Inv, OutstandingIsQueued
  <2>3. ASSUME NEW j \in Key, NEW i \in 1 .. Len(outstandingPromises'[j]),
               NEW l \in 1 .. Len(outstandingPromises'[j]), i < l
        PROVE  ticket'[outstandingPromises'[j][i]] < ticket'[outstandingPromises'[j][l]]
    <3>1. j # k
      BY <1>g
    <3> QED
      BY <1>d, <1>f, <2>3, <3>1 DEF Inv, OutstandingIsQueued
  <2> QED
    BY <2>1, <2>2, <2>3 DEF OutstandingIsQueued
<1>7. BusyIsFirst'
  <2>1. \A u \in Task \ orphans : state'[u] \in Busy =>
          state[u] \in Busy /\ keyOf[u] \in Key /\ keyOf[u] # k
    BY <1>c, <1>h DEF Busy
  <2>2. ASSUME NEW u \in Task \ orphans', state'[u] \in Busy
        PROVE  /\ queues'[keyOf'[u]] = owner'[u]
               /\ \A i \in 1 .. Len(outstandingPromises'[keyOf'[u]]) :
                    ticket'[u] < ticket'[outstandingPromises'[keyOf'[u]][i]]
    BY <1>d, <1>f, <2>1, <2>2 DEF Inv, BusyIsFirst
  <2>3. ASSUME NEW u \in Task \ orphans', NEW v \in Task \ orphans',
               state'[u] \in Busy, state'[v] \in Busy, keyOf'[u] = keyOf'[v]
        PROVE  u = v
    BY <1>d, <2>1, <2>3 DEF Inv, BusyIsFirst
  <2> QED
    BY <2>2, <2>3 DEF BusyIsFirst
<1>8. InOrder'
  BY DEF Inv, TypeOK, InOrder, Finishes, Drains, onDrained, releaseDrainers, limiter, calls, Busy, Tracked
<1>9. DrainersCanWake'
  <2>1. CASE drainers' = {}
    BY <2>1 DEF DrainersCanWake
  <2>2. CASE ~isDrained(size')
    <3>1. PICK j \in Key : size'[j] # 0
      BY <2>2 DEF isDrained
    <3>2. size'[j] \in Nat /\ queues'[j] # NoQueue
      BY <1>1, <1>2, <3>1 DEF TypeOK, SizeIsExact
    <3> QED
      BY <3>1, <3>2 DEF DrainersCanWake
  <2> QED
    BY <1>e, <2>1, <2>2
<1> QED
  BY <1>1, <1>2, <1>3, <1>4, <1>5, <1>6, <1>7, <1>8, <1>9 DEF Inv

\* Starting the next task keeps the invariant.
LEMMA StartsNextKeeps ==
  ASSUME Inv, NEW k \in Key, NEW t \in Task, Finishes(t), StartsNext(k, t)
  PROVE  Inv'
<1> DEFINE n == Head(outstandingPromises[k])
<1>a. /\ keyOf[t] = k /\ queues[k] = owner[t] /\ state[t] = "settled" /\ t \notin orphans
      /\ outstandingPromises[k] # <<>> /\ outstandingPromises[k] \in Seq(Task)
  BY DEF StartsNext, Finishes, Tracked, Inv, OrphansAreUntracked, TypeOK
<1>b. /\ Len(outstandingPromises[k]) \in Nat \ {0} /\ n = outstandingPromises[k][1]
      /\ Len(Tail(outstandingPromises[k])) = Len(outstandingPromises[k]) - 1
      /\ \A i \in 1 .. Len(Tail(outstandingPromises[k])) :
           /\ i + 1 \in 1 .. Len(outstandingPromises[k])
           /\ Tail(outstandingPromises[k])[i] = outstandingPromises[k][i + 1]
  BY <1>a
<1>c. n \in Task /\ state[n] = "outstanding" /\ keyOf[n] = k /\ owner[n] = queues[k] /\ n # t
      /\ n \notin orphans
  <2>1. 1 \in 1 .. Len(outstandingPromises[k])
    BY <1>b
  <2>2. n \in Task /\ state[n] = "outstanding" /\ keyOf[n] = k /\ owner[n] = queues[k]
    BY <1>b, <2>1, OutstandingAreTasks
  <2> QED
    BY <1>a, <2>2 DEF Inv, OrphansAreUntracked, Busy
<1>d. PICK o \in {"running", "unsettled"} : state' = [state EXCEPT ![t] = "done", ![n] = o]
  BY DEF StartsNext
<1>e. /\ state'[t] = "done" /\ state'[n] = o
      /\ \A u \in Task : u # t /\ u # n => state'[u] = state[u]
  BY <1>c, <1>d DEF Inv, TypeOK
<1>f. /\ UNCHANGED <<queues, runningPromises, drainers, drained, drainListenerCount,
                     keyOf, owner, ticket, tickets, orphans>>
      /\ size' = [size EXCEPT ![k] = @ - 1]
      /\ outstandingPromises' = [outstandingPromises EXCEPT ![k] = Tail(@)]
  BY DEF StartsNext, Finishes, calls
<1>g. /\ outstandingPromises'[k] = Tail(outstandingPromises[k])
      /\ \A j \in Key : j # k => outstandingPromises'[j] = outstandingPromises[j]
  BY <1>f DEF Inv, TypeOK
<1>h. \A i \in 1 .. Len(outstandingPromises[k]) : i > 1 => outstandingPromises[k][i] # n
  <2>1. \A i \in 1 .. Len(outstandingPromises[k]) : i > 1 =>
          ticket[outstandingPromises[k][1]] < ticket[outstandingPromises[k][i]]
    BY <1>b DEF Inv, OutstandingIsQueued
  <2>2. ticket[n] \in Nat
    BY <1>c DEF Inv, TypeOK
  <2> QED
    BY <1>b, <2>1, <2>2
<1>i. \A j \in Key : \A i \in 1 .. Len(outstandingPromises'[j]) :
        LET u == outstandingPromises'[j][i] IN
          /\ u \in Task /\ u # t /\ u # n /\ state[u] = "outstanding"
          /\ keyOf[u] = j /\ owner[u] = queues[j]
          /\ j = k => i + 1 \in 1 .. Len(outstandingPromises[k]) /\ u = outstandingPromises[k][i + 1]
          /\ j # k => u = outstandingPromises[j][i]
  <2> SUFFICES ASSUME NEW j \in Key, NEW i \in 1 .. Len(outstandingPromises'[j])
               PROVE  LET u == outstandingPromises'[j][i] IN
                        /\ u \in Task /\ u # t /\ u # n /\ state[u] = "outstanding"
                        /\ keyOf[u] = j /\ owner[u] = queues[j]
                        /\ j = k => i + 1 \in 1 .. Len(outstandingPromises[k]) /\ u = outstandingPromises[k][i + 1]
                        /\ j # k => u = outstandingPromises[j][i]
    OBVIOUS
  <2>1. CASE j = k
    <3>1. /\ i + 1 \in 1 .. Len(outstandingPromises[k]) /\ i + 1 > 1
          /\ outstandingPromises'[k][i] = outstandingPromises[k][i + 1]
      <4>1. i \in 1 .. Len(Tail(outstandingPromises[k]))
        BY <1>g, <2>1
      <4> QED
        BY <1>b, <1>g, <4>1
    <3> QED
      BY <1>a, <1>h, <2>1, <3>1, OutstandingAreTasks
  <2>2. CASE j # k
    BY <1>a, <1>c, <1>g, <2>2, OutstandingAreTasks
  <2> QED
    BY <2>1, <2>2
<1>j. \A u \in Task : state[u] # "new" => keyOf[u] \in Key
  BY DEF Inv, QueuedHasPlace
<1>1. TypeOK'
  <2>1. state' \in [Task -> State]
    BY <1>c, <1>d DEF Inv, TypeOK, State
  <2>2. outstandingPromises' \in [Key -> Seq(Task)]
    BY <1>a, <1>f DEF Inv, TypeOK
  <2>3. size' \in [Key -> Nat]
    <3>1. size[k] > 0
      BY <1>b DEF Inv, TypeOK, SizeIsExact
    <3> QED
      BY <1>f, <3>1 DEF Inv, TypeOK
  <2> QED
    BY <1>f, <2>1, <2>2, <2>3 DEF Inv, TypeOK
<1>2. SizeIsExact'
  <2>1. size'[k] = Len(outstandingPromises'[k]) + runningPromises[k]
    BY <1>b, <1>f, <1>g DEF Inv, TypeOK, SizeIsExact
  <2>2. \A j \in Key : j # k => size'[j] = size[j]
    BY <1>f DEF Inv, TypeOK
  <2>3. queues[k] # NoQueue
    <3>1. owner[t] > 0
      BY <1>a DEF Inv, QueuedHasPlace
    <3> QED
      BY <1>a, <3>1 DEF NoQueue
  <2> QED
    BY <1>f, <1>g, <2>1, <2>2, <2>3 DEF Inv, SizeIsExact
<1>3. QueueNumbers'
  BY DEF Inv, TypeOK, QueueNumbers, Finishes, StartsNext, limiter, calls, NoQueue
<1>4. QueuedHasPlace'
  <2>1. \A u \in Task : (state'[u] = "new") <=> (state[u] = "new")
    BY <1>a, <1>c, <1>e
  <2> QED
    BY <1>f, <2>1 DEF Inv, QueuedHasPlace
<1>5. OrphansAreUntracked'
  BY <1>a, <1>c, <1>e, <1>f DEF Inv, TypeOK, OrphansAreUntracked, Tracked
<1>6. OutstandingIsQueued'
  <2>1. ASSUME NEW j \in Key, NEW i \in 1 .. Len(outstandingPromises'[j])
        PROVE  LET u == outstandingPromises'[j][i] IN
                 state'[u] = "outstanding" /\ keyOf'[u] = j /\ owner'[u] = queues'[j]
    <3> DEFINE u == outstandingPromises'[j][i]
    <3>1. u \in Task /\ u # t /\ u # n /\ state[u] = "outstanding" /\ keyOf[u] = j /\ owner[u] = queues[j]
      BY <1>i
    <3> HIDE DEF u
    <3>2. state'[u] = "outstanding" /\ keyOf'[u] = j /\ owner'[u] = queues'[j]
      BY <1>e, <1>f, <3>1
    <3> QED
      BY <3>2 DEF u
  <2>2. ASSUME NEW u \in Task, state'[u] = "outstanding"
        PROVE  \E i \in 1 .. Len(outstandingPromises'[keyOf'[u]]) :
                 outstandingPromises'[keyOf'[u]][i] = u
    <3>1. u # n /\ u # t /\ state[u] = "outstanding" /\ keyOf[u] \in Key /\ keyOf'[u] = keyOf[u]
      BY <1>e, <1>f, <1>j, <2>2
    <3>2. PICK i \in 1 .. Len(outstandingPromises[keyOf[u]]) : outstandingPromises[keyOf[u]][i] = u
      BY <3>1 DEF Inv, OutstandingIsQueued
    <3>3. CASE keyOf[u] = k
      <4>1. i # 1
        BY <1>b, <3>1, <3>2, <3>3
      <4>2. i - 1 \in 1 .. Len(outstandingPromises'[k]) /\ outstandingPromises'[k][i - 1] = u
        BY <1>b, <1>g, <3>2, <3>3, <4>1
      <4> QED
        BY <3>1, <3>3, <4>2
    <3>4. CASE keyOf[u] # k
      BY <1>g, <3>1, <3>2, <3>4
    <3> QED
      BY <3>3, <3>4
  <2>3. ASSUME NEW j \in Key, NEW i \in 1 .. Len(outstandingPromises'[j]),
               NEW l \in 1 .. Len(outstandingPromises'[j]), i < l
        PROVE  ticket'[outstandingPromises'[j][i]] < ticket'[outstandingPromises'[j][l]]
    <3>1. CASE j = k
      <4>1. /\ i + 1 \in 1 .. Len(outstandingPromises[k]) /\ l + 1 \in 1 .. Len(outstandingPromises[k])
            /\ i + 1 < l + 1
            /\ outstandingPromises'[j][i] = outstandingPromises[k][i + 1]
            /\ outstandingPromises'[j][l] = outstandingPromises[k][l + 1]
        BY <1>b, <1>i, <2>3, <3>1
      <4> QED
        BY <1>f, <3>1, <4>1 DEF Inv, OutstandingIsQueued
    <3>2. CASE j # k
      BY <1>f, <1>g, <2>3, <3>2 DEF Inv, OutstandingIsQueued
    <3> QED
      BY <3>1, <3>2
  <2> QED
    BY <2>1, <2>2, <2>3 DEF OutstandingIsQueued
<1>7. BusyIsFirst'
  <2>1. \A u \in Task \ orphans : state'[u] \in Busy /\ u # n =>
          u # t /\ state[u] \in Busy /\ keyOf[u] \in Key /\ keyOf[u] # k
    BY <1>a, <1>e, <1>j DEF Inv, BusyIsFirst, Busy
  <2>2. ASSUME NEW u \in Task \ orphans', state'[u] \in Busy
        PROVE  /\ queues'[keyOf'[u]] = owner'[u]
               /\ \A i \in 1 .. Len(outstandingPromises'[keyOf'[u]]) :
                    ticket'[u] < ticket'[outstandingPromises'[keyOf'[u]][i]]
    <3>1. CASE u = n
      <4>1. ASSUME NEW i \in 1 .. Len(outstandingPromises'[k])
            PROVE  ticket[n] < ticket[outstandingPromises'[k][i]]
        <5>1. /\ i + 1 \in 1 .. Len(outstandingPromises[k]) /\ 1 \in 1 .. Len(outstandingPromises[k])
              /\ 1 < i + 1 /\ outstandingPromises'[k][i] = outstandingPromises[k][i + 1]
          BY <1>b, <1>g
        <5>2. ticket[outstandingPromises[k][1]] < ticket[outstandingPromises[k][i + 1]]
          BY <5>1 DEF Inv, OutstandingIsQueued
        <5> QED
          BY <1>b, <5>1, <5>2
      <4> QED
        BY <1>c, <1>f, <3>1, <4>1
    <3>2. CASE u # n
      <4>1. state[u] \in Busy /\ keyOf[u] \in Key /\ keyOf[u] # k /\ u \in Task \ orphans
        BY <1>f, <2>1, <2>2, <3>2
      <4> QED
        BY <1>f, <1>g, <4>1 DEF Inv, BusyIsFirst
    <3> QED
      BY <3>1, <3>2
  <2>3. ASSUME NEW u \in Task \ orphans', NEW v \in Task \ orphans',
               state'[u] \in Busy, state'[v] \in Busy, keyOf'[u] = keyOf'[v]
        PROVE  u = v
    <3>1. CASE u = n \/ v = n
      BY <1>c, <1>f, <2>1, <2>3, <3>1
    <3>2. CASE u # n /\ v # n
      BY <1>f, <2>1, <2>3, <3>2 DEF Inv, BusyIsFirst
    <3> QED
      BY <3>1, <3>2
  <2> QED
    BY <2>2, <2>3 DEF BusyIsFirst
<1>8. InOrder'
  <2> SUFFICES ASSUME NEW u \in Task, NEW v \in Task, keyOf'[u] = keyOf'[v],
                      0 < ticket'[u], ticket'[u] < ticket'[v],
                      state'[v] \in Busy \cup {"done"}
               PROVE  state'[u] \notin Busy \cup {"outstanding"} \/ u \in orphans'
    BY DEF InOrder
  <2>1. CASE v = n
    <3>1. keyOf[u] = k /\ ticket[u] < ticket[n] /\ u # n /\ ticket[u] \in Nat /\ ticket[n] \in Nat
      BY <1>c, <1>f, <2>1 DEF Inv, TypeOK
    <3>2. state'[u] # "outstanding"
      <4>1. SUFFICES ASSUME state'[u] = "outstanding" PROVE FALSE
        OBVIOUS
      <4>2. u # t /\ state[u] = "outstanding"
        BY <1>e, <3>1, <4>1
      <4>3. PICK i \in 1 .. Len(outstandingPromises[k]) : outstandingPromises[k][i] = u
        BY <3>1, <4>2 DEF Inv, OutstandingIsQueued
      <4>4. 1 < i /\ 1 \in 1 .. Len(outstandingPromises[k])
        BY <1>b, <3>1, <4>3
      <4>5. ticket[outstandingPromises[k][1]] < ticket[u]
        BY <4>3, <4>4 DEF Inv, OutstandingIsQueued
      <4> QED
        BY <1>b, <3>1, <4>5
    <3>3. state'[u] \in Busy => u \in orphans
      BY <1>a, <1>e, <3>1 DEF Inv, BusyIsFirst, Busy
    <3> QED
      BY <1>f, <3>2, <3>3
  <2>2. CASE v # n
    <3>1. state[v] \in Busy \cup {"done"}
      BY <1>a, <1>e, <2>2 DEF Busy
    <3>2. state[u] \notin Busy \cup {"outstanding"} \/ u \in orphans
      BY <1>f, <3>1 DEF Inv, InOrder
    <3> QED
      BY <1>c, <1>e, <1>f, <3>2 DEF Busy
  <2> QED
    BY <2>1, <2>2
<1>9. DrainersCanWake'
  <2>1. SUFFICES ASSUME drainers' # {} PROVE \E j \in Key : queues'[j] # NoQueue /\ size'[j] > 0
    BY DEF DrainersCanWake
  <2>2. queues'[k] # NoQueue /\ size'[k] > 0
    <3>1. queues[k] # NoQueue
      <4>1. owner[t] > 0
        BY <1>a DEF Inv, QueuedHasPlace
      <4> QED
        BY <1>a, <4>1 DEF NoQueue
    <3>2. runningPromises'[k] = 1 /\ Len(outstandingPromises'[k]) \in Nat
      BY <1>1, <1>f, <3>1 DEF Inv, SizeIsExact, TypeOK
    <3> QED
      BY <1>2, <1>f, <3>1, <3>2 DEF SizeIsExact
  <2> QED
    BY <2>2
<1> QED
  BY <1>1, <1>2, <1>3, <1>4, <1>5, <1>6, <1>7, <1>8, <1>9 DEF Inv

\* A call of whenDrained keeps the invariant.
LEMMA WhenDrainedKeeps ==
  ASSUME Inv, NEW w \in Waiter, whenDrained(w)
  PROVE  Inv'
<1>1. TypeOK'
  BY DEF Inv, TypeOK, whenDrained, limiter, calls, State
<1>2. SizeIsExact'
  BY DEF Inv, TypeOK, SizeIsExact, whenDrained, limiter, calls, NoQueue
<1>3. QueueNumbers'
  BY DEF Inv, TypeOK, QueueNumbers, whenDrained, limiter, calls, NoQueue
<1>4. QueuedHasPlace'
  BY DEF Inv, TypeOK, QueuedHasPlace, whenDrained, limiter, calls, NoQueue
<1>5. OrphansAreUntracked'
  BY DEF Inv, TypeOK, OrphansAreUntracked, whenDrained, limiter, calls, Busy, Tracked, NoQueue
<1>6. OutstandingIsQueued'
  BY DEF Inv, TypeOK, OutstandingIsQueued, whenDrained, limiter, calls, NoQueue
<1>7. BusyIsFirst'
  BY DEF Inv, TypeOK, BusyIsFirst, whenDrained, limiter, calls, Busy, Tracked, NoQueue
<1>8. InOrder'
  BY DEF Inv, TypeOK, InOrder, whenDrained, limiter, calls, Busy, Tracked
<1>9. DrainersCanWake'
  <2>1. CASE isDrained(size)
    BY <2>1 DEF Inv, DrainersCanWake, whenDrained, limiter
  <2>2. CASE ~isDrained(size)
    <3>1. PICK j \in Key : size[j] # 0
      BY <2>2 DEF isDrained
    <3>2. size[j] \in Nat /\ queues[j] # NoQueue
      BY <3>1 DEF Inv, TypeOK, SizeIsExact
    <3>3. queues' = queues /\ size' = size
      BY DEF whenDrained, limiter
    <3> QED
      BY <3>1, <3>2, <3>3 DEF DrainersCanWake
  <2> QED
    BY <2>1, <2>2
<1> QED
  BY <1>1, <1>2, <1>3, <1>4, <1>5, <1>6, <1>7, <1>8, <1>9 DEF Inv

\* dispose keeps the invariant.
LEMMA DisposeKeeps ==
  ASSUME Inv, dispose
  PROVE  Inv'
<1>1. TypeOK'
  <2>1. \A t \in Task : state'[t] \in State
    BY DEF dispose, Inv, TypeOK, State
  <2>2. state' \in [Task -> State]
    BY <2>1 DEF dispose
  <2>3. drained' \in SUBSET Waiter /\ drainers' \in SUBSET Waiter /\ orphans' \in SUBSET Task
    BY DEF dispose, releaseDrainers, Inv, TypeOK
  <2>4. /\ queues' \in [Key -> Nat] /\ size' \in [Key -> Nat] /\ runningPromises' \in [Key -> Nat]
        /\ outstandingPromises' \in [Key -> Seq(Task)]
    BY DEF dispose, NoQueue
  <2> QED
    BY <2>2, <2>3, <2>4 DEF dispose, calls, Inv, TypeOK
<1>2. SizeIsExact'
  BY DEF Inv, TypeOK, SizeIsExact, dispose, releaseDrainers, calls, NoQueue
<1>3. QueueNumbers'
  BY DEF Inv, TypeOK, QueueNumbers, dispose, releaseDrainers, calls, NoQueue
<1>4. QueuedHasPlace'
  BY DEF Inv, TypeOK, QueuedHasPlace, dispose, releaseDrainers, calls, NoQueue
<1>5. OrphansAreUntracked'
  <2> SUFFICES ASSUME NEW t \in orphans'
               PROVE  state'[t] \in Busy \cup {"done"} /\ ~Tracked(t)'
    BY DEF OrphansAreUntracked
  <2>1. t \in Task /\ state[t] \in Busy \cup {"done"}
    BY DEF dispose, Inv, TypeOK, OrphansAreUntracked
  <2>2. state'[t] = state[t] /\ owner'[t] = owner[t] /\ owner[t] > 0
    BY <2>1 DEF dispose, calls, Inv, QueuedHasPlace, Busy
  <2>3. \A k \in Key : queues'[k] = 0
    BY DEF dispose, NoQueue
  <2> QED
    BY <2>1, <2>2, <2>3 DEF Tracked
<1>6. OutstandingIsQueued'
  BY DEF Inv, TypeOK, OutstandingIsQueued, dispose, releaseDrainers, calls, NoQueue
<1>7. BusyIsFirst'
  BY DEF Inv, TypeOK, BusyIsFirst, dispose, releaseDrainers, calls, Busy, Tracked, NoQueue
<1>8. InOrder'
  BY DEF Inv, TypeOK, InOrder, dispose, releaseDrainers, calls, Busy, Tracked
<1>9. DrainersCanWake'
  BY DEF Inv, TypeOK, DrainersCanWake, dispose, releaseDrainers, calls, NoQueue, isDrained
<1> QED
  BY <1>1, <1>2, <1>3, <1>4, <1>5, <1>6, <1>7, <1>8, <1>9 DEF Inv

\* The invariant holds in every reachable state.
THEOREM Invariance == Spec => []Inv
<1>1. Init => Inv
  BY DEF Init, Inv, TypeOK, SizeIsExact, QueueNumbers, QueuedHasPlace, OrphansAreUntracked,
         OutstandingIsQueued, BusyIsFirst, InOrder, DrainersCanWake, NoQueue, State, Busy
<1>2. ASSUME Inv, [Next]_vars PROVE Inv'
  <2>1. ASSUME NEW k \in Key, NEW t \in Task, queueFor(k, t) PROVE Inv'
    BY <1>2, <2>1, QueueForCases, FirstStartsKeeps, LaterWaitsKeeps
  <2>2. ASSUME NEW t \in Task, settle(t) PROVE Inv'
    BY <1>2, <2>2, SettleKeeps
  <2>3. ASSUME NEW t \in Task, consumed(t) PROVE Inv'
    BY <1>2, <2>3, ConsumedCases, IgnoredKeeps, DrainsKeeps, StartsNextKeeps
  <2>4. ASSUME NEW w \in Waiter, whenDrained(w) PROVE Inv'
    BY <1>2, <2>4, WhenDrainedKeeps
  <2>5. CASE dispose
    BY <1>2, <2>5, DisposeKeeps
  <2>6. CASE UNCHANGED vars
    BY <1>2, <2>6 DEF vars, limiter, calls, Inv, TypeOK, SizeIsExact, QueueNumbers, QueuedHasPlace,
       OrphansAreUntracked, Tracked, OutstandingIsQueued, BusyIsFirst, InOrder, DrainersCanWake
  <2> QED
    BY <1>2, <2>1, <2>2, <2>3, <2>4, <2>5, <2>6 DEF Next
<1> QED
  BY <1>1, <1>2, PTL DEF Spec

(***************************************************************************)
(* For any number of resources and tasks, the writes of one resource       *)
(* neither overlap nor overtake each other (Limiter.consume, .consumed and *)
(* the drain listener of ResourceQueue.queueFor).                          *)
(***************************************************************************)
THEOREM WritesAreInOrder == Spec => []InOrder
<1>1. Inv => InOrder
  BY DEF Inv
<1> QED
  BY <1>1, Invariance, PTL

(***************************************************************************)
(* The sizes that isDrained reads are exact, and a promise of whenDrained  *)
(* waits only while some Queue can still wake it.                          *)
(***************************************************************************)
THEOREM NoLostWakeUp == Spec => [](SizeIsExact /\ DrainersCanWake)
<1>1. Inv => SizeIsExact /\ DrainersCanWake
  BY DEF Inv
<1> QED
  BY <1>1, Invariance, PTL

\* Without work in any Queue, no task waits and only orphans run.
LEMMA NothingLeft ==
  Inv /\ isDrained(size) =>
    \A t \in Task : state[t] \in Busy \cup {"outstanding"} => t \in orphans
<1> SUFFICES ASSUME Inv, isDrained(size), NEW t \in Task, state[t] \in Busy \cup {"outstanding"}
             PROVE  t \in orphans
  OBVIOUS
<1>1. keyOf[t] \in Key /\ owner[t] > 0
  BY DEF Inv, QueuedHasPlace, Busy
<1>2. Len(outstandingPromises[keyOf[t]]) = 0 /\ runningPromises[keyOf[t]] = 0
  BY <1>1 DEF Inv, TypeOK, SizeIsExact, isDrained
<1>3. state[t] # "outstanding"
  BY <1>2 DEF Inv, OutstandingIsQueued
<1>4. state[t] \in Busy /\ t \notin orphans => queues[keyOf[t]] # NoQueue
  BY <1>1 DEF Inv, TypeOK, BusyIsFirst, NoQueue
<1> QED
  BY <1>1, <1>2, <1>3, <1>4 DEF Inv, SizeIsExact

(***************************************************************************)
(* Whoever waits for whenDrained finds no task waiting and none running,   *)
(* but those that dispose() no longer tracks.                              *)
(***************************************************************************)
THEOREM WaitersFindNothingLeft == Spec => DrainedMeansDone
<1> DEFINE Left == \A w \in Waiter : w \in drained' \ drained =>
                     \A t \in Task : state'[t] \in Busy \cup {"outstanding"} => t \in orphans'
<1>1. ASSUME Inv, Inv', [Next]_vars PROVE [Left]_vars
  <2> SUFFICES ASSUME NEW w \in Waiter, w \in drained' \ drained
               PROVE  isDrained(size)'
    <3>1. (Inv /\ isDrained(size) =>
             \A t \in Task : state[t] \in Busy \cup {"outstanding"} => t \in orphans)'
      BY NothingLeft, PTL
    <3> QED
      BY <1>1, <3>1
  <2>1. ASSUME NEW k \in Key, NEW t \in Task, queueFor(k, t) PROVE FALSE
    BY <2>1 DEF queueFor
  <2>2. ASSUME NEW t \in Task, settle(t) PROVE FALSE
    BY <2>2 DEF settle
  <2>3. ASSUME NEW t \in Task, consumed(t) PROVE isDrained(size)'
    BY <2>3 DEF consumed, onDrained, isDrained
  <2>4. ASSUME NEW v \in Waiter, whenDrained(v) PROVE isDrained(size)'
    BY <2>4 DEF whenDrained, limiter, isDrained
  <2>5. CASE dispose
    BY <2>5 DEF dispose, isDrained
  <2>6. CASE UNCHANGED vars
    BY <2>6 DEF vars
  <2> QED
    BY <1>1, <2>1, <2>2, <2>3, <2>4, <2>5, <2>6 DEF Next
<1> QED
  BY <1>1, Invariance, PTL DEF Spec, DrainedMeansDone

=============================================================================
