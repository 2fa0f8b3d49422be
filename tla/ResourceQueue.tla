---------------------------- MODULE ResourceQueue ----------------------------
(***************************************************************************)
(* `ResourceQueue` of vs/base/common/async.ts: one `Queue` (a `Limiter`    *)
(* with a degree of parallelism of 1) per resource, made when the first    *)
(* task of the resource is queued and disposed of when it drains.  The     *)
(* file service, the backup service and the extension host send every      *)
(* write through one, so that two writes of one file never overlap.        *)
(*                                                                         *)
(* A task is a factory that a caller queues once.  Its promise settles in  *)
(* one step (`settle`) and `consumed`, a reaction of that promise, runs in *)
(* a later one: other reactions may queue, wait or dispose in between.     *)
(* What a task does is abstracted, and so is whether its promise was       *)
(* fulfilled or rejected: `consumed` is called in both cases.              *)
(***************************************************************************)
EXTENDS Naturals, Sequences

CONSTANTS
  Key,      \* comparison keys of resources
  NoKey,    \* the key of a task that was not queued
  Task,     \* the factories that callers queue
  Waiter    \* the callers of whenDrained

ASSUME KeyAssumption == NoKey \notin Key

VARIABLES
  queues,               \* the Queue in the map, by its number; NoQueue: none
  size,                 \* Limiter._size of that Queue
  runningPromises,      \* Limiter.runningPromises of that Queue
  outstandingPromises,  \* Limiter.outstandingPromises of that Queue
  drainListenerCount,   \* how many Queues were made
  drainers,             \* the waiters whose promise is not completed
  drained,              \* the waiters whose promise is completed
  state,                \* what became of each task
  keyOf,                \* the resource each task was queued for
  owner,                \* the Queue each task was queued in
  ticket,               \* ghost: the place of each task among all calls
  tickets,              \* ghost: how many calls of queueFor there were
  orphans               \* ghost: tasks that dispose() left running

limiter == <<queues, size, runningPromises, outstandingPromises>>
calls == <<keyOf, owner, ticket, tickets>>
vars == <<limiter, drainListenerCount, drainers, drained, state, calls, orphans>>

NoQueue == 0

maxDegreeOfParalellism == 1

(***************************************************************************)
(* "rejected": the factory threw inside `queue`, so the caller's promise   *)
(* is rejected; "unsettled": it threw inside `consumed`, so the caller's   *)
(* promise never settles; "dropped": removed from a disposed Queue.        *)
(***************************************************************************)
State == {"new", "outstanding", "running", "settled", "done", "dropped",
          "rejected", "unsettled"}

Busy == {"running", "settled"}

Init ==
  /\ queues = [k \in Key |-> NoQueue]
  /\ size = [k \in Key |-> 0]
  /\ runningPromises = [k \in Key |-> 0]
  /\ outstandingPromises = [k \in Key |-> <<>>]
  /\ drainListenerCount = 0
  /\ drainers = {}
  /\ drained = {}
  /\ state = [t \in Task |-> "new"]
  /\ keyOf = [t \in Task |-> NoKey]
  /\ owner = [t \in Task |-> NoQueue]
  /\ ticket = [t \in Task |-> 0]
  /\ tickets = 0
  /\ orphans = {}

\* Whether the Queue that t was queued in is still the one in the map.
Tracked(t) == keyOf[t] \in Key /\ queues[keyOf[t]] = owner[t]

-----------------------------------------------------------------------------

\* Mutant: the task queued last is taken first.
consumeLast(k, running, outstanding, s, thrown) ==
  IF outstanding # <<>> /\ running < maxDegreeOfParalellism
  THEN /\ runningPromises' = [runningPromises EXCEPT ![k] = running + 1]
       /\ outstandingPromises' =
            [outstandingPromises EXCEPT ![k] = SubSeq(outstanding, 1, Len(outstanding) - 1)]
       /\ state' = [s EXCEPT ![outstanding[Len(outstanding)]] = "running"]
  ELSE /\ runningPromises' = [runningPromises EXCEPT ![k] = running]
       /\ outstandingPromises' = [outstandingPromises EXCEPT ![k] = outstanding]
       /\ state' = s

(***************************************************************************)
(* Limiter.consume on the Queue of k, with running and outstanding as its  *)
(* caller left them and s the states of the tasks.  The degree is 1, so    *)
(* the loop starts at most one task.  A factory that throws leaves the     *)
(* loop after runningPromises was raised.                                  *)
(***************************************************************************)
consume(k, running, outstanding, s, thrown) ==
  IF outstanding # <<>> /\ running < maxDegreeOfParalellism
  THEN /\ runningPromises' = [runningPromises EXCEPT ![k] = running + 1]
       /\ outstandingPromises' = [outstandingPromises EXCEPT ![k] = Tail(outstanding)]
       /\ \/ state' = [s EXCEPT ![Head(outstanding)] = "running"]
          \/ state' = [s EXCEPT ![Head(outstanding)] = thrown]
  ELSE /\ runningPromises' = [runningPromises EXCEPT ![k] = running]
       /\ outstandingPromises' = [outstandingPromises EXCEPT ![k] = outstanding]
       /\ state' = s

\* ResourceQueue.queueFor, and Limiter.queue on the Queue found or made.
queueFor(k, t) ==
  /\ state[t] = "new"
  /\ IF queues[k] = NoQueue
     THEN /\ queues' = [queues EXCEPT ![k] = drainListenerCount + 1]
          /\ drainListenerCount' = drainListenerCount + 1
     ELSE UNCHANGED <<queues, drainListenerCount>>
  /\ size' = [size EXCEPT ![k] = @ + 1]
  /\ consume(k, runningPromises[k], Append(outstandingPromises[k], t),
             [state EXCEPT ![t] = "outstanding"], "rejected")
  /\ keyOf' = [keyOf EXCEPT ![t] = k]
  /\ owner' = [owner EXCEPT ![t] = queues'[k]]
  /\ ticket' = [ticket EXCEPT ![t] = tickets + 1]
  /\ tickets' = tickets + 1
  /\ UNCHANGED <<drainers, drained, orphans>>

\* The promise that the factory of t returned is fulfilled or rejected.
settle(t) ==
  /\ state[t] = "running"
  /\ state' = [state EXCEPT ![t] = "settled"]
  /\ UNCHANGED <<limiter, drainListenerCount, drainers, drained, calls, orphans>>

\* Mutant: one Queue without work is enough.
isDrainedSome(sizes) == \E k \in Key : sizes[k] = 0

isDrained(sizes) == \A k \in Key : sizes[k] = 0

releaseDrainers ==
  /\ drained' = drained \cup drainers
  /\ drainers' = {}

(***************************************************************************)
(* The drain listener: the Queue is disposed of and leaves the map, and    *)
(* the waiters are released once no other Queue has work.                  *)
(***************************************************************************)
onDrained(k) ==
  /\ queues' = [queues EXCEPT ![k] = NoQueue]
  /\ size' = [size EXCEPT ![k] = 0]
  /\ runningPromises' = [runningPromises EXCEPT ![k] = 0]
  /\ outstandingPromises' = [outstandingPromises EXCEPT ![k] = <<>>]
  /\ IF isDrained(size') THEN releaseDrainers ELSE UNCHANGED <<drainers, drained>>

\* Mutant: the next task is started before this one is counted out.
consumedStillRunning(t) ==
  LET k == keyOf[t]
      s == [state EXCEPT ![t] = "done"]
  IN
  /\ state[t] = "settled"
  /\ \/ /\ ~Tracked(t)
        /\ state' = s
        /\ UNCHANGED <<limiter, drainers, drained>>
     \/ /\ Tracked(t)
        /\ size[k] = 1
        /\ onDrained(k)
        /\ state' = s
     \/ /\ Tracked(t)
        /\ size[k] # 1
        /\ size' = [size EXCEPT ![k] = @ - 1]
        /\ consume(k, runningPromises[k], outstandingPromises[k], s, "unsettled")
        /\ UNCHANGED <<queues, drainers, drained>>
  /\ UNCHANGED <<drainListenerCount, calls, orphans>>

\* Mutant: a promise that is rejected is not counted out.
consumedIfFulfilled(t) ==
  LET k == keyOf[t]
      s == [state EXCEPT ![t] = "done"]
  IN
  /\ state[t] = "settled"
  /\ \/ /\ state' = s
        /\ UNCHANGED <<limiter, drainers, drained>>
     \/ /\ Tracked(t)
        /\ size[k] = 1
        /\ onDrained(k)
        /\ state' = s
     \/ /\ Tracked(t)
        /\ size[k] # 1
        /\ size' = [size EXCEPT ![k] = @ - 1]
        /\ consume(k, runningPromises[k] - 1, outstandingPromises[k], s, "unsettled")
        /\ UNCHANGED <<queues, drainers, drained>>
  /\ UNCHANGED <<drainListenerCount, calls, orphans>>

\* Limiter.consumed, as the reaction of the promise of t.
consumed(t) ==
  LET k == keyOf[t]
      s == [state EXCEPT ![t] = "done"]
  IN
  /\ state[t] = "settled"
  /\ \/ /\ ~Tracked(t)               \* the Queue of t is disposed
        /\ state' = s
        /\ UNCHANGED <<limiter, drainers, drained>>
     \/ /\ Tracked(t)
        /\ size[k] = 1
        /\ onDrained(k)
        /\ state' = s
     \/ /\ Tracked(t)
        /\ size[k] # 1
        /\ size' = [size EXCEPT ![k] = @ - 1]
        /\ consume(k, runningPromises[k] - 1, outstandingPromises[k], s, "unsettled")
        /\ UNCHANGED <<queues, drainers, drained>>
  /\ UNCHANGED <<drainListenerCount, calls, orphans>>

\* ResourceQueue.whenDrained.
whenDrained(w) ==
  /\ w \notin drainers \cup drained
  /\ IF isDrained(size)
     THEN drained' = drained \cup {w} /\ UNCHANGED drainers
     ELSE drainers' = drainers \cup {w} /\ UNCHANGED drained
  /\ UNCHANGED <<limiter, drainListenerCount, state, calls, orphans>>

(***************************************************************************)
(* ResourceQueue.dispose, and Limiter.dispose on every Queue: tasks that   *)
(* run go on untracked, tasks that wait are forgotten with their promises  *)
(* pending.  Nothing stops a later queueFor from making new Queues.        *)
(***************************************************************************)
dispose ==
  /\ queues' = [k \in Key |-> NoQueue]
  /\ size' = [k \in Key |-> 0]
  /\ runningPromises' = [k \in Key |-> 0]
  /\ outstandingPromises' = [k \in Key |-> <<>>]
  /\ state' = [t \in Task |-> IF state[t] = "outstanding" THEN "dropped" ELSE state[t]]
  /\ orphans' = orphans \cup {t \in Task : state[t] \in Busy}
  /\ releaseDrainers
  /\ UNCHANGED <<drainListenerCount, calls>>

Next ==
  \/ \E k \in Key, t \in Task : queueFor(k, t)
  \/ \E t \in Task : settle(t)
  \/ \E t \in Task : consumed(t)
  \/ \E w \in Waiter : whenDrained(w)
  \/ dispose

Spec == Init /\ [][Next]_vars

\* Promises settle, and the microtask queue runs their reactions.
Fairness == \A t \in Task : WF_vars(settle(t)) /\ WF_vars(consumed(t))

FairSpec == Spec /\ Fairness

-----------------------------------------------------------------------------

TypeOK ==
  /\ queues \in [Key -> Nat]
  /\ size \in [Key -> Nat]
  /\ runningPromises \in [Key -> Nat]
  /\ outstandingPromises \in [Key -> Seq(Task)]
  /\ drainListenerCount \in Nat
  /\ drainers \in SUBSET Waiter
  /\ drained \in SUBSET Waiter
  /\ state \in [Task -> State]
  /\ keyOf \in [Task -> Key \cup {NoKey}]
  /\ owner \in [Task -> Nat]
  /\ ticket \in [Task -> Nat]
  /\ tickets \in Nat
  /\ orphans \in SUBSET Task

(***************************************************************************)
(* Writes of one resource neither overlap nor overtake each other: a task  *)
(* runs only when every task queued for its resource before it is over,    *)
(* the Queue having drained and been made anew in between or not.  Only    *)
(* tasks that dispose() left running are exempt.                           *)
(***************************************************************************)
InOrder ==
  \A t, u \in Task :
    /\ keyOf[t] = keyOf[u]
    /\ 0 < ticket[t]
    /\ ticket[t] < ticket[u]
    /\ state[u] \in Busy \cup {"done"}
    => \/ state[t] \notin Busy \cup {"outstanding"}
       \/ t \in orphans

(***************************************************************************)
(* The size that isDrained reads is the number of tasks that run or wait,  *)
(* a Queue without tasks is not in the map, and no Queue waits with a task *)
(* outstanding and none running.                                           *)
(***************************************************************************)
SizeIsExact ==
  \A k \in Key :
    /\ size[k] = Len(outstandingPromises[k]) + runningPromises[k]
    /\ queues[k] # NoQueue => runningPromises[k] = 1
    /\ queues[k] = NoQueue => size[k] = 0

(***************************************************************************)
(* A promise of whenDrained waits only while some Queue is left whose      *)
(* drain listener can complete it: no wake-up is lost.                     *)
(***************************************************************************)
DrainersCanWake == drainers # {} => \E k \in Key : queues[k] # NoQueue /\ size[k] > 0

(***************************************************************************)
(* When whenDrained's promise is completed, by the last drain, by a call   *)
(* that found nothing to do or by dispose(), no task waits any more, and   *)
(* none runs but those dispose() no longer tracks: a shutdown that waited  *)
(* for the backups has them on disk.                                       *)
(***************************************************************************)
DrainedMeansDone ==
  [][\A w \in Waiter :
       w \in drained' \ drained =>
         \A t \in Task : state'[t] \in Busy \cup {"outstanding"} => t \in orphans']_vars

\* A factory for k threw instead of returning a promise.
Blocked(k) == \E t \in Task : keyOf[t] = k /\ state[t] \in {"rejected", "unsettled"}

\* Nothing but a factory that throws keeps the tasks of a resource waiting.
RunsUnlessBlocked ==
  \A t \in Task : state[t] = "outstanding" ~> state[t] # "outstanding" \/ Blocked(keyOf[t])

\* A promise that whenDrained returned is completed, unless a factory threw.
WaitersAreReleased ==
  \A w \in Waiter : w \in drainers ~> w \in drained \/ \E k \in Key : Blocked(k)

=============================================================================
