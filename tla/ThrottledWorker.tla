--------------------------- MODULE ThrottledWorker ---------------------------
(***************************************************************************)
(* `ThrottledWorker` of vs/base/common/async.ts, which the file watchers   *)
(* put between the events of the operating system and the windows: it      *)
(* hands units on in chunks, rests between chunks that are waiting and     *)
(* refuses work when too much is waiting.                                  *)
(*                                                                         *)
(* Units are counted, not named: they are handled in the order they came.  *)
(* One of them may be followed (`mark`).  Time is abstracted to whether    *)
(* `throttleDelay` has passed since the last execution; the timer of the   *)
(* throttler, set for that moment, fires only then.                        *)
(***************************************************************************)
EXTENDS Naturals

CONSTANTS
  maxWorkChunkSize,
  maxBufferedWork,
  MaxUnits      \* bound: the most units one call of work() brings

ASSUME SizesAssumption ==
  /\ maxWorkChunkSize \in Nat /\ maxWorkChunkSize > 0
  /\ maxBufferedWork \in Nat
  /\ MaxUnits \in Nat

VARIABLES
  waitThrottleDelayBetweenWorkUnits,  \* the option
  pendingWork,  \* how many units wait
  throttler,    \* whether the throttler has a value: its timer is set
  disposed,
  rested,       \* throttleDelay has passed since lastExecutionTime
  mark          \* ghost: the place of a followed unit in pendingWork; 0: none

options == <<waitThrottleDelayBetweenWorkUnits>>
vars == <<options, pendingWork, throttler, disposed, rested, mark>>

AtMost(n, limit) == IF n <= limit THEN n ELSE limit

Init ==
  /\ waitThrottleDelayBetweenWorkUnits \in BOOLEAN
  /\ pendingWork = 0
  /\ throttler = FALSE
  /\ disposed = FALSE
  /\ rested = TRUE
  /\ mark = 0

-----------------------------------------------------------------------------

\* Mutant: what is left waits for the next call of work().
doWorkForgets(units, m) ==
  /\ pendingWork' = units - AtMost(units, maxWorkChunkSize)
  /\ throttler' = FALSE
  /\ rested' = FALSE
  /\ mark' = m - AtMost(m, maxWorkChunkSize)

\* Mutant: the chunk is taken from the end.
doWorkNewestFirst(units, m) ==
  /\ pendingWork' = units - AtMost(units, maxWorkChunkSize)
  /\ throttler' = (units > maxWorkChunkSize)
  /\ rested' = FALSE
  /\ mark' = IF m > units - AtMost(units, maxWorkChunkSize) THEN 0 ELSE m

(***************************************************************************)
(* doWork with that many units waiting: one chunk is handled, and the      *)
(* throttler is set if units are left.  The handler is assumed neither to  *)
(* throw nor to call the worker.                                           *)
(***************************************************************************)
doWork(units, m) ==
  /\ pendingWork' = units - AtMost(units, maxWorkChunkSize)
  /\ throttler' = (units > maxWorkChunkSize)
  /\ rested' = FALSE
  /\ mark' = m - AtMost(m, maxWorkChunkSize)

\* Mutant: the chunk is taken off while throttling as well.
acceptsChunkMore(n) == pendingWork + n <= maxBufferedWork + maxWorkChunkSize

\* Whether work() takes n more units: without a throttler, one chunk is
\* expected to be handled at once.
accepts(n) ==
  IF throttler
  THEN pendingWork + n <= maxBufferedWork
  ELSE pendingWork + n <= maxBufferedWork + maxWorkChunkSize

\* work() with n units; the last one may be the one to follow.  A call that
\* is refused changes nothing.
work(n) ==
  /\ ~disposed
  /\ accepts(n)
  /\ \E m \in {mark} \cup (IF mark = 0 THEN {pendingWork + n} ELSE {}) :
       \/ /\ ~throttler
          /\ ~waitThrottleDelayBetweenWorkUnits \/ rested
          /\ doWork(pendingWork + n, m)
       \/ /\ ~throttler
          /\ waitThrottleDelayBetweenWorkUnits /\ ~rested
          /\ throttler' = TRUE
          /\ pendingWork' = pendingWork + n
          /\ mark' = m
          /\ UNCHANGED rested
       \/ /\ throttler
          /\ pendingWork' = pendingWork + n
          /\ mark' = m
          /\ UNCHANGED <<throttler, rested>>
  /\ UNCHANGED <<options, disposed>>

\* The timer of the throttler: RunOnceScheduler.onTimeout and its runner.
onTimeout ==
  /\ throttler
  /\ rested
  /\ doWork(pendingWork, mark)
  /\ UNCHANGED <<options, disposed>>

\* throttleDelay has passed since the last execution.
rest ==
  /\ ~rested
  /\ rested' = TRUE
  /\ UNCHANGED <<options, pendingWork, throttler, disposed, mark>>

dispose ==
  /\ disposed' = TRUE
  /\ throttler' = FALSE
  /\ UNCHANGED <<options, pendingWork, rested, mark>>

Next ==
  \/ \E n \in 1 .. MaxUnits : work(n)
  \/ onTimeout
  \/ rest
  \/ dispose

Spec == Init /\ [][Next]_vars

\* Time passes, and a timer that is due and stays set fires.
Fairness == WF_vars(rest) /\ WF_vars(onTimeout)

FairSpec == Spec /\ Fairness

-----------------------------------------------------------------------------

(***************************************************************************)
(* "there is a maximum of units the worker will keep in memory for         *)
(* processing (via `maxBufferedWork`)": after a call or a timer no more    *)
(* units wait than that, although a call without a throttler may bring a   *)
(* chunk more.  With waitThrottleDelayBetweenWorkUnits, which no caller    *)
(* sets, that chunk may have to wait as well.                              *)
(***************************************************************************)
BoundedBuffer ==
  pendingWork <= maxBufferedWork
                   + (IF waitThrottleDelayBetweenWorkUnits THEN maxWorkChunkSize ELSE 0)

\* Units never wait without a timer that will handle them, unless the worker
\* was disposed.
WorkIsScheduled == pendingWork > 0 => throttler \/ disposed

\* However much more work is accepted, a unit that waits is handled or the
\* worker is disposed.
AcceptedIsHandled == mark > 0 ~> (mark = 0 \/ disposed)

=============================================================================
