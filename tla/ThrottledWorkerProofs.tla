------------------------ MODULE ThrottledWorkerProofs ------------------------
(***************************************************************************)
(* Proofs about ThrottledWorker, for every size of chunks, buffer and      *)
(* calls.                                                                  *)
(***************************************************************************)
EXTENDS ThrottledWorker, TLAPS

Types ==
  /\ pendingWork \in Nat
  /\ throttler \in BOOLEAN
  /\ disposed \in BOOLEAN

Inv == Types /\ WorkIsScheduled

\* What doWork leaves waiting, and when it sets the timer.
LEMMA WhatDoWorkLeaves ==
  ASSUME NEW units \in Nat, NEW m, doWork(units, m)
  PROVE  /\ pendingWork' \in Nat
         /\ \/ units <= maxWorkChunkSize /\ pendingWork' = 0
            \/ units > maxWorkChunkSize /\ pendingWork' = units - maxWorkChunkSize
         /\ throttler' \in BOOLEAN
         /\ pendingWork' > 0 => throttler'
<1>1. CASE units <= maxWorkChunkSize
  <2>1. AtMost(units, maxWorkChunkSize) = units
    BY <1>1 DEF AtMost
  <2>2. pendingWork' = 0
    BY <2>1 DEF doWork
  <2>3. throttler' = (units > maxWorkChunkSize)
    BY DEF doWork
  <2> QED
    BY <1>1, <2>2, <2>3
<1>2. CASE units > maxWorkChunkSize
  <2>1. AtMost(units, maxWorkChunkSize) = maxWorkChunkSize
    BY <1>2, SizesAssumption DEF AtMost
  <2>2. pendingWork' = units - maxWorkChunkSize /\ pendingWork' \in Nat
    BY <1>2, <2>1, SizesAssumption DEF doWork
  <2>3. throttler' = (units > maxWorkChunkSize)
    BY DEF doWork
  <2>4. throttler' = TRUE
    BY <1>2, <2>3
  <2> QED
    BY <1>2, <2>2, <2>4
<1> QED
  BY <1>1, <1>2, SizesAssumption

(***************************************************************************)
(* For all options, units never wait without a timer that will handle      *)
(* them, unless the worker was disposed (work, doWork, scheduleThrottler). *)
(***************************************************************************)
THEOREM WorkIsAlwaysScheduled == Spec => []WorkIsScheduled
<1>1. Init => Inv
  <2>1. Init => pendingWork \in Nat /\ ~(pendingWork > 0)
    BY DEF Init
  <2> QED
    BY <2>1 DEF Init, Inv, Types, WorkIsScheduled
<1>2. ASSUME Inv, [Next]_vars PROVE Inv'
  <2>1. ASSUME NEW n \in 1 .. MaxUnits, work(n) PROVE Inv'
    <3>1. pendingWork + n \in Nat
      BY <1>2, SizesAssumption DEF Inv, Types
    <3>2. disposed' = disposed
      BY <2>1 DEF work
    <3>3. \/ \E m : doWork(pendingWork + n, m)
          \/ throttler' = TRUE /\ pendingWork' = pendingWork + n
      BY <1>2, <2>1 DEF work, Inv, Types
    <3>4. pendingWork' \in Nat /\ throttler' \in BOOLEAN /\ (pendingWork' > 0 => throttler')
      BY <3>1, <3>3, WhatDoWorkLeaves
    <3> QED
      BY <1>2, <3>2, <3>4 DEF Inv, Types, WorkIsScheduled
  <2>2. CASE onTimeout
    <3>1. pendingWork \in Nat /\ doWork(pendingWork, mark) /\ disposed' = disposed
      BY <1>2, <2>2 DEF onTimeout, Inv, Types
    <3>2. pendingWork' \in Nat /\ throttler' \in BOOLEAN /\ (pendingWork' > 0 => throttler')
      BY <3>1, WhatDoWorkLeaves
    <3> QED
      BY <1>2, <3>1, <3>2 DEF Inv, Types, WorkIsScheduled
  <2>3. CASE rest
    BY <1>2, <2>3 DEF rest, Inv, Types, WorkIsScheduled
  <2>4. CASE dispose
    BY <1>2, <2>4 DEF dispose, Inv, Types, WorkIsScheduled
  <2>5. CASE UNCHANGED vars
    BY <1>2, <2>5 DEF vars, Inv, Types, WorkIsScheduled
  <2> QED
    BY <1>2, <2>1, <2>2, <2>3, <2>4, <2>5 DEF Next
<1>3. Inv => WorkIsScheduled
  BY DEF Inv
<1> QED
  BY <1>1, <1>2, <1>3, PTL DEF Spec

\* What the option allows to wait beyond maxBufferedWork.
Spare == IF waitThrottleDelayBetweenWorkUnits THEN maxWorkChunkSize ELSE 0

BufferInv == pendingWork \in Nat /\ BoundedBuffer

(***************************************************************************)
(* Never more than maxBufferedWork units wait, or a chunk more with        *)
(* waitThrottleDelayBetweenWorkUnits.  A call without a throttler is       *)
(* measured as if a chunk were handled at once, and then it is: only the   *)
(* option makes work() set the timer instead (work, scheduleThrottler).    *)
(***************************************************************************)
THEOREM BufferIsBounded == Spec => []BoundedBuffer
<1>0. /\ Spare \in Nat
      /\ waitThrottleDelayBetweenWorkUnits => Spare = maxWorkChunkSize
      /\ BoundedBuffer <=> pendingWork <= maxBufferedWork + Spare
  BY SizesAssumption DEF Spare, BoundedBuffer
<1>1. Init => BufferInv
  BY <1>0, SizesAssumption DEF Init, BufferInv
<1>2. ASSUME BufferInv, [Next]_vars PROVE BufferInv'
  <2>0. pendingWork \in Nat /\ pendingWork <= maxBufferedWork + Spare
    BY <1>0, <1>2 DEF BufferInv
  <2>1. waitThrottleDelayBetweenWorkUnits' = waitThrottleDelayBetweenWorkUnits
    BY <1>2 DEF Next, work, onTimeout, rest, dispose, options, vars
  <2>2. ASSUME pendingWork' \in Nat, pendingWork' <= maxBufferedWork + Spare PROVE BufferInv'
    BY <2>1, <2>2 DEF BufferInv, BoundedBuffer, Spare
  <2>3. ASSUME NEW n \in 1 .. MaxUnits, work(n) PROVE BufferInv'
    <3>1. pendingWork + n \in Nat
      BY <2>0, SizesAssumption
    <3>2. CASE throttler
      <4>1. pendingWork' = pendingWork + n /\ pendingWork + n <= maxBufferedWork
        BY <2>3, <3>2 DEF work, accepts
      <4> QED
        BY <1>0, <2>2, <3>1, <4>1, SizesAssumption
    <3>3. CASE ~throttler
      <4>1. pendingWork + n <= maxBufferedWork + maxWorkChunkSize
        BY <2>3, <3>3 DEF work, accepts
      <4>2. \/ \E m : doWork(pendingWork + n, m)
            \/ waitThrottleDelayBetweenWorkUnits /\ pendingWork' = pendingWork + n
        BY <2>3, <3>3 DEF work
      <4>3. CASE \E m : doWork(pendingWork + n, m)
        <5>1. pendingWork' \in Nat /\ (pendingWork' = 0 \/ pendingWork' = (pendingWork + n) - maxWorkChunkSize)
          BY <3>1, <4>3, WhatDoWorkLeaves
        <5>2. pendingWork' <= maxBufferedWork + Spare
          BY <1>0, <3>1, <4>1, <5>1, SizesAssumption
        <5> QED
          BY <2>2, <5>1, <5>2
      <4>4. CASE waitThrottleDelayBetweenWorkUnits /\ pendingWork' = pendingWork + n
        BY <1>0, <2>2, <3>1, <4>1, <4>4
      <4> QED
        BY <4>2, <4>3, <4>4
    <3> QED
      BY <3>2, <3>3
  <2>4. CASE onTimeout
    <3>1. doWork(pendingWork, mark)
      BY <2>4 DEF onTimeout
    <3>2. pendingWork' \in Nat /\ (pendingWork' = 0 \/ pendingWork' = pendingWork - maxWorkChunkSize)
      BY <2>0, <3>1, WhatDoWorkLeaves
    <3>3. pendingWork' <= maxBufferedWork + Spare
      BY <1>0, <2>0, <3>2, SizesAssumption
    <3> QED
      BY <2>2, <3>2, <3>3
  <2>5. CASE rest \/ dispose \/ UNCHANGED vars
    <3>1. pendingWork' = pendingWork
      BY <2>5 DEF rest, dispose, vars
    <3> QED
      BY <2>0, <2>2, <3>1
  <2> QED
    BY <1>2, <2>3, <2>4, <2>5 DEF Next
<1>3. BufferInv => BoundedBuffer
  BY DEF BufferInv
<1> QED
  BY <1>1, <1>2, <1>3, PTL DEF Spec

=============================================================================
