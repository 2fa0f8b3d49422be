---------------------- MODULE StoredFileWorkingCopyProofs ----------------------
(***************************************************************************)
(* That saves never overlap, that a clean copy shows stored text and that  *)
(* a save replaces only what the copy has seen, for every number of        *)
(* versions, saves and disturbances.                                       *)
(***************************************************************************)
EXTENDS StoredFileWorkingCopy, TLAPS

\* What a save runs under: its own number until the participants are done,
\* then that of its write.
Number(k) == IF k.phase \in {"delay", "participants"} THEN k.outer ELSE k.inner

\* The sequentializer s is in step with its saves when the content is at
\* number id.
InStep(s, id) ==
  /\ s \in Sequentializers
  /\ \A t \in Save : s.tasks[t].phase = "none" => s.tasks[t] = NoSave
  /\ \A t \in Save : s.tasks[t] # NoSave =>
       /\ s.running.id = Number(s.tasks[t])
       /\ s.running.save = t
       /\ s.tasks[t].outer <= s.tasks[t].inner
       /\ s.tasks[t].inner <= id
       /\ s.queued # "none" /\ s.tasks[t].phase \in {"delay", "participants"} => s.tasks[t].cancelled
  /\ isRunning(s) => \E t \in Save : s.tasks[t] # NoSave
  /\ s.queued # "none" => isRunning(s) /\ s.running.id < id

Idle == [running |-> NotRunning, queued |-> "none", tasks |-> [t \in Save |-> NoSave]]

LEMMA NoSaveType == NoSave \in Tasks /\ NotRunning \in [id : Nat, save : {0} \cup Save]
BY DEF NoSave, Tasks, NotRunning, Save

\* Nothing is out of step when nothing runs.
LEMMA IdleInStep == ASSUME NEW id \in Nat PROVE InStep(Idle, id)
BY NoSaveType DEF InStep, Idle, Sequentializers, isRunning

\* The first save that an idle sequentializer runs.
LEMMA RunIdle ==
  ASSUME NEW o \in Option, NEW id \in Nat
  PROVE  /\ InStep(run(Idle, o, id), id)
         /\ run(Idle, o, id).queued = "none"
         /\ isRunning(run(Idle, o, id))
         /\ run(Idle, o, id).running.id = id
         /\ \A t \in Save : run(Idle, o, id).tasks[t].phase \in {"none", "delay", "participants"}
<1> DEFINE p == IF o = "auto" /\ undoneRecently THEN "delay" ELSE "participants"
           k == Started(o, id)
<1>a. p \in {"delay", "participants"}
  OBVIOUS
<1>b. k = [phase |-> p, option |-> o, outer |-> id, inner |-> id,
           cancelled |-> FALSE, mtime |-> 0, content |-> 0]
  BY DEF Started
<1> HIDE DEF p, k
<1>1. k \in Tasks
  BY <1>a, <1>b DEF Tasks
<1>2. /\ k # NoSave /\ k.outer = id /\ k.inner = id
      /\ k.phase \in {"delay", "participants"}
  BY <1>a, <1>b DEF NoSave
<1>4. Free(Idle) = 1
  BY DEF Free, Idle, Save
<1>5. run(Idle, o, id) = [Idle EXCEPT !.running = [id |-> id, save |-> 1], !.tasks[1] = k]
  BY <1>4 DEF run, k
<1>6. run(Idle, o, id) = [running |-> [id |-> id, save |-> 1], queued |-> "none",
                          tasks |-> [t \in Save |-> IF t = 1 THEN k ELSE NoSave]]
  BY <1>5 DEF Idle, Save
<1>7. NoSave.phase = "none"
  BY DEF NoSave
<1>8. Number(k) = id
  BY <1>2 DEF Number
<1> QED
  BY <1>6, <1>1, <1>2, <1>7, <1>8, NoSaveType DEF InStep, Sequentializers, isRunning, NotRunning, Save

LEMMA DoSaveIdle ==
  ASSUME NEW o \in Option, NEW f
  PROVE  doSave(Idle, o, f) \in {Idle, run(Idle, o, versionId)}
<1>1. ~ignoreSaveFromSaveParticipants(Idle)
  BY DEF ignoreSaveFromSaveParticipants, Idle, NoSave
<1>2. ~isRunning(Idle)
  BY DEF isRunning, Idle
<1> QED
  BY <1>1, <1>2 DEF doSave

(***************************************************************************)
(* A save that settles leaves the sequentializer idle or running the save  *)
(* that was queued: the reaction under the second number never ends the    *)
(* new save, because the queued one was asked for at a later content.      *)
(***************************************************************************)
LEMMA SettledCases ==
  ASSUME InStep(saves, versionId), versionId \in Nat,
         NEW t \in Save, saves.tasks[t] # NoSave, NEW f
  PROVE  Settled(t, f) = Idle \/ \E o \in Option : Settled(t, f) = run(Idle, o, versionId)
<1> DEFINE s == [saves EXCEPT !.tasks[t] = NoSave]
           k == saves.tasks[t]
           n == Number(k)
           q == saves.queued
<1>1. /\ saves \in Sequentializers /\ k \in Tasks
      /\ saves.running.id = n /\ saves.running.save = t
      /\ saves.running = [id |-> n, save |-> t]
      /\ k.outer <= k.inner /\ k.inner <= versionId
      /\ k.outer \in Nat /\ k.inner \in Nat
      /\ q \in {"none"} \cup Option
      /\ q # "none" => saves.running.id < versionId
  BY DEF InStep, Sequentializers, Tasks
<1>2. \A u \in Save : u # t => saves.tasks[u] = NoSave
  <2>1. \A u \in Save : saves.tasks[u] # NoSave => saves.running.save = u
    BY DEF InStep
  <2> QED
    BY <2>1
<1>3. s = [running |-> [id |-> n, save |-> t], queued |-> q, tasks |-> [u \in Save |-> NoSave]]
  BY <1>1, <1>2 DEF Sequentializers
<1>4. Freed(s) = Idle
  BY <1>3 DEF Idle, Freed
<1>6. /\ s.queued = q /\ s.running.id = n /\ isRunning(s)
  <2>1. s.running.save = t /\ NotRunning.save = 0
    BY <1>3 DEF NotRunning
  <2> QED
    BY <1>3, <2>1 DEF isRunning, Save
<1>7. n \in Nat /\ k.outer <= n /\ n <= versionId /\ (q # "none" => n < versionId)
  BY <1>1 DEF Number
<1> HIDE DEF s, n
<1>8. doneRunning(s, n, f) = IF q = "none" THEN Idle ELSE doSave(Idle, q, f)
  BY <1>4, <1>6 DEF doneRunning
<1>9. \/ doneRunning(s, n, f) = Idle
      \/ /\ q \in Option /\ q # "none"
         /\ doneRunning(s, n, f) = run(Idle, q, versionId)
  <2>1. CASE q = "none"
    BY <2>1, <1>8
  <2>2. CASE q # "none"
    <3>1. q \in Option
      BY <2>2, <1>1
    <3>2. doSave(Idle, q, f) \in {Idle, run(Idle, q, versionId)}
      BY <3>1, DoSaveIdle
    <3> HIDE DEF q
    <3> QED
      BY <3>1, <3>2, <2>2, <1>8
  <2> QED
    BY <2>1, <2>2
<1>10. doneRunning(Idle, k.outer, f) = Idle
  BY DEF doneRunning, isRunning, Idle
<1>11. ASSUME q \in Option, q # "none"
       PROVE  doneRunning(run(Idle, q, versionId), k.outer, f) = run(Idle, q, versionId)
  <2>1. run(Idle, q, versionId).running.id = versionId
    BY <1>11, RunIdle
  <2>2. versionId # k.outer
    BY <1>11, <1>7, <1>1
  <2> HIDE DEF q
  <2> QED
    BY <2>1, <2>2 DEF doneRunning
<1>12. CASE k.phase \notin {"delay", "participants"}
  <2>1. n = k.inner
    BY <1>12 DEF n, Number
  <2>2. Settled(t, f) = doneRunning(doneRunning(s, n, f), k.outer, f)
    BY <1>12, <2>1 DEF Settled, s
  <2> QED
    BY <2>2, <1>9, <1>10, <1>11
<1>13. CASE k.phase \in {"delay", "participants"}
  <2>1. n = k.outer
    BY <1>13 DEF n, Number
  <2>2. Settled(t, f) = doneRunning(s, n, f)
    BY <1>13, <2>1 DEF Settled, s
  <2> QED
    BY <2>2, <1>9
<1> QED
  BY <1>12, <1>13

\* Hence a save that settles leaves the sequentializer in step, with a new
\* save that has not written anything at most.
LEMMA SettledInStep ==
  ASSUME InStep(saves, versionId), versionId \in Nat,
         NEW t \in Save, saves.tasks[t] # NoSave, NEW f
  PROVE  /\ InStep(Settled(t, f), versionId)
         /\ \A u \in Save : Settled(t, f).tasks[u].phase \in {"none", "delay", "participants"}
<1>1. \A u \in Save : Idle.tasks[u].phase = "none"
  BY DEF Idle, NoSave
<1> QED
  BY <1>1, SettledCases, IdleInStep, RunIdle

\* A later content leaves the sequentializer in step.
LEMMA InStepLater ==
  ASSUME NEW s, NEW id \in Nat, NEW next \in Nat, InStep(s, id), id <= next
  PROVE  InStep(s, next)
<1>1. \A t \in Save : s.tasks[t].inner \in Nat
  BY DEF InStep, Sequentializers, Tasks
<1>2. s.running.id \in Nat
  BY DEF InStep, Sequentializers
<1> QED
  BY <1>1, <1>2 DEF InStep

\* Cancelling the running save, and queueing another for a later content.
LEMMA CancelInStep ==
  ASSUME NEW s, NEW id \in Nat, InStep(s, id), NEW t \in Save, s.tasks[t] # NoSave
  PROVE  /\ InStep([s EXCEPT !.tasks[t].cancelled = TRUE], id)
         /\ \A o \in Option : s.running.id # id =>
              InStep([[s EXCEPT !.tasks[t].cancelled = TRUE] EXCEPT !.queued = o], id)
<1> DEFINE k == [s.tasks[t] EXCEPT !.cancelled = TRUE]
           c == [s EXCEPT !.tasks[t].cancelled = TRUE]
<1>1. /\ s \in Sequentializers /\ s.tasks[t] \in Tasks /\ s.tasks \in [Save -> Tasks]
      /\ s.running.id \in Nat
  BY DEF InStep, Sequentializers
<1>2. /\ k \in Tasks
      /\ k.phase = s.tasks[t].phase /\ k.outer = s.tasks[t].outer /\ k.inner = s.tasks[t].inner
      /\ k.cancelled
  BY <1>1 DEF Tasks
<1>3. c = [running |-> s.running, queued |-> s.queued, tasks |-> [s.tasks EXCEPT ![t] = k]]
  <2> DEFINE T == [s.tasks EXCEPT ![t] = k]
  <2>1. c = [s EXCEPT !.tasks = T]
    OBVIOUS
  <2> HIDE DEF T
  <2>2. [s EXCEPT !.tasks = T] = [running |-> s.running, queued |-> s.queued, tasks |-> T]
    BY <1>1 DEF Sequentializers
  <2> QED
    BY <2>1, <2>2 DEF T
<1>4. c.tasks[t] = k /\ (\A u \in Save : u # t => c.tasks[u] = s.tasks[u])
  BY <1>1, <1>3
<1>5. k.phase # "none"
  BY <1>2 DEF InStep
<1>6. Number(k) = Number(s.tasks[t]) /\ k # NoSave
  BY <1>2, <1>5 DEF Number, NoSave
<1>7. c \in Sequentializers /\ c.running = s.running /\ c.queued = s.queued
  BY <1>1, <1>2, <1>3 DEF Sequentializers
<1> HIDE DEF k, c
<1>8. InStep(c, id)
  BY <1>2, <1>4, <1>5, <1>6, <1>7 DEF InStep, isRunning
<1>9. ASSUME NEW o \in Option, s.running.id # id
      PROVE  InStep([c EXCEPT !.queued = o], id)
  <2> DEFINE d == [c EXCEPT !.queued = o]
  <2>1. d \in Sequentializers /\ d.running = c.running /\ d.tasks = c.tasks /\ d.queued = o
    BY <1>7 DEF Sequentializers
  <2>2. s.running.id < id
    <3>1. s.running.id = Number(s.tasks[t]) /\ s.tasks[t].outer <= s.tasks[t].inner /\ s.tasks[t].inner <= id
      BY DEF InStep
    <3>2. s.tasks[t].outer \in Nat /\ s.tasks[t].inner \in Nat
      BY <1>1 DEF Tasks
    <3> QED
      BY <3>1, <3>2, <1>9 DEF Number
  <2>3. isRunning(c)
    BY <1>7, <1>6, <1>4 DEF InStep, isRunning, NotRunning, Save
  <2>4. \A u \in Save : d.tasks[u] # NoSave => u = t
    BY <2>1, <1>4 DEF InStep
  <2>5. d.tasks[t] = k
    BY <2>1, <1>4
  <2> HIDE DEF d
  <2>6. \A u \in Save : d.tasks[u].phase = "none" => d.tasks[u] = NoSave
    BY <2>1, <1>8 DEF InStep
  <2>7. \A u \in Save : d.tasks[u] # NoSave =>
          /\ d.running.id = Number(d.tasks[u]) /\ d.running.save = u
          /\ d.tasks[u].outer <= d.tasks[u].inner /\ d.tasks[u].inner <= id
    BY <2>1, <1>8 DEF InStep
  <2>8. d.tasks[t] # NoSave /\ d.tasks[t].cancelled
    BY <2>5, <1>6, <1>2
  <2>9. isRunning(d) /\ d.running.id < id
    BY <2>1, <2>2, <2>3, <1>7 DEF isRunning
  <2>10. InStep(d, id)
    BY <2>1, <2>4, <2>6, <2>7, <2>8, <2>9 DEF InStep
  <2> QED
    BY <2>10 DEF d
<1> QED
  BY <1>8, <1>9 DEF c

\* What a save has taken from the model is what is shown, as long as the
\* content has not changed since, and once written it is among the stored.
Faithful(s, id, c, st) ==
  \A t \in Save : s.tasks[t].phase \in {"validate", "write", "stat"} =>
    /\ s.tasks[t].inner = id => s.tasks[t].content = c
    /\ s.tasks[t].phase = "stat" => s.tasks[t].content \in st

LEMMA NotRunningIsIdle ==
  ASSUME NEW s, NEW id, InStep(s, id), ~isRunning(s)
  PROVE  s = Idle
<1>1. s \in Sequentializers
  BY DEF InStep
<1>2. s.running = NotRunning
  BY DEF isRunning
<1>3. s.queued = "none"
  BY DEF InStep
<1>4. \A t \in Save : s.tasks[t] = NoSave
  <2>1. NotRunning.save = 0
    BY DEF NotRunning
  <2> QED
    BY <2>1, <1>2 DEF InStep, Save
<1>5. s.tasks = [t \in Save |-> NoSave]
  BY <1>1, <1>4 DEF Sequentializers
<1>6. s = [running |-> s.running, queued |-> s.queued, tasks |-> s.tasks]
  BY <1>1 DEF Sequentializers
<1> QED
  BY <1>2, <1>3, <1>5, <1>6 DEF Idle

\* Calls of doSave.
LEMMA DoSaveInStep ==
  ASSUME InStep(saves, versionId), versionId \in Nat, NEW o \in Option, NEW f,
         NEW c, NEW st, Faithful(saves, versionId, c, st)
  PROVE  /\ InStep(doSave(saves, o, f), versionId)
         /\ Faithful(doSave(saves, o, f), versionId, c, st)
<1>1. CASE doSave(saves, o, f) = saves
  BY <1>1
<1>2. CASE ~isRunning(saves) /\ doSave(saves, o, f) = run(saves, o, versionId)
  <2>1. saves = Idle
    BY <1>2, NotRunningIsIdle
  <2> QED
    BY <1>2, <2>1, RunIdle DEF Faithful
<1>3. CASE /\ isRunning(saves) /\ saves.running.id # versionId
           /\ doSave(saves, o, f) = [cancelRunning(saves) EXCEPT !.queued = o]
  <2>1. PICK t \in Save : saves.tasks[t] # NoSave
    BY <1>3 DEF InStep
  <2>2. saves.running.save = t
    BY <2>1 DEF InStep
  <2> DEFINE d == [saves EXCEPT !.tasks[t].cancelled = TRUE]
             e == [d EXCEPT !.queued = o]
  <2>3. doSave(saves, o, f) = e
    BY <1>3, <2>2 DEF cancelRunning
  <2>4. InStep(e, versionId)
    BY <1>3, <2>1, CancelInStep
  <2>5. \A u \in Save : /\ e.tasks[u].phase = saves.tasks[u].phase
                        /\ e.tasks[u].inner = saves.tasks[u].inner
                        /\ e.tasks[u].content = saves.tasks[u].content
    <3>1. saves \in Sequentializers
      BY DEF InStep
    <3>2. d.tasks = [saves.tasks EXCEPT ![t] = [saves.tasks[t] EXCEPT !.cancelled = TRUE]]
      BY <3>1 DEF Sequentializers
    <3>3. e.tasks = d.tasks
      <4>1. d \in Sequentializers
        BY <2>1, CancelInStep DEF InStep
      <4> HIDE DEF d
      <4> QED
        BY <4>1 DEF Sequentializers
    <3> HIDE DEF d, e
    <3> QED
      BY <3>1, <3>2, <3>3 DEF Sequentializers, Tasks
  <2> HIDE DEF e
  <2> QED
    BY <2>3, <2>4, <2>5 DEF Faithful
<1> QED
  BY <1>1, <1>2, <1>3 DEF doSave

-----------------------------------------------------------------------------

Known == stored \cup excused

\* The numbers and phases of the pending resolve and revert fit together.
ResolveInv ==
  /\ resolving.phase = "none" => resolving = NoResolve
  /\ resolving.phase # "none" /\ resolving.by = "reload" => reloads > 0
  /\ resolving.phase # "none" /\ resolving.by = "revert" => reverting.phase = "resolving"
  /\ reverting.phase = "joining" => resolving.phase # "none" /\ resolving.by = "reload"
  /\ resolving.versionId <= versionId

\* What a copy may take for saved has been stored or given up.
ContentInv ==
  /\ file.content \in stored
  /\ flags.savedVersionId \in 1..Len(contents)
  /\ contents[flags.savedVersionId] \in Known
  /\ ~flags.dirty => shown \in Known
  /\ reverting.phase # "none" =>
       /\ shown \in Known
       /\ reverting.flags.savedVersionId \in 1..Len(contents)
       /\ contents[reverting.flags.savedVersionId] \in Known
  /\ resolving.phase # "none" /\ resolving.versionId = versionId => shown \in Known
  /\ resolving.phase = "update" => shown \in Known
  /\ resolving.phase \in {"read", "update"} => resolving.content \in stored

ErrorInv ==
  /\ ErrorMeansDirty
  /\ reverting.flags.inConflictMode \/ reverting.flags.inErrorMode => reverting.flags.dirty

Inv ==
  /\ TypeOK
  /\ InStep(saves, versionId)
  /\ Faithful(saves, versionId, shown, stored)
  /\ ResolveInv
  /\ ContentInv
  /\ ErrorInv

LEMMA InitInv == Init => Inv
<1> SUFFICES ASSUME Init PROVE Inv
  OBVIOUS
<1>1. saves = Idle
  BY DEF Init, Idle
<1>2. InStep(saves, versionId)
  BY <1>1, IdleInStep DEF Init
<1>3. flags \in Flags /\ reverting.flags = flags /\ reverting = [phase |-> "none", flags |-> flags]
  BY DEF Init, Flags, NoRevert
<1>4. TypeOK
  <2>1. contents \in Seq(Int) /\ version \in 1..Len(contents)
    BY DEF Init
  <2>2. resolving \in Resolves
    BY DEF Init, NoResolve, Resolves
  <2>3. reverting \in Reverts
    BY <1>3 DEF Reverts
  <2>4. file \in [content : Int, mtime : Nat]
    BY DEF Init
  <2>5. spent \in [Kind -> Nat]
    BY DEF Init
  <2>6. /\ versionId \in Nat /\ lastResolvedFileStat \in Nat /\ reloads \in 0..2
        /\ stored \subseteq Int /\ excused \subseteq Int /\ asked \in Nat
    BY DEF Init
  <2>7. undoneRecently \in BOOLEAN /\ changed \in BOOLEAN /\ raced \in BOOLEAN
    BY DEF Init
  <2>8. saves \in Sequentializers
    BY <1>2 DEF InStep
  <2> QED
    BY <1>3, <2>1, <2>2, <2>3, <2>4, <2>5, <2>6, <2>7, <2>8 DEF TypeOK
<1>5. Faithful(saves, versionId, shown, stored)
  BY <1>1 DEF Faithful, Idle, NoSave
<1>6. ResolveInv
  BY <1>3 DEF Init, ResolveInv, NoResolve
<1>7. ContentInv
  BY <1>3 DEF Init, ContentInv, NoResolve, shown, Known
<1>8. ErrorInv
  BY <1>3 DEF Init, ErrorInv, ErrorMeansDirty
<1> QED
  BY <1>2, <1>4, <1>5, <1>6, <1>7, <1>8 DEF Inv

\* Types of what the steps build.
LEMMA CleanType == ASSUME NEW v \in Nat PROVE clean(v) \in Flags /\ clean(v).savedVersionId = v
                     /\ ~clean(v).dirty /\ ~clean(v).inConflictMode /\ ~clean(v).inErrorMode
BY DEF clean, Flags

(***************************************************************************)
(* A change of the content, by the user or by undo: a version that was     *)
(* there keeps its content, and version v is shown.                        *)
(***************************************************************************)
LEMMA ChangeKeeps ==
  ASSUME Inv, contents' \in Seq(Int), Len(contents) <= Len(contents'),
         \A i \in 1..Len(contents) : contents'[i] = contents[i],
         NEW v \in 1..Len(contents'),
         onModelContentChanged(v), Excuse(contents'[v]), ForgetIfClean,
         undoneRecently' \in BOOLEAN,
         UNCHANGED <<lastResolvedFileStat, saves, resolving, reverting, disk, reloads, raced, spent>>
  PROVE  Inv'
<1> USE DEF Inv
<1>0. /\ Len(contents) \in Nat /\ Len(contents') \in Nat /\ contents'[v] \in Int /\ v \in Nat
  BY DEF TypeOK
<1>1. versionId' \in Nat /\ versionId' = versionId + 1 /\ versionId \in Nat /\ version' = v
  BY DEF onModelContentChanged, TypeOK
<1>2. flags \in Flags /\ flags' \in Flags
  <2>1. clean(v) \in Flags
    BY <1>0, CleanType
  <2>2. [flags EXCEPT !.dirty = TRUE] \in Flags /\ flags \in Flags
    BY DEF TypeOK, Flags
  <2> QED
    BY <2>1, <2>2 DEF onModelContentChanged
<1>3. excused \subseteq excused' /\ excused' \subseteq Int /\ asked' \in Nat
  BY <1>0 DEF Excuse, ForgetIfClean, TypeOK
<1>4. TypeOK'
  BY <1>1, <1>2, <1>3, <1>0 DEF TypeOK, disk
<1>5. InStep(saves', versionId')
  BY <1>1, InStepLater
<1>6. Faithful(saves', versionId', shown', stored')
  <2>1. \A t \in Save : saves.tasks[t].phase # "none" => saves.tasks[t].inner <= versionId /\ saves.tasks[t].inner \in Nat
    BY DEF InStep, Sequentializers, Tasks, NoSave
  <2> QED
    BY <2>1, <1>1 DEF Faithful, disk
<1>7. ResolveInv'
  BY <1>1 DEF ResolveInv, TypeOK, Resolves
<1>8. ErrorInv'
  <2>1. ErrorMeansDirty'
    BY <1>0, <1>2, CleanType DEF onModelContentChanged, ErrorInv, ErrorMeansDirty, Flags
  <2> QED
    BY <2>1 DEF ErrorInv
<1>9. ContentInv'
  <2>1. shown' = contents'[v] /\ Known \subseteq Known'
    BY <1>1, <1>3 DEF shown, Known, disk
  <2>2. ignoreDirtyOnModelContentChange \/ reverting.phase # "none" => shown' \in Known'
    BY <2>1 DEF Excuse, Known
  <2>3. flags'.savedVersionId \in 1..Len(contents') /\ contents'[flags'.savedVersionId] \in Known'
    <3>1. flags.savedVersionId \in 1..Len(contents') /\ contents'[flags.savedVersionId] \in Known'
      BY <2>1, <1>0 DEF ContentInv
    <3>2. flags'.savedVersionId = flags.savedVersionId
      BY <1>0, <1>2, CleanType DEF onModelContentChanged, Flags
    <3> QED
      BY <3>1, <3>2
  <2>4. ~flags'.dirty => shown' \in Known'
    <3>1. CASE ignoreDirtyOnModelContentChange
      BY <3>1, <2>2
    <3>2. CASE ~ignoreDirtyOnModelContentChange /\ v = flags.savedVersionId
      BY <3>2, <2>1, <1>0 DEF ContentInv
    <3>3. CASE ~ignoreDirtyOnModelContentChange /\ v # flags.savedVersionId
      BY <3>3, <1>2 DEF onModelContentChanged, Flags
    <3> QED
      BY <3>1, <3>2, <3>3
  <2>5. reverting.phase # "none" =>
          /\ reverting.flags.savedVersionId \in 1..Len(contents')
          /\ contents'[reverting.flags.savedVersionId] \in Known'
    BY <2>1, <1>0 DEF ContentInv
  <2>6. resolving.versionId # versionId'
    BY <1>1 DEF ResolveInv, TypeOK, Resolves
  <2> QED
    BY <2>1, <2>2, <2>3, <2>4, <2>5, <2>6 DEF ContentInv, disk, ignoreDirtyOnModelContentChange
<1> QED
  BY <1>4, <1>5, <1>6, <1>7, <1>8, <1>9

LEMMA EditKeeps == ASSUME Inv, edit PROVE Inv'
<1> DEFINE n == Len(contents) + 1
<1>1. /\ contents \in Seq(Int) /\ contents' = Append(contents, n)
      /\ Len(contents) \in Nat /\ n \in Int
  BY DEF Inv, TypeOK, edit
<1>2. /\ contents' \in Seq(Int) /\ Len(contents') = n /\ contents'[n] = n
      /\ \A i \in 1..Len(contents) : contents'[i] = contents[i]
  BY <1>1
<1>3. onModelContentChanged(n) /\ Excuse(contents'[n]) /\ ForgetIfClean
  BY <1>2 DEF edit
<1>4. undoneRecently' \in BOOLEAN
  BY DEF Inv, TypeOK, edit
<1> QED
  BY <1>1, <1>2, <1>3, <1>4, ChangeKeeps DEF edit

LEMMA UndoKeeps == ASSUME Inv, NEW v \in 1..Len(contents), undo(v) PROVE Inv'
<1>1. contents \in Seq(Int) /\ contents' = contents /\ Len(contents) \in Nat
  BY DEF Inv, TypeOK, undo
<1>2. undoneRecently' \in BOOLEAN
  BY DEF undo
<1>3. onModelContentChanged(v) /\ Excuse(contents'[v]) /\ ForgetIfClean
  BY <1>1 DEF undo
<1> QED
  BY <1>1, <1>2, <1>3, ChangeKeeps DEF undo

(***************************************************************************)
(* What a step of a save, or of another program, has to show.              *)
(***************************************************************************)
LEMMA SaveStepKeeps ==
  ASSUME Inv, UNCHANGED <<contents, version, versionId, resolving, reverting, reloads, excused>>,
         undoneRecently' \in BOOLEAN,
         InStep(saves', versionId), Faithful(saves', versionId, shown, stored'),
         flags' \in Flags,
         flags'.savedVersionId \in 1..Len(contents), contents[flags'.savedVersionId] \in Known,
         ~flags'.dirty => shown \in Known,
         flags'.inConflictMode \/ flags'.inErrorMode => flags'.dirty,
         lastResolvedFileStat' \in Nat,
         file' \in [content : Int, mtime : Nat], file'.content \in stored',
         stored \subseteq stored', stored' \subseteq Int, changed' \in BOOLEAN,
         asked' \in Nat, raced' \in BOOLEAN, spent' \in [Kind -> Nat]
  PROVE  Inv'
<1>1. TypeOK'
  BY DEF Inv, TypeOK, InStep
<1>2. InStep(saves', versionId') /\ Faithful(saves', versionId', shown', stored')
  BY DEF shown
<1>3. ResolveInv'
  BY DEF Inv, ResolveInv
<1>4. ErrorInv'
  BY DEF Inv, ErrorInv, ErrorMeansDirty
<1>5. ContentInv'
  <2>1. Known \subseteq Known' /\ shown' = shown
    BY DEF Known, shown
  <2> QED
    BY <2>1 DEF Inv, ContentInv
<1> QED
  BY <1>1, <1>2, <1>3, <1>4, <1>5 DEF Inv

\* What a step that leaves the flags, the disk and the ghosts alone can use.
LEMMA Facts ==
  ASSUME Inv
  PROVE  /\ flags \in Flags /\ flags.savedVersionId \in 1..Len(contents)
         /\ contents[flags.savedVersionId] \in Known
         /\ ~flags.dirty => shown \in Known
         /\ flags.inConflictMode \/ flags.inErrorMode => flags.dirty
         /\ lastResolvedFileStat \in Nat
         /\ file \in [content : Int, mtime : Nat] /\ file.content \in stored
         /\ stored \subseteq Int /\ changed \in BOOLEAN /\ asked \in Nat
         /\ raced \in BOOLEAN /\ spent \in [Kind -> Nat]
         /\ undoneRecently \in BOOLEAN /\ versionId \in Nat
         /\ InStep(saves, versionId) /\ Faithful(saves, versionId, shown, stored)
         /\ version \in 1..Len(contents) /\ Len(contents) \in Nat /\ shown \in Int
         /\ contents \in Seq(Int)
<1>1. contents \in Seq(Int) /\ version \in 1..Len(contents)
  BY DEF Inv, TypeOK
<1>2. Len(contents) \in Nat /\ shown \in Int
  BY <1>1 DEF shown
<1>3. flags.inConflictMode \/ flags.inErrorMode => flags.dirty
  BY DEF Inv, ErrorInv, ErrorMeansDirty
<1>4. /\ flags.savedVersionId \in 1..Len(contents)
      /\ contents[flags.savedVersionId] \in Known
      /\ ~flags.dirty => shown \in Known
      /\ file.content \in stored
  BY DEF Inv, ContentInv
<1> QED
  BY <1>1, <1>2, <1>3, <1>4 DEF Inv, TypeOK

LEMMA SpentType ==
  ASSUME spent \in [Kind -> Nat], NEW kind \in Kind, spent' = [spent EXCEPT ![kind] = @ + 1]
  PROVE  spent' \in [Kind -> Nat]
OBVIOUS

LEMMA PutType ==
  ASSUME Inv, NEW c \in Int, Put(c)
  PROVE  /\ file' \in [content : Int, mtime : Nat] /\ file'.content \in stored' /\ c \in stored'
         /\ stored \subseteq stored' /\ stored' \subseteq Int /\ changed' \in BOOLEAN
<1>1. file.mtime \in Nat
  BY Facts
<1> QED
  BY <1>1, Facts DEF Put

LEMMA UndoThresholdKeeps == ASSUME Inv, undoThresholdPasses PROVE Inv'
<1>1. undoneRecently' \in BOOLEAN
  BY DEF undoThresholdPasses
<1> QED
  BY <1>1, Facts, SaveStepKeeps DEF undoThresholdPasses, disk, ghosts

LEMMA SaveKeeps == ASSUME Inv, NEW o \in Option, save(o) PROVE Inv'
<1>1. InStep(saves', versionId) /\ Faithful(saves', versionId, shown, stored)
  BY Facts, DoSaveInStep DEF save
<1>2. spent' \in [Kind -> Nat]
  BY Facts, SpentType DEF save, Kind
<1>3. asked' \in Nat
  BY Facts DEF save
<1> QED
  BY <1>1, <1>2, <1>3, Facts, SaveStepKeeps DEF save, model, disk

\* A step that only moves save t on, to record k.
LEMMA MoveInStep ==
  ASSUME Inv, NEW t \in Save, saves.tasks[t] # NoSave, NEW k \in Tasks, k.phase # "none",
         k.outer = saves.tasks[t].outer, k.outer <= k.inner, k.inner <= versionId,
         Number(k) = Number(saves.tasks[t]),
         k.phase \in {"delay", "participants"} =>
           /\ saves.tasks[t].phase \in {"delay", "participants"}
           /\ saves.tasks[t].cancelled => k.cancelled,
         saves' = [saves EXCEPT !.tasks[t] = k]
  PROVE  /\ InStep(saves', versionId)
         /\ saves'.tasks[t] = k
         /\ \A u \in Save : u # t => saves'.tasks[u] = NoSave
<1>1. saves \in Sequentializers /\ InStep(saves, versionId)
  BY Facts DEF InStep
<1>2. /\ saves'.tasks = [saves.tasks EXCEPT ![t] = k]
      /\ saves'.running = saves.running /\ saves'.queued = saves.queued /\ saves' \in Sequentializers
  BY <1>1 DEF Sequentializers
<1>3. \A u \in Save : u # t => saves.tasks[u] = NoSave
  BY <1>1 DEF InStep
<1>4. saves'.tasks[t] = k /\ \A u \in Save : u # t => saves'.tasks[u] = NoSave
  BY <1>1, <1>2, <1>3 DEF Sequentializers
<1>5. k # NoSave
  BY DEF NoSave
<1>6. saves.running.id = Number(k) /\ saves.running.save = t
  BY <1>1 DEF InStep
<1>7. saves'.queued # "none" => isRunning(saves') /\ saves'.running.id < versionId
  BY <1>1, <1>2 DEF InStep, isRunning
<1>8. saves'.queued # "none" /\ k.phase \in {"delay", "participants"} => k.cancelled
  BY <1>1, <1>2 DEF InStep
<1>9. isRunning(saves') => \E u \in Save : saves'.tasks[u] # NoSave
  BY <1>4, <1>5
<1> QED
  BY <1>2, <1>4, <1>5, <1>6, <1>7, <1>8, <1>9, NoSaveType DEF InStep

\* The record of a save that is alive.
LEMMA Alive ==
  ASSUME Inv, NEW t \in Save, saves.tasks[t].phase # "none"
  PROVE  /\ saves.tasks[t] # NoSave /\ saves.tasks[t] \in Tasks
         /\ saves.tasks[t].outer \in Nat /\ saves.tasks[t].inner \in Nat
         /\ saves.tasks[t].outer <= saves.tasks[t].inner /\ saves.tasks[t].inner <= versionId
         /\ saves.tasks[t].content \in Int
<1>1. InStep(saves, versionId) /\ saves.tasks[t] # NoSave
  BY Facts DEF NoSave
<1>2. saves.tasks[t] \in Tasks
  BY <1>1 DEF InStep, Sequentializers
<1> QED
  BY <1>1, <1>2 DEF InStep, Tasks

\* A save that settles with flags f.
LEMMA EndsKeeps ==
  ASSUME Inv, NEW t \in Save, saves.tasks[t].phase # "none", NEW f, Ends(t, f),
         f \in Flags, f.savedVersionId \in 1..Len(contents), contents[f.savedVersionId] \in Known,
         ~f.dirty => shown \in Known,
         f.inConflictMode \/ f.inErrorMode => f.dirty,
         UNCHANGED <<model, resolving, reverting, reloads, excused>>,
         lastResolvedFileStat' \in Nat,
         file' \in [content : Int, mtime : Nat], file'.content \in stored',
         stored \subseteq stored', stored' \subseteq Int, changed' \in BOOLEAN,
         asked' \in Nat, raced' \in BOOLEAN, spent' \in [Kind -> Nat]
  PROVE  Inv'
<1>1. saves.tasks[t] # NoSave
  BY Alive
<1>2. /\ InStep(saves', versionId)
      /\ \A u \in Save : saves'.tasks[u].phase \in {"none", "delay", "participants"}
  BY <1>1, Facts, SettledInStep DEF Ends
<1>3. Faithful(saves', versionId, shown, stored')
  BY <1>2 DEF Faithful
<1>4. flags' = f
  BY DEF Ends
<1>5. undoneRecently' \in BOOLEAN
  BY Facts DEF model
<1> QED
  BY <1>2, <1>3, <1>4, <1>5, SaveStepKeeps DEF model

\* A step that moves save t on to record k and touches nothing else but the
\* ghosts.
LEMMA MoveKeeps ==
  ASSUME Inv, NEW t \in Save, saves.tasks[t].phase # "none", NEW k \in Tasks, k.phase # "none",
         k.outer = saves.tasks[t].outer, k.inner = saves.tasks[t].inner,
         Number(k) = Number(saves.tasks[t]),
         k.phase \in {"delay", "participants"} =>
           /\ saves.tasks[t].phase \in {"delay", "participants"}
           /\ saves.tasks[t].cancelled => k.cancelled,
         saves' = [saves EXCEPT !.tasks[t] = k],
         k.phase \in {"validate", "write", "stat"} => (k.inner = versionId => k.content = shown),
         k.phase = "stat" => k.content \in stored',
         UNCHANGED <<model, flags, lastResolvedFileStat, resolving, reverting, reloads, excused, raced>>,
         file' \in [content : Int, mtime : Nat], file'.content \in stored',
         stored \subseteq stored', stored' \subseteq Int, changed' \in BOOLEAN,
         asked' \in Nat, spent' \in [Kind -> Nat]
  PROVE  Inv'
<1>1. /\ InStep(saves', versionId) /\ saves'.tasks[t] = k
      /\ \A u \in Save : u # t => saves'.tasks[u] = NoSave
  BY Alive, MoveInStep
<1>2. Faithful(saves', versionId, shown, stored')
  BY <1>1 DEF Faithful, NoSave
<1> QED
  BY <1>1, <1>2, Facts, SaveStepKeeps DEF model

LEMMA CancelKeeps == ASSUME Inv, NEW t \in Save, cancel(t) PROVE Inv'
<1> DEFINE k == [saves.tasks[t] EXCEPT !.cancelled = TRUE]
<1>1. saves.tasks[t].phase # "none" /\ saves.tasks[t].phase \notin {"validate", "write", "stat"}
  BY DEF cancel
<1>2. saves.tasks[t] \in Tasks
  BY <1>1, Alive
<1>3. /\ k \in Tasks /\ k.phase = saves.tasks[t].phase
      /\ k.outer = saves.tasks[t].outer /\ k.inner = saves.tasks[t].inner /\ k.cancelled
  BY <1>2 DEF Tasks
<1>4. saves' = [saves EXCEPT !.tasks[t] = k]
  BY DEF cancel
<1>5. spent' \in [Kind -> Nat] /\ asked' \in Nat
  BY Facts, SpentType DEF cancel, Disturb, Kind
<1>6. Number(k) = Number(saves.tasks[t])
  BY <1>3 DEF Number
<1> HIDE DEF k
<1> QED
  BY <1>1, <1>3, <1>4, <1>5, <1>6, Facts, MoveKeeps DEF cancel, disk

LEMMA DelayEndsKeeps == ASSUME Inv, NEW t \in Save, delayEnds(t) PROVE Inv'
<1>1. saves.tasks[t].phase = "delay"
  BY DEF delayEnds
<1>2. CASE saves.tasks[t].cancelled
  BY <1>1, <1>2, Facts, EndsKeeps DEF delayEnds, disk, ghosts
<1>3. CASE ~saves.tasks[t].cancelled
  <2> DEFINE k == [saves.tasks[t] EXCEPT !.phase = "participants"]
  <2>1. saves.tasks[t] \in Tasks
    BY <1>1, Alive
  <2>2. /\ k \in Tasks /\ k.phase = "participants"
        /\ k.outer = saves.tasks[t].outer /\ k.inner = saves.tasks[t].inner
        /\ k.cancelled = saves.tasks[t].cancelled
    BY <2>1 DEF Tasks
  <2>3. saves' = [saves EXCEPT !.tasks[t] = k]
    BY <1>3 DEF delayEnds
  <2>4. Number(k) = Number(saves.tasks[t])
    BY <1>1, <2>2 DEF Number
  <2> HIDE DEF k
  <2> QED
    BY <1>1, <1>3, <2>2, <2>3, <2>4, Facts, MoveKeeps DEF delayEnds, disk, ghosts
<1> QED
  BY <1>2, <1>3

LEMMA ParticipantsEndKeeps == ASSUME Inv, NEW t \in Save, participantsEnd(t) PROVE Inv'
<1>1. saves.tasks[t].phase = "participants"
  BY DEF participantsEnd
<1>2. CASE saves.tasks[t].cancelled
  BY <1>1, <1>2, Facts, EndsKeeps DEF participantsEnd, disk, ghosts
<1>3. CASE ~saves.tasks[t].cancelled
  <2> DEFINE k == [saves.tasks[t] EXCEPT !.phase = "snapshot", !.inner = versionId,
                                         !.mtime = lastResolvedFileStat]
             T == [saves.tasks EXCEPT ![t] = k]
             R == [id |-> versionId, save |-> t]
  <2>0. versionId \in Nat /\ lastResolvedFileStat \in Nat /\ InStep(saves, versionId)
    BY Facts
  <2>1. saves.tasks[t] \in Tasks /\ saves \in Sequentializers /\ saves.tasks \in [Save -> Tasks]
    BY <1>1, <2>0, Alive DEF InStep, Sequentializers
  <2>2. /\ k \in Tasks /\ k.phase = "snapshot" /\ k.inner = versionId
        /\ k.outer = saves.tasks[t].outer
    BY <2>1, <2>0 DEF Tasks
  <2>3. saves' = [saves EXCEPT !.running = R, !.tasks = T]
    BY <1>3 DEF participantsEnd
  <2>4. T \in [Save -> Tasks] /\ T[t] = k /\ \A u \in Save : u # t => T[u] = saves.tasks[u]
    BY <2>1, <2>2
  <2>5. R \in [id : Nat, save : {0} \cup Save] /\ R.id = versionId /\ R.save = t /\ R # NotRunning
    BY <2>0 DEF Save, NotRunning
  <2> HIDE DEF k, T, R
  <2>6. saves'.running = R /\ saves'.tasks = T /\ saves'.queued = saves.queued /\ saves' \in Sequentializers
    BY <2>1, <2>3, <2>4, <2>5 DEF Sequentializers
  <2>7. \A u \in Save : u # t => saves.tasks[u] = NoSave
    BY <1>1, <2>0, Alive DEF InStep
  <2>8. saves.queued = "none"
    BY <1>1, <1>3, <2>0, Alive DEF InStep
  <2>9. InStep(saves', versionId)
    <3>1. k # NoSave /\ Number(k) = versionId
      BY <2>2 DEF NoSave, Number
    <3>2. k.outer <= k.inner
      BY <1>1, <2>2, <2>0, Alive
    <3> QED
      BY <2>0, <2>2, <2>4, <2>5, <2>6, <2>7, <2>8, <3>1, <3>2 DEF InStep, isRunning
  <2>10. Faithful(saves', versionId, shown, stored)
    BY <2>2, <2>4, <2>6, <2>7 DEF Faithful, NoSave
  <2>11. /\ flags' = [flags EXCEPT !.inErrorMode = FALSE] /\ flags' \in Flags
         /\ flags'.savedVersionId = flags.savedVersionId /\ flags'.dirty = flags.dirty
         /\ flags'.inConflictMode = flags.inConflictMode /\ ~flags'.inErrorMode
    BY <1>3, Facts DEF participantsEnd, Flags
  <2> QED
    BY <2>9, <2>10, <2>11, Facts, SaveStepKeeps DEF participantsEnd, model, disk, ghosts
<1> QED
  BY <1>2, <1>3

LEMMA SnapshotKeeps == ASSUME Inv, NEW t \in Save, snapshot(t) PROVE Inv'
<1>1. saves.tasks[t].phase = "snapshot"
  BY DEF snapshot
<1>2. CASE saves.tasks[t].cancelled
  BY <1>1, <1>2, Facts, EndsKeeps DEF snapshot, Ends, disk, ghosts
<1>3. CASE ~saves.tasks[t].cancelled
  <2> DEFINE k == [saves.tasks[t] EXCEPT !.phase = "validate", !.content = shown]
  <2>1. saves.tasks[t] \in Tasks
    BY <1>1, Alive
  <2>2. /\ k \in Tasks /\ k.phase = "validate" /\ k.content = shown
        /\ k.outer = saves.tasks[t].outer /\ k.inner = saves.tasks[t].inner
    BY <2>1, Facts DEF Tasks
  <2>3. saves' = [saves EXCEPT !.tasks[t] = k]
    BY <1>3 DEF snapshot
  <2>4. Number(k) = Number(saves.tasks[t])
    BY <1>1, <2>2 DEF Number
  <2> HIDE DEF k
  <2> QED
    BY <1>1, <2>2, <2>3, <2>4, Facts, MoveKeeps DEF snapshot, disk, ghosts
<1> QED
  BY <1>2, <1>3

\* The flags that handleSaveError sets.
LEMMA SaveErrorFlags ==
  ASSUME Inv, NEW conflict \in BOOLEAN, NEW f,
         f = [flags EXCEPT !.dirty = TRUE, !.inErrorMode = TRUE, !.inConflictMode = @ \/ conflict]
  PROVE  f \in Flags /\ f.savedVersionId = flags.savedVersionId /\ f.dirty
<1>1. flags \in Flags
  BY Facts
<1>2. (flags.inConflictMode \/ conflict) \in BOOLEAN
  OBVIOUS
<1> QED
  BY <1>1, <1>2 DEF Flags

LEMMA AnsweredType == ASSUME Inv, NEW t \in Save, Answered(t) PROVE asked' \in Nat
BY Facts DEF Answered

LEMMA ValidateKeeps == ASSUME Inv, NEW t \in Save, validateWriteFile(t) PROVE Inv'
<1>1. saves.tasks[t].phase = "validate"
  BY DEF validateWriteFile
<1>2. CASE handleSaveError(t, TRUE)
  <2> DEFINE f == [flags EXCEPT !.dirty = TRUE, !.inErrorMode = TRUE, !.inConflictMode = @ \/ TRUE]
  <2>1. Ends(t, f) /\ asked' \in Nat
    BY <1>2, AnsweredType DEF handleSaveError
  <2>2. f \in Flags /\ f.savedVersionId = flags.savedVersionId /\ f.dirty
    BY SaveErrorFlags
  <2> HIDE DEF f
  <2> QED
    BY <1>1, <2>1, <2>2, Facts, EndsKeeps DEF validateWriteFile, disk
<1>3. CASE saves' = [saves EXCEPT !.tasks[t].phase = "write"] /\ UNCHANGED <<flags, asked>>
  <2> DEFINE k == [saves.tasks[t] EXCEPT !.phase = "write"]
  <2>1. saves.tasks[t] \in Tasks
    BY <1>1, Alive
  <2>2. /\ k \in Tasks /\ k.phase = "write" /\ k.content = saves.tasks[t].content
        /\ k.outer = saves.tasks[t].outer /\ k.inner = saves.tasks[t].inner
    BY <2>1 DEF Tasks
  <2>3. saves' = [saves EXCEPT !.tasks[t] = k]
    BY <1>3
  <2>4. Number(k) = Number(saves.tasks[t])
    BY <1>1, <2>2 DEF Number
  <2>5. saves.tasks[t].inner = versionId => saves.tasks[t].content = shown
    BY <1>1, Facts DEF Faithful
  <2> HIDE DEF k
  <2> QED
    BY <1>1, <1>3, <2>2, <2>3, <2>4, <2>5, Facts, MoveKeeps DEF validateWriteFile, disk
<1> QED
  BY <1>2, <1>3 DEF validateWriteFile

LEMMA WriteKeeps == ASSUME Inv, NEW t \in Save, write(t) PROVE Inv'
<1> DEFINE k == [saves.tasks[t] EXCEPT !.phase = "stat"]
<1>1. saves.tasks[t].phase = "write" /\ saves.tasks[t] \in Tasks /\ saves.tasks[t].content \in Int
  BY Alive DEF write
<1>2. /\ k \in Tasks /\ k.phase = "stat" /\ k.content = saves.tasks[t].content
      /\ k.outer = saves.tasks[t].outer /\ k.inner = saves.tasks[t].inner
  BY <1>1 DEF Tasks
<1>3. saves' = [saves EXCEPT !.tasks[t] = k]
  BY DEF write
<1>4. Number(k) = Number(saves.tasks[t])
  BY <1>1, <1>2 DEF Number
<1>5. saves.tasks[t].inner = versionId => saves.tasks[t].content = shown
  BY <1>1, Facts DEF Faithful
<1>6. /\ file' \in [content : Int, mtime : Nat] /\ file'.content \in stored'
      /\ saves.tasks[t].content \in stored'
      /\ stored \subseteq stored' /\ stored' \subseteq Int /\ changed' \in BOOLEAN
  BY <1>1, PutType DEF write
<1> HIDE DEF k
<1> QED
  BY <1>1, <1>2, <1>3, <1>4, <1>5, <1>6, Facts, MoveKeeps DEF write, ghosts

LEMMA StatKeeps == ASSUME Inv, NEW t \in Save, stat(t) PROVE Inv'
<1>1. saves.tasks[t].phase = "stat"
  BY DEF stat
<1> DEFINE f == IF saves.tasks[t].inner = versionId THEN clean(version) ELSE flags
<1>2. Ends(t, f)
  BY DEF stat, handleSaveSuccess
<1>3. asked' \in Nat /\ lastResolvedFileStat' \in Nat
  <2>1. file.mtime \in Nat
    BY Facts
  <2> QED
    BY <2>1, Facts, AnsweredType DEF stat, handleSaveSuccess
<1>4. CASE saves.tasks[t].inner = versionId
  <2>1. shown \in Known
    BY <1>1, <1>4, Facts DEF Faithful, Known
  <2>2. f \in Flags /\ f.savedVersionId = version /\ ~f.dirty /\ ~f.inConflictMode /\ ~f.inErrorMode
    BY <1>4, CleanType, Facts
  <2>3. contents[version] \in Known
    BY <2>1 DEF shown
  <2> HIDE DEF f
  <2> QED
    BY <1>1, <1>2, <1>3, <2>1, <2>2, <2>3, Facts, EndsKeeps DEF stat, disk
<1>5. CASE saves.tasks[t].inner # versionId
  <2>1. f = flags
    BY <1>5
  <2> HIDE DEF f
  <2> QED
    BY <1>1, <1>2, <1>3, <2>1, Facts, EndsKeeps DEF stat, disk
<1> QED
  BY <1>4, <1>5

LEMMA FreshType == ASSUME Inv PROVE Fresh \in Int
BY Facts DEF Fresh

LEMMA SaveFailsKeeps == ASSUME Inv, NEW t \in Save, saveFails(t) PROVE Inv'
<1> DEFINE f == [flags EXCEPT !.dirty = TRUE, !.inErrorMode = TRUE, !.inConflictMode = @ \/ FALSE]
<1>1. saves.tasks[t].phase # "none"
  BY DEF saveFails
<1>2. Ends(t, f) /\ asked' \in Nat
  BY AnsweredType DEF handleSaveError, saveFails
<1>3. f \in Flags /\ f.savedVersionId = flags.savedVersionId /\ f.dirty
  BY SaveErrorFlags
<1>4. spent' \in [Kind -> Nat]
  BY Facts, SpentType DEF saveFails, Disturb, Kind
<1>5. /\ file' \in [content : Int, mtime : Nat] /\ file'.content \in stored'
      /\ stored \subseteq stored' /\ stored' \subseteq Int /\ changed' \in BOOLEAN
  BY Facts, FreshType, PutType DEF saveFails, disk
<1> HIDE DEF f
<1> QED
  BY <1>1, <1>2, <1>3, <1>4, <1>5, Facts, EndsKeeps DEF saveFails

LEMMA ExternalWriteKeeps == ASSUME Inv, externalWrite PROVE Inv'
<1>1. spent' \in [Kind -> Nat] /\ raced' \in BOOLEAN
  BY Facts, SpentType DEF externalWrite, Disturb, Kind
<1>2. /\ file' \in [content : Int, mtime : Nat] /\ file'.content \in stored'
      /\ stored \subseteq stored' /\ stored' \subseteq Int /\ changed' \in BOOLEAN
  BY FreshType, PutType DEF externalWrite
<1>3. Faithful(saves', versionId, shown, stored')
  BY <1>2, Facts DEF Faithful, externalWrite
<1> QED
  BY <1>1, <1>2, <1>3, Facts, SaveStepKeeps DEF externalWrite, model

-----------------------------------------------------------------------------
(* Resolving and reverting *)

LEMMA NoResolveType == NoResolve \in Resolves /\ NoResolve.phase = "none" /\ NoResolve.versionId = 0
BY DEF NoResolve, Resolves

\* A resolve starts only on a copy that is not dirty.
LEMMA ResolveStarts ==
  ASSUME Inv, NEW by \in {"reload", "revert"}, NEW f, NEW id \in Nat
  PROVE  /\ resolve(by, f, id) \in Resolves
         /\ \/ resolve(by, f, id) = NoResolve
            \/ /\ ~f.dirty
               /\ resolve(by, f, id).phase = "reading"
               /\ resolve(by, f, id).by = by
               /\ resolve(by, f, id).versionId = id
<1> DEFINE r == [phase |-> "reading", by |-> by, versionId |-> id, content |-> 0, mtime |-> lastResolvedFileStat]
<1>1. resolve(by, f, id) = NoResolve \/ (~f.dirty /\ resolve(by, f, id) = r)
  BY DEF resolve, forceReadFromFile
<1>2. r \in Resolves
  BY Facts DEF Resolves
<1> QED
  BY <1>1, <1>2, NoResolveType

(***************************************************************************)
(* What a step that starts, moves or ends a resolve has to show; it leaves *)
(* the saves and the file alone.                                           *)
(***************************************************************************)
LEMMA ResolveStepKeeps ==
  ASSUME Inv, UNCHANGED <<undoneRecently, saves, file, stored>>, changed' \in BOOLEAN,
         contents' \in Seq(Int), version' \in 1..Len(contents'),
         versionId' \in Nat, versionId <= versionId',
         Faithful(saves, versionId', shown', stored),
         flags' \in Flags, flags'.inConflictMode \/ flags'.inErrorMode => flags'.dirty,
         flags'.savedVersionId \in 1..Len(contents'), contents'[flags'.savedVersionId] \in Known',
         ~flags'.dirty => shown' \in Known',
         lastResolvedFileStat' \in Nat, excused' \subseteq Int,
         asked' \in Nat, raced' \in BOOLEAN, spent' \in [Kind -> Nat],
         reloads' \in 0..2, resolving' \in Resolves, reverting' \in Reverts, ResolveInv',
         reverting'.flags.inConflictMode \/ reverting'.flags.inErrorMode => reverting'.flags.dirty,
         reverting'.phase # "none" =>
           /\ shown' \in Known'
           /\ reverting'.flags.savedVersionId \in 1..Len(contents')
           /\ contents'[reverting'.flags.savedVersionId] \in Known',
         resolving'.phase # "none" /\ resolving'.versionId = versionId' => shown' \in Known',
         resolving'.phase = "update" => shown' \in Known',
         resolving'.phase \in {"read", "update"} => resolving'.content \in stored
  PROVE  Inv'
<1>1. TypeOK'
  BY Facts DEF Inv, TypeOK
<1>2. InStep(saves', versionId')
  BY Facts, InStepLater
<1>3. Faithful(saves', versionId', shown', stored')
  OBVIOUS
<1>4. ContentInv'
  BY Facts DEF ContentInv
<1>5. ErrorInv'
  BY DEF ErrorInv, ErrorMeansDirty
<1> QED
  BY <1>1, <1>2, <1>3, <1>4, <1>5 DEF Inv

\* What the pending resolve and revert give the steps below.
LEMMA ResolveFacts ==
  ASSUME Inv
  PROVE  /\ resolving \in Resolves /\ reverting \in Reverts /\ reloads \in 0..2
         /\ ResolveInv
         /\ reverting.flags \in Flags
         /\ reverting.flags.inConflictMode \/ reverting.flags.inErrorMode => reverting.flags.dirty
         /\ reverting.phase # "none" =>
              /\ shown \in Known
              /\ reverting.flags.savedVersionId \in 1..Len(contents)
              /\ contents[reverting.flags.savedVersionId] \in Known
         /\ resolving.phase # "none" /\ resolving.versionId = versionId => shown \in Known
         /\ resolving.phase = "update" => shown \in Known
         /\ resolving.phase \in {"read", "update"} => resolving.content \in stored
         /\ excused \subseteq Int
<1>1. resolving \in Resolves /\ reverting \in Reverts /\ reloads \in 0..2 /\ excused \subseteq Int
  BY DEF Inv, TypeOK
<1>2. reverting.flags \in Flags
  BY <1>1 DEF Reverts
<1> QED
  BY <1>1, <1>2 DEF Inv, ContentInv, ErrorInv

\* The pending resolve moves on to record r.
LEMMA ResolveMovesKeeps ==
  ASSUME Inv, resolving.phase # "none", NEW r \in Resolves, resolving' = r,
         r.phase # "none", r.by = resolving.by, r.versionId = resolving.versionId,
         r.phase = "update" => shown \in Known,
         r.phase \in {"read", "update"} => r.content \in stored,
         lastResolvedFileStat' \in Nat,
         UNCHANGED <<model, saves, disk, ghosts, flags, reverting, reloads>>
  PROVE  Inv'
<1>1. shown' = shown /\ Known' = Known
  BY DEF shown, Known, model, disk, ghosts
<1>2. ResolveInv'
  BY ResolveFacts DEF ResolveInv, model
<1> QED
  BY <1>1, <1>2, Facts, ResolveFacts, ResolveStepKeeps DEF model, disk, ghosts

\* ResolveEnds, whether it failed or not.
ResolveEnded(f, id) ==
  /\ reloads' = IF resolving.by = "reload" THEN reloads - 1 ELSE reloads
  /\ resolving' = IF reverting.phase = "joining" THEN resolve("revert", f, id) ELSE NoResolve
  /\ reverting' = IF reverting.phase = "joining" /\ resolve("revert", f, id) # NoResolve
                  THEN [reverting EXCEPT !.phase = "resolving"]
                  ELSE NoRevert(clean(1))
  /\ flags' = f \/ (resolving.by = "revert" /\ flags' = reverting.flags)

(***************************************************************************)
(* The pending resolve ends with flags f, the content being contents'.     *)
(***************************************************************************)
LEMMA ResolveEndsKeeps ==
  ASSUME Inv, resolving.phase # "none", NEW f \in Flags,
         ResolveEnded(f, versionId'),
         f.inConflictMode \/ f.inErrorMode => f.dirty,
         f.savedVersionId \in 1..Len(contents'), contents'[f.savedVersionId] \in Known,
         ~f.dirty => shown' \in Known,
         reverting.phase # "none" => shown' \in Known,
         contents' \in Seq(Int), Len(contents) <= Len(contents'),
         \A i \in 1..Len(contents) : contents'[i] = contents[i],
         version' \in 1..Len(contents'),
         versionId' \in Nat, versionId <= versionId',
         Faithful(saves, versionId', shown', stored),
         UNCHANGED <<undoneRecently, saves, disk, excused>>,
         lastResolvedFileStat' \in Nat,
         asked' \in Nat, raced' \in BOOLEAN, spent' \in [Kind -> Nat]
  PROVE  Inv'
<1> DEFINE next == resolve("revert", f, versionId')
<1>1. /\ next \in Resolves
      /\ next = NoResolve \/ (~f.dirty /\ next.phase = "reading" /\ next.by = "revert" /\ next.versionId = versionId')
  BY ResolveStarts
<1>2. Len(contents) \in Nat /\ Len(contents') \in Nat /\ versionId \in Nat
  BY Facts
<1>3. Known' = Known
  BY DEF Known, disk
<1>4. ASSUME reverting.phase # "none"
      PROVE  /\ reverting.flags.savedVersionId \in 1..Len(contents')
             /\ contents'[reverting.flags.savedVersionId] \in Known
  <2>1. /\ reverting.flags.savedVersionId \in 1..Len(contents)
        /\ contents[reverting.flags.savedVersionId] \in Known
    BY <1>4, ResolveFacts
  <2>2. contents'[reverting.flags.savedVersionId] = contents[reverting.flags.savedVersionId]
    BY <2>1
  <2> QED
    BY <2>1, <2>2, <1>2
<1>5. /\ flags' \in Flags /\ (flags'.inConflictMode \/ flags'.inErrorMode => flags'.dirty)
      /\ flags'.savedVersionId \in 1..Len(contents') /\ contents'[flags'.savedVersionId] \in Known
      /\ ~flags'.dirty => shown' \in Known
  <2>1. CASE flags' = reverting.flags /\ resolving.by = "revert"
    <3>1. reverting.phase = "resolving"
      BY <2>1, ResolveFacts DEF ResolveInv
    <3> QED
      BY <2>1, <3>1, <1>4, ResolveFacts
  <2>2. CASE flags' = f
    BY <2>2
  <2> QED
    BY <2>1, <2>2 DEF ResolveEnded
<1>6. reloads' \in 0..2
  BY ResolveFacts DEF ResolveEnded, ResolveInv
<1> HIDE DEF next
<1>7. CASE reverting.phase = "joining" /\ next # NoResolve
  <2>1. resolving' = next /\ reverting' = [reverting EXCEPT !.phase = "resolving"]
    BY <1>7 DEF ResolveEnded, next
  <2>2. reverting' \in Reverts /\ reverting'.phase = "resolving" /\ reverting'.flags = reverting.flags
    BY <2>1, ResolveFacts DEF Reverts
  <2>3. /\ resolving' \in Resolves /\ resolving'.phase = "reading"
        /\ resolving'.by = "revert" /\ resolving'.versionId = versionId'
    BY <2>1, <1>1, <1>7
  <2>4. ResolveInv'
    BY <2>2, <2>3 DEF ResolveInv
  <2>5. shown' \in Known
    BY <1>7
  <2> QED
    BY <1>3, <1>4, <1>5, <1>6, <1>7, <2>2, <2>3, <2>4, <2>5, Facts, ResolveFacts, ResolveStepKeeps DEF disk
<1>8. CASE ~(reverting.phase = "joining" /\ next # NoResolve)
  <2>1. resolving' = NoResolve /\ reverting' = NoRevert(clean(1))
    BY <1>8 DEF ResolveEnded, next
  <2>2. reverting' = [phase |-> "none", flags |-> clean(1)]
    BY <2>1 DEF NoRevert
  <2>3. /\ reverting' \in Reverts /\ reverting'.phase = "none"
        /\ ~reverting'.flags.inConflictMode /\ ~reverting'.flags.inErrorMode
    BY <2>2, CleanType DEF Reverts
  <2>4. resolving' \in Resolves /\ resolving'.phase = "none" /\ resolving'.versionId = 0
    BY <2>1, NoResolveType
  <2>5. ResolveInv'
    BY <2>1, <2>3, <2>4 DEF ResolveInv
  <2> QED
    BY <1>3, <1>5, <1>6, <2>3, <2>4, <2>5, Facts, ResolveFacts, ResolveStepKeeps DEF disk
<1> QED
  BY <1>7, <1>8

LEMMA ReadFileKeeps == ASSUME Inv, readFile PROVE Inv'
<1>0. resolving.phase = "reading"
  BY DEF readFile
<1>1. CASE ResolveEnds(FALSE, flags, versionId)
  <2>1. UNCHANGED <<contents, version, versionId, undoneRecently, saves, disk, excused, asked, raced, spent, lastResolvedFileStat>>
    BY DEF readFile, model, ghosts
  <2>2. shown' = shown
    BY <2>1 DEF shown
  <2>3. ResolveEnded(flags, versionId')
    BY <1>1, <2>1 DEF ResolveEnds, ResolveEnded
  <2>4. Faithful(saves, versionId', shown', stored)
    BY <2>1, <2>2, Facts
  <2>5. reverting.phase # "none" => shown' \in Known
    BY <2>2, ResolveFacts
  <2> QED
    BY <1>0, <2>1, <2>2, <2>3, <2>4, <2>5, Facts, ResolveEndsKeeps
<1>2. CASE /\ resolving' = [resolving EXCEPT !.phase = "read", !.mtime = file.mtime, !.content = file.content]
           /\ UNCHANGED <<flags, reverting, reloads>>
  <2>1. file.mtime \in Nat /\ file.content \in Int
    BY Facts
  <2>2. /\ resolving' \in Resolves /\ resolving'.phase = "read" /\ resolving'.by = resolving.by
        /\ resolving'.versionId = resolving.versionId /\ resolving'.content = file.content
    BY <1>2, <2>1, ResolveFacts DEF Resolves
  <2> QED
    BY <1>0, <1>2, <2>2, Facts, ResolveMovesKeeps DEF readFile
<1> QED
  BY <1>1, <1>2 DEF readFile

LEMMA ResolveFromContentKeeps == ASSUME Inv, resolveFromContent PROVE Inv'
<1>0. resolving.phase = "read"
  BY DEF resolveFromContent
<1>1. CASE resolving.versionId # versionId
  <2>1. UNCHANGED <<contents, version, versionId, undoneRecently, saves, disk, excused, asked, raced, spent, lastResolvedFileStat>>
    BY <1>1 DEF resolveFromContent, model, ghosts
  <2>2. shown' = shown
    BY <2>1 DEF shown
  <2>3. ResolveEnded(flags, versionId')
    BY <1>1, <2>1 DEF resolveFromContent, ResolveEnds, ResolveEnded
  <2>4. Faithful(saves, versionId', shown', stored)
    BY <2>1, <2>2, Facts
  <2>5. reverting.phase # "none" => shown' \in Known
    BY <2>2, ResolveFacts
  <2> QED
    BY <1>0, <2>1, <2>2, <2>3, <2>4, <2>5, Facts, ResolveEndsKeeps
<1>2. CASE resolving.versionId = versionId
  <2>1. /\ resolving' \in Resolves /\ resolving'.phase = "update" /\ resolving'.by = resolving.by
        /\ resolving'.versionId = resolving.versionId /\ resolving'.content = resolving.content
    BY <1>2, ResolveFacts DEF Resolves, resolveFromContent
  <2>2. resolving.mtime \in Nat
    BY ResolveFacts DEF Resolves
  <2>3. lastResolvedFileStat' \in Nat
    BY <1>2, <2>2, Facts DEF resolveFromContent
  <2>4. shown \in Known
    BY <1>0, <1>2, ResolveFacts
  <2>5. resolving.content \in stored
    BY <1>0, ResolveFacts
  <2> QED
    BY <1>0, <1>2, <2>1, <2>3, <2>4, <2>5, ResolveMovesKeeps DEF resolveFromContent
<1> QED
  BY <1>1, <1>2

LEMMA UpdateModelKeeps == ASSUME Inv, updateModel PROVE Inv'
<1> DEFINE n == Len(contents) + 1
<1>0. resolving.phase = "update" /\ ResolveEnded(clean(n), versionId')
  BY DEF updateModel, ResolveEnds, ResolveEnded
<1>1. PICK c \in {resolving.content, file.content} : contents' = Append(contents, c)
  BY DEF updateModel
<1>2. c \in stored /\ c \in Int
  BY <1>0, Facts, ResolveFacts
<1>3. contents \in Seq(Int) /\ Len(contents) \in Nat
  BY Facts
<1>4. /\ contents' \in Seq(Int) /\ Len(contents') = n /\ contents'[n] = c
      /\ \A i \in 1..Len(contents) : contents'[i] = contents[i]
  BY <1>1, <1>2, <1>3
<1>5. version' = n /\ shown' = c
  BY <1>4 DEF updateModel, shown
<1>6. versionId' = versionId + 1 /\ versionId \in Nat
  BY Facts DEF updateModel
<1>7. Faithful(saves, versionId', shown', stored)
  <2>1. \A t \in Save : saves.tasks[t].phase # "none" => saves.tasks[t].inner # versionId'
    BY <1>6, Alive
  <2>2. \A t \in Save : saves.tasks[t].phase = "stat" => saves.tasks[t].content \in stored
    BY Facts DEF Faithful
  <2> QED
    BY <2>1, <2>2 DEF Faithful
<1>8. clean(n) \in Flags /\ clean(n).savedVersionId = n /\ ~clean(n).inConflictMode /\ ~clean(n).inErrorMode
  BY <1>3, CleanType
<1>9. shown' \in Known /\ contents'[n] \in Known
  BY <1>2, <1>4, <1>5 DEF Known
<1>10. asked' \in Nat
  BY DEF updateModel
<1> HIDE DEF n
<1>11. Len(contents) <= Len(contents') /\ n \in 1..Len(contents')
  BY <1>3, <1>4 DEF n
<1>12. /\ UNCHANGED <<undoneRecently, saves, disk, excused>>
       /\ lastResolvedFileStat' \in Nat /\ raced' \in BOOLEAN /\ spent' \in [Kind -> Nat]
  BY Facts DEF updateModel
<1>13. versionId' \in Nat /\ versionId <= versionId' /\ version' \in 1..Len(contents')
  BY <1>5, <1>6, <1>11
<1>14. resolving.phase # "none"
  BY <1>0
<1> DEFINE f == clean(n)
<1> HIDE DEF f
<1>15. /\ f \in Flags /\ f.savedVersionId \in 1..Len(contents') /\ contents'[f.savedVersionId] \in Known
       /\ (f.inConflictMode \/ f.inErrorMode => f.dirty) /\ ResolveEnded(f, versionId')
  BY <1>0, <1>8, <1>9, <1>11 DEF f
<1> QED
  BY <1>4, <1>7, <1>9, <1>10, <1>11, <1>12, <1>13, <1>14, <1>15, ResolveEndsKeeps

LEMMA ResolveFailsKeeps == ASSUME Inv, resolveFails PROVE Inv'
<1>0. resolving.phase # "none" /\ ResolveEnds(TRUE, flags, versionId)
  BY DEF resolveFails
<1>1. UNCHANGED <<contents, version, versionId, undoneRecently, saves, disk, excused, lastResolvedFileStat>>
  BY DEF resolveFails, model
<1>2. shown' = shown
  BY <1>1 DEF shown
<1>3. asked' \in Nat /\ raced' \in BOOLEAN /\ spent' \in [Kind -> Nat]
  BY Facts, SpentType DEF resolveFails, ForgetIfClean, Disturb, Kind
<1>4. ResolveEnded(flags, versionId')
  BY <1>0, <1>1 DEF ResolveEnds, ResolveEnded
<1>5. Faithful(saves, versionId', shown', stored)
  BY <1>1, <1>2, Facts
<1>6. reverting.phase # "none" => shown' \in Known
  BY <1>2, ResolveFacts
<1> QED
  BY <1>0, <1>1, <1>2, <1>3, <1>4, <1>5, <1>6, Facts, ResolveEndsKeeps

LEMMA OnDidFilesChangeKeeps == ASSUME Inv, onDidFilesChange PROVE Inv'
<1>1. reloads' \in 0..2 /\ reloads <= reloads'
  BY ResolveFacts DEF onDidFilesChange, queueWorkingCopyReload
<1>2. shown' = shown /\ Known' = Known
  BY DEF onDidFilesChange, shown, Known, model, ghosts
<1>3. ResolveInv'
  BY <1>1, ResolveFacts DEF ResolveInv, onDidFilesChange, model
<1>4. changed' \in BOOLEAN
  BY DEF onDidFilesChange
<1> QED
  BY <1>1, <1>2, <1>3, <1>4, Facts, ResolveFacts, ResolveStepKeeps DEF onDidFilesChange, model, ghosts

LEMMA ReloadKeeps == ASSUME Inv, reload PROVE Inv'
<1>1. /\ resolving' \in Resolves
      /\ resolving' = NoResolve \/ (~flags.dirty /\ resolving'.phase = "reading" /\ resolving'.by = "reload"
                                     /\ resolving'.versionId = versionId)
  BY Facts, ResolveStarts DEF reload
<1>2. reloads' \in 0..2 /\ (resolving' # NoResolve => reloads' > 0)
  BY ResolveFacts DEF reload
<1>3. shown' = shown /\ Known' = Known
  BY DEF reload, shown, Known, model, disk, ghosts
<1>4. reverting' = reverting /\ reverting.phase # "joining"
  BY ResolveFacts, NoResolveType DEF ResolveInv, reload
<1>5. ResolveInv'
  BY <1>1, <1>2, <1>4, Facts, NoResolveType DEF ResolveInv, reload, model
<1>6. resolving'.phase # "none" => resolving'.phase = "reading" /\ ~flags.dirty
  BY <1>1, NoResolveType
<1> QED
  BY <1>1, <1>2, <1>3, <1>5, <1>6, Facts, ResolveFacts, ResolveStepKeeps DEF reload, model, disk, ghosts

LEMMA RevertKeeps == ASSUME Inv, NEW force \in BOOLEAN, NEW soft \in BOOLEAN, revert(force, soft) PROVE Inv'
<1>1. spent' \in [Kind -> Nat] /\ asked' \in Nat /\ reverting.phase = "none"
  BY Facts, SpentType DEF revert, Disturb, Kind
<1>2. shown' = shown /\ shown \in Known' /\ Known \subseteq Known' /\ excused' \subseteq Int
  BY Facts, ResolveFacts DEF revert, shown, Known, model, disk
<1>3. /\ flags' = clean(version) /\ flags' \in Flags /\ flags'.savedVersionId = version
      /\ ~flags'.inConflictMode /\ ~flags'.inErrorMode
  BY Facts, CleanType DEF revert
<1>4. contents'[version] \in Known'
  BY <1>2 DEF shown, revert, model
<1>5. /\ resolving' \in Resolves
      /\ \/ resolving' = resolving
         \/ /\ resolving'.phase = "reading"
            /\ resolving'.by = "revert" /\ resolving'.versionId = versionId
      /\ \/ reverting' = reverting /\ resolving' = resolving
         \/ /\ reverting' = [phase |-> "joining", flags |-> flags]
            /\ resolving' = resolving /\ resolving # NoResolve
         \/ /\ reverting' = [phase |-> "resolving", flags |-> flags]
            /\ resolving'.phase = "reading"
            /\ resolving'.by = "revert" /\ resolving'.versionId = versionId
  BY Facts, ResolveFacts, ResolveStarts DEF revert
<1>6. reverting' \in Reverts
  BY <1>5, Facts, ResolveFacts DEF Reverts
<1>7. /\ reverting'.phase = "none" => reverting' = reverting /\ resolving' = resolving
      /\ reverting'.phase # "none" => reverting'.flags = flags
      /\ reverting'.phase = "joining" => resolving' = resolving /\ resolving # NoResolve
      /\ reverting'.phase = "resolving" => resolving'.phase = "reading" /\ resolving'.by = "revert" /\ resolving'.versionId = versionId
  BY <1>1, <1>5
<1>8. ResolveInv'
  <2>1. versionId' = versionId /\ reloads' = reloads /\ versionId \in Nat
    BY Facts DEF revert, model
  <2>2. ResolveInv
    BY ResolveFacts
  <2>3. CASE reverting'.phase = "none"
    BY <2>1, <2>2, <2>3, <1>7 DEF ResolveInv
  <2>4. CASE reverting'.phase = "joining"
    <3>1. resolving' = resolving /\ resolving.phase # "none"
      BY <2>2, <2>4, <1>7 DEF ResolveInv
    <3>2. resolving.by = "reload"
      BY <3>1, <2>2, <1>1, ResolveFacts DEF ResolveInv, Resolves
    <3> QED
      BY <2>1, <2>2, <2>4, <3>1, <3>2 DEF ResolveInv
  <2>5. CASE reverting'.phase = "resolving"
    BY <2>1, <2>5, <1>7 DEF ResolveInv
  <2> QED
    BY <2>3, <2>4, <2>5, <1>6 DEF Reverts
<1>9. /\ resolving'.phase = "update" => resolving.phase = "update"
      /\ resolving'.phase \in {"read", "update"} => resolving.phase \in {"read", "update"} /\ resolving'.content = resolving.content
  BY <1>5
<1>10. /\ reverting'.flags.inConflictMode \/ reverting'.flags.inErrorMode => reverting'.flags.dirty
  BY <1>7, Facts, ResolveFacts
<1>11. contents' = contents /\ version' = version /\ versionId' = versionId
  BY DEF revert, model
<1> QED
  BY <1>1, <1>2, <1>3, <1>4, <1>5, <1>6, <1>7, <1>8, <1>9, <1>10, <1>11, Facts, ResolveFacts, ResolveStepKeeps
     DEF revert, model, disk

LEMMA StutterKeeps == ASSUME Inv, UNCHANGED vars PROVE Inv'
<1>1. UNCHANGED <<contents, version, versionId, resolving, reverting, reloads, excused, undoneRecently,
                  saves, flags, lastResolvedFileStat, file, stored, changed, asked, raced, spent>>
  BY DEF vars, model, disk, ghosts
<1> QED
  BY <1>1, Facts, SaveStepKeeps

LEMMA NextInv == Inv /\ [Next]_vars => Inv'
<1> SUFFICES ASSUME Inv, [Next]_vars PROVE Inv'
  OBVIOUS
<1>1. CASE edit
  BY <1>1, EditKeeps
<1>2. CASE \E v \in 1..Len(contents) : undo(v)
  BY <1>2, UndoKeeps
<1>3. CASE undoThresholdPasses
  BY <1>3, UndoThresholdKeeps
<1>4. CASE \E o \in Option : save(o)
  BY <1>4, SaveKeeps
<1>5. ASSUME NEW t \in Save, cancel(t) \/ SaveStep(t) \/ saveFails(t) PROVE Inv'
  BY <1>5, CancelKeeps, DelayEndsKeeps, ParticipantsEndKeeps, SnapshotKeeps, ValidateKeeps, WriteKeeps,
     StatKeeps, SaveFailsKeeps DEF SaveStep
<1>6. CASE ResolveStep \/ resolveFails
  BY <1>6, ReadFileKeeps, ResolveFromContentKeeps, UpdateModelKeeps, ResolveFailsKeeps DEF ResolveStep
<1>7. CASE onDidFilesChange \/ reload \/ externalWrite
  BY <1>7, OnDidFilesChangeKeeps, ReloadKeeps, ExternalWriteKeeps
<1>8. CASE \E force, soft \in BOOLEAN : revert(force, soft)
  BY <1>8, RevertKeeps
<1>9. CASE UNCHANGED vars
  BY <1>9, StutterKeeps
<1> QED
  BY <1>1, <1>2, <1>3, <1>4, <1>5, <1>6, <1>7, <1>8, <1>9 DEF Next

LEMMA InvAlways == Spec => []Inv
BY InitInv, NextInv, PTL DEF Spec

\* Every variable keeps its type; in particular the reload queue never holds
\* more than one running and one waiting reload.
THEOREM TypeCorrect == Spec => []TypeOK
<1>1. Inv => TypeOK
  BY DEF Inv
<1> QED
  BY <1>1, InvAlways, PTL

\* However often a save is asked for, cancelled, queued and renumbered after
\* its participants, at most one is alive and the sequentializer knows it.
THEOREM SavesNeverOverlap == Spec => []OneSaveAtATime
<1>1. Inv => OneSaveAtATime
  <2> SUFFICES ASSUME Inv PROVE OneSaveAtATime
    OBVIOUS
  <2>1. \A t \in Save : saves.tasks[t] # NoSave => saves.running.save = t
    BY Facts DEF InStep
  <2> QED
    BY <2>1 DEF OneSaveAtATime
<1> QED
  BY <1>1, InvAlways, PTL

\* A copy that stops being dirty, through a save, an undo, a reload or a
\* revert, shows what has been on disk or was given up.
THEOREM CleanCopiesWereStored == Spec => []CleanWasStored
<1>1. Inv => CleanWasStored
  BY Facts DEF CleanWasStored, Known
<1> QED
  BY <1>1, InvAlways, PTL

\* No save, resolve or revert, failed or not, leaves a copy in conflict or
\* error mode that is not dirty.
THEOREM ErrorsKeepDirty == Spec => []ErrorMeansDirty
<1>1. Inv => ErrorMeansDirty
  BY Facts DEF ErrorMeansDirty
<1> QED
  BY <1>1, InvAlways, PTL

-----------------------------------------------------------------------------
(***************************************************************************)
(* Dirty write prevention.  The stat a copy holds is at most that of the   *)
(* file, and while it is that of the file the copy has held the content,   *)
(* or is about to; so a save that was validated against it replaces a      *)
(* content that was seen.                                                  *)
(***************************************************************************)

\* One of the versions cs had content c.
SeenIn(cs, c) == \E v \in 1..Len(cs) : cs[v] = c

StatsSeen ==
  /\ lastResolvedFileStat <= file.mtime
  /\ lastResolvedFileStat = file.mtime /\ ~raced =>
       \/ SeenIn(contents, file.content)
       \/ resolving.phase = "update" /\ resolving.mtime = file.mtime
  /\ resolving.phase \in {"read", "update"} =>
       /\ resolving.mtime <= file.mtime
       /\ resolving.mtime = file.mtime => resolving.content = file.content

SaveSeen(k) ==
  /\ k.phase \in {"snapshot", "validate"} => k.mtime <= lastResolvedFileStat
  /\ k.phase \in {"validate", "write"} => SeenIn(contents, k.content)
  /\ k.phase = "write" /\ k.option # "overwrite" /\ preventSaveConflicts /\ ~raced =>
       lastResolvedFileStat = file.mtime
  /\ k.phase = "stat" /\ ~raced => SeenIn(contents, file.content)

SavesSeen == \A t \in Save : SaveSeen(saves.tasks[t])
SeenInv == StatsSeen /\ SavesSeen

Early == {"none", "delay", "participants"}

\* Versions are only ever added.
Grows ==
  /\ Len(contents) <= Len(contents')
  /\ \A i \in 1..Len(contents) : contents'[i] = contents[i]

LEMMA SeenGrows ==
  ASSUME Inv, Grows, Len(contents') \in Nat, NEW c, SeenIn(contents, c)
  PROVE  SeenIn(contents', c)
<1>1. PICK v \in 1..Len(contents) : contents[v] = c
  BY DEF SeenIn
<1>2. v \in 1..Len(contents') /\ contents'[v] = c
  BY <1>1, Facts DEF Grows
<1> QED
  BY <1>2 DEF SeenIn

LEMMA SameGrows == ASSUME Inv, contents' = contents PROVE Grows /\ Len(contents') \in Nat
BY Facts DEF Grows

LEMMA SeenTypes ==
  ASSUME Inv
  PROVE  /\ lastResolvedFileStat \in Nat /\ file.mtime \in Nat /\ raced \in BOOLEAN
         /\ resolving.mtime \in Nat /\ resolving \in Resolves
         /\ \A t \in Save : saves.tasks[t] \in Tasks /\ saves.tasks[t].mtime \in Nat
<1>1. \A t \in Save : saves.tasks[t] \in Tasks
  BY Facts DEF InStep, Sequentializers
<1> QED
  BY <1>1, Facts, ResolveFacts DEF Resolves, Tasks

\* A step that leaves the stats alone; a model update that ends here failed.
LEMMA StatsKept ==
  ASSUME Inv, StatsSeen, Grows, Len(contents') \in Nat,
         UNCHANGED <<lastResolvedFileStat, file>>,
         raced' = raced \/ raced',
         \/ UNCHANGED resolving
         \/ /\ resolving'.phase \in {"none", "reading"}
            /\ resolving.phase = "update" => raced'
  PROVE  StatsSeen'
<1>1. ~raced' => ~raced
  OBVIOUS
<1>2. SeenIn(contents, file.content) => SeenIn(contents', file.content)
  BY SeenGrows
<1> QED
  BY <1>1, <1>2 DEF StatsSeen

\* A write to the file leaves every stat behind.
LEMMA StatsPut ==
  ASSUME Inv, StatsSeen, NEW c, Put(c), UNCHANGED <<lastResolvedFileStat, resolving>>
  PROVE  StatsSeen'
<1>1. file'.mtime = file.mtime + 1
  BY DEF Put
<1>2. /\ lastResolvedFileStat' < file'.mtime
      /\ resolving'.phase \in {"read", "update"} => resolving'.mtime < file'.mtime
  BY <1>1, SeenTypes DEF StatsSeen
<1>3. /\ lastResolvedFileStat' \in Nat /\ file'.mtime \in Nat /\ resolving'.mtime \in Nat
  BY <1>1, SeenTypes
<1> QED
  BY <1>2, <1>3 DEF StatsSeen

\* The record j of a save differs from k at most in what nobody checks.
Alike(j, k) ==
  j.phase = k.phase /\ j.option = k.option /\ j.mtime = k.mtime /\ j.content = k.content

\* A step that leaves the stats alone and moves no save beyond its participants.
LEMMA SavesKept ==
  ASSUME Inv, SavesSeen, Grows, Len(contents') \in Nat,
         UNCHANGED <<lastResolvedFileStat, file>>,
         raced' = raced \/ raced',
         \A t \in Save : saves'.tasks[t].phase \in Early \/ Alike(saves'.tasks[t], saves.tasks[t])
  PROVE  SavesSeen'
<1> SUFFICES ASSUME NEW t \in Save PROVE SaveSeen(saves.tasks[t])'
  BY DEF SavesSeen
<1>1. CASE saves'.tasks[t].phase \in Early
  BY <1>1 DEF Early, SaveSeen
<1>2. CASE Alike(saves'.tasks[t], saves.tasks[t])
  <2>1. SaveSeen(saves.tasks[t])
    BY DEF SavesSeen
  <2>2. /\ SeenIn(contents, saves.tasks[t].content) => SeenIn(contents', saves.tasks[t].content)
        /\ SeenIn(contents, file.content) => SeenIn(contents', file.content)
    BY SeenGrows
  <2>3. ~raced' => ~raced
    OBVIOUS
  <2> QED
    BY <1>2, <2>1, <2>2, <2>3 DEF Alike, SaveSeen
<1> QED
  BY <1>1, <1>2

\* A save that settles leaves no other beyond its participants.
LEMMA SettledEarly ==
  ASSUME Inv, NEW t \in Save, saves.tasks[t].phase # "none", NEW f, saves' = Settled(t, f)
  PROVE  \A u \in Save : saves'.tasks[u].phase \in Early
<1>1. saves.tasks[t] # NoSave /\ InStep(saves, versionId) /\ versionId \in Nat
  BY Alive, Facts
<1> QED
  BY <1>1, SettledInStep DEF Early

LEMMA EarlySeen ==
  ASSUME \A u \in Save : saves'.tasks[u].phase \in Early PROVE SavesSeen'
BY DEF SavesSeen, SaveSeen, Early

\* Save t moves on to record k, and there is no other.
LEMMA MovedSeen ==
  ASSUME Inv, NEW t \in Save, saves.tasks[t].phase # "none", NEW k,
         saves'.tasks = [saves.tasks EXCEPT ![t] = k]
  PROVE  /\ saves'.tasks[t] = k
         /\ \A u \in Save : u # t => saves'.tasks[u].phase = "none"
<1>1. saves \in Sequentializers /\ saves.tasks[t] # NoSave /\ InStep(saves, versionId)
  BY Alive, Facts DEF InStep
<1>2. \A u \in Save : u # t => saves.tasks[u] = NoSave
  BY <1>1 DEF InStep
<1> QED
  BY <1>1, <1>2 DEF Sequentializers, NoSave

\* How `saves` looks after an assignment to one record.
LEMMA AssignedTasks ==
  ASSUME Inv, NEW t \in Save, NEW k, saves' = [saves EXCEPT !.tasks[t] = k]
  PROVE  saves'.tasks = [saves.tasks EXCEPT ![t] = k]
<1>1. saves \in Sequentializers
  BY Facts DEF InStep
<1> QED
  BY <1>1 DEF Sequentializers

\* A call of doSave starts, cancels or queues a save and moves none on.
LEMMA DoSaveAlike ==
  ASSUME Inv, NEW o \in Option, NEW f
  PROVE  \A t \in Save : LET j == doSave(saves, o, f).tasks[t]
                         IN  j.phase \in Early \/ Alike(j, saves.tasks[t])
<1>0. InStep(saves, versionId) /\ saves \in Sequentializers /\ versionId \in Nat
  BY Facts DEF InStep
<1>1. CASE doSave(saves, o, f) = saves
  BY <1>1 DEF Alike
<1>2. CASE ~isRunning(saves) /\ doSave(saves, o, f) = run(saves, o, versionId)
  <2>1. saves = Idle
    BY <1>0, <1>2, NotRunningIsIdle
  <2> QED
    BY <1>0, <1>2, <2>1, RunIdle DEF Early
<1>3. CASE isRunning(saves) /\ doSave(saves, o, f) = [cancelRunning(saves) EXCEPT !.queued = o]
  <2>1. PICK t \in Save : saves.tasks[t] # NoSave
    BY <1>0, <1>3 DEF InStep
  <2>2. saves.running.save = t
    BY <1>0, <2>1 DEF InStep
  <2> DEFINE k == [saves.tasks[t] EXCEPT !.cancelled = TRUE]
             T == [saves.tasks EXCEPT ![t] = k]
             d == [saves EXCEPT !.tasks[t].cancelled = TRUE]
             e == [d EXCEPT !.queued = o]
  <2>3. doSave(saves, o, f) = e
    BY <1>3, <2>2 DEF cancelRunning
  <2>4. k \in Tasks /\ Alike(k, saves.tasks[t])
    BY SeenTypes DEF Tasks, Alike
  <2>5. d = [saves EXCEPT !.tasks = T]
    OBVIOUS
  <2> HIDE DEF k
  <2>6. T \in [Save -> Tasks] /\ \A u \in Save : Alike(T[u], saves.tasks[u])
    BY <1>0, <2>4 DEF Sequentializers, Alike
  <2> HIDE DEF T, d
  <2>7. e.tasks = T
    BY <1>0, <2>5 DEF Sequentializers
  <2> HIDE DEF e
  <2> QED
    BY <2>3, <2>6, <2>7
<1> QED
  BY <1>1, <1>2, <1>3 DEF doSave

LEMMA InitSeen == Init => SeenInv
<1> SUFFICES ASSUME Init PROVE SeenInv
  OBVIOUS
<1>1. SavesSeen
  BY DEF Init, SavesSeen, SaveSeen, NoSave
<1>2. SeenIn(contents, file.content)
  <2>1. Len(contents) = 1 /\ contents[1] = file.content
    BY DEF Init
  <2> QED
    BY <2>1 DEF SeenIn
<1>3. StatsSeen
  BY <1>2 DEF Init, StatsSeen, NoResolve
<1> QED
  BY <1>1, <1>3 DEF SeenInv

\* A step that leaves the saves, the stats and the resolve alone.
LEMMA AsideSeen ==
  ASSUME Inv, SeenInv, Grows, Len(contents') \in Nat,
         UNCHANGED <<lastResolvedFileStat, file, raced, saves, resolving>>
  PROVE  SeenInv'
<1>1. \A t \in Save : Alike(saves'.tasks[t], saves.tasks[t])
  BY DEF Alike
<1> QED
  BY <1>1, StatsKept, SavesKept DEF SeenInv

LEMMA EditSeen == ASSUME Inv, SeenInv, edit PROVE SeenInv'
<1>1. contents \in Seq(Int) /\ contents' = Append(contents, Len(contents) + 1) /\ Len(contents) + 1 \in Int
  BY Facts DEF edit
<1>2. Grows /\ Len(contents') \in Nat
  BY <1>1 DEF Grows
<1> QED
  BY <1>2, AsideSeen DEF edit, disk

LEMMA UndoSeen == ASSUME Inv, SeenInv, NEW v \in 1..Len(contents), undo(v) PROVE SeenInv'
BY SameGrows, AsideSeen DEF undo, disk

LEMMA UndoThresholdSeen == ASSUME Inv, SeenInv, undoThresholdPasses PROVE SeenInv'
BY SameGrows, AsideSeen DEF undoThresholdPasses, disk, ghosts

LEMMA OnDidFilesChangeSeen == ASSUME Inv, SeenInv, onDidFilesChange PROVE SeenInv'
BY SameGrows, AsideSeen DEF onDidFilesChange, model, ghosts

LEMMA SaveSeenKept == ASSUME Inv, SeenInv, NEW o \in Option, save(o) PROVE SeenInv'
<1>1. saves' = doSave(saves, o, flags) /\ UNCHANGED <<contents, lastResolvedFileStat, file, raced, resolving>>
  BY DEF save, model, disk
<1>2. Grows /\ Len(contents') \in Nat
  BY <1>1, SameGrows
<1>3. \A t \in Save : saves'.tasks[t].phase \in Early \/ Alike(saves'.tasks[t], saves.tasks[t])
  BY <1>1, DoSaveAlike
<1> QED
  BY <1>1, <1>2, <1>3, StatsKept, SavesKept DEF SeenInv

\* A save that settles, or moves within its participants.
LEMMA EarlyStepSeen ==
  ASSUME Inv, SeenInv, \A u \in Save : saves'.tasks[u].phase \in Early,
         UNCHANGED <<contents, lastResolvedFileStat, file, raced, resolving>>
  PROVE  SeenInv'
BY SameGrows, StatsKept, EarlySeen DEF SeenInv

LEMMA CancelSeen == ASSUME Inv, SeenInv, NEW t \in Save, cancel(t) PROVE SeenInv'
<1> DEFINE k == [saves.tasks[t] EXCEPT !.cancelled = TRUE]
<1>1. saves.tasks[t].phase # "none" /\ saves' = [saves EXCEPT !.tasks[t] = k]
  BY DEF cancel
<1>2. Alike(k, saves.tasks[t])
  BY SeenTypes DEF Tasks, Alike
<1> HIDE DEF k
<1>3. saves'.tasks[t] = k /\ \A u \in Save : u # t => saves'.tasks[u].phase = "none"
  BY <1>1, AssignedTasks, MovedSeen
<1>4. \A u \in Save : saves'.tasks[u].phase \in Early \/ Alike(saves'.tasks[u], saves.tasks[u])
  BY <1>2, <1>3 DEF Early
<1>5. UNCHANGED <<contents, lastResolvedFileStat, file, raced, resolving>>
  BY DEF cancel, model, disk
<1> QED
  BY <1>4, <1>5, SameGrows, StatsKept, SavesKept DEF SeenInv

LEMMA DelayEndsSeen == ASSUME Inv, SeenInv, NEW t \in Save, delayEnds(t) PROVE SeenInv'
<1>1. UNCHANGED <<contents, lastResolvedFileStat, file, raced, resolving>> /\ saves.tasks[t].phase # "none"
  BY DEF delayEnds, model, disk, ghosts
<1>2. CASE saves' = Settled(t, flags)
  BY <1>1, <1>2, SettledEarly, EarlyStepSeen
<1>3. CASE saves' = [saves EXCEPT !.tasks[t].phase = "participants"]
  <2> DEFINE k == [saves.tasks[t] EXCEPT !.phase = "participants"]
  <2>1. k.phase = "participants"
    BY SeenTypes DEF Tasks
  <2>2. saves' = [saves EXCEPT !.tasks[t] = k]
    BY <1>3
  <2> HIDE DEF k
  <2>3. \A u \in Save : saves'.tasks[u].phase \in Early
    BY <1>1, <2>1, <2>2, AssignedTasks, MovedSeen DEF Early
  <2> QED
    BY <1>1, <2>3, EarlyStepSeen
<1> QED
  BY <1>2, <1>3 DEF delayEnds, Ends

\* The participants end: the write is run against the stat of now.
LEMMA ParticipantsEndSeen == ASSUME Inv, SeenInv, NEW t \in Save, participantsEnd(t) PROVE SeenInv'
<1>1. /\ UNCHANGED <<contents, lastResolvedFileStat, file, raced, resolving>>
      /\ saves.tasks[t].phase # "none"
  BY DEF participantsEnd, model, disk, ghosts
<1>2. CASE saves' = Settled(t, flags)
  BY <1>1, <1>2, SettledEarly, EarlyStepSeen
<1>3. CASE saves' = [saves EXCEPT !.running = [id |-> versionId, save |-> t],
                                  !.tasks[t] = [@ EXCEPT !.phase = "snapshot",
                                                         !.inner = versionId,
                                                         !.mtime = lastResolvedFileStat]]
  <2> DEFINE k == [saves.tasks[t] EXCEPT !.phase = "snapshot", !.inner = versionId,
                                         !.mtime = lastResolvedFileStat]
             s == [saves EXCEPT !.running = [id |-> versionId, save |-> t]]
  <2>1. k.phase = "snapshot" /\ k.mtime = lastResolvedFileStat
    BY SeenTypes DEF Tasks
  <2>2. saves \in [running : [id : Nat, save : {0} \cup Save], queued : {"none"} \cup Option, tasks : [Save -> Tasks]]
    BY Facts DEF InStep, Sequentializers
  <2> DEFINE T == [saves.tasks EXCEPT ![t] = k]
  <2>3. saves'.tasks = T
    <3>1. s = [running |-> [id |-> versionId, save |-> t], queued |-> saves.queued, tasks |-> saves.tasks]
      BY <2>2
    <3>2. saves' = [s EXCEPT !.tasks[t] = k]
      BY <1>3
    <3> HIDE DEF s, k
    <3> QED
      BY <3>1, <3>2
  <2> HIDE DEF k
  <2>4. saves'.tasks[t] = k /\ \A u \in Save : u # t => saves'.tasks[u].phase = "none"
    BY <1>1, <2>3, MovedSeen
  <2>5. lastResolvedFileStat' <= lastResolvedFileStat'
    BY <1>1, SeenTypes
  <2>6. SavesSeen'
    BY <1>1, <2>1, <2>4, <2>5 DEF SavesSeen, SaveSeen
  <2> QED
    BY <1>1, <2>6, SameGrows, StatsKept DEF SeenInv
<1> QED
  BY <1>2, <1>3 DEF participantsEnd, Ends

\* The snapshot is of the version that is shown.
LEMMA SnapshotSeen == ASSUME Inv, SeenInv, NEW t \in Save, snapshot(t) PROVE SeenInv'
<1>1. /\ UNCHANGED <<contents, lastResolvedFileStat, file, raced, resolving>>
      /\ saves.tasks[t].phase = "snapshot"
  BY DEF snapshot, model, disk, ghosts
<1>2. CASE saves' = Settled(t, flags)
  BY <1>1, <1>2, SettledEarly, EarlyStepSeen
<1>3. CASE saves' = [saves EXCEPT !.tasks[t] = [@ EXCEPT !.phase = "validate", !.content = shown]]
  <2> DEFINE k == [saves.tasks[t] EXCEPT !.phase = "validate", !.content = shown]
  <2>1. k.phase = "validate" /\ k.content = shown /\ k.mtime = saves.tasks[t].mtime
    BY SeenTypes DEF Tasks
  <2>2. saves' = [saves EXCEPT !.tasks[t] = k]
    BY <1>3
  <2> HIDE DEF k
  <2>3. saves'.tasks[t] = k /\ \A u \in Save : u # t => saves'.tasks[u].phase = "none"
    BY <1>1, <2>2, AssignedTasks, MovedSeen
  <2>4. SeenIn(contents, shown)
    BY Facts DEF SeenIn, shown
  <2>5. k.mtime <= lastResolvedFileStat
    BY <1>1, <2>1 DEF SeenInv, SavesSeen, SaveSeen
  <2>6. SavesSeen'
    BY <1>1, <2>1, <2>3, <2>4, <2>5 DEF SavesSeen, SaveSeen
  <2> QED
    BY <1>1, <2>6, SameGrows, StatsKept DEF SeenInv
<1> QED
  BY <1>2, <1>3 DEF snapshot

\* The validation passes only with the stat of the file, unless it is not made.
LEMMA ValidateSeen == ASSUME Inv, SeenInv, NEW t \in Save, validateWriteFile(t) PROVE SeenInv'
<1>1. /\ UNCHANGED <<contents, lastResolvedFileStat, file, raced, resolving>>
      /\ saves.tasks[t].phase = "validate"
  BY DEF validateWriteFile, model, disk
<1>2. CASE \E f : saves' = Settled(t, f)
  BY <1>1, <1>2, SettledEarly, EarlyStepSeen
<1>3. CASE /\ ~(/\ saves.tasks[t].option # "overwrite" /\ preventSaveConflicts
                /\ saves.tasks[t].mtime < file.mtime)
           /\ saves' = [saves EXCEPT !.tasks[t].phase = "write"]
  <2> DEFINE k == [saves.tasks[t] EXCEPT !.phase = "write"]
  <2>1. /\ k.phase = "write" /\ k.content = saves.tasks[t].content
        /\ k.mtime = saves.tasks[t].mtime /\ k.option = saves.tasks[t].option
    BY SeenTypes DEF Tasks
  <2>2. saves' = [saves EXCEPT !.tasks[t] = k]
    BY <1>3
  <2> HIDE DEF k
  <2>3. saves'.tasks[t] = k /\ \A u \in Save : u # t => saves'.tasks[u].phase = "none"
    BY <1>1, <2>2, AssignedTasks, MovedSeen
  <2>4. SaveSeen(saves.tasks[t]) /\ lastResolvedFileStat <= file.mtime
    BY DEF SeenInv, SavesSeen, StatsSeen
  <2>5. k.mtime <= lastResolvedFileStat /\ SeenIn(contents, k.content)
    BY <1>1, <2>1, <2>4 DEF SaveSeen
  <2>6. k.option # "overwrite" /\ preventSaveConflicts => lastResolvedFileStat = file.mtime
    <3>1. k.mtime \in Nat /\ lastResolvedFileStat \in Nat /\ file.mtime \in Nat
      BY <2>1, SeenTypes
    <3> QED
      BY <1>3, <2>1, <2>4, <2>5, <3>1
  <2>7. SavesSeen'
    BY <1>1, <2>1, <2>3, <2>5, <2>6 DEF SavesSeen, SaveSeen
  <2> QED
    BY <1>1, <2>7, SameGrows, StatsKept DEF SeenInv
<1> QED
  BY <1>2, <1>3 DEF validateWriteFile, handleSaveError, Ends

\* The file gets what a version had.
LEMMA WriteSeen == ASSUME Inv, SeenInv, NEW t \in Save, write(t) PROVE SeenInv'
<1> DEFINE k == [saves.tasks[t] EXCEPT !.phase = "stat"]
           c == saves.tasks[t].content
<1>1. /\ UNCHANGED <<contents, lastResolvedFileStat, raced, resolving>>
      /\ saves.tasks[t].phase = "write" /\ Put(c) /\ saves' = [saves EXCEPT !.tasks[t] = k]
  BY DEF write, model, ghosts
<1>2. k.phase = "stat"
  BY SeenTypes DEF Tasks
<1>3. SeenIn(contents, c)
  BY <1>1 DEF SeenInv, SavesSeen, SaveSeen
<1>4. file'.content = c
  BY <1>1 DEF Put
<1> HIDE DEF k, c
<1>5. saves'.tasks[t] = k /\ \A u \in Save : u # t => saves'.tasks[u].phase = "none"
  BY <1>1, AssignedTasks, MovedSeen
<1>6. SavesSeen'
  BY <1>1, <1>2, <1>3, <1>4, <1>5 DEF SavesSeen, SaveSeen
<1>7. StatsSeen'
  BY <1>1, StatsPut DEF SeenInv
<1> QED
  BY <1>6, <1>7 DEF SeenInv

\* The stat that arrives is that of what the save has written, unless another
\* program was in between.
LEMMA StatSeen == ASSUME Inv, SeenInv, NEW t \in Save, stat(t) PROVE SeenInv'
<1>1. /\ UNCHANGED <<contents, file, raced, resolving>>
      /\ saves.tasks[t].phase = "stat"
      /\ \E f : saves' = Settled(t, f)
  BY DEF stat, handleSaveSuccess, Ends, model, disk
<1>2. SavesSeen'
  BY <1>1, SettledEarly, EarlySeen
<1>3. lastResolvedFileStat' = file.mtime /\ file.mtime \in Nat
  BY SeenTypes DEF stat, handleSaveSuccess, SeenInv, StatsSeen
<1>4. ~raced => SeenIn(contents, file.content)
  BY <1>1 DEF SeenInv, SavesSeen, SaveSeen
<1>5. StatsSeen'
  BY <1>1, <1>3, <1>4 DEF SeenInv, StatsSeen
<1> QED
  BY <1>2, <1>5 DEF SeenInv

LEMMA SaveFailsSeen == ASSUME Inv, SeenInv, NEW t \in Save, saveFails(t) PROVE SeenInv'
<1>1. /\ UNCHANGED <<contents, lastResolvedFileStat, raced, resolving>>
      /\ saves.tasks[t].phase # "none"
      /\ \E f : saves' = Settled(t, f)
      /\ UNCHANGED file \/ Put(Fresh)
  BY DEF saveFails, handleSaveError, Ends, model, disk
<1>2. \A u \in Save : saves'.tasks[u].phase \in Early
  BY <1>1, SettledEarly
<1>3. CASE UNCHANGED file
  BY <1>1, <1>2, <1>3, EarlyStepSeen
<1>4. CASE Put(Fresh)
  <2> DEFINE c == Fresh
  <2>1. Put(c)
    BY <1>4
  <2> HIDE DEF c
  <2> QED
    BY <1>1, <1>2, <2>1, StatsPut, EarlySeen DEF SeenInv
<1> QED
  BY <1>1, <1>3, <1>4

\* Another program writes; a save that was validated already has lost the race.
LEMMA ExternalWriteSeen == ASSUME Inv, SeenInv, externalWrite PROVE SeenInv'
<1> DEFINE c == Fresh
<1>1. /\ UNCHANGED <<contents, lastResolvedFileStat, saves, resolving>>
      /\ Put(c)
  BY DEF externalWrite, model
<1>2. \A t \in Save : saves.tasks[t].phase \in {"write", "stat"} => raced'
  BY DEF externalWrite
<1> HIDE DEF c
<1>3. SavesSeen'
  BY <1>1, <1>2 DEF SeenInv, SavesSeen, SaveSeen
<1>4. StatsSeen'
  BY <1>1, StatsPut DEF SeenInv
<1> QED
  BY <1>3, <1>4 DEF SeenInv

\* The resolve that follows one that ends has read nothing yet.
LEMMA ResolveEndsReading ==
  ASSUME Inv, NEW failed \in BOOLEAN, NEW f, NEW id \in Nat, ResolveEnds(failed, f, id)
  PROVE  resolving'.phase \in {"none", "reading"}
BY ResolveStarts, NoResolveType DEF ResolveEnds

\* A step of a resolve that does not take the content.
LEMMA ResolveAsideSeen ==
  ASSUME Inv, SeenInv, UNCHANGED <<contents, lastResolvedFileStat, file, saves>>,
         raced' = raced \/ raced',
         \/ UNCHANGED resolving
         \/ /\ resolving'.phase \in {"none", "reading"}
            /\ resolving.phase = "update" => raced'
  PROVE  SeenInv'
<1>1. \A t \in Save : Alike(saves'.tasks[t], saves.tasks[t])
  BY DEF Alike
<1> QED
  BY <1>1, SameGrows, StatsKept, SavesKept DEF SeenInv

\* The read brings the stat of the file and what the file held then.
LEMMA ReadFileSeen == ASSUME Inv, SeenInv, readFile PROVE SeenInv'
<1>1. UNCHANGED <<contents, lastResolvedFileStat, file, saves, raced>> /\ resolving.phase = "reading"
  BY DEF readFile, model, disk, ghosts
<1>2. CASE ResolveEnds(FALSE, flags, versionId)
  <2> DEFINE b == FALSE
  <2>1. b \in BOOLEAN /\ ResolveEnds(b, flags, versionId) /\ versionId \in Nat
    BY <1>2, Facts
  <2> HIDE DEF b
  <2>2. resolving'.phase \in {"none", "reading"}
    BY <2>1, ResolveEndsReading
  <2> QED
    BY <1>1, <2>2, ResolveAsideSeen
<1>3. CASE resolving' = [resolving EXCEPT !.phase = "read", !.mtime = file.mtime, !.content = file.content]
  <2>1. resolving'.phase = "read" /\ resolving'.mtime = file.mtime /\ resolving'.content = file.content
    BY <1>3, SeenTypes DEF Resolves
  <2>2. file.mtime <= file.mtime
    BY SeenTypes
  <2>3. StatsSeen'
    BY <1>1, <2>1, <2>2 DEF SeenInv, StatsSeen
  <2>4. \A t \in Save : Alike(saves'.tasks[t], saves.tasks[t])
    BY <1>1 DEF Alike
  <2> QED
    BY <1>1, <2>3, <2>4, SameGrows, SavesKept DEF SeenInv
<1> QED
  BY <1>2, <1>3 DEF readFile

\* The stat is remembered before the content is taken.
LEMMA ResolveFromContentSeen == ASSUME Inv, SeenInv, resolveFromContent PROVE SeenInv'
<1>1. UNCHANGED <<contents, file, saves, raced>> /\ resolving.phase = "read"
  BY DEF resolveFromContent, model, disk, ghosts
<1>2. CASE ResolveEnds(FALSE, flags, versionId) /\ UNCHANGED lastResolvedFileStat
  <2> DEFINE b == FALSE
  <2>1. b \in BOOLEAN /\ ResolveEnds(b, flags, versionId) /\ versionId \in Nat
    BY <1>2, Facts
  <2> HIDE DEF b
  <2>2. resolving'.phase \in {"none", "reading"}
    BY <2>1, ResolveEndsReading
  <2> QED
    BY <1>1, <1>2, <2>2, ResolveAsideSeen
<1>3. CASE /\ lastResolvedFileStat' = IF resolving.mtime >= lastResolvedFileStat THEN resolving.mtime ELSE lastResolvedFileStat
           /\ resolving' = [resolving EXCEPT !.phase = "update"]
  <2>1. /\ resolving'.phase = "update" /\ resolving'.mtime = resolving.mtime
        /\ resolving'.content = resolving.content
    BY <1>3, SeenTypes DEF Resolves
  <2>2. /\ resolving.mtime <= file.mtime /\ lastResolvedFileStat <= file.mtime
        /\ resolving.mtime = file.mtime => resolving.content = file.content
    BY <1>1 DEF SeenInv, StatsSeen
  <2>3. /\ lastResolvedFileStat' \in Nat
        /\ lastResolvedFileStat <= lastResolvedFileStat' /\ lastResolvedFileStat' <= file.mtime
        /\ lastResolvedFileStat' = lastResolvedFileStat \/ lastResolvedFileStat' = resolving.mtime
        /\ lastResolvedFileStat = file.mtime => lastResolvedFileStat' = file.mtime
    BY <1>3, <2>2, SeenTypes
  <2>4. StatsSeen'
    BY <1>1, <2>1, <2>2, <2>3 DEF SeenInv, StatsSeen
  <2>5. SavesSeen'
    <3> SUFFICES ASSUME NEW t \in Save PROVE SaveSeen(saves.tasks[t])'
      BY DEF SavesSeen
    <3>1. SaveSeen(saves.tasks[t])
      BY DEF SeenInv, SavesSeen
    <3>2. saves.tasks[t].mtime <= lastResolvedFileStat => saves.tasks[t].mtime <= lastResolvedFileStat'
      BY <2>3, SeenTypes
    <3> QED
      BY <1>1, <2>3, <3>1, <3>2 DEF SaveSeen
  <2> QED
    BY <2>4, <2>5 DEF SeenInv
<1> QED
  BY <1>2, <1>3 DEF resolveFromContent

\* The model takes what the file held at the stat, or holds now.
LEMMA UpdateModelSeen == ASSUME Inv, SeenInv, updateModel PROVE SeenInv'
<1>1. UNCHANGED <<lastResolvedFileStat, file, saves, raced>> /\ resolving.phase = "update"
  BY DEF updateModel, disk
<1>2. PICK c \in {resolving.content, file.content} : contents' = Append(contents, c)
  BY DEF updateModel
<1>3. contents \in Seq(Int) /\ c \in Int
  BY <1>1, Facts, ResolveFacts
<1>4. Grows /\ Len(contents') \in Nat /\ SeenIn(contents', c)
  <2>1. Len(contents') = Len(contents) + 1 /\ contents'[Len(contents) + 1] = c
    BY <1>2, <1>3
  <2>2. Len(contents) + 1 \in 1..Len(contents') /\ Len(contents') \in Nat
    BY <2>1, <1>3
  <2>3. SeenIn(contents', c)
    BY <2>1, <2>2 DEF SeenIn
  <2>4. Grows
    BY <1>2, <1>3 DEF Grows
  <2> QED
    BY <2>2, <2>3, <2>4
<1>5. resolving'.phase \in {"none", "reading"}
  <2> DEFINE b == FALSE
             f == clean(Len(contents) + 1)
             id == versionId + 1
  <2>1. b \in BOOLEAN /\ id \in Nat
    BY Facts
  <2>2. ResolveEnds(b, f, id)
    BY DEF updateModel
  <2> HIDE DEF b, f, id
  <2> QED
    BY <2>1, <2>2, ResolveEndsReading
<1>6. lastResolvedFileStat = file.mtime /\ ~raced => SeenIn(contents', file.content)
  <2>1. SeenIn(contents, file.content) => SeenIn(contents', file.content)
    BY <1>4, SeenGrows
  <2>2. resolving.mtime = file.mtime => c = file.content
    BY <1>1, <1>2 DEF SeenInv, StatsSeen
  <2> QED
    BY <1>4, <2>1, <2>2 DEF SeenInv, StatsSeen
<1>7. StatsSeen'
  BY <1>1, <1>5, <1>6 DEF SeenInv, StatsSeen
<1>8. \A t \in Save : Alike(saves'.tasks[t], saves.tasks[t])
  BY <1>1 DEF Alike
<1>9. SavesSeen'
  BY <1>1, <1>4, <1>8, SavesKept DEF SeenInv
<1> QED
  BY <1>7, <1>9 DEF SeenInv

LEMMA ResolveFailsSeen == ASSUME Inv, SeenInv, resolveFails PROVE SeenInv'
<1>1. UNCHANGED <<contents, lastResolvedFileStat, file, saves>>
  BY DEF resolveFails, model, disk
<1>2. (raced' = raced \/ raced') /\ (resolving.phase = "update" => raced')
  BY SeenTypes DEF resolveFails
<1>3. resolving'.phase \in {"none", "reading"}
  <2> DEFINE b == TRUE
  <2>1. b \in BOOLEAN /\ ResolveEnds(b, flags, versionId) /\ versionId \in Nat
    BY Facts DEF resolveFails
  <2> HIDE DEF b
  <2> QED
    BY <2>1, ResolveEndsReading
<1> QED
  BY <1>1, <1>2, <1>3, ResolveAsideSeen

LEMMA ReloadSeen == ASSUME Inv, SeenInv, reload PROVE SeenInv'
<1>1. UNCHANGED <<contents, lastResolvedFileStat, file, saves, raced>>
  BY DEF reload, model, disk, ghosts
<1>2. resolving.phase # "update" /\ resolving'.phase \in {"none", "reading"}
  BY Facts, ResolveStarts, NoResolveType DEF reload
<1> QED
  BY <1>1, <1>2, ResolveAsideSeen

LEMMA RevertSeen ==
  ASSUME Inv, SeenInv, NEW force \in BOOLEAN, NEW soft \in BOOLEAN, revert(force, soft)
  PROVE  SeenInv'
<1>1. UNCHANGED <<contents, lastResolvedFileStat, file, saves, raced>>
  BY DEF revert, model, disk
<1>2. \/ UNCHANGED resolving
      \/ resolving.phase # "update" /\ resolving'.phase \in {"none", "reading"}
  BY Facts, ResolveStarts, NoResolveType DEF revert
<1> QED
  BY <1>1, <1>2, ResolveAsideSeen

LEMMA NextSeen == Inv /\ SeenInv /\ [Next]_vars => SeenInv'
<1> SUFFICES ASSUME Inv, SeenInv, [Next]_vars PROVE SeenInv'
  OBVIOUS
<1>1. CASE edit
  BY <1>1, EditSeen
<1>2. CASE \E v \in 1..Len(contents) : undo(v)
  BY <1>2, UndoSeen
<1>3. CASE undoThresholdPasses
  BY <1>3, UndoThresholdSeen
<1>4. CASE \E o \in Option : save(o)
  BY <1>4, SaveSeenKept
<1>5. ASSUME NEW t \in Save, cancel(t) \/ SaveStep(t) \/ saveFails(t) PROVE SeenInv'
  BY <1>5, CancelSeen, DelayEndsSeen, ParticipantsEndSeen, SnapshotSeen, ValidateSeen, WriteSeen,
     StatSeen, SaveFailsSeen DEF SaveStep
<1>6. CASE ResolveStep \/ resolveFails
  BY <1>6, ReadFileSeen, ResolveFromContentSeen, UpdateModelSeen, ResolveFailsSeen DEF ResolveStep
<1>7. CASE onDidFilesChange \/ reload \/ externalWrite
  BY <1>7, OnDidFilesChangeSeen, ReloadSeen, ExternalWriteSeen
<1>8. CASE \E force, soft \in BOOLEAN : revert(force, soft)
  BY <1>8, RevertSeen
<1>9. CASE UNCHANGED vars
  BY <1>9, SameGrows, AsideSeen DEF vars, model, disk, ghosts
<1> QED
  BY <1>1, <1>2, <1>3, <1>4, <1>5, <1>6, <1>7, <1>8, <1>9 DEF Next

\* A save that was not told to overwrite replaces on disk only a content that
\* a version of this model has had, unless another program got between its
\* validation and its stat or an update of the model failed.
THEOREM SavesReplaceSeenText == Spec => OverwritesOnlySeen
<1>1. Spec => []SeenInv
  BY InvAlways, InitSeen, NextSeen, PTL DEF Spec
<1>2. SeenInv =>
        [\A t \in Save :
           /\ saves.tasks[t].phase = "write" /\ saves'.tasks[t].phase = "stat"
           /\ saves.tasks[t].option # "overwrite" /\ preventSaveConflicts
           /\ ~raced /\ resolving.phase # "update"
           => \E v \in 1..Len(contents) : contents[v] = file.content]_vars
  <2> SUFFICES ASSUME SeenInv, NEW t \in Save,
                      saves.tasks[t].phase = "write", saves.tasks[t].option # "overwrite",
                      preventSaveConflicts, ~raced, resolving.phase # "update"
               PROVE  \E v \in 1..Len(contents) : contents[v] = file.content
    OBVIOUS
  <2>1. SaveSeen(saves.tasks[t]) /\ StatsSeen
    BY DEF SeenInv, SavesSeen
  <2>2. SeenIn(contents, file.content)
    BY <2>1 DEF SaveSeen, StatsSeen
  <2> QED
    BY <2>2 DEF SeenIn
<1> QED
  BY <1>1, <1>2, PTL DEF OverwritesOnlySeen
=============================================================================
