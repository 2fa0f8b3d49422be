------------------------ MODULE StoredFileWorkingCopy ------------------------
(***************************************************************************)
(* One resolved `StoredFileWorkingCopy` with its model, its file and the   *)
(* manager that reloads it (vs/workbench/services/workingCopy/common), and *)
(* the `TaskSequentializer` of vs/base/common/async.ts that keeps its      *)
(* saves apart.                                                            *)
(*                                                                         *)
(* Everything runs on one thread; a step of the model is what runs between *)
(* two awaits, the microtasks that follow a settled promise included.      *)
(* Steps of a save, of a resolve, of a revert, of the user and of other    *)
(* programs interleave freely.                                             *)
(*                                                                         *)
(* Contents are numbers: 0 is what the file held at first, -m what another *)
(* program wrote at mtime m, v what the user typed into version v of the   *)
(* model.  Different contents are taken to differ in size, so that an etag *)
(* is as good as an mtime.                                                 *)
(***************************************************************************)
EXTENDS Integers, Sequences

CONSTANTS
  preventSaveConflicts,  \* files.saveConflictResolution: askUser
  Option,                \* how save() may be called
  MaxVersions,           \* bound: versions of the model that can be edited
  MaxChanges,            \* bound: changes of the content
  MaxSaves,              \* bound: calls of save()
  MaxDisturbances        \* bound: writes of other programs, operations that
                         \* fail or are cancelled, and calls of revert()

ASSUME OptionAssumption == Option \subseteq {"auto", "explicit", "force", "overwrite"}
ASSUME BoundsAssumption ==
  /\ preventSaveConflicts \in BOOLEAN
  /\ {MaxVersions, MaxChanges, MaxSaves, MaxDisturbances} \subseteq Nat

VARIABLES
  contents,   \* the content of each version the model has had
  version,    \* model.versionId
  versionId,  \* how often the content changed
  undoneRecently,  \* lastContentChangeFromUndoRedo is within the threshold
  flags,      \* dirty, inConflictMode, inErrorMode and savedVersionId
  lastResolvedFileStat,  \* its mtime
  saves,      \* the sequentializer and the saves it has started
  resolving,  \* the pending resolve
  reverting,  \* the pending revert, with the flags it would set back
  file,       \* what is on disk
  changed,    \* a file change event is on its way
  reloads,    \* the size of the workingCopyResolveQueue
  stored,     \* ghost: every content the file ever had
  excused,    \* ghost: contents given up by a revert or typed into a reload
  asked,      \* ghost: the versionId a save was asked for and not yet stored
  raced,      \* ghost: the stat may be of a content that was not seen
  spent       \* ghost: how much of each bound is used

model == <<contents, version, versionId, undoneRecently>>
disk == <<file, changed, stored>>
ghosts == <<excused, asked, raced, spent>>
vars == <<model, flags, lastResolvedFileStat, saves, resolving, reverting,
          disk, reloads, ghosts>>

\* Two saves can be told apart; the second place is only ever used when the
\* sequentializer fails to keep them apart.
Save == {1, 2}
NoSave == [phase |-> "none", option |-> "explicit", outer |-> 0, inner |-> 0,
           cancelled |-> FALSE, mtime |-> 0, content |-> 0]
NotRunning == [id |-> 0, save |-> 0]
NoResolve == [phase |-> "none", by |-> "reload", versionId |-> 0, mtime |-> 0, content |-> 0]
Kind == {"saves", "writes", "failures", "reverts"}
NoRevert(f) == [phase |-> "none", flags |-> f]

Init ==
  /\ contents = <<0>>
  /\ version = 1
  /\ versionId = 1
  /\ undoneRecently = FALSE
  /\ flags = [dirty |-> FALSE, inConflictMode |-> FALSE, inErrorMode |-> FALSE, savedVersionId |-> 1]
  /\ lastResolvedFileStat = 1
  /\ saves = [running |-> NotRunning, queued |-> "none", tasks |-> [t \in Save |-> NoSave]]
  /\ resolving = NoResolve
  /\ reverting = NoRevert(flags)
  /\ file = [content |-> 0, mtime |-> 1]
  /\ changed = FALSE
  /\ reloads = 0
  /\ stored = {0}
  /\ excused = {}
  /\ asked = 0
  /\ raced = FALSE
  /\ spent = [k \in Kind |-> 0]

shown == contents[version]
isRunning(s) == s.running # NotRunning
ignoreDirtyOnModelContentChange == resolving.phase = "update"
ignoreSaveFromSaveParticipants(s) == \E t \in Save : s.tasks[t].phase = "participants"

Disturb(kind) ==
  /\ spent["writes"] + spent["failures"] + spent["reverts"] < MaxDisturbances
  /\ spent' = [spent EXCEPT ![kind] = @ + 1]

-----------------------------------------------------------------------------
(* The content of the model and the flags *)

\* setDirty(FALSE) and doSetDirty(FALSE) when the model is at version v.
clean(v) == [dirty |-> FALSE, inConflictMode |-> FALSE, inErrorMode |-> FALSE, savedVersionId |-> v]

\* The model fires that it has reached version v.
onModelContentChanged(v) ==
  /\ version' = v
  /\ versionId' = versionId + 1
  /\ flags' = IF ignoreDirtyOnModelContentChange THEN flags
              ELSE IF v = flags.savedVersionId THEN clean(v)
              ELSE [flags EXCEPT !.dirty = TRUE]

\* What is typed while the model is being reloaded or reverted has no promise.
Excuse(c) ==
  excused' = IF ignoreDirtyOnModelContentChange \/ reverting.phase # "none"
             THEN excused \cup {c} ELSE excused

\* A copy that is clean owes no save.
ForgetIfClean == asked' = IF flags'.dirty THEN asked ELSE 0

\* The user, or a save participant, changes the content.
edit ==
  /\ Len(contents) < MaxVersions
  /\ versionId < MaxChanges
  /\ contents' = Append(contents, Len(contents) + 1)
  /\ onModelContentChanged(Len(contents) + 1)
  /\ Excuse(Len(contents) + 1)
  /\ ForgetIfClean
  /\ UNCHANGED <<undoneRecently, lastResolvedFileStat, saves, resolving, reverting, disk, reloads, raced, spent>>

\* Undo and redo bring an earlier version back.
undo(v) ==
  /\ v # version
  /\ versionId < MaxChanges
  /\ onModelContentChanged(v)
  /\ undoneRecently' = TRUE
  /\ Excuse(contents[v])
  /\ ForgetIfClean
  /\ UNCHANGED <<contents, lastResolvedFileStat, saves, resolving, reverting, disk, reloads, raced, spent>>

\* The threshold for save participants after an undo passes.
undoThresholdPasses ==
  /\ undoneRecently
  /\ undoneRecently' = FALSE
  /\ UNCHANGED <<contents, version, versionId, flags, lastResolvedFileStat, saves, resolving,
                 reverting, disk, reloads, ghosts>>

-----------------------------------------------------------------------------
(* TaskSequentializer and doSave.  s is the sequentializer, f the flags.   *)

\* run: the save takes a free place and its participants, or the pause
\* before them, are awaited.
Started(o, id) == [phase |-> IF o = "auto" /\ undoneRecently THEN "delay" ELSE "participants",
                   option |-> o, outer |-> id, inner |-> id,
                   cancelled |-> FALSE, mtime |-> 0, content |-> 0]
Free(s) == IF s.tasks[1] = NoSave THEN 1 ELSE 2
run(s, o, id) ==
  [s EXCEPT !.running = [id |-> id, save |-> Free(s)], !.tasks[Free(s)] = Started(o, id)]

\* cancelRunning: the token of the save that is running.
cancelRunning(s) == [s EXCEPT !.tasks[s.running.save].cancelled = TRUE]

\* Mutant: a save that comes while one is running is forgotten.
doSaveDropped(s, o, f) ==
  IF \/ ignoreSaveFromSaveParticipants(s)
     \/ isRunning(s) /\ s.running.id = versionId
     \/ o \notin {"force"} /\ ~f.dirty
  THEN s
  ELSE IF isRunning(s) THEN cancelRunning(s)
  ELSE run(s, o, versionId)

\* doSave: dropped inside a save participant, joined with a running save of
\* the same version, refused when there is nothing to save, queued in the
\* place of any other that waits (and the running one cancelled), or run.
doSave(s, o, f) ==
  IF \/ ignoreSaveFromSaveParticipants(s)
     \/ isRunning(s) /\ s.running.id = versionId
     \/ o # "force" /\ ~f.dirty
  THEN s
  ELSE IF isRunning(s) THEN [cancelRunning(s) EXCEPT !.queued = o]
  ELSE run(s, o, versionId)

Freed(s) == [running |-> NotRunning, queued |-> "none", tasks |-> s.tasks]

\* Mutant: any task that ends frees the sequentializer.
doneRunningAny(s, id, f) ==
  IF s.queued = "none" THEN Freed(s) ELSE doSave(Freed(s), s.queued, f)

\* doneRunning and runQueued: only the task whose number is running frees
\* the sequentializer, and the queued save runs.
doneRunning(s, id, f) ==
  IF ~isRunning(s) \/ s.running.id # id THEN s
  ELSE IF s.queued = "none" THEN Freed(s)
  ELSE doSave(Freed(s), s.queued, f)

(***************************************************************************)
(* The promise of save t settles, with the flags then being f: its write,  *)
(* if it got that far, was run under the number inner, and the whole save  *)
(* under outer.  The reactions follow each other in microtasks.            *)
(***************************************************************************)
Settled(t, f) ==
  LET s == [saves EXCEPT !.tasks[t] = NoSave]
      writing == saves.tasks[t].phase \notin {"delay", "participants"}
  IN  doneRunning(IF writing THEN doneRunning(s, saves.tasks[t].inner, f) ELSE s,
                  saves.tasks[t].outer, f)

-----------------------------------------------------------------------------
(* The steps of a save *)

\* save(): an auto save is refused in conflict or error.  One that is dropped
\* for, or joined with, a save that the user has cancelled comes to nothing.
save(o) ==
  /\ spent["saves"] < MaxSaves
  /\ spent' = [spent EXCEPT !["saves"] = @ + 1]
  /\ ~(o = "auto" /\ (flags.inConflictMode \/ flags.inErrorMode))
  /\ saves' = doSave(saves, o, flags)
  /\ asked' = IF flags.dirty /\ ~(saves' = saves /\ \E t \in Save : saves.tasks[t].cancelled)
              THEN versionId ELSE asked
  /\ UNCHANGED <<model, flags, lastResolvedFileStat, resolving, reverting, disk, reloads, excused, raced>>

Ends(t, f) ==
  /\ flags' = f
  /\ saves' = Settled(t, f)

\* The outcome of save t is known: it owes nothing up to its version.
Answered(t) == asked' = IF saves.tasks[t].inner >= asked THEN 0 ELSE asked

\* The user cancels the progress of a save; it counts as a failure.
cancel(t) ==
  /\ saves.tasks[t].phase \in {"delay", "participants", "snapshot"}
  /\ ~saves.tasks[t].cancelled
  /\ Disturb("failures")
  /\ saves' = [saves EXCEPT !.tasks[t].cancelled = TRUE]
  /\ asked' = 0
  /\ UNCHANGED <<model, flags, lastResolvedFileStat, resolving, reverting, disk, reloads, excused, raced>>

\* The pause before the participants is over.
delayEnds(t) ==
  /\ saves.tasks[t].phase = "delay"
  /\ IF saves.tasks[t].cancelled
     THEN Ends(t, flags)
     ELSE /\ saves' = [saves EXCEPT !.tasks[t].phase = "participants"]
          /\ UNCHANGED flags
  /\ UNCHANGED <<model, lastResolvedFileStat, resolving, reverting, disk, reloads, ghosts>>

\* The participants are done: the write is run under the version there is
\* now, against the stat known now.
participantsEnd(t) ==
  /\ saves.tasks[t].phase = "participants"
  /\ IF saves.tasks[t].cancelled
     THEN Ends(t, flags)
     ELSE /\ flags' = [flags EXCEPT !.inErrorMode = FALSE]
          /\ saves' = [saves EXCEPT !.running = [id |-> versionId, save |-> t],
                                    !.tasks[t] = [@ EXCEPT !.phase = "snapshot",
                                                           !.inner = versionId,
                                                           !.mtime = lastResolvedFileStat]]
  /\ UNCHANGED <<model, lastResolvedFileStat, resolving, reverting, disk, reloads, ghosts>>

\* The snapshot of the model, unless the save was cancelled.
snapshot(t) ==
  /\ saves.tasks[t].phase = "snapshot"
  /\ IF saves.tasks[t].cancelled
     THEN saves' = Settled(t, flags)
     ELSE saves' = [saves EXCEPT !.tasks[t] = [@ EXCEPT !.phase = "validate", !.content = shown]]
  /\ UNCHANGED <<model, flags, lastResolvedFileStat, resolving, reverting, disk, reloads, ghosts>>

\* Mutant: the error is only shown.
handleSaveErrorQuiet(t, conflict) ==
  /\ Ends(t, [flags EXCEPT !.inErrorMode = TRUE, !.inConflictMode = @ \/ conflict])
  /\ Answered(t)

handleSaveError(t, conflict) ==
  /\ Ends(t, [flags EXCEPT !.dirty = TRUE, !.inErrorMode = TRUE, !.inConflictMode = @ \/ conflict])
  /\ Answered(t)

\* Mutant: what was written is what is shown.
handleSaveSuccessAlways(t) ==
  /\ lastResolvedFileStat' = IF file.mtime >= lastResolvedFileStat THEN file.mtime ELSE lastResolvedFileStat
  /\ Ends(t, clean(version))
  /\ Answered(t)

\* The stat of the written file arrives.  The copy is clean only if its
\* content has not changed since the write was run.
handleSaveSuccess(t) ==
  /\ lastResolvedFileStat' = IF file.mtime >= lastResolvedFileStat THEN file.mtime ELSE lastResolvedFileStat
  /\ Ends(t, IF saves.tasks[t].inner = versionId THEN clean(version) ELSE flags)
  /\ Answered(t)

\* FileService.validateWriteFile: dirty write prevention.
validateWriteFile(t) ==
  /\ saves.tasks[t].phase = "validate"
  /\ IF /\ saves.tasks[t].option # "overwrite"
        /\ preventSaveConflicts
        /\ saves.tasks[t].mtime < file.mtime
     THEN handleSaveError(t, TRUE)
     ELSE /\ saves' = [saves EXCEPT !.tasks[t].phase = "write"]
          /\ UNCHANGED <<flags, asked>>
  /\ UNCHANGED <<model, lastResolvedFileStat, resolving, reverting, disk, reloads, excused, raced, spent>>

\* A content that nobody has seen.
Fresh == -(file.mtime + 1)

\* The file gets the content; file watchers will notice.
Put(c) ==
  /\ file' = [content |-> c, mtime |-> file.mtime + 1]
  /\ changed' = TRUE
  /\ stored' = stored \cup {c}

write(t) ==
  /\ saves.tasks[t].phase = "write"
  /\ Put(saves.tasks[t].content)
  /\ saves' = [saves EXCEPT !.tasks[t].phase = "stat"]
  /\ UNCHANGED <<model, flags, lastResolvedFileStat, resolving, reverting, reloads, ghosts>>

\* After the write the file is resolved again for its stat.
stat(t) ==
  /\ saves.tasks[t].phase = "stat"
  /\ handleSaveSuccess(t)
  /\ UNCHANGED <<model, resolving, reverting, disk, reloads, excused, raced, spent>>

\* The snapshot, the write or the stat fails.  A write that fails may have
\* left anything in the file.
saveFails(t) ==
  /\ \/ /\ saves.tasks[t].phase = "snapshot" /\ ~saves.tasks[t].cancelled
        /\ UNCHANGED disk
     \/ /\ saves.tasks[t].phase \in {"write", "stat"}
        /\ UNCHANGED disk
     \/ /\ saves.tasks[t].phase = "write"
        /\ Put(Fresh)
  /\ Disturb("failures")
  /\ handleSaveError(t, FALSE)
  /\ UNCHANGED <<model, lastResolvedFileStat, resolving, reverting, reloads, excused, raced>>

-----------------------------------------------------------------------------
(* Resolving from the file *)

(***************************************************************************)
(* revert() asks its externalResolver to force the read, but the manager   *)
(* takes that from options.reload.force and the resolver overwrites reload *)
(* with [async: false]: the read is never forced.                          *)
(***************************************************************************)
forceReadFromFile(by) == FALSE

\* resolve(): nothing is done while the copy is dirty or being saved.  The
\* number of the content and the etag are remembered before the read.
resolve(by, f, id) ==
  IF f.dirty \/ isRunning(saves) THEN NoResolve
  ELSE [phase |-> "reading", by |-> by, versionId |-> id, content |-> 0,
        mtime |-> IF forceReadFromFile(by) THEN 0 ELSE lastResolvedFileStat]

(***************************************************************************)
(* The pending resolve ends.  A revert that waited for it resolves now, in *)
(* the microtasks that follow and so before any reload that waits; the     *)
(* revert that asked for it is done, and sets its flags back if it failed. *)
(***************************************************************************)
ResolveEnds(failed, f, id) ==
  LET next == resolve("revert", f, id)
  IN  /\ reloads' = IF resolving.by = "reload" THEN reloads - 1 ELSE reloads
      /\ resolving' = IF reverting.phase = "joining" THEN next ELSE NoResolve
      /\ reverting' = IF reverting.phase = "joining" /\ next # NoResolve
                      THEN [reverting EXCEPT !.phase = "resolving"]
                      ELSE NoRevert(clean(1))
      /\ flags' = IF failed /\ resolving.by = "revert" THEN reverting.flags ELSE f

\* readFileStream: the file was not modified since, or its stat and stream.
readFile ==
  /\ resolving.phase = "reading"
  /\ IF resolving.mtime = file.mtime
     THEN ResolveEnds(FALSE, flags, versionId)
     ELSE /\ resolving' = [resolving EXCEPT !.phase = "read", !.mtime = file.mtime, !.content = file.content]
          /\ UNCHANGED <<flags, reverting, reloads>>
  /\ UNCHANGED <<model, lastResolvedFileStat, saves, disk, ghosts>>

\* Mutant: the stat is remembered although the content is not taken.
resolveFromContentEarlyStat ==
  /\ resolving.phase = "read"
  /\ lastResolvedFileStat' = IF resolving.mtime >= lastResolvedFileStat THEN resolving.mtime ELSE lastResolvedFileStat
  /\ IF resolving.versionId # versionId
     THEN ResolveEnds(FALSE, flags, versionId)
     ELSE /\ resolving' = [resolving EXCEPT !.phase = "update"]
          /\ UNCHANGED <<flags, reverting, reloads>>
  /\ UNCHANGED <<model, saves, disk, ghosts>>

\* The read is abandoned if the content changed meanwhile; else the stat is
\* remembered and the model is asked to take the content.
resolveFromContent ==
  /\ resolving.phase = "read"
  /\ IF resolving.versionId # versionId
     THEN /\ ResolveEnds(FALSE, flags, versionId)
          /\ UNCHANGED lastResolvedFileStat
     ELSE /\ lastResolvedFileStat' = IF resolving.mtime >= lastResolvedFileStat THEN resolving.mtime ELSE lastResolvedFileStat
          /\ resolving' = [resolving EXCEPT !.phase = "update"]
          /\ UNCHANGED <<flags, reverting, reloads>>
  /\ UNCHANGED <<model, saves, disk, ghosts>>

\* The model has taken what the stream brought: read before or after the stat.
updateModel ==
  /\ resolving.phase = "update"
  /\ \E c \in {resolving.content, file.content} : contents' = Append(contents, c)
  /\ version' = Len(contents) + 1
  /\ versionId' = versionId + 1
  /\ ResolveEnds(FALSE, clean(Len(contents) + 1), versionId + 1)
  /\ asked' = 0
  /\ UNCHANGED <<undoneRecently, lastResolvedFileStat, saves, disk, excused, raced, spent>>

\* The read, or the update of the model, fails.
resolveFails ==
  /\ resolving.phase \in {"reading", "update"}
  /\ Disturb("failures")
  /\ ResolveEnds(TRUE, flags, versionId)
  /\ raced' = (raced \/ resolving.phase = "update")
  /\ ForgetIfClean
  /\ UNCHANGED <<model, lastResolvedFileStat, saves, disk, excused>>

\* Mutant: a reload that is running is enough.
queueWorkingCopyReloadOne == IF reloads <= 0 THEN reloads + 1 ELSE reloads

\* One running and one queued reload are enough for every event to be seen.
queueWorkingCopyReload == IF reloads <= 1 THEN reloads + 1 ELSE reloads

\* The watcher reports that the file changed; dirty copies are left alone.
onDidFilesChange ==
  /\ changed
  /\ changed' = FALSE
  /\ reloads' = IF flags.dirty THEN reloads ELSE queueWorkingCopyReload
  /\ UNCHANGED <<model, flags, lastResolvedFileStat, saves, resolving, reverting, file, stored, ghosts>>

\* reload(), once no resolve is pending.
reload ==
  /\ reloads > 0
  /\ resolving = NoResolve
  /\ resolving' = resolve("reload", flags, versionId)
  /\ reloads' = IF resolving' = NoResolve THEN reloads - 1 ELSE reloads
  /\ UNCHANGED <<model, flags, lastResolvedFileStat, saves, reverting, disk, ghosts>>

(***************************************************************************)
(* revert(): the flags are cleared at once; unless it is soft the copy is  *)
(* resolved again, after a resolve that is pending.  force also reverts a  *)
(* copy that is not dirty.                                                 *)
(***************************************************************************)
revert(force, soft) ==
  /\ flags.dirty \/ force
  /\ reverting.phase = "none"
  /\ Disturb("reverts")
  /\ excused' = excused \cup {shown}
  /\ flags' = clean(version)
  /\ asked' = 0
  /\ \/ /\ soft
        /\ UNCHANGED <<resolving, reverting>>
     \/ /\ ~soft
        /\ resolving # NoResolve
        /\ reverting' = [phase |-> "joining", flags |-> flags]
        /\ UNCHANGED resolving
     \/ /\ ~soft
        /\ resolving = NoResolve
        /\ resolving' = resolve("revert", clean(version), versionId)
        /\ reverting' = IF resolving' = NoResolve THEN reverting ELSE [phase |-> "resolving", flags |-> flags]
  /\ UNCHANGED <<model, lastResolvedFileStat, saves, disk, reloads, raced>>

\* Another program writes the file.  Between the validation of a save and
\* the stat after its write nobody will notice.
externalWrite ==
  /\ Disturb("writes")
  /\ Put(Fresh)
  /\ raced' = (raced \/ \E t \in Save : saves.tasks[t].phase \in {"write", "stat"})
  /\ UNCHANGED <<model, flags, lastResolvedFileStat, saves, resolving, reverting, reloads, excused, asked>>

-----------------------------------------------------------------------------

SaveStep(t) ==
  \/ delayEnds(t) \/ participantsEnd(t) \/ snapshot(t)
  \/ validateWriteFile(t) \/ write(t) \/ stat(t)

ResolveStep == readFile \/ resolveFromContent \/ updateModel

Next ==
  \/ edit
  \/ \E v \in 1..Len(contents) : undo(v)
  \/ undoThresholdPasses
  \/ \E o \in Option : save(o)
  \/ \E t \in Save : cancel(t) \/ SaveStep(t) \/ saveFails(t)
  \/ ResolveStep
  \/ resolveFails
  \/ onDidFilesChange
  \/ reload
  \/ \E force, soft \in BOOLEAN : revert(force, soft)
  \/ externalWrite

Spec == Init /\ [][Next]_vars

(***************************************************************************)
(* Participants, file operations and model updates settle, timers fire and *)
(* file change events arrive.                                              *)
(***************************************************************************)
FairSpec ==
  /\ Spec
  /\ \A t \in Save : WF_vars(SaveStep(t))
  /\ WF_vars(ResolveStep)
  /\ WF_vars(onDidFilesChange)
  /\ WF_vars(reload)

-----------------------------------------------------------------------------
(* Properties *)

Flags == [dirty : BOOLEAN, inConflictMode : BOOLEAN, inErrorMode : BOOLEAN, savedVersionId : Nat]
Tasks == [phase : {"none", "delay", "participants", "snapshot", "validate", "write", "stat"},
          option : Option \cup {"explicit"}, outer : Nat, inner : Nat,
          cancelled : BOOLEAN, mtime : Nat, content : Int]
Sequentializers == [running : [id : Nat, save : {0} \cup Save],
                    queued : {"none"} \cup Option,
                    tasks : [Save -> Tasks]]
Resolves == [phase : {"none", "reading", "read", "update"}, by : {"reload", "revert"},
             versionId : Nat, mtime : Nat, content : Int]
Reverts == [phase : {"none", "joining", "resolving"}, flags : Flags]

\* Types.  The version the model shows exists, and at most one reload runs
\* and one waits.
TypeOK ==
  /\ contents \in Seq(Int)
  /\ version \in 1..Len(contents)
  /\ versionId \in Nat
  /\ undoneRecently \in BOOLEAN
  /\ flags \in Flags
  /\ lastResolvedFileStat \in Nat
  /\ saves \in Sequentializers
  /\ resolving \in Resolves
  /\ reverting \in Reverts
  /\ file \in [content : Int, mtime : Nat]
  /\ changed \in BOOLEAN
  /\ reloads \in 0..2
  /\ stored \subseteq Int
  /\ excused \subseteq Int
  /\ asked \in Nat
  /\ raced \in BOOLEAN
  /\ spent \in [Kind -> Nat]

\* "Never ever must 2 saves execute at the same time": whatever is cancelled,
\* queued or renumbered by participants, one save is alive, and it is the one
\* the sequentializer takes for running, so that joinState awaits it.
OneSaveAtATime ==
  \A t \in Save : saves.tasks[t] # NoSave =>
    /\ saves.running.save = t
    /\ \A u \in Save \ {t} : saves.tasks[u] = NoSave

\* A copy that is not dirty shows a content that has been on disk, unless the
\* user gave it up (revert) or typed it while the model was being reloaded.
CleanWasStored == ~flags.dirty => shown \in stored \cup excused

\* A copy in conflict or error mode, which auto save leaves alone, is dirty,
\* so that it is backed up and asked about, even when a revert that failed
\* sets flags of before back over those of a save.
ErrorMeansDirty == flags.inConflictMode \/ flags.inErrorMode => flags.dirty

\* Dirty write prevention: a save that was not told to overwrite replaces on
\* disk only what this model has held, unless the other write fell between
\* validation and stat of a save or an update of the model failed.
OverwritesOnlySeen ==
  [][\A t \in Save :
       /\ saves.tasks[t].phase = "write" /\ saves'.tasks[t].phase = "stat"
       /\ saves.tasks[t].option # "overwrite" /\ preventSaveConflicts
       /\ ~raced /\ resolving.phase # "update"
       => \E v \in 1..Len(contents) : contents[v] = file.content]_vars

\* The content a save was asked for, or a later one, is written and the user
\* told how that ended, unless the save is cancelled by the user or the copy
\* becomes clean, although saves are dropped in participants, joined, queued
\* over one another and cancelled by the next.
SaveIsHonoured == asked # 0 ~> asked = 0

\* A copy that is told of a change of its file while it is clean and idle
\* comes to show what is on disk, however many changes are reported while
\* reloads are running, if it is left alone and nothing fails.
ReloadShows ==
  (changed /\ file.mtime # lastResolvedFileStat /\ ~flags.dirty /\ ~isRunning(saves))
    ~> \/ shown = file.content
       \/ flags.dirty \/ isRunning(saves)
       \/ spent["failures"] > 0 \/ spent["reverts"] > 0

\* "the version of the model matches with the saved version on disk": with no
\* other program, no failure and no revert, a copy that is clean and at rest
\* shows what is on disk.
CleanIsOnDisk ==
  /\ ~flags.dirty
  /\ ~isRunning(saves) /\ resolving = NoResolve /\ reloads = 0 /\ ~changed
  /\ spent["writes"] + spent["failures"] + spent["reverts"] = 0
  => shown = file.content
=============================================================================
