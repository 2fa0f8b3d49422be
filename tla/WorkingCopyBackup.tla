-------------------------- MODULE WorkingCopyBackup --------------------------
(***************************************************************************)
(* Hot exit: the backup tracker of a window, the backup service with its   *)
(* queue of I/O per backup file, and what the tracker does when the window *)
(* is asked to close (vs/workbench/services/workingCopy, lifecycle).       *)
(*                                                                         *)
(* The renderer has one thread; a step is what runs between two awaits.    *)
(* The steps of file operations, timers, dialogs and of the user           *)
(* interleave, and the program can crash between any two.                  *)
(*                                                                         *)
(* A working copy is a file working copy seen from the tracker: what it    *)
(* shows, whether it is modified, the mtime it knows (its backup's meta).  *)
(* Contents are numbers: 0 is what the files hold at first, 1 what the     *)
(* backups hold that the first window finds, and every edit makes a new    *)
(* one.                                                                    *)
(***************************************************************************)
EXTENDS Integers, Sequences, FiniteSets

CONSTANTS
  Copy,                \* working copies, each with a file and a backup file
  Scratchpad,          \* those with the Scratchpad capability
  AutoSave,            \* those that are auto saved
  Found,               \* those that the first window finds a backup of
  hotExit,             \* files.hotExit
  emptyWindow,         \* no workspace or folder is open
  lastWindow,          \* closing the window quits the application
  Reason,              \* why the window is asked to close
  MaxChanges,          \* bound: edits
  MaxOperations,       \* bound: undos, saves, reverts, closed editors
  MaxFailures,         \* bound: operations that fail or are cut short
  MaxShutdowns         \* bound: shutdowns and crashes

ASSUME ConfigurationAssumption ==
  /\ Scratchpad \subseteq Copy /\ AutoSave \subseteq Copy /\ Found \subseteq Copy
  /\ IsFiniteSet(Copy)
  /\ hotExit \in {"off", "onExit", "onExitAndWindowClose"}
  /\ emptyWindow \in BOOLEAN /\ lastWindow \in BOOLEAN
  /\ Reason \subseteq {"CLOSE", "QUIT", "RELOAD", "LOAD"}
ASSUME BoundsAssumption == {MaxChanges, MaxOperations, MaxFailures, MaxShutdowns} \subseteq Nat

VARIABLES
  copy,         \* the working copies, with the content version of the tracker
  disk,         \* their files
  backupFile,   \* their backup files
  pending,      \* pendingBackupOperations of the tracker
  io,           \* ioOperationQueues of the service
  cache,        \* the model of the service: known backups
  suspended,    \* of the tracker
  unrestored,   \* unrestoredBackups
  isReady,      \* the backups to restore are known
  shutdown,     \* the shutdown that is being handled
  interrupted,  \* ghost: copies the tracker was kept from bringing in step with their backup,
                \* or does not wait for any longer though they are not open
  reused,       \* ghost: copies that began to count their versions anew under an older entry
  excused,      \* ghost: copies the shutdown does not answer for: changed since it began, or given up
  owed,         \* ghost: what the next window has to show
  spent         \* ghost: how much of each bound is used

tracker == <<pending, suspended, unrestored, isReady>>
service == <<io, cache, backupFile>>
ghosts == <<interrupted, reused, excused, owed, spent>>
vars == <<copy, disk, tracker, service, shutdown, ghosts>>

Unknown == -1   \* the meta data of a backup that was only listed
Nothing == -1   \* no content
NoBackup == [state |-> "none", content |-> Nothing, meta |-> 0]
Idle == [op |-> "none", content |-> Nothing, meta |-> 0]
NoEntry == [known |-> FALSE, version |-> 0, meta |-> 0]
Closed == [state |-> "closed", content |-> 0, version |-> 0, modified |-> FALSE,
           reverting |-> FALSE, undoable |-> TRUE, stat |-> 0]
NoShutdown == [phase |-> "running", reason |-> "CLOSE", list |-> {}, left |-> {},
               backups |-> {}, error |-> FALSE, count |-> 0]
Excuse(c) == excused' = IF shutdown.phase = "running" THEN excused ELSE excused \cup {c}
Kind == {"changes", "operations", "failures", "shutdowns"}

\* What the model knows of backups of which only the files are listed.
Listed(files) == [c \in Copy |-> IF files[c].state = "none" THEN NoEntry
                                 ELSE [known |-> TRUE, version |-> 0, meta |-> Unknown]]

Init ==
  /\ copy = [c \in Copy |-> Closed]
  /\ disk = [c \in Copy |-> [content |-> 0, mtime |-> 0]]
  /\ backupFile = [c \in Copy |-> IF c \in Found THEN [state |-> "whole", content |-> 1, meta |-> 0] ELSE NoBackup]
  /\ pending = [c \in Copy |-> Idle]
  /\ io = [c \in Copy |-> <<>>]
  /\ cache = Listed(backupFile)
  /\ suspended = FALSE
  /\ unrestored = {}
  /\ isReady = FALSE
  /\ shutdown = NoShutdown
  /\ interrupted = {}
  /\ reused = {}
  /\ excused = {}
  /\ owed = [c \in Copy |-> IF c \in Found THEN 1 ELSE 0]
  /\ spent = [k \in Kind |-> 0]

Alive == shutdown.phase # "gone"
modifiedWorkingCopies(cs) == {c \in Copy : cs[c].modified}

Spend(kind, max) ==
  /\ spent[kind] < max
  /\ spent' = [spent EXCEPT ![kind] = @ + 1]

-----------------------------------------------------------------------------
(* WorkingCopyBackupsModel and the queue of I/O of one backup file: q is   *)
(* the queue, its first task runs; e is the entry of the model.            *)

\* Mutant: any version will do.
hasAnyVersion(e, version, meta) == e.known /\ e.meta = meta

has(e, version, meta) == e.known /\ e.version = version /\ e.meta = meta

\* Mutant: any backup will do.
hasAnyBackupSync(c) == cache[c].known

hasBackupSync(c) == cache[c].known /\ cache[c].version = copy[c].version

backupTask(content, version, meta, by) ==
  [kind |-> "backup", phase |-> "waiting", by |-> by, content |-> content, version |-> version, meta |-> meta]
discardTask(by) == [kind |-> "discard", phase |-> "waiting", by |-> by, content |-> 0, version |-> 0, meta |-> 0]
resolveTask == [kind |-> "resolve", phase |-> "waiting", by |-> "open", content |-> 0, version |-> 0, meta |-> 0]

\* A backup of what the model already has returns early.
Needed(t, e) == t.kind = "backup" => ~has(e, t.version, t.meta)
\* How many tasks at the front end at once, without I/O.
Skipped(q, e) == CHOOSE n \in 0..Len(q) :
  /\ \A i \in 1..n : ~Needed(q[i], e)
  /\ n < Len(q) => Needed(q[n + 1], e)
\* The queue runs its next task as soon as it can.
Begun(q, e) ==
  IF Skipped(q, e) = Len(q) THEN <<>>
  ELSE [SubSeq(q, Skipped(q, e) + 1, Len(q)) EXCEPT ![1].phase = "begun"]
Queued(q, e, t) == IF q = <<>> THEN Begun(<<t>>, e) ELSE Append(q, t)

Without(q, n) == [i \in 1..(Len(q) - 1) |-> IF i < n THEN q[i] ELSE q[i + 1]]

\* The operation of `who` is cancelled: its task, there is one at most, comes
\* to nothing if it waits, and goes on for nobody if it runs.
Cancelled(q, who) ==
  LET n == CHOOSE i \in 1..Len(q) : q[i].by = who
  IN  IF \A i \in 1..Len(q) : q[i].by # who THEN q
      ELSE IF q[n].phase = "waiting" THEN Without(q, n)
      ELSE [q EXCEPT ![n].by = "nobody"]

\* Mutant: a backup that needs no I/O is not awaited properly.
SettleOne(c, q, e, by, failed) ==
  /\ io' = [io EXCEPT ![c] = Begun(q, e)]
  /\ cache' = [cache EXCEPT ![c] = e]
  /\ pending' = [pending EXCEPT ![c] = IF by = "tracker" THEN Idle ELSE @]
  /\ shutdown' = [shutdown EXCEPT !.left = IF by = "shutdown" THEN @ \ {c} ELSE @,
                                  !.backups = IF by = "shutdown" /\ shutdown.phase = "backup" THEN @ \cup {c} ELSE @]

\* A task of `by` has ended, or failed.  The queue of c is now q, its entry e;
\* tasks at its front that need no I/O settle as well, and whoever awaits a
\* task goes on: a shutdown takes note of the backups and of an error.
Settle(c, q, e, by, failed) ==
  LET skipped == {q[i].by : i \in 1..Skipped(q, e)}
      made == IF failed THEN skipped ELSE skipped \cup {by}
      backingUp == shutdown.phase = "backup"
  IN  /\ io' = [io EXCEPT ![c] = Begun(q, e)]
      /\ cache' = [cache EXCEPT ![c] = e]
      /\ pending' = [pending EXCEPT ![c] = IF "tracker" \in skipped \cup {by} THEN Idle ELSE @]
      /\ shutdown' = [shutdown EXCEPT
           !.left = IF "shutdown" \in skipped \cup {by} THEN @ \ {c} ELSE @,
           !.backups = IF backingUp /\ "shutdown" \in made THEN @ \cup {c} ELSE @,
           !.error = @ \/ (backingUp /\ failed /\ by = "shutdown")]

-----------------------------------------------------------------------------
(* The tracker *)

\* Mutant: a backup that is under way is left to it.
scheduleBackupIfIdle(c) ==
  /\ pending' = IF pending[c] = Idle THEN [pending EXCEPT ![c].op = "timer"] ELSE pending
  /\ UNCHANGED io

scheduleBackup(c) ==
  /\ pending' = [pending EXCEPT ![c] = [Idle EXCEPT !.op = "timer"]]
  /\ io' = [io EXCEPT ![c] = Cancelled(@, "tracker")]

discardBackup(c) ==
  /\ pending' = [pending EXCEPT ![c] = [Idle EXCEPT !.op = "discard"]]
  /\ io' = [io EXCEPT ![c] = Queued(Cancelled(@, "tracker"), cache[c], discardTask("tracker"))]

(***************************************************************************)
(* Working copy c has become k: onDidChangeDirty, if dirty, and then       *)
(* onDidChangeContent, if content.                                         *)
(***************************************************************************)
Changed(c, k, dirty, content) ==
  /\ copy' = [copy EXCEPT ![c] = [k EXCEPT !.version = IF content THEN @ + 1 ELSE @]]
  /\ interrupted' = IF suspended /\ (dirty \/ content) THEN interrupted \cup {c} ELSE interrupted
  /\ \/ /\ ~suspended /\ k.modified /\ (dirty \/ content)
        /\ scheduleBackup(c)
     \/ /\ ~suspended /\ ~k.modified /\ dirty
        /\ discardBackup(c)
     \/ /\ suspended \/ ~(dirty \/ (k.modified /\ content))
        /\ UNCHANGED <<pending, io>>

\* The timer of a scheduled backup: of a copy that is still modified a
\* snapshot is taken, and awaited.
timer(c) ==
  /\ Alive
  /\ pending[c].op = "timer"
  /\ pending' = [pending EXCEPT ![c] =
       IF copy[c].modified THEN [op |-> "snapshot", content |-> copy[c].content, meta |-> copy[c].stat] ELSE Idle]
  /\ UNCHANGED <<copy, disk, service, suspended, unrestored, isReady, shutdown, ghosts>>

\* The snapshot goes to the service, with the version that the copy has now,
\* if the copy is still modified.
snapshotTaken(c) ==
  /\ Alive
  /\ pending[c].op = "snapshot"
  /\ LET t == backupTask(pending[c].content, copy[c].version, pending[c].meta, "tracker")
     IN  IF copy[c].modified /\ Needed(t, cache[c])
         THEN /\ pending' = [pending EXCEPT ![c].op = "backup"]
              /\ io' = [io EXCEPT ![c] = Queued(@, cache[c], t)]
         ELSE /\ pending' = [pending EXCEPT ![c] = Idle]
              /\ UNCHANGED io
  /\ UNCHANGED <<copy, disk, cache, backupFile, suspended, unrestored, isReady, shutdown, ghosts>>

-----------------------------------------------------------------------------
(* The I/O of the service *)

Running(c, kind, phase) ==
  /\ Alive
  /\ io[c] # <<>>
  /\ io[c][1].kind = kind /\ io[c][1].phase = phase

\* The tracker no longer waits for the backup of c to be restored, or the read
\* of it failed: with the backup goes what it held.
GivenUp(c) == copy[c].state # "open" /\ c \in interrupted

\* A write first truncates the file.
truncate(c) ==
  /\ Running(c, "backup", "begun")
  /\ backupFile' = [backupFile EXCEPT ![c] = [NoBackup EXCEPT !.state = "torn"]]
  /\ io' = [io EXCEPT ![c][1].phase = "truncated"]
  /\ UNCHANGED <<copy, disk, tracker, cache, shutdown, ghosts>>

\* A file that was deleted meanwhile stays deleted.
written(c) ==
  /\ Running(c, "backup", "truncated")
  /\ backupFile' = [backupFile EXCEPT ![c] =
       IF @.state = "torn" THEN [state |-> "whole", content |-> io[c][1].content, meta |-> io[c][1].meta]
       ELSE @]
  /\ io' = [io EXCEPT ![c][1].phase = "done"]
  /\ UNCHANGED <<copy, disk, tracker, cache, shutdown, ghosts>>

deleted(c) ==
  /\ Running(c, "discard", "begun")
  /\ backupFile' = [backupFile EXCEPT ![c] = NoBackup]
  /\ io' = [io EXCEPT ![c][1].phase = "done"]
  /\ owed' = [owed EXCEPT ![c] = IF GivenUp(c) THEN Nothing ELSE @]
  /\ UNCHANGED <<copy, disk, tracker, cache, shutdown, interrupted, reused, excused, spent>>

\* The service learns that the file was written or deleted; cancelled or not,
\* the model follows the file.
noted(c) ==
  /\ \E kind \in {"backup", "discard"} : Running(c, kind, "done")
  /\ LET t == io[c][1]
         inStep == IF t.kind = "discard" THEN ~copy[c].modified
                   ELSE copy[c].modified /\ t.version = copy[c].version /\ backupFile[c].state = "whole"
     IN  /\ Settle(c, Tail(io[c]), IF t.kind = "backup" THEN [known |-> TRUE, version |-> t.version, meta |-> t.meta]
                                   ELSE NoEntry, t.by, FALSE)
         /\ interrupted' = IF inStep /\ io'[c] = <<>> THEN interrupted \ {c} ELSE interrupted
  /\ UNCHANGED <<copy, disk, backupFile, suspended, unrestored, isReady, reused, excused, owed, spent>>

\* A write or a delete fails, and is logged.  A shutdown that awaited the
\* backup remembers the error; what it cannot discard it leaves.
ioFails(c) ==
  /\ \/ Running(c, "backup", "begun") \/ Running(c, "backup", "truncated") \/ Running(c, "discard", "begun")
  /\ Spend("failures", MaxFailures)
  /\ Settle(c, Tail(io[c]), cache[c], io[c][1].by, TRUE)
  /\ interrupted' = interrupted \cup {c}
  /\ UNCHANGED <<copy, disk, backupFile, suspended, unrestored, isReady, excused, owed, reused>>

-----------------------------------------------------------------------------
(* What happens to working copies *)

IsOpen(c) == Alive /\ copy[c].state = "open"

edit(c) ==
  /\ IsOpen(c)
  /\ Spend("changes", MaxChanges)
  /\ Changed(c, [copy[c] EXCEPT !.content = spent["changes"] + 2, !.modified = TRUE], ~copy[c].modified, TRUE)
  /\ Excuse(c)
  /\ UNCHANGED <<disk, cache, backupFile, suspended, unrestored, isReady, shutdown, owed, reused>>

\* Undo back to what is saved.
undo(c) ==
  /\ IsOpen(c) /\ copy[c].modified /\ copy[c].undoable /\ ~copy[c].reverting
  /\ Spend("operations", MaxOperations)
  /\ Changed(c, [copy[c] EXCEPT !.content = disk[c].content, !.modified = FALSE], TRUE, TRUE)
  /\ Excuse(c)
  /\ UNCHANGED <<disk, cache, backupFile, suspended, unrestored, isReady, shutdown, owed, reused>>

\* The content is in the file.  A save is refused when the file is newer
\* than what the copy was restored from.
Saved(c) ==
  /\ copy[c].stat = disk[c].mtime
  /\ disk' = [disk EXCEPT ![c] = [content |-> copy[c].content, mtime |-> @.mtime + 1]]
  /\ Changed(c, [copy[c] EXCEPT !.modified = FALSE, !.stat = disk[c].mtime + 1, !.undoable = TRUE], TRUE, FALSE)

save(c) ==
  /\ IsOpen(c) /\ copy[c].modified /\ ~copy[c].reverting
  /\ Spend("operations", MaxOperations)
  /\ Saved(c)
  /\ UNCHANGED <<cache, backupFile, suspended, unrestored, isReady, shutdown, excused, owed, reused>>

\* A forced save of a copy that was not modified fails.
saveFails(c) ==
  /\ IsOpen(c) /\ ~copy[c].modified /\ ~copy[c].reverting
  /\ Spend("failures", MaxFailures)
  /\ Changed(c, [copy[c] EXCEPT !.modified = TRUE], TRUE, FALSE)
  /\ Excuse(c)
  /\ UNCHANGED <<disk, cache, backupFile, suspended, unrestored, isReady, shutdown, owed, reused>>

\* revert() clears the dirty flag and tells nobody until the file is read.
revert(c) ==
  /\ IsOpen(c) /\ copy[c].modified /\ ~copy[c].reverting
  /\ Spend("operations", MaxOperations)
  /\ copy' = [copy EXCEPT ![c].modified = FALSE, ![c].reverting = TRUE]
  /\ Excuse(c)
  /\ UNCHANGED <<disk, tracker, service, shutdown, interrupted, owed, reused>>

\* The file was read; a copy that was edited meanwhile keeps the edit.
reverted(c) ==
  /\ IsOpen(c) /\ copy[c].reverting
  /\ IF copy[c].modified
     THEN Changed(c, [copy[c] EXCEPT !.reverting = FALSE], TRUE, FALSE)
     ELSE Changed(c, [copy[c] EXCEPT !.reverting = FALSE, !.content = disk[c].content,
                                     !.stat = disk[c].mtime, !.undoable = TRUE], TRUE, TRUE)
  /\ Excuse(c)
  /\ UNCHANGED <<disk, cache, backupFile, suspended, unrestored, isReady, shutdown, owed, spent, reused>>

\* The read failed: the copy is dirty again, and again nobody is told.
revertFails(c) ==
  /\ IsOpen(c) /\ copy[c].reverting
  /\ Spend("failures", MaxFailures)
  /\ copy' = [copy EXCEPT ![c].modified = TRUE, ![c].reverting = FALSE]
  /\ interrupted' = interrupted \cup {c}
  /\ Excuse(c)
  /\ UNCHANGED <<disk, tracker, service, shutdown, owed, reused>>

\* The last editor of a copy that is not modified is closed: onDidUnregister.
close(c) ==
  /\ IsOpen(c) /\ ~copy[c].modified /\ ~copy[c].reverting
  /\ Spend("operations", MaxOperations)
  /\ copy' = [copy EXCEPT ![c] = Closed]
  /\ \/ /\ suspended
        /\ interrupted' = interrupted \cup {c}
        /\ UNCHANGED <<pending, io>>
     \/ /\ ~suspended
        /\ discardBackup(c)
        /\ UNCHANGED interrupted
  /\ UNCHANGED <<disk, cache, backupFile, suspended, unrestored, isReady, shutdown, excused, owed, reused>>

\* An editor is opened, by the user or to restore a backup: the copy asks the
\* service for its backup, behind the I/O there is.
open(c) ==
  /\ Alive /\ copy[c].state = "closed"
  /\ copy' = [copy EXCEPT ![c].state = "opening"]
  /\ io' = [io EXCEPT ![c] = Queued(@, cache[c], resolveTask)]
  /\ UNCHANGED <<disk, tracker, cache, backupFile, shutdown, ghosts>>

\* Mutant: the end of the preamble is not looked for.
resolveAny(c) == cache[c].known /\ backupFile[c].state # "none"

\* A backup without the end of its preamble is taken for corrupt.
resolve(c) == cache[c].known /\ backupFile[c].state = "whole"

\* The folder of the backups is gone, and the model does not know it yet.
FileGone(c) == cache[c].known /\ backupFile[c].state = "none"

\* A copy restored from its backup is dirty, and is backed up again: unless the
\* tracker is suspended, or a shutdown is about to discard the backup, it is
\* followed from here on.
opened(c) ==
  /\ Running(c, "resolve", "begun") /\ ~FileGone(c)
  /\ LET b == backupFile[c]
         e == IF resolve(c) THEN [cache[c] EXCEPT !.meta = b.meta] ELSE cache[c]
     IN  /\ copy' = [copy EXCEPT ![c] = [@ EXCEPT
              !.state = "open", !.modified = resolve(c), !.undoable = ~resolve(c),
              !.content = IF resolve(c) THEN b.content ELSE disk[c].content,
              !.stat = IF resolve(c) THEN b.meta ELSE disk[c].mtime]]
         /\ cache' = [cache EXCEPT ![c] = e]
         /\ io' = [io EXCEPT ![c] = Begun(Tail(@), e)]
         /\ reused' = IF e.known /\ e.version # 0 THEN reused \cup {c} ELSE reused
  /\ pending' = [pending EXCEPT ![c] = IF resolve(c) /\ ~suspended THEN [Idle EXCEPT !.op = "timer"] ELSE @]
  /\ interrupted' = IF ~resolve(c) THEN interrupted
                    ELSE IF suspended \/ Len(io[c]) > 1 THEN interrupted \cup {c} ELSE interrupted \ {c}
  /\ owed' = [owed EXCEPT ![c] = Nothing]
  /\ Excuse(c)
  /\ UNCHANGED <<disk, backupFile, suspended, unrestored, isReady, shutdown, spent>>

\* The backup or the file cannot be read: the copy is disposed of, and so is
\* its backup unless the tracker is suspended.
resolveFails(c) ==
  /\ Running(c, "resolve", "begun")
  /\ \/ FileGone(c) /\ UNCHANGED spent
     \/ Spend("failures", MaxFailures)
  /\ copy' = [copy EXCEPT ![c] = Closed]
  /\ LET q == Begun(Tail(io[c]), cache[c])
     IN  \/ /\ suspended
            /\ io' = [io EXCEPT ![c] = q]
            /\ UNCHANGED <<pending, interrupted>>
         \/ /\ ~suspended
            /\ pending' = [pending EXCEPT ![c] = [Idle EXCEPT !.op = "discard"]]
            /\ io' = [io EXCEPT ![c] = Queued(Cancelled(q, "tracker"), cache[c], discardTask("tracker"))]
            /\ interrupted' = interrupted \cup {c}
  /\ UNCHANGED <<disk, cache, backupFile, suspended, unrestored, isReady, shutdown, excused, owed, reused>>

-----------------------------------------------------------------------------
(* Restoring the backups that a window finds *)

\* Every backup that can be identified is to be restored.
resolveBackupsToRestore ==
  /\ Alive /\ ~isReady
  /\ \A c \in Copy : io[c] = <<>>
  /\ unrestored' = {c \in Copy : resolve(c)}
  /\ isReady' = TRUE
  /\ cache' = [c \in Copy |-> IF resolve(c) THEN [cache[c] EXCEPT !.meta = backupFile[c].meta] ELSE cache[c]]
  /\ UNCHANGED <<copy, disk, pending, suspended, io, backupFile, shutdown, ghosts>>

(***************************************************************************)
(* A handler of editors has dealt with the backups it can handle: each has *)
(* an editor, and each is taken off the list.  Editors that are visible    *)
(* are not awaited, however far they have come; the others are open by     *)
(* now, or have been closed again, which is the same to the list.          *)
(***************************************************************************)
restoreBackups ==
  /\ Alive /\ isReady
  /\ \E handled \in SUBSET unrestored \ {{}} : \E visible \in SUBSET handled :
       /\ \A c \in handled \ visible : copy[c].state = "open"
       /\ unrestored' = unrestored \ handled
       /\ interrupted' = interrupted \cup {c \in handled : copy[c].state # "open"}
  /\ UNCHANGED <<copy, disk, pending, suspended, isReady, service, shutdown, reused, excused, owed, spent>>

-----------------------------------------------------------------------------
(* The final veto of a shutdown: NativeWorkingCopyBackupTracker *)

\* What is backed up without asking: `lastWindow` is FALSE on macOS.
shouldBackupBeforeShutdown(reason, m) ==
  CASE hotExit = "off" -> {}
    [] hotExit # "off" /\ reason \in {"QUIT", "RELOAD"} -> m
    [] hotExit = "onExitAndWindowClose" /\ reason \in {"CLOSE", "LOAD"} /\ ~emptyWindow -> m
    [] hotExit # "off" /\ reason = "CLOSE" /\ lastWindow -> m
    [] OTHER -> IF emptyWindow THEN {} ELSE m \cap Scratchpad

\* The shutdown sh goes on with the modified copies m, over the queues q: a
\* backup of the current version is trusted, the others are made now.
handleModifiedBeforeShutdown(sh, m, q) ==
  LET toBackup == shouldBackupBeforeShutdown(sh.reason, m)
      missing == {c \in toBackup : ~hasBackupSync(c)}
      task(c) == backupTask(copy[c].content, copy[c].version, copy[c].stat, "shutdown")
  IN  /\ io' = [c \in Copy |-> IF c \in missing THEN Queued(q[c], cache[c], task(c)) ELSE q[c]]
      /\ shutdown' = [sh EXCEPT !.phase = IF toBackup = {} THEN "confirm" ELSE "backup",
                                !.list = m, !.left = missing, !.backups = toBackup \ missing, !.error = FALSE]

\* The veto is known, and the tracker resumes.
Decide(veto) ==
  /\ shutdown' = IF veto THEN NoShutdown ELSE [NoShutdown EXCEPT !.phase = "decided"]
  /\ suspended' = FALSE

\* No veto: the backups of what was saved or reverted are discarded, unless
\* the tracker does not know yet which backups there are.
noVeto(discards) ==
  \/ /\ isReady
     /\ io' = [c \in Copy |-> IF c \in discards THEN Queued(io[c], cache[c], discardTask("shutdown")) ELSE io[c]]
     /\ shutdown' = [shutdown EXCEPT !.phase = "discard", !.left = discards]
     /\ UNCHANGED suspended
  \/ /\ ~isReady
     /\ Decide(FALSE)
     /\ UNCHANGED io

(***************************************************************************)
(* A shutdown begins.  Pending operations of the tracker are cancelled and *)
(* the tracker is suspended.  Without modified copies all backups are      *)
(* discarded but those that were not restored: in one go, past the queues, *)
(* when there are none of these.                                           *)
(***************************************************************************)
onFinalBeforeShutdown(reason) ==
  /\ shutdown.phase = "running"
  /\ Spend("shutdowns", MaxShutdowns)
  /\ LET m == modifiedWorkingCopies(copy)
         q == [c \in Copy |-> Cancelled(io[c], "tracker")]
         except == IF emptyWindow THEN {} ELSE unrestored
         discards == {c \in Copy \ except : cache[c].known}
         sh == [NoShutdown EXCEPT !.reason = reason, !.list = m]
         lost == {c \in Copy : pending[c].op \in {"timer", "snapshot"} \/ Len(q[c]) < Len(io[c])}
     IN  /\ pending' = [c \in Copy |-> Idle]
         /\ interrupted' = interrupted \cup lost
         /\ \/ /\ m \cap AutoSave # {}
               /\ shutdown' = [sh EXCEPT !.phase = "autosave", !.left = m \cap AutoSave]
               /\ io' = q /\ suspended' = TRUE
            \/ /\ m # {} /\ m \cap AutoSave = {}
               /\ handleModifiedBeforeShutdown(sh, m, q)
               /\ suspended' = TRUE
            \/ /\ m = {} /\ ~isReady
               /\ Decide(FALSE)
               /\ io' = q
            \/ /\ m = {} /\ isReady /\ except = {}
               /\ shutdown' = [sh EXCEPT !.phase = "wipe"]
               /\ io' = q /\ suspended' = TRUE
            \/ /\ m = {} /\ isReady /\ except # {}
               /\ shutdown' = [sh EXCEPT !.phase = "discard", !.left = discards]
               /\ io' = [c \in Copy |-> IF c \in discards THEN Queued(q[c], cache[c], discardTask("shutdown")) ELSE q[c]]
               /\ suspended' = TRUE
  /\ excused' = {}
  /\ UNCHANGED <<copy, disk, cache, backupFile, unrestored, isReady, owed, reused>>

\* A save that the shutdown asked for succeeds, or does not.
Saving(c) == shutdown.phase \in {"autosave", "saving"} /\ c \in shutdown.left

savedBeforeShutdown(c) ==
  /\ Saving(c) /\ copy[c].modified /\ ~copy[c].reverting
  /\ Saved(c)
  /\ shutdown' = [shutdown EXCEPT !.left = @ \ {c}]
  /\ UNCHANGED <<cache, backupFile, suspended, unrestored, isReady, excused, owed, spent, reused>>

notSavedBeforeShutdown(c) ==
  /\ Saving(c)
  /\ \/ /\ ~copy[c].modified \/ copy[c].reverting \/ copy[c].stat # disk[c].mtime
        /\ UNCHANGED spent
     \/ Spend("failures", MaxFailures)
  /\ shutdown' = [shutdown EXCEPT !.left = @ \ {c}]
  /\ UNCHANGED <<copy, disk, tracker, service, interrupted, excused, owed, reused>>

\* The auto saves have ended: what is still modified is handled.
autoSaved ==
  /\ shutdown.phase = "autosave" /\ shutdown.left = {}
  /\ LET m == modifiedWorkingCopies(copy)
     IN  \/ /\ m # {}
            /\ handleModifiedBeforeShutdown(shutdown, m, io)
            /\ UNCHANGED suspended
         \/ /\ m = {}
            /\ noVeto(shutdown.list)
  /\ UNCHANGED <<copy, disk, pending, unrestored, isReady, cache, backupFile, ghosts>>

\* The backups have ended.  With all of them made there is no veto.
backedUp ==
  /\ shutdown.phase = "backup" /\ shutdown.left = {}
  /\ \/ /\ shutdown.backups = shutdown.list
        /\ Decide(FALSE)
     \/ /\ shutdown.backups # shutdown.list
        /\ shutdown' = [shutdown EXCEPT !.phase = IF shutdown.error THEN "error" ELSE "confirm",
                                        !.list = @ \ shutdown.backups]
        /\ UNCHANGED suspended
  /\ UNCHANGED <<copy, disk, pending, unrestored, isReady, service, ghosts>>

\* The user no longer waits: backups are cancelled, saves and discards go on.
cancelProgress ==
  /\ shutdown.phase \in {"autosave", "saving", "backup", "discard"} /\ shutdown.left # {}
  /\ Spend("failures", MaxFailures)
  /\ \/ /\ shutdown.phase = "backup"
        /\ io' = [c \in Copy |-> Cancelled(io[c], "shutdown")]
        /\ shutdown' = [shutdown EXCEPT !.phase = "confirm", !.list = @ \ shutdown.backups, !.left = {}]
     \/ /\ shutdown.phase # "backup"
        /\ shutdown' = [shutdown EXCEPT !.left = {}]
        /\ UNCHANGED io
  /\ UNCHANGED <<copy, disk, tracker, cache, backupFile, interrupted, excused, owed, reused>>

\* The user is asked about what was not backed up: save it,
confirmSave ==
  /\ shutdown.phase = "confirm"
  /\ shutdown' = [shutdown EXCEPT !.phase = "saving", !.left = shutdown.list,
                                  !.count = Cardinality(modifiedWorkingCopies(copy))]
  /\ UNCHANGED <<copy, disk, tracker, service, ghosts>>

\* do not save it,
confirmDontSave ==
  /\ shutdown.phase = "confirm"
  /\ copy' = [c \in Copy |-> IF c \in shutdown.list /\ copy[c].modified
                             THEN [copy[c] EXCEPT !.modified = FALSE, !.undoable = FALSE] ELSE copy[c]]
  /\ interrupted' = interrupted \cup shutdown.list
  /\ noVeto(shutdown.list)
  /\ UNCHANGED <<disk, pending, unrestored, isReady, cache, backupFile, excused, owed, spent, reused>>

\* or stay.
confirmCancel ==
  /\ shutdown.phase = "confirm"
  /\ Decide(TRUE)
  /\ UNCHANGED <<copy, disk, pending, unrestored, isReady, service, ghosts>>

\* The saves have ended.  The number of modified copies is compared, not
\* which they are: one that was not saved can be taken for saved.
confirmedSaves ==
  /\ shutdown.phase = "saving" /\ shutdown.left = {}
  /\ LET m == modifiedWorkingCopies(copy)
         saved == shutdown.count - Cardinality(m)
     IN  \/ /\ saved < Cardinality(shutdown.list)
            /\ Decide(TRUE)
            /\ UNCHANGED <<io, interrupted, excused>>
         \/ /\ saved >= Cardinality(shutdown.list)
            /\ noVeto(shutdown.list)
            /\ interrupted' = interrupted \cup (shutdown.list \cap m)
            /\ excused' = excused \cup (shutdown.list \cap m)
  /\ UNCHANGED <<copy, disk, pending, unrestored, isReady, cache, backupFile, reused, owed, spent>>

\* The error dialog: stay, or shut down anyway.
showErrorDialog ==
  /\ shutdown.phase = "error"
  /\ \E veto \in BOOLEAN :
       /\ Decide(veto)
       /\ excused' = IF veto THEN excused ELSE excused \cup shutdown.list
  /\ UNCHANGED <<copy, disk, pending, unrestored, isReady, service, interrupted, owed, spent, reused>>

\* The folder of the backups is deleted, and then the model cleared.
discardBackups ==
  /\ shutdown.phase = "wipe"
  /\ backupFile' = [c \in Copy |-> NoBackup]
  /\ shutdown' = [shutdown EXCEPT !.phase = "clear"]
  /\ interrupted' = interrupted \cup modifiedWorkingCopies(copy)
  /\ owed' = [c \in Copy |-> IF GivenUp(c) THEN Nothing ELSE owed[c]]
  /\ UNCHANGED <<copy, disk, tracker, io, cache, excused, spent, reused>>

discardedBackups ==
  /\ shutdown.phase = "clear"
  /\ cache' = [c \in Copy |-> NoEntry]
  /\ Decide(FALSE)
  /\ UNCHANGED <<copy, disk, pending, unrestored, isReady, io, backupFile, ghosts>>

\* An error or the user's impatience ends it, and leaves what it leaves.
notDiscardedBackups ==
  /\ shutdown.phase = "wipe"
  /\ Spend("failures", MaxFailures)
  /\ Decide(FALSE)
  /\ interrupted' = Copy
  /\ UNCHANGED <<copy, disk, pending, unrestored, isReady, service, excused, owed, reused>>

\* The discards of noVeto have ended.
discarded ==
  /\ shutdown.phase = "discard" /\ shutdown.left = {}
  /\ Decide(FALSE)
  /\ UNCHANGED <<copy, disk, pending, unrestored, isReady, service, ghosts>>

-----------------------------------------------------------------------------
(* The end of the window, and the next one *)

\* The main process learned that there is no veto and says so: the tracker
\* is suspended for good, the service is joined.
onWillShutdown ==
  /\ shutdown.phase = "decided"
  /\ shutdown' = [shutdown EXCEPT !.phase = "joining"]
  /\ suspended' = TRUE
  /\ pending' = [c \in Copy |-> Idle]
  /\ io' = [c \in Copy |-> Cancelled(io[c], "tracker")]
  /\ interrupted' = interrupted \cup
       {c \in Copy : pending[c].op \in {"timer", "snapshot"} \/ Len(Cancelled(io[c], "tracker")) < Len(io[c])}
  /\ UNCHANGED <<copy, disk, unrestored, isReady, cache, backupFile, excused, owed, spent, reused>>

\* Nothing is under way for c, and the tracker was not kept from following it.
Quiet(c) ==
  /\ copy[c].state = "open" /\ ~copy[c].reverting
  /\ pending[c].op = "none" /\ io[c] = <<>>
  /\ c \notin interrupted \cup reused

\* The window is gone.  The next one owes what c showed, if it was modified,
\* and its file otherwise; nothing where c was left with a stale backup.
\* After a crash it owes what was backed up.
Gone(orderly) ==
  /\ shutdown' = [NoShutdown EXCEPT !.phase = "gone"]
  /\ owed' = [c \in Copy |->
       IF copy[c].state # "open" THEN owed[c]
       ELSE IF copy[c].modified /\ IF orderly THEN c \notin excused \cup reused ELSE Quiet(c) THEN copy[c].content
       ELSE IF ~copy[c].modified /\ Quiet(c) /\ (orderly => c \notin excused) THEN disk[c].content
       ELSE Nothing]
  /\ UNCHANGED <<copy, disk, tracker, service, interrupted, excused, reused>>

joinBackups ==
  /\ shutdown.phase = "joining"
  /\ \A c \in Copy : io[c] = <<>>
  /\ Gone(TRUE)
  /\ UNCHANGED spent

\* The user does not wait for the joiners, or the program crashes.
crash ==
  /\ Alive
  /\ Spend("shutdowns", MaxShutdowns)
  /\ Gone(FALSE)

\* The next window lists the backup files, whole or not.
restart ==
  /\ ~Alive
  /\ copy' = [c \in Copy |-> Closed]
  /\ cache' = Listed(backupFile)
  /\ pending' = [c \in Copy |-> Idle]
  /\ io' = [c \in Copy |-> <<>>]
  /\ suspended' = FALSE
  /\ unrestored' = {}
  /\ isReady' = FALSE
  /\ shutdown' = NoShutdown
  /\ interrupted' = {}
  /\ reused' = {}
  /\ excused' = {}
  /\ UNCHANGED <<disk, backupFile, owed, spent>>

-----------------------------------------------------------------------------

InputOutput(c) == timer(c) \/ snapshotTaken(c) \/ truncate(c) \/ written(c) \/ deleted(c) \/ noted(c)
                  \/ opened(c) \/ resolveFails(c)
User(c) == edit(c) \/ undo(c) \/ save(c) \/ revert(c) \/ close(c) \/ open(c)
Failure(c) == ioFails(c) \/ saveFails(c) \/ revertFails(c)
Restoring == resolveBackupsToRestore \/ restoreBackups
ShuttingDown ==
  \/ \E c \in Copy : savedBeforeShutdown(c) \/ notSavedBeforeShutdown(c)
  \/ autoSaved \/ backedUp \/ confirmedSaves \/ discardBackups \/ discardedBackups \/ discarded
  \/ onWillShutdown \/ joinBackups
Dialog == confirmSave \/ confirmDontSave \/ confirmCancel \/ showErrorDialog

Next ==
  \/ \E c \in Copy : InputOutput(c) \/ User(c) \/ reverted(c) \/ Failure(c)
  \/ Restoring
  \/ \E reason \in Reason : onFinalBeforeShutdown(reason)
  \/ ShuttingDown \/ Dialog \/ cancelProgress \/ notDiscardedBackups
  \/ crash \/ restart

Spec == Init /\ [][Next]_vars

\* Timers fire, file operations end, dialogs are answered, and the main
\* process follows up on a shutdown without a veto.
FairSpec ==
  /\ Spec
  /\ \A c \in Copy : WF_vars(InputOutput(c)) /\ WF_vars(reverted(c))
  /\ WF_vars(ShuttingDown) /\ WF_vars(Dialog)

-----------------------------------------------------------------------------
(* Properties *)

Content == 0..(MaxChanges + 1)
Meta == Nat \cup {Unknown}
Task == [kind : {"backup", "discard", "resolve"}, phase : {"waiting", "begun", "truncated", "done"},
         by : {"tracker", "shutdown", "open", "nobody"}, content : Content, version : Nat, meta : Meta]

\* Types.  A queue never holds more than what runs and one task of the
\* tracker, the shutdown and an opening editor each: cancelled tasks do not
\* pile up behind a slow write.
TypeOK ==
  /\ copy \in [Copy -> [state : {"closed", "opening", "open"}, content : Content, version : Nat, modified : BOOLEAN,
                        reverting : BOOLEAN, undoable : BOOLEAN, stat : Meta]]
  /\ disk \in [Copy -> [content : Content, mtime : Nat]]
  /\ backupFile \in [Copy -> [state : {"none", "torn", "whole"}, content : Content \cup {Nothing}, meta : Meta]]
  /\ pending \in [Copy -> [op : {"none", "timer", "snapshot", "backup", "discard"}, content : Content \cup {Nothing}, meta : Meta]]
  /\ \A c \in Copy : Len(io[c]) <= 4 /\ \A i \in 1..Len(io[c]) : io[c][i] \in Task
  /\ cache \in [Copy -> [known : BOOLEAN, version : Nat, meta : Meta]]
  /\ suspended \in BOOLEAN /\ isReady \in BOOLEAN /\ unrestored \subseteq Copy
  /\ shutdown \in [phase : {"running", "autosave", "backup", "confirm", "saving", "error", "discard", "wipe", "clear",
                            "decided", "joining", "gone"},
                   reason : {"CLOSE", "QUIT", "RELOAD", "LOAD"}, list : SUBSET Copy, left : SUBSET Copy,
                   backups : SUBSET Copy, error : BOOLEAN, count : Nat]
  /\ interrupted \subseteq Copy /\ reused \subseteq Copy /\ excused \subseteq Copy /\ owed \in [Copy -> Content \cup {Nothing}]
  /\ spent \in [Kind -> Nat]

\* With nothing left to do for a copy that the tracker was not kept from
\* following, its backup file holds what it shows if it is modified, and
\* holds no backup if it is not.
QuietIsSafe ==
  Alive => \A c \in Copy : Quiet(c) =>
    IF copy[c].modified THEN backupFile[c].state = "whole" /\ backupFile[c].content = copy[c].content
    ELSE backupFile[c].state # "whole"

\* What a shutdown trusts: a backup that the model knows at the content
\* version of a modified copy is whole and holds what the copy shows.
TrustedBackup ==
  shutdown.phase \in {"running", "autosave"} =>
  \A c \in Copy \ reused : (IsOpen(c) /\ copy[c].modified /\ hasBackupSync(c)) =>
    \/ backupFile[c].state = "whole" /\ backupFile[c].content = copy[c].content
    \/ copy[c].content = disk[c].content

\* A copy shows the work that earlier windows let go, however many it takes until
\* it is opened, unless its backup was discarded after restoreBackups had taken it
\* off the list too early, or after it could not be read (GivenUp).
ReopenShowsWork ==
  [][\A c \in Copy : opened(c) => owed[c] \in {Nothing, copy'[c].content}]_vars

\* "We never want to discard backups that we know were not restored in the
\* session": none of a copy that is just being opened for the first time.
UnrestoredIsKept ==
  [][discardBackups => \A c \in Copy : owed[c] # Nothing /\ copy[c].state = "opening" =>
                         backupFile[c].state # "whole"]_vars

\* A window that was asked to close stays or goes.
ShutdownDecides == (shutdown.phase # "running") ~> (shutdown.phase \in {"running", "gone"})
=============================================================================
