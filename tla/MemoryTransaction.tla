-------------------------- MODULE MemoryTransaction --------------------------
(***************************************************************************)
(* One Guru's Memory write (commands/memory_write.rs, memory_git.rs): the  *)
(* durable journal, the Markdown set, the Git index and HEAD, the Chat     *)
(* message that becomes canonical, the compensation of a failed write and  *)
(* the recovery of an interrupted one.  The coordinator admits one writer  *)
(* at a time (module RunCoordinator), so there is one transaction here.    *)
(*                                                                         *)
(* Contents are named relative to the transaction: what the worktree, the  *)
(* index and HEAD hold when it begins is "before", "original", "previous". *)
(* A file is swapped in one step (module FileSwap says why); every other   *)
(* durable effect is a step, a crash may follow each, and each may report  *)
(* an error.  The user and other Git processes act in between.             *)
(***************************************************************************)
EXTENDS MemoryWriteConstants

VARIABLES
    file,        \* the bytes of each target: before, proposed or foreign
    index,       \* the tree of the Git index
    head,        \* the commit HEAD names
    locks,       \* Git lock files that exist
    others,      \* those of them that another live Git process took
    robbed,      \* other processes whose index.lock was removed, unknown to them
    journal,     \* the row of the Memory finalization journal
    message,     \* a Chat write's assistant message: open, complete
    quarantined, \* the Guru's MemoryWrite quarantine
    pc,          \* where the write, its compensation or the recovery is
    row,         \* the journal as that command last wrote or read it
    noop,        \* the proposed tree equals HEAD's: created_commit = false
    done,        \* files published by the set that is being applied
    required,    \* the Git error asked for recovery
    result,      \* what the command returned
    touched,     \* the user or other Git processes changed something
    faults, crashes, edits

git    == <<index, head, locks, others, robbed>>
stored == <<journal, message>>
local  == <<row, noop, done, required>>
world  == <<touched, crashes, edits>>
vars   == <<file, git, stored, quarantined, pc, local, result, faults, world>>

Oid  == IF noop THEN "previous" ELSE "commit"
Step == {"idle", "begun", "apply", "undo", "applied", "prepared", "intent",
          "locked", "index_locked", "moving", "published", "verified", "finalized",
          "preflight", "rollback", "rollback_locked", "rollback_index", "reset_head",
          "restore", "forget", "recover", "recover_verify"}

Init ==
    /\ file = [p \in Path |-> "before"]
    /\ index = "original" /\ head = "previous"
    /\ locks = {} /\ others = {} /\ robbed = 0
    /\ journal = None /\ message = "absent"
    /\ quarantined = FALSE /\ pc = "idle"
    /\ row = None /\ noop = FALSE /\ done = {} /\ required = FALSE
    /\ result = "none" /\ touched = FALSE
    /\ faults = 0 /\ crashes = 0 /\ edits = 0

\* An operation reports an error of its own.
Fault == faults < MaxErrors /\ faults' = faults + 1
Quiet == faults' = faults

Take(l) == l \notin locks /\ locks' = locks \cup {l} /\ UNCHANGED <<others, robbed>>

\* Lock files are removed by path, whoever holds them.
Release(L) ==
    /\ locks' = locks \ L /\ others' = others \ L
    /\ robbed' = IF L \cap others = {} THEN robbed ELSE robbed + 1

\* Lock files that belong to the step; they are removed when it fails.
Owned(p) ==
    (IF p \in {"locked", "index_locked", "moving",
               "rollback_locked", "rollback_index", "reset_head"} THEN {"refs"} ELSE {})
      \cup (IF p \in {"index_locked", "rollback_index"} THEN {"index"} ELSE {})

\* A step that goes from one place to the next and reports nothing.
Move(from, to) == pc = from /\ pc' = to /\ Quiet /\ UNCHANGED <<quarantined, result, world>>
\* A step that gives up: the journal, if there is one, keeps the Guru closed.
CloseReleasing(from, L) ==
    /\ pc = from /\ pc' = "idle"
    /\ quarantined' = TRUE /\ result' = "error"
    /\ Release(L)
    /\ UNCHANGED <<local, world>>

Close(from) == CloseReleasing(from, Owned(from))
-----------------------------------------------------------------------------
\* The writer owns the Guru and reads its state: apply_memory_targets_registered
\* up to begin_memory_transaction.
Begin(s) ==
    /\ pc = "idle" /\ ~quarantined
    /\ file' = [p \in Path |-> "before"]
    /\ index' = "original" /\ head' = "previous"
    /\ message' = IF s = "chat" THEN "open" ELSE "absent"
    /\ row' = [scope |-> s, commit |-> NoCommit]
    /\ noop' \in NoopCommits
    /\ done' = {} /\ required' = FALSE
    /\ result' = "none" /\ touched' = (others # {} \/ robbed > 0)
    /\ pc' = "begun"
    /\ UNCHANGED <<locks, others, robbed, journal, quarantined, faults, crashes, edits>>

CreateJournal ==
    /\ Move("begun", "apply")
    /\ journal' = row
    /\ UNCHANGED <<file, git, message, local>>

\* The INSERT may be durable although it reports an error.
CreateJournalFails ==
    /\ Close("begun") /\ Fault
    /\ journal' \in {journal, row}
    /\ UNCHANGED <<file, index, head, message>>

\* apply_memory_markdown_set: one file of the set is published.
ApplyFile(p) ==
    /\ Move("apply", "apply")
    /\ p \notin done /\ file[p] = "before"
    /\ file' = [file EXCEPT ![p] = "proposed"]
    /\ done' = done \cup {p}
    /\ UNCHANGED <<git, stored, row, noop, required>>

\* A file that changed under the write is left alone; an error may be
\* reported before or after the file was published.
ApplyFileFails(p) ==
    /\ pc = "apply" /\ p \notin done /\ pc' = "undo"
    /\ \/ file[p] # "before" /\ Quiet /\ UNCHANGED file
       \/ Fault /\ UNCHANGED file
       \/ Fault /\ file[p] = "before" /\ file' = [file EXCEPT ![p] = "proposed"]
    /\ UNCHANGED <<git, stored, quarantined, local, result, world>>

\* The Memory tree is validated only after the bundle is present.
ValidateApplied ==
    /\ pc = "apply" /\ done = Path
    /\ \/ pc' = "applied" /\ Quiet
       \/ pc' = "undo" /\ Fault
    /\ UNCHANGED <<file, git, stored, quarantined, local, result, world>>

\* rollback_applied_prefix.
UndoFile(p) ==
    /\ Move("undo", "undo")
    /\ p \in done /\ file[p] = "proposed"
    /\ file' = [file EXCEPT ![p] = "before"]
    /\ done' = done \ {p}
    /\ UNCHANGED <<git, stored, row, noop, required>>

\* Either way the error of the apply leads to the compensation.
LeaveUndo ==
    /\ pc = "undo" /\ pc' = "preflight"
    /\ \/ Quiet /\ (done = {} \/ \E p \in done : file[p] # "proposed")
       \/ Fault
    /\ UNCHANGED <<file, git, stored, quarantined, local, result, world>>

\* The write fails and is compensated; "r" tells whether Git asks for recovery.
CompensateReleasing(from, r, L) ==
    /\ pc = from /\ pc' = "preflight"
    /\ required' = r
    /\ Release(L)
    /\ UNCHANGED <<file, quarantined, row, noop, done, result, world>>

Compensate(from, r) == CompensateReleasing(from, r, Owned(from))

\* prepare_memory_commit_exact creates the commit object; HEAD stays.
Prepare ==
    /\ Move("applied", "prepared")
    /\ head = "previous" /\ index = "original"
    /\ UNCHANGED <<file, git, stored, local>>

PrepareFails ==
    /\ \/ Compensate("applied", TRUE) /\ Quiet /\ (head # "previous" \/ index # "original")
       \/ Compensate("applied", FALSE) /\ Fault
    /\ UNCHANGED <<index, head, stored>>

\* The journal learns the commit id before the ref moves.
RecordIntent ==
    /\ Move("prepared", "intent")
    /\ row' = [row EXCEPT !.commit = Oid]
    /\ journal' = row'
    /\ UNCHANGED <<file, git, message, noop, done, required>>

RecordIntentFails ==
    /\ Compensate("prepared", FALSE) /\ Fault
    /\ journal' \in {journal, [row EXCEPT !.commit = Oid]}
    /\ UNCHANGED <<index, head, message>>
-----------------------------------------------------------------------------
\* finalize_memory_commit: lock the refs, read HEAD again, replace the index
\* under its own lock, then move HEAD.
LockRefs ==
    /\ Move("intent", IF noop THEN "moving" ELSE "locked")
    /\ Take("refs") /\ head = "previous"
    /\ UNCHANGED <<file, index, head, stored, local>>

LockRefsFails ==
    /\ pc = "intent" /\ pc' = "preflight"
    /\ \/ required' = TRUE /\ Quiet /\ ("refs" \in locks \/ head # "previous")
       \/ required' \in BOOLEAN /\ Fault
    /\ UNCHANGED <<file, git, stored, quarantined, row, noop, done, result, world>>

LockIndex ==
    /\ Move("locked", "index_locked")
    /\ Take("index")
    /\ UNCHANGED <<file, index, head, stored, local>>

\* The lock file is renamed over the index.  When another process has removed
\* ours and a third made its own, that one is moved.
Rename(tree) ==
    /\ "index" \in locks
    /\ index' = IF "index" \in others THEN "foreign" ELSE tree

\* Slip: the index was compared before its lock was taken.
PublishIndexUnchecked ==
    /\ Move("index_locked", "moving")
    /\ Rename("published") /\ Release({"index"})
    /\ UNCHANGED <<file, head, stored, local>>

\* replace_index_tree_if_current with the index lock held.
PublishIndex ==
    /\ Move("index_locked", "moving")
    /\ index = "original"
    /\ Rename("published") /\ Release({"index"})
    /\ UNCHANGED <<file, head, stored, local>>

\* The guard that removes index.lock is armed before the file is created: a
\* lock that is held by somebody else is removed when it is met.
Guarded(p) == Owned(p) \cup {"index"}

\* The index may have been replaced when its directory fails to sync.
PublishIndexFails ==
    /\ \/ /\ CompensateReleasing("locked", TRUE, Guarded("locked"))
          /\ "index" \in locks /\ Quiet /\ UNCHANGED index
       \/ /\ Compensate("index_locked", TRUE) /\ Quiet /\ UNCHANGED index
          /\ index # "original" \/ "index" \notin locks
       \/ /\ \E r \in BOOLEAN, L \in {Owned("locked"), Guarded("locked")} :
                CompensateReleasing("locked", r, L)
          /\ Fault /\ UNCHANGED index
       \/ /\ \E r \in BOOLEAN : Compensate("index_locked", r)
          /\ index = "original" /\ Fault
          /\ UNCHANGED index \/ Rename("published")
    /\ UNCHANGED <<head, stored>>

MoveHead ==
    /\ Move("moving", "published")
    /\ head' = Oid /\ Release({"refs"})
    /\ UNCHANGED <<file, index, stored, local>>

\* libgit2 renames the ref last: no error is reported after HEAD moved.
MoveHeadFails ==
    /\ \E r \in BOOLEAN : Compensate("moving", r)
    /\ Fault
    /\ UNCHANGED <<index, head, stored>>

AllProposed == \A p \in Path : file[p] = "proposed"

\* verify_published_memory: a competing edit leaves everything to recovery.
VerifyPublished ==
    /\ Move("published", "verified") /\ AllProposed
    /\ UNCHANGED <<file, git, stored, local>>

VerifyPublishedFails ==
    /\ Close("published") /\ (IF AllProposed THEN Fault ELSE Quiet)
    /\ UNCHANGED <<file, index, head, stored>>

\* The finalize callback: a Chat becomes canonical in one SQLite transaction.
Finalize ==
    /\ Move("verified", "finalized")
    /\ message' = IF row.scope = "chat" THEN "complete" ELSE message
    /\ UNCHANGED <<file, git, journal, local>>

\* Slip: an error of the Chat's transaction is taken for a rollback.
FinalizeAssumesRollback ==
    /\ pc = "verified" /\ row.scope = "chat" /\ pc' = "preflight" /\ Fault
    /\ message' \in {message, "complete"}
    /\ quarantined' = TRUE
    /\ UNCHANGED <<file, git, journal, local, result, world>>

\* An error of the Chat's transaction says nothing of its outcome.
FinalizeFails ==
    /\ pc = "verified" /\ row.scope = "chat" /\ pc' = "recover" /\ Fault
    /\ message' \in {message, "complete"}
    /\ quarantined' = TRUE
    /\ UNCHANGED <<file, git, journal, local, result, world>>

DeleteJournal ==
    /\ pc = "finalized" /\ pc' = "idle" /\ result' = "ok"
    /\ \/ journal' = None /\ Quiet /\ UNCHANGED quarantined
       \/ journal' \in {None, journal} /\ Fault /\ quarantined' = TRUE
    /\ UNCHANGED <<file, git, message, local, world>>
-----------------------------------------------------------------------------
\* compensate_memory_transaction: read every file, restore Git, restore the
\* files, and only then forget the journal.
PreflightRollback ==
    /\ Move("preflight", "rollback")
    /\ \A p \in Path : file[p] # "foreign"
    /\ UNCHANGED <<file, git, stored, local>>

PreflightRollbackFails ==
    /\ Close("preflight")
    /\ IF \E p \in Path : file[p] = "foreign" THEN Quiet ELSE Fault
    /\ UNCHANGED <<file, index, head, stored>>

\* rollback_memory_snapshot: HEAD is where this transaction found or left it.
HeadIsOurs == head = "previous" \/ head = row.commit

RollbackLock ==
    /\ Move("rollback", "rollback_locked")
    /\ Take("refs") /\ HeadIsOurs
    /\ UNCHANGED <<file, index, head, stored, local>>

RollbackLockFails ==
    /\ Close("rollback")
    /\ IF "refs" \in locks \/ ~HeadIsOurs THEN Quiet ELSE Fault
    /\ UNCHANGED <<file, index, head, stored>>

RollbackLockIndex ==
    /\ Move("rollback_locked", "rollback_index")
    /\ Take("index")
    /\ UNCHANGED <<file, index, head, stored, local>>

\* Slip: an index that an earlier attempt restored is not recognised.
IndexIsOursOnce == index = "published" /\ row.commit # NoCommit

IndexIsOurs == index = "original" \/ (index = "published" /\ row.commit # NoCommit)

\* An index that is as it should be is left alone.
RestoreIndex ==
    /\ Move("rollback_index", "reset_head")
    /\ \/ index = "original" /\ UNCHANGED index
       \/ index = "published" /\ IndexIsOurs /\ Rename("original")
    /\ Release({"index"})
    /\ UNCHANGED <<file, head, stored, local>>

RestoreIndexFails ==
    /\ \/ /\ CloseReleasing("rollback_locked", Guarded("rollback_locked"))
          /\ "index" \in locks /\ Quiet /\ UNCHANGED index
       \/ /\ \E L \in {Owned("rollback_locked"), Guarded("rollback_locked")} :
                CloseReleasing("rollback_locked", L)
          /\ Fault /\ UNCHANGED index
       \/ /\ Close("rollback_index") /\ Quiet /\ UNCHANGED index
          /\ ~IndexIsOurs \/ "index" \notin locks
       \/ /\ Close("rollback_index") /\ IndexIsOurs /\ Fault
          /\ UNCHANGED index \/ Rename("original")
    /\ UNCHANGED <<file, head, stored>>

ResetHead ==
    /\ Move("reset_head", "restore")
    /\ head' = "previous" /\ Release({"refs"})
    /\ UNCHANGED <<file, index, stored, local>>

ResetHeadFails ==
    /\ Close("reset_head") /\ Fault
    /\ UNCHANGED <<file, index, head, stored>>

\* rollback_memory_changes_idempotent.
RestoreFile(p) ==
    /\ Move("restore", "restore")
    /\ file[p] = "proposed"
    /\ file' = [file EXCEPT ![p] = "before"]
    /\ UNCHANGED <<git, stored, local>>

FilesRestored ==
    /\ Move("restore", "forget")
    /\ \A p \in Path : file[p] = "before"
    /\ UNCHANGED <<file, git, stored, local>>

\* A failed swap may have restored the file that it reports.
RestoreFails ==
    /\ Close("restore")
    /\ \/ Quiet /\ (\E p \in Path : file[p] = "foreign") /\ UNCHANGED file
       \/ Fault /\ UNCHANGED file
       \/ Fault /\ \E p \in Path : file[p] = "proposed" /\ file' = [file EXCEPT ![p] = "before"]
    /\ UNCHANGED <<index, head, stored>>

\* The command ends and its Guru is open again, unless Git asked for recovery.
Resolve(from) ==
    /\ pc = from /\ pc' = "idle"
    /\ journal = row /\ journal' = None
    /\ quarantined' = required /\ Quiet
    /\ UNCHANGED <<file, git, message, local, world>>

\* The delete compares the whole row, and may be durable although it fails.
ResolveFails(from) ==
    /\ Close(from)
    /\ \/ journal # row /\ Quiet /\ UNCHANGED journal
       \/ journal = row /\ Fault /\ journal' \in {None, journal}
    /\ UNCHANGED <<file, index, head, message>>

Forget      == Resolve("forget") /\ result' = "error"
ForgetFails == ResolveFails("forget")
-----------------------------------------------------------------------------
\* retry_quarantined_guru_recovery.
Recover ==
    /\ pc = "idle" /\ quarantined
    /\ \/ /\ journal # None
          /\ row' = journal /\ required' = FALSE /\ pc' = "recover"
          /\ UNCHANGED quarantined
       \/ /\ journal = None
          /\ quarantined' = FALSE
          /\ UNCHANGED <<row, required, pc>>
    /\ result' = "none"
    /\ UNCHANGED <<file, git, stored, noop, done, faults, world>>

\* Slip: HEAD decides for a Chat too.
FinishedByHead == row.commit # NoCommit /\ head = row.commit

\* What recover_memory_finalizations_for_guru takes for a finished write.
Finished ==
    /\ row.commit # NoCommit
    /\ IF row.scope = "chat" THEN message = "complete" ELSE head = row.commit

Decide ==
    /\ Move("recover", IF Finished THEN "recover_verify" ELSE "preflight")
    /\ UNCHANGED <<file, git, stored, local>>

\* verify_finalized_memory_commit and verify_published_memory.
Verified == head = row.commit /\ AllProposed

RecoverVerified ==
    /\ Resolve("recover_verify") /\ UNCHANGED result
    /\ Verified

RecoverVerifyFails ==
    \/ /\ Close("recover_verify")
       /\ IF Verified THEN Fault ELSE Quiet
       /\ UNCHANGED <<file, index, head, stored>>
    \/ ResolveFails("recover_verify") /\ Verified
-----------------------------------------------------------------------------
\* The process dies; the next one quarantines the Gurus that have a journal.
Crash ==
    /\ crashes < MaxRestarts /\ crashes' = crashes + 1
    /\ pc' = "idle" /\ quarantined' = (journal # None)
    /\ row' = None /\ done' = {} /\ required' = FALSE /\ result' = "none"
    /\ UNCHANGED <<file, git, stored, noop, faults, touched, edits>>

\* Somebody else acts: a process that is not this application's.
Outside ==
    /\ touched' = TRUE
    /\ UNCHANGED <<stored, quarantined, pc, local, result, faults, crashes>>

\* The user saves a file.
Save ==
    /\ Outside /\ edits < MaxEdits /\ edits' = edits + 1
    /\ \E p \in Path, v \in {"before", "foreign"} : file' = [file EXCEPT ![p] = v]
    /\ UNCHANGED git

\* Another Git process takes a lock, as Git does, and later changes what it
\* locked, or gives up.
OtherLocks(l) ==
    /\ Outside /\ edits < MaxEdits /\ edits' = edits + 1
    /\ l \notin locks
    /\ locks' = locks \cup {l} /\ others' = others \cup {l}
    /\ UNCHANGED <<file, index, head, robbed>>

OtherEnds(l) ==
    /\ Outside /\ l \in others
    /\ locks' = locks \ {l} /\ others' = others \ {l}
    /\ index' \in IF l = "index" THEN {index, "foreign"} ELSE {index}
    /\ head' \in IF l = "refs" THEN {head, "foreign"} ELSE {head}
    /\ UNCHANGED <<file, robbed, edits>>

\* A process that was robbed renames or removes what is at its lock's path:
\* nothing, the lock of a third process, which is robbed in its place, or
\* ours, torn or filled.
RobbedEnds ==
    /\ Outside /\ robbed > 0
    /\ locks' = locks \ {"index"} /\ others' = others \ {"index"}
    /\ robbed' = IF "index" \in others THEN robbed ELSE robbed - 1
    /\ index' \in IF "index" \notin locks THEN {index}
                  ELSE IF "index" \in others THEN {index, "foreign"}
                  ELSE {index, "foreign", "original", "published"}
    /\ UNCHANGED <<file, head, edits>>

Interfere == Save \/ (\E l \in {"refs", "index"} : OtherLocks(l) \/ OtherEnds(l)) \/ RobbedEnds

Write ==
    \/ CreateJournal \/ CreateJournalFails
    \/ \E p \in Path : ApplyFile(p) \/ ApplyFileFails(p) \/ UndoFile(p)
    \/ ValidateApplied \/ LeaveUndo
    \/ Prepare \/ PrepareFails \/ RecordIntent \/ RecordIntentFails
    \/ LockRefs \/ LockRefsFails \/ LockIndex \/ PublishIndex \/ PublishIndexFails
    \/ MoveHead \/ MoveHeadFails \/ VerifyPublished \/ VerifyPublishedFails
    \/ Finalize \/ FinalizeFails \/ DeleteJournal

Rollback ==
    \/ PreflightRollback \/ PreflightRollbackFails
    \/ RollbackLock \/ RollbackLockFails \/ RollbackLockIndex
    \/ RestoreIndex \/ RestoreIndexFails \/ ResetHead \/ ResetHeadFails
    \/ \E p \in Path : RestoreFile(p)
    \/ FilesRestored \/ RestoreFails \/ Forget \/ ForgetFails

Recovery == Recover \/ Decide \/ RecoverVerified \/ RecoverVerifyFails

Next ==
    \/ \E s \in Scope : Begin(s)
    \/ Write \/ Rollback \/ Recovery
    \/ Crash \/ Interfere

Spec == Init /\ [][Next]_vars

\* The command runs to its end, and a quarantined Guru is retried.
FairSpec == Spec /\ WF_vars(Write \/ Rollback) /\ WF_vars(Recovery)
-----------------------------------------------------------------------------
Counters == faults \in Nat /\ crashes \in Nat /\ edits \in Nat

LockTypes ==
    /\ locks \subseteq {"refs", "index"} /\ others \subseteq locks /\ robbed \in Nat
    /\ ~touched => others = {} /\ robbed = 0

TypeOK ==
    /\ file \in [Path -> {"before", "proposed", "foreign"}]
    /\ index \in {"original", "published", "foreign"}
    /\ head \in {"previous", "commit", "foreign"}
    /\ LockTypes
    /\ journal \in Row \cup {None} /\ row \in Row \cup {None}
    /\ message \in {"absent", "open", "complete"}
    /\ pc \in Step /\ (pc # "idle" => row \in Row)
    /\ done \subseteq Path
    /\ result \in {"none", "ok", "error"}
    /\ quarantined \in BOOLEAN /\ noop \in BOOLEAN
    /\ required \in BOOLEAN /\ touched \in BOOLEAN
    /\ Counters

Unchanged ==
    /\ \A p \in Path : file[p] = "before"
    /\ index = "original" /\ head = "previous"

Published ==
    /\ AllProposed
    /\ index = (IF noop THEN "original" ELSE "published") /\ head = Oid

\* "Completed or compensated": an intent that is not resolved keeps its Guru
\* closed, restarts included; an open Guru on which nobody else interfered
\* holds the whole write or no trace of it, in files, index, HEAD and Chat; and
\* the caller is told so: a success of a published write only, a failure on an
\* open Guru of an unpublished one, unless its Chat turned out to be canonical.
AllOrNothing ==
    pc = "idle" =>
      /\ ~quarantined => journal = None
      /\ ~touched /\ ~quarantined =>
           (Unchanged /\ message # "complete") \/ (Published /\ message # "open")
      /\ ~touched /\ result = "ok" => Published
      /\ ~touched /\ ~quarantined /\ result = "error" /\ message # "complete" => Unchanged

\* A Chat message that reads complete has its Memory published, whatever error
\* its SQLite transaction reported and wherever the process died.
CanonicalChatHasMemory ==
    message = "complete" /\ ~touched => Published

\* The Memory, the Chat and what the caller is told agree, at the end of a
\* write and, as to a canonical answer, at every step of it.
AnswerAndMemoryAgree == AllOrNothing /\ CanonicalChatHasMemory

\* Bytes, index entries and refs that somebody else wrote are never replaced
\* by a write, its compensation or the recovery, and their locks on refs are
\* left to them; their lock on the index is not (Guarded).
CompetitorsKept ==
    pc # "idle" /\ ~Interfere =>
        /\ \A p \in Path : file[p] = "foreign" => file'[p] = "foreign"
        /\ index = "foreign" => index' = "foreign"
        /\ head = "foreign" => head' = "foreign"
        /\ others \ {"index"} \subseteq others'

\* "A crash leaves the Guru quarantined until the intent is idempotently
\* completed or ... compensated" (docs/architecture.md): a recovery that meets
\* no new error and no competing change does not refuse.
RecoveryRefusesOnlyInterference ==
    [][pc # "idle" /\ pc' = "idle" /\ quarantined /\ quarantined'
         /\ faults' = faults /\ crashes' = crashes => touched]_vars

\* Git's lock files outlived the process that held them.
StaleLocks == pc = "idle" /\ locks \ others # {}

\* Every write is resolved in the end, for as long as nobody interferes: no
\* error, crash or half-done compensation leaves a state that the recovery
\* cannot get past, but for stale locks and a commit that changes nothing.
EventuallyOpen == []<>(touched \/ noop \/ StaleLocks \/ (pc = "idle" /\ ~quarantined))

\* The write is decided when the Chat message reads complete or, when there is
\* none, when HEAD moves: the refinement of what a write promises.
Atomic == INSTANCE AtomicMemoryCommit WITH
    open      <- pc = "idle" /\ ~quarantined,
    disturbed <- touched \/ noop,
    committed <- IF message = "absent" THEN head = "commit" ELSE message = "complete",
    memory    <- IF Unchanged THEN "old" ELSE IF Published THEN "new" ELSE "mixed"

\* A write is decided once, is never taken back, and leaves the Guru open with
\* exactly what was decided, through every error, crash and recovery.
ImplementsAtomicCommit == Atomic!AtomicSpec
=============================================================================
