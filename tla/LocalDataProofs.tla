--------------------------- MODULE LocalDataProofs ---------------------------
(***************************************************************************)
(* Proofs about LocalData, for every value of its constants: the           *)
(* publication of a file (FileSwap), the same on Windows (ReplaceSwap); a  *)
(* write with its errors, crashes, compensation and recovery, which        *)
(* implements one atomic decision; and the changes that turns and Library  *)
(* commands apply.                                                         *)
(***************************************************************************)
EXTENDS LocalData, Sequences, FiniteSetTheorems, TLAPS
-----------------------------------------------------------------------------
\* What each step may rely on when it moves or removes the artifact.
ArtifactAt ==
    /\ pc = "writing" => artifact = "torn"
    /\ pc \in {"move_in", "exchange"} => artifact = New
    /\ pc = "unlink" => artifact = Old
    /\ pc \in {"inspect", "target_check", "swap_back", "inspect_back", "inspect_out",
               "put_in"} => artifact # "torn"
    /\ pc \in {"move_out", "inspect_out", "put_in"} => New = "absent"
    /\ pc \in {"clear", "discard"} => artifact \notin User
    /\ pc \in {"done", "reread", "preflight"} \cup Settled => artifact = "absent"

\* Where the target stands while no user interferes.
TargetAt ==
    saves = 0 =>
        /\ target \in {Before, After}
        /\ pc \in {"stage", "writing", "move_in", "exchange", "move_out"} => target = Old
        /\ pc \in {"inspect", "unlink", "inspect_out", "done"} => target = New
        /\ pc = "inspect" => artifact = Old
        /\ pc = "inspect_out" => artifact = Old
        /\ pc \in {"target_check", "swap_back", "inspect_back", "put_in"} => FALSE
        /\ pc = "kept" => target = After
        /\ pc = "restored" => target = Before

Shape ==
    /\ TypeOK
    /\ back => pc \notin {"preflight", "kept"}
    /\ pc = "restored" => back

Inv == Shape /\ ArtifactAt /\ TargetAt

LEMMA InitInv == Init => Inv
<1> SUFFICES ASSUME Init
             PROVE  Inv
  OBVIOUS
<1>1. Shape
  BY DEF Init, Shape, TypeOK, Kind, Step, Settled, Retry, Before
<1>2. ArtifactAt
  BY DEF Init, ArtifactAt, Settled
<1>3. TargetAt
  BY DEF Init, TargetAt, Before, After
<1> QED
  BY <1>1, <1>2, <1>3 DEF Inv

LEMMA StepInv == Inv /\ [Next]_vars => Inv'
<1> SUFFICES ASSUME Inv, [Next]_vars
             PROVE  Inv'
  OBVIOUS
<1> USE UserAssumption, BoundAssumption
<1> USE DEF Inv, Shape, TypeOK, ArtifactAt, TargetAt, Kind, Step, Settled, Retry, Before,
            After, Old, New, disk, Fault, Quiet, At, Goto, Swap, First
<1>1. CASE Preflight \/ CreateArtifact \/ FillArtifact \/ WriteStops
  BY <1>1 DEF Preflight, CreateArtifact, FillArtifact, WriteStops
<1>2. CASE MoveIn \/ Exchange \/ ExchangeUnsynced
  BY <1>2 DEF MoveIn, Exchange, ExchangeUnsynced
<1>3. CASE Inspect \/ Unlink \/ Discard
  BY <1>3 DEF Inspect, Unlink, Discard
<1>4. CASE TargetCheck \/ SwapBack \/ InspectBack
  <2>1. CASE TargetCheck
    BY <2>1 DEF TargetCheck
  <2>2. CASE SwapBack
    BY <2>2 DEF SwapBack
  <2>3. CASE InspectBack
    BY <2>3 DEF InspectBack
  <2> QED
    BY <1>4, <2>1, <2>2, <2>3
<1>5. CASE MoveOut \/ InspectOut \/ PutIn
  <2>1. CASE MoveOut
    BY <2>1 DEF MoveOut
  <2>2. CASE InspectOut
    BY <2>2 DEF InspectOut
  <2>3. CASE PutIn
    BY <2>3 DEF PutIn
  <2> QED
    BY <1>5, <2>1, <2>2, <2>3
<1>6. CASE CallFails
  BY <1>6 DEF CallFails
<1>7. CASE Settle \/ Undo \/ Recover
  <2>1. CASE Settle
    BY <2>1 DEF Settle
  <2>2. CASE Undo
    BY <2>2 DEF Undo
  <2>3. CASE Recover
    BY <2>3 DEF Recover
  <2> QED
    BY <1>7, <2>1, <2>2, <2>3
<1>8. CASE Judge \/ Reconcile \/ Clear \/ Reread
  <2>1. CASE Judge
    BY <2>1 DEF Judge
  <2>2. CASE Reconcile
    BY <2>2 DEF Reconcile
  <2>3. CASE Clear
    BY <2>3 DEF Clear
  <2>4. CASE Reread
    BY <2>4 DEF Reread
  <2> QED
    BY <1>8, <2>1, <2>2, <2>3, <2>4
<1>9. CASE Crash \/ UNCHANGED vars
  BY <1>9 DEF Crash, vars
<1>10. ASSUME NEW k \in Kind, Begin(k)
       PROVE  Inv'
  BY <1>10 DEF Begin
<1>11. ASSUME NEW v \in User \cup {"absent"}, Save(v)
       PROVE  Inv'
  BY <1>11 DEF Save
<1> QED
  BY <1>1, <1>2, <1>3, <1>4, <1>5, <1>6, <1>7, <1>8, <1>9, <1>10, <1>11
  DEF Next, Publish, Resume

\* Every variable stays in its set; in particular no torn artifact is ever
\* published into the target.
THEOREM TypeCorrect == Spec => []TypeOK
<1>1. Inv => TypeOK
  BY DEF Inv, Shape
<1> QED
  BY <1>1, InitInv, StepInv, PTL DEF Spec

\* A settled change leaves no artifact behind, and without a competing save it
\* is all or nothing, after any number of errors, crashes and recoveries.
LEMMA SettledIsWhole == Spec => []SettledWhole
<1>1. Inv => SettledWhole
  BY DEF Inv, Shape, TypeOK, ArtifactAt, TargetAt, Settled, SettledWhole
<1> QED
  BY <1>1, InitInv, StepInv, PTL DEF Spec
\* One step keeps what a user saved, in one of the two files.
Survives == saves' = saves /\ pc \notin Settled \cup {"discard_out"} => Kept

LEMMA StepSurvives ==
    ASSUME Inv, [Next]_vars
    PROVE  Survives
<1> USE UserAssumption
<1> USE DEF Inv, Shape, TypeOK, ArtifactAt, Survives, Kept, Settled, Before, After, Old, New,
            disk, Quiet, At, Goto, Swap
<1>1. CASE UNCHANGED disk
  BY <1>1
<1>2. CASE CreateArtifact \/ FillArtifact
  BY <1>2 DEF CreateArtifact, FillArtifact
<1>3. CASE MoveIn \/ Exchange \/ SwapBack \/ MoveOut \/ PutIn
  BY <1>3 DEF MoveIn, Exchange, SwapBack, MoveOut, PutIn
<1>4. CASE Unlink \/ Discard \/ Clear
  BY <1>4 DEF Unlink, Discard, Clear
<1>5. CASE Preflight \/ WriteStops \/ Inspect \/ TargetCheck \/ InspectBack \/ InspectOut
             \/ CallFails \/ Settle \/ Undo \/ Recover \/ Judge \/ Reconcile \/ Reread
             \/ Crash \/ UNCHANGED vars
  <2>1. UNCHANGED disk
    BY <1>5 DEF Preflight, WriteStops, Inspect, TargetCheck, InspectBack, InspectOut,
                CallFails, Settle, Undo, Recover, Judge, Reconcile, Reread, Crash, vars
  <2> QED
    BY <1>1, <2>1
<1>6. CASE ExchangeUnsynced
  BY <1>6 DEF ExchangeUnsynced
<1>7. ASSUME NEW k \in Kind, Begin(k)
      PROVE  Survives
  BY <1>7 DEF Begin
<1>8. ASSUME NEW v \in User \cup {"absent"}, Save(v)
      PROVE  Survives
  BY <1>8 DEF Save
<1> QED
  BY <1>2, <1>3, <1>4, <1>5, <1>6, <1>7, <1>8 DEF Next, Publish, Resume

\* What a user saved while a change was under way is never destroyed, but by
\* the removal of an artifact whose exchange did not sync.
LEMMA UserBytes == Spec => SyncedBytesSurvive
<1>1. Inv /\ [Next]_vars => [Survives]_vars
  BY StepSurvives
<1>2. SyncedBytesSurvive <=> [][Survives]_vars
  BY DEF SyncedBytesSurvive, Survives
<1> QED
  BY <1>1, <1>2, InitInv, StepInv, PTL DEF Spec
-----------------------------------------------------------------------------
\* The publication on Windows keeps a backup instead of exchanging the files.
ReplaceShape ==
    /\ wkind \in {"create", "update", "delete"} /\ wsaves \in Nat
    /\ wback \in BOOLEAN /\ wproposed \in BOOLEAN
    /\ wpc = "preflight" => ~wback

\* What each step may rely on when it moves or removes one of the two files
\* beside the target.
ReplacePending ==
    /\ wpc \in {"preflight", "done", "reread"} \cup Windows!Settled => ~Windows!Pending
    /\ wpc = "stage" => Windows!New # "absent"
    /\ wpc \in {"writing", "move_in", "replace"} => swap = "absent" /\ Windows!New # "absent"
    /\ wpc \in {"move_in", "replace"} => incoming = Windows!New
    /\ wpc \in {"inspect", "unlink", "target_check", "replace_back", "inspect_out", "put_in",
               "clear_swap"} => incoming = "absent"
    /\ wpc = "unlink" => swap = Windows!Old
    /\ wpc = "discard" => incoming \notin User
    /\ wpc \in {"writing", "clear_incoming"} => incoming \notin User
    /\ wpc \in {"clear_incoming", "clear_swap"} => swap \notin User
    /\ wpc \in {"move_out", "inspect_out", "put_in"} => Windows!New = "absent"

\* Where the target stands while no user interferes; a replacement that
\* stopped halfway leaves none.
ReplaceTarget ==
    wsaves = 0 =>
        /\ wtarget \in {Windows!Before, Windows!After, "absent"}
        /\ wpc \in {"stage", "writing", "move_in", "replace", "move_out"} => wtarget =
           Windows!Old
        /\ wpc \in {"inspect", "unlink", "inspect_out", "done"} => wtarget = Windows!New
        /\ wpc \in {"inspect", "inspect_out"} => swap = Windows!Old
        /\ wpc \notin {"target_check", "replace_back", "inspect_back", "put_in"}
        /\ wpc = "kept" => wtarget = Windows!After
        /\ wpc = "restored" => wtarget = Windows!Before

ReplaceInv == ReplaceShape /\ ReplacePending /\ ReplaceTarget

LEMMA ReplaceStarts == Windows!ReplaceInit => ReplaceInv
<1> SUFFICES ASSUME Windows!ReplaceInit PROVE ReplaceInv
  OBVIOUS
<1>1. ReplaceShape
  BY DEF Windows!ReplaceInit, ReplaceShape
<1>2. ReplacePending
  BY DEF Windows!ReplaceInit, ReplacePending, Windows!Pending, Windows!Settled
<1>3. ReplaceTarget
  BY DEF Windows!ReplaceInit, ReplaceTarget, Windows!Before, Windows!After
<1> QED
  BY <1>1, <1>2, <1>3 DEF ReplaceInv

\* Every step keeps what the next ones rely on.
LEMMA ReplaceStep ==
    ASSUME ReplaceInv, [Windows!ReplaceNext]_windows
    PROVE  ReplaceInv'
<1> USE UserAssumption
<1> USE DEF ReplaceInv, ReplaceShape, ReplacePending, ReplaceTarget, Windows!Settled,
            Windows!Retry, Windows!Before, Windows!After, Windows!Old,
            Windows!New, Windows!disk, Windows!Fault, Windows!Quiet, Windows!At,
            Windows!Goto, Windows!Pending, Windows!First, Windows!Replaced
<1>1. CASE Windows!Preflight
  BY <1>1 DEF Windows!Preflight
<1>2. CASE Windows!Stage
  BY <1>2 DEF Windows!Stage
<1>3. CASE Windows!Fill
  BY <1>3 DEF Windows!Fill
<1>4. CASE Windows!MoveIn
  BY <1>4 DEF Windows!MoveIn
<1>5. CASE Windows!Replace
  BY <1>5 DEF Windows!Replace
<1>6. CASE Windows!Inspect
  BY <1>6 DEF Windows!Inspect
<1>7. CASE Windows!Unlink
  BY <1>7 DEF Windows!Unlink
<1>8. CASE Windows!Discard
  BY <1>8 DEF Windows!Discard
<1>9. CASE Windows!TargetCheck
  BY <1>9 DEF Windows!TargetCheck
<1>10. CASE Windows!ReplaceBack
  BY <1>10 DEF Windows!ReplaceBack
<1>11. CASE Windows!InspectBack
  BY <1>11 DEF Windows!InspectBack
<1>12. CASE Windows!MoveOut
  BY <1>12 DEF Windows!MoveOut
<1>13. CASE Windows!InspectOut
  BY <1>13 DEF Windows!InspectOut
<1>14. CASE Windows!PutIn
  BY <1>14 DEF Windows!PutIn
<1>15. CASE Windows!CallFails
  BY <1>15 DEF Windows!CallFails
<1>16. CASE Windows!Settle
  BY <1>16 DEF Windows!Settle
<1>17. CASE Windows!Undo
  BY <1>17 DEF Windows!Undo
<1>18. CASE Windows!Recover
  BY <1>18 DEF Windows!Recover
<1>19. CASE Windows!Judge
  BY <1>19 DEF Windows!Judge
<1>20. CASE Windows!Reconcile
  BY <1>20 DEF Windows!Reconcile, Windows!Ours, Windows!IncomingIsOurs
<1>21. CASE Windows!ClearIncoming
  BY <1>21 DEF Windows!ClearIncoming
<1>22. CASE Windows!ClearSwap
  BY <1>22 DEF Windows!ClearSwap
<1>23. CASE Windows!Reread
  BY <1>23 DEF Windows!Reread
<1>24. CASE Windows!Crash
  BY <1>24 DEF Windows!Crash
<1>25. ASSUME NEW v \in User \cup {"absent"}, Windows!Save(v)
       PROVE  ReplaceInv'
  BY <1>25 DEF Windows!Save
<1>26. CASE UNCHANGED windows
  BY <1>26 DEF windows
<1> QED
  BY <1>1, <1>2, <1>3, <1>4, <1>5, <1>6, <1>7, <1>8, <1>9, <1>10, <1>11, <1>12, <1>13, <1>14,
     <1>15, <1>16, <1>17, <1>18, <1>19, <1>20, <1>21, <1>22, <1>23, <1>24, <1>25, <1>26
  DEF Windows!ReplaceNext, Windows!Publish, Windows!Resume

\* What the invariant says of a change that is over.
LEMMA ReplaceWhole == ReplaceInv => Windows!ReplacedWhole
BY DEF ReplaceInv, ReplaceShape, ReplacePending, ReplaceTarget, Windows!ReplacedWhole,
       Windows!Settled, Windows!Pending

\* One step keeps what a user saved, in one of the three files.
LEMMA ReplaceKeeps ==
    ASSUME ReplaceInv, [Windows!ReplaceNext]_windows
    PROVE  Windows!UserBytesKept
<1> SUFFICES ASSUME wsaves' = wsaves, wpc \notin Windows!Settled,
                    NEW u \in User, u \in {wtarget, incoming, swap}
             PROVE  u \in {wtarget', incoming', swap'}
  BY DEF Windows!UserBytesKept
<1>0. u \notin {"absent", "before", "proposed", "torn"}
  BY UserAssumption
<1> USE DEF ReplaceInv, ReplaceShape, ReplacePending, Windows!Settled, Windows!Before,
            Windows!After, Windows!Old, Windows!New, Windows!disk, Windows!Quiet, Windows!At,
            Windows!Goto,
            Windows!Pending, Windows!Replaced
<1>1. CASE UNCHANGED Windows!disk
  BY <1>1
<1>2. CASE Windows!Stage \/ Windows!Fill \/ Windows!MoveIn \/ Windows!PutIn
  BY <1>0, <1>2 DEF Windows!Stage, Windows!Fill, Windows!MoveIn, Windows!PutIn
<1>3. CASE Windows!Replace
  BY <1>0, <1>3 DEF Windows!Replace
<1>4. CASE Windows!ReplaceBack \/ Windows!MoveOut
  BY <1>0, <1>4 DEF Windows!ReplaceBack, Windows!MoveOut
<1>5. CASE Windows!Unlink \/ Windows!Discard \/ Windows!ClearIncoming \/ Windows!ClearSwap
  BY <1>0, <1>5 DEF Windows!Unlink, Windows!Discard, Windows!ClearIncoming, Windows!ClearSwap
<1>6. CASE Windows!Preflight \/ Windows!Inspect \/ Windows!TargetCheck \/ Windows!InspectBack
           \/ Windows!InspectOut \/ Windows!CallFails
             \/ Windows!Settle \/ Windows!Undo \/ Windows!Recover \/ Windows!Judge
             \/ Windows!Reconcile \/ Windows!Reread \/ Windows!Crash
             \/ UNCHANGED windows
  <2>1. UNCHANGED Windows!disk
    BY <1>6 DEF Windows!Preflight, Windows!Inspect, Windows!TargetCheck,
       Windows!InspectBack, Windows!InspectOut, Windows!CallFails, Windows!Settle,
       Windows!Undo, Windows!Recover, Windows!Judge, Windows!Reconcile, Windows!Reread,
       Windows!Crash, windows
  <2> QED
    BY <1>1, <2>1
<1>7. ASSUME NEW v \in User \cup {"absent"}, Windows!Save(v)
      PROVE  FALSE
  BY <1>7 DEF Windows!Save
<1> QED
  BY <1>2, <1>3, <1>4, <1>5, <1>6, <1>7 DEF Windows!ReplaceNext, Windows!Publish,
     Windows!Resume

-----------------------------------------------------------------------------
\* Where a write goes forwards, and where it is taken back.

Prefix    == {"applied", "prepared", "intent", "locked", "index_locked", "moving"}
Undoing   == {"preflight", "rollback", "rollback_locked", "rollback_index", "reset_head",
              "restore", "forget"}

\* The journal and the command agree on what is being written.
JournalFits ==
    /\ journal # None =>
         /\ journal.commit \in {NoCommit, Txn!Oid}
         /\ journal.scope = "chat" <=> message # "absent"
    /\ at # "idle" =>
         /\ row.commit \in {NoCommit, Txn!Oid}
         /\ row.scope = "chat" <=> message # "absent"
         /\ result = "none"
    /\ at \in {"begun", "apply", "undo", "applied", "prepared"} => row.commit = NoCommit
    /\ at \in {"intent", "locked", "index_locked", "moving", "published", "verified",
               "finalized", "recover_verify"} => row.commit = Txn!Oid
    /\ at \notin {"idle", "begun"} =>
         /\ journal # None
         /\ row.commit # NoCommit => journal.commit = row.commit
    /\ at = "recover" => journal = row
    /\ at \in {"locked", "index_locked"} => ~noop
    /\ at = "idle" /\ ~quarantined => journal = None
    /\ at = "begun" => journal = None

\* What the stores hold, whatever the command does.
StoresAt ==
    /\ \A p \in Path : file[p] \in {"before", "proposed"}
    /\ index \in {"original", "published"} /\ head \in {"previous", "commit"}
    /\ noop => index = "original" /\ head = "previous"
    /\ index = "published" \/ head = "commit" =>
         Txn!AllProposed /\ (journal # None => journal.commit = Txn!Oid)
    /\ message = "complete" => Txn!Published /\ (journal # None => journal.commit = Txn!Oid)
    /\ message = "absent" /\ head = "commit" => Txn!Published

\* How far the write, or its compensation, is.
ProgressAt ==
    /\ at = "begun" => Txn!Unchanged /\ done = {}
    /\ at \in {"begun", "apply", "undo"} \cup Prefix \cup Undoing \cup {"published", "verified"} =>
         message # "complete"
    /\ at \in {"apply", "undo"} \cup Prefix => head = "previous"
    /\ at \in {"apply", "undo", "applied", "prepared", "intent", "locked", "index_locked"} =>
         index = "original"
    /\ at = "apply" => \A p \in done : file[p] = "proposed"
    /\ at \in Prefix => Txn!AllProposed
    /\ at = "moving" /\ ~noop => index = "published"
    /\ at \in {"published", "verified", "finalized"} => Txn!Published
    /\ at = "finalized" => message # "open"
    /\ at \in Undoing /\ message = "absent" => head = "previous"
    /\ at \in {"reset_head", "restore"} => index = "original"
    /\ at = "restore" => head = "previous"
    /\ at = "forget" => Txn!Unchanged
    /\ at = "recover_verify" => Txn!Finished

\* What the command left, once it is over.
IdleAt ==
    at = "idle" =>
        /\ journal = None =>
             (Txn!Unchanged /\ message # "complete") \/ (Txn!Published /\ message # "open")
        /\ result = "ok" => Txn!Published
        /\ result = "error" /\ ~quarantined => Txn!Unchanged

WriteInv ==
    /\ Txn!TypeOK /\ JournalFits
    /\ ~touched => StoresAt /\ ProgressAt /\ IdleAt

\* The refs that the command may replace are locked by it and by no other
\* process, and HEAD is what it was when they were.  Of the index no such thing
\* is true: a process whose index.lock was removed may take ours away.
RefsAt ==
    /\ at \in {"locked", "index_locked", "moving"} =>
         "refs" \in locks \ others /\ head = "previous"
    /\ at \in {"rollback_locked", "rollback_index", "reset_head"} =>
         "refs" \in locks \ others /\ head # "foreign"
-----------------------------------------------------------------------------
\* Nothing stands in a row's place but None.
LEMMA NoRow == None \notin Txn!Row
BY NoneAssumption DEF Row, Scope, Txn!Row, Txn!Scope

\* Whoever else acts, it is nobody of this application.
LEMMA OutsideIs == Txn!Interfere => Txn!Outside
BY DEF Txn!Interfere, Txn!Save, Txn!OtherLocks, Txn!OtherEnds, Txn!RobbedEnds

\* The bounded counters are numbers.
LEMMA WriteCounts == Txn!Counters /\ [Txn!Next]_(Txn!vars) => Txn!Counters'
<1> SUFFICES ASSUME Txn!Counters, [Txn!Next]_(Txn!vars) PROVE Txn!Counters'
  OBVIOUS
<1>1. ASSUME errors' \in {errors, errors + 1}, restarts' \in {restarts, restarts + 1},
             edits' \in {edits, edits + 1}
      PROVE  Txn!Counters'
  BY <1>1 DEF Txn!Counters
<1> USE DEF Txn!git, Txn!stored, Txn!local, Txn!world, Txn!Fault, Txn!Quiet, Txn!Move,
        Txn!Close, Txn!CloseReleasing, Txn!Compensate, Txn!CompensateReleasing, Txn!Resolve,
        Txn!ResolveFails
<1>2. CASE Txn!CreateJournal \/ Txn!CreateJournalFails \/ Txn!ValidateApplied
           \/ Txn!LeaveUndo \/ Txn!Prepare
           \/ Txn!PrepareFails \/ Txn!RecordIntent \/ Txn!RecordIntentFails
  BY <1>1, <1>2 DEF Txn!CreateJournal, Txn!CreateJournalFails, Txn!ValidateApplied,
     Txn!LeaveUndo, Txn!Prepare,
     Txn!PrepareFails, Txn!RecordIntent, Txn!RecordIntentFails
<1>3. CASE Txn!LockRefs \/ Txn!LockRefsFails \/ Txn!LockIndex \/ Txn!PublishIndex
           \/ Txn!PublishIndexFails
           \/ Txn!MoveHead \/ Txn!MoveHeadFails
  BY <1>1, <1>3 DEF Txn!LockRefs, Txn!LockRefsFails, Txn!LockIndex, Txn!PublishIndex,
     Txn!PublishIndexFails,
     Txn!MoveHead, Txn!MoveHeadFails
<1>4. CASE Txn!VerifyPublished \/ Txn!VerifyPublishedFails \/ Txn!Finalize
           \/ Txn!FinalizeFails \/ Txn!DeleteJournal
  BY <1>1, <1>4 DEF Txn!VerifyPublished, Txn!VerifyPublishedFails, Txn!Finalize,
     Txn!FinalizeFails,
     Txn!DeleteJournal
<1>5. CASE Txn!PreflightRollback \/ Txn!PreflightRollbackFails \/ Txn!RollbackLock
           \/ Txn!RollbackLockFails
           \/ Txn!RollbackLockIndex \/ Txn!RestoreIndex \/ Txn!RestoreIndexFails
  BY <1>1, <1>5 DEF Txn!PreflightRollback, Txn!PreflightRollbackFails, Txn!RollbackLock,
     Txn!RollbackLockFails, Txn!RollbackLockIndex, Txn!RestoreIndex, Txn!RestoreIndexFails
<1>6. CASE Txn!ResetHead \/ Txn!ResetHeadFails \/ Txn!FilesRestored \/ Txn!RestoreFails
           \/ Txn!Forget \/ Txn!ForgetFails
  BY <1>1, <1>6 DEF Txn!ResetHead, Txn!ResetHeadFails, Txn!FilesRestored, Txn!RestoreFails,
     Txn!Forget, Txn!ForgetFails
<1>7. CASE Txn!Recover \/ Txn!Decide \/ Txn!RecoverVerified \/ Txn!RecoverVerifyFails
  BY <1>1, <1>7 DEF Txn!Recover, Txn!Decide, Txn!RecoverVerified, Txn!RecoverVerifyFails
<1>8. CASE Txn!Crash \/ Txn!Interfere
  <2>1. CASE Txn!Crash
    BY <1>1, <2>1 DEF Txn!Crash
  <2>2. CASE Txn!Interfere
    <3>1. errors' = errors /\ restarts' = restarts /\ edits' \in {edits, edits + 1}
      BY <2>2 DEF Txn!Interfere, Txn!Outside, Txn!Save, Txn!OtherLocks, Txn!OtherEnds,
         Txn!RobbedEnds
    <3> QED
      BY <1>1, <3>1
  <2> QED
    BY <1>8, <2>1, <2>2
<1>9. ASSUME NEW p \in Path,
             Txn!ApplyFile(p) \/ Txn!ApplyFileFails(p) \/ Txn!UndoFile(p) \/ Txn!RestoreFile(p)
      PROVE  Txn!Counters'
  BY <1>1, <1>9 DEF Txn!ApplyFile, Txn!ApplyFileFails, Txn!UndoFile, Txn!RestoreFile
<1>10. ASSUME NEW s \in Txn!Scope, Txn!Begin(s)
      PROVE  Txn!Counters'
  BY <1>1, <1>10 DEF Txn!Begin
<1>11. CASE UNCHANGED Txn!vars
  BY <1>1, <1>11 DEF Txn!vars
<1> QED
  BY <1>2, <1>3, <1>4, <1>5, <1>6, <1>7, <1>8, <1>9, <1>10, <1>11
  DEF Txn!Next, Txn!Write, Txn!Rollback, Txn!Recovery

\* Taking or removing a lock file keeps what is known of the locks,
LEMMA LocksMoved ==
    ASSUME Txn!LockTypes, touched' = touched,
           UNCHANGED <<locks, others, robbed>>
             \/ (\E l \in {"refs", "index"} : Txn!Take(l)) \/ (\E L : Txn!Release(L))
    PROVE  Txn!LockTypes'
<1> USE DEF Txn!LockTypes
<1>1. ASSUME NEW l \in {"refs", "index"}, Txn!Take(l) PROVE Txn!LockTypes'
  BY <1>1 DEF Txn!Take
<1>2. ASSUME NEW L, Txn!Release(L) PROVE Txn!LockTypes'
  <2>1. locks' \subseteq {"refs", "index"} /\ others' \subseteq locks'
    BY <1>2 DEF Txn!Release
  <2>2. robbed' \in Nat
    BY <1>2 DEF Txn!Release
  <2>3. ~touched' => others' = {} /\ robbed' = 0
    BY <1>2 DEF Txn!Release
  <2> QED
    BY <2>1, <2>2, <2>3
<1>3. CASE UNCHANGED <<locks, others, robbed>>
  BY <1>3
<1> QED
  BY <1>1, <1>2, <1>3

\* and no step does anything else to them.
LEMMA WriteLocks ==
    ASSUME Txn!LockTypes, [Txn!Next]_(Txn!vars)
    PROVE  Txn!LockTypes'
<1> DEFINE Stays == /\ touched' = touched
                   /\ \/ UNCHANGED <<locks, others, robbed>>
                      \/ \E l \in {"refs", "index"} : Txn!Take(l)
                      \/ \E L : Txn!Release(L)
<1>0. Stays => Txn!LockTypes'
  BY LocksMoved
<1> USE DEF Txn!git, Txn!stored, Txn!local, Txn!world, Txn!Move, Txn!Close,
        Txn!CloseReleasing, Txn!Compensate, Txn!CompensateReleasing, Txn!Resolve,
        Txn!ResolveFails
<1>1. CASE Txn!CreateJournal \/ Txn!CreateJournalFails \/ Txn!ValidateApplied
           \/ Txn!LeaveUndo \/ Txn!Prepare
           \/ Txn!PrepareFails \/ Txn!RecordIntent \/ Txn!RecordIntentFails
  <2>1. Stays
    BY <1>1 DEF Txn!CreateJournal, Txn!CreateJournalFails, Txn!ValidateApplied,
       Txn!LeaveUndo, Txn!Prepare, Txn!PrepareFails, Txn!RecordIntent, Txn!RecordIntentFails
  <2> QED
    BY <1>0, <2>1
<1>2. CASE Txn!LockRefs \/ Txn!LockRefsFails \/ Txn!LockIndex \/ Txn!PublishIndex
           \/ Txn!PublishIndexFails \/ Txn!MoveHead \/ Txn!MoveHeadFails
  <2>1. Stays
    BY <1>2 DEF Txn!LockRefs, Txn!LockRefsFails, Txn!LockIndex, Txn!PublishIndex,
       Txn!PublishIndexFails, Txn!MoveHead, Txn!MoveHeadFails
  <2> QED
    BY <1>0, <2>1
<1>3. CASE Txn!VerifyPublished \/ Txn!VerifyPublishedFails \/ Txn!Finalize
           \/ Txn!FinalizeFails \/ Txn!DeleteJournal
  <2>1. Stays
    BY <1>3 DEF Txn!VerifyPublished, Txn!VerifyPublishedFails, Txn!Finalize,
       Txn!FinalizeFails, Txn!DeleteJournal
  <2> QED
    BY <1>0, <2>1
<1>4. CASE Txn!PreflightRollback \/ Txn!PreflightRollbackFails \/ Txn!RollbackLock
           \/ Txn!RollbackLockFails \/ Txn!RollbackLockIndex \/ Txn!RestoreIndex
           \/ Txn!RestoreIndexFails
  <2>1. Stays
    BY <1>4 DEF Txn!PreflightRollback, Txn!PreflightRollbackFails, Txn!RollbackLock,
       Txn!RollbackLockFails, Txn!RollbackLockIndex, Txn!RestoreIndex, Txn!RestoreIndexFails
  <2> QED
    BY <1>0, <2>1
<1>5. CASE Txn!ResetHead \/ Txn!ResetHeadFails \/ Txn!FilesRestored \/ Txn!RestoreFails
           \/ Txn!Forget \/ Txn!ForgetFails
  <2>1. Stays
    BY <1>5 DEF Txn!ResetHead, Txn!ResetHeadFails, Txn!FilesRestored, Txn!RestoreFails,
       Txn!Forget, Txn!ForgetFails
  <2> QED
    BY <1>0, <2>1
<1>6. CASE Txn!Recover \/ Txn!Decide \/ Txn!RecoverVerified \/ Txn!RecoverVerifyFails
           \/ Txn!Crash
  <2>1. Stays
    BY <1>6 DEF Txn!Recover, Txn!Decide, Txn!RecoverVerified, Txn!RecoverVerifyFails,
       Txn!Crash
  <2> QED
    BY <1>0, <2>1
<1>7. ASSUME NEW p \in Path,
             Txn!ApplyFile(p) \/ Txn!ApplyFileFails(p) \/ Txn!UndoFile(p) \/ Txn!RestoreFile(p)
      PROVE  Txn!LockTypes'
  <2>1. Stays
    BY <1>7 DEF Txn!ApplyFile, Txn!ApplyFileFails, Txn!UndoFile, Txn!RestoreFile
  <2> QED
    BY <1>0, <2>1
<1>8. ASSUME NEW s \in Txn!Scope, Txn!Begin(s)
      PROVE  Txn!LockTypes'
  <2>1. /\ touched' = (others # {} \/ robbed > 0)
        /\ UNCHANGED <<locks, others, robbed>>
    BY <1>8 DEF Txn!Begin
  <2>2. ~touched' => others = {} /\ ~(robbed > 0)
    BY <2>1, Zenon
  <2> QED
    BY <2>1, <2>2 DEF Txn!LockTypes
<1>9. CASE UNCHANGED Txn!vars
  BY <1>9 DEF Txn!vars, Txn!LockTypes
<1>10. CASE Txn!Interfere
  <2>1. touched'
    BY <1>10, OutsideIs DEF Txn!Outside
  <2>2. CASE Txn!Save
    BY <2>1, <2>2 DEF Txn!Save, Txn!LockTypes
  <2>3. ASSUME NEW l \in {"refs", "index"}, Txn!OtherLocks(l)
        PROVE  Txn!LockTypes'
    BY <2>1, <2>3 DEF Txn!OtherLocks, Txn!LockTypes
  <2>4. ASSUME NEW l \in {"refs", "index"}, Txn!OtherEnds(l)
        PROVE  Txn!LockTypes'
    BY <2>1, <2>4 DEF Txn!OtherEnds, Txn!LockTypes
  <2>5. CASE Txn!RobbedEnds
    <3>1. /\ locks' \subseteq locks /\ locks' = locks \ {"index"}
          /\ others' = others \ {"index"}
          /\ robbed > 0 /\ robbed' \in {robbed, robbed - 1}
      BY <2>5 DEF Txn!RobbedEnds
    <3> QED
      BY <2>1, <3>1 DEF Txn!LockTypes
  <2> QED
    BY <1>10, <2>2, <2>3, <2>4, <2>5 DEF Txn!Interfere
<1> QED
  BY <1>1, <1>2, <1>3, <1>4, <1>5, <1>6, <1>7, <1>8, <1>9, <1>10
  DEF Txn!Next, Txn!Write, Txn!Rollback, Txn!Recovery

\* Every step keeps the types.
LEMMA WriteTypes ==
    ASSUME Txn!TypeOK, [Txn!Next]_(Txn!vars)
    PROVE  Txn!TypeOK'
<1>a. Txn!Counters'
  BY WriteCounts DEF Txn!TypeOK
<1>b. Txn!LockTypes'
  BY WriteLocks DEF Txn!TypeOK
<1>0. /\ \A s \in Txn!Scope : [scope |-> s, commit |-> NoCommit] \in Txn!Row
      /\ \A r \in Txn!Row : [r EXCEPT !.commit = Txn!Oid] \in Txn!Row
  BY DEF Txn!Row, Txn!Oid
<1> USE DEF Txn!TypeOK, Txn!Step, Txn!git, Txn!stored, Txn!local, Txn!world, Txn!Fault,
        Txn!Quiet, Txn!Move
<1>1. CASE Txn!CreateJournal
  BY <1>a, <1>b, <1>1 DEF Txn!CreateJournal
<1>2. CASE Txn!CreateJournalFails
  BY <1>a, <1>b, <1>2 DEF Txn!CreateJournalFails, Txn!Close, Txn!CloseReleasing, Txn!Owned
<1>3. CASE Txn!ValidateApplied
  BY <1>a, <1>b, <1>3 DEF Txn!ValidateApplied
<1>4. CASE Txn!LeaveUndo
  BY <1>a, <1>b, <1>4 DEF Txn!LeaveUndo
<1>5. CASE Txn!Prepare
  BY <1>a, <1>b, <1>5 DEF Txn!Prepare
<1>6. CASE Txn!PrepareFails
  <2>1. /\ at' = "preflight" /\ required' \in BOOLEAN
        /\ UNCHANGED <<file, index, head, Txn!stored, quarantined, row, noop, done, result,
                       touched>>
        /\ at = "applied"
    BY <1>6 DEF Txn!PrepareFails, Txn!Compensate, Txn!CompensateReleasing
  <2> QED
    BY <1>a, <1>b, <2>1
<1>7. CASE Txn!RecordIntent
  BY <1>a, <1>b, <1>0, <1>7 DEF Txn!RecordIntent
<1>8. CASE Txn!RecordIntentFails
  <2>1. /\ at' = "preflight" /\ required' = FALSE /\ at = "prepared"
        /\ UNCHANGED <<file, index, head, message, quarantined, row, noop, done, result, touched>>
    BY <1>8 DEF Txn!RecordIntentFails, Txn!Compensate, Txn!CompensateReleasing
  <2>2. row \in Txn!Row /\ journal' \in Txn!Row \cup {None}
    BY <1>0, <1>8, <2>1 DEF Txn!RecordIntentFails
  <2> QED
    BY <1>a, <1>b, <2>1, <2>2
<1>9. CASE Txn!LockRefs
  BY <1>a, <1>b, <1>9 DEF Txn!LockRefs
<1>10. CASE Txn!LockRefsFails
  <2>1. /\ at' = "preflight" /\ required' \in BOOLEAN /\ at = "intent"
        /\ UNCHANGED <<file, Txn!git, Txn!stored, quarantined, row, noop, done, result, touched>>
    BY <1>10 DEF Txn!LockRefsFails
  <2> QED
    BY <1>a, <1>b, <2>1
<1>11. CASE Txn!LockIndex
  BY <1>a, <1>b, <1>11 DEF Txn!LockIndex
<1>12. CASE Txn!PublishIndex
  BY <1>a, <1>b, <1>12 DEF Txn!PublishIndex, Txn!Rename
<1>13. CASE Txn!PublishIndexFails
  <2>1. /\ at' = "preflight" /\ required' \in BOOLEAN
        /\ index' \in {index, "published", "foreign"}
        /\ UNCHANGED <<file, head, Txn!stored, quarantined, row, noop, done, result, touched>>
        /\ at \in {"locked", "index_locked"}
    BY <1>13 DEF Txn!PublishIndexFails, Txn!Rename, Txn!Compensate, Txn!CompensateReleasing
  <2> QED
    BY <1>a, <1>b, <2>1
<1>14. CASE Txn!MoveHead
  BY <1>a, <1>b, <1>14 DEF Txn!MoveHead, Txn!Oid
<1>15. CASE Txn!MoveHeadFails
  BY <1>a, <1>b, <1>15 DEF Txn!MoveHeadFails, Txn!Compensate, Txn!CompensateReleasing, Txn!Owned
<1>16. CASE Txn!VerifyPublished
  BY <1>a, <1>b, <1>16 DEF Txn!VerifyPublished
<1>17. CASE Txn!VerifyPublishedFails
  BY <1>a, <1>b, <1>17 DEF Txn!VerifyPublishedFails, Txn!Close, Txn!CloseReleasing, Txn!Owned
<1>18. CASE Txn!Finalize
  BY <1>a, <1>b, <1>18 DEF Txn!Finalize
<1>19. CASE Txn!FinalizeFails
  BY <1>a, <1>b, <1>19 DEF Txn!FinalizeFails
<1>20. CASE Txn!DeleteJournal
  <2>1. /\ at' = "idle" /\ result' = "ok" /\ journal' \in {None, journal}
        /\ UNCHANGED quarantined \/ quarantined' = TRUE
        /\ UNCHANGED <<file, Txn!git, message, Txn!local, touched>>
    BY <1>20 DEF Txn!DeleteJournal
  <2>2. quarantined' \in BOOLEAN
    BY <2>1
  <2>3. journal' \in Txn!Row \cup {None}
    BY <2>1
  <2> QED
    BY <1>a, <1>b, <2>1, <2>2, <2>3
<1>21. CASE Txn!PreflightRollback
  BY <1>a, <1>b, <1>21 DEF Txn!PreflightRollback
<1>22. CASE Txn!PreflightRollbackFails
  BY <1>a, <1>b, <1>22 DEF Txn!PreflightRollbackFails, Txn!Close, Txn!CloseReleasing, Txn!Owned
<1>23. CASE Txn!RollbackLock
  BY <1>a, <1>b, <1>23 DEF Txn!RollbackLock, Txn!HeadIsOurs
<1>24. CASE Txn!RollbackLockFails
  BY <1>a, <1>b, <1>24 DEF Txn!RollbackLockFails, Txn!Close, Txn!CloseReleasing, Txn!Owned
<1>25. CASE Txn!RollbackLockIndex
  BY <1>a, <1>b, <1>25 DEF Txn!RollbackLockIndex
<1>26. CASE Txn!RestoreIndex
  BY <1>a, <1>b, <1>26 DEF Txn!RestoreIndex, Txn!Rename, Txn!IndexIsOurs
<1>27. CASE Txn!RestoreIndexFails
  <2>1. /\ at' = "idle" /\ quarantined' /\ result' = "error"
        /\ index' \in {index, "original", "foreign"}
        /\ UNCHANGED <<file, head, Txn!stored, Txn!local, touched>>
    BY <1>27 DEF Txn!RestoreIndexFails, Txn!Rename, Txn!Close, Txn!CloseReleasing
  <2> QED
    BY <1>a, <1>b, <2>1
<1>28. CASE Txn!ResetHead
  BY <1>a, <1>b, <1>28 DEF Txn!ResetHead
<1>29. CASE Txn!ResetHeadFails
  BY <1>a, <1>b, <1>29 DEF Txn!ResetHeadFails, Txn!Close, Txn!CloseReleasing, Txn!Owned
<1>30. CASE Txn!FilesRestored
  BY <1>a, <1>b, <1>30 DEF Txn!FilesRestored
<1>31. CASE Txn!RestoreFails
  BY <1>a, <1>b, <1>31 DEF Txn!RestoreFails, Txn!Close, Txn!CloseReleasing, Txn!Owned
<1>32. CASE Txn!Forget
  BY <1>a, <1>b, <1>32 DEF Txn!Forget, Txn!Resolve
<1>33. CASE Txn!ForgetFails
  BY <1>a, <1>b, <1>33 DEF Txn!ForgetFails, Txn!ResolveFails, Txn!Close, Txn!CloseReleasing,
     Txn!Owned
<1>34. CASE Txn!Recover
  BY <1>a, <1>b, <1>34 DEF Txn!Recover
<1>35. CASE Txn!Decide
  BY <1>a, <1>b, <1>35 DEF Txn!Decide, Txn!Finished
<1>36. CASE Txn!RecoverVerified
  BY <1>a, <1>b, <1>36 DEF Txn!RecoverVerified, Txn!Resolve, Txn!Verified
<1>37. CASE Txn!RecoverVerifyFails
  <2>1. /\ at' = "idle" /\ quarantined' /\ result' = "error"
        /\ journal' \in {None, journal}
        /\ UNCHANGED <<file, index, head, message, Txn!local, touched>>
    BY <1>37 DEF Txn!RecoverVerifyFails, Txn!ResolveFails, Txn!Close, Txn!CloseReleasing
  <2> QED
    BY <1>a, <1>b, <2>1
<1>38. CASE Txn!Crash
  BY <1>a, <1>b, <1>38 DEF Txn!Crash
<1>39. CASE Txn!Interfere
  <2>1. /\ file' \in [Path -> {"before", "proposed", "foreign"}]
        /\ index' \in {index, "foreign", "original", "published"}
        /\ head' \in {head, "foreign"} /\ touched' = TRUE
        /\ UNCHANGED <<Txn!stored, quarantined, at, Txn!local, result>>
    BY <1>39 DEF Txn!Interfere, Txn!Outside, Txn!Save, Txn!OtherLocks, Txn!OtherEnds,
       Txn!RobbedEnds
  <2> QED
    BY <1>a, <1>b, <2>1
<1>40. ASSUME NEW p \in Path, Txn!ApplyFile(p)
      PROVE  Txn!TypeOK'
  BY <1>a, <1>b, <1>40 DEF Txn!ApplyFile
<1>41. ASSUME NEW p \in Path, Txn!ApplyFileFails(p)
      PROVE  Txn!TypeOK'
  BY <1>a, <1>b, <1>41 DEF Txn!ApplyFileFails
<1>42. ASSUME NEW p \in Path, Txn!UndoFile(p)
      PROVE  Txn!TypeOK'
  BY <1>a, <1>b, <1>42 DEF Txn!UndoFile
<1>43. ASSUME NEW p \in Path, Txn!RestoreFile(p)
      PROVE  Txn!TypeOK'
  BY <1>a, <1>b, <1>43 DEF Txn!RestoreFile
<1>44. ASSUME NEW s \in Txn!Scope, Txn!Begin(s)
      PROVE  Txn!TypeOK'
  BY <1>a, <1>b, <1>44, <1>0, NoopAssumption DEF Txn!Begin
<1>45. CASE UNCHANGED Txn!vars
  BY <1>a, <1>b, <1>45 DEF Txn!vars
<1> QED
  BY <1>1, <1>2, <1>3, <1>4, <1>5, <1>6, <1>7, <1>8, <1>9, <1>10, <1>11, <1>12, <1>13,
     <1>14, <1>15, <1>16, <1>17, <1>18, <1>19, <1>20, <1>21, <1>22, <1>23, <1>24, <1>25,
     <1>26, <1>27, <1>28, <1>29, <1>30, <1>31, <1>32, <1>33, <1>34, <1>35, <1>36, <1>37,
     <1>38, <1>39, <1>40, <1>41, <1>42, <1>43, <1>44, <1>45
  DEF Txn!Next, Txn!Write, Txn!Rollback, Txn!Recovery

\* Every step keeps the journal and the command in agreement.
LEMMA JournalStep ==
    ASSUME Txn!TypeOK, Txn!TypeOK', JournalFits, [Txn!Next]_(Txn!vars)
    PROVE  JournalFits'
<1> USE NoRow, NoCommitAssumption DEF JournalFits, Txn!TypeOK, Txn!Step, Txn!Row,
        Txn!Scope, Txn!Oid,
        Txn!git, Txn!stored, Txn!local, Txn!world, Txn!Fault, Txn!Quiet, Txn!Move
<1>1. CASE Txn!CreateJournal
  BY <1>1 DEF Txn!CreateJournal
<1>2. CASE Txn!CreateJournalFails
  BY <1>2 DEF Txn!CreateJournalFails, Txn!Close, Txn!CloseReleasing, Txn!Owned
<1>3. CASE Txn!ValidateApplied
  BY <1>3 DEF Txn!ValidateApplied
<1>4. CASE Txn!LeaveUndo
  BY <1>4 DEF Txn!LeaveUndo
<1>5. CASE Txn!Prepare
  BY <1>5 DEF Txn!Prepare
<1>6. CASE Txn!PrepareFails
  BY <1>6 DEF Txn!PrepareFails, Txn!Compensate, Txn!CompensateReleasing, Txn!Owned
<1>7. CASE Txn!RecordIntent
  BY <1>7 DEF Txn!RecordIntent
<1>8. CASE Txn!RecordIntentFails
  BY <1>8 DEF Txn!RecordIntentFails, Txn!Compensate, Txn!CompensateReleasing, Txn!Owned
<1>9. CASE Txn!LockRefs
  BY <1>9 DEF Txn!LockRefs
<1>10. CASE Txn!LockRefsFails
  BY <1>10 DEF Txn!LockRefsFails
<1>11. CASE Txn!LockIndex
  BY <1>11 DEF Txn!LockIndex
<1>12. CASE Txn!PublishIndex
  BY <1>12 DEF Txn!PublishIndex, Txn!Rename
<1>13. CASE Txn!PublishIndexFails
  BY <1>13 DEF Txn!PublishIndexFails, Txn!Rename, Txn!Compensate, Txn!CompensateReleasing,
     Txn!Owned
<1>14. CASE Txn!MoveHead
  BY <1>14 DEF Txn!MoveHead
<1>15. CASE Txn!MoveHeadFails
  BY <1>15 DEF Txn!MoveHeadFails, Txn!Compensate, Txn!CompensateReleasing, Txn!Owned
<1>16. CASE Txn!VerifyPublished
  BY <1>16 DEF Txn!VerifyPublished
<1>17. CASE Txn!VerifyPublishedFails
  BY <1>17 DEF Txn!VerifyPublishedFails, Txn!Close, Txn!CloseReleasing, Txn!Owned
<1>18. CASE Txn!Finalize
  BY <1>18 DEF Txn!Finalize
<1>19. CASE Txn!FinalizeFails
  BY <1>19 DEF Txn!FinalizeFails
<1>20. CASE Txn!DeleteJournal
  BY <1>20 DEF Txn!DeleteJournal
<1>21. CASE Txn!PreflightRollback
  BY <1>21 DEF Txn!PreflightRollback
<1>22. CASE Txn!PreflightRollbackFails
  BY <1>22 DEF Txn!PreflightRollbackFails, Txn!Close, Txn!CloseReleasing, Txn!Owned
<1>23. CASE Txn!RollbackLock
  BY <1>23 DEF Txn!RollbackLock, Txn!HeadIsOurs
<1>24. CASE Txn!RollbackLockFails
  BY <1>24 DEF Txn!RollbackLockFails, Txn!Close, Txn!CloseReleasing, Txn!Owned
<1>25. CASE Txn!RollbackLockIndex
  BY <1>25 DEF Txn!RollbackLockIndex
<1>26. CASE Txn!RestoreIndex
  BY <1>26 DEF Txn!RestoreIndex, Txn!Rename, Txn!IndexIsOurs
<1>27. CASE Txn!RestoreIndexFails
  BY <1>27 DEF Txn!RestoreIndexFails, Txn!Rename, Txn!Close, Txn!CloseReleasing, Txn!Owned,
     Txn!IndexIsOurs
<1>28. CASE Txn!ResetHead
  BY <1>28 DEF Txn!ResetHead
<1>29. CASE Txn!ResetHeadFails
  BY <1>29 DEF Txn!ResetHeadFails, Txn!Close, Txn!CloseReleasing, Txn!Owned
<1>30. CASE Txn!FilesRestored
  BY <1>30 DEF Txn!FilesRestored
<1>31. CASE Txn!RestoreFails
  BY <1>31 DEF Txn!RestoreFails, Txn!Close, Txn!CloseReleasing, Txn!Owned
<1>32. CASE Txn!Forget
  BY <1>32 DEF Txn!Forget, Txn!Resolve
<1>33. CASE Txn!ForgetFails
  BY <1>33 DEF Txn!ForgetFails, Txn!ResolveFails, Txn!Close, Txn!CloseReleasing, Txn!Owned
<1>34. CASE Txn!Recover
  BY <1>34 DEF Txn!Recover
<1>35. CASE Txn!Decide
  BY <1>35 DEF Txn!Decide, Txn!Finished
<1>36. CASE Txn!RecoverVerified
  BY <1>36 DEF Txn!RecoverVerified, Txn!Resolve, Txn!Verified
<1>37. CASE Txn!RecoverVerifyFails
  BY <1>37 DEF Txn!RecoverVerifyFails, Txn!ResolveFails, Txn!Close, Txn!CloseReleasing,
     Txn!Owned, Txn!Verified
<1>38. CASE Txn!Crash
  BY <1>38 DEF Txn!Crash
<1>39. CASE Txn!Interfere
  BY <1>39, OutsideIs DEF Txn!Outside
<1>40. ASSUME NEW p \in Path, Txn!ApplyFile(p)
      PROVE  JournalFits'
  BY <1>40 DEF Txn!ApplyFile
<1>41. ASSUME NEW p \in Path, Txn!ApplyFileFails(p)
      PROVE  JournalFits'
  BY <1>41 DEF Txn!ApplyFileFails
<1>42. ASSUME NEW p \in Path, Txn!UndoFile(p)
      PROVE  JournalFits'
  BY <1>42 DEF Txn!UndoFile
<1>43. ASSUME NEW p \in Path, Txn!RestoreFile(p)
      PROVE  JournalFits'
  BY <1>43 DEF Txn!RestoreFile
<1>44. ASSUME NEW s \in Txn!Scope, Txn!Begin(s)
      PROVE  JournalFits'
  BY <1>44, NoopAssumption DEF Txn!Begin
<1>45. CASE UNCHANGED Txn!vars
  BY <1>45 DEF Txn!vars
<1> QED
  BY <1>1, <1>2, <1>3, <1>4, <1>5, <1>6, <1>7, <1>8, <1>9, <1>10, <1>11, <1>12, <1>13,
     <1>14, <1>15, <1>16, <1>17, <1>18, <1>19, <1>20, <1>21, <1>22, <1>23, <1>24, <1>25,
     <1>26, <1>27, <1>28, <1>29, <1>30, <1>31, <1>32, <1>33, <1>34, <1>35, <1>36, <1>37,
     <1>38, <1>39, <1>40, <1>41, <1>42, <1>43, <1>44, <1>45
  DEF Txn!Next, Txn!Write, Txn!Rollback, Txn!Recovery

\* Nobody else touching anything, a step keeps what the stores hold.
LEMMA StoresStep ==
    ASSUME Txn!TypeOK, Txn!TypeOK', JournalFits, JournalFits', StoresAt, ProgressAt, IdleAt,
           ~touched', [Txn!Next]_(Txn!vars)
    PROVE  StoresAt'
<1> USE NoRow, NoCommitAssumption DEF JournalFits, Txn!TypeOK, StoresAt, ProgressAt,
        IdleAt, Txn!Step, Prefix, Undoing, Txn!Row, Txn!Scope, Txn!Oid, Txn!Published,
        Txn!Unchanged, Txn!AllProposed,
        Txn!Finished, Txn!git, Txn!stored, Txn!local, Txn!world, Txn!Fault, Txn!Quiet, Txn!Move
<1>1. CASE Txn!CreateJournal
  BY <1>1 DEF Txn!CreateJournal
<1>2. CASE Txn!CreateJournalFails
  BY <1>2 DEF Txn!CreateJournalFails, Txn!Close, Txn!CloseReleasing, Txn!Owned
<1>3. CASE Txn!ValidateApplied
  BY <1>3 DEF Txn!ValidateApplied
<1>4. CASE Txn!LeaveUndo
  BY <1>4 DEF Txn!LeaveUndo
<1>5. CASE Txn!Prepare
  BY <1>5 DEF Txn!Prepare
<1>6. CASE Txn!PrepareFails
  BY <1>6 DEF Txn!PrepareFails, Txn!Compensate, Txn!CompensateReleasing, Txn!Owned
<1>7. CASE Txn!RecordIntent
  BY <1>7 DEF Txn!RecordIntent
<1>8. CASE Txn!RecordIntentFails
  BY <1>8 DEF Txn!RecordIntentFails, Txn!Compensate, Txn!CompensateReleasing, Txn!Owned
<1>9. CASE Txn!LockRefs
  BY <1>9 DEF Txn!LockRefs
<1>10. CASE Txn!LockRefsFails
  BY <1>10 DEF Txn!LockRefsFails
<1>11. CASE Txn!LockIndex
  BY <1>11 DEF Txn!LockIndex
<1>12. CASE Txn!PublishIndex
  BY <1>12 DEF Txn!LockTypes, Txn!PublishIndex, Txn!Rename
<1>13. CASE Txn!PublishIndexFails
  BY <1>13 DEF Txn!LockTypes, Txn!PublishIndexFails, Txn!Rename, Txn!Compensate,
     Txn!CompensateReleasing,
     Txn!Owned
<1>14. CASE Txn!MoveHead
  BY <1>14 DEF Txn!MoveHead
<1>15. CASE Txn!MoveHeadFails
  BY <1>15 DEF Txn!MoveHeadFails, Txn!Compensate, Txn!CompensateReleasing, Txn!Owned
<1>16. CASE Txn!VerifyPublished
  BY <1>16 DEF Txn!VerifyPublished
<1>17. CASE Txn!VerifyPublishedFails
  BY <1>17 DEF Txn!VerifyPublishedFails, Txn!Close, Txn!CloseReleasing, Txn!Owned
<1>18. CASE Txn!Finalize
  BY <1>18 DEF Txn!Finalize
<1>19. CASE Txn!FinalizeFails
  BY <1>19 DEF Txn!FinalizeFails
<1>20. CASE Txn!DeleteJournal
  BY <1>20 DEF Txn!DeleteJournal
<1>21. CASE Txn!PreflightRollback
  BY <1>21 DEF Txn!PreflightRollback
<1>22. CASE Txn!PreflightRollbackFails
  BY <1>22 DEF Txn!PreflightRollbackFails, Txn!Close, Txn!CloseReleasing, Txn!Owned
<1>23. CASE Txn!RollbackLock
  BY <1>23 DEF Txn!RollbackLock, Txn!HeadIsOurs
<1>24. CASE Txn!RollbackLockFails
  BY <1>24 DEF Txn!RollbackLockFails, Txn!Close, Txn!CloseReleasing, Txn!Owned
<1>25. CASE Txn!RollbackLockIndex
  BY <1>25 DEF Txn!RollbackLockIndex
<1>26. CASE Txn!RestoreIndex
  BY <1>26 DEF Txn!LockTypes, Txn!RestoreIndex, Txn!Rename, Txn!IndexIsOurs
<1>27. CASE Txn!RestoreIndexFails
  BY <1>27 DEF Txn!LockTypes, Txn!RestoreIndexFails, Txn!Rename, Txn!Close,
     Txn!CloseReleasing, Txn!Owned,
     Txn!IndexIsOurs
<1>28. CASE Txn!ResetHead
  BY <1>28 DEF Txn!ResetHead
<1>29. CASE Txn!ResetHeadFails
  BY <1>29 DEF Txn!ResetHeadFails, Txn!Close, Txn!CloseReleasing, Txn!Owned
<1>30. CASE Txn!FilesRestored
  BY <1>30 DEF Txn!FilesRestored
<1>31. CASE Txn!RestoreFails
  BY <1>31 DEF Txn!RestoreFails, Txn!Close, Txn!CloseReleasing, Txn!Owned
<1>32. CASE Txn!Forget
  BY <1>32 DEF Txn!Forget, Txn!Resolve
<1>33. CASE Txn!ForgetFails
  BY <1>33 DEF Txn!ForgetFails, Txn!ResolveFails, Txn!Close, Txn!CloseReleasing, Txn!Owned
<1>34. CASE Txn!Recover
  BY <1>34 DEF Txn!Recover
<1>35. CASE Txn!Decide
  BY <1>35 DEF Txn!Decide, Txn!Finished
<1>36. CASE Txn!RecoverVerified
  BY <1>36 DEF Txn!RecoverVerified, Txn!Resolve, Txn!Verified
<1>37. CASE Txn!RecoverVerifyFails
  BY <1>37 DEF Txn!RecoverVerifyFails, Txn!ResolveFails, Txn!Close, Txn!CloseReleasing,
     Txn!Owned, Txn!Verified
<1>38. CASE Txn!Crash
  BY <1>38 DEF Txn!Crash
<1>39. CASE Txn!Interfere
  BY <1>39, OutsideIs DEF Txn!Outside
<1>40. ASSUME NEW p \in Path, Txn!ApplyFile(p)
      PROVE  StoresAt'
  BY <1>40 DEF Txn!ApplyFile
<1>41. ASSUME NEW p \in Path, Txn!ApplyFileFails(p)
      PROVE  StoresAt'
  BY <1>41 DEF Txn!ApplyFileFails
<1>42. ASSUME NEW p \in Path, Txn!UndoFile(p)
      PROVE  StoresAt'
  BY <1>42 DEF Txn!UndoFile
<1>43. ASSUME NEW p \in Path, Txn!RestoreFile(p)
      PROVE  StoresAt'
  BY <1>43 DEF Txn!RestoreFile
<1>44. ASSUME NEW s \in Txn!Scope, Txn!Begin(s)
      PROVE  StoresAt'
  BY <1>44, NoopAssumption DEF Txn!Begin
<1>45. CASE UNCHANGED Txn!vars
  BY <1>45 DEF Txn!vars
<1> QED
  BY <1>1, <1>2, <1>3, <1>4, <1>5, <1>6, <1>7, <1>8, <1>9, <1>10, <1>11, <1>12, <1>13,
     <1>14, <1>15, <1>16, <1>17, <1>18, <1>19, <1>20, <1>21, <1>22, <1>23, <1>24, <1>25,
     <1>26, <1>27, <1>28, <1>29, <1>30, <1>31, <1>32, <1>33, <1>34, <1>35, <1>36, <1>37,
     <1>38, <1>39, <1>40, <1>41, <1>42, <1>43, <1>44, <1>45
  DEF Txn!Next, Txn!Write, Txn!Rollback, Txn!Recovery

\* Nobody else touching anything, a step goes forwards from what was reached.
LEMMA ProgressStep ==
    ASSUME Txn!TypeOK, Txn!TypeOK', JournalFits, JournalFits', StoresAt, ProgressAt, IdleAt,
           ~touched', [Txn!Next]_(Txn!vars)
    PROVE  ProgressAt'
<1> USE NoRow, NoCommitAssumption DEF JournalFits, Txn!TypeOK, StoresAt, ProgressAt,
        IdleAt, Txn!Step, Prefix, Undoing, Txn!Row, Txn!Scope, Txn!Oid, Txn!Published,
        Txn!Unchanged, Txn!AllProposed,
        Txn!Finished, Txn!git, Txn!stored, Txn!local, Txn!world, Txn!Fault, Txn!Quiet, Txn!Move
<1>1. CASE Txn!CreateJournal
  <2>1. at = "begun" /\ at' = "apply" /\ UNCHANGED <<file, Txn!git, message, Txn!local>>
    BY <1>1 DEF Txn!CreateJournal
  <2> QED
    BY <2>1
<1>2. CASE Txn!CreateJournalFails
  BY <1>2 DEF Txn!CreateJournalFails, Txn!Close, Txn!CloseReleasing, Txn!Owned
<1>3. CASE Txn!ValidateApplied
  BY <1>3 DEF Txn!ValidateApplied
<1>4. CASE Txn!LeaveUndo
  BY <1>4 DEF Txn!LeaveUndo
<1>5. CASE Txn!Prepare
  BY <1>5 DEF Txn!Prepare
<1>6. CASE Txn!PrepareFails
  BY <1>6 DEF Txn!PrepareFails, Txn!Compensate, Txn!CompensateReleasing, Txn!Owned
<1>7. CASE Txn!RecordIntent
  BY <1>7 DEF Txn!RecordIntent
<1>8. CASE Txn!RecordIntentFails
  BY <1>8 DEF Txn!RecordIntentFails, Txn!Compensate, Txn!CompensateReleasing, Txn!Owned
<1>9. CASE Txn!LockRefs
  BY <1>9 DEF Txn!LockRefs
<1>10. CASE Txn!LockRefsFails
  BY <1>10 DEF Txn!LockRefsFails
<1>11. CASE Txn!LockIndex
  BY <1>11 DEF Txn!LockIndex
<1>12. CASE Txn!PublishIndex
  BY <1>12 DEF Txn!LockTypes, Txn!PublishIndex, Txn!Rename
<1>13. CASE Txn!PublishIndexFails
  BY <1>13 DEF Txn!LockTypes, Txn!PublishIndexFails, Txn!Rename, Txn!Compensate,
     Txn!CompensateReleasing,
     Txn!Owned
<1>14. CASE Txn!MoveHead
  BY <1>14 DEF Txn!MoveHead
<1>15. CASE Txn!MoveHeadFails
  BY <1>15 DEF Txn!MoveHeadFails, Txn!Compensate, Txn!CompensateReleasing, Txn!Owned
<1>16. CASE Txn!VerifyPublished
  BY <1>16 DEF Txn!VerifyPublished
<1>17. CASE Txn!VerifyPublishedFails
  BY <1>17 DEF Txn!VerifyPublishedFails, Txn!Close, Txn!CloseReleasing, Txn!Owned
<1>18. CASE Txn!Finalize
  BY <1>18 DEF Txn!Finalize
<1>19. CASE Txn!FinalizeFails
  BY <1>19 DEF Txn!FinalizeFails
<1>20. CASE Txn!DeleteJournal
  BY <1>20 DEF Txn!DeleteJournal
<1>21. CASE Txn!PreflightRollback
  BY <1>21 DEF Txn!PreflightRollback
<1>22. CASE Txn!PreflightRollbackFails
  BY <1>22 DEF Txn!PreflightRollbackFails, Txn!Close, Txn!CloseReleasing, Txn!Owned
<1>23. CASE Txn!RollbackLock
  BY <1>23 DEF Txn!RollbackLock, Txn!HeadIsOurs
<1>24. CASE Txn!RollbackLockFails
  BY <1>24 DEF Txn!RollbackLockFails, Txn!Close, Txn!CloseReleasing, Txn!Owned
<1>25. CASE Txn!RollbackLockIndex
  BY <1>25 DEF Txn!RollbackLockIndex
<1>26. CASE Txn!RestoreIndex
  BY <1>26 DEF Txn!LockTypes, Txn!RestoreIndex, Txn!Rename, Txn!IndexIsOurs
<1>27. CASE Txn!RestoreIndexFails
  BY <1>27 DEF Txn!LockTypes, Txn!RestoreIndexFails, Txn!Rename, Txn!Close,
     Txn!CloseReleasing, Txn!Owned,
     Txn!IndexIsOurs
<1>28. CASE Txn!ResetHead
  BY <1>28 DEF Txn!ResetHead
<1>29. CASE Txn!ResetHeadFails
  BY <1>29 DEF Txn!ResetHeadFails, Txn!Close, Txn!CloseReleasing, Txn!Owned
<1>30. CASE Txn!FilesRestored
  BY <1>30 DEF Txn!FilesRestored
<1>31. CASE Txn!RestoreFails
  BY <1>31 DEF Txn!RestoreFails, Txn!Close, Txn!CloseReleasing, Txn!Owned
<1>32. CASE Txn!Forget
  BY <1>32 DEF Txn!Forget, Txn!Resolve
<1>33. CASE Txn!ForgetFails
  BY <1>33 DEF Txn!ForgetFails, Txn!ResolveFails, Txn!Close, Txn!CloseReleasing, Txn!Owned
<1>34. CASE Txn!Recover
  BY <1>34 DEF Txn!Recover
<1>35. CASE Txn!Decide
  BY <1>35 DEF Txn!Decide, Txn!Finished
<1>36. CASE Txn!RecoverVerified
  BY <1>36 DEF Txn!RecoverVerified, Txn!Resolve, Txn!Verified
<1>37. CASE Txn!RecoverVerifyFails
  BY <1>37 DEF Txn!RecoverVerifyFails, Txn!ResolveFails, Txn!Close, Txn!CloseReleasing,
     Txn!Owned, Txn!Verified
<1>38. CASE Txn!Crash
  BY <1>38 DEF Txn!Crash
<1>39. CASE Txn!Interfere
  BY <1>39, OutsideIs DEF Txn!Outside
<1>40. ASSUME NEW p \in Path, Txn!ApplyFile(p)
      PROVE  ProgressAt'
  BY <1>40 DEF Txn!ApplyFile
<1>41. ASSUME NEW p \in Path, Txn!ApplyFileFails(p)
      PROVE  ProgressAt'
  BY <1>41 DEF Txn!ApplyFileFails
<1>42. ASSUME NEW p \in Path, Txn!UndoFile(p)
      PROVE  ProgressAt'
  BY <1>42 DEF Txn!UndoFile
<1>43. ASSUME NEW p \in Path, Txn!RestoreFile(p)
      PROVE  ProgressAt'
  BY <1>43 DEF Txn!RestoreFile
<1>44. ASSUME NEW s \in Txn!Scope, Txn!Begin(s)
      PROVE  ProgressAt'
  BY <1>44, NoopAssumption DEF Txn!Begin
<1>45. CASE UNCHANGED Txn!vars
  BY <1>45 DEF Txn!vars
<1> QED
  BY <1>1, <1>2, <1>3, <1>4, <1>5, <1>6, <1>7, <1>8, <1>9, <1>10, <1>11, <1>12, <1>13,
     <1>14, <1>15, <1>16, <1>17, <1>18, <1>19, <1>20, <1>21, <1>22, <1>23, <1>24, <1>25,
     <1>26, <1>27, <1>28, <1>29, <1>30, <1>31, <1>32, <1>33, <1>34, <1>35, <1>36, <1>37,
     <1>38, <1>39, <1>40, <1>41, <1>42, <1>43, <1>44, <1>45
  DEF Txn!Next, Txn!Write, Txn!Rollback, Txn!Recovery

\* A command that ends leaves the whole write or none of it, and says so.
LEMMA IdleStep ==
    ASSUME Txn!TypeOK, Txn!TypeOK', JournalFits, JournalFits', StoresAt, ProgressAt, IdleAt,
           ~touched', [Txn!Next]_(Txn!vars)
    PROVE  IdleAt'
<1> USE NoRow, NoCommitAssumption DEF JournalFits, Txn!TypeOK, StoresAt, ProgressAt,
        IdleAt, Txn!Step, Prefix, Undoing, Txn!Row, Txn!Scope, Txn!Oid, Txn!Published,
        Txn!Unchanged, Txn!AllProposed,
        Txn!Finished, Txn!git, Txn!stored, Txn!local, Txn!world, Txn!Fault, Txn!Quiet, Txn!Move
<1>1. CASE Txn!CreateJournal
  <2>1. at' # "idle"
    BY <1>1 DEF Txn!CreateJournal
  <2> QED
    BY <2>1
<1>2. CASE Txn!CreateJournalFails
  BY <1>2 DEF Txn!CreateJournalFails, Txn!Close, Txn!CloseReleasing, Txn!Owned
<1>3. CASE Txn!ValidateApplied
  BY <1>3 DEF Txn!ValidateApplied
<1>4. CASE Txn!LeaveUndo
  BY <1>4 DEF Txn!LeaveUndo
<1>5. CASE Txn!Prepare
  BY <1>5 DEF Txn!Prepare
<1>6. CASE Txn!PrepareFails
  BY <1>6 DEF Txn!PrepareFails, Txn!Compensate, Txn!CompensateReleasing, Txn!Owned
<1>7. CASE Txn!RecordIntent
  BY <1>7 DEF Txn!RecordIntent
<1>8. CASE Txn!RecordIntentFails
  BY <1>8 DEF Txn!RecordIntentFails, Txn!Compensate, Txn!CompensateReleasing, Txn!Owned
<1>9. CASE Txn!LockRefs
  BY <1>9 DEF Txn!LockRefs
<1>10. CASE Txn!LockRefsFails
  BY <1>10 DEF Txn!LockRefsFails
<1>11. CASE Txn!LockIndex
  BY <1>11 DEF Txn!LockIndex
<1>12. CASE Txn!PublishIndex
  BY <1>12 DEF Txn!PublishIndex, Txn!Rename
<1>13. CASE Txn!PublishIndexFails
  BY <1>13 DEF Txn!PublishIndexFails, Txn!Rename, Txn!Compensate, Txn!CompensateReleasing,
     Txn!Owned
<1>14. CASE Txn!MoveHead
  BY <1>14 DEF Txn!MoveHead
<1>15. CASE Txn!MoveHeadFails
  BY <1>15 DEF Txn!MoveHeadFails, Txn!Compensate, Txn!CompensateReleasing, Txn!Owned
<1>16. CASE Txn!VerifyPublished
  BY <1>16 DEF Txn!VerifyPublished
<1>17. CASE Txn!VerifyPublishedFails
  BY <1>17 DEF Txn!VerifyPublishedFails, Txn!Close, Txn!CloseReleasing, Txn!Owned
<1>18. CASE Txn!Finalize
  BY <1>18 DEF Txn!Finalize
<1>19. CASE Txn!FinalizeFails
  BY <1>19 DEF Txn!FinalizeFails
<1>20. CASE Txn!DeleteJournal
  BY <1>20 DEF Txn!DeleteJournal
<1>21. CASE Txn!PreflightRollback
  BY <1>21 DEF Txn!PreflightRollback
<1>22. CASE Txn!PreflightRollbackFails
  BY <1>22 DEF Txn!PreflightRollbackFails, Txn!Close, Txn!CloseReleasing, Txn!Owned
<1>23. CASE Txn!RollbackLock
  BY <1>23 DEF Txn!RollbackLock, Txn!HeadIsOurs
<1>24. CASE Txn!RollbackLockFails
  BY <1>24 DEF Txn!RollbackLockFails, Txn!Close, Txn!CloseReleasing, Txn!Owned
<1>25. CASE Txn!RollbackLockIndex
  BY <1>25 DEF Txn!RollbackLockIndex
<1>26. CASE Txn!RestoreIndex
  BY <1>26 DEF Txn!RestoreIndex, Txn!Rename, Txn!IndexIsOurs
<1>27. CASE Txn!RestoreIndexFails
  BY <1>27 DEF Txn!RestoreIndexFails, Txn!Rename, Txn!Close, Txn!CloseReleasing, Txn!Owned,
     Txn!IndexIsOurs
<1>28. CASE Txn!ResetHead
  BY <1>28 DEF Txn!ResetHead
<1>29. CASE Txn!ResetHeadFails
  BY <1>29 DEF Txn!ResetHeadFails, Txn!Close, Txn!CloseReleasing, Txn!Owned
<1>30. CASE Txn!FilesRestored
  BY <1>30 DEF Txn!FilesRestored
<1>31. CASE Txn!RestoreFails
  BY <1>31 DEF Txn!RestoreFails, Txn!Close, Txn!CloseReleasing, Txn!Owned
<1>32. CASE Txn!Forget
  BY <1>32 DEF Txn!Forget, Txn!Resolve
<1>33. CASE Txn!ForgetFails
  BY <1>33 DEF Txn!ForgetFails, Txn!ResolveFails, Txn!Close, Txn!CloseReleasing, Txn!Owned
<1>34. CASE Txn!Recover
  BY <1>34 DEF Txn!Recover
<1>35. CASE Txn!Decide
  BY <1>35 DEF Txn!Decide, Txn!Finished
<1>36. CASE Txn!RecoverVerified
  BY <1>36 DEF Txn!RecoverVerified, Txn!Resolve, Txn!Verified
<1>37. CASE Txn!RecoverVerifyFails
  BY <1>37 DEF Txn!RecoverVerifyFails, Txn!ResolveFails, Txn!Close, Txn!CloseReleasing,
     Txn!Owned, Txn!Verified
<1>38. CASE Txn!Crash
  BY <1>38 DEF Txn!Crash
<1>39. CASE Txn!Interfere
  BY <1>39, OutsideIs DEF Txn!Outside
<1>40. ASSUME NEW p \in Path, Txn!ApplyFile(p)
      PROVE  IdleAt'
  BY <1>40 DEF Txn!ApplyFile
<1>41. ASSUME NEW p \in Path, Txn!ApplyFileFails(p)
      PROVE  IdleAt'
  BY <1>41 DEF Txn!ApplyFileFails
<1>42. ASSUME NEW p \in Path, Txn!UndoFile(p)
      PROVE  IdleAt'
  BY <1>42 DEF Txn!UndoFile
<1>43. ASSUME NEW p \in Path, Txn!RestoreFile(p)
      PROVE  IdleAt'
  BY <1>43 DEF Txn!RestoreFile
<1>44. ASSUME NEW s \in Txn!Scope, Txn!Begin(s)
      PROVE  IdleAt'
  BY <1>44, NoopAssumption DEF Txn!Begin
<1>45. CASE UNCHANGED Txn!vars
  BY <1>45 DEF Txn!vars
<1> QED
  BY <1>1, <1>2, <1>3, <1>4, <1>5, <1>6, <1>7, <1>8, <1>9, <1>10, <1>11, <1>12, <1>13,
     <1>14, <1>15, <1>16, <1>17, <1>18, <1>19, <1>20, <1>21, <1>22, <1>23, <1>24, <1>25,
     <1>26, <1>27, <1>28, <1>29, <1>30, <1>31, <1>32, <1>33, <1>34, <1>35, <1>36, <1>37,
     <1>38, <1>39, <1>40, <1>41, <1>42, <1>43, <1>44, <1>45
  DEF Txn!Next, Txn!Write, Txn!Rollback, Txn!Recovery
-----------------------------------------------------------------------------
\* Only a new write forgets that somebody touched the Guru, or turns out to
\* change something where the last did not.
LEMMA OnlyBeginForgets ==
    ASSUME [Txn!Next]_(Txn!vars), \A s \in Txn!Scope : ~Txn!Begin(s)
    PROVE  (touched => touched') /\ noop' = noop
<1> USE DEF Txn!git, Txn!stored, Txn!local, Txn!world, Txn!Fault, Txn!Quiet, Txn!Move,
        Txn!Close, Txn!CloseReleasing, Txn!Compensate, Txn!CompensateReleasing, Txn!Resolve,
        Txn!ResolveFails
<1>1. CASE Txn!CreateJournal \/ Txn!CreateJournalFails \/ Txn!ValidateApplied
           \/ Txn!LeaveUndo \/ Txn!Prepare
           \/ Txn!PrepareFails \/ Txn!RecordIntent \/ Txn!RecordIntentFails
  BY <1>1 DEF Txn!CreateJournal, Txn!CreateJournalFails, Txn!ValidateApplied, Txn!LeaveUndo,
     Txn!Prepare,
     Txn!PrepareFails, Txn!RecordIntent, Txn!RecordIntentFails
<1>2. CASE Txn!LockRefs \/ Txn!LockRefsFails \/ Txn!LockIndex \/ Txn!PublishIndex
           \/ Txn!PublishIndexFails
           \/ Txn!MoveHead \/ Txn!MoveHeadFails
  BY <1>2 DEF Txn!LockRefs, Txn!LockRefsFails, Txn!LockIndex, Txn!PublishIndex,
     Txn!PublishIndexFails, Txn!MoveHead,
     Txn!MoveHeadFails
<1>3. CASE Txn!VerifyPublished \/ Txn!VerifyPublishedFails \/ Txn!Finalize
           \/ Txn!FinalizeFails \/ Txn!DeleteJournal
  BY <1>3 DEF Txn!VerifyPublished, Txn!VerifyPublishedFails, Txn!Finalize,
     Txn!FinalizeFails, Txn!DeleteJournal
<1>4. CASE Txn!PreflightRollback \/ Txn!PreflightRollbackFails \/ Txn!RollbackLock
           \/ Txn!RollbackLockFails
           \/ Txn!RollbackLockIndex \/ Txn!RestoreIndex \/ Txn!RestoreIndexFails
  BY <1>4 DEF Txn!PreflightRollback, Txn!PreflightRollbackFails, Txn!RollbackLock,
     Txn!RollbackLockFails,
     Txn!RollbackLockIndex, Txn!RestoreIndex, Txn!RestoreIndexFails
<1>5. CASE Txn!ResetHead \/ Txn!ResetHeadFails \/ Txn!FilesRestored \/ Txn!RestoreFails
           \/ Txn!Forget \/ Txn!ForgetFails
  BY <1>5 DEF Txn!ResetHead, Txn!ResetHeadFails, Txn!FilesRestored, Txn!RestoreFails,
     Txn!Forget, Txn!ForgetFails
<1>6. CASE Txn!Recover \/ Txn!Decide \/ Txn!RecoverVerified \/ Txn!RecoverVerifyFails
  BY <1>6 DEF Txn!Recover, Txn!Decide, Txn!RecoverVerified, Txn!RecoverVerifyFails
<1>7. CASE Txn!Crash \/ Txn!Interfere
  BY <1>7, OutsideIs DEF Txn!Crash, Txn!Outside
<1>8. ASSUME NEW p \in Path,
             Txn!ApplyFile(p) \/ Txn!ApplyFileFails(p) \/ Txn!UndoFile(p) \/ Txn!RestoreFile(p)
      PROVE  (touched => touched') /\ noop' = noop
  BY <1>8 DEF Txn!ApplyFile, Txn!ApplyFileFails, Txn!UndoFile, Txn!RestoreFile
<1>9. CASE UNCHANGED Txn!vars
  BY <1>9 DEF Txn!vars
<1> QED
  BY <1>1, <1>2, <1>3, <1>4, <1>5, <1>6, <1>7, <1>8, <1>9
  DEF Txn!Next, Txn!Write, Txn!Rollback, Txn!Recovery

\* A write begins on stores that are its own to name.
LEMMA BeginStep ==
    ASSUME Txn!TypeOK, JournalFits, NEW s \in Txn!Scope, Txn!Begin(s)
    PROVE  StoresAt' /\ ProgressAt' /\ IdleAt'
<1>1. /\ file' = [p \in Path |-> "before"] /\ index' = "original" /\ head' = "previous"
      /\ message' \in {"open", "absent"} /\ done' = {} /\ at' = "begun"
      /\ at = "idle" /\ ~quarantined /\ journal' = journal
  BY DEF Txn!Begin
<1>2. journal' = None
  BY <1>1 DEF JournalFits
<1>3. StoresAt'
  BY <1>1, <1>2 DEF StoresAt
<1>4. ProgressAt'
  BY <1>1 DEF ProgressAt, Prefix, Undoing, Txn!Unchanged
<1> QED
  BY <1>1, <1>3, <1>4 DEF IdleAt

\* The inductive invariant holds at first,
LEMMA WriteStarts == Txn!Init => WriteInv
<1> SUFFICES ASSUME Txn!Init PROVE WriteInv
  OBVIOUS
<1>1. Txn!TypeOK
  BY DEF Txn!Init, Txn!TypeOK, Txn!LockTypes, Txn!Step, Txn!Counters, Txn!git, Txn!stored,
     Txn!local, Txn!world
<1>2. JournalFits
  BY DEF Txn!Init, JournalFits
<1>3. StoresAt /\ ProgressAt /\ IdleAt
  BY DEF Txn!Init, StoresAt, ProgressAt, IdleAt, Prefix, Undoing, Txn!Unchanged
<1> QED
  BY <1>1, <1>2, <1>3 DEF WriteInv

\* and every step keeps it.
LEMMA WriteSteps == WriteInv /\ [Txn!Next]_(Txn!vars) => WriteInv'
<1> SUFFICES ASSUME WriteInv, [Txn!Next]_(Txn!vars) PROVE WriteInv'
  OBVIOUS
<1>1. Txn!TypeOK'
  BY WriteTypes DEF WriteInv
<1>2. JournalFits'
  BY <1>1, JournalStep DEF WriteInv
<1>3. ASSUME ~touched' PROVE StoresAt' /\ ProgressAt' /\ IdleAt'
  <2>1. CASE touched
    <3>1. PICK s \in Txn!Scope : Txn!Begin(s)
      BY <1>3, <2>1, OnlyBeginForgets
    <3> QED
      BY <3>1, BeginStep DEF WriteInv
  <2>2. CASE ~touched
    <3>1. StoresAt /\ ProgressAt /\ IdleAt /\ Txn!TypeOK /\ JournalFits
      BY <2>2 DEF WriteInv
    <3> QED
      BY <1>1, <1>2, <1>3, <3>1, StoresStep, ProgressStep, IdleStep
  <2> QED
    BY <2>1, <2>2
<1> QED
  BY <1>1, <1>2, <1>3 DEF WriteInv

\* The inductive invariant holds throughout.
LEMMA WriteInvariance == Txn!Spec => []WriteInv
<1> QED
  BY WriteStarts, WriteSteps, PTL DEF Txn!Spec

\* Type correctness: the journal, the stores and the place of the command.
LEMMA WriteTypeCorrect == Txn!Spec => []Txn!TypeOK
<1>1. WriteInv => Txn!TypeOK
  BY DEF WriteInv
<1> QED
  BY <1>1, WriteInvariance, PTL

\* A Guru that nobody else touched and that is open again holds the whole
\* write or none of it, the caller is told which, and a Chat message that
\* reads complete has its Memory published at every moment
\* (memory_write.rs:499, 699).
LEMMA Agreement == Txn!Spec => []Txn!AnswerAndMemoryAgree
<1>1. WriteInv => Txn!AnswerAndMemoryAgree
  <2> SUFFICES ASSUME WriteInv PROVE Txn!AllOrNothing /\ Txn!CanonicalChatHasMemory
    BY DEF Txn!AnswerAndMemoryAgree
  <2>1. Txn!AllOrNothing
    <3> SUFFICES ASSUME at = "idle" PROVE Txn!AllOrNothing
      BY DEF Txn!AllOrNothing
    <3>1. ~quarantined => journal = None
      BY DEF WriteInv, JournalFits
    <3>2. ~touched => IdleAt
      BY DEF WriteInv
    <3> QED
      BY <3>1, <3>2 DEF Txn!AllOrNothing, IdleAt
  <2>2. Txn!CanonicalChatHasMemory
    BY DEF Txn!CanonicalChatHasMemory, WriteInv, StoresAt
  <2> QED
    BY <2>1, <2>2
<1> QED
  BY <1>1, WriteInvariance, PTL
-----------------------------------------------------------------------------
\* A command keeps the refs it locked until it moved or restored HEAD.
LEMMA RefsStep ==
    ASSUME Txn!TypeOK, Txn!TypeOK', RefsAt, [Txn!Next]_(Txn!vars)
    PROVE  RefsAt'
<1> USE NoRow, NoCommitAssumption DEF Txn!TypeOK, RefsAt, Txn!Step, Txn!Row, Txn!Scope,
        Txn!Oid, Txn!git,
        Txn!stored, Txn!local, Txn!world, Txn!Fault, Txn!Quiet, Txn!Move, Txn!LockTypes,
        Txn!Take, Txn!Release
<1>1. CASE Txn!CreateJournal
  BY <1>1 DEF Txn!CreateJournal
<1>2. CASE Txn!CreateJournalFails
  BY <1>2 DEF Txn!CreateJournalFails, Txn!Close, Txn!CloseReleasing, Txn!Owned
<1>3. CASE Txn!ValidateApplied
  BY <1>3 DEF Txn!ValidateApplied
<1>4. CASE Txn!LeaveUndo
  BY <1>4 DEF Txn!LeaveUndo
<1>5. CASE Txn!Prepare
  BY <1>5 DEF Txn!Prepare
<1>6. CASE Txn!PrepareFails
  BY <1>6 DEF Txn!PrepareFails, Txn!Compensate, Txn!CompensateReleasing, Txn!Owned
<1>7. CASE Txn!RecordIntent
  BY <1>7 DEF Txn!RecordIntent
<1>8. CASE Txn!RecordIntentFails
  BY <1>8 DEF Txn!RecordIntentFails, Txn!Compensate, Txn!CompensateReleasing, Txn!Owned
<1>9. CASE Txn!LockRefs
  BY <1>9 DEF Txn!LockRefs
<1>10. CASE Txn!LockRefsFails
  BY <1>10 DEF Txn!LockRefsFails
<1>11. CASE Txn!LockIndex
  BY <1>11 DEF Txn!LockIndex
<1>12. CASE Txn!PublishIndex
  BY <1>12 DEF Txn!PublishIndex, Txn!Rename
<1>13. CASE Txn!PublishIndexFails
  BY <1>13 DEF Txn!PublishIndexFails, Txn!Rename, Txn!Compensate, Txn!CompensateReleasing,
     Txn!Owned
<1>14. CASE Txn!MoveHead
  BY <1>14 DEF Txn!MoveHead
<1>15. CASE Txn!MoveHeadFails
  BY <1>15 DEF Txn!MoveHeadFails, Txn!Compensate, Txn!CompensateReleasing, Txn!Owned
<1>16. CASE Txn!VerifyPublished
  BY <1>16 DEF Txn!VerifyPublished
<1>17. CASE Txn!VerifyPublishedFails
  BY <1>17 DEF Txn!VerifyPublishedFails, Txn!Close, Txn!CloseReleasing, Txn!Owned
<1>18. CASE Txn!Finalize
  BY <1>18 DEF Txn!Finalize
<1>19. CASE Txn!FinalizeFails
  BY <1>19 DEF Txn!FinalizeFails
<1>20. CASE Txn!DeleteJournal
  BY <1>20 DEF Txn!DeleteJournal
<1>21. CASE Txn!PreflightRollback
  BY <1>21 DEF Txn!PreflightRollback
<1>22. CASE Txn!PreflightRollbackFails
  BY <1>22 DEF Txn!PreflightRollbackFails, Txn!Close, Txn!CloseReleasing, Txn!Owned
<1>23. CASE Txn!RollbackLock
  BY <1>23 DEF Txn!RollbackLock, Txn!HeadIsOurs
<1>24. CASE Txn!RollbackLockFails
  BY <1>24 DEF Txn!RollbackLockFails, Txn!Close, Txn!CloseReleasing, Txn!Owned
<1>25. CASE Txn!RollbackLockIndex
  BY <1>25 DEF Txn!RollbackLockIndex
<1>26. CASE Txn!RestoreIndex
  BY <1>26 DEF Txn!RestoreIndex, Txn!Rename, Txn!IndexIsOurs
<1>27. CASE Txn!RestoreIndexFails
  BY <1>27 DEF Txn!RestoreIndexFails, Txn!Rename, Txn!Close, Txn!CloseReleasing, Txn!Owned,
     Txn!IndexIsOurs
<1>28. CASE Txn!ResetHead
  BY <1>28 DEF Txn!ResetHead
<1>29. CASE Txn!ResetHeadFails
  BY <1>29 DEF Txn!ResetHeadFails, Txn!Close, Txn!CloseReleasing, Txn!Owned
<1>30. CASE Txn!FilesRestored
  BY <1>30 DEF Txn!FilesRestored
<1>31. CASE Txn!RestoreFails
  BY <1>31 DEF Txn!RestoreFails, Txn!Close, Txn!CloseReleasing, Txn!Owned
<1>32. CASE Txn!Forget
  BY <1>32 DEF Txn!Forget, Txn!Resolve
<1>33. CASE Txn!ForgetFails
  BY <1>33 DEF Txn!ForgetFails, Txn!ResolveFails, Txn!Close, Txn!CloseReleasing, Txn!Owned
<1>34. CASE Txn!Recover
  BY <1>34 DEF Txn!Recover
<1>35. CASE Txn!Decide
  BY <1>35 DEF Txn!Decide, Txn!Finished
<1>36. CASE Txn!RecoverVerified
  BY <1>36 DEF Txn!RecoverVerified, Txn!Resolve, Txn!Verified
<1>37. CASE Txn!RecoverVerifyFails
  BY <1>37 DEF Txn!RecoverVerifyFails, Txn!ResolveFails, Txn!Close, Txn!CloseReleasing,
     Txn!Owned, Txn!Verified
<1>38. CASE Txn!Crash
  BY <1>38 DEF Txn!Crash
<1>39. CASE Txn!Interfere
  BY <1>39 DEF Txn!Interfere, Txn!Outside, Txn!Save, Txn!OtherLocks, Txn!OtherEnds,
     Txn!RobbedEnds
<1>40. ASSUME NEW p \in Path, Txn!ApplyFile(p)
      PROVE  RefsAt'
  BY <1>40 DEF Txn!ApplyFile
<1>41. ASSUME NEW p \in Path, Txn!ApplyFileFails(p)
      PROVE  RefsAt'
  BY <1>41 DEF Txn!ApplyFileFails
<1>42. ASSUME NEW p \in Path, Txn!UndoFile(p)
      PROVE  RefsAt'
  BY <1>42 DEF Txn!UndoFile
<1>43. ASSUME NEW p \in Path, Txn!RestoreFile(p)
      PROVE  RefsAt'
  BY <1>43 DEF Txn!RestoreFile
<1>44. ASSUME NEW s \in Txn!Scope, Txn!Begin(s)
      PROVE  RefsAt'
  BY <1>44, NoopAssumption DEF Txn!Begin
<1>45. CASE UNCHANGED Txn!vars
  BY <1>45 DEF Txn!vars
<1> QED
  BY <1>1, <1>2, <1>3, <1>4, <1>5, <1>6, <1>7, <1>8, <1>9, <1>10, <1>11, <1>12, <1>13,
     <1>14, <1>15, <1>16, <1>17, <1>18, <1>19, <1>20, <1>21, <1>22, <1>23, <1>24, <1>25,
     <1>26, <1>27, <1>28, <1>29, <1>30, <1>31, <1>32, <1>33, <1>34, <1>35, <1>36, <1>37,
     <1>38, <1>39, <1>40, <1>41, <1>42, <1>43, <1>44, <1>45
  DEF Txn!Next, Txn!Write, Txn!Rollback, Txn!Recovery

\* No step of a command replaces what somebody else wrote.
LEMMA KeepStep ==
    ASSUME Txn!TypeOK, RefsAt, [Txn!Next]_(Txn!vars)
    PROVE  Txn!CompetitorsKept
<1> USE NoRow, NoCommitAssumption DEF Txn!CompetitorsKept, Txn!TypeOK, RefsAt,
        Txn!Counters,
        Txn!Step, Txn!Row, Txn!Scope, Txn!Oid, Txn!git, Txn!stored, Txn!local, Txn!world,
        Txn!Fault,
        Txn!Quiet, Txn!Move, Txn!LockTypes, Txn!Take, Txn!Release
<1>1. CASE Txn!CreateJournal
  BY <1>1 DEF Txn!CreateJournal
<1>2. CASE Txn!CreateJournalFails
  BY <1>2 DEF Txn!CreateJournalFails, Txn!Close, Txn!CloseReleasing, Txn!Owned
<1>3. CASE Txn!ValidateApplied
  BY <1>3 DEF Txn!ValidateApplied
<1>4. CASE Txn!LeaveUndo
  BY <1>4 DEF Txn!LeaveUndo
<1>5. CASE Txn!Prepare
  BY <1>5 DEF Txn!Prepare
<1>6. CASE Txn!PrepareFails
  BY <1>6 DEF Txn!PrepareFails, Txn!Compensate, Txn!CompensateReleasing, Txn!Owned
<1>7. CASE Txn!RecordIntent
  BY <1>7 DEF Txn!RecordIntent
<1>8. CASE Txn!RecordIntentFails
  BY <1>8 DEF Txn!RecordIntentFails, Txn!Compensate, Txn!CompensateReleasing, Txn!Owned
<1>9. CASE Txn!LockRefs
  BY <1>9 DEF Txn!LockRefs
<1>10. CASE Txn!LockRefsFails
  BY <1>10 DEF Txn!LockRefsFails
<1>11. CASE Txn!LockIndex
  BY <1>11 DEF Txn!LockIndex
<1>12. CASE Txn!PublishIndex
  BY <1>12 DEF Txn!PublishIndex, Txn!Rename
<1>13. CASE Txn!PublishIndexFails
  BY <1>13 DEF Txn!PublishIndexFails, Txn!Rename, Txn!Compensate, Txn!CompensateReleasing,
     Txn!Owned
<1>14. CASE Txn!MoveHead
  BY <1>14 DEF Txn!MoveHead
<1>15. CASE Txn!MoveHeadFails
  BY <1>15 DEF Txn!MoveHeadFails, Txn!Compensate, Txn!CompensateReleasing, Txn!Owned
<1>16. CASE Txn!VerifyPublished
  BY <1>16 DEF Txn!VerifyPublished
<1>17. CASE Txn!VerifyPublishedFails
  BY <1>17 DEF Txn!VerifyPublishedFails, Txn!Close, Txn!CloseReleasing, Txn!Owned
<1>18. CASE Txn!Finalize
  BY <1>18 DEF Txn!Finalize
<1>19. CASE Txn!FinalizeFails
  BY <1>19 DEF Txn!FinalizeFails
<1>20. CASE Txn!DeleteJournal
  BY <1>20 DEF Txn!DeleteJournal
<1>21. CASE Txn!PreflightRollback
  BY <1>21 DEF Txn!PreflightRollback
<1>22. CASE Txn!PreflightRollbackFails
  BY <1>22 DEF Txn!PreflightRollbackFails, Txn!Close, Txn!CloseReleasing, Txn!Owned
<1>23. CASE Txn!RollbackLock
  BY <1>23 DEF Txn!RollbackLock, Txn!HeadIsOurs
<1>24. CASE Txn!RollbackLockFails
  BY <1>24 DEF Txn!RollbackLockFails, Txn!Close, Txn!CloseReleasing, Txn!Owned
<1>25. CASE Txn!RollbackLockIndex
  BY <1>25 DEF Txn!RollbackLockIndex
<1>26. CASE Txn!RestoreIndex
  BY <1>26 DEF Txn!RestoreIndex, Txn!Rename, Txn!IndexIsOurs
<1>27. CASE Txn!RestoreIndexFails
  BY <1>27 DEF Txn!RestoreIndexFails, Txn!Rename, Txn!Close, Txn!CloseReleasing, Txn!Owned,
     Txn!IndexIsOurs
<1>28. CASE Txn!ResetHead
  BY <1>28 DEF Txn!ResetHead
<1>29. CASE Txn!ResetHeadFails
  BY <1>29 DEF Txn!ResetHeadFails, Txn!Close, Txn!CloseReleasing, Txn!Owned
<1>30. CASE Txn!FilesRestored
  BY <1>30 DEF Txn!FilesRestored
<1>31. CASE Txn!RestoreFails
  BY <1>31 DEF Txn!RestoreFails, Txn!Close, Txn!CloseReleasing, Txn!Owned
<1>32. CASE Txn!Forget
  BY <1>32 DEF Txn!Forget, Txn!Resolve
<1>33. CASE Txn!ForgetFails
  BY <1>33 DEF Txn!ForgetFails, Txn!ResolveFails, Txn!Close, Txn!CloseReleasing, Txn!Owned
<1>34. CASE Txn!Recover
  BY <1>34 DEF Txn!Recover
<1>35. CASE Txn!Decide
  BY <1>35 DEF Txn!Decide, Txn!Finished
<1>36. CASE Txn!RecoverVerified
  BY <1>36 DEF Txn!RecoverVerified, Txn!Resolve, Txn!Verified
<1>37. CASE Txn!RecoverVerifyFails
  BY <1>37 DEF Txn!RecoverVerifyFails, Txn!ResolveFails, Txn!Close, Txn!CloseReleasing,
     Txn!Owned, Txn!Verified
<1>38. CASE Txn!Crash
  BY <1>38 DEF Txn!Crash
<1>39. CASE Txn!Interfere
  BY <1>39
<1>40. ASSUME NEW p \in Path, Txn!ApplyFile(p)
      PROVE  Txn!CompetitorsKept
  BY <1>40 DEF Txn!ApplyFile
<1>41. ASSUME NEW p \in Path, Txn!ApplyFileFails(p)
      PROVE  Txn!CompetitorsKept
  BY <1>41 DEF Txn!ApplyFileFails
<1>42. ASSUME NEW p \in Path, Txn!UndoFile(p)
      PROVE  Txn!CompetitorsKept
  BY <1>42 DEF Txn!UndoFile
<1>43. ASSUME NEW p \in Path, Txn!RestoreFile(p)
      PROVE  Txn!CompetitorsKept
  BY <1>43 DEF Txn!RestoreFile
<1>44. ASSUME NEW s \in Txn!Scope, Txn!Begin(s)
      PROVE  Txn!CompetitorsKept
  BY <1>44, NoopAssumption DEF Txn!Begin
<1>45. CASE UNCHANGED Txn!vars
  BY <1>45 DEF Txn!vars
<1> QED
  BY <1>1, <1>2, <1>3, <1>4, <1>5, <1>6, <1>7, <1>8, <1>9, <1>10, <1>11, <1>12, <1>13,
     <1>14, <1>15, <1>16, <1>17, <1>18, <1>19, <1>20, <1>21, <1>22, <1>23, <1>24, <1>25,
     <1>26, <1>27, <1>28, <1>29, <1>30, <1>31, <1>32, <1>33, <1>34, <1>35, <1>36, <1>37,
     <1>38, <1>39, <1>40, <1>41, <1>42, <1>43, <1>44, <1>45
  DEF Txn!Next, Txn!Write, Txn!Rollback, Txn!Recovery

\* HEAD is written under its lock.
LEMMA RefsHeld == Txn!Spec => [](Txn!TypeOK /\ RefsAt)
<1>1. Txn!Init => RefsAt
  BY DEF Txn!Init, RefsAt
<1>2. Txn!TypeOK /\ Txn!TypeOK' /\ RefsAt /\ [Txn!Next]_(Txn!vars) => RefsAt'
  BY RefsStep
<1> QED
  BY <1>1, <1>2, WriteTypeCorrect, PTL DEF Txn!Spec

\* Bytes, index entries and refs that somebody else wrote are never replaced
\* by a write, its compensation or its recovery (memory_git.rs:573).
LEMMA NobodyIsReplaced == Txn!Spec => [][Txn!CompetitorsKept]_(Txn!vars)
<1>1. Txn!TypeOK /\ RefsAt /\ [Txn!Next]_(Txn!vars) => [Txn!CompetitorsKept]_(Txn!vars)
  BY KeepStep
<1> QED
  BY <1>1, RefsHeld, PTL DEF Txn!Spec
-----------------------------------------------------------------------------
\* What a step that does not begin a write does to what the abstract
\* specification sees.
Effects ==
    /\ noop' = noop /\ touched' = touched
    /\ message = "absent" <=> message' = "absent"
    /\ message = "complete" => message' = "complete"
    /\ message = "absent" /\ head = "commit" => head' = "commit"
    /\ message' = "complete" /\ message # "complete" => at' # "idle"
    /\ message' = "absent" /\ head' = "commit" /\ head # "commit" => at' # "idle"
    /\ at = "idle" /\ ~quarantined => UNCHANGED <<at, quarantined, file, index, head, message>>
    /\ at' = "idle" /\ ~quarantined' => UNCHANGED <<file, index, head, message>>

\* Only a new write renames the stores; every other step has these effects.
LEMMA EffectsStep ==
    ASSUME Txn!TypeOK, JournalFits, ProgressAt, ~touched', ~noop, [Txn!Next]_(Txn!vars),
           \A s \in Txn!Scope : ~Txn!Begin(s)
    PROVE  Effects
<1> USE NoRow, NoCommitAssumption DEF Effects, Txn!TypeOK, JournalFits, ProgressAt,
        Undoing, Txn!Step, Txn!Row, Txn!Scope, Txn!Oid, Txn!git, Txn!stored, Txn!local,
        Txn!world,
        Txn!Fault, Txn!Quiet, Txn!Move
<1>1. CASE Txn!CreateJournal
  BY <1>1 DEF Txn!CreateJournal
<1>2. CASE Txn!CreateJournalFails
  BY <1>2 DEF Txn!CreateJournalFails, Txn!Close, Txn!CloseReleasing, Txn!Owned
<1>3. CASE Txn!ValidateApplied
  BY <1>3 DEF Txn!ValidateApplied
<1>4. CASE Txn!LeaveUndo
  BY <1>4 DEF Txn!LeaveUndo
<1>5. CASE Txn!Prepare
  BY <1>5 DEF Txn!Prepare
<1>6. CASE Txn!PrepareFails
  BY <1>6 DEF Txn!PrepareFails, Txn!Compensate, Txn!CompensateReleasing, Txn!Owned
<1>7. CASE Txn!RecordIntent
  BY <1>7 DEF Txn!RecordIntent
<1>8. CASE Txn!RecordIntentFails
  BY <1>8 DEF Txn!RecordIntentFails, Txn!Compensate, Txn!CompensateReleasing, Txn!Owned
<1>9. CASE Txn!LockRefs
  BY <1>9 DEF Txn!LockRefs
<1>10. CASE Txn!LockRefsFails
  BY <1>10 DEF Txn!LockRefsFails
<1>11. CASE Txn!LockIndex
  BY <1>11 DEF Txn!LockIndex
<1>12. CASE Txn!PublishIndex
  BY <1>12 DEF Txn!PublishIndex, Txn!Rename
<1>13. CASE Txn!PublishIndexFails
  BY <1>13 DEF Txn!PublishIndexFails, Txn!Rename, Txn!Compensate, Txn!CompensateReleasing,
     Txn!Owned
<1>14. CASE Txn!MoveHead
  BY <1>14 DEF Txn!MoveHead
<1>15. CASE Txn!MoveHeadFails
  BY <1>15 DEF Txn!MoveHeadFails, Txn!Compensate, Txn!CompensateReleasing, Txn!Owned
<1>16. CASE Txn!VerifyPublished
  BY <1>16 DEF Txn!VerifyPublished
<1>17. CASE Txn!VerifyPublishedFails
  BY <1>17 DEF Txn!VerifyPublishedFails, Txn!Close, Txn!CloseReleasing, Txn!Owned
<1>18. CASE Txn!Finalize
  BY <1>18 DEF Txn!Finalize
<1>19. CASE Txn!FinalizeFails
  BY <1>19 DEF Txn!FinalizeFails
<1>20. CASE Txn!DeleteJournal
  BY <1>20 DEF Txn!DeleteJournal
<1>21. CASE Txn!PreflightRollback
  BY <1>21 DEF Txn!PreflightRollback
<1>22. CASE Txn!PreflightRollbackFails
  BY <1>22 DEF Txn!PreflightRollbackFails, Txn!Close, Txn!CloseReleasing, Txn!Owned
<1>23. CASE Txn!RollbackLock
  BY <1>23 DEF Txn!RollbackLock, Txn!HeadIsOurs
<1>24. CASE Txn!RollbackLockFails
  BY <1>24 DEF Txn!RollbackLockFails, Txn!Close, Txn!CloseReleasing, Txn!Owned
<1>25. CASE Txn!RollbackLockIndex
  BY <1>25 DEF Txn!RollbackLockIndex
<1>26. CASE Txn!RestoreIndex
  BY <1>26 DEF Txn!RestoreIndex, Txn!Rename, Txn!IndexIsOurs
<1>27. CASE Txn!RestoreIndexFails
  BY <1>27 DEF Txn!RestoreIndexFails, Txn!Rename, Txn!Close, Txn!CloseReleasing, Txn!Owned,
     Txn!IndexIsOurs
<1>28. CASE Txn!ResetHead
  BY <1>28 DEF Txn!ResetHead
<1>29. CASE Txn!ResetHeadFails
  BY <1>29 DEF Txn!ResetHeadFails, Txn!Close, Txn!CloseReleasing, Txn!Owned
<1>30. CASE Txn!FilesRestored
  BY <1>30 DEF Txn!FilesRestored
<1>31. CASE Txn!RestoreFails
  BY <1>31 DEF Txn!RestoreFails, Txn!Close, Txn!CloseReleasing, Txn!Owned
<1>32. CASE Txn!Forget
  BY <1>32 DEF Txn!Forget, Txn!Resolve
<1>33. CASE Txn!ForgetFails
  BY <1>33 DEF Txn!ForgetFails, Txn!ResolveFails, Txn!Close, Txn!CloseReleasing, Txn!Owned
<1>34. CASE Txn!Recover
  BY <1>34 DEF Txn!Recover
<1>35. CASE Txn!Decide
  BY <1>35 DEF Txn!Decide, Txn!Finished
<1>36. CASE Txn!RecoverVerified
  BY <1>36 DEF Txn!RecoverVerified, Txn!Resolve, Txn!Verified
<1>37. CASE Txn!RecoverVerifyFails
  BY <1>37 DEF Txn!RecoverVerifyFails, Txn!ResolveFails, Txn!Close, Txn!CloseReleasing,
     Txn!Owned, Txn!Verified
<1>38. CASE Txn!Crash
  BY <1>38 DEF Txn!Crash
<1>39. CASE Txn!Interfere
  BY <1>39, OutsideIs DEF Txn!Outside
<1>40. ASSUME NEW p \in Path, Txn!ApplyFile(p)
      PROVE  Effects
  BY <1>40 DEF Txn!ApplyFile
<1>41. ASSUME NEW p \in Path, Txn!ApplyFileFails(p)
      PROVE  Effects
  BY <1>41 DEF Txn!ApplyFileFails
<1>42. ASSUME NEW p \in Path, Txn!UndoFile(p)
      PROVE  Effects
  BY <1>42 DEF Txn!UndoFile
<1>43. ASSUME NEW p \in Path, Txn!RestoreFile(p)
      PROVE  Effects
  BY <1>43 DEF Txn!RestoreFile
<1>44. CASE UNCHANGED Txn!vars
  BY <1>44 DEF Txn!vars
<1> QED
  BY <1>1, <1>2, <1>3, <1>4, <1>5, <1>6, <1>7, <1>8, <1>9, <1>10, <1>11, <1>12, <1>13,
     <1>14, <1>15, <1>16, <1>17, <1>18, <1>19, <1>20, <1>21, <1>22, <1>23, <1>24, <1>25,
     <1>26, <1>27, <1>28, <1>29, <1>30, <1>31, <1>32, <1>33, <1>34, <1>35, <1>36, <1>37,
     <1>38, <1>39, <1>40, <1>41, <1>42, <1>43, <1>44
  DEF Txn!Next, Txn!Write, Txn!Rollback, Txn!Recovery

\* The initial states are initial states of the abstract specification,
LEMMA AtomicInit == Txn!Init => Txn!Atomic!AInit
BY DEF Txn!Init, Txn!Unchanged, Txn!Atomic!AInit

\* and every step decides, works, releases or begins a write, or is disturbed.
LEMMA AtomicStep ==
    WriteInv /\ WriteInv' /\ [Txn!Next]_(Txn!vars) => [Txn!Atomic!ANext]_(Txn!Atomic!avars)
<1> SUFFICES ASSUME WriteInv, WriteInv', [Txn!Next]_(Txn!vars)
             PROVE  [Txn!Atomic!ANext]_(Txn!Atomic!avars)
  OBVIOUS
<1>1. CASE touched' \/ noop'
  BY <1>1 DEF Txn!Atomic!ANext, Txn!Atomic!Disturbed
<1>2. ASSUME NEW s \in Txn!Scope, Txn!Begin(s) PROVE Txn!Atomic!ANext
  <2>1. /\ at = "idle" /\ ~quarantined /\ at' = "begun"
        /\ file' = [p \in Path |-> "before"] /\ index' = "original" /\ head' = "previous"
        /\ message' \in {"open", "absent"}
    BY <1>2 DEF Txn!Begin
  <2>2. Txn!Unchanged'
    BY <2>1 DEF Txn!Unchanged
  <2>3. Txn!Atomic!BeginWrite
    BY <2>1, <2>2 DEF Txn!Atomic!BeginWrite
  <2> QED
    BY <2>3 DEF Txn!Atomic!ANext
<1>3. ASSUME ~touched', ~noop', \A s \in Txn!Scope : ~Txn!Begin(s)
      PROVE  [Txn!Atomic!ANext]_(Txn!Atomic!avars)
  <2>1. Effects /\ ~touched /\ ~noop
    <3>1. ~touched /\ ~noop
      BY <1>3, OnlyBeginForgets
    <3> QED
      BY <1>3, <3>1, EffectsStep DEF WriteInv
  <2>2. /\ StoresAt /\ ProgressAt /\ IdleAt
        /\ StoresAt' /\ IdleAt' /\ JournalFits' /\ Txn!TypeOK /\ Txn!TypeOK'
    BY <1>3, <2>1 DEF WriteInv
  <2> DEFINE open == at = "idle" /\ ~quarantined
             committed == IF message = "absent" THEN head = "commit" ELSE message = "complete"
             shown == IF Txn!Unchanged THEN "old" ELSE IF Txn!Published THEN "new" ELSE "mixed"
  <2>3. (committed' => Txn!Published') /\ (committed => committed')
    BY <2>1, <2>2 DEF StoresAt, Effects
  <2>4. /\ Txn!Published => shown = "new"
        /\ Txn!Published' => shown' = "new"
        /\ Txn!Unchanged' => shown' = "old"
    BY <1>3, <2>1 DEF Txn!Published, Txn!Unchanged, Txn!Oid
  <2>5. CASE open
    <3>1. UNCHANGED <<at, quarantined, file, index, head, message>>
      BY <2>1, <2>5 DEF Effects
    <3>2. UNCHANGED <<open, committed, shown>>
      BY <2>1, <3>1 DEF Txn!Unchanged, Txn!Published, Txn!AllProposed, Txn!Oid, Effects
    <3> QED
      BY <2>1, <3>2 DEF Effects, Txn!Atomic!avars
  <2>6. CASE ~open /\ open'
    <3>1. UNCHANGED <<file, index, head, message>>
      BY <2>1, <2>6 DEF Effects
    <3>2. UNCHANGED <<committed, shown>>
      BY <2>1, <3>1 DEF Txn!Unchanged, Txn!Published, Txn!AllProposed, Txn!Oid, Effects
    <3>3. shown' = IF committed' THEN "new" ELSE "old"
      <4>1. (Txn!Unchanged' /\ message' # "complete") \/ (Txn!Published' /\ message' # "open")
        BY <2>2, <2>6 DEF JournalFits, IdleAt
      <4>2. CASE committed'
        BY <2>3, <2>4, <4>2
      <4>3. CASE ~committed'
        <5>1. ~(Txn!Published' /\ message' # "open")
          BY <1>3, <2>2, <4>3 DEF Txn!Published, Txn!Oid, Txn!TypeOK
        <5> QED
          BY <2>4, <4>1, <4>3, <5>1
      <4> QED
        BY <4>2, <4>3
    <3>4. Txn!Atomic!Release
      BY <2>1, <2>6, <3>2, <3>3 DEF Effects, Txn!Atomic!Release
    <3> QED
      BY <3>4 DEF Txn!Atomic!ANext
  <2>7. CASE ~open /\ ~open' /\ committed' # committed
    <3>1. ~committed /\ committed' /\ shown' = "new"
      BY <2>3, <2>4, <2>7
    <3>2. Txn!Atomic!Commit
      BY <2>1, <2>7, <3>1 DEF Effects, Txn!Atomic!Commit
    <3> QED
      BY <3>2 DEF Txn!Atomic!ANext
  <2>8. CASE ~open /\ ~open' /\ committed' = committed
    <3>1. shown' \in IF committed THEN {"new"} ELSE {"old", "mixed", "new"}
      BY <2>3, <2>4, <2>8
    <3>2. Txn!Atomic!Work
      BY <2>1, <2>8, <3>1 DEF Effects, Txn!Atomic!Work
    <3> QED
      BY <3>2 DEF Txn!Atomic!ANext
  <2> QED
    BY <2>5, <2>6, <2>7, <2>8
<1> QED
  BY <1>1, <1>2, <1>3

\* A write is decided once and is never taken back, and its Guru opens again
\* with exactly what was decided, through every error, crash and recovery
\* (memory_write.rs:699).
LEMMA AtomicCommit == Txn!Spec => Txn!ImplementsAtomicCommit
BY WriteInvariance, AtomicInit, AtomicStep, PTL DEF Txn!Spec, Txn!ImplementsAtomicCommit,
   Txn!Atomic!AtomicSpec
-----------------------------------------------------------------------------
\* A behaviour of the application is a behaviour of each of its parts.
LEMMA PartsInit == DataInit => Init /\ Windows!ReplaceInit /\ Txn!Init
BY DEF DataInit

LEMMA PartsStep ==
    [DataNext]_data =>
        [Next]_vars /\ [Windows!ReplaceNext]_windows /\ [Txn!Next]_(Txn!vars)
<1>1. UNCHANGED transaction => UNCHANGED Txn!vars
  BY DEF transaction, Txn!vars, Txn!git, Txn!stored, Txn!local, Txn!world
<1> QED
  BY <1>1 DEF DataNext, data, File, WindowsFile, Write, Update, publication
-----------------------------------------------------------------------------
\* A settled change leaves no artifact behind, and without a competing save it
\* is all or nothing (memory_apply.rs).
THEOREM PublicationIsWhole == DataSpec => []SettledWhole
BY PartsInit, PartsStep, SettledIsWhole, PTL DEF DataSpec, Spec

\* What a user saved while a change was under way is never destroyed, but by
\* the removal that follows an exchange which did not sync.
THEOREM SavesSurvive == DataSpec => SyncedBytesSurvive
BY PartsInit, PartsStep, UserBytes, PTL DEF DataSpec, Spec

LEMMA WritesSpec == DataSpec => Txn!Spec
BY PartsInit, PartsStep, PTL DEF DataSpec, Txn!Spec

\* The inductive invariant of a write: what the stores hold, how far the command
\* is and what it left, tied together through the journal.
THEOREM Invariance == DataSpec => []WriteInv
BY WriteInvariance, WritesSpec, PTL

\* The Memory, the Chat that a write belongs to and what its caller is told
\* agree: a Guru that nobody else touched and that is open again holds the whole
\* write or none of it, and a Chat message that reads complete has its Memory
\* published at every moment (memory_write.rs:499, 699).
THEOREM WritesAgree == DataSpec => []AnswerAndMemoryAgree
BY Agreement, WritesSpec, PTL DEF AnswerAndMemoryAgree

\* Other Git processes taking and leaving locks as they like, HEAD is written
\* under a lock that is this command's own, with HEAD still where it was when
\* the lock was taken (memory_git.rs:395).
THEOREM LocksHeld == DataSpec => []RefsAt
BY RefsHeld, WritesSpec, PTL

\* Nobody else's change is replaced: not by a write, its compensation or its
\* recovery, and not by the publication of a file on Windows, which leaves
\* nothing pending behind (memory_git.rs:573; memory_apply.rs:809, 993).
THEOREM CompetitorsSurvive == DataSpec => CompetingChangesSurvive
<1>1. [Txn!CompetitorsKept]_(Txn!vars) => Txn!CompetitorsKept
  BY DEF Txn!CompetitorsKept, Txn!vars, Txn!git, Txn!stored, Txn!local, Txn!world
<1>2. ReplaceInv /\ [Windows!ReplaceNext]_windows => Windows!UserBytesKept /\ ReplaceInv'
  BY ReplaceKeeps, ReplaceStep
<1>3. DataSpec => []ReplaceInv
  BY PartsInit, PartsStep, ReplaceStarts, ReplaceStep, PTL DEF DataSpec
<1>4. ReplaceInv' => Windows!ReplacedWhole'
  BY ReplaceWhole, PTL
<1>5. [Txn!CompetitorsKept]_(Txn!vars) /\ ReplaceInv /\ [DataNext]_data =>
        [CompetitorsKept]_data
  BY <1>1, <1>2, <1>4, PartsStep DEF CompetitorsKept
<1> QED
  BY <1>3, <1>5, NobodyIsReplaced, WritesSpec, PTL DEF DataSpec, CompetingChangesSurvive

\* A write is decided once, is never taken back, and its Guru opens again with
\* exactly what was decided (memory_write.rs:699).
THEOREM WriteIsAtomic == DataSpec => ImplementsAtomicCommit
BY AtomicCommit, WritesSpec, PTL DEF ImplementsAtomicCommit
-----------------------------------------------------------------------------
\* Every author's change of Memory: what the turns and Library commands of one
\* Guru agree on is what its Memory becomes (MemoryUpdates).  What may be stored
\* in a page or a decision, and what authors keep of it.
Decided == {[title |-> Absent, links |-> uses, revoked |-> FALSE] : uses \in SUBSET Page}
Stored  == Draft \cup Decided \cup {Absent}
Tree    == [Updates!Record -> Stored]
Partial == UNION {[pages -> Stored] : pages \in SUBSET Page}
TurnRow == [step : {"idle", "runs", "queued", "done"}, reads : Partial,
            proposals : Partial, bases : Partial, decision : Stored]
CommandRow == [step : {"idle", "read", "queued", "done"}, target : Page \cup {Absent},
               before : Stored, after : Stored]
Change == [by : Turn \cup Command, undo : Tree]

UpdateTypes ==
    /\ memory \in Tree /\ previous \in [Page -> Stored]
    /\ readers \in SUBSET Turn /\ queue \in Seq(Turn \cup Command)
    /\ turns \in [Turn -> TurnRow] /\ commands \in [Command -> CommandRow]
    /\ writing \in Change \cup {Updates!Nobody}

\* Who is in the queue waits there once, with what he wants to change.
Lined ==
    /\ \A i \in 1 .. Len(queue) :
         /\ queue[i] \in Turn => turns[queue[i]].step = "queued"
         /\ queue[i] \in Command => commands[queue[i]].step = "queued"
    /\ \A i, j \in 1 .. Len(queue) : queue[i] = queue[j] => i = j
    /\ \A c \in Command : commands[c].step \in {"read", "queued"} => commands[c].target \in Page

\* The writer is at the head of the queue and alone with Memory.
Alone ==
    /\ \A t \in Turn : turns[t].step = "runs" => t \in readers
    /\ writing # Updates!Nobody => readers = {} /\ queue # <<>> /\ Head(queue) = writing.by

\* What a change is undone to has no dangling link.
Restores == writing # Updates!Nobody => Updates!Sound(writing.undo)

\* A proposal is based on what its turn read, which is there until the turn ends.
BasedOn(entry) ==
    \A p \in DOMAIN entry.proposals :
        p \in DOMAIN entry.bases /\ entry.bases[p] = Updates!Base(entry.reads, p)
FormedOn(entry) ==
    /\ \A p \in DOMAIN entry.reads : memory[p] # Absent /\ entry.reads[p] = memory[p]
    /\ \A p \in DOMAIN entry.proposals : entry.bases[p] = memory[p]
Based ==
    \A t \in Turn :
        /\ BasedOn(turns[t])
        /\ turns[t].step = "runs" => FormedOn(turns[t])
        /\ turns[t].step = "idle" => turns[t] = Updates!NewTurn

Taken(m) == {d \in Updates!Decision : m[d] # Absent}
Known    == IF writing = Updates!Nobody THEN memory ELSE writing.undo
Over     == {t \in Turn : turns[t].step = "done"}

\* No more decisions than turns that are over, but for the one that is written.
Room ==
    /\ Cardinality(Taken(Known)) <= Cardinality(Over)
    /\ writing # Updates!Nobody =>
         \/ Taken(memory) \subseteq Taken(writing.undo)
         \/ /\ writing.by \in Turn
            /\ \E d \in Updates!Decision :
                 Taken(memory) \subseteq Taken(writing.undo) \cup {d}

UpdateInv == UpdateTypes /\ Lined /\ Alone /\ Restores /\ Based /\ Room /\ Updates!MemoryIsSound

USE DEF Updates!Nobody

LEMMA InitUpdates == Updates!UpdatesInit => UpdateInv
<1> SUFFICES ASSUME Updates!UpdatesInit
             PROVE  UpdateInv
  OBVIOUS
<1> USE DEF Updates!UpdatesInit
<1>1. UpdateTypes
  <2>1. Updates!Nothing \in Partial
    <3>1. Updates!Nothing \in [{} -> Stored]
      BY DEF Updates!Nothing
    <3> QED
      BY <3>1 DEF Partial
  <2>2. Absent \in Stored
    BY DEF Stored
  <2>3. Updates!NewTurn \in TurnRow
    BY <2>1, <2>2 DEF Updates!NewTurn, TurnRow
  <2>4. Updates!NewCommand \in CommandRow
    BY <2>2 DEF Updates!NewCommand, CommandRow
  <2> QED
    BY <2>2, <2>3, <2>4 DEF UpdateTypes, Tree
<1>2. Lined /\ Alone /\ Restores
  BY DEF Lined, Alone, Restores, Updates!NewTurn, Updates!NewCommand
<1>3. Based
  BY DEF Based, BasedOn, FormedOn, Updates!NewTurn, Updates!Nothing
<1>4. Room
  <2>1. Taken(Known) = {}
    BY DEF Taken, Known, Updates!Record
  <2>2. Over = {}
    BY DEF Over, Updates!NewTurn
  <2> QED
    BY <2>1, <2>2, FS_EmptySet DEF Room
<1>5. Updates!MemoryIsSound
  BY DEF Updates!MemoryIsSound, Updates!Sound
<1> QED
  BY <1>1, <1>2, <1>3, <1>4, <1>5 DEF UpdateInv

LEMMA TurnForms ==
    ASSUME UpdateInv, NEW t \in Turn, NEW entry \in TurnRow,
           turns[t].step \in {"idle", "runs"}, entry.step = "runs",
           turns' = [turns EXCEPT ![t] = entry], readers' = readers \cup {t},
           writing = Updates!Nobody, BasedOn(entry), FormedOn(entry),
           UNCHANGED <<memory, previous, queue, commands, writing>>
    PROVE  UpdateInv'
<1> USE DEF UpdateInv
<1>1. UpdateTypes'
  BY DEF UpdateTypes
<1>2. /\ turns'[t] = entry /\ turns[t].step # "queued" /\ turns[t].step # "done"
      /\ \A u \in Turn \ {t} : turns'[u] = turns[u]
  BY DEF UpdateTypes
<1>3. Lined'
  BY <1>2 DEF Lined
<1>4. Alone'
  BY <1>2 DEF Alone
<1>5. Restores' /\ Updates!MemoryIsSound'
  BY DEF Restores, Updates!MemoryIsSound, Updates!Sound
<1>6. Based'
  <2>1. BasedOn(turns'[t]) /\ FormedOn(turns'[t]) /\ turns'[t].step = "runs"
    BY <1>2
  <2>2. ASSUME NEW u \in Turn \ {t}
        PROVE  /\ BasedOn(turns'[u])
               /\ turns'[u].step = "runs" => FormedOn(turns'[u])
               /\ turns'[u].step = "idle" => turns'[u] = Updates!NewTurn
    BY <1>2 DEF Based
  <2>3. \A u \in Turn :
          /\ BasedOn(turns'[u])
          /\ turns'[u].step = "runs" => FormedOn(turns'[u])
          /\ turns'[u].step = "idle" => turns'[u] = Updates!NewTurn
    BY <1>2, <2>1, <2>2
  <2> QED
    BY <2>3 DEF Based, BasedOn, FormedOn
<1>7. Room'
  <2>1. Over' = Over
    BY <1>2 DEF Over
  <2>2. Known' = Known
    BY DEF Known
  <2> QED
    BY <2>1, <2>2 DEF Room, Taken
<1> QED
  BY <1>1, <1>3, <1>4, <1>5, <1>6, <1>7

LEMMA PartialIs ==
    ASSUME NEW f \in Partial
    PROVE  DOMAIN f \subseteq Page /\ \A p \in DOMAIN f : f[p] \in Stored
BY DEF Partial

\* g is f with the content put at p.
Placed(g, f, p, content) ==
    /\ g \in Partial /\ DOMAIN g = DOMAIN f \cup {p}
    /\ g[p] = content /\ \A q \in DOMAIN f \ {p} : g[q] = f[q]

LEMMA PutIs ==
    ASSUME NEW f \in Partial, NEW p \in Page, NEW content \in Stored
    PROVE  Placed(Updates!Put(f, p, content), f, p, content)
<1>1. DOMAIN f \cup {p} \in SUBSET Page /\ \A q \in DOMAIN f : f[q] \in Stored
  BY PartialIs
<1>2. Updates!Put(f, p, content) \in [DOMAIN f \cup {p} -> Stored]
  BY <1>1 DEF Updates!Put
<1> QED
  BY <1>1, <1>2 DEF Placed, Updates!Put, Partial

LEMMA BaseIs ==
    ASSUME NEW f \in Partial, NEW p
    PROVE  Updates!Base(f, p) \in Stored
BY PartialIs DEF Updates!Base, Stored

\* What an agent does in its turn.
LEMMA AgentStep ==
    ASSUME UpdateInv, NEW t \in Turn,
           \/ Updates!BeginTurn(t) \/ Updates!ReadFull(t)
           \/ \E p \in Page, content \in Draft, beside \in BOOLEAN :
                Updates!Propose(t, p, content, beside)
           \/ \E p \in Page : Updates!Decide(t, {p})
    PROVE  UpdateInv'
<1> USE DEF UpdateInv
<1>1. turns[t] \in TurnRow /\ DOMAIN turns = Turn /\ memory \in Tree
  BY DEF UpdateTypes
<1>2. BasedOn(turns[t]) /\ (turns[t].step = "runs" => FormedOn(turns[t]))
  BY DEF Based
<1>3. turns[t].step = "runs" => readers = readers \cup {t} /\ writing = Updates!Nobody
  BY DEF Alone
<1>4. \A p \in Page : memory[p] \in Stored /\ p \in Updates!Record
  BY <1>1 DEF Tree, Updates!Record
<1>5. CASE Updates!BeginTurn(t)
  <2>1. PICK entry : entry = [turns[t] EXCEPT !.step = "runs"]
    OBVIOUS
  <2>2. entry \in TurnRow /\ entry.step = "runs" /\ BasedOn(entry)
    BY <1>1, <1>2, <2>1 DEF TurnRow, BasedOn
  <2>3. turns' = [turns EXCEPT ![t] = entry]
    BY <1>5, <2>1 DEF Updates!BeginTurn
  <2>4. writing = Updates!Nobody
    BY <1>5 DEF Updates!BeginTurn, Alone
  <2>5. FormedOn(entry)
    <3>1. turns[t] = Updates!NewTurn
      BY <1>5 DEF Updates!BeginTurn, Based
    <3> QED
      BY <2>1, <3>1 DEF FormedOn, Updates!NewTurn, Updates!Nothing
  <2> QED
    BY <1>1, <1>5, <2>2, <2>3, <2>4, <2>5, TurnForms DEF Updates!BeginTurn
<1>6. CASE Updates!ReadFull(t)
  <2> DEFINE reads == [p \in {q \in Page : memory[q] # Absent} |-> memory[p]]
  <2>1. PICK entry : entry = [turns[t] EXCEPT !.reads = reads]
    OBVIOUS
  <2>2. reads \in Partial
    <3>1. reads \in [{q \in Page : memory[q] # Absent} -> Stored]
      BY <1>4
    <3> QED
      BY <3>1 DEF Partial
  <2>3. turns[t].step = "runs" /\ turns' = [turns EXCEPT ![t] = entry]
    BY <1>6, <2>1 DEF Updates!ReadFull
  <2>4. /\ entry \in TurnRow /\ entry.step = "runs" /\ entry.reads = reads
        /\ entry.proposals = turns[t].proposals /\ entry.bases = turns[t].bases
    BY <1>1, <2>1, <2>2, <2>3 DEF TurnRow
  <2>5. turns[t].proposals \in Partial /\ turns[t].reads \in Partial
    BY <1>1 DEF TurnRow
  <2>6. \A p \in DOMAIN turns[t].proposals : Updates!Base(reads, p) = memory[p]
    BY <2>5, PartialIs DEF Updates!Base
  <2>7. BasedOn(entry)
    BY <1>2, <2>3, <2>4, <2>6 DEF BasedOn, FormedOn
  <2>8. FormedOn(entry)
    BY <1>2, <2>3, <2>4 DEF FormedOn
  <2> QED
    BY <1>3, <1>6, <2>3, <2>4, <2>7, <2>8, TurnForms DEF Updates!ReadFull
<1>7. ASSUME NEW p \in Page, NEW content \in Draft, NEW beside \in BOOLEAN,
             Updates!Propose(t, p, content, beside)
      PROVE  UpdateInv'
  <2> DEFINE base == Updates!Base(turns[t].reads, p)
             proposals == Updates!Put(turns[t].proposals, p, content)
             bases == Updates!Put(turns[t].bases, p, base)
  <2>1. PICK entry : entry = [turns[t] EXCEPT !.proposals = proposals, !.bases = bases]
    OBVIOUS
  <2>2. turns[t].step = "runs" /\ Updates!BaseIsLive(base, memory[p])
    BY <1>7 DEF Updates!Propose
  <2>3. turns' = [turns EXCEPT ![t] = entry]
    <3>1. turns' = [turns EXCEPT ![t].proposals = Updates!Put(@, p, content),
                                 ![t].bases = Updates!Put(@, p, base)]
      BY <1>7 DEF Updates!Propose
    <3> QED
      BY <1>1, <2>1, <3>1
  <2>4. /\ turns[t].proposals \in Partial /\ turns[t].reads \in Partial
        /\ turns[t].bases \in Partial
    BY <1>1 DEF TurnRow
  <2>5. content \in Stored /\ base \in Stored
    BY <2>4, BaseIs DEF Stored
  <2> HIDE DEF base
  <2>6. /\ proposals \in Partial
        /\ DOMAIN proposals = DOMAIN turns[t].proposals \cup {p}
    <3>1. Placed(proposals, turns[t].proposals, p, content)
      BY <2>4, <2>5, PutIs
    <3> QED
      BY <3>1 DEF Placed
  <2>7. Placed(bases, turns[t].bases, p, base)
    BY <2>4, <2>5, PutIs
  <2>8. base = memory[p]
    BY <1>2, <2>2 DEF base, FormedOn, Updates!Base, Updates!BaseIsLive
  <2>9. base = Updates!Base(turns[t].reads, p)
    BY DEF base
  <2> HIDE DEF proposals, bases
  <2>10. /\ entry \in TurnRow /\ entry.step = "runs" /\ entry.reads = turns[t].reads
         /\ entry.proposals = proposals /\ entry.bases = bases
    BY <1>1, <2>1, <2>2, <2>6, <2>7 DEF TurnRow, Placed
  <2>11. BasedOn(entry)
    BY <1>2, <2>6, <2>7, <2>9, <2>10 DEF BasedOn, Placed
  <2>12. FormedOn(entry)
    BY <1>2, <2>2, <2>6, <2>7, <2>8, <2>10 DEF BasedOn, FormedOn, Placed
  <2> QED
    BY <1>3, <1>7, <2>2, <2>3, <2>10, <2>11, <2>12, TurnForms DEF Updates!Propose
<1>8. ASSUME NEW p \in Page, Updates!Decide(t, {p})
      PROVE  UpdateInv'
  <2> DEFINE decision == [title |-> Absent, links |-> {p}, revoked |-> FALSE]
  <2>1. PICK entry : entry = [turns[t] EXCEPT !.decision = decision]
    OBVIOUS
  <2>2. decision \in Stored
    BY DEF Stored, Decided
  <2>3. turns[t].step = "runs" /\ turns' = [turns EXCEPT ![t] = entry]
    BY <1>8, <2>1 DEF Updates!Decide
  <2> HIDE DEF decision
  <2>4. /\ entry \in TurnRow /\ entry.step = "runs" /\ entry.reads = turns[t].reads
        /\ entry.proposals = turns[t].proposals /\ entry.bases = turns[t].bases
    BY <1>1, <2>1, <2>2, <2>3 DEF TurnRow
  <2>5. BasedOn(entry) /\ FormedOn(entry)
    BY <1>2, <2>3, <2>4 DEF BasedOn, FormedOn
  <2> QED
    BY <1>3, <1>8, <2>3, <2>4, <2>5, TurnForms DEF Updates!Decide
<1> QED
  BY <1>5, <1>6, <1>7, <1>8

LEMMA Appended ==
    ASSUME NEW S, NEW s \in Seq(S), NEW x \in S
    PROVE  /\ Append(s, x) \in Seq(S) /\ Len(Append(s, x)) = Len(s) + 1 /\ Append(s, x) # <<>>
           /\ \A i \in 1 .. Len(s) : Append(s, x)[i] = s[i]
           /\ Append(s, x)[Len(s) + 1] = x
OBVIOUS

LEMMA Shortened ==
    ASSUME NEW S, NEW s \in Seq(S), s # <<>>
    PROVE  /\ Tail(s) \in Seq(S) /\ Len(s) \in Nat \ {0} /\ Len(Tail(s)) = Len(s) - 1
           /\ \A i \in 1 .. Len(s) - 1 : Tail(s)[i] = s[i + 1]
           /\ Head(s) = s[1] /\ s[1] \in S
OBVIOUS

\* Somebody who does not wait yet reserves the writer's place.
LEMMA Reserves ==
    ASSUME UpdateInv, NEW w \in Turn \cup Command, queue' = Append(queue, w),
           turns' \in [Turn -> TurnRow], commands' \in [Command -> CommandRow],
           w \in Turn => turns[w].step # "queued" /\ turns'[w].step = "queued",
           w \in Command => /\ commands[w].step # "queued" /\ commands'[w].step = "queued"
                            /\ commands'[w].target \in Page,
           \A t \in Turn \ {w} : turns'[t] = turns[t],
           \A c \in Command \ {w} : commands'[c] = commands[c],
           readers' = readers \ {w}, UNCHANGED <<memory, previous, writing>>
    PROVE  UpdateTypes' /\ Lined' /\ Alone'
<1> USE DEF UpdateInv
<1>1. queue \in Seq(Turn \cup Command) /\ Len(queue) \in Nat
  BY DEF UpdateTypes
<1>2. /\ queue' \in Seq(Turn \cup Command) /\ Len(queue') = Len(queue) + 1
      /\ \A i \in 1 .. Len(queue) : queue'[i] = queue[i] /\ queue[i] \in Turn \cup Command
      /\ queue'[Len(queue) + 1] = w
  BY <1>1, Appended
<1>3. UpdateTypes'
  BY <1>2 DEF UpdateTypes
<1>4. \A i \in 1 .. Len(queue) : queue[i] # w
  BY <1>1 DEF Lined
<1>5. Lined'
  <2>1. ASSUME NEW i \in 1 .. Len(queue')
        PROVE  /\ queue'[i] \in Turn => turns'[queue'[i]].step = "queued"
               /\ queue'[i] \in Command => commands'[queue'[i]].step = "queued"
    <3>1. CASE i \in 1 .. Len(queue)
      <4>1. queue'[i] = queue[i] /\ queue[i] # w
        BY <1>2, <1>4, <3>1
      <4> QED
        BY <3>1, <4>1 DEF Lined
    <3>2. CASE i = Len(queue) + 1
      BY <1>2, <3>2
    <3> QED
      BY <1>1, <1>2, <2>1, <3>1, <3>2
  <2>2. ASSUME NEW i \in 1 .. Len(queue'), NEW j \in 1 .. Len(queue'), queue'[i] = queue'[j]
        PROVE  i = j
    <3>1. CASE i \in 1 .. Len(queue) /\ j \in 1 .. Len(queue)
      BY <1>2, <2>2, <3>1 DEF Lined
    <3>2. CASE ~(i \in 1 .. Len(queue) /\ j \in 1 .. Len(queue))
      BY <1>1, <1>2, <1>4, <2>2, <3>2
    <3> QED
      BY <3>1, <3>2
  <2>3. ASSUME NEW c \in Command, commands'[c].step \in {"read", "queued"}
        PROVE  commands'[c].target \in Page
    BY <2>3 DEF Lined
  <2> QED
    BY <2>1, <2>2, <2>3 DEF Lined
<1>6. Alone'
  <2>1. ASSUME NEW t \in Turn, turns'[t].step = "runs"
        PROVE  t \in readers'
    BY <2>1 DEF Alone
  <2>2. ASSUME writing' # Updates!Nobody
        PROVE  readers' = {} /\ queue' # <<>> /\ Head(queue') = writing'.by
    <3>1. readers = {} /\ queue # <<>> /\ Head(queue) = writing.by
      BY <2>2 DEF Alone
    <3>2. Head(queue') = Head(queue) /\ queue' # <<>>
      BY <1>1, <3>1
    <3> QED
      BY <3>1, <3>2
  <2> QED
    BY <2>1, <2>2 DEF Alone
<1> QED
  BY <1>3, <1>5, <1>6

\* The turn's answer is there; it gives up its lease.
LEMMA EndStep ==
    ASSUME UpdateInv, NEW t \in Turn, NEW update \in BOOLEAN, Updates!EndTurn(t, update)
    PROVE  UpdateInv'
<1> USE DEF UpdateInv
<1> USE AuthorAssumption
<1>1. /\ turns[t] \in TurnRow /\ turns[t].step = "runs" /\ turns \in [Turn -> TurnRow]
      /\ BasedOn(turns[t]) /\ commands \in [Command -> CommandRow]
  BY DEF UpdateTypes, Updates!EndTurn, Based
<1>2. PICK entry : entry = IF update THEN [turns[t] EXCEPT !.step = "queued"]
                       ELSE [turns[t] EXCEPT !.step = "queued", !.proposals = Updates!Nothing,
                                             !.bases = Updates!Nothing]
  OBVIOUS
<1>3. Updates!Nothing \in Partial
  <2>1. Updates!Nothing \in [{} -> Stored]
    BY DEF Updates!Nothing
  <2> QED
    BY <2>1 DEF Partial
<1>4. entry \in TurnRow /\ entry.step = "queued" /\ BasedOn(entry)
  <2>1. CASE update
    BY <1>1, <1>2, <2>1 DEF TurnRow, BasedOn
  <2>2. CASE ~update
    BY <1>1, <1>2, <1>3, <2>2 DEF TurnRow, BasedOn, Updates!Nothing
  <2> QED
    BY <2>1, <2>2
<1>5. turns' = [turns EXCEPT ![t] = entry]
  BY <1>1, <1>2 DEF Updates!EndTurn
<1>6. /\ turns' \in [Turn -> TurnRow] /\ turns'[t] = entry
      /\ \A u \in Turn \ {t} : turns'[u] = turns[u]
  BY <1>1, <1>4, <1>5
<1>7. UpdateTypes' /\ Lined' /\ Alone'
  BY <1>1, <1>4, <1>6, Reserves DEF Updates!EndTurn
<1>8. Restores' /\ Updates!MemoryIsSound'
  BY DEF Restores, Updates!MemoryIsSound, Updates!Sound, Updates!EndTurn
<1>9. Based'
  <2>1. ASSUME NEW u \in Turn
        PROVE  /\ BasedOn(turns'[u])
               /\ turns'[u].step = "runs" => FormedOn(turns'[u])
               /\ turns'[u].step = "idle" => turns'[u] = Updates!NewTurn
    <3>1. CASE u = t
      BY <1>4, <1>6, <3>1
    <3>2. CASE u # t
      BY <1>6, <3>2 DEF Based
    <3> QED
      BY <3>1, <3>2
  <2> QED
    BY <2>1 DEF Based, BasedOn, FormedOn, Updates!EndTurn
<1>10. Room'
  <2>1. Over' = Over
    BY <1>1, <1>4, <1>6 DEF Over
  <2>2. Known' = Known
    BY DEF Known, Updates!EndTurn
  <2> QED
    BY <2>1, <2>2 DEF Room, Taken, Updates!EndTurn
<1> QED
  BY <1>7, <1>8, <1>9, <1>10

\* What a Library command does before it writes.
LEMMA CommandStep ==
    ASSUME UpdateInv, NEW c \in Command,
           \/ \E p \in Page, content \in Draft :
                Updates!Create(c, p, content) \/ Updates!Revise(c, p, content)
           \/ \E p \in Page : Updates!Delete(c, p) \/ Updates!Revert(c, p)
           \/ Updates!Reserve(c)
    PROVE  UpdateInv'
<1> USE DEF UpdateInv
<1> USE AuthorAssumption
<1>1. /\ commands \in [Command -> CommandRow] /\ turns \in [Turn -> TurnRow]
      /\ previous \in [Page -> Stored]
  BY DEF UpdateTypes
<1>2. \A p \in Page : memory[p] \in Stored /\ previous[p] \in Stored
  BY DEF UpdateTypes, Tree, Updates!Record
<1>3. Draft \subseteq Stored /\ Absent \in Stored
  BY DEF Stored
<1>4. ASSUME UNCHANGED <<memory, previous, turns, writing>>
      PROVE  Restores' /\ Updates!MemoryIsSound' /\ Based' /\ Room'
  <2>1. Over' = Over /\ Known' = Known
    BY <1>4 DEF Over, Known
  <2> QED
    BY <1>4, <2>1 DEF Restores, Updates!MemoryIsSound, Updates!Sound, Based, BasedOn, FormedOn,
       Room, Taken
<1>5. ASSUME NEW p \in Page, NEW old \in Stored, NEW new \in Stored,
             Updates!Prepare(c, p, old, new)
      PROVE  UpdateInv'
  <2> USE <1>5 DEF Updates!Prepare
  <2>1. PICK entry : entry = [step |-> "read", target |-> p, before |-> old, after |-> new]
    OBVIOUS
  <2>2. entry \in CommandRow /\ entry.step = "read" /\ entry.target = p
    BY <2>1 DEF CommandRow
  <2>3. commands' = [commands EXCEPT ![c] = entry]
    BY <2>1
  <2>4. /\ commands' \in [Command -> CommandRow] /\ commands'[c] = entry
        /\ \A d \in Command \ {c} : commands'[d] = commands[d]
    BY <1>1, <2>2, <2>3
  <2>5. UpdateTypes'
    BY <2>4 DEF UpdateTypes
  <2>6. \A i \in 1 .. Len(queue) : queue[i] # c
    BY DEF Lined
  <2>7. Lined'
    <3>1. ASSUME NEW i \in 1 .. Len(queue), queue[i] \in Command
          PROVE  commands'[queue[i]].step = "queued"
      BY <2>4, <2>6, <3>1 DEF Lined
    <3>2. ASSUME NEW d \in Command, commands'[d].step \in {"read", "queued"}
          PROVE  commands'[d].target \in Page
      BY <2>2, <2>4, <3>2 DEF Lined
    <3> QED
      BY <3>1, <3>2 DEF Lined
  <2>8. Alone'
    BY DEF Alone
  <2> QED
    BY <1>4, <2>5, <2>7, <2>8
<1>6. ASSUME Updates!Reserve(c)
      PROVE  UpdateInv'
  <2> USE <1>6 DEF Updates!Reserve
  <2>1. PICK entry : entry = [commands[c] EXCEPT !.step = "queued"]
    OBVIOUS
  <2>2. commands[c] \in CommandRow /\ commands[c].step = "read" /\ commands[c].target \in Page
    BY <1>1 DEF Lined
  <2>3. entry \in CommandRow /\ entry.step = "queued" /\ entry.target \in Page
    BY <2>1, <2>2 DEF CommandRow
  <2>4. commands' = [commands EXCEPT ![c] = entry]
    BY <1>1, <2>1
  <2>5. /\ commands' \in [Command -> CommandRow] /\ commands'[c] = entry
        /\ \A d \in Command \ {c} : commands'[d] = commands[d]
    BY <1>1, <2>3, <2>4
  <2>6. readers' = readers \ {c} /\ c \notin Turn
    BY DEF UpdateTypes
  <2>7. UpdateTypes' /\ Lined' /\ Alone'
    BY <1>1, <2>2, <2>3, <2>5, <2>6, Reserves
  <2> QED
    BY <1>4, <2>7
<1> QED
  BY <1>2, <1>3, <1>5, <1>6
  DEF Updates!Create, Updates!Revise, Updates!Delete, Updates!Revert

\* The least-number principle.
LEMMA Smallest ==
    ASSUME NEW S \in SUBSET Nat, S # {}
    PROVE  \E n \in S : \A k \in S : n <= k
<1> DEFINE T == {1..n : n \in S}
<1>1. \A n \in Nat : IsFiniteSet(1..n)
  BY FS_Interval
<1>2. T \subseteq FiniteSubsetsOf(Nat) /\ T # {}
  <2>1. \A n \in S : 1..n \in SUBSET Nat /\ IsFiniteSet(1..n)
    BY <1>1
  <2>2. \A x \in T : x \in FiniteSubsetsOf(Nat)
    BY <2>1 DEF FiniteSubsetsOf
  <2>3. T # {}
    OBVIOUS
  <2> QED
    BY <2>2, <2>3
<1>3. IsWellFoundedOn(StrictSubsetOrdering(Nat), FiniteSubsetsOf(Nat))
  BY FS_StrictSubsetOrderingWellFounded
<1> HIDE DEF T
<1>4. PICK x \in T : \A y \in T : <<y, x>> \notin StrictSubsetOrdering(Nat)
  BY <1>2, <1>3, WFMin
<1>5. PICK n \in S : x = 1..n
  BY DEF T
<1>6. ASSUME NEW k \in S, k < n
      PROVE  FALSE
  <2>1. n \in 1..n /\ n \notin 1..k /\ 1..k \subseteq 1..n
    BY <1>6
  <2>2. 1..k \in T
    BY DEF T
  <2>3. <<1..k, x>> \in StrictSubsetOrdering(Nat)
    BY <1>5, <2>1 DEF StrictSubsetOrdering
  <2> QED
    BY <1>4, <2>2, <2>3
<1> QED
  BY <1>6

LEMMA SameCardinality == \A S : Updates!Cardinality(S) = Cardinality(S)
BY DEF Updates!Cardinality, Cardinality, Updates!IsFiniteSet, IsFiniteSet

LEMMA DecisionsAre ==
    /\ IsFiniteSet(Updates!Decision) /\ Cardinality(Updates!Decision) = Cardinality(Turn)
    /\ Updates!Decision \cap Page = {}
    /\ \A d \in Updates!Decision : d[2] \in Nat
<1>1. Cardinality(Turn) \in Nat /\ Updates!Cardinality(Turn) = Cardinality(Turn)
  BY AuthorAssumption, FS_CardinalityType, SameCardinality
<1> DEFINE n == Cardinality(Turn)
<1>2. Updates!Decision = {"decision"} \X (1 .. n)
  BY <1>1 DEF Updates!Decision
<1>3. IsFiniteSet(1 .. n) /\ Cardinality(1 .. n) = n
  BY <1>1, FS_Interval
<1>4. IsFiniteSet({"decision"}) /\ Cardinality({"decision"}) = 1
  BY FS_Singleton
<1> HIDE DEF n
<1>5. IsFiniteSet(Updates!Decision) /\ Cardinality(Updates!Decision) = 1 * n
  <2>1. /\ IsFiniteSet({"decision"} \X (1 .. n))
        /\ Cardinality({"decision"} \X (1 .. n)) = Cardinality({"decision"}) * Cardinality(1 .. n)
    BY <1>3, <1>4, FS_Product
  <2> QED
    BY <1>2, <1>3, <1>4, <2>1
<1>6. Updates!Decision \cap Page = {} /\ \A d \in Updates!Decision : d[2] \in Nat
  BY <1>1, <1>2, PageAssumption DEF n
<1> QED
  BY <1>1, <1>5, <1>6 DEF n

LEMMA OverIs == Over \subseteq Turn /\ IsFiniteSet(Over) /\ Cardinality(Over) \in Nat
<1>1. Over \subseteq Turn
  BY DEF Over
<1> QED
  BY <1>1, AuthorAssumption, FS_Subset, FS_CardinalityType

LEMMA TakenIs ==
    ASSUME NEW m
    PROVE  /\ Taken(m) \subseteq Updates!Decision
           /\ IsFiniteSet(Taken(m)) /\ Cardinality(Taken(m)) \in Nat
<1>1. Taken(m) \subseteq Updates!Decision
  BY DEF Taken
<1> QED
  BY <1>1, DecisionsAre, FS_Subset, FS_CardinalityType

\* A turn that is not over finds an id for its decision.
LEMMA DecisionIsFree ==
    ASSUME UpdateInv, writing = Updates!Nobody, NEW t \in Turn, turns[t].step # "done"
    PROVE  Updates!DecisionId \in Updates!Decision
<1>1. Taken(memory) # Updates!Decision
  <2>1. Cardinality(Taken(memory)) <= Cardinality(Over)
    BY DEF UpdateInv, Room, Known
  <2>2. t \notin Over
    BY DEF Over
  <2>3. /\ Cardinality(Over) <= Cardinality(Turn)
        /\ Cardinality(Over) = Cardinality(Turn) => Over = Turn
        /\ Cardinality(Turn) \in Nat
    BY OverIs, AuthorAssumption, FS_Subset, FS_CardinalityType
  <2>4. Cardinality(Over) < Cardinality(Turn)
    BY <2>2, <2>3, OverIs
  <2> QED
    BY <2>1, <2>4, OverIs, TakenIs, DecisionsAre
<1> DEFINE free == {d \in Updates!Decision : memory[d] = Absent}
           S == {d[2] : d \in free}
<1>2. S \in SUBSET Nat /\ S # {}
  BY <1>1, DecisionsAre DEF Taken
<1> HIDE DEF S
<1>3. PICK n \in S : \A k \in S : n <= k
  BY <1>2, Smallest
<1>4. PICK d \in free : d[2] = n
  BY DEF S
<1>5. \A e \in free : e[2] \in S
  BY DEF S
<1>6. \A e \in Updates!Decision : memory[e] = Absent => d[2] <= e[2]
  BY <1>3, <1>4, <1>5
<1> QED
  BY <1>4, <1>6 DEF Updates!DecisionId

\* A writer that is done leaves the queue.
LEMMA DoneIs ==
    ASSUME UpdateInv, NEW w \in Turn \cup Command, queue # <<>>, Head(queue) = w, readers = {},
           Updates!Done(w)
    PROVE  /\ queue' \in Seq(Turn \cup Command)
           /\ turns' \in [Turn -> TurnRow] /\ commands' \in [Command -> CommandRow]
           /\ Lined'
           /\ \A t \in Turn : /\ BasedOn(turns'[t]) /\ turns'[t].step # "runs"
                              /\ turns'[t].step = "idle" => turns'[t] = Updates!NewTurn
           /\ Over \subseteq Over' /\ (w \in Turn => w \in Over' /\ w \notin Over)
<1> USE AuthorAssumption DEF UpdateInv
<1>1. /\ queue \in Seq(Turn \cup Command) /\ turns \in [Turn -> TurnRow]
      /\ commands \in [Command -> CommandRow]
  BY DEF UpdateTypes
<1>2. /\ queue' = Tail(queue) /\ queue' \in Seq(Turn \cup Command)
      /\ Len(queue) \in Nat \ {0} /\ Len(queue') = Len(queue) - 1
      /\ \A i \in 1 .. Len(queue) - 1 : queue'[i] = queue[i + 1]
      /\ queue[1] = w
  BY <1>1, Shortened DEF Updates!Done
<1>3. \A i \in 1 .. Len(queue') :
        /\ queue'[i] = queue[i + 1] /\ i + 1 \in 1 .. Len(queue)
        /\ queue'[i] # w
  BY <1>2 DEF Lined
<1>4. PICK entry : entry = [turns[w] EXCEPT !.step = "done"]
  OBVIOUS
<1>5. PICK line : line = [commands[w] EXCEPT !.step = "done"]
  OBVIOUS
<1>6. w \in Turn =>
        /\ turns' = [turns EXCEPT ![w] = entry] /\ commands' = commands
        /\ turns[w] \in TurnRow /\ turns[w].step = "queued" /\ BasedOn(turns[w])
  BY <1>1, <1>2, <1>4 DEF Updates!Done, Lined, Based
<1>7. w \in Turn => entry \in TurnRow /\ entry.step = "done" /\ BasedOn(entry)
  BY <1>4, <1>6 DEF TurnRow, BasedOn
<1>8. w \in Command =>
        /\ commands' = [commands EXCEPT ![w] = line] /\ turns' = turns
        /\ commands[w] \in CommandRow
  BY <1>1, <1>5 DEF Updates!Done
<1>9. w \in Command => line \in CommandRow /\ line.step = "done"
  BY <1>5, <1>8 DEF CommandRow
<1>10. /\ turns' \in [Turn -> TurnRow] /\ (w \in Turn => turns'[w] = entry)
       /\ \A t \in Turn \ {w} : turns'[t] = turns[t]
  BY <1>1, <1>6, <1>7, <1>8
<1>11. /\ commands' \in [Command -> CommandRow] /\ (w \in Command => commands'[w] = line)
       /\ \A c \in Command \ {w} : commands'[c] = commands[c]
  BY <1>1, <1>6, <1>8, <1>9
<1>12. Lined'
  <2>1. ASSUME NEW i \in 1 .. Len(queue')
        PROVE  /\ queue'[i] \in Turn => turns'[queue'[i]].step = "queued"
               /\ queue'[i] \in Command => commands'[queue'[i]].step = "queued"
    BY <1>3, <1>10, <1>11 DEF Lined
  <2>2. ASSUME NEW i \in 1 .. Len(queue'), NEW j \in 1 .. Len(queue'), queue'[i] = queue'[j]
        PROVE  i = j
    <3>1. queue[i + 1] = queue[j + 1]
      BY <1>3, <2>2
    <3> QED
      BY <1>3, <3>1 DEF Lined
  <2>3. ASSUME NEW c \in Command, commands'[c].step \in {"read", "queued"}
        PROVE  commands'[c].target \in Page
    BY <1>9, <1>11, <2>3 DEF Lined
  <2> QED
    BY <2>1, <2>2, <2>3 DEF Lined
<1>13. ASSUME NEW t \in Turn
       PROVE  /\ BasedOn(turns'[t]) /\ turns'[t].step # "runs"
              /\ turns'[t].step = "idle" => turns'[t] = Updates!NewTurn
  <2>1. CASE t = w
    BY <1>7, <1>10, <2>1
  <2>2. CASE t # w
    BY <1>10, <2>2 DEF Based, Alone
  <2> QED
    BY <2>1, <2>2
<1>14. Over \subseteq Over' /\ (w \in Turn => w \in Over' /\ w \notin Over)
  BY <1>6, <1>7, <1>10 DEF Over
<1> QED
  BY <1>2, <1>10, <1>11, <1>12, <1>13, <1>14

\* A writer that is done, with Memory as it leaves it.
LEMMA WriterStep ==
    ASSUME UpdateInv, NEW w \in Turn \cup Command, queue # <<>>, Head(queue) = w, readers = {},
           Updates!Done(w), readers' = readers, writing' = Updates!Nobody,
           memory' \in Tree, previous' \in [Page -> Stored], Updates!Sound(memory)',
           Cardinality(Taken(memory)') <= Cardinality(Over')
    PROVE  UpdateInv'
<1>1. UpdateTypes' /\ Lined'
  BY DoneIs DEF UpdateInv, UpdateTypes
<1>2. Alone' /\ Restores' /\ Updates!MemoryIsSound'
  BY DoneIs DEF Alone, Restores, Updates!MemoryIsSound
<1>3. Based'
  BY DoneIs DEF Based, BasedOn
<1>4. Room'
  BY DEF Room, Known, Taken
<1> QED
  BY <1>1, <1>2, <1>3, <1>4 DEF UpdateInv

\* What a writer puts in Memory: records, pages or the decision of its turn.
LEMMA ChangeIs ==
    ASSUME UpdateInv, NEW w \in Turn \cup Command, writing = Updates!Nobody,
           queue # <<>>, Head(queue) = w
    PROVE  /\ \A r \in Updates!Targets(w) : r \in DOMAIN Updates!Change(w)
                                            /\ Updates!Change(w)[r] \in Stored
           /\ w \in Command => Updates!Targets(w) \subseteq Page
           /\ w \in Turn =>
                \/ Updates!Targets(w) \subseteq Page
                \/ /\ Updates!DecisionId \in Updates!Decision
                   /\ Updates!Targets(w) \subseteq Page \cup {Updates!DecisionId}
           /\ w \in Turn => \A p \in Page :
                /\ p \in Updates!Targets(w) => p \in DOMAIN turns[w].proposals
                /\ p \in DOMAIN turns[w].proposals =>
                     /\ p \in DOMAIN Updates!Change(w)
                     /\ Updates!Change(w)[p] = turns[w].proposals[p]
<1> USE AuthorAssumption DEF UpdateInv
<1>1. queue[1] = w /\ 1 \in 1 .. Len(queue)
  BY Shortened DEF UpdateTypes
<1>2. CASE w \in Turn
  <2>1. turns[w] \in TurnRow /\ turns[w].step = "queued"
    BY <1>1, <1>2 DEF UpdateTypes, Lined
  <2>2. turns[w].proposals \in Partial /\ turns[w].decision \in Stored
    BY <2>1 DEF TurnRow
  <2>3. /\ DOMAIN turns[w].proposals \subseteq Page
        /\ \A p \in DOMAIN turns[w].proposals : turns[w].proposals[p] \in Stored
    BY <2>2, PartialIs
  <2>4. CASE turns[w].decision = Absent
    <3>1. Updates!Change(w) = turns[w].proposals
      BY <1>2, <2>4 DEF Updates!Change, Updates!TurnChange
    <3> QED
      BY <1>2, <2>3, <3>1 DEF Updates!Targets
  <2>5. CASE turns[w].decision # Absent
    <3>1. PICK id : id = Updates!DecisionId
      OBVIOUS
    <3>2. id \in Updates!Decision /\ id \notin Page
      BY <1>2, <2>1, <3>1, DecisionIsFree, DecisionsAre
    <3>3. Updates!Change(w) = Updates!Put(turns[w].proposals, id, turns[w].decision)
      BY <1>2, <2>5, <3>1 DEF Updates!Change, Updates!TurnChange
    <3>4. /\ DOMAIN Updates!Change(w) = DOMAIN turns[w].proposals \cup {id}
          /\ Updates!Change(w)[id] = turns[w].decision
          /\ \A p \in DOMAIN turns[w].proposals : Updates!Change(w)[p] = turns[w].proposals[p]
      BY <2>3, <3>2, <3>3 DEF Updates!Put
    <3> QED
      BY <1>2, <2>2, <2>3, <3>1, <3>2, <3>4 DEF Updates!Targets
  <2> QED
    BY <2>4, <2>5
<1>3. CASE w \in Command
  <2>1. commands[w] \in CommandRow /\ commands[w].target \in Page
    BY <1>1, <1>3 DEF UpdateTypes, Lined
  <2>2. commands[w].after \in Stored
    BY <2>1 DEF CommandRow
  <2>3. Updates!Change(w) = Updates!Put(Updates!Nothing, commands[w].target, commands[w].after)
    BY <1>3 DEF Updates!Change
  <2>4. /\ DOMAIN Updates!Change(w) = {commands[w].target}
        /\ Updates!Change(w)[commands[w].target] = commands[w].after
    BY <2>3 DEF Updates!Put, Updates!Nothing
  <2> QED
    BY <1>3, <2>1, <2>2, <2>4 DEF Updates!Targets
<1> QED
  BY <1>2, <1>3

LEMMA PublishStep ==
    ASSUME UpdateInv, NEW w \in Turn \cup Command, Updates!Publish(w)
    PROVE  UpdateInv'
<1> USE DEF UpdateInv
<1>1. /\ queue # <<>> /\ Head(queue) = w /\ readers = {} /\ writing = Updates!Nobody
      /\ UNCHANGED <<previous, readers>>
  BY DEF Updates!Publish, Updates!HasLease
<1>2. memory \in Tree /\ Updates!Sound(memory)
  BY <1>1 DEF UpdateTypes, Updates!MemoryIsSound
<1>3. ASSUME Updates!Done(w), UNCHANGED <<memory, writing>>
      PROVE  UpdateInv'
  <2>1. Cardinality(Taken(memory)') <= Cardinality(Over')
    <3>1. Taken(memory)' = Taken(memory) /\ Cardinality(Taken(memory)) <= Cardinality(Over)
      BY <1>1, <1>3 DEF Taken, Room, Known
    <3>2. Over \subseteq Over' /\ Over' \subseteq Turn
      BY <1>1, <1>3, DoneIs DEF Over
    <3>3. IsFiniteSet(Over') /\ Cardinality(Over') \in Nat
      BY <3>2, AuthorAssumption, FS_Subset, FS_CardinalityType
    <3>4. Cardinality(Over) <= Cardinality(Over')
      BY <3>2, <3>3, FS_Subset
    <3> QED
      BY <3>1, <3>3, <3>4, OverIs, TakenIs
  <2>2. Updates!Sound(memory)'
    BY <1>2, <1>3 DEF Updates!Sound
  <2>3. memory' \in Tree /\ previous' \in [Page -> Stored] /\ writing' = Updates!Nobody
    BY <1>1, <1>2, <1>3 DEF UpdateTypes
  <2> QED
    BY <1>1, <1>3, <2>1, <2>2, <2>3, WriterStep
<1>4. ASSUME memory' = [r \in Updates!Record |->
                          IF r \in Updates!Targets(w) THEN Updates!Change(w)[r] ELSE memory[r]],
             writing' = [by |-> w, undo |-> memory], UNCHANGED <<queue, turns, commands>>
      PROVE  UpdateInv'
  <2>1. memory' \in Tree
    BY <1>1, <1>2, <1>4, ChangeIs DEF Tree
  <2>2. /\ writing' \in Change /\ writing' # Updates!Nobody
        /\ writing'.by = w /\ writing'.undo = memory
    BY <1>2, <1>4, AuthorAssumption DEF Change
  <2>3. UpdateTypes'
    BY <1>1, <1>4, <2>1, <2>2 DEF UpdateTypes
  <2>4. Lined' /\ Alone'
    BY <1>1, <1>4, <2>2 DEF Lined, Alone
  <2>5. Restores' /\ Updates!MemoryIsSound'
    BY <1>2, <2>2 DEF Restores, Updates!MemoryIsSound, Updates!Sound
  <2>6. Based'
    BY <1>1, <1>4 DEF Based, BasedOn, Alone
  <2>7. Room'
    <3>1. Known' = Known /\ Over' = Over /\ Taken(Known') = Taken(Known)
      BY <1>1, <1>4, <2>2 DEF Known, Over
    <3>2. ASSUME NEW d \in Taken(memory)'
          PROVE  d \in Taken(memory) \/ d \in Updates!Targets(w)
      BY <1>4, <3>2 DEF Taken, Updates!Record
    <3>3. Taken(memory)' \cap Page = {}
      BY DecisionsAre DEF Taken
    <3>4. Taken(writing'.undo) = Taken(memory)
      BY <2>2
    <3>5. \/ Taken(memory)' \subseteq Taken(memory)
          \/ /\ w \in Turn
             /\ \E d \in Updates!Decision : Taken(memory)' \subseteq Taken(memory) \cup {d}
      BY <1>1, <3>2, <3>3, ChangeIs
    <3>6. Cardinality(Taken(Known)) <= Cardinality(Over)
      BY DEF Room
    <3>7. Taken(Known)' = Taken(Known') /\ Taken(writing.undo)' = Taken(writing'.undo)
      BY DEF Taken
    <3> QED
      BY <2>2, <3>1, <3>4, <3>5, <3>6, <3>7 DEF Room
  <2> QED
    BY <2>3, <2>4, <2>5, <2>6, <2>7
<1> QED
  BY <1>3, <1>4 DEF Updates!Publish

LEMMA SettleStep ==
    ASSUME UpdateInv, NEW w \in Turn \cup Command, Updates!Commit(w) \/ Updates!RollBack(w)
    PROVE  UpdateInv'
<1> USE DEF UpdateInv
<1>1. writing.by = w /\ writing # Updates!Nobody /\ writing \in Change
  BY AuthorAssumption DEF Updates!Commit, Updates!RollBack, UpdateTypes
<1>2. queue # <<>> /\ Head(queue) = w /\ readers = {} /\ readers' = readers
  BY <1>1 DEF Alone, Updates!Commit, Updates!RollBack
<1>3. Updates!Done(w) /\ writing' = Updates!Nobody
  BY DEF Updates!Commit, Updates!RollBack
<1>4. writing.undo \in Tree /\ memory \in Tree
  BY <1>1 DEF Change, UpdateTypes
<1>5. Cardinality(Taken(writing.undo)) <= Cardinality(Over)
  BY <1>1 DEF Room, Known
<1>6. /\ Over \subseteq Over' /\ Over' \subseteq Turn
      /\ w \in Turn => w \in Over' /\ w \notin Over
  BY <1>2, <1>3, DoneIs DEF Over
<1>7. IsFiniteSet(Over') /\ Cardinality(Over') \in Nat
  BY <1>6, AuthorAssumption, FS_Subset, FS_CardinalityType
<1>8. Cardinality(Over) <= Cardinality(Over')
  BY <1>6, <1>7, FS_Subset
<1>9. w \in Turn => Cardinality(Over) + 1 <= Cardinality(Over')
  <2>1. ASSUME w \in Turn
        PROVE  Cardinality(Over) + 1 <= Cardinality(Over')
    <3>1. Over \cup {w} \in SUBSET Over'
      BY <1>6, <2>1
    <3>2. Cardinality(Over \cup {w}) = Cardinality(Over) + 1
      BY <1>6, <2>1, OverIs, FS_AddElement
    <3> QED
      BY <1>7, <3>1, <3>2, FS_Subset
  <2> QED
    BY <2>1
<1>10. CASE Updates!RollBack(w)
  <2>1. memory' = writing.undo /\ previous' = previous
    BY <1>10 DEF Updates!RollBack
  <2>2. Updates!Sound(memory)'
    BY <1>1, <2>1 DEF Restores, Updates!Sound
  <2>3. Cardinality(Taken(memory)') <= Cardinality(Over')
    <3>1. Taken(memory)' = Taken(writing.undo)
      BY <2>1 DEF Taken
    <3> QED
      BY <1>5, <1>7, <1>8, <3>1, OverIs, TakenIs
  <2> QED
    BY <1>2, <1>3, <1>4, <2>1, <2>2, <2>3, WriterStep DEF UpdateTypes
<1>11. CASE Updates!Commit(w)
  <2>1. /\ memory' = memory /\ Updates!Sound(memory)
        /\ previous' = [p \in Page |-> IF memory[p] # writing.undo[p] THEN writing.undo[p]
                                       ELSE previous[p]]
    BY <1>11 DEF Updates!Commit, Updates!Checked
  <2>2. previous' \in [Page -> Stored]
    <3>1. \A p \in Page : writing.undo[p] \in Stored /\ previous[p] \in Stored
      BY <1>4 DEF Tree, Updates!Record, UpdateTypes
    <3> QED
      BY <2>1, <3>1
  <2>3. Updates!Sound(memory)'
    BY <2>1 DEF Updates!Sound
  <2>4. Taken(memory)' = Taken(memory)
    BY <2>1 DEF Taken
  <2>5. Cardinality(Taken(memory)) <= Cardinality(Over')
    <3>1. CASE Taken(memory) \subseteq Taken(writing.undo)
      <4>1. Cardinality(Taken(memory)) <= Cardinality(Taken(writing.undo))
        BY <3>1, TakenIs, FS_Subset
      <4> QED
        BY <1>5, <1>7, <1>8, <4>1, OverIs, TakenIs
    <3>2. ASSUME w \in Turn, NEW d, Taken(memory) \subseteq Taken(writing.undo) \cup {d}
          PROVE  Cardinality(Taken(memory)) <= Cardinality(Over')
      <4>1. /\ IsFiniteSet(Taken(writing.undo) \cup {d})
            /\ Cardinality(Taken(writing.undo) \cup {d}) <= Cardinality(Taken(writing.undo)) + 1
            /\ Cardinality(Taken(writing.undo) \cup {d}) \in Nat
        <5>1. /\ IsFiniteSet(Taken(writing.undo) \cup {d})
              /\ Cardinality(Taken(writing.undo) \cup {d}) =
                   IF d \in Taken(writing.undo) THEN Cardinality(Taken(writing.undo))
                   ELSE Cardinality(Taken(writing.undo)) + 1
          BY TakenIs, FS_AddElement
        <5> QED
          BY <5>1, TakenIs
      <4>2. Cardinality(Taken(memory)) <= Cardinality(Taken(writing.undo) \cup {d})
        BY <3>2, <4>1, FS_Subset
      <4> QED
        BY <1>5, <1>7, <1>9, <3>2, <4>1, <4>2, OverIs, TakenIs
    <3> QED
      BY <1>1, <3>1, <3>2 DEF Room
  <2> QED
    BY <1>2, <1>3, <1>4, <2>1, <2>2, <2>3, <2>4, <2>5, WriterStep
<1> QED
  BY <1>10, <1>11

LEMMA UpdateStep == UpdateInv /\ [Updates!UpdatesNext]_updates => UpdateInv'
<1> SUFFICES ASSUME UpdateInv, [Updates!UpdatesNext]_updates
             PROVE  UpdateInv'
  OBVIOUS
<1>1. CASE UNCHANGED updates
  <2>1. Over' = Over /\ Known' = Known
    BY <1>1 DEF updates, Over, Known
  <2> QED
    BY <1>1, <2>1 DEF updates, UpdateInv, UpdateTypes, Lined, Alone, Restores, Based, BasedOn,
       FormedOn, Room, Taken, Updates!MemoryIsSound, Updates!Sound
<1>2. CASE Updates!UpdatesNext
  BY <1>2, AgentStep, EndStep, CommandStep, PublishStep, SettleStep DEF Updates!UpdatesNext
<1> QED
  BY <1>1, <1>2

\* What a writer replaces, in the step in which it publishes its change.
LEMMA ReplacesStep ==
    ASSUME UpdateInv, [Updates!UpdatesNext]_updates
    PROVE  Updates!ReplacesAsRead
<1> SUFFICES ASSUME NEW w \in Turn \cup Command, writing'.by = w, writing = Updates!Nobody
             PROVE  IF w \in Turn
                    THEN \A p \in Page : memory'[p] # memory[p] =>
                           /\ memory[p] = Updates!Base(turns[w].reads, p)
                           /\ ~Updates!Collides(memory', p, memory'[p])
                    ELSE memory[commands[w].target] = commands[w].before
  BY DEF Updates!ReplacesAsRead
<1> USE AuthorAssumption DEF UpdateInv
<1>1. writing' # writing /\ writing' # Updates!Nobody
  OBVIOUS
<1>2. PICK v \in Turn \cup Command : Updates!Publish(v)
  <2>1. Updates!UpdatesNext
    BY <1>1 DEF updates
  <2>2. ASSUME NEW t \in Turn,
               \/ Updates!BeginTurn(t) \/ Updates!ReadFull(t)
               \/ \E p \in Page, content \in Draft, beside \in BOOLEAN :
                    Updates!Propose(t, p, content, beside)
               \/ \E p \in Page : Updates!Decide(t, {p})
               \/ \E update \in BOOLEAN : Updates!EndTurn(t, update)
        PROVE  FALSE
    BY <1>1, <2>2
    DEF Updates!BeginTurn, Updates!ReadFull, Updates!Propose, Updates!Decide, Updates!EndTurn
  <2>3. ASSUME NEW c \in Command,
               \/ \E p \in Page, content \in Draft :
                    Updates!Create(c, p, content) \/ Updates!Revise(c, p, content)
               \/ \E p \in Page : Updates!Delete(c, p) \/ Updates!Revert(c, p)
               \/ Updates!Reserve(c)
        PROVE  FALSE
    BY <1>1, <2>3 DEF Updates!Create, Updates!Revise, Updates!Delete, Updates!Revert,
       Updates!Prepare, Updates!Reserve
  <2>4. ASSUME NEW v \in Turn \cup Command, Updates!Commit(v) \/ Updates!RollBack(v)
        PROVE  FALSE
    BY <2>4 DEF Updates!Commit, Updates!RollBack
  <2> QED
    BY <2>1, <2>2, <2>3, <2>4 DEF Updates!UpdatesNext
<1>3. /\ v = w /\ Updates!Applicable(w) /\ queue # <<>> /\ Head(queue) = w
      /\ memory' = [r \in Updates!Record |->
                      IF r \in Updates!Targets(w) THEN Updates!Change(w)[r] ELSE memory[r]]
  BY <1>1, <1>2 DEF Updates!Publish, Updates!HasLease
<1>4. CASE w \in Turn
  <2>1. /\ \A p \in DOMAIN turns[w].proposals : memory[p] = turns[w].bases[p]
        /\ \A p \in DOMAIN turns[w].proposals :
             /\ ~Updates!Collides(memory, p, turns[w].proposals[p])
             /\ ~Updates!Collides(turns[w].proposals, p, turns[w].proposals[p])
    BY <1>3, <1>4 DEF Updates!Applicable, Updates!BasesAreLive, Updates!NoCollision
  <2>2. \A p \in DOMAIN turns[w].proposals : turns[w].bases[p] = Updates!Base(turns[w].reads, p)
    BY <1>4 DEF Based, BasedOn
  <2>3. \A p \in Page :
          /\ p \in Updates!Targets(w) => p \in DOMAIN turns[w].proposals
          /\ p \in DOMAIN turns[w].proposals => Updates!Change(w)[p] = turns[w].proposals[p]
    BY <1>3, <1>4, ChangeIs
  <2>4. /\ DOMAIN memory = Updates!Record /\ DOMAIN memory' = Updates!Record
        /\ Page \subseteq Updates!Record
    BY <1>3 DEF UpdateTypes, Tree, Updates!Record
  <2>5. ASSUME NEW p \in Page, memory'[p] # memory[p]
        PROVE  /\ memory[p] = Updates!Base(turns[w].reads, p)
               /\ ~Updates!Collides(memory', p, memory'[p])
    <3>1. p \in Updates!Targets(w) /\ p \in DOMAIN turns[w].proposals
          /\ memory'[p] = turns[w].proposals[p]
      BY <1>3, <2>3, <2>4, <2>5
    <3>2. ASSUME NEW q \in Page, q # p, memory'[q] # Absent, ~memory'[q].revoked,
                 memory'[q].title = memory'[p].title
          PROVE  FALSE
      <4>1. CASE q \in Updates!Targets(w)
        <5>1. q \in DOMAIN turns[w].proposals /\ memory'[q] = turns[w].proposals[q]
          BY <1>3, <2>3, <2>4, <4>1
        <5> QED
          BY <2>1, <3>1, <3>2, <5>1 DEF Updates!Collides
      <4>2. CASE q \notin Updates!Targets(w)
        <5>1. memory'[q] = memory[q]
          BY <1>3, <2>4, <4>2
        <5> QED
          BY <2>1, <2>4, <3>1, <3>2, <5>1 DEF Updates!Collides
      <4> QED
        BY <4>1, <4>2
    <3>3. ~Updates!Collides(memory', p, memory'[p])
      BY <3>2 DEF Updates!Collides
    <3> QED
      BY <2>1, <2>2, <3>1, <3>3
  <2> QED
    BY <1>4, <2>5
<1>5. CASE w \notin Turn
  BY <1>3, <1>5 DEF Updates!Applicable, Updates!Preflight
<1> QED
  BY <1>4, <1>5

\* For any number of turns and Library commands: committed Memory has no
\* dangling link, a turn replaces only what its agent has read in full and takes
\* no other page's title, and a command replaces what it read
\* (memory_updates.rs:206, memory_crud.rs:285).
THEOREM Coherence == DataSpec => MemoryStaysCoherent
<1>1. DataInit => UpdateInv
  BY InitUpdates DEF DataInit
<1>2. UpdateInv /\ [DataNext]_data => UpdateInv' /\ [Updates!UpdatesNext]_updates
  <2>1. [DataNext]_data => [Updates!UpdatesNext]_updates
    BY DEF DataNext, data, File, WindowsFile, Write, Update
  <2> QED
    BY <2>1, UpdateStep
<1>3. UpdateInv /\ UpdateInv' /\ [Updates!UpdatesNext]_updates =>
        [Updates!ReplacesAsRead /\ Updates!MemoryIsSound']_(Updates!updates)
  BY ReplacesStep DEF UpdateInv
<1> QED
  BY <1>1, <1>2, <1>3, PTL DEF DataSpec, MemoryStaysCoherent, Updates!MemoryStaysCoherent
=============================================================================
