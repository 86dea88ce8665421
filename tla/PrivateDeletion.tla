--------------------------- MODULE PrivateDeletion ---------------------------
(***************************************************************************)
(* The deletion of a Guru or of a Chat (deletion.rs, delete_guru_inner,    *)
(* chat_delete): a durable journal, private storage renamed to tombstones, *)
(* one SQLite deletion, the tombstones removed.  An error before SQLite's  *)
(* deletion renames everything back; the next start resolves what a crash  *)
(* left.  Commands run concurrently with each other and with the runs that *)
(* use the storage; each durable effect is a step.                         *)
(***************************************************************************)
EXTENDS Naturals

CONSTANTS
    Kinds,         \* what may be deleted: "guru", "chat"
    Deleter,       \* concurrent delete commands
    Boot,          \* the recovery of the next start
    GuruStorage,   \* storage that a Guru must have
    MoreStorage,   \* storage that a Guru or a Chat may have
    MaxFaults,     \* bound on reported errors
    MaxCrashes     \* bound on crashes

ASSUME KindAssumption  == Kinds \subseteq {"guru", "chat"} /\ Boot \notin Deleter
ASSUME PathAssumption  == GuruStorage \cap MoreStorage = {}
ASSUME BoundAssumption == {MaxFaults, MaxCrashes} \subseteq Nat

VARIABLES
    kind,        \* what is deleted: a Guru or a Chat
    row,         \* SQLite has the Guru or the Chat
    journal,     \* the phase of its deletion journal, or none
    storage,     \* for each path, which of its source and tombstone exist
    quarantined, \* the Guru's Deletion quarantine
    run,         \* a run that uses the storage is registered
    pc,          \* where each command, and the recovery, is
    expected,    \* the journal row that it wrote or read
    todo,        \* paths it has not visited
    faults, crashes,
    lapses       \* what befell the target that the code does not make good

durable == <<row, journal, storage>>
vars    == <<kind, durable, quarantined, run, pc, expected, todo, faults, crashes, lapses>>

Path     == GuruStorage \cup MoreStorage
Required == IF kind = "guru" THEN GuruStorage ELSE {}
Optional == Path \ Required
Actor == Deleter \cup {Boot}
Phase == {"none", "prepared", "detached"}
Step  == {"idle", "asked", "begun", "detach", "mark", "commit", "cleanup", "rollback",
          "erase", "failed", "reopen", "boot"}

Init ==
    /\ kind \in Kinds
    /\ row = TRUE /\ journal = "none"
    /\ storage \in [Path -> {{}, {"source"}}]
    /\ \A p \in Required : storage[p] = {"source"}
    /\ quarantined = FALSE /\ run = FALSE
    /\ pc = [a \in Actor |-> "idle"]
    /\ expected = [a \in Actor |-> "none"] /\ todo = [a \in Actor |-> {}]
    /\ faults = 0 /\ crashes = 0 /\ lapses = {}

Fault == faults < MaxFaults /\ faults' = faults + 1
Quiet == faults' = faults

Running == pc[Boot] = "idle"
Goto(a, p) == pc' = [pc EXCEPT ![a] = p]

\* A step of a command or of the recovery, which then stands at "to".
Move(a, from, to) ==
    /\ pc[a] = from /\ Goto(a, to)
    /\ UNCHANGED <<run, crashes>>

Visit(a, paths) == todo' = [todo EXCEPT ![a] = paths]
Visited(a, p)   == todo' = [todo EXCEPT ![a] = @ \ {p}]
Expect(a, j)    == expected' = [expected EXCEPT ![a] = j]
Keep            == UNCHANGED <<expected, todo>>

\* Where an error leads: commands decide about the quarantine, the recovery
\* quarantines a target that exists.
Refuse(a, from) ==
    /\ pc[a] = from /\ Goto(a, IF a = Boot THEN "idle" ELSE "failed")
    /\ quarantined' = (quarantined \/ (a = Boot /\ row))
    /\ UNCHANGED <<run, crashes>> /\ Keep
-----------------------------------------------------------------------------
\* A run is admitted; it may create optional storage while it is active.
RunStarts ==
    /\ Running /\ row /\ ~quarantined /\ ~run
    /\ kind = "chat" => \A d \in Deleter : pc[d] \in {"idle", "asked"}
    /\ run' = TRUE
    /\ UNCHANGED <<durable, quarantined, pc, expected, todo, faults, crashes>>

RunStores(p) ==
    /\ run /\ p \in Optional
    /\ storage' = [storage EXCEPT ![p] = @ \cup {"source"}]
    /\ UNCHANGED <<row, journal, quarantined, run, pc, expected, todo, faults, crashes>>

RunEnds ==
    /\ run /\ run' = FALSE
    /\ UNCHANGED <<durable, quarantined, pc, expected, todo, faults, crashes>>

\* The command reads the quarantine and the target before it takes any lock.
Ask(d) ==
    /\ Running /\ Move(d, "idle", "asked") /\ Quiet
    /\ row /\ ~quarantined
    /\ UNCHANGED <<durable, quarantined>> /\ Keep

Alone(d) == \A e \in Deleter \ {d} : pc[e] \in {"idle", "asked"}

\* Slip: the quarantine is left to the caller, outside of the lock.
BeginUnquarantined(d) ==
    /\ Move(d, "asked", "begun") /\ Quiet
    /\ ~run
    /\ kind = "chat" => Alone(d)
    /\ UNCHANGED <<durable, quarantined>> /\ Keep

\* Under the registry lock: no run is active.  A Guru is quarantined there, by
\* whoever asked while it was open, also beside another deletion; a Chat is held
\* by a ChatMutation run.
Begin(d) ==
    /\ Move(d, "asked", "begun") /\ Quiet
    /\ ~run
    /\ kind = "chat" => Alone(d)
    /\ IF kind = "guru" THEN quarantined' = TRUE
                        ELSE ~quarantined /\ UNCHANGED quarantined
    /\ UNCHANGED durable /\ Keep

BeginRefused(d) ==
    /\ Move(d, "asked", "idle") /\ Quiet
    /\ \/ run
       \/ kind = "chat" /\ (quarantined \/ ~Alone(d))
    /\ UNCHANGED <<durable, quarantined>> /\ Keep

\* Required storage is identified before the journal names it.
Storable == \A p \in Required : "source" \in storage[p]

CreateJournal(d) ==
    /\ Move(d, "begun", "detach") /\ Quiet
    /\ journal = "none" /\ (kind = "guru" => Storable) /\ (kind = "chat" => row)
    /\ journal' = "prepared" /\ Expect(d, "prepared") /\ Visit(d, Path)
    /\ UNCHANGED <<row, storage, quarantined>>

CreateJournalFails(d) ==
    /\ Refuse(d, "begun")
    /\ \/ (journal # "none" \/ ~Storable \/ ~row) /\ Quiet /\ UNCHANGED journal
       \/ journal = "none" /\ Fault /\ journal' \in {"none", "prepared"}
    /\ UNCHANGED <<row, storage>>

\* detach_paths: one path becomes a tombstone; missing optional storage is skipped.
Detach(d, p) ==
    /\ Move(d, "detach", "detach") /\ Quiet /\ p \in todo[d]
    /\ \/ storage[p] = {"source"} /\ storage' = [storage EXCEPT ![p] = {"tombstone"}]
       \/ storage[p] = {} /\ p \in Optional /\ UNCHANGED storage
    /\ Visited(d, p)
    /\ UNCHANGED <<row, journal, quarantined, expected>>

\* An error of a rename may be reported after its effect.
DetachFails(d, p) ==
    /\ Move(d, "detach", "rollback") /\ p \in todo[d]
    /\ \/ /\ Quiet /\ UNCHANGED storage
          /\ "tombstone" \in storage[p] \/ (storage[p] = {} /\ p \in Required)
       \/ Fault /\ UNCHANGED storage
       \/ /\ Fault /\ storage[p] = {"source"}
          /\ storage' = [storage EXCEPT ![p] = {"tombstone"}]
    /\ Visit(d, Path)
    /\ UNCHANGED <<row, journal, quarantined, expected>>

MarkDetached(d) ==
    /\ Move(d, "detach", "commit") /\ Quiet /\ todo[d] = {}
    /\ journal = "prepared" /\ journal' = "detached" /\ Expect(d, "detached")
    /\ UNCHANGED <<row, storage, quarantined, todo>>

\* The rollback that follows compares the row that was there before.
MarkFails(d) ==
    /\ Move(d, "detach", "rollback") /\ todo[d] = {}
    /\ \/ journal # "prepared" /\ Quiet /\ UNCHANGED journal
       \/ journal = "prepared" /\ Fault /\ journal' \in {"prepared", "detached"}
    /\ Visit(d, Path)
    /\ UNCHANGED <<row, storage, quarantined, expected>>

\* SQLite's deletion: from here on storage is never restored.
DeleteRow(d) ==
    /\ Move(d, "commit", "cleanup") /\ Quiet
    /\ row /\ row' = FALSE /\ Visit(d, Path)
    /\ UNCHANGED <<journal, storage, quarantined, expected>>

\* Its error is taken for "not deleted", also when the COMMIT is durable.
DeleteRowFails(d) ==
    /\ Move(d, "commit", "rollback")
    /\ \/ ~row /\ Quiet /\ UNCHANGED row
       \/ Fault /\ row' \in {row, FALSE}
    /\ Visit(d, Path)
    /\ UNCHANGED <<journal, storage, quarantined, expected>>
-----------------------------------------------------------------------------
\* rollback_paths: a tombstone becomes live again.
Rollback(a, p) ==
    /\ Move(a, "rollback", "rollback") /\ Quiet /\ p \in todo[a]
    /\ storage[p] # {"source", "tombstone"} /\ (p \in Required => storage[p] # {})
    /\ storage' = [storage EXCEPT ![p] = IF @ = {} THEN {} ELSE {"source"}]
    /\ Visited(a, p)
    /\ UNCHANGED <<row, journal, quarantined, expected>>

\* Slip: a path that is in its place already is refused.
RollbackRefusesLive(a, p) ==
    /\ Refuse(a, "rollback") /\ p \in todo[a]
    /\ Quiet /\ storage[p] # {"tombstone"} /\ UNCHANGED storage
    /\ UNCHANGED <<row, journal>>

RollbackFails(a, p) ==
    /\ Refuse(a, "rollback") /\ p \in todo[a]
    /\ \/ /\ Quiet /\ UNCHANGED storage
          /\ storage[p] = {"source", "tombstone"} \/ (p \in Required /\ storage[p] = {})
       \/ Fault /\ UNCHANGED storage
       \/ /\ Fault /\ storage[p] = {"tombstone"}
          /\ storage' = [storage EXCEPT ![p] = {"source"}]
    /\ UNCHANGED <<row, journal>>

\* cleanup_paths.
Cleanup(a, p) ==
    /\ Move(a, "cleanup", "cleanup") /\ Quiet /\ p \in todo[a]
    /\ storage' = [storage EXCEPT ![p] = @ \ {"tombstone"}]
    /\ Visited(a, p)
    /\ UNCHANGED <<row, journal, quarantined, expected>>

CleanupFails(a, p) ==
    /\ Refuse(a, "cleanup") /\ p \in todo[a] /\ Fault
    /\ UNCHANGED durable

\* Slip: the journal goes before the last tombstone.
EraseEarly(a, from) ==
    /\ Move(a, from, IF a = Boot \/ from = "cleanup" THEN "idle" ELSE "failed")
    /\ Quiet
    /\ journal = expected[a] /\ journal' = "none"
    /\ quarantined' = (IF a # Boot /\ from = "cleanup" THEN FALSE ELSE quarantined)
    /\ UNCHANGED <<row, storage>> /\ Keep

\* The journal is deleted last.  A command that succeeded forgets its Guru; one
\* that rolled back still returns its error.
Erase(a, from) ==
    /\ Move(a, from, IF a = Boot \/ from = "cleanup" THEN "idle" ELSE "failed")
    /\ Quiet /\ todo[a] = {}
    /\ journal = expected[a] /\ journal' = "none"
    /\ quarantined' = (IF a # Boot /\ from = "cleanup" THEN FALSE ELSE quarantined)
    /\ UNCHANGED <<row, storage>> /\ Keep

EraseFails(a, from) ==
    /\ Refuse(a, from) /\ todo[a] = {}
    /\ \/ journal # expected[a] /\ Quiet /\ UNCHANGED journal
       \/ journal = expected[a] /\ Fault /\ journal' \in {"none", journal}
    /\ UNCHANGED <<row, storage>>

\* Slip: every failed deletion opens its Guru again.
CheckNothing(d) ==
    /\ kind = "guru" /\ Move(d, "failed", "reopen") /\ Quiet
    /\ UNCHANGED <<durable, quarantined>> /\ Keep

\* An error is returned: a Guru stays quarantined while its journal is pending,
\* a Chat that exists becomes quarantined.
CheckPending(d) ==
    /\ kind = "guru" /\ UNCHANGED durable /\ UNCHANGED quarantined /\ Keep
    /\ \/ Move(d, "failed", IF journal = "none" THEN "reopen" ELSE "idle") /\ Quiet
       \/ Move(d, "failed", "idle") /\ Fault

Reopen(d) ==
    /\ Move(d, "reopen", "idle") /\ Quiet
    /\ quarantined' = FALSE
    /\ UNCHANGED durable /\ Keep

\* Slip: a Chat whose deletion failed stays open.
CloseNothing(d) ==
    /\ kind = "chat" /\ Move(d, "failed", "idle") /\ Quiet
    /\ UNCHANGED <<durable, quarantined>> /\ Keep

\* When the Chat cannot be read either, the Guru stays open.
CloseChat(d) ==
    /\ kind = "chat" /\ Move(d, "failed", "idle")
    /\ \/ quarantined' = (quarantined \/ (row /\ journal # "none")) /\ Quiet
       \/ quarantined' = (quarantined \/ row) /\ Fault
       \/ UNCHANGED quarantined /\ Fault
    /\ UNCHANGED durable /\ Keep
-----------------------------------------------------------------------------
Crash ==
    /\ crashes < MaxCrashes /\ crashes' = crashes + 1
    /\ pc' = [a \in Actor |-> IF a = Boot THEN "boot" ELSE "idle"]
    /\ expected' = [a \in Actor |-> "none"] /\ todo' = [a \in Actor |-> {}]
    /\ quarantined' = FALSE /\ run' = FALSE
    /\ UNCHANGED <<durable, faults>>

\* Slip: the phase of the journal decides.
RecoverByPhase ==
    /\ IF journal = "none" THEN Move(Boot, "boot", "idle")
       ELSE Move(Boot, "boot", IF journal = "prepared" THEN "rollback" ELSE "cleanup")
    /\ Quiet /\ Expect(Boot, journal) /\ Visit(Boot, Path)
    /\ UNCHANGED <<durable, quarantined>>

\* recover: SQLite alone decides whether storage returns or goes.
Recover ==
    /\ IF journal = "none" THEN Move(Boot, "boot", "idle")
       ELSE Move(Boot, "boot", IF row THEN "rollback" ELSE "cleanup")
    /\ Quiet /\ Expect(Boot, journal) /\ Visit(Boot, Path)
    /\ UNCHANGED <<durable, quarantined>>

Command(d) ==
    \/ Begin(d) \/ BeginRefused(d) \/ CreateJournal(d) \/ CreateJournalFails(d)
    \/ \E p \in Path : Detach(d, p) \/ DetachFails(d, p)
    \/ MarkDetached(d) \/ MarkFails(d) \/ DeleteRow(d) \/ DeleteRowFails(d)
    \/ CheckPending(d) \/ Reopen(d) \/ CloseChat(d)

Resolve(a) ==
    \/ \E p \in Path : Rollback(a, p) \/ RollbackFails(a, p)
    \/ \E p \in Path : Cleanup(a, p) \/ CleanupFails(a, p)
    \/ \E from \in {"rollback", "cleanup"} : Erase(a, from) \/ EraseFails(a, from)

\* Two deletions of the Guru work at once.
Overlap == \E d, e \in Deleter :
    d # e /\ pc'[d] \notin {"idle", "asked"} /\ pc'[e] \notin {"idle", "asked"}

\* SQLite's deletion failed and is durable.
Indeterminate == \E d \in Deleter : pc[d] = "commit" /\ pc'[d] = "rollback" /\ row' # row

\* The Chat whose deletion failed and is pending could not be read: it stays open.
Unread == \E d \in Deleter :
    /\ kind = "chat" /\ pc[d] = "failed" /\ pc'[d] = "idle"
    /\ row /\ journal # "none" /\ ~quarantined' /\ faults' # faults

\* What a step adds to them.
Lapse ==
    (IF Overlap THEN {"overlap"} ELSE {})
      \cup (IF Indeterminate THEN {"indeterminate"} ELSE {})
      \cup (IF Unread THEN {"unread"} ELSE {})

Next ==
    /\ \/ RunStarts \/ RunEnds \/ \E p \in Path : RunStores(p)
       \/ \E d \in Deleter : Ask(d) \/ Command(d)
       \/ \E a \in Actor : Resolve(a)
       \/ Crash \/ Recover
    /\ UNCHANGED kind /\ lapses' = lapses \cup Lapse

Spec == Init /\ [][Next]_vars
-----------------------------------------------------------------------------
TypeOK ==
    /\ kind \in Kinds
    /\ row \in BOOLEAN /\ quarantined \in BOOLEAN /\ run \in BOOLEAN
    /\ journal \in Phase
    /\ storage \in [Path -> SUBSET {"source", "tombstone"}]
    /\ pc \in [Actor -> Step] /\ expected \in [Actor -> Phase]
    /\ todo \in [Actor -> SUBSET Path]
    /\ faults \in Nat /\ crashes \in Nat
    /\ lapses \subseteq {"overlap", "indeterminate", "unread"}

Idle == \A a \in Actor : pc[a] = "idle"

\* The bytes of a Guru or Chat that exists are never destroyed by a deletion
\* that fails, however it is interrupted, recovered or repeated (deletion.rs:81),
\* and whatever lapses.
ExistingKeepsBytes == row => \A p \in Required : storage[p] # {}

\* Whoever may start a run finds the storage in its place and no deletion
\* pending: a failed or interrupted deletion is undone or closes its Guru,
\* unless two overlap or a Chat cannot be read.
OpenIsWhole ==
    /\ lapses \subseteq {"indeterminate"}
    /\ row /\ Running /\ ~quarantined /\ (kind = "chat" => Idle)
    => journal = "none" /\ \A p \in Path : "tombstone" \notin storage[p]

\* What exists has all its bytes, and whoever uses it finds them in place.
ExistingIsWhole == ExistingKeepsBytes /\ OpenIsWhole

Moving(d) == pc[d] \in {"detach", "commit", "rollback", "cleanup"}

\* "Guru deletion quarantines under this lock too, closing the check/register
\* race" (run_coordinator.rs): no run is active while storage is moved.
NoRunWhileMoving == run => \A d \in Deleter : ~Moving(d)

\* One command moves storage at a time, even when two have begun, and no run is
\* active meanwhile unless two had (run_coordinator.rs:528, deletion.rs:81).
MovesAlone ==
    /\ \A d, e \in Deleter : Moving(d) /\ Moving(e) => d = e
    /\ "overlap" \notin lapses => NoRunWhileMoving

\* "Once SQLite commits absence, restoration would resurrect bytes without
\* authority" (deletion.rs): no storage of a deleted target is live, and what
\* is left of it has a journal that will remove it; unless two deletions overlap
\* or SQLite's error hides that it committed.
DeletedStaysGone ==
    ~row => \A p \in Path :
              /\ journal = "none" => "tombstone" \notin storage[p]
              /\ lapses \subseteq {"unread"} => "source" \notin storage[p]

\* A start that meets no error of its own resolves the journal it finds, unless a
\* run may have stored beside a tombstone.
StartResolves ==
    [][pc[Boot] # "idle" /\ pc'[Boot] = "idle" /\ faults' = faults
         /\ lapses \subseteq {"indeterminate"} => journal' = "none"]_vars
=============================================================================
