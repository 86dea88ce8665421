------------------------------- MODULE FileSwap -------------------------------
(***************************************************************************)
(* One Markdown file of a change set, as PinnedMemoryTransaction of        *)
(* runtime/memory_apply.rs (Unix) publishes it, takes it back and recovers *)
(* it: the target, and the artifact in the Guru's transaction directory    *)
(* that holds the bytes on their way in or out.  Each step is one system   *)
(* call.  A user's editor replaces or deletes the target between any two   *)
(* of them, each may report an error, and the process may die.             *)
(*                                                                         *)
(* Publishing and taking back are one procedure in two directions: the     *)
(* bytes Old are expected in the target and the bytes New are wanted.      *)
(***************************************************************************)
EXTENDS Naturals

CONSTANTS
    User,             \* contents the user saves
    MaxFaults,        \* bound on reported errors
    MaxCrashes,       \* bound on crashes
    MaxSaves          \* bound on the user's saves and deletions

ASSUME UserAssumption  == User \cap {"absent", "before", "proposed", "torn"} = {}
ASSUME BoundAssumption == {MaxFaults, MaxCrashes, MaxSaves} \subseteq Nat

VARIABLES
    kind,      \* the change: create, update or delete
    target,    \* the file that the user sees
    artifact,  \* the journal-owned file of the transaction directory
    back,      \* the direction: the change is being taken back
    proposed,  \* recovery found the target in its proposed state
    pc,        \* the next system call
    faults, crashes, saves

disk == <<target, artifact>>
vars == <<kind, disk, back, proposed, pc, faults, crashes, saves>>

Kind    == {"create", "update", "delete"}
Settled == {"kept", "restored"}
Retry   == {"done", "failed"}
Step    == Settled \cup Retry \cup
           {"preflight", "stage", "writing", "move_in", "exchange", "inspect", "unlink",
            "discard", "discard_out", "target_check", "swap_back", "inspect_back", "move_out",
            "inspect_out", "put_in", "recover", "reconcile", "clear", "reread"}

Before == IF kind = "create" THEN "absent" ELSE "before"
After  == IF kind = "delete" THEN "absent" ELSE "proposed"
Old    == IF back THEN After ELSE Before
New    == IF back THEN Before ELSE After

Init ==
    /\ kind \in Kind /\ target = Before /\ artifact = "absent"
    /\ back = FALSE /\ proposed = FALSE /\ pc = "preflight"
    /\ faults = 0 /\ crashes = 0 /\ saves = 0

\* A system call reports an error.
Fault == faults < MaxFaults /\ faults' = faults + 1
Quiet == faults' = faults

At(p) == pc = p /\ UNCHANGED <<kind, back, proposed, crashes, saves>>
Goto(p) == pc' = p /\ Quiet /\ UNCHANGED disk
Swap == target' = artifact /\ artifact' = target

\* The first call of a direction.
First(b) == IF (IF b THEN Before ELSE After) = "absent" THEN "move_out" ELSE "stage"
-----------------------------------------------------------------------------
\* The next change of the same file; its "before" is what it finds.
Begin(k) ==
    /\ pc \in Settled
    /\ kind' = k
    /\ target' = (IF k = "create" THEN "absent" ELSE "before")
    /\ back' = FALSE /\ proposed' = FALSE /\ pc' = "preflight"
    /\ UNCHANGED <<artifact, faults, crashes, saves>>

\* preflight_approved_target_at.
Preflight ==
    /\ At("preflight")
    /\ IF target = Before THEN Goto(First(FALSE)) ELSE Goto("failed")

\* write_artifact creates the file exclusively...
CreateArtifact ==
    /\ At("stage")
    /\ IF artifact # "absent" \/ (back /\ Old = "absent" /\ target # "absent")
       THEN Goto("failed")
       ELSE pc' = "writing" /\ artifact' = "torn" /\ Quiet /\ UNCHANGED target

\* ... and writes and syncs it.
FillArtifact ==
    /\ At("writing")
    /\ artifact' = New
    /\ \/ pc' = (IF Old = "absent" THEN "move_in" ELSE "exchange") /\ Quiet
       \/ pc' = "failed" /\ Fault
    /\ UNCHANGED target

WriteStops ==
    /\ At("writing")
    /\ pc' = "failed" /\ Fault /\ UNCHANGED disk

\* A file that should not exist yet is moved in; it never replaces one.
MoveIn ==
    /\ At("move_in")
    /\ IF target = "absent"
       THEN /\ Swap
            /\ \/ pc' = "done" /\ Quiet
               \/ pc' = "failed" /\ Fault
       ELSE Goto("discard")

\* A failed call; before the bytes moved, the staged ones are removed.
CallFails ==
    /\ \/ At("move_in") /\ pc' = "discard"
       \/ At("exchange") /\ pc' = (IF back THEN "failed" ELSE "discard")
       \/ /\ \E p \in {"inspect", "target_check", "swap_back", "inspect_back", "move_out",
                       "inspect_out", "put_in", "recover", "reconcile", "reread"} : At(p)
          /\ pc' = "failed"
    /\ Fault /\ UNCHANGED disk

\* renameat EXCHANGE; both names must exist.
Exchange ==
    /\ At("exchange")
    /\ IF target # "absent"
       THEN Swap /\ pc' = "inspect" /\ Quiet
       ELSE Goto(IF back THEN "failed" ELSE "discard")

\* The bytes were exchanged, but a directory fails to sync: the artifact that
\* is removed for the staged one holds what the target held.
ExchangeUnsynced ==
    /\ At("exchange") /\ target # "absent"
    /\ Swap /\ Fault
    /\ pc' = IF back THEN "failed" ELSE "discard_out"

\* The displaced bytes decide: the expected ones are removed, others go back.
Inspect ==
    /\ At("inspect")
    /\ IF artifact = Old THEN Goto("unlink") ELSE Goto("target_check")

Unlink ==
    /\ At("unlink") /\ UNCHANGED target
    /\ \/ artifact' = "absent" /\ pc' = "done" /\ Quiet
       \/ artifact' \in {artifact, "absent"} /\ pc' = "failed" /\ Fault

\* remove_artifact on an error path; its own error is ignored.
Discard ==
    /\ \E p \in {"discard", "discard_out"} : At(p)
    /\ pc' = "failed" /\ UNCHANGED target
    /\ \/ artifact' = "absent" /\ Quiet
       \/ artifact' = artifact /\ Fault

\* try_restore_exchange: only if nobody edited the newly published target.
TargetCheck ==
    /\ At("target_check")
    /\ IF target = New THEN Goto("swap_back") ELSE Goto("failed")

SwapBack ==
    /\ At("swap_back")
    /\ IF target # "absent"
       THEN /\ Swap
            /\ \/ pc' = "inspect_back" /\ Quiet
               \/ pc' = "failed" /\ Fault
       ELSE Goto("failed")

\* Slip: what came back is taken for the staged bytes.
DiscardSwapped == At("inspect_back") /\ Goto("discard")

InspectBack ==
    /\ At("inspect_back")
    /\ IF artifact = New THEN Goto("discard") ELSE Goto("failed")

\* A file that should go is moved out and inspected where no one edits it.
MoveOut ==
    /\ At("move_out")
    /\ IF target # "absent" /\ artifact = "absent"
       THEN /\ Swap
            /\ \/ pc' = "inspect_out" /\ Quiet
               \/ pc' = "failed" /\ Fault
       ELSE Goto("failed")

InspectOut ==
    /\ At("inspect_out")
    /\ IF artifact = Old THEN Goto("unlink")
       ELSE Goto(IF target = "absent" THEN "put_in" ELSE "failed")

PutIn ==
    /\ At("put_in") /\ pc' = "failed"
    /\ IF target = "absent" THEN Swap /\ (Quiet \/ Fault) ELSE Quiet /\ UNCHANGED disk
-----------------------------------------------------------------------------
\* The whole change set is published, or was taken back.
Settle ==
    /\ At("done")
    /\ Goto(IF back THEN "restored" ELSE "kept")

\* rollback_applied_prefix_at: a later file of the set failed.
Undo ==
    /\ pc = "done" /\ ~back
    /\ back' = TRUE /\ Goto(First(TRUE))
    /\ UNCHANGED <<kind, proposed, crashes, saves>>

\* rollback_memory_changes_idempotent, in this process or in the next one.
Recover == \E p \in Retry : At(p) /\ Goto("recover")

\* Slip: only a published change is recognised.
JudgeProposed ==
    /\ pc = "recover"
    /\ proposed' = (target = After)
    /\ Goto(IF target = After THEN "reconcile" ELSE "failed")
    /\ UNCHANGED <<kind, back, crashes, saves>>

Judge ==
    /\ pc = "recover"
    /\ proposed' = (target = After)
    /\ IF target \in {Before, After} THEN Goto("reconcile") ELSE Goto("failed")
    /\ UNCHANGED <<kind, back, crashes, saves>>

\* reconcile_artifact: only bytes that the journal knows may go.
Reconcile ==
    /\ At("reconcile")
    /\ IF artifact = "absent" THEN Goto("reread")
       ELSE IF artifact = (IF proposed THEN Before ELSE After) THEN Goto("clear")
       ELSE Goto("failed")

\* Slip: with the artifact gone the file is taken for restored.
ClearSettles ==
    /\ At("clear") /\ UNCHANGED target
    /\ artifact' = "absent" /\ pc' = "restored" /\ Quiet

Clear ==
    /\ At("clear") /\ UNCHANGED target
    /\ \/ artifact' = "absent" /\ pc' = "reread" /\ Quiet
       \/ artifact' \in {artifact, "absent"} /\ pc' = "failed" /\ Fault

Reread ==
    /\ pc = "reread"
    /\ back' = TRUE
    /\ Goto(IF target = Before THEN "restored"
            ELSE IF target = After THEN First(TRUE) ELSE "failed")
    /\ UNCHANGED <<kind, proposed, crashes, saves>>
-----------------------------------------------------------------------------
Crash ==
    /\ crashes < MaxCrashes /\ crashes' = crashes + 1
    /\ pc \notin Settled
    /\ pc' = "failed"
    /\ UNCHANGED <<kind, disk, back, proposed, faults, saves>>

\* The user's editor replaces the file, or the user deletes it.
Save(v) ==
    /\ saves < MaxSaves /\ saves' = saves + 1
    /\ target' = v
    /\ UNCHANGED <<kind, artifact, back, proposed, pc, faults, crashes>>

Publish ==
    \/ Preflight \/ CreateArtifact \/ FillArtifact \/ WriteStops \/ MoveIn
    \/ Exchange \/ ExchangeUnsynced \/ Inspect \/ Unlink \/ Discard \/ TargetCheck
    \/ SwapBack \/ InspectBack \/ MoveOut \/ InspectOut \/ PutIn \/ CallFails

Resume == Settle \/ Undo \/ Recover \/ Judge \/ Reconcile \/ Clear \/ Reread

Next ==
    \/ Publish \/ Resume \/ Crash
    \/ \E k \in Kind : Begin(k)
    \/ \E v \in User \cup {"absent"} : Save(v)

Spec == Init /\ [][Next]_vars

\* A change runs to its end and a Guru that stays closed is retried.
FairSpec == Spec /\ WF_vars(Publish) /\ WF_vars(Resume)
-----------------------------------------------------------------------------
TypeOK ==
    /\ kind \in Kind /\ pc \in Step
    /\ target \in User \cup {"absent", "before", "proposed"}
    /\ artifact \in User \cup {"absent", "before", "proposed", "torn"}
    /\ back \in BOOLEAN /\ proposed \in BOOLEAN
    /\ faults \in Nat /\ crashes \in Nat /\ saves \in Nat

\* What a user saved is destroyed by nobody but the user: whichever call fails,
\* whenever the process dies, it stays in the target or in the artifact.
Kept == \A u \in User : u \in {target, artifact} => u \in {target', artifact'}
UserBytesSurvive == [][saves' = saves /\ pc \notin Settled => Kept]_vars

\* The same but for the one step that removes what an exchange displaced
\* because a directory did not sync after it.
SyncedBytesSurvive ==
    [][saves' = saves /\ pc \notin Settled \cup {"discard_out"} => Kept]_vars

\* Without a competing save a change is kept whole or restored whole, and
\* with one it still leaves no artifact behind: workspace validation rejects
\* pending transaction files, so a left-over would close the Guru.
SettledWhole ==
    pc \in Settled =>
        /\ artifact = "absent"
        /\ saves = 0 => target = (IF pc = "kept" THEN After ELSE Before)

\* Every change is settled in the end, for as long as the user saves nothing
\* and no artifact was left half written.
TornRemains == pc = "failed" /\ artifact = "torn"
EventuallySettled == []<>(saves > 0 \/ TornRemains \/ pc \in Settled)
=============================================================================
