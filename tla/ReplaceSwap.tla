------------------------------ MODULE ReplaceSwap ------------------------------
(***************************************************************************)
(* The same change of one Markdown file as FileSwap's, as                  *)
(* WindowsMemoryTransaction of runtime/memory_apply.rs makes it.  There is *)
(* no exchange of two names: ReplaceFileW moves the staged file (.incoming)*)
(* over the target and the target into a backup (.swap), and a file that   *)
(* must not replace another is moved where there is none.  Each step is    *)
(* one system call; a user's editor, errors and the death of the process   *)
(* come between any two of them.                                           *)
(***************************************************************************)
EXTENDS Naturals

CONSTANTS User, MaxFaults, MaxCrashes, MaxSaves  \* as in FileSwap

VARIABLES
    kind,      \* the change: create, update or delete
    target,    \* the file that the user sees
    incoming,  \* the staged bytes
    swap,      \* what the target held
    back, proposed, pc, faults, crashes, saves  \* as in FileSwap

disk    == <<target, incoming, swap>>
replace == <<kind, disk, back, proposed, pc, faults, crashes, saves>>

Settled == {"kept", "restored"}
Retry   == {"done", "failed"}

Before == IF kind = "create" THEN "absent" ELSE "before"
After  == IF kind = "delete" THEN "absent" ELSE "proposed"
Old    == IF back THEN After ELSE Before
New    == IF back THEN Before ELSE After

ReplaceInit ==
    /\ kind \in {"create", "update", "delete"} /\ target = Before
    /\ incoming = "absent" /\ swap = "absent"
    /\ back = FALSE /\ proposed = FALSE /\ pc = "preflight"
    /\ faults = 0 /\ crashes = 0 /\ saves = 0

Fault   == faults < MaxFaults /\ faults' = faults + 1
Quiet   == faults' = faults
At(p)   == pc = p /\ UNCHANGED <<kind, back, proposed, crashes, saves>>
Goto(p) == pc' = p /\ Quiet /\ UNCHANGED disk

Pending  == swap # "absent" \/ incoming # "absent"
First(b) == IF (IF b THEN Before ELSE After) = "absent" THEN "move_out" ELSE "stage"
-----------------------------------------------------------------------------
Preflight ==
    /\ At("preflight")
    /\ IF target = Before THEN Goto(First(FALSE)) ELSE Goto("failed")

\* write_incoming: a file of its own, which must not be there yet; a deleted
\* file is staged again only where there is none.
Stage ==
    /\ At("stage")
    /\ IF Pending \/ (back /\ Old = "absent" /\ target # "absent") THEN Goto("failed")
       ELSE pc' = "writing" /\ incoming' = "torn" /\ Quiet /\ UNCHANGED <<target, swap>>

Fill ==
    /\ At("writing") /\ UNCHANGED <<target, swap>>
    /\ \/ incoming' = New /\ pc' = (IF Old = "absent" THEN "move_in" ELSE "replace") /\ Quiet
       \/ incoming' \in {"torn", New} /\ pc' = "failed" /\ Fault

\* MoveFileExW without replacing.
MoveIn ==
    /\ At("move_in")
    /\ IF target = "absent"
       THEN target' = incoming /\ incoming' = "absent" /\ pc' = "done" /\ Quiet /\ UNCHANGED swap
       ELSE Goto("discard")

\* A failed call.  Before the staged bytes are in place they are removed, but
\* not when a change is taken back.
CallFails ==
    /\ \/ At("move_in") /\ pc' = "discard"
       \/ At("replace") /\ pc' = (IF back THEN "failed" ELSE "discard")
       \/ /\ \E p \in {"inspect", "target_check", "replace_back", "inspect_back", "move_out",
                       "inspect_out", "put_in", "recover", "reconcile", "reread"} : At(p)
          /\ pc' = "failed"
    /\ Fault /\ UNCHANGED disk

Replaced == target' = incoming /\ swap' = target /\ incoming' = "absent"

\* Slip: the files were replaced, and what the target held is removed with what
\* is taken for the staged bytes.
ReplaceForgets ==
    /\ At("replace") /\ target # "absent"
    /\ \/ Replaced /\ pc' = "inspect" /\ Quiet
       \/ target' = incoming /\ swap' = "absent" /\ incoming' = "absent" /\ pc' = "failed" /\ Fault

\* ReplaceFileW; the two files are flushed after it, and either flush may fail.
\* It may also stop halfway: the target is in the backup and nothing in its
\* place.
Replace ==
    /\ At("replace")
    /\ \/ /\ target # "absent" /\ Replaced
          /\ \/ pc' = "inspect" /\ Quiet
             \/ pc' = (IF back THEN "failed" ELSE "discard") /\ Fault
       \/ /\ target # "absent" /\ target' = "absent" /\ swap' = target /\ Fault
          /\ pc' = (IF back THEN "failed" ELSE "discard") /\ UNCHANGED incoming
       \/ target = "absent" /\ Goto(IF back THEN "failed" ELSE "discard")

Inspect ==
    /\ At("inspect")
    /\ IF swap = Old THEN Goto("unlink") ELSE Goto("target_check")

Unlink ==
    /\ At("unlink") /\ UNCHANGED <<target, incoming>>
    /\ \/ swap' = "absent" /\ pc' = "done" /\ Quiet
       \/ swap' = swap /\ pc' = "failed" /\ Fault

\* The staged file is removed, if it is still there; the call has failed.
Discard ==
    /\ At("discard") /\ pc' = "failed" /\ UNCHANGED <<target, swap>>
    /\ \/ incoming' = "absent" /\ Quiet
       \/ incoming' = incoming /\ Fault

\* try_restore_replace: back to what was displaced, if nobody edited since.
TargetCheck ==
    /\ At("target_check")
    /\ IF target = New THEN Goto("replace_back") ELSE Goto("failed")

ReplaceBack ==
    /\ At("replace_back")
    /\ \/ /\ target # "absent" /\ target' = swap /\ incoming' = target /\ swap' = "absent"
          /\ \/ pc' = "inspect_back" /\ Quiet
             \/ pc' = "failed" /\ Fault
       \/ /\ target # "absent" /\ target' = "absent" /\ incoming' = target /\ Fault
          /\ pc' = "failed" /\ UNCHANGED swap
       \/ target = "absent" /\ Goto("failed")

InspectBack ==
    /\ At("inspect_back")
    /\ IF incoming = New THEN Goto("discard") ELSE Goto("failed")

\* A file that should go is moved out and inspected where no one edits it.
MoveOut ==
    /\ At("move_out")
    /\ IF target # "absent" /\ ~Pending
       THEN swap' = target /\ target' = "absent" /\ pc' = "inspect_out" /\ Quiet /\ UNCHANGED incoming
       ELSE Goto("failed")

InspectOut ==
    /\ At("inspect_out")
    /\ IF swap = Old THEN Goto("unlink")
       ELSE Goto(IF target = "absent" THEN "put_in" ELSE "failed")

PutIn ==
    /\ At("put_in")
    /\ IF target = "absent"
       THEN target' = swap /\ swap' = "absent" /\ pc' = "failed" /\ Quiet /\ UNCHANGED incoming
       ELSE Goto("failed")
-----------------------------------------------------------------------------
Settle == At("done") /\ Goto(IF back THEN "restored" ELSE "kept")

\* A later file of the set failed: this one is taken back.
Undo ==
    /\ pc = "done" /\ ~back
    /\ back' = TRUE /\ Goto(First(TRUE))
    /\ UNCHANGED <<kind, proposed, crashes, saves>>

Recover == (At("done") \/ At("failed")) /\ Goto("recover")

Judge ==
    /\ pc = "recover"
    /\ proposed' = (target = After)
    /\ IF target \in {Before, After} THEN Goto("reconcile") ELSE Goto("failed")
    /\ UNCHANGED <<kind, back, crashes, saves>>

\* Alone, a slip: what was displaced is not compared.
IncomingIsOurs == incoming \in {"absent", "before", "proposed"}

\* validate_windows_recovery_artifacts: only bytes that the journal knows go.
Ours ==
    /\ swap = "absent" \/ swap = (IF proposed THEN Before ELSE After)
    /\ IncomingIsOurs

\* The staged file goes first, so that the stronger witness stays longer.
Reconcile ==
    /\ At("reconcile")
    /\ Goto(IF Ours THEN "clear_incoming" ELSE "failed")

ClearIncoming ==
    /\ At("clear_incoming") /\ UNCHANGED <<target, swap>>
    /\ \/ incoming' = "absent" /\ pc' = "clear_swap" /\ Quiet
       \/ incoming # "absent" /\ incoming' = incoming /\ pc' = "failed" /\ Fault

ClearSwap ==
    /\ At("clear_swap") /\ UNCHANGED <<target, incoming>>
    /\ \/ swap' = "absent" /\ pc' = "reread" /\ Quiet
       \/ swap # "absent" /\ swap' = swap /\ pc' = "failed" /\ Fault

Reread ==
    /\ pc = "reread"
    /\ back' = TRUE
    /\ Goto(IF target = Before THEN "restored"
            ELSE IF target = After THEN First(TRUE) ELSE "failed")
    /\ UNCHANGED <<kind, proposed, crashes, saves>>
-----------------------------------------------------------------------------
Crash ==
    /\ crashes < MaxCrashes /\ crashes' = crashes + 1
    /\ pc \notin Settled
    /\ pc' = "failed"
    /\ UNCHANGED <<kind, disk, back, proposed, faults, saves>>

Save(v) ==
    /\ saves < MaxSaves /\ saves' = saves + 1
    /\ target' = v
    /\ UNCHANGED <<kind, incoming, swap, back, proposed, pc, faults, crashes>>

Publish ==
    \/ Preflight \/ Stage \/ Fill \/ MoveIn \/ Replace \/ Inspect \/ Unlink \/ Discard
    \/ TargetCheck \/ ReplaceBack \/ InspectBack \/ MoveOut \/ InspectOut \/ PutIn \/ CallFails

Resume ==
    \/ Settle \/ Undo \/ Recover \/ Judge \/ Reconcile \/ ClearIncoming \/ ClearSwap \/ Reread

ReplaceNext ==
    \/ Publish \/ Resume \/ Crash
    \/ \E v \in User \cup {"absent"} : Save(v)
-----------------------------------------------------------------------------
\* What a user saved is destroyed by nobody but the user, whichever call fails
\* and whenever the process dies: the displaced bytes stay in the backup until
\* they were read (commit_proposed, rollback).  Unlike FileSwap's, this change
\* has no exception.
UserBytesKept ==
    (saves' = saves /\ pc \notin Settled) =>
        \A u \in User : u \in {target, incoming, swap} => u \in {target', incoming', swap'}

\* A settled change leaves nothing pending, and without a competing save the
\* whole file that it promised.
ReplacedWhole ==
    pc \in Settled =>
        /\ ~Pending
        /\ saves = 0 => target = (IF pc = "kept" THEN After ELSE Before)

\* It is settled in the end, for as long as the user saves nothing, no staged
\* file was left half written and no replacement stopped halfway.
Stuck == pc = "failed" /\ (incoming = "torn" \/ (kind = "update" /\ target = "absent"))
EventuallyReplaced == []<>(saves > 0 \/ Stuck \/ pc \in Settled)
=============================================================================
