------------------------- MODULE AtomicMemoryCommit -------------------------
(***************************************************************************)
(* What a Memory write promises (docs/architecture.md, "Memory and         *)
(* Artifacts"), however many steps, errors, crashes and recoveries it      *)
(* takes: one irrevocable decision, and a Guru that opens again only with  *)
(* the Memory that was decided.  In between the Guru is closed and its     *)
(* Memory may be anything.  Nothing is promised of a write that somebody   *)
(* else disturbs, until the next one begins.                               *)
(***************************************************************************)
VARIABLES
    open,      \* nobody works on the Guru and nothing keeps writers out
    disturbed, \* somebody else changed the Guru under the write
    committed, \* the write is decided and will not be taken back
    memory     \* what files, index and HEAD hold: old, new or mixed

avars == <<open, disturbed, committed, memory>>

AInit == open = TRUE /\ disturbed = FALSE /\ committed = FALSE /\ memory = "old"

\* A write begins on an open Guru; nothing of it is visible.
BeginWrite ==
    /\ open /\ ~open'
    /\ ~committed' /\ memory' = "old"

\* The one decision; whatever is missing is completed before the Guru opens.
Commit ==
    /\ ~open /\ ~committed
    /\ ~open' /\ committed'
    /\ memory' = "new"
    /\ UNCHANGED disturbed

Work ==
    /\ ~open /\ ~open'
    /\ memory' \in (IF committed THEN {"new"} ELSE {"old", "mixed", "new"})
    /\ UNCHANGED <<disturbed, committed>>

Release ==
    /\ ~open /\ open'
    /\ memory = IF committed THEN "new" ELSE "old"
    /\ UNCHANGED <<disturbed, committed, memory>>

Disturbed == disturbed'

ANext == BeginWrite \/ Commit \/ Work \/ Release \/ Disturbed

AtomicSpec == AInit /\ [][ANext]_avars
=============================================================================
