------------------------------ MODULE LocalData ------------------------------
(***************************************************************************)
(* What one application does to the Memory of a Guru: the publication of   *)
(* one file, which this module extends, the same on Windows (ReplaceSwap), *)
(* the transaction that writes a set of files, Git and Chat together, and  *)
(* the changes that turns and Library commands form and apply in turn.     *)
(* Each assumes of the others what is shown of them here: a transaction    *)
(* swaps a file in one step, and a change is applied whole.  A behaviour   *)
(* follows one of them (focus) and the rest stay as they begin.            *)
(***************************************************************************)
EXTENDS FileSwap, MemoryWriteConstants, FiniteSets

CONSTANTS Turn, Command, Page, Draft, Absent, MaxProposals  \* MemoryUpdates

\* Chat turns are run ids, and the ids of pages and decisions begin with their
\* kinds (record ids: memory_updates.rs:321).
ASSUME AuthorAssumption ==
    IsFiniteSet(Turn) /\ Turn \cap Command = {} /\ Absent \notin Turn \cup Command
ASSUME PageAssumption   == Page \cap ({"decision"} \X Nat) = {}

VARIABLES
    focus,
    file, index, head, locks, others, robbed, journal, message, quarantined, at, row, noop,
    done, required, result, touched, errors, restarts, edits,
    memory, previous, readers, queue, turns, commands, writing,
    wkind, wtarget, incoming, swap, wback, wproposed, wpc, wfaults, wcrashes, wsaves

Txn == INSTANCE MemoryTransaction WITH
    pc <- at, faults <- errors, crashes <- restarts
Updates == INSTANCE MemoryUpdates
Windows == INSTANCE ReplaceSwap WITH
    kind <- wkind, target <- wtarget, back <- wback, proposed <- wproposed, pc <- wpc,
    faults <- wfaults, crashes <- wcrashes, saves <- wsaves

publication == vars
windows     == <<wkind, wtarget, incoming, swap, wback, wproposed, wpc, wfaults, wcrashes, wsaves>>
updates     == <<memory, previous, readers, queue, turns, commands, writing>>
transaction == <<file, index, head, locks, others, robbed, journal, message, quarantined,
                 at, row, noop, done, required, result, touched, errors, restarts, edits>>
data        == <<focus, publication, transaction, updates, windows>>

DataInit ==
    /\ focus \in {"file", "replace", "transaction", "updates"}
    /\ Init /\ (focus # "file" => kind = "create")
    /\ Windows!ReplaceInit /\ (focus # "replace" => wkind = "create")
    /\ Txn!Init /\ Updates!UpdatesInit

File(step) ==
    focus = "file" /\ step /\ UNCHANGED <<focus, transaction, updates, windows>>
WindowsFile(step) ==
    focus = "replace" /\ step /\ UNCHANGED <<focus, publication, transaction, updates>>
Write(step) ==
    focus = "transaction" /\ step /\ UNCHANGED <<focus, publication, updates, windows>>
Update ==
    /\ focus = "updates" /\ Updates!UpdatesNext
    /\ UNCHANGED <<focus, publication, transaction, windows>>

DataNext ==
    \/ File(Next) \/ WindowsFile(Windows!ReplaceNext)
    \/ Write(Txn!Next) \/ Update

\* A change and a write run to their ends, and a Guru that stays closed is
\* retried.
DataSpec ==
    /\ DataInit /\ [][DataNext]_data
    /\ WF_data(File(Publish)) /\ WF_data(File(Resume))
    /\ WF_data(WindowsFile(Windows!Publish)) /\ WF_data(WindowsFile(Windows!Resume))
    /\ WF_data(Write(Txn!Write \/ Txn!Rollback))
    /\ WF_data(Write(Txn!Recovery))
-----------------------------------------------------------------------------
\* A write, the Chat it belongs to and what its caller is told agree
\* (memory_write.rs:499; see MemoryTransaction).
AnswerAndMemoryAgree == Txn!AnswerAndMemoryAgree

\* Nobody else's change is replaced by a write, its compensation or its
\* recovery (memory_git.rs:573; see MemoryTransaction), nor by the publication
\* of a file on Windows, which leaves nothing pending behind
\* (memory_apply.rs:809, 993; see ReplaceSwap).
CompetitorsKept ==
    Txn!CompetitorsKept /\ Windows!UserBytesKept /\ Windows!ReplacedWhole'
CompetingChangesSurvive == [][CompetitorsKept]_data

\* A change that nobody competes with is settled, crashes and errors over
\* (memory_write.rs:184; see FileSwap and ReplaceSwap), and every write is
\* resolved in the end (memory_write.rs:763; see MemoryTransaction).
WritesSettle ==
    /\ (focus = "file") => EventuallySettled
    /\ (focus = "replace") => Windows!EventuallyReplaced
    /\ (focus = "transaction") => Txn!EventuallyOpen

\* A write is decided once and leaves exactly what was decided
\* (memory_write.rs:699; see AtomicMemoryCommit).
ImplementsAtomicCommit == Txn!ImplementsAtomicCommit

\* What the authors of changes agreed on is what Memory becomes
\* (memory_updates.rs:206; see MemoryUpdates).
MemoryStaysCoherent == Updates!MemoryStaysCoherent
=============================================================================
