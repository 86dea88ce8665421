------------------------------ MODULE PrivateData ------------------------------
(***************************************************************************)
(* What a Guru and its Chats own beside Memory, from its making to its     *)
(* end: the deletion of a Guru or a Chat, which this module extends, the   *)
(* artifacts that the turns of a Chat publish, the files that its messages *)
(* attach, the copies of its Memory, and the directories themselves as the *)
(* system calls find them.  PrivateDeletion's optional storage is where    *)
(* the files are, the artifacts go with its row, and what it renames and   *)
(* removes in a step PinnedTree does call by call; here a behaviour        *)
(* follows one of the parts (focus) and the rest stay as they begin.       *)
(***************************************************************************)
EXTENDS PrivateDeletion, FiniteSets

CONSTANTS
    Call, Artifact, Dataset, Result, Narrow, None,         \* ChatArtifacts
    MaxTurns, MaxPublished, MaxResults,
    Message, MaxAttached, MaxContext, MaxRestored, MaxFiles, \* ChatFiles
    MaxImages, MaxImageBytes, MaxMishaps,
    MaxMoves,                                              \* PinnedTree
    Record, Directory, Bundle, MaxChanges, MaxUpsets            \* MemoryTransfer

ASSUME ArtifactsAssumption == IsFiniteSet(Call) /\ {MaxPublished, MaxResults} \subseteq Nat

VARIABLES
    focus,
    stored, tables, turn, turns, pending, published, reads, results,
    chat, folder, file, draft, step, prompt, unsure, mishaps,
    entry, at, goal, identity, parent, frames, named, gone, moves,
    job, source, written, rebound, phase, listing, captured, destination, copy, registered,
    states, upset, changes, upsets

Artifacts == INSTANCE ChatArtifacts
Files     == INSTANCE ChatFiles
Tree      == INSTANCE PinnedTree
Transfer  == INSTANCE MemoryTransfer

deletion  == vars
artifacts == <<stored, tables, turn, turns, pending, published, reads, results>>
files     == <<chat, folder, file, draft, step, prompt, unsure, mishaps>>
tree      == <<entry, at, goal, identity, parent, frames, named, gone, moves>>
transfer  == <<job, source, written, rebound, phase, listing, captured, destination, copy,
               registered, states, upset, changes, upsets>>
private   == <<focus, deletion, artifacts, files, tree, transfer>>

\* A part that is not followed has one beginning.
PrivateInit ==
    /\ focus \in {"deletion", "artifacts", "files", "tree", "transfer"}
    /\ Init /\ Artifacts!ArtifactsInit /\ Files!FilesInit
    /\ Tree!TreeInit /\ Transfer!TransferInit
    /\ focus # "deletion" =>
         kind = "chat" /\ \A p \in Path : storage[p] = {"source"}
    /\ focus # "tree" => goal = "make"
    /\ focus # "transfer" => job = "create" /\ source = [r \in Record |-> 1]

PrivateNext ==
    \/ focus = "deletion" /\ Next /\ UNCHANGED <<focus, artifacts, files, tree, transfer>>
    \/ focus = "artifacts" /\ Artifacts!ArtifactsNext
         /\ UNCHANGED <<focus, deletion, files, tree, transfer>>
    \/ focus = "files" /\ Files!FilesNext
         /\ UNCHANGED <<focus, deletion, artifacts, tree, transfer>>
    \/ focus = "tree" /\ Tree!TreeNext
         /\ UNCHANGED <<focus, deletion, artifacts, files, transfer>>
    \/ focus = "transfer" /\ Transfer!TransferNext
         /\ UNCHANGED <<focus, deletion, artifacts, files, tree>>

PrivateSpec == PrivateInit /\ [][PrivateNext]_private
-----------------------------------------------------------------------------
\* Artifacts are stored whole, or the turn that made them did not complete
\* (artifacts.rs:558; see ChatArtifacts).
ArtifactsSettle == Artifacts!ArtifactsSettle

\* The files of a message come and go with it (attachments.rs:243; see
\* ChatFiles), those of a Guru are copied whole (guru.rs:285; see
\* MemoryTransfer), and no others are removed with them (secure_delete.rs:302;
\* see PinnedTree).
FilesAreKept ==
    Files!FilesAreKept /\ Transfer!TransfersWhole /\ Tree!RemovesItsOwn
=============================================================================
