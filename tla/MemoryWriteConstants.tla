------------------------ MODULE MemoryWriteConstants ------------------------
(***************************************************************************)
(* The parameters of MemoryTransaction, and the rows of its journal (the   *)
(* memory_finalizations table, store.rs).                                  *)
(***************************************************************************)
EXTENDS Naturals

CONSTANTS
    Path,         \* the Markdown files of the change set
    NoCommit,     \* no commit id
    None,         \* no journal row
    NoopCommits,  \* whether a commit may equal HEAD's tree: a subset of BOOLEAN
    MaxErrors,    \* bound on reported errors
    MaxRestarts,  \* bound on crashes
    MaxEdits      \* bound on changes by the user and by other Git processes

ASSUME NoopAssumption == NoopCommits \subseteq BOOLEAN
ASSUME WriteAssumption == {MaxErrors, MaxRestarts, MaxEdits} \subseteq Nat

Scope == {"chat", "standalone_user"}
Row   == [scope : Scope, commit : {NoCommit, "previous", "commit"}]

ASSUME NoneAssumption == None \notin Row
ASSUME NoCommitAssumption == NoCommit \notin {"previous", "commit", "foreign"}
=============================================================================
