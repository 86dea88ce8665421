------------------------------ MODULE Workbench ------------------------------
(***************************************************************************)
(* One file of a Guru's workbench (workbench.rs).  The turns of the Guru's *)
(* Chats read it without a lock and write it under the Guru's mutation     *)
(* lock, naming the revision they saw; the user edits the same file with   *)
(* other programs, under no lock.  A revision is the hash of the content,  *)
(* so the content stands for it.                                           *)
(***************************************************************************)
EXTENDS Integers, FiniteSets

CONSTANTS
    Turn,      \* turns that use the workbench
    Content,   \* contents of the file
    Absent,    \* no file
    MaxUser    \* bound: changes by the user

VARIABLES
    file,       \* the content, or Absent
    registered, \* the Guru's entry of GURU_MUTATION_LOCKS: a lock, or 0
    calls,      \* each turn's call: its step, lock, expectation and content
    seen,       \* the revision each turn read or was told last; Absent: none
    edits       \* changes by the user

workbench == <<file, registered, calls, seen, edits>>

Idle == [step |-> "idle", lock |-> 0, expected |-> Absent, next |-> Absent, disturbed |-> FALSE]

WorkbenchInit ==
    /\ file \in Content \cup {Absent}
    /\ registered = 0 /\ calls = [t \in Turn |-> Idle]
    /\ seen = [t \in Turn |-> Absent] /\ edits = 0

Holders(l) == {t \in Turn : calls[t].lock = l}
Locked(l)  == \E t \in Holders(l) : calls[t].step # "waits"
FreshLock  == CHOOSE l \in 1..Cardinality(Turn) : Holders(l) = {}
-----------------------------------------------------------------------------
\* read: no lock, a whole file because every replacement is a rename.
Read(t) ==
    /\ calls[t].step = "idle" /\ file # Absent
    /\ seen' = [seen EXCEPT ![t] = file] /\ UNCHANGED <<file, registered, calls, edits>>

\* Slip: the weak entry is never upgraded.
LockOfItsOwn == FreshLock

\* mutation_lock: the registered lock while some call still holds it; the
\* entry of a lock that nobody holds is dropped and a new lock registered.
MutationLock == IF registered # 0 /\ Holders(registered) # {} THEN registered ELSE FreshLock

\* write with the revision last seen, write of a new file, or edit.
Call(t, expected, next) ==
    /\ calls[t].step = "idle"
    /\ registered' = MutationLock
    /\ calls' = [calls EXCEPT ![t] = [Idle EXCEPT !.step = "waits", !.lock = MutationLock,
                                                  !.expected = expected, !.next = next]]
    /\ UNCHANGED <<file, seen, edits>>

Acquire(t) ==
    /\ calls[t].step = "waits" /\ ~Locked(calls[t].lock)
    /\ calls' = [calls EXCEPT ![t].step = "holds"]
    /\ UNCHANGED <<file, registered, seen, edits>>

\* The result tells the live revision on a conflict, and nothing on an error.
Return(t, told) ==
    /\ calls' = [calls EXCEPT ![t] = Idle]
    /\ seen' = IF told = Absent THEN seen ELSE [seen EXCEPT ![t] = told]

Matches(expected) == file = expected

\* The named revision must be live; no revision means that there is no file.
Check(t) ==
    /\ calls[t].step = "holds"
    /\ IF Matches(calls[t].expected)
       THEN calls' = [calls EXCEPT ![t].step = "writes"] /\ UNCHANGED seen
       ELSE Return(t, file)
    /\ UNCHANGED <<file, registered, edits>>

\* The temporary file cannot be written, or its rename fails.
WriteFails(t) ==
    /\ calls[t].step = "writes"
    /\ Return(t, Absent) /\ UNCHANGED <<file, registered, edits>>

\* A rename replaces; the rename of a new file replaces nothing, and on EEXIST
\* the call reports a conflict.
Blocked(t) == calls[t].expected = Absent /\ file # Absent

Rename(t) ==
    /\ calls[t].step = "writes"
    /\ IF Blocked(t) THEN Return(t, file) /\ UNCHANGED file
       ELSE /\ file' = calls[t].next
            \* Then the directory is synced; if that fails the content is
            \* replaced and the call reports an error.
            /\ \E synced \in BOOLEAN : Return(t, IF synced THEN calls[t].next ELSE Absent)
    /\ UNCHANGED <<registered, edits>>

\* The user saves or deletes the file in another program.
UserChanges(content) ==
    /\ edits < MaxUser /\ edits' = edits + 1
    /\ file' = content /\ content # file
    /\ calls' = [t \in Turn |-> [calls[t] EXCEPT !.disturbed = @ \/ calls[t].step = "writes"]]
    /\ UNCHANGED <<registered, seen>>

WorkbenchNext ==
    \/ \E t \in Turn :
        \/ Read(t) \/ Acquire(t) \/ Check(t) \/ WriteFails(t) \/ Rename(t)
        \/ \E expected \in {seen[t], Absent}, next \in Content : Call(t, expected, next)
    \/ \E content \in Content \cup {Absent} : UserChanges(content)
-----------------------------------------------------------------------------
\* A turn's change replaces exactly the revision that the turn named, whatever
\* the Guru's other turns do at the same time; and a new file replaces none,
\* not even one the user saves in the last moment.  What the user saves
\* between the check of a named revision and its rename is lost: no lock
\* covers other programs (workbench.rs:134).
ReplacesWhatWasSeen ==
    [][\A t \in Turn : calls[t].step = "writes" /\ calls'[t].step = "idle" /\ file' # file =>
            \/ file = calls[t].expected
            \/ calls[t].disturbed /\ calls[t].expected # Absent]_workbench
=============================================================================
