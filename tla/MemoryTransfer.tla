---------------------------- MODULE MemoryTransfer ----------------------------
(***************************************************************************)
(* How a Guru is made, with the Memory of a folder or without, and how its *)
(* Memory is exported (commands/guru.rs): the source is opened once by its *)
(* identity (pinned_root.rs), its tree is captured (snapshot.rs), and each *)
(* record is read again and written to the destination.  No lease keeps    *)
(* writers out: a set of files may be published or taken back meanwhile,   *)
(* and the user edits, adds and deletes files and moves the folder.        *)
(* Nothing else is lost when the process dies in between.                  *)
(***************************************************************************)
EXTENDS Naturals, Sequences, FiniteSets, SequencesExt

CONSTANTS
    Record,      \* records of Memory, numbered in the order of their paths
    Directory,   \* the directories, as sets of the records in them
    Bundle,      \* the records of a write, which are published in the order of
                 \* their paths, as they are copied (see CopiedTogether)
    MaxChanges,  \* bound on what writers and the user do to the source
    MaxUpsets    \* bound on errors and crashes

VARIABLES
    job,         \* "create", "import" or "export"
    source,      \* each record's content there: a number, Absent if none
    written,     \* records of the bundle that are published, and what was there
    rebound,     \* the source's path leads to another folder by now
    phase,       \* where the command is
    listing,     \* directories to list, and records that were listed
    captured,    \* the records read so far, with their digests
    destination, \* the destination: "none", "made", "initialised", "filled"
    copy,        \* its records
    registered,  \* the Guru is registered
    states,      \* history: the states of the source since it was opened
    upset,       \* history: an error or a crash
    changes, upsets

transfer == <<job, source, written, rebound, phase, listing, captured, destination, copy,
              registered, states, upset, changes, upsets>>
place    == <<source, written, rebound>>

Absent   == 0
Stranger == 1000  \* the contents of another folder
Published == SetToSortSeq(Bundle, <)
NoRecord == [r \in {} |-> Absent]
With(f, r, c) == [q \in DOMAIN f \cup {r} |-> IF q = r THEN c ELSE f[q]]

TransferInit ==
    /\ job \in {"create", "import", "export"}
    /\ source \in {[r \in Record |-> 1],
                   [r \in Record |-> IF r \in Bundle THEN Absent ELSE 1]}
    /\ written = <<>> /\ rebound = FALSE
    /\ phase = "idle" /\ listing = [left |-> Directory, records |-> {}]
    /\ captured = NoRecord /\ copy = NoRecord
    /\ destination = IF job = "export" THEN "made" ELSE "none"
    /\ registered = FALSE /\ states = {} /\ upset = FALSE /\ changes = 0 /\ upsets = 0

Goto(there) == phase' = there
Command == UNCHANGED <<place, job, upset, changes, upsets>>
Seen == states' = states \cup {source'}

\* Slip: the path is resolved again.
Resolved(r) == IF rebound THEN Stranger ELSE source[r]

\* What is there when it is read: by the descriptor that was opened.
Contents(r) == source[r]
-----------------------------------------------------------------------------
\* guru_import_memory and guru_export_memory open the source, which must be
\* what was registered; create_managed_guru makes a directory.
Start ==
    /\ phase = "idle" /\ (job = "create" \/ ~rebound)
    /\ states' = {source}
    /\ IF job = "export" THEN Goto("initialise") /\ UNCHANGED destination
       ELSE Goto("initialise") /\ destination' = "made"
    /\ UNCHANGED <<listing, captured, copy, registered>> /\ Command

\* The workspace is bound and initialised with nothing in it.
Initialise ==
    /\ phase = "initialise" /\ destination' = "initialised"
    /\ IF job = "create" THEN Goto("register") ELSE Goto("capture")
    /\ UNCHANGED <<listing, captured, copy, registered, states>> /\ Command

\* capture_directory: a directory is listed, and each file of it read; one that
\* is gone by then is an error.
List(d) ==
    /\ phase = "capture" /\ listing.records = {} /\ d \in listing.left
    /\ listing' = [left |-> listing.left \ {d},
                   records |-> {r \in d : Contents(r) # Absent}]
    /\ UNCHANGED <<phase, captured, destination, copy, registered, states>> /\ Command

Capture(r) ==
    /\ phase = "capture" /\ r \in listing.records
    /\ IF Contents(r) = Absent THEN Goto("fail") /\ UNCHANGED <<captured, listing>>
       ELSE /\ captured' = With(captured, r, Contents(r)) /\ UNCHANGED phase
            /\ listing' = [listing EXCEPT !.records = @ \ {r}]
    /\ UNCHANGED <<destination, copy, registered, states>> /\ Command

Captured ==
    /\ phase = "capture" /\ listing = [left |-> {}, records |-> {}] /\ Goto("copy")
    /\ UNCHANGED <<listing, captured, destination, copy, registered, states>> /\ Command

\* Slip: a record is there, so it is copied.
SameRecord(r) == Contents(r) # Absent

\* The digest of what is read again.
Unchanged(r) == Contents(r) = captured[r]

\* copy_memory_records, in the order of the captured tree; the new file must
\* not exist.
Copy(r) ==
    /\ phase = "copy" /\ r \in DOMAIN captured \ DOMAIN copy
    /\ \A q \in DOMAIN captured \ DOMAIN copy : r <= q
    /\ IF Unchanged(r) THEN copy' = With(copy, r, Contents(r)) /\ UNCHANGED phase
       ELSE Goto("fail") /\ UNCHANGED copy
    /\ UNCHANGED <<listing, captured, destination, registered, states>> /\ Command

\* The copy is committed and checked as a whole.
Copied ==
    /\ phase = "copy" /\ DOMAIN copy = DOMAIN captured
    /\ destination' = "filled"
    /\ IF job = "export" THEN Goto("exported") ELSE Goto("register")
    /\ UNCHANGED <<listing, captured, copy, registered, states>> /\ Command

Register ==
    /\ phase = "register" /\ registered' = TRUE /\ Goto("made")
    /\ UNCHANGED <<listing, captured, destination, copy, states>> /\ Command

\* Slip: the directory is left to whoever tries again.
LeaveBehind ==
    /\ phase = "fail" /\ Goto("failed")
    /\ UNCHANGED <<listing, captured, destination, copy, registered, states>> /\ Command

\* cleanup_failed_guru_creation: the new directory goes, whole; an export leaves
\* what it has written.
CleanUp ==
    /\ phase = "fail" /\ Goto("failed")
    /\ IF job = "export" THEN UNCHANGED <<destination, copy>>
       ELSE destination' = "none" /\ copy' = NoRecord
    /\ UNCHANGED <<listing, captured, registered, states>> /\ Command

Working == {"initialise", "capture", "copy", "register"}
Fails ==
    /\ upsets < MaxUpsets /\ upsets' = upsets + 1
    /\ \/ phase \in Working /\ Goto("fail") /\ UNCHANGED upset
       \/ phase \in Working \cup {"fail"} /\ Goto("crashed") /\ upset' = TRUE
    /\ UNCHANGED <<place, job, listing, captured, destination, copy, registered, states, changes>>
-----------------------------------------------------------------------------
\* A write of the same Guru publishes one more file of its set, or takes the
\* last one back (rollback_applied_prefix_at); the user does as the user likes.
\* What is written anew was not there before.
Change == changes < MaxChanges /\ changes' = changes + 1
Publish ==
    /\ Len(written) < Len(Published)
    /\ LET r == Published[Len(written) + 1] IN
         /\ written' = Append(written, source[r])
         /\ source' = [source EXCEPT ![r] = 10 + changes]
TakeBack ==
    /\ written # <<>>
    /\ source' = [source EXCEPT ![Published[Len(written)]] = written[Len(written)]]
    /\ written' = SubSeq(written, 1, Len(written) - 1)
Edit(r) == source' \in {[source EXCEPT ![r] = c] : c \in {Absent, 20 + changes}}
                  /\ source' # source /\ UNCHANGED written
Others ==
    /\ phase \in {"capture", "copy"} /\ Change
    /\ \/ (Publish \/ TakeBack \/ \E r \in Record : Edit(r)) /\ UNCHANGED rebound
       \/ rebound' = TRUE /\ UNCHANGED <<source, written>>
    /\ Seen
    /\ UNCHANGED <<job, phase, listing, captured, destination, copy, registered, upset, upsets>>

TransferNext ==
    \/ Start \/ Initialise \/ (\E d \in Directory : List(d))
    \/ (\E r \in Record : Capture(r) \/ Copy(r))
    \/ Captured \/ Copied \/ Register \/ CleanUp \/ Fails \/ Others
-----------------------------------------------------------------------------
\* "memory changed during transfer" (commands/guru.rs): the records of a copy
\* were all there at one moment, although they were read one after the other,
\* twice, while others wrote.  A set that is published in another order than
\* that of the paths, and taken back while it is copied, can be copied with
\* what it held before and after.
CopiedTogether ==
    phase \in {"made", "exported", "register"} =>
        \E s \in states : \A r \in DOMAIN copy : copy[r] = s[r]

\* A Guru is registered with everything it needs, and one whose making failed
\* leaves nothing; only a crash leaves a directory that belongs to nobody.
MadeWhole ==
    /\ registered => destination = (IF job = "import" THEN "filled" ELSE "initialised")
    /\ phase = "failed" => ~registered /\ (job = "export" \/ destination = "none")
    /\ destination # "none" /\ ~registered /\ job # "export" =>
         upset \/ phase \in Working \cup {"fail"}

TransfersWhole == CopiedTogether /\ MadeWhole
=============================================================================
