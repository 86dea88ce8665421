------------------------------ MODULE PinnedTree ------------------------------
(***************************************************************************)
(* How a private directory is made, named, renamed and removed below the   *)
(* retained descriptor of the application's data (secure_delete.rs, Unix), *)
(* one system call at a time, while somebody else moves the directories    *)
(* and puts links among them.  PrivateDeletion takes a rename and a        *)
(* removal as one step each.                                               *)
(*                                                                         *)
(* Either a new directory is made and, since its Guru could not be, is     *)
(* removed again (create_managed_guru); or a stored one is renamed to its  *)
(* tombstone and removed there (delete_guru).                              *)
(***************************************************************************)
EXTENDS Sequences, FiniteSets, Naturals

CONSTANTS MaxMoves   \* bound on what others do

VARIABLES
    entry,     \* entry[d][n]: what directory d has under the name n
    at,        \* the next system call
    goal,      \* "make" or "delete"
    identity,  \* the identity that was recorded, or NoNode
    parent,    \* the descriptor that the path was walked to
    frames,    \* remove_entry_unix: one frame per directory that is open
    named,     \* history: what was ever below the recorded directory
    gone,      \* history: what was removed
    moves

\* The data directory, its "gurus", a Guru's directory with a nested one; and
\* somebody's directory elsewhere.  "new" is made if it is asked for.
Dirs  == {"data", "gurus", "guru", "nested", "elsewhere", "others", "new"}
Files == {"memory", "letter"}
Node  == Dirs \cup Files
Name  == {"here", "tombstone"}
NoNode == "none"
Link  == "link"     \* a symbolic link to the directory "others"

tree == <<entry, at, goal, identity, parent, frames, named, gone, moves>>

Tree(made) ==
    [d \in Dirs |-> [n \in Name |->
        IF n = "tombstone" THEN NoNode
        ELSE CASE d = "data" -> "gurus" [] d = "gurus" -> IF made THEN "guru" ELSE NoNode
               [] d = "guru" -> "nested" [] d = "nested" -> "memory"
               [] d = "elsewhere" -> "others" [] d = "others" -> "letter" [] OTHER -> NoNode]]

\* Everything below d, d included, that names lead to and links do not.
Children(e, S) == S \cup ({e[d][n] : d \in S \cap Dirs, n \in Name} \ {NoNode, Link})
Below(e, top) ==
    LET level[k \in 0 .. Cardinality(Dirs)] == IF k = 0 THEN {top} ELSE Children(e, level[k - 1])
    IN level[Cardinality(Dirs)]

TreeInit ==
    /\ goal \in {"make", "delete"} /\ entry = Tree(goal = "delete")
    /\ identity = IF goal = "delete" THEN "guru" ELSE NoNode
    /\ at = IF goal = "delete" THEN "find" ELSE "open"
    /\ parent = "data" /\ frames = <<>>
    /\ named = IF goal = "delete" THEN Below(entry, "guru") ELSE {}
    /\ gone = {} /\ moves = 0

\* What an openat with O_DIRECTORY | O_NOFOLLOW opens; "failed" for a link or a
\* file.
Opened(d, n) ==
    IF entry[d][n] \in Dirs \cup {NoNode} THEN entry[d][n] ELSE "failed"

Recorded == named' = named \cup (IF identity = NoNode THEN {} ELSE Below(entry', identity))
Goto(step) == at' = step /\ UNCHANGED <<entry, goal, identity, parent, frames, named, gone, moves>>
End(result) == Goto(result)
Place == IF goal = "delete" THEN "tombstone" ELSE "here"

\* Descends to the parent of the path, which is one directory deep here; a
\* missing one means that there is nothing to do.
Descend(from, then, missing) ==
    /\ at = from
    /\ LET d == Opened("data", "here") IN
         IF d = NoNode THEN End(missing)
         ELSE IF d = "failed" THEN End("failed")
         ELSE /\ parent' = d /\ at' = then
              /\ UNCHANGED <<entry, goal, identity, frames, named, gone, moves>>
-----------------------------------------------------------------------------
\* ensure_private_subdirectory: each missing directory is made, whoever makes it.
Ensure(d, then) ==
    LET found == Opened(d, "here") IN
    \/ found \in Dirs /\ parent' = found /\ at' = then /\ UNCHANGED <<entry, gone>>
    \/ found = "failed" /\ at' = "failed" /\ UNCHANGED <<entry, parent, gone>>
    \/ /\ found = NoNode /\ "new" \notin gone
       /\ \A e \in Dirs, n \in Name : entry[e][n] # "new"
       /\ entry' = [entry EXCEPT ![d]["here"] = "new"]
       /\ UNCHANGED <<at, parent, gone>>
    \/ /\ found = NoNode /\ \E e \in Dirs, n \in Name : entry[e][n] = "new"
       /\ at' = "failed" /\ UNCHANGED <<entry, parent, gone>>  \* one is enough here

EnsureParent ==
    /\ at = "open" /\ Ensure("data", "ensure")
    /\ Recorded /\ UNCHANGED <<goal, identity, frames, moves>>
EnsureLast ==
    /\ at = "ensure" /\ Ensure(parent, "identify")
    /\ Recorded /\ UNCHANGED <<goal, identity, frames, moves>>

\* directory_identity: by the path, beside the guard; without one the tree at
\* the path is removed whatever it is.
Identify ==
    \/ Descend("identify", "identify_by", "find")
    \/ /\ at = "identify_by"
       /\ LET d == Opened(parent, "here") IN
            /\ identity' = IF d \in Dirs THEN d ELSE NoNode
            /\ named' = named \cup (IF d \in Dirs THEN Below(entry, d) ELSE {})
       /\ at' = "remove"
       /\ UNCHANGED <<entry, goal, parent, frames, gone, moves>>
-----------------------------------------------------------------------------
\* rename_sibling_expected: the directory is compared, renamed to a name that
\* must be free, and compared again.
Find == Descend("find", "compare", "ok")
Compare ==
    /\ at = "compare"
    /\ LET d == Opened(parent, "here") IN
         IF d = NoNode THEN Goto("remove")
         ELSE IF d = identity THEN Goto("rename") ELSE End("failed")
Rename ==
    /\ at = "rename"
    /\ IF entry[parent]["here"] = NoNode THEN Goto("remove")
       ELSE IF entry[parent]["tombstone"] # NoNode THEN End("failed")
       ELSE /\ entry' = [entry EXCEPT ![parent] =
                          [here |-> NoNode, tombstone |-> entry[parent]["here"]]]
            /\ at' = "verify" /\ Recorded
            /\ UNCHANGED <<goal, identity, parent, frames, gone, moves>>
Verify ==
    /\ at = "verify"
    /\ IF entry[parent]["tombstone"] = identity THEN Goto("remove") ELSE End("failed")
-----------------------------------------------------------------------------
\* remove_tree_expected and remove_entry_unix, a frame for each entry that is
\* being removed: its parent's descriptor, its name, what fstatat saw, and the
\* names that are left of its listing.
Top == frames[Len(frames)]
SetTop(f) == frames' = [frames EXCEPT ![Len(frames)] = f]
Push(d, n) == [dir |-> d, name |-> n, node |-> NoNode, left |-> {}]
Keep == UNCHANGED <<goal, identity, parent, moves>>

\* The entry is done with; its directory goes on, or the removal is complete.
Pop ==
    /\ frames' = SubSeq(frames, 1, Len(frames) - 1)
    /\ at' = IF Len(frames) = 1 THEN "ok" ELSE "entries"

Remove == Descend("remove", "first", "ok")
First ==
    /\ at = "first" /\ frames' = <<Push(parent, Place)>> /\ at' = "stat"
    /\ UNCHANGED <<entry, named, gone>> /\ Keep

\* Slip: the identity is compared at the rename alone.
SameEver(seen) == TRUE

\* Only the directory that was asked for is compared.
Same(seen) == Len(frames) = 1 /\ identity # NoNode => seen = identity

Stat ==
    /\ at = "stat"
    /\ LET seen == entry[Top.dir][Top.name] IN
         \/ seen = NoNode /\ Pop
         \/ seen # NoNode /\ ~Same(seen) /\ at' = "failed" /\ UNCHANGED frames
         \/ /\ seen # NoNode /\ Same(seen) /\ SetTop([Top EXCEPT !.node = seen])
            /\ at' = IF seen \in Dirs THEN "open_entry" ELSE "unlink"
    /\ UNCHANGED <<entry, named, gone>> /\ Keep

\* Slip: what is opened is not compared with what was seen.
OpenEntryAnything ==
    /\ at = "open_entry"
    /\ LET d == Opened(Top.dir, Top.name) IN
         \/ d = NoNode /\ Pop
         \/ d \in Dirs /\ at' = "entries"
              /\ SetTop([Top EXCEPT !.node = d, !.left = {n \in Name : entry[d][n] # NoNode}])
         \/ d = "failed" /\ at' = "failed" /\ UNCHANGED frames
    /\ UNCHANGED <<entry, named, gone>> /\ Keep

\* The directory is opened and must be the one that was seen.
OpenEntry ==
    /\ at = "open_entry"
    /\ LET d == Opened(Top.dir, Top.name) IN
         \/ d = NoNode /\ Pop
         \/ d = Top.node /\ at' = "entries"
              /\ SetTop([Top EXCEPT !.left = {n \in Name : entry[d][n] # NoNode}])
         \/ d \notin {NoNode, Top.node} /\ at' = "failed" /\ UNCHANGED frames
    /\ UNCHANGED <<entry, named, gone>> /\ Keep

\* The entries of the open directory, wherever that is by now.
Descent ==
    /\ at = "entries"
    /\ \/ /\ Top.left = {} /\ at' = "rmdir" /\ UNCHANGED frames
       \/ \E n \in Top.left :
            /\ frames' = Append([frames EXCEPT ![Len(frames)].left = @ \ {n}],
                                Push(Top.node, n))
            /\ at' = "stat"
    /\ UNCHANGED <<entry, named, gone>> /\ Keep

\* unlinkat goes by the name alone; it takes no directory, or only an empty one.
Unlinked(x) == IF at = "unlink" THEN x \in Files \cup {Link}
               ELSE x \in Dirs /\ \A n \in Name : entry[x][n] = NoNode
Unlink ==
    /\ at \in {"unlink", "rmdir"}
    /\ LET x == entry[Top.dir][Top.name] IN
         \/ x = NoNode /\ Pop /\ UNCHANGED <<entry, gone>>
         \/ /\ x # NoNode /\ Unlinked(x) /\ Pop
            /\ entry' = [entry EXCEPT ![Top.dir][Top.name] = NoNode]
            /\ gone' = gone \cup {x}
         \/ x # NoNode /\ ~Unlinked(x) /\ at' = "failed" /\ UNCHANGED <<entry, frames, gone>>
    /\ Recorded /\ Keep
-----------------------------------------------------------------------------
\* Somebody moves an entry to where nothing is, or puts a link there.
Moves ==
    /\ moves < MaxMoves /\ moves' = moves + 1 /\ at \notin {"ok", "failed"}
    /\ \E d \in Dirs, n \in Name :
         /\ entry[d][n] = NoNode
         /\ \/ entry' = [entry EXCEPT ![d][n] = Link]
            \/ \E c \in Dirs, m \in Name :
                 /\ entry[c][m] \notin {NoNode, Link}
                 /\ entry[c][m] \in Dirs => d \notin Below(entry, entry[c][m])
                 /\ entry' = [[entry EXCEPT ![d][n] = entry[c][m]] EXCEPT ![c][m] = NoNode]
    /\ Recorded /\ UNCHANGED <<at, goal, identity, parent, frames, gone>>

TreeStep ==
    \/ EnsureParent \/ EnsureLast \/ Identify
    \/ Find \/ Compare \/ Rename \/ Verify
    \/ Remove \/ First \/ Stat \/ OpenEntry \/ Descent \/ Unlink

TreeNext == TreeStep \/ Moves
-----------------------------------------------------------------------------
\* "Keeps deletion independent from mutable ancestors" (secure_delete.rs:25): a
\* file is only removed if it was, at some time, below the directory whose
\* identity was recorded, wherever that, its parents and its parts are moved
\* meanwhile and whatever comes to stand in their places.
OnlyItsOwn == identity # NoNode => gone \cap Files \subseteq named

\* And without others it is complete.
RemovesAll ==
    moves = 0 =>
        /\ at # "failed"
        /\ at = "ok" => gone \in {{"new"}, {"guru", "nested", "memory"}}

RemovesItsOwn == OnlyItsOwn /\ RemovesAll
=============================================================================
