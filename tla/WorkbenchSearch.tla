--------------------------- MODULE WorkbenchSearch ---------------------------
(***************************************************************************)
(* Listing, finding and searching the files of a Guru's workbench          *)
(* (tool_executor/workbench.rs): a walk reads one directory after another, *)
(* breadth first, and a search then reads one file after another, while    *)
(* the user works in the same directory.  Every stage has a bound of its   *)
(* own - the entries visited, the results, the size of the output - and    *)
(* the one thing that the agent learns of them is whether the answer is    *)
(* "truncated".                                                            *)
(*                                                                         *)
(* An entry is a directory, a file or a link; a file is a text with so     *)
(* many lines that match, binary, or too large.  Whether a name matches    *)
(* the glob is fixed.  A line is one unit of output, so that a piece of a  *)
(* line is left out.                                                       *)
(***************************************************************************)
EXTENDS Naturals, FiniteSets, FiniteSetsExt, Sequences, SequencesExt

CONSTANTS
    Node,        \* the entries that there may be, in the order of their names
    Under(_),    \* the directory of each, or Root
    Root,        \* 0: where the call starts
    Kinds(_),    \* what each may be, but gone
    Named,       \* the entries whose path matches the glob
    MaxWalk,     \* MAX_WALK_ENTRIES
    Limits,      \* the limits that a call may ask for
    MaxOutput,   \* MAX_TOOL_OUTPUT_BYTES, in lines
    MaxEdits     \* bound: what the user does during the call

VARIABLES
    tree,        \* [Node -> "gone", "dir", "link", "big", "binary", "one" or "two"]
    asks,        \* [kind, limit] of the call
    phase,       \* "walk", "read", "done" or "failed"
    queue,       \* directories still to be read
    visited,     \* the entries found, in order
    cut,         \* walk_truncated
    output,      \* [lines, full]: BoundedOutput
    count,       \* results counted
    skipped,     \* binary files passed over
    said,        \* "truncated", of the answer
    kept,        \* entries that the user has left alone
    edits

look == <<tree, asks, phase, queue, visited, cut, output, count, skipped, said, kept, edits>>

Kind(n)     == IF n = Root THEN "dir" ELSE tree[n]
Texts       == {"one", "two"}
Lines(kind) == IF kind = "two" THEN 2 ELSE 1
Here(d)     == {n \in Node : Under(n) = d /\ tree[n] # "gone"}
InOrder(S)  == SetToSortSeq(S, <)

\* Each entry but a missing one lies in a directory.
Trees ==
    {t \in [Node -> {"gone"} \cup UNION {Kinds(n) : n \in Node}] :
        \A n \in Node : /\ t[n] \in Kinds(n) \cup {"gone"}
                        /\ (t[n] # "gone" /\ Under(n) # Root) => t[Under(n)] = "dir"}

LookInit ==
    /\ tree \in Trees
    /\ asks \in [kind : {"list", "find", "grep"}, limit : Limits]
    /\ phase = "walk" /\ queue = <<Root>> /\ visited = <<>> /\ cut = FALSE
    /\ output = [lines |-> <<>>, full |-> FALSE] /\ count = 0 /\ skipped = {} /\ said = FALSE
    /\ kept = Node /\ edits = 0

\* The user removes an entry, adds one or makes it something else; what was
\* under a directory goes with it.
Below(n) == {m \in Node : Under(m) = n \/ (Under(m) # Root /\ Under(Under(m)) = n)}

Edit(n) ==
    /\ edits < MaxEdits /\ edits' = edits + 1 /\ phase \in {"walk", "read"}
    /\ Kind(Under(n)) = "dir"
    /\ \E k \in Kinds(n) \cup {"gone"} :
         /\ k # tree[n]
         /\ tree' = [m \in Node |-> IF m = n THEN k ELSE IF m \in Below(n) THEN "gone" ELSE tree[m]]
    /\ kept' = kept \ ({n} \cup Below(n))
    /\ UNCHANGED <<asks, phase, queue, visited, cut, output, count, skipped, said>>
-----------------------------------------------------------------------------
\* What a directory is read for: one entry more than a listing may show, or
\* what is left of the walk.
Maximum == IF asks.kind = "list" THEN asks.limit + 1 ELSE MaxWalk - Len(visited)

MoreByFar(found, max) == Cardinality(found) > max + 1
More(found, max)      == Cardinality(found) > max

\* walk_workbench and directory_entries: links are passed over, and of too many
\* entries the file system chooses which are seen.  A directory that is gone
\* fails the call.
ReadDirectory ==
    LET d     == Head(queue)
        found == {n \in Here(d) : tree[n] # "link"}
    IN  /\ phase = "walk" /\ queue # <<>>
        /\ \/ /\ Maximum = 0
              /\ cut' = TRUE /\ phase' = "read" /\ UNCHANGED <<queue, visited>>
           \/ /\ Maximum > 0 /\ Kind(d) # "dir"
              /\ phase' = "failed" /\ UNCHANGED <<queue, visited, cut>>
           \/ /\ Maximum > 0 /\ Kind(d) = "dir"
              /\ \E seen \in kSubset(Min({Maximum, Cardinality(found)}), found) :
                    LET entries == InOrder(seen)
                    IN  /\ visited' = visited \o [i \in DOMAIN entries |->
                                [node |-> entries[i], file |-> tree[entries[i]] # "dir"]]
                        /\ queue' = Tail(queue) \o
                              (IF asks.kind = "list" THEN <<>>
                               ELSE SelectSeq(entries, LAMBDA n : tree[n] = "dir"))
              /\ cut' = (cut \/ More(found, Maximum))
              /\ phase' = IF queue' = <<>> THEN "read" ELSE "walk"
        /\ UNCHANGED <<tree, asks, output, count, skipped, said, kept, edits>>

\* BoundedOutput::push_line, for each line.
Pushed(lines) ==
    [lines |-> SubSeq(output.lines \o lines, 1, Min({MaxOutput, Len(output.lines) + Len(lines)})),
     full  |-> output.full \/ Len(output.lines) + Len(lines) > MaxOutput]

\* The truncated field of the answer.
OfTheOutput(more, out) == more \/ out.full
Truncated(more, out)   == more \/ cut \/ out.full

Matching == IF asks.kind = "list" THEN visited
            ELSE SelectSeq(visited, LAMBDA e : e.node \in Named)

\* The rest of workbench_list and workbench_find, which reads no file.
Report ==
    LET shown == SubSeq(Matching, 1, Min({asks.limit, Len(Matching)}))
        out   == Pushed([i \in DOMAIN shown |-> <<shown[i].node, 0>>])
    IN  /\ phase = "read" /\ asks.kind # "grep"
        /\ output' = out /\ count' = Len(shown)
        /\ said' = Truncated(Len(Matching) > asks.limit, out)
        /\ phase' = "done"
        /\ UNCHANGED <<tree, asks, queue, visited, cut, skipped, kept, edits>>

\* One turn of workbench_grep's loop: read_search_file passes over what is no
\* regular file by now, or too large, and a binary file is named instead.
ReadFile ==
    LET entry == Head(visited)
        kind  == tree[entry.node]
        lines == Min({Lines(kind), asks.limit - count})
    IN  /\ phase = "read" /\ asks.kind = "grep"
        /\ visited # <<>> /\ count < asks.limit
        /\ visited' = Tail(visited)
        /\ \/ /\ ~entry.file \/ entry.node \notin Named \/ kind \in {"gone", "link", "dir", "big"}
              /\ UNCHANGED <<output, count, skipped>>
           \/ /\ entry.file /\ entry.node \in Named /\ kind = "binary"
              /\ skipped' = skipped \cup {entry.node} /\ UNCHANGED <<output, count>>
           \/ /\ entry.file /\ entry.node \in Named /\ kind \in Texts
              /\ output' = Pushed([i \in 1..lines |-> <<entry.node, i>>])
              /\ count' = count + lines
              /\ UNCHANGED skipped
        /\ UNCHANGED <<tree, asks, phase, queue, cut, said, kept, edits>>

FinishGrep ==
    /\ phase = "read" /\ asks.kind = "grep"
    /\ visited = <<>> \/ count = asks.limit
    /\ LET named == IF skipped = {} THEN 0 ELSE 1
       IN  said' = (Truncated(count = asks.limit, output) \/ Len(output.lines) + named > MaxOutput)
    /\ phase' = "done"
    /\ UNCHANGED <<tree, asks, queue, visited, cut, output, count, skipped, kept, edits>>

LookNext ==
    \/ \E n \in Node : Edit(n)
    \/ ReadDirectory \/ Report \/ ReadFile \/ FinishGrep
-----------------------------------------------------------------------------
\* What the call asks for.
Wanted(n) ==
    /\ tree[n] \notin {"gone", "link"}
    /\ CASE asks.kind = "list" -> Under(n) = Root
         [] asks.kind = "find" -> n \in Named
         [] asks.kind = "grep" -> n \in Named /\ tree[n] \in Texts

Shown(n) ==
    LET lines == IF asks.kind = "grep" THEN {<<n, i>> : i \in 1..Lines(tree[n])} ELSE {<<n, 0>>}
    IN  lines \subseteq Range(output.lines)

\* An answer that does not say it is truncated shows all that was there and
\* matched during the whole call, or names it as binary; whatever the user did
\* meanwhile, nothing is shown twice (walk_workbench).  A file that is too large
\* is passed over without a word.
SearchIsHonest ==
    phase = "done" =>
        /\ ~said => \A n \in kept :
              /\ Wanted(n) => Shown(n)
              /\ (asks.kind = "grep" /\ n \in Named /\ tree[n] = "binary") => n \in skipped
        /\ IsInjective(output.lines)
        /\ ~said => count = Len(output.lines)

\* The bounds hold together: no walk, result or output outgrows its own.
SearchIsBounded ==
    /\ Len(visited) <= IF asks.kind = "list" THEN asks.limit + 1 ELSE MaxWalk
    /\ count <= asks.limit /\ Len(output.lines) <= Min({MaxOutput, count})
=============================================================================
