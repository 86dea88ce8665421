---------------------------- MODULE MemoryUpdates ----------------------------
(***************************************************************************)
(* How the turns of one Guru and the Library commands of its user form     *)
(* changes of its Memory and apply them (commands/memory_updates.rs,       *)
(* memory_crud.rs, tool_executor/research.rs).  A turn reads records while *)
(* it holds a reader lease, stages proposals and a decision, and applies   *)
(* them under the Guru's writer lease, behind every writer that queued     *)
(* before it.  A Library command reads before it queues, under no lease.   *)
(* Evidence gets an id nobody else has and is cited by its own turn only,  *)
(* so it is left out.                                                      *)
(***************************************************************************)
EXTENDS Sequences, Integers, FiniteSets

CONSTANTS
    Turn, Command,  \* Chat turns; Library commands
    Page,           \* ids of Wiki pages: the slug of a title and a number
    Draft,          \* contents an author may write: title, links, revoked
    Absent,
    MaxProposals    \* research.rs MAX_MEMORY_PROPOSALS

VARIABLES
    memory,    \* the records in the working tree
    previous,  \* per page: its content before the last commit that changed it
    readers,   \* turns that hold a reader lease
    queue,     \* writers that reserved their place, FIFO
    turns,     \* step, full reads, proposals with their bases, decision
    commands,  \* step, target, what was read there and what shall replace it
    writing    \* the writer whose change is published, and how to undo it

updates == <<memory, previous, readers, queue, turns, commands, writing>>

Decision == {"decision"} \X (1..Cardinality(Turn))
Record   == Page \cup Decision
Nobody   == [by |-> Absent, undo |-> <<>>]

\* A function over the records that were read, proposed or changed.
Nothing == [p \in {} |-> Absent]
Put(f, p, content) == [q \in DOMAIN f \cup {p} |-> IF q = p THEN content ELSE f[q]]
Base(reads, p) == IF p \in DOMAIN reads THEN reads[p] ELSE Absent

NewTurn == [step |-> "idle", reads |-> Nothing, proposals |-> Nothing,
            bases |-> Nothing, decision |-> Absent]
NewCommand == [step |-> "idle", target |-> Absent, before |-> Absent, after |-> Absent]

UpdatesInit ==
    /\ memory = [r \in Record |-> Absent] /\ previous = [p \in Page |-> Absent]
    /\ readers = {} /\ queue = <<>>
    /\ turns = [t \in Turn |-> NewTurn] /\ commands = [c \in Command |-> NewCommand]
    /\ writing = Nobody

\* knowledge check: every link names a record that exists.
Sound(m) == \A r \in Record : m[r] # Absent => \A q \in m[r].links : m[q] # Absent
-----------------------------------------------------------------------------
\* A Chat run is admitted only while no writer is in the table.
BeginTurn(t) ==
    /\ turns[t].step = "idle" /\ queue = <<>>
    /\ readers' = readers \cup {t} /\ turns' = [turns EXCEPT ![t].step = "runs"]
    /\ UNCHANGED <<memory, previous, queue, commands, writing>>

\* The agent reads in full what there is; to have read less only allows less.
ReadFull(t) ==
    /\ turns[t].step = "runs"
    /\ turns' = [turns EXCEPT ![t].reads = [p \in {q \in Page : memory[q] # Absent} |-> memory[p]]]
    /\ UNCHANGED <<memory, previous, readers, queue, commands, writing>>

\* Another active page of these has the title already.
Collides(m, p, content) ==
    \E q \in (DOMAIN m \cap Page) \ {p} :
        m[q] # Absent /\ ~m[q].revoked /\ m[q].title = content.title

\* The record must have been read in full if it exists, and exist if it was.
BaseIsLive(base, live) == base = Absent <=> live = Absent

\* stage_proposal, whose result the agent acknowledges.  It checks under locks
\* that it lets go before it stages, so a call beside it may pass unseen.  A
\* proposal for the same page is replaced.
Propose(t, p, content, beside) ==
    LET base == Base(turns[t].reads, p) proposals == turns[t].proposals IN
    /\ turns[t].step = "runs" /\ (content.revoked => p \notin content.links)
    /\ BaseIsLive(base, memory[p]) /\ ~Collides(memory, p, content)
    /\ beside \/ ~Collides(proposals, p, content)
    /\ Cardinality(DOMAIN proposals \cup {p}) <= MaxProposals
    /\ turns' = [turns EXCEPT ![t].proposals = Put(@, p, content),
                              ![t].bases = Put(@, p, base)]
    /\ UNCHANGED <<memory, previous, readers, queue, commands, writing>>

\* A decision names pages that were read; a turn seals one.
Decide(t, uses) ==
    /\ turns[t].step = "runs" /\ turns[t].decision = Absent
    /\ uses \subseteq DOMAIN turns[t].reads
    /\ turns' = [turns EXCEPT ![t].decision =
                    [title |-> Absent, links |-> uses, revoked |-> FALSE]]
    /\ UNCHANGED <<memory, previous, readers, queue, commands, writing>>

\* The turn gives up its reader lease and reserves the writer's place; without
\* "update Memory" its proposals are not looked at.
EndTurn(t, update) ==
    /\ turns[t].step = "runs"
    /\ turns' = [turns EXCEPT ![t] = IF update THEN [@ EXCEPT !.step = "queued"]
                     ELSE [@ EXCEPT !.step = "queued", !.proposals = Nothing, !.bases = Nothing]]
    /\ readers' = readers \ {t} /\ queue' = Append(queue, t)
    /\ UNCHANGED <<memory, previous, commands, writing>>
-----------------------------------------------------------------------------
\* incoming_blockers: links of any record to this one.
Blockers(m, p) == {r \in Record \ {p} : m[r] # Absent /\ p \in m[r].links}

\* allocate_library_id: the first id of the title's slug that is not listed.
LibraryIds(title) == {p \in Page : p[1] = title /\ memory[p] = Absent}
IsFirst(p, ids)   == p \in ids /\ \A q \in ids : p[2] <= q[2]

Prepare(c, p, before, after) ==
    /\ commands[c].step = "idle"
    /\ commands' = [commands EXCEPT ![c] =
           [step |-> "read", target |-> p, before |-> before, after |-> after]]
    /\ UNCHANGED <<memory, previous, readers, queue, turns, writing>>

Create(c, p, content) ==
    /\ IsFirst(p, LibraryIds(content.title)) /\ ~content.revoked
    /\ Prepare(c, p, Absent, content)

Revise(c, p, content) ==
    memory[p] # Absent /\ ~content.revoked /\ Prepare(c, p, memory[p], content)

Delete(c, p) ==
    memory[p] # Absent /\ Blockers(memory, p) = {} /\ Prepare(c, p, memory[p], Absent)

\* The caller's expectation is compared with the record; the version before
\* the last commit replaces it, and if there is none the record goes.
Revert(c, p) ==
    /\ memory[p] # Absent /\ previous[p] # memory[p]
    /\ previous[p] = Absent => Blockers(memory, p) = {}
    /\ Prepare(c, p, memory[p], previous[p])

Reserve(c) ==
    /\ commands[c].step = "read"
    /\ commands' = [commands EXCEPT ![c].step = "queued"] /\ queue' = Append(queue, c)
    /\ UNCHANGED <<memory, previous, readers, turns, writing>>
-----------------------------------------------------------------------------
HasLease(w) == queue # <<>> /\ Head(queue) = w /\ readers = {}

Done(w) ==
    /\ queue' = Tail(queue)
    /\ IF w \in Turn THEN turns' = [turns EXCEPT ![w].step = "done"] /\ UNCHANGED commands
       ELSE commands' = [commands EXCEPT ![w].step = "done"] /\ UNCHANGED turns

\* allocate_slug_id: the first decision id that is not listed.
DecisionId == CHOOSE d \in Decision :
    memory[d] = Absent /\ \A e \in Decision : memory[e] = Absent => d[2] <= e[2]

\* Slip: the bases were compared when the proposals were formed.
BasesUnchecked(t) == TRUE

\* validate_current_proposal_bases_and_identities, of the records as they are now ...
BasesAreLive(t) == \A p \in DOMAIN turns[t].proposals : memory[p] = turns[t].bases[p]

\* ... against the other active pages and the other proposals of the turn.
NoCollision(t) ==
    \A p \in DOMAIN turns[t].proposals :
        /\ ~Collides(memory, p, turns[t].proposals[p])
        /\ ~Collides(turns[t].proposals, p, turns[t].proposals[p])

TurnChange(t) ==
    LET pages == turns[t].proposals IN
    IF turns[t].decision = Absent THEN pages ELSE Put(pages, DecisionId, turns[t].decision)

\* preflight_approved_target: the bytes are those the command read.
Preflight(c) == memory[commands[c].target] = commands[c].before

Applicable(w) == IF w \in Turn THEN BasesAreLive(w) /\ NoCollision(w) ELSE Preflight(w)

Change(w) == IF w \in Turn THEN TurnChange(w)
             ELSE Put(Nothing, commands[w].target, commands[w].after)

\* A target whose content would stay is left out; no target, no transaction.
Targets(w) == {r \in DOMAIN Change(w) : Change(w)[r] # memory[r]}

Publish(w) ==
    /\ HasLease(w) /\ writing = Nobody
    /\ IF Applicable(w) /\ Targets(w) # {}
       THEN /\ memory' = [r \in Record |-> IF r \in Targets(w) THEN Change(w)[r] ELSE memory[r]]
            /\ writing' = [by |-> w, undo |-> memory] /\ UNCHANGED <<queue, turns, commands>>
       ELSE Done(w) /\ UNCHANGED <<memory, writing>>
    /\ UNCHANGED <<previous, readers>>

\* Slip: that no link dangles was checked when the commands were formed.
CheckedWhenFormed(m) == TRUE

\* The tree is checked with the whole change in it.
Checked(m) == Sound(m)

\* Valid and stored: the commit stands.  Otherwise the change is taken back.
Commit(w) ==
    /\ writing.by = w /\ Checked(memory)
    /\ previous' = [p \in Page |-> IF memory[p] # writing.undo[p] THEN writing.undo[p]
                                   ELSE previous[p]]
    /\ writing' = Nobody /\ Done(w) /\ UNCHANGED <<memory, readers>>

RollBack(w) ==
    /\ writing.by = w
    /\ memory' = writing.undo /\ writing' = Nobody /\ Done(w) /\ UNCHANGED <<previous, readers>>

UpdatesNext ==
    \/ \E t \in Turn :
        \/ BeginTurn(t) \/ ReadFull(t)
        \/ \E p \in Page, content \in Draft, beside \in BOOLEAN : Propose(t, p, content, beside)
        \/ \E p \in Page : Decide(t, {p})
        \/ \E update \in BOOLEAN : EndTurn(t, update)
    \/ \E c \in Command :
        \/ \E p \in Page, content \in Draft : Create(c, p, content) \/ Revise(c, p, content)
        \/ \E p \in Page : Delete(c, p) \/ Revert(c, p)
        \/ Reserve(c)
    \/ \E w \in Turn \cup Command : Publish(w) \/ Commit(w) \/ RollBack(w)
-----------------------------------------------------------------------------
\* Committed Memory has no dangling link, in whatever order commands that
\* checked for links, and turns that read what they link to, come to write
\* (memory_crud.rs:285, runtime/memory_apply.rs:109).
MemoryIsSound == writing = Nobody => Sound(memory)

\* A turn replaces only what its agent has read in full, or nothing, although
\* others wrote since; and afterwards no other active page has the title of
\* one it wrote, although the user may have given that title away meanwhile.
\* A Library command replaces what it read (memory_updates.rs:206).
ReplacesAsRead ==
    \A w \in Turn \cup Command : writing'.by = w /\ writing = Nobody =>
        IF w \in Turn
        THEN \A p \in Page : memory'[p] # memory[p] =>
               memory[p] = Base(turns[w].reads, p) /\ ~Collides(memory', p, memory'[p])
        ELSE memory[commands[w].target] = commands[w].before

\* Both: what the authors agreed on is what Memory becomes.
MemoryStaysCoherent == [][ReplacesAsRead /\ MemoryIsSound']_updates
=============================================================================
