----------------------------- MODULE ChatArtifacts -----------------------------
(***************************************************************************)
(* What the turns of a Chat publish (tool_executor/artifacts.rs): parallel *)
(* calls stage results, reads and revisions under their delivery, the      *)
(* broker delivers or discards each, and a turn that completes stores what *)
(* was delivered in one transaction (store.rs) that refuses anything it    *)
(* does not expect.  The handlers of a turn share one task and these locks *)
(* are free when they are asked for, so a handler's part between two waits *)
(* is one step.                                                            *)
(***************************************************************************)
EXTENDS Naturals, Sequences, FiniteSets

CONSTANTS
    Call,          \* tool calls that are under way together
    Artifact, Dataset, Result,   \* identifiers
    Narrow,        \* datasets that lack what some views and studies show
    None,
    MaxTurns,      \* bound on turns
    MaxPublished,  \* MAX_CHAT_TURN_ARTIFACTS
    MaxResults     \* MAX_RUN_RESULTS

VARIABLES
    stored,    \* chat_artifacts: revision, chart dataset and its lineage, whether
               \* its view, studies and drawings need more than narrow rows
    tables,    \* chart_artifact_datasets: dataset and artifact
    turn,      \* "none", "running", or how the last one ended
    turns,
    pending,   \* pending_deliveries: what each call has staged
    published, \* artifacts of the capture, in the order of their delivery
    reads,     \* artifact_reads
    results    \* run_results, those cited from since included

capture   == <<pending, published, reads, results>>
artifacts == <<stored, tables, turn, turns, capture>>

Absent == [revision |-> 0, data |-> None, lineage |-> {}, wide |-> FALSE]
Nothing == [kind |-> "none"]

ArtifactsInit ==
    /\ stored = [a \in Artifact |-> Absent] /\ tables = {}
    /\ turn = "none" /\ turns = 0
    /\ pending = [c \in Call |-> Nothing]
    /\ published = <<>> /\ reads = {} /\ results = {}

Staged(kind)  == {pending[c] : c \in {d \in Call : pending[d].kind = kind}}
Delivered     == {published[i] : i \in DOMAIN published}
Publications  == Staged("publish") \cup Delivered

\* A new identifier, while there is one.
New(ids, used) == IF ids \subseteq used THEN {} ELSE {CHOOSE x \in ids : x \notin used}
NewArtifact == New(Artifact, {a \in Artifact : stored[a] # Absent}
                               \cup {p.artifact : p \in Publications})
NewDataset  == New(Dataset, {row[1] : row \in tables} \cup {p.data : p \in Publications})
NewResult   == New(Result, results \cup {p.result : p \in Staged("result")})

\* A call of the running turn stages one thing under its delivery.
Stage(c, record) ==
    /\ turn = "running" /\ pending[c] = Nothing
    /\ pending' = [pending EXCEPT ![c] = record]
    /\ UNCHANGED <<stored, tables, turn, turns, published, reads, results>>
-----------------------------------------------------------------------------
Begin ==
    /\ turn # "running" /\ turns < MaxTurns
    /\ turn' = "running" /\ turns' = turns + 1
    /\ pending' = [c \in Call |-> Nothing]
    /\ published' = <<>> /\ reads' = {} /\ results' = {}
    /\ UNCHANGED <<stored, tables>>

\* Slip: what is staged and not yet delivered takes no place.
RoomForDelivered == Cardinality(results) < MaxResults

\* Staged and delivered results share the places of the registry.
Room == Cardinality(results) + Cardinality(Staged("result")) < MaxResults

StageResult(c) ==
    /\ Room
    /\ \E r \in NewResult : Stage(c, [kind |-> "result", result |-> r])

\* Slip: the document and the rows are each valid.
EachValid(d, wide) == d = None => ~wide

\* validate_dataset: the rows have every field that the document shows.
Renders(d, wide) == IF d = None THEN ~wide ELSE wide => d \notin Narrow

\* A chart is read with the rows that its document names, or not at all.
Readable(a) ==
    stored[a].data # None =>
        <<stored[a].data, a>> \in tables /\ ~(stored[a].wide /\ stored[a].data \in Narrow)

ArtifactRead(c, a) ==
    /\ stored[a] # Absent /\ Readable(a)
    /\ Stage(c, [kind |-> "read", artifact |-> a, revision |-> stored[a].revision])

\* Slip: only what was delivered counts.
StageableOnce(a) ==
    LET ids == {p.artifact : p \in Delivered}
    IN  a \notin ids /\ Cardinality(ids) < MaxPublished

\* stage_artifact: once for each artifact, a bounded number of artifacts.
Stageable(a) ==
    LET ids == {p.artifact : p \in Publications}
    IN  a \notin ids /\ Cardinality(ids) < MaxPublished

Publish(c, a, revision, d, from, wide) ==
    /\ Renders(d, wide) /\ Stageable(a)
    /\ Stage(c, [kind |-> "publish", artifact |-> a, revision |-> revision,
                 data |-> d, lineage |-> from, wide |-> wide])

\* materialize_chart_dataset: rows of a delivered result, or rows of the agent
\* with the delivered results they come from.
Materialized(d, from) == d \in NewDataset /\ from \subseteq results

Create(c, d, from, wide) ==
    /\ (d = None /\ from = {}) \/ Materialized(d, from)
    /\ \E a \in NewArtifact : Publish(c, a, 1, d, from, wide)

\* Slip: the revision that the call names need not be one that it has read.
Current(a) == stored[a] # Absent

\* What is revised is the current revision, as it was read.
ReadCurrent(a) == stored[a] # Absent /\ <<a, stored[a].revision>> \in reads

\* A chart keeps its rows or gets new ones, and so with its view, studies and
\* drawings; neither kind of artifact becomes the other.
Revise(c, a, d, from, wide) ==
    /\ ReadCurrent(a)
    /\ \/ d = stored[a].data /\ from = stored[a].lineage
       \/ stored[a].data # None /\ Materialized(d, from)
    /\ Publish(c, a, stored[a].revision + 1, d, from, wide)

\* commit_delivery: the agent has acknowledged the result.
CommitDelivery(c) ==
    /\ pending[c] # Nothing /\ turn = "running"
    /\ pending' = [pending EXCEPT ![c] = Nothing]
    /\ LET p == pending[c]
       IN  /\ results' = IF p.kind = "result" THEN results \cup {p.result} ELSE results
           /\ published' = IF p.kind = "publish" THEN Append(published, p) ELSE published
           /\ reads' = IF p.kind = "read" THEN reads \cup {<<p.artifact, p.revision>>}
                                          ELSE reads
    /\ UNCHANGED <<stored, tables, turn, turns>>

\* discard_delivery: the agent did not get it.
DiscardDelivery(c) ==
    /\ pending[c] # Nothing /\ turn = "running"
    /\ pending' = [pending EXCEPT ![c] = Nothing]
    /\ UNCHANGED <<stored, tables, turn, turns, published, reads, results>>
-----------------------------------------------------------------------------
Drained == turn = "running" /\ \A c \in Call : pending[c] = Nothing

\* What the transaction insists on; the artifacts are distinct, so each meets
\* the row that was there before.
Acceptable ==
    /\ Len(published) <= MaxPublished
    /\ \A i, j \in DOMAIN published : published[i].artifact = published[j].artifact => i = j
    /\ \A i \in DOMAIN published :
        LET p == published[i] IN p.revision = stored[p.artifact].revision + 1

\* Slip: a revision adds its rows to those of the one before.
RowsAdded(t, ps) == t \cup {<<p.data, p.artifact>> : p \in {q \in ps : q.data # None}}

\* persist_artifact_commit, of distinct artifacts: the rows of each in the place
\* of those it had.
RowsReplaced(t, ps) ==
    {row \in t : \A p \in ps : row[2] # p.artifact}
      \cup {<<p.data, p.artifact>> : p \in {q \in ps : q.data # None}}

\* save_chat_with_artifacts, once the broker has drained.
Complete ==
    /\ Drained
    /\ IF Acceptable
       THEN /\ turn' = "stored"
            /\ stored' = [a \in Artifact |->
                 IF \E p \in Delivered : p.artifact = a
                 THEN LET p == CHOOSE p \in Delivered : p.artifact = a
                      IN  [revision |-> p.revision, data |-> p.data,
                           lineage |-> p.lineage, wide |-> p.wide]
                 ELSE stored[a]]
            /\ tables' = RowsReplaced(tables, Delivered)
       ELSE turn' = "refused" /\ UNCHANGED <<stored, tables>>
    /\ UNCHANGED <<turns, capture>>

\* Stopped, failed, or interrupted by a crash.
Fail ==
    /\ turn = "running" /\ turn' = "failed"
    /\ pending' = [c \in Call |-> Nothing]
    /\ UNCHANGED <<stored, tables, turns, published, reads, results>>

\* delete_chat: the rows, the artifacts, the Chat; here it begins anew.
DeleteChat ==
    /\ turn # "running" /\ turns < MaxTurns
    /\ stored' = [a \in Artifact |-> Absent]
    /\ tables' = {row \in tables : stored[row[2]] = Absent}
    /\ turn' = "none"
    /\ UNCHANGED <<turns, capture>>

ArtifactsNext ==
    \/ Begin \/ Complete \/ Fail \/ DeleteChat
    \/ \E c \in Call :
        \/ CommitDelivery(c) \/ DiscardDelivery(c)
        \/ StageResult(c)
        \/ \E a \in Artifact : ArtifactRead(c, a)
        \/ \E wide \in BOOLEAN :
            \/ \E d \in Dataset \cup {None}, from \in SUBSET results :
                Create(c, d, from, wide) \/ \E a \in Artifact : Revise(c, a, d, from, wide)
            \* A revision may keep rows that another turn's results made.
            \/ \E a \in Artifact : Revise(c, a, stored[a].data, stored[a].lineage, wide)
-----------------------------------------------------------------------------
\* The rows that are kept are those that the charts name, no more and no less,
\* and every chart can be read again.
RowsAreNamed ==
    /\ tables = {<<stored[a].data, a>> : a \in {b \in Artifact : stored[b].data # None}}
    /\ \A a \in Artifact : Readable(a)

\* "staged run result budget was checked before delivery" (tool_executor.rs):
\* whatever is delivered, in whatever order, finds its place.
RegistryFits == Cardinality(results) + Cardinality(Staged("result")) <= MaxResults

\* Who revised an artifact had been given the revision that it replaces, and a
\* chart with new rows names only results that its author had been given.
BuildsOnDelivered ==
    \A a \in Artifact :
        stored'[a].revision > stored[a].revision =>
            /\ stored[a] = Absent \/ <<a, stored[a].revision>> \in reads
            /\ stored'[a].data = stored[a].data \/ stored'[a].lineage \subseteq results

\* "The artifact will be saved only if this Chat turn completes" (artifacts.rs)
\* and then it is: the transaction never refuses what the turn let its agent
\* stage, although calls overlap and deliveries fail.
ArtifactsSettle ==
    [][turn' # "refused" /\ RegistryFits' /\ RowsAreNamed' /\ BuildsOnDelivered]_artifacts
=============================================================================
