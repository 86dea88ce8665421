---------------------------- MODULE TurnProgress ----------------------------
(***************************************************************************)
(* What a running turn shows of its work: the projection of the agent's    *)
(* events (chat_progress.rs), the numbered patches and the snapshots that  *)
(* the turn's event loop sends of it (chat_runtime.rs), and the renderer   *)
(* that applies them (src/chat/ai-sdk.ts).  The renderer may miss an event *)
(* and gets everything again with the terminal snapshot.                   *)
(***************************************************************************)
EXTENDS Integers, FiniteSets, SequencesExt

CONSTANTS
    Tracked,       \* identifiers of tool calls, "compaction" and "retry"
    MaxItems,   \* bound: items a turn creates
    MaxText,    \* bound: deltas of one commentary
    MaxMissed   \* bound: events the renderer misses

VARIABLES
    projection,  \* ChatProgressProjection
    channel,     \* events sent and not received yet
    view,        \* ChatProgressStreamState of the renderer; <<>> before the first snapshot
    missed,      \* events lost on the way
    taken        \* the items when patch k was taken, at k + 1 (history)

progress == <<projection, channel, view, missed, taken>>

Empty ==
    [items |-> <<>>, next |-> 1, sequence |-> 0, active |-> 0,
     open |-> [k \in Tracked |-> 0],
     dirty |-> <<>>, published |-> {}, removed |-> {}, closing |-> FALSE, over |-> FALSE]

Snapshot(p) == [type |-> "snapshot", sequence |-> p.sequence, items |-> p.items, finished |-> p.over]

ProgressInit ==
    /\ projection = Empty
    /\ channel = <<Snapshot(Empty)>> /\ view = <<>>
    /\ missed = 0 /\ taken = <<<<>>>>
-----------------------------------------------------------------------------
\* What a sequence has at the positions in S, in its order.
Nth(S, k)     == CHOOSE i \in S : Cardinality({j \in S : j <= i}) = k
Keeping(s, S) == [k \in 1..Cardinality(S) |-> s[Nth(S, k)]]

Ids(items)          == {items[i].id : i \in DOMAIN items}
Without(items, ids) == Keeping(items, {i \in DOMAIN items : items[i].id \notin ids})

MarkDirty(p, id) ==
    IF id \in ToSet(p.dirty) THEN p ELSE [p EXCEPT !.dirty = Append(@, id)]

Clean(dirty, id) == Keeping(dirty, {i \in DOMAIN dirty : dirty[i] # id})

At(p, id) == CHOOSE i \in DOMAIN p.items : p.items[i].id = id

\* A new item, dirty, and no commentary open.
Push(p, status) ==
    [p EXCEPT !.items = Append(@, [id |-> p.next, text |-> 0, status |-> status]),
              !.next = @ + 1, !.active = 0, !.dirty = Append(@, p.next)]

AppendCommentary(p) ==
    LET q == IF p.active # 0 THEN p ELSE [Push(p, "text") EXCEPT !.active = p.next] IN
    MarkDirty([q EXCEPT !.items[At(q, q.active)].text = @ + 1], q.active)

Start(p, key) == [Push(p, "running") EXCEPT !.open[key] = p.next]

Finish(p, key, status) ==
    IF p.open[key] = 0 THEN p
    ELSE MarkDirty([p EXCEPT !.items[At(p, p.open[key])].status = status, !.open[key] = 0],
                   p.open[key])

\* Slip: what the renderer has is not taken back.
ForgetItem(p, id) ==
    [p EXCEPT !.items = Without(@, {id}), !.dirty = Clean(@, id), !.active = 0]

\* What was published must be taken back by the next patch.
RemoveItem(p, id) ==
    [p EXCEPT !.items = Without(@, {id}), !.dirty = Clean(@, id),
              !.removed = IF id \in p.published THEN @ \cup {id} ELSE @,
              !.published = @ \ {id}, !.active = 0]

\* The text of a final turn is the answer, no commentary.
FinishAssistantTurn(p, final) ==
    IF final /\ p.active # 0 THEN RemoveItem(p, p.active) ELSE [p EXCEPT !.active = 0]

\* What still runs ends with the turn.
Ended(item, status) == IF item.status = "running" THEN [item EXCEPT !.status = status] ELSE item

Running(p) ==
    Keeping(p.items, {i \in DOMAIN p.items :
                         p.items[i].status = "running" /\ p.items[i].id \notin ToSet(p.dirty)})

Conclude(p, status) ==
    [p EXCEPT !.items = [i \in DOMAIN @ |-> Ended(@[i], status)],
              !.dirty = @ \o [k \in DOMAIN Running(p) |-> Running(p)[k].id],
              !.active = 0, !.closing = TRUE, !.over = TRUE]
-----------------------------------------------------------------------------
HasPatch(p) == p.dirty # <<>> \/ p.removed # {} \/ p.closing

Patch(p) ==
    [type |-> "patch", sequence |-> p.sequence + 1, remove |-> p.removed, finished |-> p.closing,
     upsert |-> [k \in DOMAIN p.dirty |-> p.items[At(p, p.dirty[k])]]]

Taken(p) ==
    [p EXCEPT !.sequence = @ + 1, !.published = @ \cup ToSet(p.dirty),
              !.dirty = <<>>, !.removed = {}, !.closing = FALSE]

\* The loop sends what changed, if anything did.
Emit(p) ==
    IF HasPatch(p) THEN
        /\ projection' = Taken(p) /\ channel' = Append(channel, Patch(p))
        /\ taken' = Append(taken, p.items)
    ELSE projection' = p /\ UNCHANGED <<channel, taken>>

ProgressRoom == ~projection.over /\ projection.next <= MaxItems

AssistantStarts ==
    /\ ~projection.over
    /\ projection' = FinishAssistantTurn(projection, FALSE) /\ UNCHANGED <<channel, taken>>

\* Text is only sent as a draft; its item waits for the next patch.
TextDelta ==
    /\ IF projection.active = 0 THEN ProgressRoom
       ELSE ~projection.over /\ projection.items[At(projection, projection.active)].text < MaxText
    /\ projection' = AppendCommentary(projection) /\ UNCHANGED <<channel, taken>>

MessageEnd(final) == ~projection.over /\ Emit(FinishAssistantTurn(projection, final))

WorkStarts(key) == ProgressRoom /\ Emit(Start(projection, key))

WorkEnds(key) ==
    /\ ~projection.over
    /\ \E status \in {"succeeded", "failed"} : Emit(Finish(projection, key, status))

\* finish_chat_progress: the last patch, then a snapshot under its number.
TurnEnds(status) ==
    LET p == Conclude(projection, status) IN
    /\ ~projection.over
    /\ projection' = Taken(p) /\ taken' = Append(taken, p.items)
    /\ channel' = channel \o <<Patch(p), Snapshot(Taken(p))>>
-----------------------------------------------------------------------------
Shown(event) == [sequence |-> event.sequence, items |-> event.items, finished |-> event.finished]

ApplySnapshot(state, event) ==
    IF state # <<>> /\ event.sequence <= state.sequence THEN state ELSE Shown(event)

\* Known items are replaced where they stand, new ones come at the end.  A patch
\* has an item once.
Given(given, id) == {g \in ToSet(given) : g.id = id}
Replaced(item, given) ==
    IF Given(given, item.id) = {} THEN item ELSE CHOOSE g \in Given(given, item.id) : TRUE

Upsert(items, given) ==
    [i \in DOMAIN items |-> Replaced(items[i], given)] \o Without(given, Ids(items))

ApplyPatch(state, event) ==
    IF state = <<>> \/ event.sequence # state.sequence + 1 THEN state
    ELSE [sequence |-> event.sequence, finished |-> state.finished \/ event.finished,
          items |-> Upsert(Without(state.items, event.remove), event.upsert)]

Receive ==
    /\ channel # <<>>
    /\ view' = IF Head(channel).type = "snapshot" THEN ApplySnapshot(view, Head(channel))
               ELSE ApplyPatch(view, Head(channel))
    /\ channel' = Tail(channel) /\ UNCHANGED <<projection, missed, taken>>

\* Any event may be missed, except the terminal snapshot.
Miss ==
    /\ channel # <<>> /\ missed < MaxMissed
    /\ ~(Head(channel).type = "snapshot" /\ Head(channel).finished)
    /\ missed' = missed + 1 /\ channel' = Tail(channel) /\ UNCHANGED <<projection, view, taken>>

Streams ==
    \/ AssistantStarts \/ TextDelta \/ \E final \in BOOLEAN : MessageEnd(final)
    \/ \E key \in Tracked : WorkStarts(key) \/ WorkEnds(key)
    \/ \E status \in {"stopped", "failed"} : TurnEnds(status)

ProgressNext == (Streams /\ UNCHANGED <<view, missed>>) \/ Receive \/ Miss
-----------------------------------------------------------------------------
\* What the renderer shows at sequence k is exactly what the turn had when it
\* took patch k, in the same order, and when everything has arrived it shows
\* the turn as it ended, whatever it missed before (ai-sdk.ts:97, the
\* resynchronisation of chat_runtime.rs:750).
ViewIsExact ==
    /\ view # <<>> => view.items = taken[view.sequence + 1]
    /\ projection.over /\ channel = <<>> =>
         view = [sequence |-> projection.sequence, items |-> projection.items, finished |-> TRUE]
=============================================================================
