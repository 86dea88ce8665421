------------------------------- MODULE PiStream -------------------------------
(***************************************************************************)
(* One Pi process as its turn hears it (pi.rs, pi_execution.rs,            *)
(* pi_response.rs and the loop of commands/chat_runtime.rs): the controls  *)
(* before the prompt, the session it resumes, the messages it streams over *)
(* a broadcast channel that forgets the oldest event when it is full, and  *)
(* the watchdog of the first progress.  Instructions, Stop and what becomes *)
(* of the answer are ChatTurn's, the process itself is AgentSession's.      *)
(***************************************************************************)
EXTENDS Sequences, Integers

CONSTANTS
    Chunk,               \* pieces of streamed text
    Capacity,            \* pi.rs PI_EVENT_BUFFER_CAPACITY
    BodyTime, TotalTime, \* CHAT_FIRST_PROVIDER_BODY_PROGRESS_TIMEOUT, CHAT_PRE_BODY_TOTAL_TIMEOUT
    Deferrals,           \* CHAT_WATCHDOG_EXPIRY_EVENT_DEFERRAL_LIMIT
    MaxText,             \* MAX_CHAT_OUTPUT_BYTES
    MaxEvents            \* bound on what Pi says, answers to controls excluded

VARIABLES
    pi,     \* what it loaded, says and has said, controls it has yet to answer
    wire,   \* events that the host has not read; the newest is last
    lagged, \* an event was forgotten before it was read
    host,   \* step, how it resumes, controls it waits for, capture, answer
    watch   \* the watchdog and the time

pistream == <<pi, wire, lagged, host, watch>>

Control  == {"settings", "state", "entries"}
NoText   == <<>>

PiInit ==
    /\ \E entries \in {"sealed", "other", "none"} :
       pi = [up |-> TRUE, entries |-> entries, asked |-> {}, open |-> FALSE, text |-> NoText,
             said |-> <<>>, last |-> "none", body |-> FALSE, settled |-> FALSE, events |-> 0]
    /\ wire = <<>> /\ lagged = FALSE
    /\ \E resume \in {"warm", "cold"} :
       host = [step |-> "spawned", resume |-> resume, waits |-> {}, active |-> FALSE,
               streamed |-> NoText, completed |-> FALSE, last |-> "none",
               content |-> <<>>, drafts |-> <<>>, cursor |-> "none"]
    /\ watch = [now |-> 0, mode |-> "awaiting", body |-> BodyTime, select |-> "fair",
                deferred |-> 0, late |-> 0]

\* broadcast::Sender::send
Emit(e) ==
    /\ wire' = Append(IF Len(wire) = Capacity THEN Tail(wire) ELSE wire, e)
    /\ lagged' = (lagged \/ Len(wire) = Capacity)
Event(type) == [type |-> type]
-----------------------------------------------------------------------------
Listening == pi.up /\ host.step \in {"configures", "loop", "settled"}

\* Pi answers each control once, in any order, and may refuse.  That it has
\* accepted the prompt means nothing to the host.
PiAnswers(c, success) ==
    /\ Listening /\ c \in pi.asked /\ (c = "prompt" => ~success)
    /\ pi' = [pi EXCEPT !.asked = @ \ {c}]
    /\ Emit([type |-> "response", id |-> c, success |-> success,
             entries |-> IF c \in {"entries", "cursor"} THEN pi.entries ELSE "none"])
    /\ UNCHANGED <<host, watch>>

Talks == Listening /\ host.step = "loop" /\ ~pi.settled /\ pi.events < MaxEvents

PiStarts ==
    /\ Talks /\ ~pi.open
    /\ pi' = [pi EXCEPT !.open = TRUE, !.text = NoText, !.events = @ + 1]
    /\ Emit(Event("message_start")) /\ UNCHANGED <<host, watch>>

PiStreams(c) ==
    /\ Talks /\ pi.open
    /\ pi' = [pi EXCEPT !.text = Append(@, c), !.body = TRUE, !.events = @ + 1]
    /\ Emit([type |-> "text_delta", delta |-> c]) /\ UNCHANGED <<host, watch>>

\* What it says in the end is not always what it streamed.
PiEnds(text, reason) ==
    /\ Talks /\ pi.open
    /\ pi' = [pi EXCEPT !.open = FALSE, !.last = reason, !.body = TRUE, !.events = @ + 1,
                        !.said = IF reason = "stop" THEN Append(@, text) ELSE @]
    /\ Emit([type |-> "message_end", text |-> text, reason |-> reason])
    /\ UNCHANGED <<host, watch>>

PiCompacts(type) ==
    /\ Talks /\ ~pi.open
    /\ pi' = [pi EXCEPT !.events = @ + 1] /\ Emit(Event(type)) /\ UNCHANGED <<host, watch>>

PiSettles ==
    /\ Talks /\ ~pi.open
    /\ pi' = [pi EXCEPT !.settled = TRUE, !.entries = "turn"]
    /\ Emit(Event("agent_settled")) /\ UNCHANGED <<host, watch>>

\* It exits, writes what is no frame or reports that its extension failed.
PiBreaks ==
    /\ Listening /\ pi' = [pi EXCEPT !.up = FALSE]
    /\ Emit(Event("gone")) /\ UNCHANGED <<host, watch>>
-----------------------------------------------------------------------------
Fail(step) == host' = [host EXCEPT !.step = step]

\* Pipelines the controls, then waits for all of them.
Configure ==
    /\ host.step = "spawned"
    /\ host' = [host EXCEPT !.step = "configures", !.waits = Control]
    /\ pi' = [pi EXCEPT !.asked = Control] /\ UNCHANGED <<wire, lagged, watch>>

\* validated_session_state, matches_cache and cold_startup_only.
Acceptable(entries) == entries = IF host.resume = "warm" THEN "sealed" ELSE "none"

Read == wire' = Tail(wire) /\ lagged' = FALSE

\* wait_for_pi_responses; the watchdog starts with the prompt.
HearControl ==
    /\ host.step = "configures" /\ wire # <<>> /\ Read
    /\ LET e == Head(wire) IN
       IF lagged \/ e.type = "gone" THEN Fail("stopping")
       ELSE IF e.type # "response" THEN UNCHANGED host
       ELSE IF ~e.success \/ (e.id = "entries" /\ ~Acceptable(e.entries)) THEN Fail("stopping")
       ELSE host' = [host EXCEPT !.waits = @ \ {e.id},
                                 !.step = IF host.waits = {e.id} THEN "loop" ELSE @]
    /\ pi' = IF host'.step = "loop" THEN [pi EXCEPT !.asked = {"prompt"}] ELSE pi
    /\ UNCHANGED watch

\* A warm launch that fails is stopped, its session wiped, and launched cold.
Relaunch ==
    /\ host.step = "stopping"
    /\ IF host.resume = "warm"
       THEN /\ host' = [host EXCEPT !.step = "spawned", !.resume = "cold", !.waits = {}]
            /\ \E left \in {"none", "other"} :  \* files of a stranger
               pi' = [pi EXCEPT !.up = TRUE, !.entries = left, !.asked = {}]
            /\ wire' = <<>> /\ lagged' = FALSE
       ELSE Fail("failed") /\ UNCHANGED <<pi, wire, lagged>>
    /\ UNCHANGED watch

ControlTimesOut ==
    host.step = "configures" /\ Fail("stopping") /\ UNCHANGED <<pi, wire, lagged, watch>>
-----------------------------------------------------------------------------
Earlier(s, t) == IF s < t THEN s ELSE t

Tick ==
    /\ host.step = "loop" /\ watch.now <= TotalTime
    /\ watch' = [watch EXCEPT !.now = @ + 1] /\ UNCHANGED <<pi, wire, lagged, host>>

IsProgress(e) == e.type \in {"text_delta", "message_end"}

\* Slip: each compaction begins the whole phase anew.
WatchedAnew(e) ==
    CASE IsProgress(e) -> [watch EXCEPT !.mode = "satisfied", !.deferred = 0]
      [] e.type = "compaction_start" -> [watch EXCEPT !.mode = "compacting", !.deferred = 0]
      [] e.type = "compaction_end" ->
           [watch EXCEPT !.mode = "awaiting", !.body = watch.now + BodyTime, !.deferred = 0]
      [] OTHER -> watch

\* A compaction before any progress stops the shorter clock and never the
\* longer one; a deadline that moves on forgives what was deferred.
Forgiven == IF TotalTime > watch.now THEN 0 ELSE watch.deferred
Watched(e) ==
    CASE IsProgress(e) -> [watch EXCEPT !.mode = "satisfied", !.deferred = 0]
      [] e.type = "compaction_start" /\ watch.mode = "awaiting" ->
           [watch EXCEPT !.mode = "compacting", !.deferred = Forgiven]
      [] e.type = "compaction_end" /\ watch.mode = "compacting" ->
           [watch EXCEPT !.mode = "awaiting", !.body = watch.now + BodyTime,
                         !.deferred = Forgiven]
      [] OTHER -> watch

\* AssistantTurnCapture: an event that does not fit fails the turn.
Misfit(e) ==
    \/ e.type = "message_start" /\ host.active
    \/ e.type = "text_delta" /\ (~host.active \/ Len(host.streamed) = MaxText)
    \/ e.type = "message_end" /\ (~host.active \/ host.streamed # e.text)

Captured(e) ==
    CASE e.type = "message_start" -> [host EXCEPT !.active = TRUE, !.streamed = NoText]
      [] e.type = "text_delta" -> [host EXCEPT !.streamed = Append(@, e.delta)]
      [] e.type = "message_end" ->
           [host EXCEPT !.active = FALSE, !.last = e.reason,
                        !.completed = @ \/ e.reason = "stop",
                        !.content = IF e.reason = "stop" THEN Append(@, e.text) ELSE @,
                        !.drafts = IF e.reason = "stop" THEN Append(@, host.streamed) ELSE @]
      [] OTHER -> host

\* finish_settled; then the cursor is asked for.
SettlesWell == ~host.active /\ host.last = "stop" /\ host.completed

\* Slip: the loop goes on behind a lost event.
LostIsSkipped == FALSE

\* A lost event fails the turn.
IsLost == lagged

Refused(e) == e.type = "response" /\ e.id = "prompt" /\ ~e.success

Handle(e) ==
    IF IsLost \/ e.type = "gone" \/ Refused(e) \/ Misfit(e) THEN Fail("failed") /\ UNCHANGED pi
    ELSE IF e.type # "agent_settled" THEN host' = Captured(e) /\ UNCHANGED pi
    ELSE IF SettlesWell
    THEN host' = [host EXCEPT !.step = "settled"] /\ pi' = [pi EXCEPT !.asked = {"cursor"}]
    ELSE Fail("failed") /\ UNCHANGED pi

ExpiredAt(w) ==
    /\ w.mode # "satisfied"
    /\ w.now >= IF w.mode = "compacting" THEN TotalTime ELSE Earlier(w.body, TotalTime)
Expired == ExpiredAt(watch)

\* One round of the loop.  Past the deadline what is queued is read first, a
\* few times; a fair wait that began before it need not count the event.
Hear(counts) ==
    /\ host.step = "loop" /\ wire # <<>>
    /\ IF counts THEN Expired /\ watch.deferred < Deferrals ELSE watch.select = "fair"
    /\ LET w == Watched(Head(wire))
           kept == w.mode # "satisfied" /\ w.deferred = watch.deferred IN
       watch' = [w EXCEPT !.select = IF ExpiredAt(w) THEN "queued" ELSE "fair",
                          !.deferred = IF counts /\ kept THEN @ + 1 ELSE @,
                          !.late = IF w.mode # "satisfied" /\ w.now >= TotalTime THEN @ + 1 ELSE @]
    /\ Handle(Head(wire)) /\ Read

\* The timer wins, and nothing is queued or enough was read.
Elapse ==
    /\ host.step = "loop" /\ Expired
    /\ wire = <<>> \/ watch.deferred >= Deferrals
    /\ Fail("timed_out") /\ UNCHANGED <<pi, wire, lagged, watch>>
-----------------------------------------------------------------------------
\* read_pi_entries beside whatever else is on the wire; without it nothing is
\* sealed.
HearCursor ==
    /\ host.step = "settled" /\ wire # <<>> /\ Read
    /\ LET e == Head(wire) IN
       IF lagged \/ e.type = "gone" THEN Fail("complete")
       ELSE IF e.type = "response" /\ e.id = "cursor"
       THEN host' = [host EXCEPT !.step = "complete",
                                 !.cursor = IF e.success THEN e.entries ELSE "none"]
       ELSE UNCHANGED host
    /\ UNCHANGED <<pi, watch>>

CursorTimesOut ==
    host.step = "settled" /\ Fail("complete") /\ UNCHANGED <<pi, wire, lagged, watch>>

PiNext ==
    \/ \E c \in Control \cup {"prompt", "cursor"}, success \in BOOLEAN : PiAnswers(c, success)
    \/ PiStarts \/ PiSettles \/ PiBreaks
    \/ \E c \in Chunk : PiStreams(c)
    \/ \E text \in {pi.text, NoText}, reason \in {"stop", "toolUse", "error"} : PiEnds(text, reason)
    \/ \E type \in {"compaction_start", "compaction_end"} : PiCompacts(type)
    \/ Configure \/ HearControl \/ Relaunch \/ ControlTimesOut
    \/ \E counts \in BOOLEAN : Hear(counts)
    \/ Tick \/ Elapse \/ HearCursor \/ CursorTimesOut
-----------------------------------------------------------------------------
\* A turn is complete only with all that Pi said in the end and nothing else,
\* as it was streamed to the user, although the channel forgets and Pi may not
\* keep to its own stream (pi_response.rs:55, chat_runtime.rs:76) ...
AnswerIsWhatPiSaid ==
    host.step \in {"settled", "complete"} =>
        /\ pi.settled /\ pi.last = "stop"
        /\ host.content = pi.said /\ host.drafts = pi.said

\* ... it was prompted on the session that the host believes it has ...
PromptedAsResumed ==
    host.step = "loop" /\ ~pi.settled =>
        pi.entries = IF host.resume = "warm" THEN "sealed" ELSE "none"

\* ... and the watchdog ends no turn that has made progress but behind more
\* events than it reads, and keeps none that has not, whatever else Pi does
\* meanwhile (chat_runtime.rs:857).
WatchdogIsFair ==
    /\ host.step = "timed_out" => ~pi.body \/ watch.deferred >= Deferrals
    /\ watch.late <= Deferrals + 1

TurnFollowsPi == AnswerIsWhatPiSaid /\ PromptedAsResumed /\ WatchdogIsFair
=============================================================================
