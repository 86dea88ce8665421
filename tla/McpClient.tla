------------------------------ MODULE McpClient ------------------------------
(***************************************************************************)
(* One stdio session with an MCP server (mcp.rs): requests that are told   *)
(* apart by their ids, a reader that gives out the answers, cancellations  *)
(* of calls that the broker dropped or that took too long, the inventory   *)
(* read page by page, and the end of the server's process group.           *)
(*                                                                         *)
(* The lock of the session's cell (McpPool) lets one call at a time run;   *)
(* what a dropped one leaves behind runs beside the next.  The server is   *)
(* external: it answers what it likes when it likes, and may send what no  *)
(* server should, ignore its signals or exit.                              *)
(***************************************************************************)
EXTENDS Naturals, SequencesExt

CONSTANTS
    Tool,          \* 1 .. n: the server lists its tools in this order
    MaxCalls,      \* bound on the requests
    MaxToolPages,  \* MAX_TOOL_LIST_PAGES
    MaxChanges,    \* bound on the changes of the server's tools and its pings
    MaxTrouble     \* bound on failures, drops and protocol errors

VARIABLES
    request,    \* each request: where its future is
    result,     \* the answer it was given: <<kind, the request it answers>>
    slots,      \* the pending map: requests whose answer is waited for
    cancels,    \* dropped requests whose clean-up task has not run
    live,       \* the request that holds the cell, 0 when there is none
    listing,    \* list_tools: its pages so far, or None
    inventory,  \* what the last complete list had
    changed,    \* tools_changed
    lost,       \* history: a list was dropped after it had taken the flag
    reader,     \* "reads", "pongs" (answers a ping) or "over"
    buffer,     \* requests written and not flushed, and whether half a frame is
    out,        \* frames on their way from the server
    tools,      \* the server's tools
    open,       \* requests that the server has and has not answered
    alive,      \* some process of the server's group runs
    stop,       \* shutdown: "no", "grace", "term", "kill", "drop" or "over"
    lease,      \* the record of the process group is on disk
    changes, trouble

caller == <<request, result, slots, cancels, live>>
lists  == <<listing, inventory, changed, lost>>
pipe   == <<buffer, open>>
server == <<tools, out>>
end    == <<alive, stop, lease>>
client == <<caller, lists, reader, pipe, server, end, changes, trouble>>

None == 0
Id   == 1 .. MaxCalls
Junk == 0     \* a line that is not a frame
NoAnswer == [kind |-> "none", of |-> None]

McpClientInit ==
    /\ request = [i \in Id |-> "new"] /\ result = [i \in Id |-> NoAnswer]
    /\ slots = {} /\ cancels = {} /\ live = None
    /\ listing = <<>> /\ tools = Tool /\ changed \in BOOLEAN
    /\ inventory = IF changed THEN {} ELSE Tool
    /\ lost = FALSE /\ reader = "reads"
    /\ buffer = [held |-> {}, torn |-> FALSE] /\ out = <<>> /\ open = {}
    /\ alive = TRUE /\ stop = "no" /\ lease = TRUE
    /\ changes = 0 /\ trouble = 0

Trouble == trouble < MaxTrouble /\ trouble' = trouble + 1
Fine    == trouble' = trouble
-----------------------------------------------------------------------------
\* write_bytes, of a request ({i}) or a notification ({}): all of it and a
\* flush; or an error or the deadline, before the lock was free, before the
\* flush, or in the middle of a frame.  What follows half a frame is lost in it.
\* A notification changes nothing that the server could not do without it.
Behind(frame) == IF buffer.torn THEN {} ELSE frame
Sent(frame) ==
    /\ open' = open \cup buffer.held \cup (IF buffer.torn THEN {Junk} ELSE frame)
    /\ buffer' = [held |-> {}, torn |-> FALSE]
WriteEnds(frame) ==
    /\ buffer' \in {buffer, [buffer EXCEPT !.held = @ \cup Behind(frame)],
                   [buffer EXCEPT !.torn = TRUE]}
    /\ UNCHANGED open
Notification == {}

\* A write may end for the session's reasons, or since nobody reads.
WriteFails(frame) == WriteEnds(frame) /\ (Trouble \/ (~alive /\ Fine))

\* One write of a session that may be closed.
Closed == stop \notin {"no", "grace"}
TriesToSend(frame) ==
    \/ ~Closed /\ Sent(frame) /\ Fine
    \/ ~Closed /\ WriteFails(frame)
    \/ Closed /\ Fine /\ UNCHANGED pipe
-----------------------------------------------------------------------------
\* McpSession::call: the next request takes its slot before it is written.
Requests(i) ==
    /\ request' = [request EXCEPT ![i] = "writes"]
    /\ slots' = slots \cup {i} /\ live' = i /\ UNCHANGED <<result, cancels>>
Unasked == {i \in Id : request[i] = "new"}
Fresh(i) == i \in Unasked /\ \A j \in Unasked : i <= j

\* The host sees to it that the reader and the process run (is_running), and
\* begins a tool call or, having taken the flag, a list.
Running == reader # "over" /\ alive
NoList == listing = <<>>

BeginCall(i) ==
    /\ live = None /\ stop = "no" /\ Running /\ ~changed /\ Fresh(i) /\ Requests(i)
    /\ UNCHANGED <<lists, reader, pipe, server, end, changes, trouble>>

BeginList(i) ==
    /\ live = None /\ stop = "no" /\ Running /\ changed
    /\ Fresh(i) /\ i + MaxToolPages - 1 <= MaxCalls /\ Requests(i)
    /\ changed' = FALSE
    /\ listing' = <<[last |-> None, seen |-> {}, tools |-> {}, pages |-> 1]>>
    /\ UNCHANGED <<inventory, lost, reader, pipe, server, end, changes, trouble>>

\* The call is over for its caller, and the host may discard the session: it
\* does when a list was not completed, unless the broker dropped that.
Keep    == {stop}
Discard == {"grace"}
Returns(i, then) ==
    /\ request' = [request EXCEPT ![i] = "over"] /\ live' = None /\ listing' = <<>>
    /\ stop' \in then /\ UNCHANGED <<alive, lease>>
CallKeeps(then) == IF NoList THEN then ELSE Discard

Write(i) ==
    /\ request[i] = "writes"
    /\ \/ /\ Sent({i}) /\ Fine
          /\ request' = [request EXCEPT ![i] = "waits"]
          /\ UNCHANGED <<result, slots, cancels, live, listing, end>>
       \/ /\ WriteFails({i})
          /\ Returns(i, CallKeeps(Keep \cup Discard))     \* an I/O error, or too late
          /\ slots' = slots \ {i} /\ UNCHANGED <<result, cancels>>
    /\ UNCHANGED <<inventory, changed, lost, reader, server, changes>>

\* Slip: the reader answers as long as it runs.
TimeoutWhenOver(i) ==
    /\ request[i] = "waits" /\ result[i] = NoAnswer /\ reader = "over"
    /\ request' = [request EXCEPT ![i] = "cancels"] /\ slots' = slots \ {i}
    /\ UNCHANGED <<result, cancels, live, lists, reader, pipe, server, end, changes, trouble>>

\* No answer in time: the slot is given back, and the server is told.
Timeout(i) ==
    /\ request[i] = "waits" /\ result[i] = NoAnswer
    /\ request' = [request EXCEPT ![i] = "cancels"] /\ slots' = slots \ {i}
    /\ UNCHANGED <<result, cancels, live, lists, reader, pipe, server, end, changes, trouble>>

TellsServer(i) ==
    /\ request[i] = "cancels" /\ TriesToSend(Notification) /\ Returns(i, CallKeeps(Keep))
    /\ UNCHANGED <<result, slots, cancels, inventory, changed, lost, reader, server, changes>>

\* The agent disconnects, or list_tools runs out of its own time: the future is
\* dropped where it is, a write in the middle; its guard leaves a task behind.
DropWith(i, left) ==
    /\ request[i] \in {"writes", "waits", "cancels"} /\ Trouble
    /\ IF request[i] = "waits" THEN UNCHANGED pipe
       ELSE WriteEnds(IF request[i] = "writes" THEN {i} ELSE Notification)
    /\ cancels' = left /\ lost' = (lost \/ ~NoList)
    /\ Returns(i, IF NoList THEN Keep ELSE Keep \cup Discard)
    /\ UNCHANGED <<result, slots, inventory, changed, reader, server, changes>>

\* Slip: a dropped call is just gone.
DropOnly(i) == DropWith(i, cancels)
Drop(i)     == DropWith(i, cancels \cup {i})

\* PendingRequestCancellation
CleanUp(i) ==
    /\ i \in cancels /\ cancels' = cancels \ {i} /\ slots' = slots \ {i}
    /\ TriesToSend(Notification)
    /\ UNCHANGED <<request, result, live, lists, reader, server, end, changes>>
-----------------------------------------------------------------------------
Took(i) == [result EXCEPT ![i] = [kind |-> "taken", of |-> result[i].of]]

\* An answer was given.  A tool call ends with it; an error of the protocol
\* makes the host discard the session.
Answered(i) ==
    /\ request[i] = "waits" /\ result[i] # NoAnswer /\ NoList
    /\ request' = [request EXCEPT ![i] = "over"] /\ live' = None
    /\ stop' = IF result[i].kind = "broken" THEN "grace" ELSE stop
    /\ result' = Took(i)
    /\ UNCHANGED <<slots, cancels, lists, reader, pipe, server, alive, lease, changes, trouble>>

\* list_tools: a page is added, and the next one asked for by its cursor.
Grown(page, more) ==
    [last |-> more.next, seen |-> page.seen \cup {more.next},
     tools |-> page.tools \cup more.tools, pages |-> page.pages + 1]

\* A cursor that comes again, a tool that comes twice, or an empty page.
Acceptable(page, more) ==
    /\ more.next \notin page.seen
    /\ more.tools \cap page.tools = {}
    /\ more.tools = {} => more.next = None

Listed(i) ==
    /\ request[i] = "waits" /\ result[i].kind \in {"page", "value", "broken"} /\ ~NoList
    /\ LET page == listing[1]
           more == result[i]
           good == more.kind = "page" /\ Acceptable(page, more)
       IN
       \/ /\ ~good /\ Returns(i, Discard) /\ UNCHANGED <<slots, inventory>>
       \/ /\ good /\ more.next = None                 \* the last page
          /\ inventory' = page.tools \cup more.tools
          /\ request' = [request EXCEPT ![i] = "over"] /\ live' = None /\ listing' = <<>>
          /\ UNCHANGED <<slots, end>>
       \/ /\ good /\ more.next # None /\ page.pages < MaxToolPages
          /\ \E j \in Id :
               /\ Fresh(j) /\ live' = j /\ slots' = slots \cup {j}
               /\ request' = [request EXCEPT ![i] = "over", ![j] = "writes"]
          /\ listing' = <<Grown(page, more)>> /\ UNCHANGED <<inventory, end>>
       \/ /\ good /\ more.next # None /\ page.pages = MaxToolPages
          /\ Returns(i, Discard) /\ UNCHANGED <<slots, inventory>>
    /\ result' = Took(i)
    /\ UNCHANGED <<cancels, changed, lost, reader, pipe, server, changes, trouble>>
-----------------------------------------------------------------------------
\* fail_pending, before the reader ends.
FailAll ==
    /\ result' = [i \in Id |-> IF i \in slots THEN [kind |-> "broken", of |-> i] ELSE result[i]]
    /\ slots' = {} /\ reader' = "over"

\* Slip: an answer is for whoever waits.
TakesNext(told) ==
    /\ result' = [i \in Id |-> IF i \in slots THEN told ELSE result[i]]
    /\ slots' = {}

\* dispatch_frame, of an answer: it is for the request whose id it has.
Takes(told) ==
    /\ result' = [i \in Id |-> IF i = told.of /\ i \in slots THEN told ELSE result[i]]
    /\ slots' = slots \ {told.of}

Dispatch ==
    /\ reader = "reads" /\ out # <<>>
    /\ out' = Tail(out)
    /\ LET f == Head(out) IN
         \/ f.frame = "answer" /\ Takes(f.answer) /\ UNCHANGED <<reader, changed>>
         \/ f.frame = "changed" /\ changed' = TRUE /\ UNCHANGED <<reader, result, slots>>
         \/ f.frame = "ping" /\ reader' = "pongs" /\ UNCHANGED <<changed, result, slots>>
         \/ f.frame = "bad" /\ FailAll /\ UNCHANGED changed
    /\ UNCHANGED <<request, cancels, live, listing, inventory, lost, pipe, tools, end, changes, trouble>>

\* The pong is written by the reader, which reads nothing else until it is.
Pongs ==
    /\ reader = "pongs"
    /\ \/ Sent(Notification) /\ Fine /\ reader' = "reads" /\ UNCHANGED <<result, slots>>
       \/ WriteFails(Notification) /\ FailAll
    /\ UNCHANGED <<request, cancels, live, lists, server, end, changes>>

EndOfFile ==
    /\ reader = "reads" /\ out = <<>> /\ ~alive /\ FailAll
    /\ UNCHANGED <<request, cancels, live, lists, pipe, server, end, changes, trouble>>
-----------------------------------------------------------------------------
\* The server: it answers one of its requests, or what it took for one; changes
\* its tools and says so; asks whether it is heard; sends nonsense, or exits.
\* What it says to a session that is given up is nobody's.
Serving == alive /\ stop = "no"

\* A page has one tool, and the cursor of a page is the last tool before it.
NextPage(after) ==
    LET left == {t \in tools : t > after}
        t == CHOOSE t \in left : \A u \in left : t <= u
    IN IF left = {} THEN [tools |-> {}, next |-> None]
       ELSE [tools |-> {t}, next |-> IF left = {t} THEN None ELSE t]

Page(i, names, next) == [kind |-> "page", of |-> i, tools |-> names, next |-> next]

\* What it may answer; and what it should not: an empty page before
\* others, a page that repeats what it has listed or where it was.
Lists(i) == ~NoList /\ live = i
Answers(i) ==
    IF Lists(i)
    THEN LET p == NextPage(listing[1].last)
         IN {Page(i, p.tools, p.next)}
    ELSE {[kind |-> "value", of |-> i]}
WrongAnswers(i) ==
    {[kind |-> "broken", of |-> i]}
        \cup {Page(i, listing[k].tools, None) : k \in {k \in DOMAIN listing : listing[k].tools # {}}}
        \cup {Page(i, {}, t) : t \in Tool}
        \cup UNION {{Page(i, Tool \ listing[k].tools, t) : t \in listing[k].seen} : k \in DOMAIN listing}

Answer(i) ==
    /\ Serving /\ i \in open /\ open' = open \ {i}
    /\ \E a \in Answers(i) \cup WrongAnswers(i) :
         /\ out' = Append(out, [frame |-> "answer", answer |-> a])
         /\ IF a \in Answers(i) THEN Fine ELSE Trouble
    /\ UNCHANGED <<caller, lists, reader, buffer, tools, end, changes>>

Complain ==
    /\ Serving /\ Junk \in open /\ open' = open \ {Junk}
    /\ out' = Append(out, [frame |-> "bad"])
    /\ UNCHANGED <<caller, lists, reader, buffer, tools, end, changes, trouble>>

Speak ==
    /\ Serving
    /\ \/ /\ changes < MaxChanges /\ changes' = changes + 1 /\ Fine
          /\ \/ /\ tools' \in SUBSET Tool \ {tools}
                /\ out' = Append(out, [frame |-> "changed"])
             \/ out' = Append(out, [frame |-> "ping"]) /\ UNCHANGED tools
       \/ /\ Trouble /\ UNCHANGED <<changes, tools>>
          /\ out' = Append(out, [frame |-> "bad"])
    /\ UNCHANGED <<caller, lists, reader, pipe, end>>

Exit ==
    /\ alive /\ alive' = FALSE /\ Trouble
    /\ UNCHANGED <<caller, lists, reader, pipe, server, stop, lease, changes>>
-----------------------------------------------------------------------------
\* shutdown: the input is closed and a while waited; SIGTERM, and SIGKILL if
\* the group is still there; then the lease is completed.  The host begins it
\* at the end of the turn, or when the reader or the process has gone.
GiveUp ==
    /\ live = None /\ stop = "no" /\ stop' = "grace"
    /\ UNCHANGED <<caller, lists, reader, pipe, server, alive, lease, changes, trouble>>

\* Slip: the lease is completed once the signal is sent.
CompletedEarly == stop = "kill" /\ stop' = "over" /\ lease' = FALSE

\* What is left to the session's Drop keeps its lease until it is reaped.
Completed ==
    \/ stop \in {"term", "kill"} /\ ~alive /\ stop' = "over" /\ lease' = FALSE
    \/ stop = "kill" /\ alive /\ stop' = "drop" /\ UNCHANGED lease
    \/ stop = "drop" /\ ~alive /\ stop' = "over" /\ lease' = FALSE

Shutdown ==
    /\ \/ /\ stop = "grace" /\ stop' = "term" /\ UNCHANGED lease
          /\ alive' \in {alive, FALSE} /\ out' = <<>> /\ open' = {}
       \/ /\ stop = "term" /\ alive /\ stop' = "kill" /\ UNCHANGED <<lease, out, open>>
          /\ alive' \in BOOLEAN
       \/ Completed /\ UNCHANGED <<alive, out, open>>
    /\ reader' = IF stop' \in {"over", "drop"} THEN "over" ELSE reader
    /\ UNCHANGED <<caller, lists, buffer, tools, changes, trouble>>

\* A killed group is gone some time.
Reaped ==
    /\ stop \in {"kill", "drop"} /\ alive /\ alive' = FALSE
    /\ UNCHANGED <<caller, lists, reader, pipe, server, stop, lease, changes, trouble>>
-----------------------------------------------------------------------------
Caller ==
    \/ \E i \in Id : Write(i) \/ Timeout(i) \/ TellsServer(i) \/ Answered(i) \/ Listed(i)
Server == (\E i \in Id : Answer(i)) \/ Complain \/ Speak \/ Exit
Hearing == Dispatch \/ Pongs \/ EndOfFile

McpClientNext ==
    \/ \E i \in Id : BeginCall(i) \/ BeginList(i) \/ Drop(i) \/ CleanUp(i)
    \/ Caller \/ Hearing \/ Server \/ GiveUp \/ Shutdown \/ Reaped

\* Tasks are scheduled and their deadlines pass; the kernel reaps what it has
\* killed.  Nothing is assumed of the server.
McpClientFair ==
    WF_client(Caller) /\ WF_client(Shutdown) /\ WF_client(Reaped)
-----------------------------------------------------------------------------
\* What a request is answered with is what the server said to it, and it is
\* told once: a late answer to a dropped or cancelled request is nobody's.
OneAnswerEach ==
    \A i \in Id :
        /\ result[i] # NoAnswer => result[i].of = i
        /\ result'[i] # result[i] =>
             result[i] = NoAnswer \/ result'[i] = [kind |-> "taken", of |-> i]

\* "removes the orphaned response slot ... even when normal timeout handling
\* never runs" (mcp.rs:579): a slot is that of the call that runs or of one
\* whose clean-up is still to come.
NoOrphanedSlot == slots \subseteq {live} \cup cancels

\* Read page by page, while the server changes them, the tools of a completed
\* list are those the server has, or it is known that they are not.  (A dropped
\* list has taken the flag for nothing.)
Told == changed \/ \E k \in DOMAIN out : out[k].frame = "changed"
InventoryIsKnown ==
    live = None /\ stop = "no" /\ alive /\ reader # "over" /\ ~lost => inventory = tools \/ Told

\* The record by which the next start would find the process group stays until
\* the group is gone.
LeaseOutlivesGroup == alive => lease

OwnAnswers == OneAnswerEach /\ NoOrphanedSlot' /\ InventoryIsKnown' /\ LeaseOutlivesGroup'

\* Whatever the server does, a call returns and a session that was given up
\* gives up its processes.
CallsReturn ==
    /\ live # None ~> live = None
    /\ stop = "grace" ~> stop = "over"
=============================================================================
