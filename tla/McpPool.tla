------------------------------- MODULE McpPool -------------------------------
(***************************************************************************)
(* The processes of one bundled MCP server: spawned or taken from the pool *)
(* by a tool call of a Chat turn, shared by the calls of that turn, reset  *)
(* in the background when it is over, and kept idle for a later turn of    *)
(* the same Guru and authority (mcp_pool.rs, mcp.rs and                    *)
(* commands/tool_executor/mcp_host.rs).                                    *)
(*                                                                         *)
(* The process is an external program that handles requests concurrently.  *)
(* A call that nobody waits for any more may still take effect; that it    *)
(* does so before a later turn lists the tools is assumed.                 *)
(***************************************************************************)
EXTENDS Naturals, SequencesExt

CONSTANTS
    Proc,       \* processes
    Turns,      \* bound on the Chat turns
    Keys,       \* Gurus and authorities (McpPoolKey)
    Tasks,      \* bound on the tool calls that run at once
    MaxIdle,    \* DEFAULT_MAX_IDLE
    MaxCalls,   \* bound on tool calls
    MaxFaults   \* bound on errors, exits, timeouts and aborts

ASSUME BoundsAssumption ==
    {Turns, Keys, MaxIdle} \subseteq Nat \ {0} /\ {Tasks, MaxCalls, MaxFaults} \subseteq Nat

VARIABLES
    proc,     \* each process, and what the host knows of it (TurnMcpServer)
    idle,     \* the pool, oldest first
    auth,     \* the authority that each turn resolves
    slot,     \* McpTurnSessions.by_server: the process whose cell is published
    turn,     \* "new", "open", "draining" (close_and_take_all has run) or "over"
    drain,    \* the cell that the ended turn has still to empty
    guard,    \* the handler that holds the lock of a process's cell
    task,     \* each handler
    dropped,  \* history: processes whose refresh was dropped half way
    calls, faults

vars == <<proc, idle, auth, slot, turn, drain, guard, task, dropped, calls, faults>>

\* Turns in the order in which they begin; each resolves an authority.
Turn == 1 .. Turns
Key  == 1 .. Keys

\* The broker's tasks: a new call is given the first one that is free.
Handler == 1 .. Tasks

None == "none"
ASSUME NoProcess == None \notin Proc
Nobody == 0   \* no handler, no turn
In(t) == <<"turn", t>>     \* in the cell of turn t
By(h) == <<"hand", h>>     \* owned by a handler, unpublished
Quarantine == <<"quarantine">>
Unused == <<"unused">>
Idle   == <<"idle">>
Gone   == <<"gone">>

\* tools, view and answer say whose activations are in effect: in the process,
\* in the host's last inventory, and in a tools/list answer.
NewProc ==
    [at |-> Unused, key |-> 0, up |-> FALSE, tools |-> {}, view |-> {},
     changed |-> FALSE, note |-> FALSE, late |-> {}, list |-> "no", answer |-> {},
     phase |-> None]

Rest == [pc |-> "free", turn |-> Nobody, op |-> None, proc |-> None,
         again |-> FALSE, pooled |-> FALSE, post |-> FALSE]

Init ==
    /\ proc = [p \in Proc |-> NewProc]
    /\ idle = <<>> /\ auth \in {a \in [Turn -> Key] : a[1] = 1}
    /\ slot = [t \in Turn |-> None] /\ drain = [t \in Turn |-> None]
    /\ turn = [t \in Turn |-> "new"] /\ guard = [p \in Proc |-> Nobody]
    /\ task = [h \in Handler |-> Rest]
    /\ dropped = {} /\ calls = 0 /\ faults = 0

Fault == faults < MaxFaults /\ faults' = faults + 1
Quiet == faults' = faults

ended == <<turn, drain>>

\* Assignments to a handler, and the end of its call.
Go(h, to) == task' = [task EXCEPT ![h].pc = to]
Done(h)   == task' = [task EXCEPT ![h] = Rest]
Unlock(p) == guard' = [guard EXCEPT ![p] = Nobody]

\* The cell's process, if it was not taken out.
Full(t, p) == proc[p].at = In(t)

\* McpSession::list_tools begins: what the process answers is asked for.
Ask(p) == proc' = [proc EXCEPT ![p].list = "sent"]

\* TurnMcpServer::discard, and Drop: the process is terminated and reaped.
Discard(p) == proc' = [proc EXCEPT ![p].at = Gone, ![p].up = FALSE, ![p].list = "no"]
-----------------------------------------------------------------------------
\* The process: it answers, exits, tells of changed tools (the reader sets the
\* flag, in the order of the output), and finishes what was abandoned.
Answer(p) ==
    /\ proc[p].up /\ proc[p].list = "sent"
    /\ proc' = [proc EXCEPT ![p].list = "got", ![p].answer = proc[p].tools,
                            ![p].changed = @ \/ proc[p].note, ![p].note = FALSE]
    /\ UNCHANGED <<idle, auth, slot, ended, guard, task, dropped, calls, faults>>

Exit(p) ==
    /\ proc[p].up /\ Fault
    /\ proc' = [proc EXCEPT ![p].up = FALSE]
    /\ UNCHANGED <<idle, auth, slot, ended, guard, task, dropped, calls>>

Notify(p) ==
    /\ proc[p].note
    /\ proc' = [proc EXCEPT ![p].note = FALSE, ![p].changed = TRUE]
    /\ UNCHANGED <<idle, auth, slot, ended, guard, task, dropped, calls, faults>>

Late(p) ==
    /\ \E t \in proc[p].late :
         \/ /\ proc[p].up /\ proc[p].at \in {In(t), Quarantine, Idle}
            /\ proc' = [proc EXCEPT ![p].late = @ \ {t}, ![p].tools = @ \cup {t}, ![p].note = TRUE]
         \/ proc' = [proc EXCEPT ![p].late = @ \ {t}]
    /\ UNCHANGED <<idle, auth, slot, ended, guard, task, dropped, calls, faults>>
-----------------------------------------------------------------------------
\* A tool call of an open turn: mcp_connect, or mcp_call of a control tool or
\* of a tool that was activated.
Begin(h, t) ==
    /\ task[h].pc = "free" /\ \A g \in 1 .. h - 1 : task[g].pc # "free"
    /\ turn[t] \in {"new", "open"} /\ \A u \in 1 .. t - 1 : turn[u] # "new"
    /\ turn' = [turn EXCEPT ![t] = "open"]
    /\ calls < MaxCalls /\ calls' = calls + 1
    /\ \E o \in {"connect", "control", "use"} :
         task' = [task EXCEPT ![h] = [Rest EXCEPT !.pc = "get", !.turn = t, !.op = o]]
    /\ UNCHANGED <<proc, idle, auth, slot, drain, guard, dropped, faults>>

\* Connecting goes on without a process: the authority is resolved and the map
\* looked at again, and then the pool.
NotConnected(h) ==
    task' = [task EXCEPT ![h].pc = IF task[h].again THEN "acquire" ELSE "get",
                         ![h].again = TRUE]

\* mcp_session
Get(h) ==
    /\ task[h].pc = "get"
    /\ LET p == slot[task[h].turn] IN
         \/ p # None /\ task' = [task EXCEPT ![h].pc = "lock", ![h].proc = p]
         \/ p = None /\ task[h].op = "connect" /\ NotConnected(h)
         \/ p = None /\ task[h].op # "connect" /\ Done(h)
    /\ UNCHANGED <<proc, idle, auth, slot, ended, guard, dropped, calls, faults>>

Lock(h) ==
    /\ task[h].pc = "lock"
    /\ LET p == task[h].proc IN
         /\ guard[p] = Nobody
         /\ IF Full(task[h].turn, p)
            THEN guard' = [guard EXCEPT ![p] = h] /\ Go(h, "check")
            ELSE UNCHANGED guard /\ Go(h, "unpublish")
    /\ UNCHANGED <<proc, idle, auth, slot, ended, dropped, calls, faults>>

\* remove_if_current, when the cell is empty: another call has discarded its
\* process, or this one has.
Unpublish(h) ==
    /\ task[h].pc \in {"unpublish", "unpublish_end"}
    /\ LET t == task[h].turn IN
         slot' = [slot EXCEPT ![t] = IF @ = task[h].proc THEN None ELSE @]
    /\ IF task[h].pc = "unpublish" /\ task[h].op = "connect" THEN NotConnected(h) ELSE Done(h)
    /\ UNCHANGED <<proc, idle, auth, ended, guard, dropped, calls, faults>>

\* The cell is emptied and unlocked, its process discarded.
Take(h, to) == Discard(task[h].proc) /\ Unlock(task[h].proc) /\ Go(h, to)

\* Connecting ends with the inventory that it has; a call is sent, if it is of a
\* tool that the inventory has.
GoOn(h, inventory) ==
    IF task[h].op = "connect" \/ task[h].post \/ (task[h].op = "use" /\ inventory = {})
    THEN Done(h) /\ Unlock(task[h].proc)
    ELSE Go(h, "wait") /\ UNCHANGED guard

\* The lock is held: is the process running, and have its tools changed?  The
\* flag is taken before the tools are listed.
Check(h) ==
    /\ task[h].pc = "check"
    /\ LET p == task[h].proc IN
         \/ ~proc[p].up /\ Take(h, "unpublish") /\ Quiet
         \/ Fault /\ Take(h, "unpublish_end")
         \/ /\ proc[p].up /\ Quiet /\ proc[p].changed /\ Go(h, "list") /\ UNCHANGED guard
            /\ proc' = [proc EXCEPT ![p].changed = FALSE, ![p].list = "sent"]
         \/ /\ proc[p].up /\ Quiet /\ ~proc[p].changed /\ UNCHANGED proc
            /\ GoOn(h, proc[p].view)
    /\ UNCHANGED <<idle, auth, slot, ended, dropped, calls>>

\* The list has come, or the process has exited or failed.
ListFails(h) == ((~proc[task[h].proc].up /\ Quiet) \/ Fault) /\ Take(h, "unpublish_end")

\* Slip: the flag is taken after the tools were listed.
ListedThenTaken(h) ==
    /\ task[h].pc = "list"
    /\ LET p == task[h].proc IN
         \/ /\ proc[p].list = "got" /\ Quiet
            /\ proc' = [proc EXCEPT ![p].view = proc[p].answer, ![p].list = "no", ![p].changed = FALSE]
            /\ GoOn(h, proc[p].answer)
         \/ ListFails(h)
    /\ UNCHANGED <<idle, auth, slot, ended, dropped, calls>>

\* refresh_inventory
Listed(h) ==
    /\ task[h].pc = "list"
    /\ LET p == task[h].proc IN
         \/ /\ proc[p].list = "got" /\ Quiet
            /\ proc' = [proc EXCEPT ![p].view = proc[p].answer, ![p].list = "no"]
            /\ GoOn(h, proc[p].answer)
         \/ ListFails(h)
    /\ UNCHANGED <<idle, auth, slot, ended, dropped, calls>>

\* The process serves it: a control tool activates or deactivates others.
Serve(h) ==
    /\ task[h].pc = "wait" /\ proc[task[h].proc].up
    /\ LET p == task[h].proc  t == task[h].turn IN
         IF task[h].op = "control"
         THEN \E s \in {proc[p].tools \cup {t}, {}} :
                proc' = [proc EXCEPT ![p].tools = s, ![p].note = TRUE]
         ELSE UNCHANGED proc
    /\ Go(h, "back")
    /\ UNCHANGED <<idle, auth, slot, ended, guard, dropped, calls, faults>>

\* Its answer is checked, or is an error of the tool; the inventory is read
\* again after a control tool, and when the process has said that it changed.
Back(h) ==
    /\ task[h].pc = "back"
    /\ LET p == task[h].proc IN
         \/ Fault /\ Take(h, "unpublish_end")
         \/ Fault /\ Done(h) /\ Unlock(p) /\ UNCHANGED proc
         \/ /\ task[h].op = "control" \/ proc[p].changed
            /\ proc' = [proc EXCEPT ![p].changed = FALSE, ![p].list = "sent"]
            /\ task' = [task EXCEPT ![h].pc = "list", ![h].post = TRUE]
            /\ UNCHANGED guard /\ Quiet
         \/ /\ task[h].op # "control" /\ ~proc[p].changed
            /\ Done(h) /\ Unlock(p) /\ UNCHANGED proc /\ Quiet
    /\ UNCHANGED <<idle, auth, slot, ended, dropped, calls>>

\* No answer: within 45 seconds, which leaves the process in place and the
\* request cancelled; or never, since the process has exited.
CallFails(h) ==
    /\ task[h].pc = "wait"
    /\ LET p == task[h].proc  t == task[h].turn IN
         \/ /\ Fault /\ Done(h) /\ Unlock(p)
            /\ proc' = [proc EXCEPT ![p].late = IF task[h].op = "control" THEN @ \cup {t} ELSE @]
         \/ ~proc[p].up /\ Take(h, "unpublish_end") /\ Quiet
    /\ UNCHANGED <<idle, auth, slot, ended, dropped, calls>>
-----------------------------------------------------------------------------
\* take_expired: the oldest n have been idle for too long.
Expired(n) == {idle[i] : i \in 1 .. n}
Fresh(n)   == SubSeq(idle, n + 1, Len(idle))
GoneFrom(f, ps) == [p \in Proc |-> IF p \in ps THEN [f[p] EXCEPT !.at = Gone, !.up = FALSE] ELSE f[p]]

\* McpProcessPool::acquire: the oldest of exactly this key.
Acquire(h) ==
    /\ task[h].pc = "acquire"
    /\ \E n \in 0 .. Len(idle) :
         LET rest  == Fresh(n)
             match == {i \in DOMAIN rest : proc[rest[i]].key = auth[task[h].turn]}
             kept  == GoneFrom(proc, Expired(n))
         IN IF match = {}
            THEN proc' = kept /\ idle' = rest /\ Go(h, "spawn")
            ELSE LET i == CHOOSE i \in match : \A j \in match : i <= j IN
                 /\ proc' = [kept EXCEPT ![rest[i]].at = By(h)]
                 /\ idle' = RemoveAt(rest, i)
                 /\ task' = [task EXCEPT ![h].pc = "prepare", ![h].proc = rest[i], ![h].pooled = TRUE]
    /\ UNCHANGED <<auth, slot, ended, guard, dropped, calls, faults>>

\* prepare_acquired_session: it runs, and lists the control tools alone.
Prepare(h) ==
    /\ task[h].pc = "prepare"
    /\ LET p == task[h].proc IN
         IF proc[p].up THEN Ask(p) /\ Go(h, "prepared") ELSE Discard(p) /\ Go(h, "spawn")
    /\ UNCHANGED <<idle, auth, slot, ended, guard, dropped, calls, faults>>

\* Slip: the reset is relied on.
PreparedAnyway(h) ==
    /\ task[h].pc = "prepared"
    /\ LET p == task[h].proc IN
         \/ /\ proc[p].list = "got" /\ Quiet
            /\ proc' = [proc EXCEPT ![p].view = proc[p].answer, ![p].list = "no"] /\ Go(h, "install")
         \/ ((~proc[p].up /\ Quiet) \/ Fault) /\ Discard(p) /\ Go(h, "spawn")
    /\ UNCHANGED <<idle, auth, slot, ended, guard, dropped, calls>>

Prepared(h) ==
    /\ task[h].pc = "prepared"
    /\ LET p == task[h].proc IN
         \/ /\ proc[p].list = "got" /\ proc[p].answer = {} /\ Quiet
            /\ proc' = [proc EXCEPT ![p].view = {}, ![p].list = "no"] /\ Go(h, "install")
         \/ /\ (proc[p].list = "got" /\ proc[p].answer # {}) \/ ~proc[p].up
            /\ Quiet /\ Discard(p) /\ Go(h, "spawn")
         \/ Fault /\ Discard(p) /\ Go(h, "spawn")
    /\ UNCHANGED <<idle, auth, slot, ended, guard, dropped, calls>>

\* McpSession::spawn, and the check of what the process first lists.
Spawn(h) ==
    /\ task[h].pc = "spawn"
    /\ \/ /\ \E p \in Proc :
               /\ proc[p].at = Unused
               /\ proc' = [proc EXCEPT ![p].at = By(h), ![p].key = auth[task[h].turn], ![p].up = TRUE]
               /\ task' = [task EXCEPT ![h].pc = "install", ![h].proc = p, ![h].pooled = FALSE]
          /\ Quiet
       \/ Done(h) /\ UNCHANGED proc /\ Fault
       \/ (\A p \in Proc : proc[p].at # Unused) /\ Done(h) /\ UNCHANGED proc /\ Quiet
    /\ UNCHANGED <<idle, auth, slot, ended, guard, dropped, calls>>

\* Slip: the map takes processes although the turn is over.
InstallLate(h) ==
    /\ task[h].pc = "install"
    /\ LET t == task[h].turn  p == task[h].proc IN
         \/ /\ slot[t] = None /\ Done(h)
            /\ slot' = [slot EXCEPT ![t] = p] /\ proc' = [proc EXCEPT ![p].at = In(t)]
         \/ slot[t] # None /\ Go(h, "occupied") /\ UNCHANGED <<proc, slot>>
    /\ UNCHANGED <<idle, auth, ended, guard, dropped, calls, faults>>

\* install_mcp_session: one process for a turn, and none when it has stopped.
Install(h) ==
    /\ task[h].pc = "install"
    /\ LET t == task[h].turn  p == task[h].proc IN
         \/ turn[t] # "open" /\ Discard(p) /\ Done(h) /\ UNCHANGED slot
         \/ /\ turn[t] = "open" /\ slot[t] = None /\ Done(h)
            /\ slot' = [slot EXCEPT ![t] = p] /\ proc' = [proc EXCEPT ![p].at = In(t)]
         \/ turn[t] = "open" /\ slot[t] # None /\ Go(h, "occupied") /\ UNCHANGED <<proc, slot>>
    /\ UNCHANGED <<idle, auth, ended, guard, dropped, calls, faults>>

\* Another call was faster: its process is used, and this one is reset for the
\* pool or discarded; unless the other's cell is empty by now.
Occupied(h) ==
    /\ task[h].pc = "occupied"
    /\ LET t == task[h].turn  p == task[h].proc  q == slot[t] IN
         \/ q = None /\ Go(h, "install") /\ UNCHANGED <<proc, slot>>
         \/ /\ q # None /\ guard[q] = Nobody /\ Full(t, q) /\ UNCHANGED slot
            /\ IF task[h].pooled
               THEN proc' = [proc EXCEPT ![p].at = Quarantine, ![p].phase = "check"] /\ Go(h, "release")
               ELSE Discard(p) /\ Done(h)
         \/ /\ q # None /\ guard[q] = Nobody /\ ~Full(t, q)
            /\ slot' = [slot EXCEPT ![t] = None] /\ Go(h, "install") /\ UNCHANGED proc
    /\ UNCHANGED <<idle, auth, ended, guard, dropped, calls, faults>>

Released(h) ==
    /\ task[h].pc = "release" /\ proc[task[h].proc].at # Quarantine /\ Done(h)
    /\ UNCHANGED <<proc, idle, auth, slot, ended, guard, dropped, calls, faults>>

\* The agent disconnects, or the broker shuts down: the future is dropped where
\* it waits.  What it owns is reaped, what it has locked stays in its cell.
Abort(h) ==
    /\ task[h].pc # "free" /\ Done(h)
    /\ IF turn[task[h].turn] = "open" THEN Fault ELSE Quiet
    /\ LET p == task[h].proc  c == task[h].pc IN
         IF p = None THEN UNCHANGED <<proc, guard, dropped>>
         ELSE /\ guard' = [guard EXCEPT ![p] = IF @ = h THEN Nobody ELSE @]
              /\ dropped' = IF c = "list" THEN dropped \cup {p} ELSE dropped
              /\ IF proc[p].at = By(h) \/ (c = "release" /\ proc[p].at = Quarantine)
                 THEN Discard(p)
                 ELSE proc' = [proc EXCEPT
                        ![p].list = IF c = "list" THEN "no" ELSE @,
                        ![p].late = IF c = "wait" /\ task[h].op = "control" THEN @ \cup {task[h].turn} ELSE @]
    /\ UNCHANGED <<idle, auth, slot, ended, calls>>
-----------------------------------------------------------------------------
\* shutdown_mcp: the map is closed and emptied, then each cell, once its lock
\* is free; what was in it is reset in the background.
EndTurn(t) ==
    /\ turn[t] = "open" /\ turn' = [turn EXCEPT ![t] = "draining"]
    /\ drain' = [drain EXCEPT ![t] = slot[t]] /\ slot' = [slot EXCEPT ![t] = None]
    /\ UNCHANGED <<proc, idle, auth, guard, task, dropped, calls, faults>>

Drain(t) ==
    /\ turn[t] = "draining" /\ turn' = [turn EXCEPT ![t] = "over"]
    /\ drain' = [drain EXCEPT ![t] = None]
    /\ LET p == drain[t] IN
         \/ p = None /\ UNCHANGED proc
         \/ p # None /\ guard[p] = Nobody /\ ~Full(t, p) /\ UNCHANGED proc
         \/ /\ p # None /\ guard[p] = Nobody /\ Full(t, p)
            /\ proc' = [proc EXCEPT ![p].at = Quarantine, ![p].phase = "check"]
    /\ UNCHANGED <<idle, auth, slot, guard, task, dropped, calls, faults>>

\* reset_to_control_surface: list, deactivate what is not a control tool, list
\* again, forget that anything changed.
Reset(p) ==
    /\ proc[p].at = Quarantine
    /\ \/ /\ proc[p].phase = "check" /\ proc[p].up /\ Quiet
          /\ proc' = [proc EXCEPT ![p].list = "sent", ![p].phase = "first"]
       \/ /\ proc[p].phase = "first" /\ proc[p].list = "got" /\ Quiet
          /\ \/ proc[p].answer = {} /\ proc' = [proc EXCEPT ![p].list = "sent", ![p].phase = "second"]
             \/ proc[p].answer # {} /\ proc' = [proc EXCEPT ![p].list = "no", ![p].phase = "deactivate"]
       \/ /\ proc[p].phase = "deactivate" /\ proc[p].up /\ Quiet
          /\ proc' = [proc EXCEPT ![p].tools = @ \ proc[p].answer, ![p].note = TRUE,
                                  ![p].list = "sent", ![p].phase = "second"]
       \/ /\ proc[p].phase = "second" /\ proc[p].list = "got" /\ proc[p].answer = {} /\ Quiet
          /\ proc' = [proc EXCEPT ![p].view = {}, ![p].changed = FALSE,
                                  ![p].list = "no", ![p].phase = "enter"]
       \/ /\ proc[p].phase = "second" /\ proc[p].list = "got" /\ proc[p].answer # {} /\ Quiet
          /\ Discard(p)
       \/ proc[p].phase # "enter" /\ ~proc[p].up /\ Discard(p) /\ Quiet
       \/ proc[p].phase # "enter" /\ Discard(p) /\ Fault
    /\ UNCHANGED <<idle, auth, slot, ended, guard, task, dropped, calls>>

\* McpProcessPool::release: the expired and the oldest make room.
Enter(p) ==
    /\ proc[p].at = Quarantine /\ proc[p].phase = "enter"
    /\ \E n \in 0 .. Len(idle) :
         LET rest == Fresh(n)
             over == IF Len(rest) >= MaxIdle THEN Len(rest) - MaxIdle + 1 ELSE 0
         IN /\ idle' = Append(Fresh(n + over), p)
            /\ proc' = [GoneFrom(proc, Expired(n + over)) EXCEPT ![p].at = Idle, ![p].phase = None]
    /\ UNCHANGED <<auth, slot, ended, guard, task, dropped, calls, faults>>
-----------------------------------------------------------------------------
Step(h) ==
    \/ Get(h) \/ Lock(h) \/ Unpublish(h) \/ Check(h) \/ Listed(h) \/ Back(h) \/ CallFails(h)
    \/ Acquire(h) \/ Prepare(h) \/ Prepared(h) \/ Spawn(h) \/ Install(h) \/ Occupied(h) \/ Released(h)

Process(p) == Answer(p) \/ Notify(p) \/ Late(p) \/ Exit(p)

Next ==
    \/ \E h \in Handler : Step(h) \/ Serve(h) \/ Abort(h) \/ \E t \in Turn : Begin(h, t)
    \/ \E p \in Proc : Process(p) \/ Reset(p) \/ Enter(p)
    \/ \E t \in Turn : EndTurn(t) \/ Drain(t)

Spec == Init /\ [][Next]_vars

\* Tasks are scheduled; every request to a process is answered or times out;
\* the broker aborts what an ended turn has left.
FairSpec ==
    /\ Spec
    /\ \A h \in Handler :
         /\ WF_vars(Step(h) \/ Serve(h))
         /\ WF_vars(task[h].pc # "free" /\ turn[task[h].turn] # "open" /\ Abort(h))
    /\ \A p \in Proc : WF_vars(Answer(p)) /\ WF_vars(Reset(p)) /\ WF_vars(Enter(p))
    /\ \A t \in Turn : WF_vars(Drain(t))
-----------------------------------------------------------------------------
\* "Before reuse the host resets the process to its admin-only control surface
\* so activation does not leak across turns" (docs/architecture.md): a turn's
\* process was started for its Guru and authority, and has, as far as the host
\* and the process are concerned, only the tools that this turn activated.
TurnsAreIsolated ==
    \A t \in Turn, p \in Proc : Full(t, p) =>
        proc[p].key = auth[t] /\ proc[p].tools \cup proc[p].view \subseteq {t}

\* No change of the tools is missed: whenever the cell is free, the inventory is
\* what the process has, or the next call will read it again.  (A refresh that
\* the agent's disconnect drops half way has taken the flag for nothing.)
InventoryIsCurrent ==
    \A t \in Turn, p \in Proc :
        Full(t, p) /\ guard[p] = Nobody /\ proc[p].up /\ p \notin dropped =>
            proc[p].tools = proc[p].view \/ proc[p].changed \/ proc[p].note

\* Both: the tools that the agent is shown are those of its turn, as they are.
ToolsAreTheTurns == TurnsAreIsolated /\ InventoryIsCurrent

\* Once a turn is over, each process that it or one of its calls still has,
\* whatever the call was doing, becomes idle or is discarded.
Over(t) == turn[t] \in {"draining", "over"}
EndedTurnsLetGo ==
    \A p \in Proc :
        (\E t \in Turn : Over(t) /\ (Full(t, p) \/ \E h \in Handler : task[h].turn = t /\ proc[p].at = By(h)))
            ~> proc[p].at \in {Idle, Gone}
=============================================================================
