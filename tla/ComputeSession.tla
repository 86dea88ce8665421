---------------------------- MODULE ComputeSession ----------------------------
(***************************************************************************)
(* One language's compute host of a turn (compute.rs): started by the      *)
(* first cell that needs it, kept for the next ones while it has their     *)
(* packages, and thrown away whenever a cell's exchange with it does not   *)
(* come to its end.  The tool broker runs the cells of a turn concurrently *)
(* and drops their futures at any await; the host (compute/*.mjs) answers  *)
(* one line for each run line, in order.                                   *)
(***************************************************************************)
EXTENDS Integers, Sequences, FiniteSets

CONSTANTS
    Cell,          \* compute calls of the turn
    Packages(_),   \* the packages each call asks for
    MaxHosts       \* bound: processes started

VARIABLES
    cells,     \* the state of each call: its step, the host it holds, its answer
    worker,    \* LanguageWorker: the host it keeps, 0 for none, and package_key
    asked,     \* run lines each host has not answered
    answers,   \* result lines of each host that nobody has read
    processes, \* hosts that run
    spawned,   \* hosts started so far
    ended      \* the turn's session is shut down

compute == <<cells, worker, asked, answers, processes, spawned, ended>>

Waiting == {"idle", "waits", "answered", "refused"}
NoCell  == [step |-> "idle", host |-> 0, answer |-> {}]

ComputeInit ==
    /\ cells = [c \in Cell |-> NoCell]
    /\ worker = [host |-> 0, packages |-> {}]
    /\ asked = [h \in 1..MaxHosts |-> <<>>] /\ answers = [h \in 1..MaxHosts |-> <<>>]
    /\ processes = {} /\ spawned = 0 /\ ended = FALSE

At(c, step) == cells[c].step = step
Locked == \E c \in Cell : cells[c].step \notin Waiting

To(c, step, host) == cells' = [cells EXCEPT ![c].step = step, ![c].host = host]

\* Dropping a RetainedHost kills its process group.
Kill(hosts) == processes' = processes \ hosts
NoHost == [host |-> 0, packages |-> {}]
-----------------------------------------------------------------------------
\* run: the call waits for the language's lock.
Ask(c) ==
    /\ At(c, "idle") /\ ~ended
    /\ To(c, "waits", 0) /\ UNCHANGED <<worker, asked, answers, processes, spawned, ended>>

Covered(c) == Packages(c) \subseteq worker.packages

SpawnRoom == spawned < MaxHosts
Spawn(c) ==
    /\ SpawnRoom /\ spawned' = spawned + 1
    /\ processes' = processes \cup {spawned'} /\ To(c, "spawns", spawned')
    /\ UNCHANGED <<asked, answers, ended>>

\* The run line is written and the guard armed.
Exchange(c, host) ==
    /\ asked' = [asked EXCEPT ![host] = Append(@, c)]
    /\ To(c, "runs", host) /\ UNCHANGED <<answers, processes, spawned, ended>>

Enter(c) ==
    /\ At(c, "waits") /\ ~Locked
    /\ \/ /\ worker.host # 0 /\ Covered(c)
          /\ Exchange(c, worker.host) /\ UNCHANGED worker
       \/ /\ worker.host # 0 /\ ~Covered(c)
          /\ To(c, "retires", worker.host) /\ worker' = [worker EXCEPT !.host = 0]
          /\ UNCHANGED <<asked, answers, processes, spawned, ended>>
       \/ worker.host = 0 /\ Spawn(c) /\ UNCHANGED worker

\* The old host says goodbye or does not; it is gone before the new one starts.
Retired(c) ==
    /\ At(c, "retires") /\ SpawnRoom
    /\ spawned' = spawned + 1
    /\ processes' = (processes \ {cells[c].host}) \cup {spawned'}
    /\ To(c, "spawns", spawned') /\ worker' = NoHost
    /\ UNCHANGED <<asked, answers, ended>>

Ready(c) ==
    /\ At(c, "spawns") /\ cells[c].host \in processes
    /\ worker' = [host |-> cells[c].host, packages |-> Packages(c)]
    /\ Exchange(c, cells[c].host)

\* The host answers its next line, with a result or a failed cell.
HostAnswers(h) ==
    /\ h \in processes /\ asked[h] # <<>>
    /\ answers' = [answers EXCEPT ![h] = Append(@, Head(asked[h]))]
    /\ asked' = [asked EXCEPT ![h] = Tail(@)]
    /\ UNCHANGED <<cells, worker, processes, spawned, ended>>

HostDies(h) ==
    /\ h \in processes /\ Kill({h})
    /\ UNCHANGED <<cells, worker, asked, answers, spawned, ended>>

\* Slip: a cell that ends early leaves the host to the next one.
KeepHost(c) == c \in Cell /\ UNCHANGED <<processes, worker>>

\* RunDiscardGuard: an exchange that does not end takes the host with it.
Discard(c) ==
    IF At(c, "runs") THEN Kill({cells[c].host}) /\ worker' = NoHost
    ELSE Kill({cells[c].host}) /\ UNCHANGED worker

IsAnswer(c, line) == line = c

\* The next line of the host: the result of this run, or a protocol failure.
Read(c) ==
    LET h == cells[c].host IN
    /\ At(c, "runs") /\ answers[h] # <<>>
    /\ answers' = [answers EXCEPT ![h] = Tail(@)]
    /\ IF IsAnswer(c, Head(answers[h])) THEN
            /\ cells' = [cells EXCEPT ![c] = [step |-> "answered", host |-> h,
                                              answer |-> {Head(answers[h])}]]
            /\ UNCHANGED <<worker, processes>>
       ELSE To(c, "refused", 0) /\ Discard(c)
    /\ UNCHANGED <<asked, spawned, ended>>

\* A timeout, a failed write, the end of the stream or a byte on stderr; or
\* the broker drops the call's future.
Stop(c) ==
    /\ cells[c].step \in {"waits", "retires", "spawns", "runs"}
    /\ To(c, "refused", 0) /\ Discard(c)
    /\ UNCHANGED <<asked, answers, spawned, ended>>

\* The turn's task has shut the broker down, which ends every call, and then
\* shuts the session down; its host stops or is killed.
Shutdown ==
    /\ ~ended /\ ended' = TRUE /\ \A c \in Cell : cells[c].step \in Waiting \ {"waits"}
    /\ Kill({worker.host}) /\ worker' = NoHost
    /\ UNCHANGED <<cells, asked, answers, spawned>>

ComputeNext ==
    \/ \E c \in Cell : Ask(c) \/ Enter(c) \/ Retired(c) \/ Ready(c) \/ Read(c) \/ Stop(c)
    \/ \E h \in 1..MaxHosts : HostAnswers(h) \/ HostDies(h)
    \/ Shutdown
-----------------------------------------------------------------------------
\* A cell's answer is the one to its own source, from a host that has its
\* packages; the host that is kept between cells has nothing in its pipes; and
\* no host but the one the session keeps or a cell is using ever runs, so that
\* none is left when the turn ends.
HostsAreClean ==
    /\ \A c \in Cell : At(c, "answered") => cells[c].answer = {c}
    /\ \A c \in Cell : At(c, "runs") => Covered(c)
    /\ ~Locked /\ worker.host # 0 => asked[worker.host] = <<>> /\ answers[worker.host] = <<>>
    /\ \A h \in processes : h = worker.host \/ \E c \in Cell : cells[c].host = h /\ ~At(c, "answered")
    /\ ended => processes = {}
=============================================================================
