----------------------------- MODULE AgentSession -----------------------------
(***************************************************************************)
(* First the process groups that the application starts and the durable    *)
(* records by which its next instance finds those that outlived it         *)
(* (process_lease.rs, and PiProcess::spawn_command, finish_shutdown and    *)
(* Drop in pi.rs); then the session of one Chat's agent: the directory     *)
(* that its process writes, the cursor in the Chat's row that seals it,    *)
(* and the marker that keeps the directory closed while a process may      *)
(* still be writing it (chat_execution_session.rs; launch_chat_pi_resuming *)
(* and the use of the session in chat_send, commands/chat_runtime.rs); at  *)
(* last the stream of one process that a turn hears (PiStream), beside it. *)
(*                                                                         *)
(* The operating system may give the id of a group that is gone to anybody *)
(* else.  A check of a group and the signal that follows it at once are    *)
(* one step: the code narrows that window and cannot close it.             *)
(*                                                                         *)
(* The turns of a Chat come one after the other (module ChatTurn).  A      *)
(* settled agent writes nothing until it is told to stop (the agent is an  *)
(* external program).                                                      *)
(***************************************************************************)
EXTENDS Naturals, FiniteSets

CONSTANTS
    Pid,         \* process ids; a child leads the group that has its id
    MaxSpawns,   \* bound on the children that are started
    MaxCrashes,  \* bound on the deaths of the application
    MaxFaults    \* bound on reported errors

ASSUME BoundsAssumption == {MaxSpawns, MaxCrashes, MaxFaults} \subseteq Nat

VARIABLES
    os,        \* who leads each process group, and whether it runs
    leases,    \* records in the lease directory
    torn,      \* a record's temporary file was left in the directory
    app,       \* "down", "recovering" or "up"
    todo,      \* records that recovery has classified and not dealt with
    starting,  \* children without a record yet
    held,      \* children whose handle this instance owns
    reapers,   \* children whose handle was dropped: a task waits for their exit
    mine,      \* history: children that this instance started
    unleased,  \* history: children whose registration failed or was interrupted
    spawns, crashes, faults

disk  == <<leases, torn>>
own   == <<starting, held, reapers, mine>>
procs == <<os, disk, app, todo, own, unleased, spawns, crashes, faults>>

\* Start identities: one for each child, and one for all other processes.
Nobody   == 0
Stranger == MaxSpawns + 1
Start    == Nobody .. Stranger

\* "leaderless": the leader is gone and a descendant lives on in its group.
Status  == {"free", "live", "leaderless", "zombie"}
Child   == [pid : Pid, start : 1 .. MaxSpawns]
Free    == [status |-> "free", start |-> Nobody, killed |-> FALSE]

\* process_group_state, and whether a child's group still runs.
GroupLive(p) == os[p].status \in {"live", "leaderless"}
Alive(c)     == os[c.pid].start = c.start /\ GroupLive(c.pid)

ProcsInit ==
    /\ os = [p \in Pid |-> Free]
    /\ leases = {} /\ torn = FALSE /\ app = "down" /\ todo = {}
    /\ starting = {} /\ held = {} /\ reapers = {} /\ mine = {} /\ unleased = {}
    /\ spawns = 0 /\ crashes = 0 /\ faults = 0

Fault == faults < MaxFaults /\ faults' = faults + 1
Quiet == faults' = faults

\* signal_process_group reaches whoever has the group's id now.
Signal(p) == os' = [os EXCEPT ![p].killed = os[p].status # "free"]
-----------------------------------------------------------------------------
\* The operating system.  A leader exits, alone or with its group, and is a
\* zombie until it is reaped; descendants exit; a free id is given away.
Exit(p) ==
    /\ \/ /\ os[p].status = "live"
          /\ \E s \in {"leaderless", "zombie"} : os' = [os EXCEPT ![p].status = s]
       \/ /\ os[p].status \in {"leaderless", "zombie"}
          /\ os' = [os EXCEPT ![p] = Free]
    /\ UNCHANGED <<disk, app, todo, own, unleased, spawns, crashes, faults>>

Reuse(p) ==
    /\ os[p].status = "free" /\ Fault
    /\ os' = [os EXCEPT ![p] = [status |-> "live", start |-> Stranger, killed |-> FALSE]]
    /\ UNCHANGED <<disk, app, todo, own, unleased, spawns, crashes>>
-----------------------------------------------------------------------------
\* Command::spawn: the child runs, and its record is not written yet.
Spawn(c) ==
    /\ app = "up" /\ os[c.pid].status = "free"
    /\ spawns < MaxSpawns /\ spawns' = spawns + 1 /\ c.start = spawns'
    /\ os' = [os EXCEPT ![c.pid] = [status |-> "live", start |-> c.start, killed |-> FALSE]]
    /\ starting' = starting \cup {c} /\ mine' = mine \cup {c}
    /\ UNCHANGED <<disk, app, todo, held, reapers, unleased, crashes, faults>>

\* ChildProcessLease::register observes the child and writes its record.
Register(c) ==
    /\ c \in starting /\ Alive(c) /\ os[c.pid].status = "live"
    /\ starting' = starting \ {c} /\ held' = held \cup {c}
    /\ leases' = leases \cup {c}
    /\ UNCHANGED <<os, torn, app, todo, reapers, mine, unleased, spawns, crashes, faults>>

\* An error kills the child and waits two seconds for it; the record may have
\* been renamed into place before the error.
RegisterFails(c) ==
    /\ c \in starting
    /\ \/ ~Alive(c) /\ Quiet /\ UNCHANGED leases
       \/ Fault /\ leases' \in {leases, leases \cup {c}}
    /\ starting' = starting \ {c} /\ unleased' = unleased \cup {c}
    /\ Signal(c.pid)
    /\ UNCHANGED <<torn, app, todo, held, reapers, mine, spawns, crashes>>

\* Slip: the record is removed when the leader is gone.
StopLeaderOnly(c) ==
    /\ c \in held /\ os[c.pid].status # "live"
    /\ held' = held \ {c} /\ leases' = leases \ {c}
    /\ os' = [os EXCEPT ![c.pid] = IF @.status = "zombie" THEN Free ELSE @]
    /\ UNCHANGED <<torn, app, todo, starting, reapers, mine, unleased, spawns, crashes, faults>>

\* shutdown confirms that the whole group is gone, and completes the lease.
Stop(c) ==
    /\ c \in held /\ ~GroupLive(c.pid)
    /\ held' = held \ {c} /\ leases' = leases \ {c}
    /\ os' = [os EXCEPT ![c.pid] = Free]
    /\ UNCHANGED <<torn, app, todo, starting, reapers, mine, unleased, spawns, crashes, faults>>

\* It cannot: the group was signalled and something still runs under its id,
\* or its state could not be read.  Drop signals it again and leaves the lease
\* to a task.
StopUnconfirmed(c) ==
    /\ c \in held
    /\ (GroupLive(c.pid) /\ Quiet) \/ Fault
    /\ held' = held \ {c} /\ reapers' = reapers \cup {c}
    /\ Signal(c.pid)
    /\ UNCHANGED <<disk, app, todo, starting, mine, unleased, spawns, crashes>>

\* terminate_and_reap_process_group: within two seconds, or never.
Reap(c) ==
    /\ c \in reapers
    /\ reapers' = reapers \ {c}
    /\ \/ ~GroupLive(c.pid) /\ leases' = leases \ {c}
       \/ GroupLive(c.pid) /\ UNCHANGED leases
    /\ UNCHANGED <<os, torn, app, todo, starting, held, mine, unleased, spawns, crashes, faults>>

\* The application dies.  Its children live on; a record that was being
\* written may be there, or be a temporary file.
Die ==
    /\ app # "down" /\ crashes < MaxCrashes /\ crashes' = crashes + 1
    /\ app' = "down" /\ todo' = {}
    /\ \/ UNCHANGED <<leases, torn>>
       \/ leases' = leases \cup starting /\ UNCHANGED torn
       \/ starting # {} /\ torn' = TRUE /\ UNCHANGED leases
    /\ unleased' = unleased \cup (starting \ leases')
    /\ starting' = {} /\ held' = {} /\ reapers' = {} /\ mine' = {}
    /\ UNCHANGED <<os, spawns, faults>>
-----------------------------------------------------------------------------
\* record_matches of the process that has the leader's id.
LeaderMatches(c) == os[c.pid].status \in {"live", "zombie"} /\ os[c.pid].start = c.start

\* What classify_recovery refuses: a leader that is somebody else, and a group
\* that runs without a leader.
Unverifiable(c) == os[c.pid].status # "free" /\ ~LeaderMatches(c)
Duplicates == \E c, d \in leases : c # d /\ c.pid = d.pid
Refusable  == torn \/ Duplicates \/ \E c \in leases : Unverifiable(c)

\* Slip: a group that has not exited yet is not waited for.
BootWhenQuiet ==
    /\ app = "down" /\ ~Refusable /\ \A c \in leases : ~GroupLive(c.pid)
    /\ app' = "recovering" /\ todo' = leases
    /\ UNCHANGED <<os, disk, own, unleased, spawns, crashes, faults>>

\* recover_orphaned_processes looks at every record before it touches any
\* group; an error keeps the application from starting.
Boot ==
    /\ app = "down" /\ ~Refusable
    /\ app' = "recovering" /\ todo' = leases
    /\ UNCHANGED <<os, disk, own, unleased, spawns, crashes, faults>>

\* A group whose leader matches, once more, is signalled...
Terminate(c) ==
    /\ c \in todo /\ LeaderMatches(c) /\ ~os[c.pid].killed
    /\ Signal(c.pid)
    /\ UNCHANGED <<disk, app, todo, own, unleased, spawns, crashes, faults>>

\* ... and its record is removed when the group is gone.
Remove(c) ==
    /\ c \in todo /\ ~GroupLive(c.pid)
    /\ todo' = todo \ {c} /\ leases' = leases \ {c}
    /\ UNCHANGED <<os, torn, app, own, unleased, spawns, crashes, faults>>

\* Three seconds pass, or the leader has changed since it was classified: the
\* application does not start.
GiveUp(c) ==
    /\ c \in todo
    /\ GroupLive(c.pid) /\ (os[c.pid].killed \/ ~LeaderMatches(c))
    /\ app' = "down" /\ todo' = {}
    /\ UNCHANGED <<os, disk, own, unleased, spawns, crashes, faults>>

Recovered ==
    /\ app = "recovering" /\ todo = {}
    /\ app' = "up"
    /\ UNCHANGED <<os, disk, todo, own, unleased, spawns, crashes, faults>>

Recover == Boot \/ Recovered \/ \E c \in Child : Terminate(c) \/ Remove(c) \/ GiveUp(c)
-----------------------------------------------------------------------------
ProcsTypeOK ==
    /\ os \in [Pid -> [status : Status, start : Start, killed : BOOLEAN]]
    /\ leases \subseteq Child /\ torn \in BOOLEAN
    /\ app \in {"down", "recovering", "up"} /\ todo \subseteq Child
    /\ starting \subseteq Child /\ held \subseteq Child /\ reapers \subseteq Child
    /\ mine \subseteq Child /\ unleased \subseteq Child
    /\ spawns \in Nat /\ crashes \in Nat /\ faults \in Nat

\* Every child that runs is on record from the moment it is used until it is
\* gone, so that an application that has started has none but its own.  (A
\* child is started before its record is written, and a failed record's child
\* may outlive the attempt to kill it: those are told apart.)
NoOrphans ==
    \A c \in Child : Alive(c) /\ c \notin starting \cup unleased =>
        /\ c \in leases
        /\ app = "up" => c \in mine
-----------------------------------------------------------------------------
\* The session of one Chat's agent.
CONSTANTS MaxWrites   \* bound on what agents write

VARIABLES
    pc,         \* where the Chat's turn is
    resume,     \* the sealed content that the turn resumes, or Empty
    agent,      \* the turn's agent
    read,       \* the content the turn read when its agent had settled
    cursor,     \* pi_session_cache in the Chat's row, or Empty
    file,       \* the content of the session directory
    writes,     \* contents written so far
    marker,     \* the stop marker in the runtime directory
    unrecorded  \* history: agents whose stop was neither confirmed nor recorded

session == <<pc, resume, agent, read, cursor, file, writes, marker, unrecorded>>
vars    == <<procs, session>>

Empty     == 0
NoMarker  == "none"
Partial   == "partial"
Marked(p) == <<"group", p>>
NoAgent   == [pid |-> "none", start |-> Nobody]

Init ==
    /\ ProcsInit
    /\ pc = "idle" /\ resume = Empty /\ agent = NoAgent /\ read = Empty
    /\ cursor = Empty /\ file = Empty /\ writes = 0 /\ marker = <<NoMarker>>
    /\ unrecorded = {}

Local == <<resume, agent, read>>
Dir   == <<file, writes>>
Rest  == <<os, disk, app, todo, own, unleased, spawns, crashes>>

\* The turn is over, and what it knew with it.
Over == pc' = "idle" /\ resume' = Empty /\ agent' = NoAgent /\ read' = Empty
Go(to) == pc' = to /\ UNCHANGED Local
-----------------------------------------------------------------------------
\* select_chat_pi_resume: what was sealed, if the Chat's surface, authority and
\* model are the same, or nothing.
Resumable == {cursor, Empty}

\* The user's message clears the cursor durably.
BeginTurn ==
    /\ app = "up" /\ pc = "idle"
    /\ pc' = "resolve" /\ resume' \in Resumable /\ cursor' = Empty
    /\ UNCHANGED <<procs, agent, read, Dir, marker, unrecorded>>

\* Slip: a marker whose group still runs is cleared as well.
ResolveAlways ==
    /\ pc = "resolve"
    /\ marker' = <<NoMarker>> /\ Go(IF resume = Empty THEN "wipe" ELSE "spawn")
    /\ UNCHANGED <<procs, cursor, Dir, unrecorded>>

\* resolve_unconfirmed_pi_stops: the marker goes when its group is seen to be
\* gone, and the turn fails otherwise.
Resolve ==
    /\ pc = "resolve"
    /\ \/ /\ marker = <<NoMarker>> \/ \E p \in Pid : marker = Marked(p) /\ ~GroupLive(p)
          /\ marker' = <<NoMarker>>
          /\ Go(IF resume = Empty THEN "wipe" ELSE "spawn")
       \/ /\ marker = <<Partial>> \/ \E p \in Pid : marker = Marked(p) /\ GroupLive(p)
          /\ Over /\ UNCHANGED marker
    /\ UNCHANGED <<procs, cursor, Dir, unrecorded>>

\* wipe, before a cold launch: a failed one may leave anything.
Wipe ==
    /\ pc = "wipe"
    /\ \/ pc' = "spawn" /\ file' = Empty /\ resume' = Empty /\ UNCHANGED <<agent, read>> /\ Quiet
       \/ file' \in {file, Empty} /\ Over /\ Fault
    /\ UNCHANGED <<Rest, cursor, writes, marker, unrecorded>>

Launch(c) ==
    /\ pc = "spawn" /\ Spawn(c)
    /\ pc' = "lease" /\ agent' = c
    /\ UNCHANGED <<resume, read, cursor, Dir, marker, unrecorded>>

LaunchFails ==
    /\ pc = "spawn" /\ Over /\ Fault
    /\ UNCHANGED <<Rest, cursor, Dir, marker, unrecorded>>

Leased ==
    /\ pc = "lease" /\ Register(agent) /\ Go("configure")
    /\ UNCHANGED <<cursor, Dir, marker, unrecorded>>

\* A child that could not be put on record has no group id to be marked with.
LeaseFails ==
    /\ pc = "lease" /\ RegisterFails(agent) /\ Over
    /\ UNCHANGED <<cursor, Dir, marker, unrecorded>>

\* configure_pi_session_and_read_entries: the agent must have loaded exactly
\* what was sealed, or nothing.
Configure ==
    /\ pc = "configure"
    /\ \/ file = resume /\ Go("setup") /\ Quiet
       \/ file # resume /\ Go("stop_launch") /\ Quiet
       \/ Go("stop_launch") /\ Fault
    /\ UNCHANGED <<Rest, cursor, Dir, marker, unrecorded>>

\* The prompt is sent, or the turn is stopped or fails before it is.
Prompt ==
    /\ pc = "setup" /\ \E to \in {"running", "stop_setup"} : Go(to)
    /\ UNCHANGED <<procs, cursor, Dir, marker, unrecorded>>

\* An agent writes while it works, and after nobody waits for it.
Write(c) ==
    /\ Alive(c) /\ writes < MaxWrites
    /\ c = agent => pc \in {"running", "stop_setup", "stop_turn"}
    /\ writes' = writes + 1 /\ file' = writes'
    /\ UNCHANGED <<procs, pc, Local, cursor, marker, unrecorded>>

\* agent_settled: the entries are read before the agent is told to stop.
Settle ==
    /\ pc = "running" /\ pc' = "settled" /\ read' \in {file, Empty}
    /\ UNCHANGED <<procs, resume, agent, cursor, Dir, marker, unrecorded>>

Interrupt ==
    /\ pc = "running" /\ Go("stop_turn")
    /\ UNCHANGED <<procs, cursor, Dir, marker, unrecorded>>
-----------------------------------------------------------------------------
\* The agent was seen to exit: a warm launch is tried again cold, an answer is
\* sealed if the connectors' authority has not changed, and the directory of
\* any other turn is wiped, as far as that goes.
Stopped ==
    /\ Stop(agent)
    /\ \/ pc = "stop_launch" /\ resume # Empty /\ Go("wipe") /\ UNCHANGED file
       \/ pc = "stop_launch" /\ resume = Empty /\ Over /\ UNCHANGED file
       \/ pc \in {"stop_setup", "stop_turn"} /\ Over /\ file' \in {Empty, file}
       \/ /\ pc = "settled" /\ pc' = "sealing" /\ read' \in {read, Empty}
          /\ UNCHANGED <<resume, agent, file>>
    /\ UNCHANGED <<cursor, writes, marker, unrecorded>>

\* Slip: what was read is sealed although the agent may go on.
SealUnstopped ==
    /\ StopUnconfirmed(agent)
    /\ \/ pc \in {"stop_launch", "stop_turn"} /\ Go("record") /\ UNCHANGED unrecorded
       \/ pc = "settled" /\ Go("sealing") /\ UNCHANGED unrecorded
       \/ pc = "stop_setup" /\ Over /\ unrecorded' = unrecorded \cup {agent}
    /\ UNCHANGED <<cursor, Dir, marker>>

\* It was not: nothing is sealed or wiped, and the group is recorded, except
\* when the turn ends during its setup.
NotStopped ==
    /\ StopUnconfirmed(agent)
    /\ \/ pc \in {"stop_launch", "stop_turn", "settled"} /\ Go("record") /\ UNCHANGED unrecorded
       \/ pc = "stop_setup" /\ Over /\ unrecorded' = unrecorded \cup {agent}
    /\ UNCHANGED <<cursor, Dir, marker>>

\* record_unconfirmed_pi_stop: the marker is created, then written and synced.
Record ==
    /\ pc = "record" /\ Over
    /\ \/ marker' = Marked(agent.pid) /\ UNCHANGED unrecorded /\ Quiet
       \/ marker' = <<Partial>> /\ UNCHANGED unrecorded /\ Fault
       \/ UNCHANGED marker /\ unrecorded' = unrecorded \cup {agent} /\ Fault
    /\ UNCHANGED <<Rest, cursor, Dir>>

\* The answer and the cursor are stored by one compare-and-swap, or not.
Seal ==
    /\ pc = "sealing" /\ Over
    /\ cursor' \in {read, cursor}
    /\ UNCHANGED <<procs, Dir, marker, unrecorded>>

Crash ==
    /\ Die /\ Over
    /\ IF pc = "record" THEN marker' \in {marker, <<Partial>>, Marked(agent.pid)}
                        ELSE UNCHANGED marker
    /\ UNCHANGED <<cursor, Dir, unrecorded>>

TurnStep ==
    \/ BeginTurn \/ Resolve \/ Wipe \/ (\E c \in Child : Launch(c)) \/ LaunchFails \/ Leased \/ LeaseFails
    \/ Configure \/ Prompt \/ Settle \/ Interrupt \/ Stopped \/ NotStopped \/ Record \/ Seal

System ==
    /\ \/ \E p \in Pid : Exit(p) \/ Reuse(p)
       \/ \E c \in Child : Reap(c)
       \/ Recover
    /\ UNCHANGED session

Next == TurnStep \/ (\E c \in Child : Write(c)) \/ System \/ Crash

Spec == Init /\ [][Next]_vars

\* Recovery goes on, and a group that was signalled exits.
FairSpec ==
    /\ Spec
    /\ WF_vars(Recover /\ UNCHANGED session)
    /\ \A p \in Pid : WF_vars(os[p].killed /\ Exit(p) /\ UNCHANGED session)
-----------------------------------------------------------------------------
TypeOK ==
    /\ ProcsTypeOK
    /\ agent \in Child \cup {NoAgent} /\ unrecorded \subseteq Child
    /\ {resume, read, cursor, file, writes} \subseteq 0 .. MaxWrites
    /\ marker \in {<<NoMarker>>, <<Partial>>} \cup {Marked(p) : p \in Pid}

Writers == {c \in Child : Alive(c)}

\* The session directory has one writer: a directory that a process may still
\* be writing is neither wiped nor given to another agent, across failed
\* launches, stops that are not confirmed, crashes and restarts.  (Processes
\* that the code loses sight of are told apart.)
OneAgent == Cardinality(Writers \ (unleased \cup unrecorded)) <= 1

\* "Only publish a cursor after it has acknowledged a settled shutdown,
\* otherwise a still-running child could append after the cursor is sealed."
CursorExact ==
    cursor # Empty /\ unleased \cup unrecorded = {} =>
        Writers = {} /\ cursor = file

\* One agent at a time writes the session, and a resumed one finds what was sealed.
SessionHasOneWriter == OneAgent /\ CursorExact

\* After a crash the application starts again, unless it finds a record that
\* it cannot verify; a child that is slow to die does not keep it from that.
StartsAgain == app = "down" ~> (app = "up" \/ Refusable)
-----------------------------------------------------------------------------
\* The session's Configure, Settle and Interrupt are what the stream comes to; a
\* behaviour follows one of the two (focus), the other stays as it begins.
CONSTANTS Chunk, Capacity, BodyTime, TotalTime, Deferrals, MaxText, MaxEvents  \* PiStream

ASSUME StreamAssumption ==
    Capacity \in Nat \ {0} /\ {BodyTime, TotalTime, Deferrals} \subseteq Nat

VARIABLES focus, pi, wire, lagged, host, watch

Stream == INSTANCE PiStream

stream == <<pi, wire, lagged, host, watch>>
agents == <<focus, vars, stream>>

AgentsInit ==
    /\ focus \in {"session", "stream"}
    /\ Init /\ Stream!PiInit
    /\ focus # "stream" => pi.entries = "sealed" /\ host.resume = "warm"

Session(step) == focus = "session" /\ step /\ UNCHANGED <<focus, stream>>
Listen == focus = "stream" /\ Stream!PiNext /\ UNCHANGED <<focus, vars>>

AgentsNext == Session(Next) \/ Listen

\* Recovery goes on, and a group that was signalled exits.
AgentsSpec ==
    /\ AgentsInit /\ [][AgentsNext]_agents
    /\ WF_agents(Session(Recover /\ UNCHANGED session))
    /\ \A p \in Pid : WF_agents(Session(os[p].killed /\ Exit(p) /\ UNCHANGED session))
-----------------------------------------------------------------------------
\* The application starts again after a crash (process_lease.rs:464; see
\* AgentSession).
ApplicationStartsAgain == (focus = "session") => StartsAgain

\* What a turn makes canonical is what its agent said, on the session it was
\* to resume, within its time (chat_runtime.rs; see PiStream).
TurnFollowsPi == Stream!TurnFollowsPi
===============================================================================
