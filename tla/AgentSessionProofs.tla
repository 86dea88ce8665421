-------------------------- MODULE AgentSessionProofs --------------------------
(***************************************************************************)
(* Proofs about AgentSession, for every number of process ids, children,   *)
(* crashes and errors: no child that runs is off the record, and the       *)
(* session directory of a Chat has one writer and is sealed exact.  Then   *)
(* for every size of the channel, every deadline and whatever Pi says: a   *)
(* turn follows its Pi.                                                    *)
(***************************************************************************)
EXTENDS AgentSession, Sequences, FiniteSetTheorems, SequenceTheorems, TLAPS

\* A child that the application has not lost sight of is on record; recovery
\* has still to deal with it, or this instance has started it.
OnRecord ==
    \A c \in Child : Alive(c) /\ c \notin starting \cup unleased =>
        /\ c \in leases
        /\ app = "recovering" => c \in todo
        /\ app = "up" => c \in mine

\* An application that is not up owns nothing.
Owns ==
    /\ starting \subseteq mine
    /\ app # "up" => starting = {} /\ mine = {}
    /\ app # "recovering" => todo = {}

ProcsInv == ProcsTypeOK /\ OnRecord /\ Owns

\* Agents that may write the directory: those that the code did not lose.
Seen(c) == Alive(c) /\ c \notin unleased \cup unrecorded

\* Between turns the marker stands for the one agent that may still run, unless
\* the application died and has to look for it; within a turn that has resolved
\* the marker, only its own agent may run.
Agents ==
    /\ pc # "idle" => app = "up"
    /\ \A c \in Child, d \in Child : Seen(c) /\ Seen(d) => c = d
    /\ pc \in {"idle", "resolve"} /\ app = "up" =>
         \A c \in Child : Seen(c) => marker \in {<<Partial>>, Marked(c.pid)}
    /\ pc \notin {"idle", "resolve"} => marker = <<NoMarker>>
    /\ pc \in {"wipe", "spawn", "sealing"} => \A c \in Child : ~Seen(c)
    /\ pc \notin {"idle", "resolve", "wipe", "spawn", "sealing"} =>
         agent \in Child /\ \A c \in Child : Seen(c) => c = agent

\* What is sealed, or is about to be, is what the directory holds.
Sealed ==
    /\ pc # "idle" => cursor = Empty
    /\ unleased \cup unrecorded = {} =>
         /\ cursor # Empty => cursor = file /\ \A c \in Child : ~Alive(c)
         /\ pc \in {"settled", "sealing"} => read \in {file, Empty}

IInv == ProcsInv /\ Agents /\ Sealed

\* What a step does to the processes and their records.
Kept == UNCHANGED <<os, disk, app, todo, own, unleased, spawns, crashes>> /\ (Fault \/ Quiet)
ProcStep ==
    \/ Kept \/ Die \/ Boot \/ Recovered
    \/ \E p \in Pid : Exit(p) \/ Reuse(p)
    \/ \E c \in Child :
         \/ Spawn(c) \/ Register(c) \/ RegisterFails(c) \/ Stop(c) \/ StopUnconfirmed(c)
         \/ Reap(c) \/ Terminate(c) \/ Remove(c) \/ GiveUp(c)
-----------------------------------------------------------------------------
Process == [status : Status, start : Start, killed : BOOLEAN]

LEMMA ChildType ==
    ASSUME NEW c \in Child
    PROVE  c.pid \in Pid /\ c.start \in Nat \ {Nobody, Stranger} /\ c.start \in Start
BY BoundsAssumption DEF Child, Nobody, Stranger, Start

LEMMA ChildIs ==
    ASSUME NEW c \in Child, NEW d \in Child, c.pid = d.pid, c.start = d.start
    PROVE  c = d
BY DEF Child

LEMMA FreeType == Free \in Process
BY BoundsAssumption DEF Free, Process, Status, Start, Nobody, Stranger

\* A signal changes neither what runs nor who it is.
LEMMA SignalKeeps ==
    ASSUME os \in [Pid -> Process], NEW p \in Pid, Signal(p)
    PROVE  /\ os' \in [Pid -> Process]
           /\ \A q \in Pid : os'[q].status = os[q].status /\ os'[q].start = os[q].start
<1>1. os' = [os EXCEPT ![p] = [os[p] EXCEPT !.killed = os[p].status # "free"]]
  BY DEF Signal
<1>2. os[p] \in Process
  OBVIOUS
<1>3. [os[p] EXCEPT !.killed = os[p].status # "free"] \in Process
  BY <1>2 DEF Process
<1>4. [os[p] EXCEPT !.killed = os[p].status # "free"].status = os[p].status
  BY <1>2 DEF Process
<1>5. [os[p] EXCEPT !.killed = os[p].status # "free"].start = os[p].start
  BY <1>2 DEF Process
<1> QED
  BY <1>1, <1>3, <1>4, <1>5

\* Who runs is changed by the system, which starts no child, and by Spawn.
LEMMA OsStep ==
    ASSUME ProcsTypeOK, ProcStep
    PROVE  /\ os' \in [Pid -> Process]
           /\ \A c \in Child : Alive(c)' => Alive(c) \/ (Spawn(c) /\ ~Alive(c))
<1>0. os \in [Pid -> Process] /\ todo \subseteq Child
  BY DEF ProcsTypeOK, Process
<1>a. ASSUME os' \in [Pid -> Process],
             \A q \in Pid : os'[q].status = os[q].status /\ os'[q].start = os[q].start
      PROVE  \A c \in Child : Alive(c)' => Alive(c)
  BY <1>a, ChildType DEF Alive, GroupLive
<1>1. CASE UNCHANGED os
  BY <1>0, <1>1 DEF Alive, GroupLive
<1>2. ASSUME NEW p \in Pid, Signal(p)
      PROVE  os' \in [Pid -> Process] /\ \A c \in Child : Alive(c)' => Alive(c)
  BY <1>0, <1>2, <1>a, SignalKeeps
<1>3. ASSUME NEW p \in Pid, os' = [os EXCEPT ![p] = Free]
      PROVE  os' \in [Pid -> Process] /\ \A c \in Child : Alive(c)' => Alive(c)
  BY <1>0, <1>3, FreeType, ChildType DEF Alive, GroupLive, Free
<1>4. ASSUME NEW p \in Pid, Exit(p)
      PROVE  os' \in [Pid -> Process] /\ \A c \in Child : Alive(c)' => Alive(c)
  <2>1. CASE os' = [os EXCEPT ![p] = Free]
    BY <1>3, <2>1
  <2>2. ASSUME NEW s \in {"leaderless", "zombie"}, os[p].status = "live",
               os' = [os EXCEPT ![p].status = s]
        PROVE  os' \in [Pid -> Process] /\ \A c \in Child : Alive(c)' => Alive(c)
    <3>1. os' = [os EXCEPT ![p] = [os[p] EXCEPT !.status = s]] /\ os[p] \in Process
      BY <1>0, <2>2
    <3>2. /\ [os[p] EXCEPT !.status = s] \in Process
          /\ [os[p] EXCEPT !.status = s].start = os[p].start
      BY <2>2, <3>1 DEF Process, Status
    <3> QED
      BY <1>0, <2>2, <3>1, <3>2, ChildType DEF Alive, GroupLive
  <2> QED
    BY <1>4, <2>1, <2>2 DEF Exit
<1>5. ASSUME NEW p \in Pid, Reuse(p)
      PROVE  os' \in [Pid -> Process] /\ \A c \in Child : Alive(c)' => Alive(c)
  <2> DEFINE new == [status |-> "live", start |-> Stranger, killed |-> FALSE]
  <2>1. new \in Process /\ new.start = Stranger
    BY BoundsAssumption DEF Process, Status, Start, Stranger, Nobody
  <2>2. os' = [os EXCEPT ![p] = new]
    BY <1>5 DEF Reuse
  <2> HIDE DEF new
  <2> QED
    BY <1>0, <2>1, <2>2, ChildType DEF Alive, GroupLive
<1>6. ASSUME NEW c \in Child, Spawn(c)
      PROVE  /\ os' \in [Pid -> Process]
             /\ \A d \in Child : Alive(d)' => Alive(d) \/ (Spawn(d) /\ ~Alive(d))
  <2> DEFINE new == [status |-> "live", start |-> c.start, killed |-> FALSE]
  <2>1. new \in Process /\ new.start = c.start
    BY ChildType DEF Process, Status
  <2>2. os' = [os EXCEPT ![c.pid] = new] /\ os[c.pid].status = "free"
    BY <1>6 DEF Spawn
  <2> HIDE DEF new
  <2>3. \A d \in Child : d.pid = c.pid /\ Alive(d)' => d = c
    BY <1>0, <2>1, <2>2, ChildType, ChildIs DEF Alive, GroupLive
  <2>4. \A d \in Child : d.pid # c.pid /\ Alive(d)' => Alive(d)
    BY <1>0, <2>2, ChildType DEF Alive, GroupLive
  <2> QED
    BY <1>0, <1>6, <2>1, <2>2, <2>3, <2>4, ChildType DEF Alive, GroupLive
<1>7. CASE Kept \/ Die \/ Boot \/ Recovered
  BY <1>1, <1>7 DEF Kept, Die, Boot, Recovered
<1>8. ASSUME NEW c \in Child, Register(c) \/ Reap(c) \/ Remove(c) \/ GiveUp(c)
      PROVE  UNCHANGED os
  BY <1>8 DEF Register, Reap, Remove, GiveUp
<1>9. ASSUME NEW c \in Child, RegisterFails(c) \/ StopUnconfirmed(c) \/ Terminate(c)
      PROVE  Signal(c.pid)
  BY <1>9 DEF RegisterFails, StopUnconfirmed, Terminate
<1>10. ASSUME NEW c \in Child, Stop(c)
       PROVE  os' = [os EXCEPT ![c.pid] = Free]
  BY <1>10 DEF Stop
<1> QED
  BY <1>1, <1>2, <1>3, <1>4, <1>5, <1>6, <1>7, <1>8, <1>9, <1>10, ChildType DEF ProcStep

LEMMA TypeStep == ProcsTypeOK /\ ProcStep => ProcsTypeOK'
<1> SUFFICES ASSUME ProcsTypeOK, ProcStep PROVE ProcsTypeOK'
  OBVIOUS
<1> DEFINE Sets ==
        /\ leases \subseteq Child /\ torn \in BOOLEAN
        /\ app \in {"down", "recovering", "up"} /\ todo \subseteq Child
        /\ starting \subseteq Child /\ held \subseteq Child /\ reapers \subseteq Child
        /\ mine \subseteq Child /\ unleased \subseteq Child
        /\ spawns \in Nat /\ crashes \in Nat /\ faults \in Nat
<1>0. Sets
  BY DEF ProcsTypeOK
<1> SUFFICES Sets'
  BY OsStep DEF ProcsTypeOK, Process
<1> USE <1>0 DEF disk, own, Fault, Quiet
<1>1. CASE Kept
  BY <1>1 DEF Kept
<1>2. CASE Die
  <2>1. leases' \subseteq Child /\ torn' \in BOOLEAN
    BY <1>2 DEF Die
  <2> QED
    BY <1>2, <2>1 DEF Die
<1>3. CASE Boot
  BY <1>3 DEF Boot
<1>4. CASE Recovered
  BY <1>4 DEF Recovered
<1>5. ASSUME NEW p \in Pid, Exit(p) PROVE Sets'
  BY <1>5 DEF Exit
<1>6. ASSUME NEW p \in Pid, Reuse(p) PROVE Sets'
  BY <1>6 DEF Reuse
<1>7. ASSUME NEW c \in Child, Spawn(c) PROVE Sets'
  BY <1>7 DEF Spawn
<1>8. ASSUME NEW c \in Child, Register(c) PROVE Sets'
  BY <1>8 DEF Register
<1>9. ASSUME NEW c \in Child, RegisterFails(c) PROVE Sets'
  BY <1>9 DEF RegisterFails
<1>10. ASSUME NEW c \in Child, Stop(c) PROVE Sets'
  BY <1>10 DEF Stop
<1>11. ASSUME NEW c \in Child, StopUnconfirmed(c) PROVE Sets'
  BY <1>11 DEF StopUnconfirmed
<1>12. ASSUME NEW c \in Child, Reap(c) PROVE Sets'
  BY <1>12 DEF Reap
<1>13. ASSUME NEW c \in Child, Terminate(c) PROVE Sets'
  BY <1>13 DEF Terminate
<1>14. ASSUME NEW c \in Child, Remove(c) PROVE Sets'
  BY <1>14 DEF Remove
<1>15. ASSUME NEW c \in Child, GiveUp(c) PROVE Sets'
  BY <1>15 DEF GiveUp
<1> HIDE DEF Sets
<1> QED
  BY <1>1, <1>2, <1>3, <1>4, <1>5, <1>6, <1>7, <1>8, <1>9, <1>10, <1>11, <1>12, <1>13,
     <1>14, <1>15 DEF ProcStep

\* Every child that runs is on record, and an instance that is up knows it.
LEMMA RecordStep == ProcsInv /\ ProcStep => (OnRecord /\ Owns)'
<1> SUFFICES ASSUME ProcsInv, ProcStep PROVE OnRecord' /\ Owns'
  OBVIOUS
<1>0. ProcsTypeOK /\ OnRecord /\ Owns
  BY DEF ProcsInv
<1>a. \A c \in Child : Alive(c)' => Alive(c) \/ (Spawn(c) /\ ~Alive(c))
  BY <1>0, OsStep
<1> USE DEF disk, own
<1>1. CASE Kept
  <2>1. OnRecord'
    BY <1>1, <1>0, <1>a DEF Kept, Spawn, OnRecord, Owns, Alive
  <2>2. Owns'
    BY <1>1, <1>0 DEF Kept, Owns
  <2> QED
    BY <2>1, <2>2
<1>2. CASE Die
  <2>1. OnRecord'
    BY <1>2, <1>0, <1>a DEF Die, Spawn, OnRecord, Owns, Alive
  <2>2. Owns'
    BY <1>2, <1>0 DEF Die, Owns
  <2> QED
    BY <2>1, <2>2
<1>3. CASE Boot
  <2>1. OnRecord'
    BY <1>3, <1>0, <1>a DEF Boot, Spawn, OnRecord, Owns, Alive
  <2>2. Owns'
    BY <1>3, <1>0 DEF Boot, Owns
  <2> QED
    BY <2>1, <2>2
<1>4. CASE Recovered
  <2>1. OnRecord'
    BY <1>4, <1>0, <1>a DEF Recovered, Spawn, OnRecord, Owns, Alive
  <2>2. Owns'
    BY <1>4, <1>0 DEF Recovered, Owns
  <2> QED
    BY <2>1, <2>2
<1>5. ASSUME NEW p \in Pid, Exit(p) PROVE OnRecord' /\ Owns'
  <2>1. OnRecord'
    BY <1>5, <1>0, <1>a DEF Exit, Spawn, OnRecord, Owns, Alive
  <2>2. Owns'
    BY <1>5, <1>0 DEF Exit, Owns
  <2> QED
    BY <2>1, <2>2
<1>6. ASSUME NEW p \in Pid, Reuse(p) PROVE OnRecord' /\ Owns'
  <2>1. OnRecord'
    BY <1>6, <1>0, <1>a DEF Reuse, Spawn, OnRecord, Owns, Alive
  <2>2. Owns'
    BY <1>6, <1>0 DEF Reuse, Owns
  <2> QED
    BY <2>1, <2>2
<1>7. ASSUME NEW d \in Child, Spawn(d) PROVE OnRecord' /\ Owns'
  <2>1. OnRecord'
    BY <1>7, <1>0, <1>a DEF Spawn, OnRecord, Owns, Alive
  <2>2. Owns'
    BY <1>7, <1>0 DEF Spawn, Owns
  <2> QED
    BY <2>1, <2>2
<1>8. ASSUME NEW d \in Child, Register(d) PROVE OnRecord' /\ Owns'
  <2>1. OnRecord'
    BY <1>8, <1>0, <1>a DEF Register, Spawn, OnRecord, Owns, Alive
  <2>2. Owns'
    BY <1>8, <1>0 DEF Register, Owns
  <2> QED
    BY <2>1, <2>2
<1>9. ASSUME NEW d \in Child, RegisterFails(d) PROVE OnRecord' /\ Owns'
  <2>1. OnRecord'
    BY <1>9, <1>0, <1>a DEF RegisterFails, Spawn, OnRecord, Owns, Alive
  <2>2. Owns'
    BY <1>9, <1>0 DEF RegisterFails, Owns
  <2> QED
    BY <2>1, <2>2
<1>10. ASSUME NEW d \in Child, Stop(d) PROVE OnRecord' /\ Owns'
  <2>1. OnRecord'
    BY <1>10, <1>0, <1>a DEF Stop, Spawn, OnRecord, Owns, Alive
  <2>2. Owns'
    BY <1>10, <1>0 DEF Stop, Owns
  <2> QED
    BY <2>1, <2>2
<1>11. ASSUME NEW d \in Child, StopUnconfirmed(d) PROVE OnRecord' /\ Owns'
  <2>1. OnRecord'
    BY <1>11, <1>0, <1>a DEF StopUnconfirmed, Spawn, OnRecord, Owns, Alive
  <2>2. Owns'
    BY <1>11, <1>0 DEF StopUnconfirmed, Owns
  <2> QED
    BY <2>1, <2>2
<1>12. ASSUME NEW d \in Child, Reap(d) PROVE OnRecord' /\ Owns'
  <2>1. OnRecord'
    BY <1>12, <1>0, <1>a DEF Reap, Spawn, OnRecord, Owns, Alive
  <2>2. Owns'
    BY <1>12, <1>0 DEF Reap, Owns
  <2> QED
    BY <2>1, <2>2
<1>13. ASSUME NEW d \in Child, Terminate(d) PROVE OnRecord' /\ Owns'
  <2>1. OnRecord'
    BY <1>13, <1>0, <1>a DEF Terminate, Spawn, OnRecord, Owns, Alive
  <2>2. Owns'
    BY <1>13, <1>0 DEF Terminate, Owns
  <2> QED
    BY <2>1, <2>2
<1>14. ASSUME NEW d \in Child, Remove(d) PROVE OnRecord' /\ Owns'
  <2>1. OnRecord'
    BY <1>14, <1>0, <1>a DEF Remove, Spawn, OnRecord, Owns, Alive
  <2>2. Owns'
    BY <1>14, <1>0 DEF Remove, Owns
  <2> QED
    BY <2>1, <2>2
<1>15. ASSUME NEW d \in Child, GiveUp(d) PROVE OnRecord' /\ Owns'
  <2>1. OnRecord'
    BY <1>15, <1>0, <1>a DEF GiveUp, Spawn, OnRecord, Owns, Alive
  <2>2. Owns'
    BY <1>15, <1>0 DEF GiveUp, Owns
  <2> QED
    BY <2>1, <2>2
<1> QED
  BY <1>1, <1>2, <1>3, <1>4, <1>5, <1>6, <1>7, <1>8, <1>9, <1>10, <1>11, <1>12, <1>13,
     <1>14, <1>15 DEF ProcStep

\* A step of a session is a step of the processes.
LEMMA SessionStep == IInv /\ [Next]_vars => ProcStep
<1> SUFFICES ASSUME IInv, [Next]_vars PROVE ProcStep
  OBVIOUS
<1> USE DEF procs, Rest, Kept, ProcStep, disk, own, Quiet
<1>1. ASSUME NEW c \in Child, Launch(c) PROVE ProcStep
  BY <1>1 DEF Launch
<1>2. CASE Leased \/ LeaseFails \/ Stopped \/ NotStopped
  <2>1. agent \in Child
    BY <1>2 DEF IInv, Agents, Leased, LeaseFails, Stopped, NotStopped
  <2> QED
    BY <1>2, <2>1 DEF Leased, LeaseFails, Stopped, NotStopped
<1>3. CASE BeginTurn \/ Resolve \/ Prompt \/ Settle \/ Interrupt \/ Seal
  BY <1>3 DEF BeginTurn, Resolve, Prompt, Settle, Interrupt, Seal
<1>4. CASE Wipe \/ LaunchFails \/ Configure \/ Record
  BY <1>4 DEF Wipe, LaunchFails, Configure, Record
<1>5. ASSUME NEW c \in Child, Write(c) PROVE ProcStep
  BY <1>5 DEF Write
<1>6. CASE System
  BY <1>6 DEF System, Recover
<1>7. CASE Crash
  BY <1>7 DEF Crash
<1>8. CASE UNCHANGED vars
  BY <1>8 DEF vars
<1> QED
  BY <1>1, <1>2, <1>3, <1>4, <1>5, <1>6, <1>7, <1>8 DEF Next, TurnStep

\* Nothing that runs comes into sight but what is launched, and the code does
\* not find again what it lost.
LEMMA SeenStep ==
    ASSUME IInv, [Next]_vars
    PROVE  /\ unleased \subseteq unleased' /\ unrecorded \subseteq unrecorded'
           /\ \A c \in Child : Alive(c)' => Alive(c) \/ (pc = "spawn" /\ Launch(c))
<1>1. ProcStep
  BY SessionStep
<1>2. unleased \subseteq unleased'
  BY <1>1 DEF ProcStep, Kept, Die, Boot, Recovered, Exit, Reuse, Spawn, Register,
     RegisterFails, Stop,
     StopUnconfirmed, Reap, Terminate, Remove, GiveUp
<1>3. unrecorded \subseteq unrecorded'
  BY DEF Next, TurnStep, BeginTurn, Resolve, Wipe, Launch, LaunchFails, Leased, LeaseFails,
     Configure,
     Prompt, Settle, Interrupt, Stopped, NotStopped, Record, Seal, Write, System, Crash,
     vars, session
<1>4. ASSUME NEW c \in Child, Spawn(c), ~Alive(c)
      PROVE  pc = "spawn" /\ Launch(c)
  <2>1. spawns' # spawns
    BY <1>4 DEF Spawn, IInv, ProcsInv, ProcsTypeOK
  <2>2. PICK d \in Child : Launch(d)
    BY <2>1 DEF Next, TurnStep, BeginTurn, Resolve, Wipe, LaunchFails, Leased, LeaseFails,
       Configure,
       Prompt, Settle, Interrupt, Stopped, NotStopped, Record, Seal, Write, System, Crash,
       vars, procs,
       Rest, Die, Recover, Boot, Recovered, Terminate, Remove, GiveUp, Exit, Reuse, Reap,
       Register,
       RegisterFails, Stop, StopUnconfirmed
  <2>3. c.pid = d.pid
    <3>1. os \in [Pid -> Process]
      BY DEF IInv, ProcsInv, ProcsTypeOK, Process
    <3>2. os'[c.pid].status = "live" /\ os[c.pid].status = "free"
      BY <1>4, <3>1, ChildType DEF Spawn
    <3>3. d.pid # c.pid => os'[c.pid] = os[c.pid]
      BY <2>2, <3>1, ChildType DEF Launch, Spawn
    <3> QED
      BY <3>2, <3>3
  <2>4. c.start = d.start
    BY <1>4, <2>2 DEF Launch, Spawn
  <2>5. c = d
    BY <2>3, <2>4, ChildIs
  <2> QED
    BY <2>2, <2>5 DEF Launch
<1> QED
  BY <1>1, <1>2, <1>3, <1>4, OsStep DEF IInv, ProcsInv

LEMMA MarkerIs ==
    ASSUME NEW p, NEW q
    PROVE  /\ Marked(p) # <<NoMarker>> /\ Marked(p) # <<Partial>>
           /\ <<Partial>> # <<NoMarker>> /\ (Marked(p) = Marked(q) => p = q)
BY DEF Marked, NoMarker, Partial

\* Agents is kept: one case for each action of a turn.
LEMMA AgentsStep == IInv /\ (OnRecord /\ Owns)' /\ [Next]_vars => Agents'
<1> SUFFICES ASSUME IInv, OnRecord', Owns', [Next]_vars PROVE Agents'
  OBVIOUS
<1>0. Agents /\ OnRecord /\ Owns
  BY DEF IInv, ProcsInv
<1>a. \A c \in Child : Seen(c)' => Seen(c) \/ (pc = "spawn" /\ agent' = c)
  BY SeenStep DEF Seen, Launch
<1>1. CASE BeginTurn
  BY <1>1, <1>0, <1>a, MarkerIs DEF BeginTurn, Agents, Seen, Alive, GroupLive, Go, Over,
     Local, procs, own, disk, Rest
<1>2. CASE Resolve
  BY <1>2, <1>0, <1>a, MarkerIs DEF Resolve, Agents, Seen, Alive, GroupLive, Go, Over,
     Local, procs, own, disk, Rest
<1>3. CASE Wipe
  BY <1>3, <1>0, <1>a, MarkerIs DEF Wipe, Agents, Seen, Alive, GroupLive, Go, Over, Local,
     procs, own, disk, Rest
<1>4. ASSUME NEW c \in Child, Launch(c) PROVE Agents'
  BY <1>4, <1>0, <1>a, MarkerIs DEF Launch, Spawn, Agents
<1>5. CASE LaunchFails
  BY <1>5, <1>0, <1>a, MarkerIs DEF LaunchFails, Agents, Seen, Alive, GroupLive, Go, Over,
     Local, procs, own, disk, Rest
<1>6. CASE Leased
  BY <1>6, <1>0, <1>a, MarkerIs DEF Leased, Register, Agents, Seen, Alive, GroupLive, Go,
     Over, Local, procs, own, disk, Rest
<1>7. CASE LeaseFails
  BY <1>7, <1>0, <1>a, MarkerIs DEF LeaseFails, RegisterFails, Agents, Seen, Alive,
     GroupLive, Go, Over, Local, procs, own, disk, Rest
<1>8. CASE Configure
  BY <1>8, <1>0, <1>a, MarkerIs DEF Configure, Agents, Seen, Alive, GroupLive, Go, Over,
     Local, procs, own, disk, Rest
<1>9. CASE Prompt
  BY <1>9, <1>0, <1>a, MarkerIs DEF Prompt, Agents, Seen, Alive, GroupLive, Go, Over, Local,
     procs, own, disk, Rest
<1>10. CASE Settle
  BY <1>10, <1>0, <1>a, MarkerIs DEF Settle, Agents, Seen, Alive, GroupLive, Go, Over,
     Local, procs, own, disk, Rest
<1>11. CASE Interrupt
  BY <1>11, <1>0, <1>a, MarkerIs DEF Interrupt, Agents, Seen, Alive, GroupLive, Go, Over,
     Local, procs, own, disk, Rest
<1>12. CASE Stopped
  BY <1>12, <1>0, <1>a, MarkerIs DEF Stopped, Stop, Agents, Seen, Alive, GroupLive, Go,
     Over, Local, procs, own, disk, Rest
<1>13. CASE NotStopped
  BY <1>13, <1>0, <1>a, MarkerIs DEF NotStopped, StopUnconfirmed, Agents, Seen, Alive,
     GroupLive, Go, Over, Local, procs, own, disk, Rest
<1>14. CASE Record
  BY <1>14, <1>0, <1>a, MarkerIs DEF Record, Agents, Seen, Alive, GroupLive, Go, Over,
     Local, procs, own, disk, Rest
<1>15. CASE Seal
  BY <1>15, <1>0, <1>a, MarkerIs DEF Seal, Agents, Seen, Alive, GroupLive, Go, Over, Local,
     procs, own, disk, Rest
<1>16. CASE System
  <2>1. \A c \in Child : Seen(c)' => Seen(c)
    BY <1>16, SeenStep DEF Seen, Launch, System, session
  <2>2. UNCHANGED session /\ app' = app => Agents'
    BY <1>0, <2>1 DEF Agents, session
  <2>3. CASE Boot \/ \E c \in Child : GiveUp(c)
    <3>1. app # "up" /\ app' # "up" /\ pc = "idle" /\ pc' = "idle"
      BY <1>0, <1>16, <2>3 DEF Boot, GiveUp, Agents, Owns, System, session
    <3> QED
      BY <1>0, <2>1, <3>1 DEF Agents
  <2>4. CASE Recovered
    <3>1. pc = "idle" /\ pc' = "idle"
      BY <1>0, <1>16, <2>4 DEF Recovered, Agents, System, session
    <3>2. app' = "up" /\ mine' = {} /\ starting' = {}
      BY <1>0, <2>4 DEF Recovered, Owns, own
    <3>3. \A c \in Child : ~Seen(c)'
      BY <3>2 DEF OnRecord, Seen
    <3> QED
      BY <3>1, <3>3 DEF Agents
  <2>5. /\ UNCHANGED session
        /\ UNCHANGED app \/ Boot \/ Recovered \/ \E c \in Child : GiveUp(c)
    BY <1>16 DEF System, Exit, Reuse, Reap, Recover, Terminate, Remove, disk, own
  <2> QED
    BY <1>16, <2>2, <2>3, <2>4, <2>5
<1>17. CASE Crash
  BY <1>17, <1>0, <1>a DEF Crash, Die, Over, Agents
<1>18. CASE UNCHANGED vars
  BY <1>18, <1>0, <1>a DEF vars, procs, session, own, disk, Agents, Seen, Alive, GroupLive
<1>19. ASSUME NEW c \in Child, Write(c) PROVE Agents'
  <2>1. \A d \in Child : Seen(d)' = Seen(d)
    BY <1>19 DEF Write, procs, own, disk, Seen, Alive, GroupLive
  <2> QED
    BY <1>19, <1>0, <2>1 DEF Write, Local, procs, Agents
<1> QED
  BY <1>1, <1>2, <1>3, <1>4, <1>5, <1>6, <1>7, <1>8, <1>9, <1>10, <1>11, <1>12, <1>13,
     <1>14, <1>15, <1>16, <1>17, <1>18, <1>19 DEF Next, TurnStep

\* Sealed is kept: one case for each action that touches the cursor, what was
\* read or the directory, or leaves the place where they count.
LEMMA SealedStep == IInv /\ [Next]_vars => Sealed'
<1> SUFFICES ASSUME IInv, [Next]_vars PROVE Sealed'
  OBVIOUS
<1>0. Agents /\ Sealed
  BY DEF IInv
<1>a. /\ unleased' \cup unrecorded' = {} => unleased \cup unrecorded = {}
      /\ \A c \in Child : Alive(c)' => Alive(c) \/ (pc = "spawn" /\ Launch(c))
  BY SeenStep
<1>1. CASE BeginTurn
  BY <1>1, <1>0, <1>a DEF BeginTurn, Launch, Sealed, Go, Over, Local, Dir
<1>2. CASE Resolve
  BY <1>2, <1>0, <1>a DEF Resolve, Launch, Sealed, Go, Over, Local, Dir
<1>3. CASE Wipe
  BY <1>3, <1>0, <1>a DEF Wipe, Launch, Sealed, Go, Over, Local, Dir
<1>4. ASSUME NEW c \in Child, Launch(c) PROVE Sealed'
  BY <1>4, <1>0, <1>a DEF Launch, Sealed, Dir
<1>5. CASE LaunchFails
  BY <1>5, <1>0, <1>a DEF LaunchFails, Launch, Sealed, Go, Over, Local, Dir
<1>6. CASE Leased
  BY <1>6, <1>0, <1>a DEF Leased, Launch, Sealed, Go, Over, Local, Dir
<1>7. CASE LeaseFails
  BY <1>7, <1>0, <1>a DEF LeaseFails, Launch, Sealed, Go, Over, Local, Dir
<1>8. CASE Configure
  BY <1>8, <1>0, <1>a DEF Configure, Launch, Sealed, Go, Over, Local, Dir
<1>9. CASE Prompt
  BY <1>9, <1>0, <1>a DEF Prompt, Launch, Sealed, Go, Over, Local, Dir
<1>10. CASE Settle
  BY <1>10, <1>0, <1>a DEF Settle, Launch, Sealed, Go, Over, Local, Dir
<1>11. CASE Interrupt
  BY <1>11, <1>0, <1>a DEF Interrupt, Launch, Sealed, Go, Over, Local, Dir
<1>12. CASE Stopped
  BY <1>12, <1>0, <1>a DEF Stopped, Launch, Sealed, Go, Over, Local, Dir
<1>13. CASE NotStopped
  BY <1>13, <1>0, <1>a DEF NotStopped, Launch, Sealed, Go, Over, Local, Dir
<1>14. CASE Record
  BY <1>14, <1>0, <1>a DEF Record, Launch, Sealed, Go, Over, Local, Dir
<1>15. CASE Seal
  BY <1>15, <1>0, <1>a DEF Seal, Agents, Seen, Launch, Sealed, Go, Over, Local, Dir
<1>16. CASE System
  BY <1>16, <1>0, <1>a DEF System, session, Sealed, Launch
<1>17. CASE Crash
  BY <1>17, <1>0, <1>a DEF Crash, Over, Sealed, Dir, Launch
<1>18. CASE UNCHANGED vars
  BY <1>18, <1>0, <1>a DEF vars, session, Sealed, Launch
<1>19. ASSUME NEW c \in Child, Write(c) PROVE Sealed'
  BY <1>19, <1>0, <1>a DEF Write, Local, Agents, Seen, Sealed, Launch
<1> QED
  BY <1>1, <1>2, <1>3, <1>4, <1>5, <1>6, <1>7, <1>8, <1>9, <1>10, <1>11, <1>12, <1>13,
     <1>14, <1>15, <1>16, <1>17, <1>18, <1>19 DEF Next, TurnStep

LEMMA InitInv == Init => IInv
<1> SUFFICES ASSUME Init PROVE IInv
  OBVIOUS
<1>1. ProcsTypeOK
  <2>1. os \in [Pid -> Process]
    BY FreeType DEF Init, ProcsInit
  <2> QED
    BY <2>1 DEF Init, ProcsInit, ProcsTypeOK, Process
<1>2. \A c \in Child : ~Alive(c)
  BY ChildType DEF Init, ProcsInit, Alive, GroupLive, Free
<1> QED
  BY <1>1, <1>2 DEF Init, ProcsInit, IInv, ProcsInv, OnRecord, Owns, Agents, Seen, Sealed

LEMMA StepInv == IInv /\ [Next]_vars => IInv'
BY SessionStep, TypeStep, RecordStep, AgentsStep, SealedStep DEF IInv, ProcsInv

\* A behaviour of the run is one of the session.
LEMMA AgentsStart == AgentsInit => Init
BY DEF AgentsInit

LEMMA AgentsMove == [AgentsNext]_agents => [Next]_vars
BY DEF AgentsNext, Session, Listen, agents

\* The inductive invariant: processes and their records, the marker and the
\* agents that may still write, and what is sealed.
THEOREM Invariance == AgentsSpec => []IInv
BY AgentsStart, AgentsMove, InitInv, StepInv, PTL DEF AgentsSpec
-----------------------------------------------------------------------------
\* Every child that runs is on record until it is gone, so that an application
\* that has started has none but its own (process_lease.rs:464).
THEOREM Orphans == AgentsSpec => []NoOrphans
<1>1. IInv => NoOrphans
  BY DEF IInv, ProcsInv, OnRecord, NoOrphans
<1> QED
  BY <1>1, Invariance, PTL

\* A directory that a process may still be writing is neither wiped nor given
\* to another agent, and a cursor seals exactly what the directory holds, when
\* nobody can write it any more (chat_execution_session.rs).
THEOREM OneWriter == AgentsSpec => []SessionHasOneWriter
<1>1. ASSUME IInv PROVE OneAgent
  <2> DEFINE S == Writers \ (unleased \cup unrecorded)
  <2>1. \A c \in S, d \in S : c = d
    BY <1>1 DEF IInv, Agents, Seen, Writers
  <2>2. S = {} \/ \E c \in S : S = {c}
    BY <2>1
  <2>3. Cardinality(S) \in {0, 1}
    <3> HIDE DEF S
    <3> QED
      BY <2>2, FS_EmptySet, FS_Singleton
  <2> QED
    BY <2>3 DEF OneAgent
<1>2. ASSUME IInv PROVE CursorExact
  BY <1>2 DEF IInv, Sealed, CursorExact, Writers
<1> QED
  BY <1>1, <1>2, Invariance, PTL DEF SessionHasOneWriter
-----------------------------------------------------------------------------
\* What is on the wire, and the rows of the stream.
Text    == Seq(Chunk)
Reason  == {"stop", "toolUse", "error"}
Entries == {"sealed", "other", "none", "turn"}
Asked   == Stream!Control \cup {"prompt", "cursor"}
Bare    == {"message_start", "agent_settled", "gone", "compaction_start", "compaction_end"}
Heard ==
    [type : Bare] \cup [type : {"text_delta"}, delta : Chunk]
      \cup [type : {"message_end"}, text : Text, reason : Reason]
      \cup [type : {"response"}, id : Asked, success : BOOLEAN, entries : Entries]

PiRow   == [up : BOOLEAN, entries : Entries, asked : SUBSET Asked, open : BOOLEAN, text : Text,
            said : Seq(Text), last : Reason \cup {"none"}, body : BOOLEAN, settled : BOOLEAN,
            events : Nat]
Early   == {"spawned", "configures", "stopping"}
Steps   == Early \cup {"loop", "settled", "complete", "failed", "timed_out"}
HostRow == [step : Steps,
            resume : {"warm", "cold"}, waits : SUBSET Stream!Control, active : BOOLEAN,
            streamed : Text, completed : BOOLEAN, last : Reason \cup {"none"},
            content : Seq(Text), drafts : Seq(Text), cursor : Entries]
WatchRow == [now : Nat, mode : {"awaiting", "compacting", "satisfied"}, body : Nat,
             select : {"fair", "queued"}, deferred : Nat, late : Nat]

StreamTypes ==
    /\ pi \in PiRow /\ wire \in Seq(Heard) /\ lagged \in BOOLEAN
    /\ host \in HostRow /\ watch \in WatchRow

IsEnd(e)   == e.type = "message_end"
StopEnd(e) == IsEnd(e) /\ e.reason = "stop"
IsQuiet(e) == e.type \in {"response", "gone"}

\* Before the prompt Pi has answered controls and nothing else.
Prelude ==
    host.step \in Early =>
        /\ host.step = "spawned" => wire = <<>>
        /\ pi.said = <<>> /\ pi.last = "none" /\ ~pi.settled /\ ~pi.body
        /\ host.content = <<>> /\ host.drafts = <<>> /\ host.last = "none"
        /\ \A i \in 1 .. Len(wire) : IsQuiet(wire[i])

\* The session that Pi has loaded is the one it told of.
Told ==
    host.step = "configures" =>
        /\ \A i \in 1 .. Len(wire) :
             wire[i].type = "response" /\ wire[i].id = "entries" => wire[i].entries = pi.entries
        /\ "entries" \in host.waits \/ Stream!Acceptable(pi.entries)

\* n counts what was said up to each event on the wire.
Counts(n) ==
    /\ n[0] = Len(host.content) /\ n[Len(wire)] = Len(pi.said)
    /\ \A i \in 1 .. Len(wire) :
         IF StopEnd(wire[i])
         THEN n[i] = n[i - 1] + 1 /\ pi.said[n[i]] = wire[i].text
         ELSE n[i] = n[i - 1]
    /\ \A i \in 0 .. Len(wire) :
         (\A j \in i + 1 .. Len(wire) : ~StopEnd(wire[j])) => n[i] = Len(pi.said)

\* What was captured begins what was said ...
Begins ==
    /\ Len(host.content) <= Len(pi.said) /\ host.drafts = host.content
    /\ \A k \in 1 .. Len(host.content) : host.content[k] = pi.said[k]

\* ... and the last end that is on its way tells how Pi ended.
LastEnd ==
    /\ \A i \in 1 .. Len(wire) :
         IsEnd(wire[i]) /\ (\A j \in i + 1 .. Len(wire) : ~IsEnd(wire[j])) =>
           wire[i].reason = pi.last
    /\ (\A j \in 1 .. Len(wire) : ~IsEnd(wire[j])) => host.last = pi.last

SettledLast ==
    \A i \in 1 .. Len(wire) : wire[i].type = "agent_settled" =>
        pi.settled /\ \A j \in i + 1 .. Len(wire) : IsQuiet(wire[j])

Follows ==
    host.step = "loop" /\ ~lagged =>
        /\ \E n \in [0 .. Len(wire) -> 0 .. Len(pi.said)] : Counts(n)
        /\ Begins /\ LastEnd /\ SettledLast

\* Progress that the watchdog has not seen is on the wire.
Counted ==
    /\ watch.deferred <= Deferrals /\ watch.late <= Deferrals + 1
    /\ \/ watch.late = 0 \/ watch.mode = "satisfied"
       \/ /\ watch.now >= TotalTime /\ watch.select = "queued"
          /\ watch.late <= watch.deferred + 1

Watches ==
    /\ Counted
    /\ lagged => wire # <<>>
    /\ host.step = "loop" /\ pi.body =>
         \/ watch.mode = "satisfied" \/ lagged
         \/ \E i \in 1 .. Len(wire) : Stream!IsProgress(wire[i])
    /\ host.step = "timed_out" => ~pi.body \/ watch.deferred >= Deferrals

StreamInv ==
    /\ StreamTypes /\ Prelude /\ Told /\ Follows /\ Watches
    /\ Stream!AnswerIsWhatPiSaid /\ Stream!PromptedAsResumed
-----------------------------------------------------------------------------
LEMMA Emitted ==
    ASSUME NEW S, wire \in Seq(S), lagged \in BOOLEAN, NEW e \in S, Stream!Emit(e)
    PROVE  /\ wire' \in Seq(S) /\ wire' # <<>> /\ lagged' \in BOOLEAN
           /\ \A i \in 1 .. Len(wire') :
                wire'[i] = e \/ \E j \in 1 .. Len(wire) : wire'[i] = wire[j]
           /\ \E i \in 1 .. Len(wire') : wire'[i] = e
           /\ ~lagged' => ~lagged /\ wire' = Append(wire, e)
<1>1. CASE Len(wire) = Capacity
  <2>1. wire # <<>>
    BY <1>1, StreamAssumption
  <2> DEFINE t == Tail(wire)
  <2>2. t \in Seq(S) /\ Len(t) = Len(wire) - 1 /\ \A i \in 1 .. Len(t) : t[i] = wire[i + 1]
    BY <2>1
  <2>3. wire' = Append(t, e) /\ lagged'
    BY <1>1 DEF Stream!Emit
  <2> HIDE DEF t
  <2>4. wire' \in Seq(S) /\ Len(wire') = Len(t) + 1 /\ wire'[Len(t) + 1] = e
    BY <2>2, <2>3
  <2>5. \A i \in 1 .. Len(t) : wire'[i] = t[i]
    BY <2>2, <2>3
  <2>6. Len(wire) \in Nat /\ Len(t) \in Nat
    BY <2>2
  <2>7. \A i \in 1 .. Len(t) : wire'[i] = wire[i + 1] /\ i + 1 \in 1 .. Len(wire)
    BY <2>2, <2>5, <2>6
  <2>8. \A i \in 1 .. Len(wire') : i \in 1 .. Len(t) \/ i = Len(t) + 1
    BY <2>4, <2>6
  <2>9. Len(t) + 1 \in 1 .. Len(wire') /\ wire' # <<>>
    BY <2>4, <2>6
  <2> QED
    BY <2>3, <2>4, <2>7, <2>8, <2>9
<1>2. CASE Len(wire) # Capacity
  <2>1. wire' = Append(wire, e) /\ lagged' = lagged
    BY <1>2 DEF Stream!Emit
  <2>2. wire' \in Seq(S) /\ Len(wire') = Len(wire) + 1 /\ wire'[Len(wire) + 1] = e
    BY <2>1
  <2>3. \A i \in 1 .. Len(wire) : wire'[i] = wire[i]
    BY <2>1
  <2>4. Len(wire) \in Nat
    OBVIOUS
  <2>5. \A i \in 1 .. Len(wire') : i \in 1 .. Len(wire) \/ i = Len(wire) + 1
    BY <2>2, <2>4
  <2>6. Len(wire) + 1 \in 1 .. Len(wire') /\ wire' # <<>>
    BY <2>2, <2>4
  <2> QED
    BY <2>1, <2>2, <2>3, <2>5, <2>6
<1> QED
  BY <1>1, <1>2

LEMMA IsRead ==
    ASSUME NEW S, wire \in Seq(S), wire # <<>>, Stream!Read
    PROVE  /\ wire' \in Seq(S) /\ Len(wire) \in Nat \ {0} /\ Len(wire') = Len(wire) - 1
           /\ Head(wire) = wire[1] /\ wire[1] \in S /\ lagged' = FALSE
           /\ \A i \in 1 .. Len(wire') : wire'[i] = wire[i + 1]
BY DEF Stream!Read

LEMMA InitStream == AgentsInit => StreamInv
<1> SUFFICES ASSUME Stream!PiInit PROVE StreamInv
  BY DEF AgentsInit
<1>1. PICK en \in {"sealed", "other", "none"} :
       pi = [up |-> TRUE, entries |-> en, asked |-> {}, open |-> FALSE, text |-> <<>>,
             said |-> <<>>, last |-> "none", body |-> FALSE, settled |-> FALSE, events |-> 0]
  BY DEF Stream!PiInit, Stream!NoText
<1>2. PICK re \in {"warm", "cold"} :
       host = [step |-> "spawned", resume |-> re, waits |-> {}, active |-> FALSE,
               streamed |-> <<>>, completed |-> FALSE, last |-> "none",
               content |-> <<>>, drafts |-> <<>>, cursor |-> "none"]
  BY DEF Stream!PiInit, Stream!NoText
<1>3. wire = <<>> /\ lagged = FALSE
      /\ watch = [now |-> 0, mode |-> "awaiting", body |-> BodyTime, select |-> "fair",
                  deferred |-> 0, late |-> 0]
  BY DEF Stream!PiInit
<1>4. pi \in PiRow
  BY <1>1 DEF PiRow, Entries, Text
<1>5. host \in HostRow
  BY <1>2 DEF HostRow, Entries, Text, Early, Steps
<1>6. watch \in WatchRow
  BY <1>3, StreamAssumption DEF WatchRow
<1>11. wire \in Seq(Heard)
  BY <1>3
<1>12. lagged \in BOOLEAN
  BY <1>3
<1>7. StreamTypes
  BY <1>4, <1>5, <1>6, <1>11, <1>12 DEF StreamTypes
<1>8. Prelude /\ Told
  BY <1>1, <1>2, <1>3 DEF Prelude, Told
<1>9. Follows /\ Stream!AnswerIsWhatPiSaid /\ Stream!PromptedAsResumed
  BY <1>2 DEF Follows, Stream!AnswerIsWhatPiSaid, Stream!PromptedAsResumed
<1>10. Watches
  BY <1>2, <1>3, StreamAssumption DEF Watches, Counted
<1> QED
  BY <1>7, <1>8, <1>9, <1>10 DEF StreamInv
-----------------------------------------------------------------------------
\* What Pi does, as far as the others can tell.
PiMoves(e) ==
    /\ Stream!Listening /\ e \in Heard /\ Stream!Emit(e) /\ UNCHANGED <<host, watch>>
    /\ pi' \in PiRow

LEMMA AnswerMoves ==
    ASSUME StreamTypes, NEW c \in Asked, NEW success \in BOOLEAN, Stream!PiAnswers(c, success)
    PROVE  \E e \in Heard :
             /\ PiMoves(e) /\ e.type = "response" /\ (c = "entries" <=> e.id = "entries")
             /\ c = "entries" => e.entries = pi.entries
             /\ pi' = [pi EXCEPT !.asked = @ \ {c}]
<1> DEFINE e == [type |-> "response", id |-> c, success |-> success,
                 entries |-> IF c \in {"entries", "cursor"} THEN pi.entries ELSE "none"]
<1>1. pi \in PiRow
  BY DEF StreamTypes
<1>2. (IF c \in {"entries", "cursor"} THEN pi.entries ELSE "none") \in Entries
  BY <1>1 DEF PiRow, Entries
<1>3. e \in [type : {"response"}, id : Asked, success : BOOLEAN, entries : Entries]
  BY <1>2, Zenon
<1>4. e \in Heard
  BY <1>3, Zenon DEF Heard
<1>5. pi' \in PiRow
  BY <1>1 DEF PiRow, Stream!PiAnswers
<1>6. PiMoves(e)
  BY <1>4, <1>5 DEF PiMoves, Stream!PiAnswers
<1>7. e.type = "response" /\ e.id = c /\ (c = "entries" => e.entries = pi.entries)
  OBVIOUS
<1> QED
  BY <1>4, <1>6, <1>7 DEF Stream!PiAnswers

LEMMA EventIs ==
    ASSUME NEW type \in Bare
    PROVE  Stream!Event(type) \in Heard /\ Stream!Event(type).type = type
<1>1. [type |-> type] \in [type : Bare]
  OBVIOUS
<1>2. [type |-> type].type = type
  OBVIOUS
<1> QED
  BY <1>1, <1>2, Zenon DEF Heard, Stream!Event

LEMMA StartMoves ==
    ASSUME StreamTypes, Stream!PiStarts
    PROVE  \E e \in Heard :
             /\ PiMoves(e) /\ Stream!Talks /\ e.type = "message_start"
             /\ pi' = [pi EXCEPT !.open = TRUE, !.text = <<>>, !.events = @ + 1]
<1>1. pi' = [pi EXCEPT !.open = TRUE, !.text = <<>>, !.events = @ + 1]
  BY DEF Stream!PiStarts, Stream!NoText
<1>4. <<>> \in Text
  BY DEF Text
<1>5. pi \in PiRow
  BY DEF StreamTypes
<1>6. pi.events + 1 \in Nat
  BY <1>5 DEF PiRow
<1>7. PICK n \in Nat : n = pi.events + 1
  BY <1>6
<1>8. pi' = [pi EXCEPT !.open = TRUE, !.text = <<>>, !.events = n]
  BY <1>1, <1>7
<1>2. pi' \in PiRow
  BY <1>4, <1>5, <1>8 DEF PiRow
<1>3. "message_start" \in Bare
  BY DEF Bare
<1> QED
  BY <1>1, <1>2, <1>3, EventIs DEF Stream!PiStarts, PiMoves, Stream!Talks

LEMMA CompactMoves ==
    ASSUME StreamTypes, NEW type \in {"compaction_start", "compaction_end"}, Stream!PiCompacts(type)
    PROVE  \E e \in Heard :
             /\ PiMoves(e) /\ Stream!Talks /\ e.type = type
             /\ pi' = [pi EXCEPT !.events = @ + 1]
<1>1. pi' = [pi EXCEPT !.events = @ + 1]
  BY DEF Stream!PiCompacts
<1>2. pi' \in PiRow
  BY <1>1 DEF StreamTypes, PiRow
<1>3. type \in Bare
  BY DEF Bare
<1> QED
  BY <1>1, <1>2, <1>3, EventIs DEF Stream!PiCompacts, PiMoves, Stream!Talks

LEMMA SettleMoves ==
    ASSUME StreamTypes, Stream!PiSettles
    PROVE  \E e \in Heard :
             /\ PiMoves(e) /\ Stream!Talks /\ e.type = "agent_settled"
             /\ pi' = [pi EXCEPT !.settled = TRUE, !.entries = "turn"]
<1>1. pi' = [pi EXCEPT !.settled = TRUE, !.entries = "turn"]
  BY DEF Stream!PiSettles
<1>2. pi' \in PiRow
  BY <1>1 DEF StreamTypes, PiRow, Entries
<1>3. "agent_settled" \in Bare
  BY DEF Bare
<1> QED
  BY <1>1, <1>2, <1>3, EventIs DEF Stream!PiSettles, PiMoves, Stream!Talks

LEMMA BreakMoves ==
    ASSUME StreamTypes, Stream!PiBreaks
    PROVE  \E e \in Heard : PiMoves(e) /\ e.type = "gone" /\ pi' = [pi EXCEPT !.up = FALSE]
<1>1. pi' = [pi EXCEPT !.up = FALSE]
  BY DEF Stream!PiBreaks
<1>2. pi' \in PiRow
  BY <1>1 DEF StreamTypes, PiRow
<1>3. "gone" \in Bare
  BY DEF Bare
<1> QED
  BY <1>1, <1>2, <1>3, EventIs DEF Stream!PiBreaks, PiMoves

LEMMA StreamsMoves ==
    ASSUME StreamTypes, NEW c \in Chunk, Stream!PiStreams(c)
    PROVE  \E e \in Heard :
             /\ PiMoves(e) /\ Stream!Talks /\ e.type = "text_delta"
             /\ pi' = [pi EXCEPT !.text = Append(@, c), !.body = TRUE, !.events = @ + 1]
<1>1. pi' = [pi EXCEPT !.text = Append(@, c), !.body = TRUE, !.events = @ + 1]
  BY DEF Stream!PiStreams
<1>2. pi \in PiRow
  BY DEF StreamTypes
<1>3. Append(pi.text, c) \in Text
  BY <1>2 DEF PiRow, Text
<1> DEFINE new == Append(pi.text, c)
<1>9. pi.events + 1 \in Nat
  BY <1>2 DEF PiRow
<1>10. PICK n \in Nat : n = pi.events + 1
  BY <1>9
<1>8. new \in Text /\ pi' = [pi EXCEPT !.text = new, !.body = TRUE, !.events = n]
  BY <1>1, <1>3, <1>10
<1> HIDE DEF new
<1>4. pi' \in PiRow
  BY <1>2, <1>8 DEF PiRow
<1>5. [type |-> "text_delta", delta |-> c] \in [type : {"text_delta"}, delta : Chunk]
  OBVIOUS
<1>6. [type |-> "text_delta", delta |-> c] \in Heard
  BY <1>5, Zenon DEF Heard
<1>7. [type |-> "text_delta", delta |-> c].type = "text_delta"
  OBVIOUS
<1> QED
  BY <1>1, <1>4, <1>6, <1>7 DEF Stream!PiStreams, PiMoves, Stream!Talks

LEMMA EndMoves ==
    ASSUME StreamTypes, NEW text \in {pi.text, <<>>}, NEW reason \in Reason,
           Stream!PiEnds(text, reason)
    PROVE  \E e \in Heard :
             /\ PiMoves(e) /\ Stream!Talks
             /\ e.type = "message_end" /\ e.text = text /\ e.reason = reason
             /\ pi'.said = IF reason = "stop" THEN Append(pi.said, text) ELSE pi.said
             /\ pi'.last = reason /\ UNCHANGED <<pi.settled, pi.entries>>
<1> DEFINE e == [type |-> "message_end", text |-> text, reason |-> reason]
<1>1. pi' = [pi EXCEPT !.open = FALSE, !.last = reason, !.body = TRUE, !.events = @ + 1,
                       !.said = IF reason = "stop" THEN Append(@, text) ELSE @]
  BY DEF Stream!PiEnds
<1>2. pi \in PiRow
  BY DEF StreamTypes
<1>13. <<>> \in Text
  BY DEF Text
<1>3. text \in Text
  BY <1>2, <1>13 DEF PiRow
<1>9. pi.said \in Seq(Text)
  BY <1>2 DEF PiRow
<1> DEFINE new == IF reason = "stop" THEN Append(pi.said, text) ELSE pi.said
<1>4. new \in Seq(Text)
  BY <1>3, <1>9
<1>11. pi.events + 1 \in Nat
  BY <1>2 DEF PiRow
<1>12. PICK n \in Nat : n = pi.events + 1
  BY <1>11
<1>10. pi' = [pi EXCEPT !.open = FALSE, !.last = reason, !.body = TRUE, !.events = n,
                        !.said = new]
  BY <1>1, <1>12
<1> HIDE DEF new
<1>5. pi' \in PiRow
  BY <1>2, <1>4, <1>10 DEF PiRow
<1>6. e \in [type : {"message_end"}, text : Text, reason : Reason]
  BY <1>3
<1>7. e \in Heard
  BY <1>6, Zenon DEF Heard
<1>14. pi'.said = new /\ pi'.last = reason /\ UNCHANGED <<pi.settled, pi.entries>>
  BY <1>2, <1>10 DEF PiRow
<1>8. e.type = "message_end" /\ e.text = text /\ e.reason = reason
  OBVIOUS
<1> QED
  BY <1>5, <1>7, <1>8, <1>14 DEF Stream!PiEnds, PiMoves, Stream!Talks, new
-----------------------------------------------------------------------------
LEMMA HeardTypes ==
    ASSUME NEW e \in Heard
    PROVE  /\ e.type = "message_end" => e.text \in Text /\ e.reason \in Reason
           /\ e.type = "text_delta" => e.delta \in Chunk
           /\ e.type = "response" => e.id \in Asked /\ e.entries \in Entries
BY DEF Heard, Bare

\* What the host was told and holds of the answer.
Holds == <<host.resume, host.content, host.drafts, host.last>>

LEMMA FailIs ==
    ASSUME host \in HostRow, NEW step \in Steps, Stream!Fail(step)
    PROVE  host' \in HostRow /\ host'.step = step /\ UNCHANGED Holds /\ host'.waits = host.waits
BY DEF HostRow, Stream!Fail, Holds

LEMMA ConfigureMoves ==
    ASSUME StreamTypes, Stream!Configure
    PROVE  /\ host.step = "spawned" /\ host' \in HostRow /\ host'.step = "configures"
           /\ host'.waits = Stream!Control /\ UNCHANGED Holds
           /\ pi' \in PiRow /\ pi' = [pi EXCEPT !.asked = Stream!Control]
           /\ UNCHANGED <<wire, lagged, watch>>
<1>1. host \in HostRow /\ pi \in PiRow
  BY DEF StreamTypes
<1>2. host' = [host EXCEPT !.step = "configures", !.waits = Stream!Control]
  BY DEF Stream!Configure
<1>3. host' \in HostRow
  BY <1>1, <1>2 DEF HostRow, Steps, Early
<1>4. Stream!Control \subseteq Asked
  BY DEF Asked
<1>5. pi' \in PiRow
  BY <1>1, <1>4 DEF PiRow, Stream!Configure
<1> QED
  BY <1>1, <1>2, <1>3, <1>5 DEF Stream!Configure, Holds, HostRow

LEMMA ControlMoves ==
    ASSUME StreamTypes, Stream!HearControl
    PROVE  /\ host.step = "configures" /\ wire # <<>> /\ Stream!Read /\ UNCHANGED watch
           /\ host' \in HostRow /\ pi' \in PiRow /\ UNCHANGED Holds
           /\ \/ host'.step = "stopping" /\ UNCHANGED pi
              \/ host'.step = "configures" /\ host'.waits = host.waits /\ UNCHANGED pi
                 /\ wire[1].type # "response"
              \/ /\ wire[1].type = "response" /\ host'.waits = host.waits \ {wire[1].id}
                 /\ wire[1].id = "entries" => Stream!Acceptable(wire[1].entries)
                 /\ \/ host'.step = "configures" /\ UNCHANGED pi
                    \/ /\ host'.step = "loop" /\ host.waits = {wire[1].id} /\ ~lagged
                       /\ pi' = [pi EXCEPT !.asked = {"prompt"}]
<1> DEFINE e == Head(wire)
<1>1. host \in HostRow /\ pi \in PiRow
  BY DEF StreamTypes
<1>2. host.step = "configures" /\ wire # <<>> /\ Stream!Read /\ UNCHANGED watch /\ e = wire[1]
  BY DEF Stream!HearControl, StreamTypes
<1>3. pi' = IF host'.step = "loop" THEN [pi EXCEPT !.asked = {"prompt"}] ELSE pi
  BY DEF Stream!HearControl
<1>4. [pi EXCEPT !.asked = {"prompt"}] \in PiRow
  BY <1>1 DEF PiRow, Asked
<1>5. pi' \in PiRow
  BY <1>1, <1>3, <1>4
<1>6. CASE lagged \/ e.type = "gone"
  <2>1. Stream!Fail("stopping")
    BY <1>6 DEF Stream!HearControl
  <2> QED
    BY <1>1, <1>2, <1>3, <1>5, <2>1, FailIs DEF Steps, Early
<1>7. CASE ~(lagged \/ e.type = "gone") /\ e.type # "response"
  <2>1. host' = host
    BY <1>7 DEF Stream!HearControl
  <2> QED
    BY <1>1, <1>2, <1>3, <1>5, <1>7, <2>1 DEF Holds
<1>8. CASE ~(lagged \/ e.type = "gone") /\ e.type = "response"
  <2>1. CASE ~e.success \/ (e.id = "entries" /\ ~Stream!Acceptable(e.entries))
    <3>1. Stream!Fail("stopping")
      BY <1>8, <2>1 DEF Stream!HearControl
    <3> QED
      BY <1>1, <1>2, <1>3, <1>5, <3>1, FailIs DEF Steps, Early
  <2>2. CASE ~(~e.success \/ (e.id = "entries" /\ ~Stream!Acceptable(e.entries)))
    <3>1. host' = [host EXCEPT !.waits = @ \ {e.id},
                               !.step = IF host.waits = {e.id} THEN "loop" ELSE @]
      BY <1>8, <2>2 DEF Stream!HearControl
    <3>2. PICK w, s : w = host.waits \ {e.id}
                      /\ s = IF host.waits = {e.id} THEN "loop" ELSE host.step
      OBVIOUS
    <3>3. host' = [host EXCEPT !.waits = w, !.step = s]
      BY <3>1, <3>2
    <3>4. w \in SUBSET Stream!Control /\ s \in Steps
      BY <1>1, <3>2 DEF HostRow, Steps
    <3>5. host' \in HostRow /\ host'.waits = w /\ host'.step = s /\ UNCHANGED Holds
      BY <1>1, <3>3, <3>4 DEF HostRow, Holds
    <3>6. e.id = "entries" => Stream!Acceptable(e.entries)
      BY <2>2
    <3> QED
      BY <1>2, <1>3, <1>5, <1>8, <3>2, <3>5, <3>6
  <2> QED
    BY <2>1, <2>2
<1> QED
  BY <1>6, <1>7, <1>8

LEMMA RelaunchMoves ==
    ASSUME StreamTypes, Stream!Relaunch
    PROVE  /\ host.step = "stopping" /\ UNCHANGED watch /\ host' \in HostRow /\ pi' \in PiRow
           /\ \/ /\ host'.step = "spawned" /\ wire' = <<>> /\ lagged' = FALSE
                 /\ UNCHANGED <<host.content, host.drafts, host.last>>
                 /\ UNCHANGED <<pi.said, pi.last, pi.settled, pi.body>>
              \/ host'.step = "failed" /\ UNCHANGED <<pi, wire, lagged>>
<1>1. host \in HostRow /\ pi \in PiRow
  BY DEF StreamTypes
<1>2. host.step = "stopping" /\ UNCHANGED watch
  BY DEF Stream!Relaunch
<1>3. CASE host.resume = "warm"
  <2>1. host' = [host EXCEPT !.step = "spawned", !.resume = "cold", !.waits = {}]
        /\ wire' = <<>> /\ lagged' = FALSE
    BY <1>3 DEF Stream!Relaunch
  <2>2. PICK left \in {"none", "other"} :
          pi' = [pi EXCEPT !.up = TRUE, !.entries = left, !.asked = {}]
    BY <1>3 DEF Stream!Relaunch
  <2>3. /\ host' \in HostRow /\ host'.step = "spawned"
        /\ UNCHANGED <<host.content, host.drafts, host.last>>
    BY <1>1, <2>1 DEF HostRow, Steps, Early
  <2>4. pi' \in PiRow /\ UNCHANGED <<pi.said, pi.last, pi.settled, pi.body>>
    BY <1>1, <2>2 DEF PiRow, Entries
  <2> QED
    BY <1>2, <2>1, <2>3, <2>4
<1>4. CASE host.resume # "warm"
  <2>1. Stream!Fail("failed") /\ UNCHANGED <<pi, wire, lagged>>
    BY <1>4 DEF Stream!Relaunch
  <2> QED
    BY <1>1, <1>2, <2>1, FailIs DEF Steps
<1> QED
  BY <1>3, <1>4

\* What the loop makes of the event that it hears.
HandleMoves(e) ==
    \/ host'.step = "failed" /\ UNCHANGED pi
    \/ /\ ~lagged /\ IsEnd(e) /\ host'.step = host.step /\ UNCHANGED <<pi, host.resume>>
       /\ host'.last = e.reason
       /\ IF e.reason = "stop"
          THEN /\ host'.content = Append(host.content, e.text)
               /\ host'.drafts = Append(host.drafts, e.text)
          ELSE UNCHANGED <<host.content, host.drafts>>
    \/ /\ ~lagged /\ ~IsEnd(e) /\ host'.step = host.step /\ UNCHANGED <<pi, Holds>>
    \/ /\ ~lagged /\ e.type = "agent_settled" /\ host.last = "stop" /\ host'.step = "settled"
       /\ UNCHANGED Holds /\ pi' = [pi EXCEPT !.asked = {"cursor"}]

LEMMA Handled ==
    ASSUME StreamTypes, NEW e \in Heard, Stream!Handle(e)
    PROVE  host' \in HostRow /\ pi' \in PiRow /\ HandleMoves(e)
<1>1. host \in HostRow /\ pi \in PiRow
  BY DEF StreamTypes
<1>2. CASE Stream!Fail("failed") /\ UNCHANGED pi
  BY <1>1, <1>2, FailIs DEF Steps, HandleMoves
<1> DEFINE bad == Stream!IsLost \/ e.type = "gone" \/ Stream!Refused(e) \/ Stream!Misfit(e)
<1>3. CASE ~bad /\ e.type # "agent_settled"
  <2>1. host' = Stream!Captured(e) /\ UNCHANGED pi /\ ~lagged /\ ~Stream!Misfit(e)
    BY <1>3 DEF Stream!Handle, Stream!IsLost
  <2>2. CASE e.type = "message_start"
    <3>1. host' = [host EXCEPT !.active = TRUE, !.streamed = <<>>]
      BY <2>1, <2>2 DEF Stream!Captured, Stream!NoText
    <3>2. <<>> \in Text
      BY DEF Text
    <3> QED
      BY <1>1, <2>1, <2>2, <3>1, <3>2 DEF HostRow, Holds, HandleMoves, IsEnd
  <2>3. CASE e.type = "text_delta"
    <3>1. host' = [host EXCEPT !.streamed = Append(@, e.delta)]
      BY <2>1, <2>3 DEF Stream!Captured
    <3>2. host.streamed \in Text /\ e.delta \in Chunk
      BY <1>1, <2>3, HeardTypes DEF HostRow
    <3>3. Append(host.streamed, e.delta) \in Text
      BY <3>2 DEF Text
    <3>4. PICK new \in Text : host' = [host EXCEPT !.streamed = new]
      BY <3>1, <3>3
    <3> QED
      BY <1>1, <2>1, <2>3, <3>4 DEF HostRow, Holds, HandleMoves, IsEnd
  <2>4. CASE e.type = "message_end"
    <3>1. e.text \in Text /\ e.reason \in Reason /\ host.streamed = e.text
      BY <2>1, <2>4, HeardTypes DEF Stream!Misfit
    <3>2. host.content \in Seq(Text) /\ host.drafts \in Seq(Text)
      BY <1>1 DEF HostRow
    <3>3. CASE e.reason = "stop"
      <4>1. PICK c, d : c = Append(host.content, e.text) /\ d = Append(host.drafts, e.text)
        OBVIOUS
      <4>2. c \in Seq(Text) /\ d \in Seq(Text)
        BY <3>1, <3>2, <4>1
      <4>3. host' = [host EXCEPT !.active = FALSE, !.last = e.reason, !.completed = TRUE,
                                 !.content = c, !.drafts = d]
        BY <2>1, <2>4, <3>1, <3>3, <4>1 DEF Stream!Captured
      <4>4. /\ host' \in HostRow /\ host'.last = e.reason /\ host'.step = host.step
            /\ host'.resume = host.resume /\ host'.content = c /\ host'.drafts = d
        BY <1>1, <3>1, <4>2, <4>3 DEF HostRow
      <4> QED
        BY <1>1, <2>1, <2>4, <3>3, <4>1, <4>4 DEF HandleMoves, IsEnd
    <3>4. CASE e.reason # "stop"
      <4>1. host' = [host EXCEPT !.active = FALSE, !.last = e.reason, !.completed = @ \/ FALSE,
                                 !.content = @, !.drafts = @]
        BY <2>1, <2>4, <3>4 DEF Stream!Captured
      <4>2. PICK b \in BOOLEAN : host' = [host EXCEPT !.active = FALSE, !.last = e.reason,
                                                      !.completed = b]
        BY <1>1, <4>1 DEF HostRow
      <4>3. /\ host' \in HostRow /\ host'.last = e.reason /\ host'.step = host.step
            /\ UNCHANGED <<host.resume, host.content, host.drafts>>
        BY <1>1, <3>1, <4>2 DEF HostRow
      <4> QED
        BY <1>1, <2>1, <2>4, <3>4, <4>3 DEF HandleMoves, IsEnd
    <3> QED
      BY <3>3, <3>4
  <2>5. CASE e.type \notin {"message_start", "text_delta", "message_end"}
    <3>1. host' = host
      BY <2>1, <2>5 DEF Stream!Captured
    <3> QED
      BY <1>1, <2>1, <2>5, <3>1 DEF Holds, HandleMoves, IsEnd
  <2> QED
    BY <2>2, <2>3, <2>4, <2>5
<1>4. CASE ~bad /\ e.type = "agent_settled" /\ Stream!SettlesWell
  <2>1. /\ host' = [host EXCEPT !.step = "settled"] /\ pi' = [pi EXCEPT !.asked = {"cursor"}]
        /\ ~lagged /\ host.last = "stop"
    BY <1>4 DEF Stream!Handle, Stream!IsLost, Stream!SettlesWell
  <2>2. host' \in HostRow /\ host'.step = "settled" /\ UNCHANGED Holds
    BY <1>1, <2>1 DEF HostRow, Steps, Holds
  <2>3. pi' \in PiRow
    BY <1>1, <2>1 DEF PiRow, Asked
  <2> QED
    BY <1>4, <2>1, <2>2, <2>3 DEF HandleMoves
<1>5. CASE ~bad /\ e.type = "agent_settled" /\ ~Stream!SettlesWell
  <2>1. Stream!Fail("failed") /\ UNCHANGED pi
    BY <1>5 DEF Stream!Handle
  <2> QED
    BY <1>2, <2>1
<1>6. CASE bad
  <2>1. Stream!Fail("failed") /\ UNCHANGED pi
    BY <1>6 DEF Stream!Handle
  <2> QED
    BY <1>2, <2>1
<1> QED
  BY <1>3, <1>4, <1>5, <1>6

LEMMA CursorMoves ==
    ASSUME StreamTypes, Stream!HearCursor
    PROVE  /\ host.step = "settled" /\ wire # <<>> /\ Stream!Read /\ UNCHANGED <<pi, watch>>
           /\ host' \in HostRow /\ host'.step \in {"settled", "complete"} /\ UNCHANGED Holds
<1> DEFINE e == Head(wire)
<1>1. host \in HostRow /\ wire # <<>> /\ Stream!Read /\ host.step = "settled"
      /\ UNCHANGED <<pi, watch>>
  BY DEF StreamTypes, Stream!HearCursor
<1>2. e \in Heard
  BY <1>1 DEF StreamTypes
<1>3. CASE lagged \/ e.type = "gone"
  <2>1. Stream!Fail("complete")
    BY <1>3 DEF Stream!HearCursor
  <2> QED
    BY <1>1, <2>1, FailIs DEF Steps
<1>4. CASE ~(lagged \/ e.type = "gone") /\ e.type = "response" /\ e.id = "cursor"
  <2>1. PICK c : c = IF e.success THEN e.entries ELSE "none"
    OBVIOUS
  <2>2. c \in Entries
    BY <1>2, <1>4, <2>1, HeardTypes DEF Entries
  <2>3. host' = [host EXCEPT !.step = "complete", !.cursor = c]
    BY <1>4, <2>1 DEF Stream!HearCursor
  <2> QED
    BY <1>1, <2>2, <2>3 DEF HostRow, Steps, Holds
<1>5. CASE ~(lagged \/ e.type = "gone") /\ ~(e.type = "response" /\ e.id = "cursor")
  <2>1. host' = host
    BY <1>5 DEF Stream!HearCursor
  <2> QED
    BY <1>1, <2>1 DEF Holds
<1> QED
  BY <1>3, <1>4, <1>5
-----------------------------------------------------------------------------
LEMMA WatchedIs ==
    ASSUME watch \in WatchRow, NEW e
    PROVE  /\ Stream!Watched(e) \in WatchRow
           /\ Stream!Watched(e).now = watch.now /\ Stream!Watched(e).late = watch.late
           /\ Stream!Watched(e).deferred \in {0, watch.deferred}
           /\ Stream!IsProgress(e) \/ watch.mode = "satisfied" =>
                Stream!Watched(e).mode = "satisfied"
           /\ Stream!Watched(e).mode # "satisfied" /\ watch.now >= TotalTime =>
                Stream!Watched(e).deferred = watch.deferred
<1> DEFINE w == Stream!Watched(e)
<1>5. /\ Stream!Forgiven \in {0, watch.deferred} /\ Stream!Forgiven \in Nat
      /\ watch.now >= TotalTime => Stream!Forgiven = watch.deferred
  BY StreamAssumption DEF Stream!Forgiven, WatchRow
<1>1. CASE Stream!IsProgress(e)
  <2>1. w = [watch EXCEPT !.mode = "satisfied", !.deferred = 0]
    BY <1>1 DEF Stream!Watched, Stream!IsProgress
  <2>2. /\ w \in WatchRow /\ w.now = watch.now /\ w.late = watch.late /\ w.deferred = 0
        /\ w.mode = "satisfied"
    <3> HIDE DEF w
    <3> QED
      BY <2>1 DEF WatchRow
  <2> QED
    BY <2>2
<1>2. CASE ~Stream!IsProgress(e) /\ e.type = "compaction_start" /\ watch.mode = "awaiting"
  <2>1. w = [watch EXCEPT !.mode = "compacting", !.deferred = Stream!Forgiven]
    BY <1>2 DEF Stream!Watched
  <2>2. /\ w \in WatchRow /\ w.now = watch.now /\ w.late = watch.late
        /\ w.deferred = Stream!Forgiven /\ w.mode = "compacting"
    <3> HIDE DEF w
    <3> QED
      BY <1>5, <2>1 DEF WatchRow
  <2> QED
    BY <1>2, <1>5, <2>2
<1>3. CASE ~Stream!IsProgress(e) /\ e.type = "compaction_end" /\ watch.mode = "compacting"
  <2>1. w = [watch EXCEPT !.mode = "awaiting", !.body = watch.now + BodyTime,
                          !.deferred = Stream!Forgiven]
    BY <1>3 DEF Stream!Watched
  <2>3. PICK b \in Nat : b = watch.now + BodyTime
    BY StreamAssumption DEF WatchRow
  <2>2. /\ w \in WatchRow /\ w.now = watch.now /\ w.late = watch.late
        /\ w.deferred = Stream!Forgiven /\ w.mode = "awaiting"
    <3> HIDE DEF w
    <3> QED
      BY <1>5, <2>1, <2>3 DEF WatchRow
  <2> QED
    BY <1>3, <1>5, <2>2
<1>4. CASE /\ ~Stream!IsProgress(e)
           /\ ~(e.type = "compaction_start" /\ watch.mode = "awaiting")
           /\ ~(e.type = "compaction_end" /\ watch.mode = "compacting")
  <2>1. w = watch
    BY <1>4 DEF Stream!Watched
  <2> QED
    BY <1>4, <2>1
<1> QED
  BY <1>1, <1>2, <1>3, <1>4

LEMMA HearWatch ==
    ASSUME StreamTypes, Counted, NEW counts \in BOOLEAN, Stream!Hear(counts)
    PROVE  /\ watch' \in WatchRow /\ Counted'
           /\ Stream!IsProgress(wire[1]) \/ watch.mode = "satisfied" => watch'.mode = "satisfied"
<1>1. watch \in WatchRow /\ Head(wire) = wire[1]
  BY DEF StreamTypes, Stream!Hear
<1>2. PICK w : w = Stream!Watched(wire[1])
  OBVIOUS
<1>3. /\ w \in WatchRow /\ w.now = watch.now /\ w.late = watch.late
      /\ w.deferred \in {0, watch.deferred}
      /\ Stream!IsProgress(wire[1]) \/ watch.mode = "satisfied" => w.mode = "satisfied"
      /\ w.mode # "satisfied" /\ watch.now >= TotalTime => w.deferred = watch.deferred
  BY <1>1, <1>2, WatchedIs
<1>4. PICK s, d, l :
        /\ s = IF Stream!ExpiredAt(w) THEN "queued" ELSE "fair"
        /\ d = IF counts /\ w.mode # "satisfied" /\ w.deferred = watch.deferred
               THEN w.deferred + 1 ELSE w.deferred
        /\ l = IF w.mode # "satisfied" /\ w.now >= TotalTime THEN w.late + 1 ELSE w.late
  OBVIOUS
<1>5. watch' = [w EXCEPT !.select = s, !.deferred = d, !.late = l]
  BY <1>1, <1>2, <1>4 DEF Stream!Hear
<1>6. s \in {"fair", "queued"} /\ d \in Nat /\ l \in Nat
  BY <1>3, <1>4 DEF WatchRow
<1>7. /\ watch' \in WatchRow /\ watch'.now = watch.now /\ watch'.mode = w.mode
      /\ watch'.select = s /\ watch'.deferred = d /\ watch'.late = l
  BY <1>3, <1>5, <1>6 DEF WatchRow
<1>8. w.mode # "satisfied" /\ w.now >= TotalTime => s = "queued"
  BY <1>3, <1>4, StreamAssumption DEF Stream!ExpiredAt, Stream!Earlier, WatchRow
<1>9. /\ counts => watch.mode # "satisfied" /\ watch.deferred < Deferrals
      /\ ~counts => watch.select = "fair"
  BY DEF Stream!Hear, Stream!Expired, Stream!ExpiredAt
<1>10. d <= Deferrals
  BY <1>1, <1>3, <1>4, <1>9, StreamAssumption DEF Counted, WatchRow
<1>11. CASE w.mode = "satisfied"
  BY <1>1, <1>3, <1>4, <1>7, <1>10, <1>11 DEF Counted
<1>12. CASE w.mode # "satisfied" /\ ~(watch.now >= TotalTime)
  <2>1. watch.late = 0
    BY <1>3, <1>12 DEF Counted
  <2> QED
    BY <1>1, <1>3, <1>4, <1>7, <1>10, <1>12, <2>1, StreamAssumption DEF Counted
<1>13. CASE w.mode # "satisfied" /\ watch.now >= TotalTime
  <2>1. l = watch.late + 1 /\ w.deferred = watch.deferred /\ s = "queued"
    BY <1>3, <1>4, <1>8, <1>13
  <2>2. l <= d + 1
    <3>1. CASE counts
      <4>1. d = watch.deferred + 1
        BY <1>4, <1>13, <2>1, <3>1
      <4>2. watch.late = 0 \/ watch.late <= watch.deferred + 1
        BY <1>3, <1>13 DEF Counted
      <4> QED
        BY <1>1, <2>1, <4>1, <4>2 DEF WatchRow
    <3>2. CASE ~counts
      <4>1. watch.late = 0
        BY <1>3, <1>9, <1>13, <3>2 DEF Counted
      <4> QED
        BY <1>6, <2>1, <4>1
    <3> QED
      BY <3>1, <3>2
  <2>3. l <= Deferrals + 1
    BY <1>6, <1>10, <2>2, StreamAssumption
  <2> QED
    BY <1>3, <1>7, <1>10, <1>13, <2>1, <2>2, <2>3 DEF Counted
<1>14. Counted'
  BY <1>11, <1>12, <1>13
<1> QED
  BY <1>3, <1>7, <1>14
-----------------------------------------------------------------------------
\* Something is said behind all that is on the wire.
LEMMA Appended ==
    ASSUME StreamTypes, Follows, host.step = "loop", UNCHANGED host,
           NEW e \in Heard, Stream!Emit(e),
           pi'.said = IF StopEnd(e) THEN Append(pi.said, e.text) ELSE pi.said,
           pi'.last = IF IsEnd(e) THEN e.reason ELSE pi.last,
           \/ IsQuiet(e) /\ pi'.settled = pi.settled
           \/ ~pi.settled /\ (e.type = "agent_settled" => pi'.settled)
    PROVE  Follows'
<1> SUFFICES ASSUME ~lagged'
             PROVE  (/\ \E n \in [0 .. Len(wire) -> 0 .. Len(pi.said)] : Counts(n)
                     /\ Begins /\ LastEnd /\ SettledLast)'
  BY DEF Follows
<1> DEFINE W == Len(wire)  L == Len(pi.said)
<1>1. pi.said \in Seq(Text) /\ wire \in Seq(Heard) /\ W \in Nat /\ L \in Nat
  BY DEF StreamTypes, PiRow
<1>2. ~lagged /\ wire' = Append(wire, e)
  BY Emitted DEF StreamTypes
<1>3. Len(wire') = W + 1 /\ wire'[W + 1] = e /\ \A i \in 1 .. W : wire'[i] = wire[i]
  BY <1>1, <1>2
<1>4. PICK n \in [0 .. W -> 0 .. L] : Counts(n)
  BY <1>2 DEF Follows
<1>5. Begins /\ LastEnd /\ SettledLast
  BY <1>2 DEF Follows
<1>8. /\ Len(pi'.said) = IF StopEnd(e) THEN L + 1 ELSE L
      /\ StopEnd(e) => pi'.said[L + 1] = e.text
      /\ \A k \in 1 .. L : pi'.said[k] = pi.said[k]
  <2>1. StopEnd(e) => e.text \in Text
    BY HeardTypes DEF StopEnd, IsEnd
  <2>2. CASE StopEnd(e)
    BY <1>1, <2>1, <2>2
  <2>3. CASE ~StopEnd(e)
    BY <2>3
  <2> QED
    BY <2>2, <2>3
<1>9. \E m \in [0 .. Len(wire') -> 0 .. Len(pi'.said)] : Counts(m)'
  <2>8. PICK m : m = [i \in 0 .. W + 1 |-> IF i = W + 1 THEN Len(pi'.said) ELSE n[i]]
    OBVIOUS
  <2>1. m \in [0 .. Len(wire') -> 0 .. Len(pi'.said)]
    <3>1. \A i \in 0 .. W + 1 : i # W + 1 => i \in 0 .. W
      BY <1>1
    <3>2. \A i \in 0 .. W : n[i] \in 0 .. Len(pi'.said)
      BY <1>1, <1>4, <1>8
    <3>3. Len(pi'.said) \in 0 .. Len(pi'.said)
      BY <1>1, <1>8
    <3> QED
      BY <1>3, <2>8, <3>1, <3>2, <3>3
  <2>2. m[W + 1] = Len(pi'.said) /\ \A i \in 0 .. W : m[i] = n[i]
    BY <1>1, <2>8
  <2>3. \A i \in 0 .. W : n[i] \in Nat /\ n[i] <= L
    BY <1>1, <1>4
  <2>4. m[0] = Len(host'.content) /\ m[Len(wire')] = Len(pi'.said)
    BY <1>1, <1>3, <1>4, <2>2 DEF Counts
  <2>5. ASSUME NEW i \in 1 .. Len(wire')
        PROVE  IF StopEnd(wire'[i])
               THEN m[i] = m[i - 1] + 1 /\ pi'.said[m[i]] = wire'[i].text
               ELSE m[i] = m[i - 1]
    <3>1. CASE i = W + 1
      <4>1. i - 1 = W /\ m[W] = L /\ m[i] = Len(pi'.said) /\ wire'[i] = e
        BY <1>1, <1>3, <1>4, <2>2, <3>1 DEF Counts
      <4> QED
        BY <1>8, <4>1
    <3>2. CASE i # W + 1
      <4>1. i \in 1 .. W /\ i - 1 \in 0 .. W /\ i \in 0 .. W
        BY <1>1, <1>3, <3>2
      <4>2. m[i] = n[i] /\ m[i - 1] = n[i - 1] /\ wire'[i] = wire[i]
        BY <1>3, <2>2, <4>1
      <4>3. IF StopEnd(wire[i]) THEN n[i] = n[i - 1] + 1 /\ pi.said[n[i]] = wire[i].text
                                ELSE n[i] = n[i - 1]
        BY <1>4, <4>1 DEF Counts
      <4>4. StopEnd(wire[i]) => n[i] \in 1 .. L
        BY <1>1, <2>3, <4>1, <4>3
      <4> QED
        BY <1>8, <4>2, <4>3, <4>4
    <3> QED
      BY <3>1, <3>2
  <2>6. ASSUME NEW i \in 0 .. Len(wire'), \A j \in i + 1 .. Len(wire') : ~StopEnd(wire'[j])
        PROVE  m[i] = Len(pi'.said)
    <3>1. CASE i = W + 1
      BY <2>2, <3>1
    <3>2. CASE i # W + 1
      <4>1. i \in 0 .. W /\ W + 1 \in i + 1 .. Len(wire')
        BY <1>1, <1>3, <3>2
      <4>2. ~StopEnd(e)
        BY <1>3, <2>6, <4>1
      <4>3. \A j \in i + 1 .. W : j \in i + 1 .. Len(wire') /\ j \in 1 .. W
        BY <1>1, <1>3, <4>1
      <4>4. \A j \in i + 1 .. W : ~StopEnd(wire[j])
        BY <1>3, <2>6, <4>3
      <4>5. n[i] = L
        BY <1>4, <4>1, <4>4 DEF Counts
      <4> QED
        BY <1>8, <2>2, <4>1, <4>2, <4>5
    <3> QED
      BY <3>1, <3>2
  <2>7. Counts(m)'
    BY <2>4, <2>5, <2>6 DEF Counts, StopEnd, IsEnd
  <2> QED
    BY <2>1, <2>7
<1>10. Begins'
  BY <1>1, <1>5, <1>8 DEF Begins, StreamTypes, HostRow
<1>11. LastEnd'
  <2>1. ASSUME NEW i \in 1 .. Len(wire'), IsEnd(wire'[i]),
               \A j \in i + 1 .. Len(wire') : ~IsEnd(wire'[j])
        PROVE  wire'[i].reason = pi'.last
    <3>1. CASE i = W + 1
      BY <1>3, <2>1, <3>1
    <3>2. CASE i # W + 1
      <4>1. i \in 1 .. W /\ W + 1 \in i + 1 .. Len(wire')
        BY <1>1, <1>3, <3>2
      <4>2. ~IsEnd(e)
        BY <1>3, <2>1, <4>1
      <4>3. \A j \in i + 1 .. W : j \in i + 1 .. Len(wire') /\ j \in 1 .. W
        BY <1>1, <1>3, <4>1
      <4>4. \A j \in i + 1 .. W : ~IsEnd(wire[j])
        BY <1>3, <2>1, <4>3
      <4> QED
        BY <1>3, <1>5, <2>1, <4>1, <4>2, <4>4 DEF LastEnd
    <3> QED
      BY <3>1, <3>2
  <2>2. ASSUME \A j \in 1 .. Len(wire') : ~IsEnd(wire'[j]) PROVE host'.last = pi'.last
    <3>1. W + 1 \in 1 .. Len(wire') /\ \A j \in 1 .. W : j \in 1 .. Len(wire')
      BY <1>1, <1>3
    <3>2. ~IsEnd(e) /\ \A j \in 1 .. W : ~IsEnd(wire[j])
      BY <1>3, <2>2, <3>1
    <3> QED
      BY <1>5, <3>2 DEF LastEnd
  <2> QED
    BY <2>1, <2>2 DEF LastEnd, IsEnd
<1>12. SettledLast'
  <2>1. ASSUME NEW i \in 1 .. Len(wire'), wire'[i].type = "agent_settled"
        PROVE  pi'.settled /\ \A j \in i + 1 .. Len(wire') : IsQuiet(wire'[j])
    <3>1. CASE i = W + 1
      <4>1. \A j \in i + 1 .. Len(wire') : FALSE
        BY <1>1, <1>3, <3>1
      <4>2. ~IsQuiet(e)
        BY <1>3, <2>1, <3>1 DEF IsQuiet
      <4> QED
        BY <1>3, <2>1, <3>1, <4>1, <4>2
    <3>2. CASE i # W + 1
      <4>1. i \in 1 .. W
        BY <1>1, <1>3, <3>2
      <4>2. pi.settled /\ \A j \in i + 1 .. W : IsQuiet(wire[j])
        BY <1>3, <1>5, <2>1, <4>1 DEF SettledLast
      <4>3. IsQuiet(e) /\ pi'.settled
        BY <4>2
      <4>4. \A j \in i + 1 .. Len(wire') : j = W + 1 \/ (j \in i + 1 .. W /\ j \in 1 .. W)
        BY <1>1, <1>3, <4>1
      <4>5. \A j \in i + 1 .. Len(wire') : IsQuiet(wire'[j])
        BY <1>3, <4>2, <4>3, <4>4
      <4> QED
        BY <4>3, <4>5
    <3> QED
      BY <3>1, <3>2
  <2> QED
    BY <2>1 DEF SettledLast, IsQuiet
<1> QED
  BY <1>9, <1>10, <1>11, <1>12

\* The oldest event is heard.
LEMMA HeardFollows ==
    ASSUME StreamTypes, Follows, host.step = "loop", wire # <<>>, Stream!Read,
           HandleMoves(wire[1]), host'.step = "loop"
    PROVE  Follows'
<1> DEFINE W == Len(wire)  L == Len(pi.said)  e == wire[1]
<1>1. pi.said \in Seq(Text) /\ wire \in Seq(Heard) /\ L \in Nat /\ host.content \in Seq(Text)
  BY DEF StreamTypes, PiRow, HostRow
<1>2. W \in Nat \ {0} /\ Len(wire') = W - 1 /\ \A i \in 1 .. W - 1 : wire'[i] = wire[i + 1]
  BY <1>1, IsRead
<1>3. ~lagged /\ UNCHANGED pi
  BY DEF HandleMoves
<1>4. PICK n \in [0 .. W -> 0 .. L] : Counts(n)
  BY <1>3 DEF Follows
<1>5. Begins /\ LastEnd /\ SettledLast
  BY <1>3 DEF Follows
<1>6. 1 \in 1 .. W /\ 0 \in 0 .. W
  BY <1>2
<1>7. IF StopEnd(e) THEN n[1] = n[0] + 1 /\ pi.said[n[1]] = e.text ELSE n[1] = n[0]
  <2>1. IF StopEnd(wire[1]) THEN n[1] = n[1 - 1] + 1 /\ pi.said[n[1]] = wire[1].text
                            ELSE n[1] = n[1 - 1]
    BY <1>4, <1>6 DEF Counts
  <2> QED
    BY <2>1
<1>8. \A i \in 0 .. W : n[i] \in Nat /\ n[i] <= L
  BY <1>1, <1>4
<1>9. /\ StopEnd(e) => /\ host'.content = Append(host.content, e.text) /\ e.text \in Text
                       /\ host'.drafts = Append(host.drafts, e.text)
      /\ ~StopEnd(e) => UNCHANGED <<host.content, host.drafts>>
      /\ host'.last = IF IsEnd(e) THEN e.reason ELSE host.last
  <2>1. e \in Heard
    BY <1>1, <1>6
  <2> QED
    BY <2>1, HeardTypes DEF HandleMoves, StopEnd, IsEnd, Holds
<1>10. Len(host'.content) = n[1]
  <2>1. n[0] = Len(host.content) /\ Len(host.content) \in Nat
    BY <1>1, <1>4 DEF Counts
  <2>2. StopEnd(e) => Len(host'.content) = Len(host.content) + 1
    BY <1>1, <1>9
  <2> QED
    BY <1>7, <1>9, <2>1, <2>2
<1>11. \E m \in [0 .. Len(wire') -> 0 .. Len(pi'.said)] : Counts(m)'
  <2>1. PICK m : m = [i \in 0 .. W - 1 |-> n[i + 1]]
    OBVIOUS
  <2>2. \A i \in 0 .. W - 1 : i + 1 \in 0 .. W /\ m[i] = n[i + 1]
    BY <1>2, <2>1
  <2>3. m \in [0 .. Len(wire') -> 0 .. Len(pi'.said)]
    BY <1>2, <1>3, <1>4, <2>1, <2>2
  <2>4. m[0] = Len(host'.content) /\ m[Len(wire')] = Len(pi'.said)
    <3>1. m[0] = n[1]
      BY <1>2, <2>2
    <3>2. m[W - 1] = n[W]
      BY <1>2, <2>2
    <3> QED
      BY <1>2, <1>3, <1>4, <1>10, <3>1, <3>2 DEF Counts
  <2>5. ASSUME NEW i \in 1 .. Len(wire')
        PROVE  IF StopEnd(wire'[i])
               THEN m[i] = m[i - 1] + 1 /\ pi'.said[m[i]] = wire'[i].text
               ELSE m[i] = m[i - 1]
    <3>1. /\ i \in 0 .. W - 1 /\ i - 1 \in 0 .. W - 1 /\ i + 1 \in 1 .. W /\ (i - 1) + 1 = i
          /\ i \in 1 .. W - 1 /\ (i + 1) - 1 = i
      BY <1>2
    <3>2. m[i] = n[i + 1] /\ m[i - 1] = n[i] /\ wire'[i] = wire[i + 1]
      BY <1>2, <2>2, <3>1
    <3>3. IF StopEnd(wire[i + 1])
          THEN n[i + 1] = n[(i + 1) - 1] + 1 /\ pi.said[n[i + 1]] = wire[i + 1].text
          ELSE n[i + 1] = n[(i + 1) - 1]
      BY <1>4, <3>1 DEF Counts
    <3> QED
      BY <1>3, <3>1, <3>2, <3>3
  <2>6. ASSUME NEW i \in 0 .. Len(wire'), \A j \in i + 1 .. Len(wire') : ~StopEnd(wire'[j])
        PROVE  m[i] = Len(pi'.said)
    <3>1. i \in 0 .. W - 1 /\ i + 1 \in 0 .. W
      BY <1>2
    <3>2. ASSUME NEW j \in (i + 1) + 1 .. W PROVE ~StopEnd(wire[j])
      <4>1. j - 1 \in i + 1 .. Len(wire') /\ j - 1 \in 1 .. W - 1 /\ (j - 1) + 1 = j
        BY <1>2, <3>1
      <4>2. wire'[j - 1] = wire[j]
        BY <1>2, <4>1
      <4> QED
        BY <2>6, <4>1, <4>2
    <3>3. n[i + 1] = L
      BY <1>4, <3>1, <3>2 DEF Counts
    <3> QED
      BY <1>3, <2>2, <3>1, <3>3
  <2>7. Counts(m)'
    BY <2>4, <2>5, <2>6 DEF Counts, StopEnd, IsEnd
  <2> QED
    BY <2>3, <2>7
<1>12. Begins'
  <2>1. host'.drafts = host'.content
    BY <1>5, <1>9 DEF Begins
  <2>2. Len(host'.content) <= Len(pi'.said)
    BY <1>3, <1>6, <1>8, <1>10, <1>2
  <2>3. ASSUME NEW k \in 1 .. Len(host'.content) PROVE host'.content[k] = pi'.said[k]
    <3>1. CASE ~StopEnd(e)
      BY <1>3, <1>5, <1>9, <3>1 DEF Begins
    <3>2. CASE StopEnd(e)
      <4>1. n[0] = Len(host.content) /\ Len(host.content) \in Nat
        BY <1>1, <1>4 DEF Counts
      <4>2. /\ \A i \in 1 .. Len(host.content) : host'.content[i] = host.content[i]
            /\ host'.content[Len(host.content) + 1] = e.text
            /\ Len(host'.content) = Len(host.content) + 1
        <5>1. host'.content = Append(host.content, e.text) /\ e.text \in Text
          BY <1>9, <3>2
        <5> QED
          BY <1>1, <5>1
      <4>3. pi.said[Len(host.content) + 1] = e.text
        BY <1>7, <3>2, <4>1
      <4>4. k \in 1 .. Len(host.content) \/ k = Len(host.content) + 1
        BY <4>1, <4>2
      <4> QED
        BY <1>3, <1>5, <4>2, <4>3, <4>4 DEF Begins
    <3> QED
      BY <3>1, <3>2
  <2> QED
    BY <2>1, <2>2, <2>3 DEF Begins
<1>13. \A i \in 1 .. W - 1 : i + 1 \in 1 .. W
  BY <1>2
<1>14. LastEnd'
  <2>1. ASSUME NEW i \in 1 .. Len(wire'), IsEnd(wire'[i]),
               \A j \in i + 1 .. Len(wire') : ~IsEnd(wire'[j])
        PROVE  wire'[i].reason = pi'.last
    <3>1. i \in 1 .. W - 1 /\ i + 1 \in 1 .. W
      BY <1>2
    <3>2. ASSUME NEW j \in (i + 1) + 1 .. W PROVE ~IsEnd(wire[j])
      <4>1. j - 1 \in i + 1 .. Len(wire') /\ j - 1 \in 1 .. W - 1 /\ (j - 1) + 1 = j
        BY <1>2, <3>1
      <4>2. wire'[j - 1] = wire[j]
        BY <1>2, <4>1
      <4> QED
        BY <2>1, <4>1, <4>2
    <3>3. wire[i + 1].reason = pi.last
      BY <1>2, <1>5, <2>1, <3>1, <3>2 DEF LastEnd
    <3> QED
      BY <1>2, <1>3, <3>1, <3>3
  <2>2. ASSUME \A j \in 1 .. Len(wire') : ~IsEnd(wire'[j]) PROVE host'.last = pi'.last
    <3>1. ASSUME NEW j \in 1 + 1 .. W PROVE ~IsEnd(wire[j])
      <4>1. j - 1 \in 1 .. Len(wire') /\ j - 1 \in 1 .. W - 1 /\ (j - 1) + 1 = j
        BY <1>2
      <4>2. wire'[j - 1] = wire[j]
        BY <1>2, <4>1
      <4> QED
        BY <2>2, <4>1, <4>2
    <3>2. CASE IsEnd(e)
      <4>1. e.reason = pi.last
        BY <1>5, <1>6, <3>1, <3>2 DEF LastEnd
      <4> QED
        BY <1>3, <1>9, <3>2, <4>1
    <3>3. CASE ~IsEnd(e)
      <4>1. \A j \in 1 .. W : j = 1 \/ j \in 1 + 1 .. W
        BY <1>2
      <4>2. host.last = pi.last
        BY <1>5, <3>1, <3>3, <4>1 DEF LastEnd
      <4> QED
        BY <1>3, <1>9, <3>3, <4>2
    <3> QED
      BY <3>2, <3>3
  <2> QED
    BY <2>1, <2>2 DEF LastEnd, IsEnd
<1>15. SettledLast'
  <2>1. ASSUME NEW i \in 1 .. Len(wire'), wire'[i].type = "agent_settled"
        PROVE  pi'.settled /\ \A j \in i + 1 .. Len(wire') : IsQuiet(wire'[j])
    <3>1. i \in 1 .. W - 1 /\ i + 1 \in 1 .. W
      BY <1>2
    <3>2. pi.settled /\ \A j \in (i + 1) + 1 .. W : IsQuiet(wire[j])
      BY <1>2, <1>5, <2>1, <3>1 DEF SettledLast
    <3>3. ASSUME NEW j \in i + 1 .. Len(wire') PROVE IsQuiet(wire'[j])
      <4>1. j + 1 \in (i + 1) + 1 .. W /\ j \in 1 .. W - 1
        BY <1>2, <3>1
      <4> QED
        BY <1>2, <3>2, <4>1
    <3> QED
      BY <1>3, <3>2, <3>3
  <2> QED
    BY <2>1 DEF SettledLast, IsQuiet
<1> QED
  BY <1>11, <1>12, <1>14, <1>15 DEF Follows

\* What the host has when Pi has settled is all that was said.
LEMMA SettledFollows ==
    ASSUME StreamTypes, Follows, host.step = "loop", wire # <<>>,
           HandleMoves(wire[1]), host'.step = "settled"
    PROVE  Stream!AnswerIsWhatPiSaid'
<1> DEFINE W == Len(wire)  L == Len(pi.said)
<1>1. /\ pi \in PiRow /\ pi.said \in Seq(Text) /\ wire \in Seq(Heard) /\ L \in Nat
      /\ host.content \in Seq(Text)
  BY DEF StreamTypes, PiRow, HostRow
<1>2. /\ ~lagged /\ wire[1].type = "agent_settled" /\ host.last = "stop"
      /\ UNCHANGED Holds /\ pi' = [pi EXCEPT !.asked = {"cursor"}]
  BY DEF HandleMoves
<1>3. UNCHANGED <<pi.said, pi.settled, pi.last>>
  BY <1>1, <1>2 DEF PiRow
<1>4. PICK n \in [0 .. W -> 0 .. L] : Counts(n)
  BY <1>2 DEF Follows
<1>5. Begins /\ LastEnd /\ SettledLast
  BY <1>2 DEF Follows
<1>6. W \in Nat \ {0}
  BY <1>1
<1>7. pi.settled /\ \A j \in 1 + 1 .. W : IsQuiet(wire[j])
  BY <1>2, <1>5, <1>6 DEF SettledLast
<1>8. \A j \in 1 .. W : j = 1 \/ j \in 1 + 1 .. W
  BY <1>6
<1>9. \A j \in 1 .. W : ~IsEnd(wire[j]) /\ ~StopEnd(wire[j])
  BY <1>2, <1>7, <1>8 DEF IsEnd, StopEnd, IsQuiet
<1>10. pi.last = "stop"
  BY <1>2, <1>5, <1>9 DEF LastEnd
<1>11. Len(host.content) = L
  <2>1. 0 \in 0 .. W /\ \A j \in 0 + 1 .. W : j \in 1 .. W
    BY <1>6
  <2>2. n[0] = L
    BY <1>4, <1>9, <2>1 DEF Counts
  <2> QED
    BY <1>4, <2>2 DEF Counts
<1>12. host.content = pi.said
  <2>1. \A k \in 1 .. Len(host.content) : host.content[k] = pi.said[k]
    BY <1>5 DEF Begins
  <2> QED
    BY <1>1, <1>11, <2>1, SeqEqual
<1>13. host.drafts = pi.said
  BY <1>5, <1>12 DEF Begins
<1> QED
  BY <1>2, <1>3, <1>7, <1>10, <1>12, <1>13 DEF Stream!AnswerIsWhatPiSaid, Holds

\* The loop begins with nothing said.
LEMMA BeginsFollows ==
    ASSUME StreamTypes, Prelude, host.step = "configures", wire # <<>>, Stream!Read,
           UNCHANGED <<Holds, pi.said, pi.last, pi.settled>>
    PROVE  Follows'
<1>1. wire \in Seq(Heard)
  BY DEF StreamTypes
<1>2. /\ pi'.said = <<>> /\ pi'.last = "none" /\ host'.last = "none"
      /\ host'.content = <<>> /\ host'.drafts = <<>>
      /\ \A i \in 1 .. Len(wire) : IsQuiet(wire[i])
  BY DEF Prelude, Early, Holds
<1>3. /\ Len(wire) \in Nat \ {0} /\ Len(wire') = Len(wire) - 1
      /\ \A i \in 1 .. Len(wire') : wire'[i] = wire[i + 1]
  BY <1>1, IsRead
<1>4. \A i \in 1 .. Len(wire') : i + 1 \in 1 .. Len(wire)
  BY <1>3
<1>5. \A i \in 1 .. Len(wire') : IsQuiet(wire'[i])
  BY <1>2, <1>3, <1>4 DEF IsQuiet
<1>6. \A i \in 1 .. Len(wire') :
         ~IsEnd(wire'[i]) /\ ~StopEnd(wire'[i]) /\ wire'[i].type # "agent_settled"
  BY <1>5 DEF IsQuiet, IsEnd, StopEnd
<1>7. \E m \in [0 .. Len(wire') -> 0 .. Len(pi'.said)] : Counts(m)'
  <2>1. PICK m : m = [i \in 0 .. Len(wire') |-> 0]
    OBVIOUS
  <2>2. Len(pi'.said) = 0 /\ Len(host'.content) = 0 /\ Len(wire') \in Nat
    BY <1>2, <1>3
  <2>3. \A i \in 0 .. Len(wire') : m[i] = 0
    BY <2>1
  <2>4. m \in [0 .. Len(wire') -> 0 .. Len(pi'.said)]
    BY <2>1, <2>2
  <2>5. \A i \in 1 .. Len(wire') : i \in 0 .. Len(wire') /\ i - 1 \in 0 .. Len(wire')
    BY <2>2
  <2>6. 0 \in 0 .. Len(wire') /\ Len(wire') \in 0 .. Len(wire')
    BY <2>2
  <2>7. Counts(m)'
    BY <1>6, <2>2, <2>3, <2>5, <2>6 DEF Counts, StopEnd, IsEnd
  <2> QED
    BY <2>4, <2>7
<1>8. Begins'
  <2>1. Len(host'.content) = 0 /\ Len(pi'.said) = 0
    BY <1>2
  <2> QED
    BY <1>2, <2>1 DEF Begins
<1>9. LastEnd' /\ SettledLast'
  BY <1>2, <1>6 DEF LastEnd, SettledLast, IsEnd
<1> QED
  BY <1>7, <1>8, <1>9 DEF Follows
-----------------------------------------------------------------------------
\* Answers and ends: they change nothing that was said.
Whispers(e) ==
    /\ IsQuiet(e) /\ UNCHANGED <<pi.said, pi.last, pi.settled, pi.body, pi.entries>>
    /\ e.type = "response" /\ e.id = "entries" => e.entries = pi.entries

\* What belongs to the turn.
Speaks(e) ==
    /\ Stream!Talks /\ ~IsQuiet(e)
    /\ pi'.said = IF StopEnd(e) THEN Append(pi.said, e.text) ELSE pi.said
    /\ pi'.last = IF IsEnd(e) THEN e.reason ELSE pi.last
    /\ Stream!IsProgress(e) \/ UNCHANGED pi.body
    /\ IF e.type = "agent_settled" THEN pi'.settled ELSE UNCHANGED <<pi.settled, pi.entries>>

LEMMA SaysStep ==
    ASSUME StreamInv, NEW e \in Heard, PiMoves(e), Whispers(e) \/ Speaks(e)
    PROVE  StreamInv'
<1> DEFINE W == Len(wire)
<1>1. /\ StreamTypes /\ wire \in Seq(Heard) /\ lagged \in BOOLEAN /\ UNCHANGED <<host, watch>>
      /\ Stream!Emit(e) /\ pi' \in PiRow /\ host \in HostRow /\ watch \in WatchRow
      /\ host.step \in {"configures", "loop", "settled"}
  BY DEF StreamInv, StreamTypes, PiMoves, Stream!Listening
<1>2. /\ wire' \in Seq(Heard) /\ wire' # <<>> /\ lagged' \in BOOLEAN
      /\ \A i \in 1 .. Len(wire') : wire'[i] = e \/ \E j \in 1 .. Len(wire) : wire'[i] = wire[j]
      /\ \E i \in 1 .. Len(wire') : wire'[i] = e
      /\ ~lagged' => ~lagged /\ wire' = Append(wire, e)
  BY <1>1, Emitted
<1>3. StreamTypes'
  BY <1>1, <1>2 DEF StreamTypes
<1>4. Prelude'
  <2>1. CASE host.step \in Early
    <3>1. Whispers(e) /\ host.step = "configures"
      BY <1>1, <2>1 DEF Early, Speaks, Stream!Talks
    <3>2. \A i \in 1 .. Len(wire') : IsQuiet(wire'[i])
      BY <1>2, <2>1, <3>1 DEF StreamInv, Prelude, Whispers, IsQuiet
    <3> QED
      BY <1>1, <2>1, <3>1, <3>2 DEF StreamInv, Prelude, Whispers, IsQuiet
  <2>2. CASE host.step \notin Early
    BY <1>1, <2>2 DEF Prelude
  <2> QED
    BY <2>1, <2>2
<1>5. Told'
  <2>1. CASE host.step = "configures"
    <3>1. Whispers(e)
      BY <2>1 DEF Speaks, Stream!Talks
    <3> QED
      BY <1>1, <1>2, <2>1, <3>1 DEF StreamInv, Told, Whispers, Stream!Acceptable
  <2>2. CASE host.step # "configures"
    BY <1>1, <2>2 DEF Told
  <2> QED
    BY <2>1, <2>2
<1>6. Follows'
  <2>1. CASE host.step = "loop"
    <3>1. /\ pi'.said = IF StopEnd(e) THEN Append(pi.said, e.text) ELSE pi.said
          /\ pi'.last = IF IsEnd(e) THEN e.reason ELSE pi.last
          /\ \/ IsQuiet(e) /\ pi'.settled = pi.settled
             \/ ~pi.settled /\ (e.type = "agent_settled" => pi'.settled)
      BY DEF Whispers, Speaks, Stream!Talks, IsQuiet, StopEnd, IsEnd
    <3> QED
      BY <1>1, <2>1, <3>1, Appended DEF StreamInv
  <2>2. CASE host.step # "loop"
    BY <1>1, <2>2 DEF Follows
  <2> QED
    BY <2>1, <2>2
<1>7. Watches'
  <2>1. Counted'
    BY <1>1 DEF StreamInv, Watches, Counted
  <2>2. ASSUME host.step = "loop", pi'.body, watch.mode # "satisfied", ~lagged'
        PROVE  \E i \in 1 .. Len(wire') : Stream!IsProgress(wire'[i])
    <3>1. CASE Stream!IsProgress(e)
      BY <1>2, <3>1
    <3>2. CASE ~Stream!IsProgress(e)
      <4>1. pi.body
        BY <2>2, <3>2 DEF Whispers, Speaks
      <4>2. PICK i \in 1 .. W : Stream!IsProgress(wire[i])
        BY <1>2, <2>2, <4>1 DEF StreamInv, Watches
      <4>3. i \in 1 .. Len(wire') /\ wire'[i] = wire[i]
        BY <1>1, <1>2, <2>2, <4>2
      <4> QED
        BY <4>2, <4>3
    <3> QED
      BY <3>1, <3>2
  <2> QED
    BY <1>1, <1>2, <2>1, <2>2 DEF Watches, Stream!IsProgress
<1>8. Stream!AnswerIsWhatPiSaid'
  BY <1>1 DEF StreamInv, Stream!AnswerIsWhatPiSaid, Whispers, Speaks, Stream!Talks
<1>9. Stream!PromptedAsResumed'
  BY <1>1 DEF StreamInv, Stream!PromptedAsResumed, Whispers, Speaks, Stream!Talks
<1> QED
  BY <1>3, <1>4, <1>5, <1>6, <1>7, <1>8, <1>9 DEF StreamInv

LEMMA PiSays ==
    ASSUME StreamTypes,
           \/ \E c \in Asked, success \in BOOLEAN : Stream!PiAnswers(c, success)
           \/ Stream!PiStarts \/ Stream!PiSettles \/ Stream!PiBreaks
           \/ \E c \in Chunk : Stream!PiStreams(c)
           \/ \E text \in {pi.text, <<>>}, reason \in Reason : Stream!PiEnds(text, reason)
           \/ \E type \in {"compaction_start", "compaction_end"} : Stream!PiCompacts(type)
    PROVE  \E e \in Heard : PiMoves(e) /\ (Whispers(e) \/ Speaks(e))
<1>1. pi \in PiRow
  BY DEF StreamTypes
<1>2. ASSUME NEW c \in Asked, NEW success \in BOOLEAN, Stream!PiAnswers(c, success)
      PROVE  \E e \in Heard : PiMoves(e) /\ Whispers(e)
  <2>1. PICK e \in Heard :
          /\ PiMoves(e) /\ e.type = "response" /\ (c = "entries" <=> e.id = "entries")
          /\ c = "entries" => e.entries = pi.entries
          /\ pi' = [pi EXCEPT !.asked = @ \ {c}]
    BY <1>2, AnswerMoves
  <2> QED
    BY <1>1, <2>1 DEF PiRow, Whispers, IsQuiet
<1>3. CASE Stream!PiBreaks
  <2>1. PICK e \in Heard : PiMoves(e) /\ e.type = "gone" /\ pi' = [pi EXCEPT !.up = FALSE]
    BY <1>3, BreakMoves
  <2> QED
    BY <1>1, <2>1 DEF PiRow, Whispers, IsQuiet
<1>4. CASE Stream!PiStarts
  <2>1. PICK e \in Heard :
          /\ PiMoves(e) /\ Stream!Talks /\ e.type = "message_start"
          /\ pi' = [pi EXCEPT !.open = TRUE, !.text = <<>>, !.events = @ + 1]
    BY <1>4, StartMoves
  <2>2. UNCHANGED <<pi.said, pi.last, pi.settled, pi.body, pi.entries>>
    BY <1>1, <2>1 DEF PiRow
  <2> QED
    BY <2>1, <2>2 DEF PiRow, Speaks, IsQuiet, IsEnd, StopEnd
<1>5. CASE Stream!PiSettles
  <2>1. PICK e \in Heard :
          /\ PiMoves(e) /\ Stream!Talks /\ e.type = "agent_settled"
          /\ pi' = [pi EXCEPT !.settled = TRUE, !.entries = "turn"]
    BY <1>5, SettleMoves
  <2> QED
    BY <1>1, <2>1 DEF PiRow, Speaks, IsQuiet, IsEnd, StopEnd
<1>6. ASSUME NEW c \in Chunk, Stream!PiStreams(c)
      PROVE  \E e \in Heard : PiMoves(e) /\ Speaks(e)
  <2>1. PICK e \in Heard :
          /\ PiMoves(e) /\ Stream!Talks /\ e.type = "text_delta"
          /\ pi' = [pi EXCEPT !.text = Append(@, c), !.body = TRUE, !.events = @ + 1]
    BY <1>6, StreamsMoves
  <2>2. UNCHANGED <<pi.said, pi.last, pi.settled, pi.entries>>
    BY <1>1, <2>1 DEF PiRow
  <2> QED
    BY <2>1, <2>2 DEF PiRow, Speaks, IsQuiet, IsEnd, StopEnd, Stream!IsProgress
<1>7. ASSUME NEW text \in {pi.text, <<>>}, NEW reason \in Reason, Stream!PiEnds(text, reason)
      PROVE  \E e \in Heard : PiMoves(e) /\ Speaks(e)
  <2>1. PICK e \in Heard :
          /\ PiMoves(e) /\ Stream!Talks
          /\ e.type = "message_end" /\ e.text = text /\ e.reason = reason
          /\ pi'.said = IF reason = "stop" THEN Append(pi.said, text) ELSE pi.said
          /\ pi'.last = reason /\ UNCHANGED <<pi.settled, pi.entries>>
    BY <1>7, EndMoves
  <2> QED
    BY <2>1 DEF Speaks, IsQuiet, IsEnd, StopEnd, Stream!IsProgress
<1>8. ASSUME NEW type \in {"compaction_start", "compaction_end"}, Stream!PiCompacts(type)
      PROVE  \E e \in Heard : PiMoves(e) /\ Speaks(e)
  <2>1. PICK e \in Heard :
          PiMoves(e) /\ Stream!Talks /\ e.type = type /\ pi' = [pi EXCEPT !.events = @ + 1]
    BY <1>8, CompactMoves
  <2> QED
    BY <1>1, <2>1 DEF PiRow, Speaks, IsQuiet, IsEnd, StopEnd
<1> QED
  BY <1>2, <1>3, <1>4, <1>5, <1>6, <1>7, <1>8
-----------------------------------------------------------------------------
LEMMA ConfigureStep ==
    ASSUME StreamInv, Stream!Configure
    PROVE  StreamInv'
<1>1. StreamTypes
  BY DEF StreamInv
<1>2. /\ host.step = "spawned" /\ host' \in HostRow /\ host'.step = "configures"
      /\ host'.waits = Stream!Control /\ UNCHANGED Holds
      /\ pi' \in PiRow /\ pi' = [pi EXCEPT !.asked = Stream!Control]
      /\ UNCHANGED <<wire, lagged, watch>>
  BY <1>1, ConfigureMoves
<1>3. UNCHANGED <<pi.said, pi.last, pi.settled, pi.body>>
  BY <1>1, <1>2 DEF StreamTypes, PiRow
<1>4. StreamTypes'
  BY <1>1, <1>2 DEF StreamTypes
<1>5. wire = <<>> /\ Prelude'
  BY <1>2, <1>3 DEF StreamInv, Prelude, Early, Holds, IsQuiet
<1>6. Told'
  BY <1>2, <1>5 DEF Told, Stream!Control
<1>7. Watches'
  BY <1>2 DEF StreamInv, Watches, Counted
<1> QED
  BY <1>2, <1>4, <1>5, <1>6, <1>7
     DEF StreamInv, Follows, Stream!AnswerIsWhatPiSaid, Stream!PromptedAsResumed

LEMMA ControlStep ==
    ASSUME StreamInv, Stream!HearControl
    PROVE  StreamInv'
<1> DEFINE e == wire[1]
<1>1. StreamTypes /\ host \in HostRow /\ pi \in PiRow /\ wire \in Seq(Heard)
  BY DEF StreamInv, StreamTypes
<1>2. /\ host.step = "configures" /\ wire # <<>> /\ Stream!Read /\ UNCHANGED watch
      /\ host' \in HostRow /\ pi' \in PiRow /\ UNCHANGED Holds
      /\ \/ host'.step = "stopping" /\ UNCHANGED pi
         \/ host'.step = "configures" /\ host'.waits = host.waits /\ UNCHANGED pi
            /\ e.type # "response"
         \/ /\ e.type = "response" /\ host'.waits = host.waits \ {e.id}
            /\ e.id = "entries" => Stream!Acceptable(e.entries)
            /\ \/ host'.step = "configures" /\ UNCHANGED pi
               \/ /\ host'.step = "loop" /\ host.waits = {e.id} /\ ~lagged
                  /\ pi' = [pi EXCEPT !.asked = {"prompt"}]
  BY <1>1, ControlMoves
<1>3. /\ wire' \in Seq(Heard) /\ Len(wire) \in Nat \ {0} /\ Len(wire') = Len(wire) - 1
      /\ lagged' = FALSE /\ \A i \in 1 .. Len(wire') : wire'[i] = wire[i + 1]
  BY <1>1, <1>2, IsRead
<1>4. \A i \in 1 .. Len(wire') : i + 1 \in 1 .. Len(wire)
  BY <1>3
<1>5. UNCHANGED <<pi.said, pi.last, pi.settled, pi.body, pi.entries>>
  BY <1>1, <1>2 DEF PiRow
<1>6. StreamTypes'
  BY <1>1, <1>2, <1>3 DEF StreamTypes
<1>7. Prelude'
  BY <1>2, <1>3, <1>4, <1>5 DEF StreamInv, Prelude, Early, Holds, IsQuiet
<1>8. 1 \in 1 .. Len(wire)
  BY <1>3
<1>9. "entries" \notin host'.waits /\ host'.step \in {"configures", "loop"} =>
         Stream!Acceptable(pi.entries)
  BY <1>2, <1>8 DEF StreamInv, Told
<1>10. host'.resume = host.resume
  BY <1>2 DEF Holds
<1>11. Told'
  BY <1>2, <1>3, <1>4, <1>5, <1>9, <1>10 DEF StreamInv, Told, Stream!Acceptable
<1>12. Follows'
  <2>1. CASE host'.step = "loop"
    BY <1>1, <1>2, <1>5, BeginsFollows DEF StreamInv
  <2>2. CASE host'.step # "loop"
    BY <2>2 DEF Follows
  <2> QED
    BY <2>1, <2>2
<1>13. ~pi.body
  BY <1>2 DEF StreamInv, Prelude, Early
<1>14. Watches'
  BY <1>2, <1>3, <1>5, <1>13 DEF StreamInv, Watches, Counted
<1>15. Stream!PromptedAsResumed'
  <2>1. ASSUME host'.step = "loop" PROVE Stream!Acceptable(pi.entries)
    <3>1. "entries" \notin host'.waits
      BY <1>2, <2>1
    <3> QED
      BY <1>9, <2>1, <3>1
  <2> QED
    BY <1>5, <1>10, <2>1 DEF Stream!PromptedAsResumed, Stream!Acceptable
<1>16. Stream!AnswerIsWhatPiSaid'
  BY <1>2 DEF Stream!AnswerIsWhatPiSaid
<1> QED
  BY <1>6, <1>7, <1>11, <1>12, <1>14, <1>15, <1>16 DEF StreamInv

LEMMA RelaunchStep ==
    ASSUME StreamInv, Stream!Relaunch
    PROVE  StreamInv'
<1>1. StreamTypes /\ host.step = "stopping" /\ UNCHANGED watch
  BY RelaunchMoves DEF StreamInv
<1>2. host' \in HostRow /\ pi' \in PiRow
  BY <1>1, RelaunchMoves
<1>3. CASE /\ host'.step = "spawned" /\ wire' = <<>> /\ lagged' = FALSE
           /\ UNCHANGED <<host.content, host.drafts, host.last>>
           /\ UNCHANGED <<pi.said, pi.last, pi.settled, pi.body>>
  <2>1. wire' \in Seq(Heard)
    BY <1>3
  <2>5. lagged' \in BOOLEAN
    BY <1>3
  <2>2. StreamTypes'
    BY <1>1, <1>2, <2>1, <2>5 DEF StreamTypes
  <2>3. Prelude'
    BY <1>1, <1>3 DEF StreamInv, Prelude, Early
  <2>4. Watches'
    BY <1>1, <1>3 DEF StreamInv, Watches, Counted
  <2> QED
    BY <1>3, <2>2, <2>3, <2>4
       DEF StreamInv, Told, Follows, Stream!AnswerIsWhatPiSaid, Stream!PromptedAsResumed
<1>4. CASE host'.step = "failed" /\ UNCHANGED <<pi, wire, lagged>>
  <2>1. StreamTypes'
    BY <1>1, <1>2, <1>4 DEF StreamTypes
  <2>2. Watches'
    BY <1>1, <1>4 DEF StreamInv, Watches, Counted
  <2> QED
    BY <1>4, <2>1, <2>2
       DEF StreamInv, Prelude, Early, Told, Follows, Stream!AnswerIsWhatPiSaid,
           Stream!PromptedAsResumed
<1> QED
  BY <1>1, <1>3, <1>4, RelaunchMoves

\* Only the step of the host changes, and not to the loop.
LEMMA FailStep ==
    ASSUME StreamInv, NEW step \in {"stopping", "complete", "timed_out"}, Stream!Fail(step),
           UNCHANGED <<pi, wire, lagged, watch>>,
           step = "stopping" => host.step = "configures",
           step = "complete" => host.step = "settled",
           step = "timed_out" => ~pi.body \/ watch.deferred >= Deferrals
    PROVE  StreamInv'
<1>1. StreamTypes /\ host \in HostRow /\ step \in Steps
  BY DEF StreamInv, StreamTypes, Steps, Early
<1>2. host' \in HostRow /\ host'.step = step /\ UNCHANGED Holds
  BY <1>1, FailIs
<1>3. StreamTypes'
  BY <1>1, <1>2 DEF StreamTypes
<1>4. Prelude'
  BY <1>2 DEF StreamInv, Prelude, Early, Holds, IsQuiet
<1>5. Watches'
  BY <1>2 DEF StreamInv, Watches, Counted
<1>6. Stream!AnswerIsWhatPiSaid'
  BY <1>2 DEF StreamInv, Stream!AnswerIsWhatPiSaid, Holds
<1> QED
  BY <1>2, <1>3, <1>4, <1>5, <1>6 DEF StreamInv, Told, Follows, Stream!PromptedAsResumed

LEMMA ElapseStep ==
    ASSUME StreamInv, Stream!Elapse
    PROVE  StreamInv'
<1>1. /\ host.step = "loop" /\ watch.mode # "satisfied"
      /\ wire = <<>> \/ watch.deferred >= Deferrals
      /\ Stream!Fail("timed_out") /\ UNCHANGED <<pi, wire, lagged, watch>>
  BY DEF Stream!Elapse, Stream!Expired, Stream!ExpiredAt
<1>2. wire = <<>> => ~pi.body
  <2> SUFFICES ASSUME wire = <<>> PROVE ~pi.body
    OBVIOUS
  <2>1. \A i \in 1 .. Len(wire) : FALSE
    OBVIOUS
  <2> QED
    BY <1>1, <2>1 DEF StreamInv, Watches
<1> QED
  BY <1>1, <1>2, FailStep

LEMMA TickStep ==
    ASSUME StreamInv, Stream!Tick
    PROVE  StreamInv'
<1>1. watch \in WatchRow /\ UNCHANGED <<pi, wire, lagged, host>>
  BY DEF StreamInv, StreamTypes, Stream!Tick
<1>2. watch' = [watch EXCEPT !.now = @ + 1]
  BY DEF Stream!Tick
<1>3. /\ watch' \in WatchRow /\ watch'.now = watch.now + 1
      /\ UNCHANGED <<watch.mode, watch.select, watch.deferred, watch.late>>
  BY <1>1, <1>2 DEF WatchRow
<1>4. Counted'
  BY <1>1, <1>3, StreamAssumption DEF StreamInv, Watches, Counted, WatchRow
<1>5. Watches'
  BY <1>1, <1>3, <1>4 DEF StreamInv, Watches
<1>6. StreamTypes'
  BY <1>1, <1>3 DEF StreamInv, StreamTypes
<1>7. UNCHANGED pi /\ UNCHANGED wire /\ UNCHANGED lagged /\ UNCHANGED host
  BY <1>1
<1>8. Prelude' /\ Told'
  BY <1>7 DEF StreamInv, Prelude, Told, Stream!Acceptable, IsQuiet
<1>9. Follows'
  BY <1>7 DEF StreamInv, Follows, Counts, Begins, LastEnd, SettledLast
<1> QED
  BY <1>5, <1>6, <1>7, <1>8, <1>9
     DEF StreamInv, Stream!AnswerIsWhatPiSaid, Stream!PromptedAsResumed

LEMMA HearStep ==
    ASSUME StreamInv, NEW counts \in BOOLEAN, Stream!Hear(counts)
    PROVE  StreamInv'
<1> DEFINE e == wire[1]
<1>1. StreamTypes /\ Counted /\ host \in HostRow /\ pi \in PiRow /\ wire \in Seq(Heard)
  BY DEF StreamInv, StreamTypes, Watches
<1>2. host.step = "loop" /\ wire # <<>> /\ Stream!Read /\ Stream!Handle(Head(wire))
  BY DEF Stream!Hear
<1>3. /\ wire' \in Seq(Heard) /\ Len(wire) \in Nat \ {0} /\ Len(wire') = Len(wire) - 1
      /\ Head(wire) = e /\ e \in Heard /\ lagged' = FALSE
      /\ \A i \in 1 .. Len(wire') : wire'[i] = wire[i + 1]
  BY <1>1, <1>2, IsRead
<1>4. host' \in HostRow /\ pi' \in PiRow /\ HandleMoves(e)
  BY <1>1, <1>2, <1>3, Handled
<1>5. /\ watch' \in WatchRow /\ Counted'
      /\ Stream!IsProgress(e) \/ watch.mode = "satisfied" => watch'.mode = "satisfied"
  BY <1>1, HearWatch
<1>6. lagged' \in BOOLEAN
  BY <1>3
<1>7. StreamTypes'
  BY <1>3, <1>4, <1>5, <1>6 DEF StreamTypes
<1>8. host'.step \in {"loop", "settled", "failed"}
  BY <1>2, <1>4 DEF HandleMoves
<1>9. Prelude' /\ Told'
  BY <1>8 DEF Prelude, Told, Early
<1>10. Follows'
  <2>1. CASE host'.step = "loop"
    BY <1>1, <1>2, <1>4, <2>1, HeardFollows DEF StreamInv
  <2>2. CASE host'.step # "loop"
    BY <2>2 DEF Follows
  <2> QED
    BY <2>1, <2>2
<1>11. Stream!AnswerIsWhatPiSaid'
  <2>1. CASE host'.step = "settled"
    BY <1>1, <1>2, <1>4, <2>1, SettledFollows DEF StreamInv
  <2>2. CASE host'.step # "settled"
    BY <1>8, <2>2 DEF Stream!AnswerIsWhatPiSaid
  <2> QED
    BY <2>1, <2>2
<1>12. host'.step = "loop" => ~lagged /\ UNCHANGED <<pi, host.resume>>
  BY <1>2, <1>4 DEF HandleMoves, Holds
<1>13. Stream!PromptedAsResumed'
  BY <1>2, <1>12 DEF StreamInv, Stream!PromptedAsResumed
<1>14. ASSUME host'.step = "loop", pi'.body, watch'.mode # "satisfied"
       PROVE  \E i \in 1 .. Len(wire') : Stream!IsProgress(wire'[i])
  <2>1. PICK i \in 1 .. Len(wire) : Stream!IsProgress(wire[i])
    BY <1>2, <1>5, <1>12, <1>14 DEF StreamInv, Watches
  <2>2. i # 1
    BY <1>5, <1>14, <2>1
  <2>3. i - 1 \in 1 .. Len(wire') /\ (i - 1) + 1 = i
    BY <1>3, <2>2
  <2>4. wire'[i - 1] = wire[i]
    BY <1>3, <2>3
  <2> QED
    BY <2>1, <2>3, <2>4
<1>15. Watches'
  BY <1>3, <1>5, <1>8, <1>14 DEF Watches, Stream!IsProgress
<1> QED
  BY <1>7, <1>9, <1>10, <1>11, <1>13, <1>15 DEF StreamInv

LEMMA CursorStep ==
    ASSUME StreamInv, Stream!HearCursor
    PROVE  StreamInv'
<1>1. StreamTypes /\ host \in HostRow /\ wire \in Seq(Heard)
  BY DEF StreamInv, StreamTypes
<1>2. /\ host.step = "settled" /\ wire # <<>> /\ Stream!Read /\ UNCHANGED <<pi, watch>>
      /\ host' \in HostRow /\ host'.step \in {"settled", "complete"} /\ UNCHANGED Holds
  BY <1>1, CursorMoves
<1>3. wire' \in Seq(Heard) /\ lagged' = FALSE
  BY <1>1, <1>2, IsRead
<1>4. StreamTypes'
  <2>1. lagged' \in BOOLEAN
    BY <1>3
  <2> QED
    BY <1>1, <1>2, <1>3, <2>1 DEF StreamTypes
<1>5. Watches'
  BY <1>2, <1>3 DEF StreamInv, Watches, Counted
<1>6. Stream!AnswerIsWhatPiSaid'
  BY <1>2 DEF StreamInv, Stream!AnswerIsWhatPiSaid, Holds
<1> QED
  BY <1>2, <1>4, <1>5, <1>6
     DEF StreamInv, Prelude, Early, Told, Follows, Stream!PromptedAsResumed
-----------------------------------------------------------------------------
LEMMA StreamStep ==
    ASSUME StreamInv, [AgentsNext]_agents
    PROVE  StreamInv'
<1>1. CASE Stream!PiNext
  <2>1. CASE \/ \E c \in Stream!Control \cup {"prompt", "cursor"}, success \in BOOLEAN :
                  Stream!PiAnswers(c, success)
             \/ Stream!PiStarts \/ Stream!PiSettles \/ Stream!PiBreaks
             \/ \E c \in Chunk : Stream!PiStreams(c)
             \/ \E text \in {pi.text, Stream!NoText}, reason \in {"stop", "toolUse", "error"} :
                  Stream!PiEnds(text, reason)
             \/ \E type \in {"compaction_start", "compaction_end"} : Stream!PiCompacts(type)
    <3>1. StreamTypes
      BY DEF StreamInv
    <3>2. \E e \in Heard : PiMoves(e) /\ (Whispers(e) \/ Speaks(e))
      BY <2>1, <3>1, PiSays DEF Asked, Reason, Stream!NoText
    <3> QED
      BY <3>2, SaysStep
  <2>2. CASE Stream!ControlTimesOut
    BY <2>2, FailStep DEF Stream!ControlTimesOut
  <2>3. CASE Stream!CursorTimesOut
    BY <2>3, FailStep DEF Stream!CursorTimesOut
  <2> QED
    BY <1>1, <2>1, <2>2, <2>3, ConfigureStep, ControlStep, RelaunchStep, HearStep, TickStep,
       ElapseStep, CursorStep DEF Stream!PiNext
<1>2. CASE UNCHANGED stream
  <2>1. UNCHANGED pi /\ UNCHANGED wire /\ UNCHANGED lagged /\ UNCHANGED host /\ UNCHANGED watch
    BY <1>2 DEF stream
  <2> QED
    BY <2>1
       DEF StreamInv, StreamTypes, Prelude, Told, Follows, Counts, Begins, LastEnd, SettledLast,
           Watches, Counted, Stream!Acceptable, Stream!AnswerIsWhatPiSaid,
           Stream!PromptedAsResumed
<1> QED
  BY <1>1, <1>2 DEF AgentsNext, Session, Listen, agents

\* What a turn makes canonical is what its agent said, on the session that it
\* was to resume, and the watchdog is fair (pi_response.rs:55,
\* chat_runtime.rs:857).
THEOREM Following == AgentsSpec => []TurnFollowsPi
<1>1. StreamInv => TurnFollowsPi
  BY DEF StreamInv, Watches, Counted, TurnFollowsPi, Stream!TurnFollowsPi, Stream!WatchdogIsFair
<1> QED
  BY <1>1, InitStream, StreamStep, PTL DEF AgentsSpec
=============================================================================
