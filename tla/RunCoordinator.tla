--------------------------- MODULE RunCoordinator ---------------------------
(***************************************************************************)
(* The run coordinator of the desktop process (run_coordinator.rs), with   *)
(* the maintenance gate it admits through (maintenance.rs) and the Guru    *)
(* quarantine that its availability checks read (app.rs).                  *)
(*                                                                         *)
(* A caller is one asynchronous command that registers a run: a Chat turn, *)
(* a Chat rename or delete, a Memory write or a Memory recovery.  Each     *)
(* critical section of the code is one step; between two of them any other *)
(* caller may run, which is what the Tokio worker threads do.              *)
(***************************************************************************)
EXTENDS Naturals, FiniteSets, Sequences, SequencesExt

CONSTANTS
    Guru,             \* Guru ids
    Thread,           \* Chat thread ids
    RunId,            \* run ids, chosen by the renderer for Chat runs
    Caller,           \* commands that register runs
    Native,           \* commands that hold an activity lease but no run
    MaxModelWorkers,  \* MAX_MODEL_WORKERS
    NoRun,            \* an absent entry of the run table
    Requests          \* the RunSpecs that each caller may be asked for

ASSUME WorkersAssumption == MaxModelWorkers \in Nat \ {0}
ASSUME RunIdAssumption   == IsFiniteSet(RunId)
ASSUME HolderAssumption  == Caller \cap Native = {}

PendingRecovery == "pending_recovery"
Target == Thread \cup RunId \cup {PendingRecovery}
Kind   == {"chat", "memory_write", "chat_mutation"}
Source == {"deletion", "memory_write"}
RunSpec == [id : RunId, guru : Guru, kind : Kind, target : Target]
ActiveRun ==
    [guru : Guru, kind : Kind, target : Target,
     terminal : {"running", "cancel_requested", "completion_claimed"}]

\* A Chat run or change targets its thread; a Memory write targets itself,
\* except the recovery, which all callers ask for under one target.
Request ==
    {s \in RunSpec : IF s.kind = "memory_write" THEN s.target \in {s.id, PendingRecovery}
                                               ELSE s.target \in Thread}

ASSUME NoRunAssumption    == NoRun \notin ActiveRun /\ NoRun \notin RunSpec
ASSUME RequestsAssumption == Requests \in [Caller -> SUBSET Request]

VARIABLES
    runs,         \* RunTable.runs
    queue,        \* RunTable.writer_queues
    quarantine,   \* AppState.quarantined_gurus: the sources set for each Guru
    activities,   \* MaintenanceState.activities, by holder
    installing,   \* MaintenanceState.installing_update
    phase,        \* where each caller is
    spec,         \* the RunSpec of each caller that is not idle
    changed       \* the caller's watch receiver has an unseen change

table == <<runs, queue>>
gate  == <<activities, installing>>
vars  == <<runs, queue, quarantine, activities, installing, phase, spec, changed>>
-----------------------------------------------------------------------------
Waiting == {"reserved", "checking", "sleeping"}
Holding == Waiting \cup {"granted", "active", "completing", "stopping",
                         "failed", "closing"}
Phase   == Holding \cup {"idle", "admitted", "notifying", "leaving"}

Holds(c)    == phase[c] \in Holding
IsWriter(c) == spec[c].kind = "memory_write"
Recovers(c) == IsWriter(c) /\ spec[c].target = PendingRecovery
Queued(c)   == IsWriter(c) /\ spec[c].target # PendingRecovery

\* The caller may be changing the Guru's files, Git state or journal.
Writing(c)  == phase[c] \in {"active", "failed"} /\ IsWriter(c)

Available(g)        == quarantine[g] = {}
RecoveryRequired(g) == quarantine[g] = {"memory_write"}

ActiveOf(g) == {r \in RunId : runs[r] # NoRun /\ runs[r].guru = g}
ChatRuns    == {r \in RunId : runs[r] # NoRun /\ runs[r].kind = "chat"}

SameTarget(s) == \E r \in ActiveOf(s.guru) : runs[r].target = s.target

\* Slip: readers and writers only exclude their own target.
AdmitSharing(s) ==
    /\ runs[s.id] = NoRun
    /\ s.kind = "chat" => Cardinality(ChatRuns) < MaxModelWorkers
    /\ ~SameTarget(s)

\* Slip: a run id that is still active is inserted again.
AdmitReusedId(s) ==
    /\ s.kind = "chat" => Cardinality(ChatRuns) < MaxModelWorkers
    /\ ~SameTarget(s)
    /\ \A r \in ActiveOf(s.guru) :
         runs[r].kind # "memory_write" /\ s.kind # "memory_write"

\* RunCoordinator::admit
Admit(s) ==
    /\ runs[s.id] = NoRun
    /\ s.kind = "chat" => Cardinality(ChatRuns) < MaxModelWorkers
    /\ ~SameTarget(s)
    /\ \A r \in ActiveOf(s.guru) :
         runs[r].kind # "memory_write" /\ s.kind # "memory_write"

\* RunCoordinator::admit_waiting_memory_writer
AdmitWaitingWriter(s) == runs[s.id] = NoRun /\ ~SameTarget(s)

\* The availability closure that each kind of registration passes in.
AvailabilityCheck(s) ==
    IF s.target = PendingRecovery THEN RecoveryRequired(s.guru)
                                  ELSE Available(s.guru)

Entry(s) == [guru |-> s.guru, kind |-> s.kind, target |-> s.target,
             terminal |-> "running"]

\* Slip: a dropped writer keeps its place in the queue.
DequeueNothing(q, r) == q

\* VecDeque::retain of every other id; an id is queued at most once.
Dequeue(q, r) ==
    IF \E i \in DOMAIN q : q[i] = r
      THEN RemoveAt(q, CHOOSE i \in DOMAIN q : q[i] = r)
      ELSE q

Goto(c, p) == phase' = [phase EXCEPT ![c] = p]
-----------------------------------------------------------------------------
Init ==
    /\ runs = [r \in RunId |-> NoRun]
    /\ queue = [g \in Guru |-> <<>>]
    /\ quarantine \in [Guru -> SUBSET Source]
    /\ activities = {}
    /\ installing = FALSE
    /\ phase = [c \in Caller |-> "idle"]
    /\ spec = [c \in Caller |-> NoRun]
    /\ changed = [c \in Caller |-> FALSE]

\* Ids generated by the backend never repeat; a Chat run id is the renderer's.
Fresh(i) ==
    /\ runs[i] = NoRun
    /\ \A c \in Caller : spec[c] # NoRun => spec[c].id # i

\* The unlocked availability check of AppState, then the maintenance gate.
AdmitActivity(c, s) ==
    /\ phase[c] = "idle"
    /\ s.kind # "chat" => Fresh(s.id)
    /\ s.target # PendingRecovery => Available(s.guru)
    /\ ~installing
    /\ activities' = activities \cup {c}
    /\ spec' = [spec EXCEPT ![c] = s]
    /\ Goto(c, "admitted")
    /\ UNCHANGED <<table, quarantine, installing, changed>>

\* The locked half of register_with_controls.
Register(c) ==
    /\ phase[c] = "admitted" /\ ~Queued(c)
    /\ AvailabilityCheck(spec[c]) /\ Admit(spec[c])
    /\ runs' = [runs EXCEPT ![spec[c].id] = Entry(spec[c])]
    /\ Goto(c, "active")
    /\ UNCHANGED <<queue, quarantine, gate, spec, changed>>

\* Slip: the newest writer is pushed to the front.
ReserveFront(c) ==
    /\ phase[c] = "admitted" /\ Queued(c)
    /\ AvailabilityCheck(spec[c]) /\ AdmitWaitingWriter(spec[c])
    /\ runs' = [runs EXCEPT ![spec[c].id] = Entry(spec[c])]
    /\ queue' = [queue EXCEPT ![spec[c].guru] = <<spec[c].id>> \o @]
    /\ Goto(c, "reserved")
    /\ UNCHANGED <<quarantine, gate, spec, changed>>

\* The locked half of reserve_memory_write.
ReserveMemoryWrite(c) ==
    /\ phase[c] = "admitted" /\ Queued(c)
    /\ AvailabilityCheck(spec[c]) /\ AdmitWaitingWriter(spec[c])
    /\ runs' = [runs EXCEPT ![spec[c].id] = Entry(spec[c])]
    /\ queue' = [queue EXCEPT ![spec[c].guru] = Append(@, spec[c].id)]
    /\ Goto(c, "reserved")
    /\ UNCHANGED <<quarantine, gate, spec, changed>>

\* Either registration refuses: the activity lease is dropped unused.
RefuseRegistration(c) ==
    /\ phase[c] = "admitted"
    /\ \/ ~AvailabilityCheck(spec[c])
       \/ Queued(c) /\ ~AdmitWaitingWriter(spec[c])
       \/ ~Queued(c) /\ ~Admit(spec[c])
    /\ Goto(c, "leaving")
    /\ UNCHANGED <<table, quarantine, gate, spec, changed>>

\* PendingMemoryWrite::wait starts by subscribing to the change counter.
BeginWait(c) ==
    /\ phase[c] = "reserved"
    /\ changed' = [changed EXCEPT ![c] = FALSE]
    /\ Goto(c, "checking")
    /\ UNCHANGED <<table, quarantine, gate, spec>>

QueueHead(c) ==
    LET q == queue[spec[c].guru] IN q # <<>> /\ Head(q) = spec[c].id

Ready(c) ==
    /\ QueueHead(c)
    /\ \A r \in ActiveOf(spec[c].guru) : runs[r].kind = "memory_write"

\* One turn of the loop in wait_for_memory_writer, under the table lock.
CheckQueue(c) ==
    /\ phase[c] = "checking"
    /\ Goto(c, IF Ready(c) THEN "granted" ELSE "sleeping")
    /\ UNCHANGED <<table, quarantine, gate, spec, changed>>

Wake(c) ==
    /\ phase[c] = "sleeping" /\ changed[c]
    /\ changed' = [changed EXCEPT ![c] = FALSE]
    /\ Goto(c, "checking")
    /\ UNCHANGED <<table, quarantine, gate, spec>>

\* Slip: the availability read before the wait is trusted after it.
TrustEarlierCheck(c) ==
    /\ phase[c] = "granted"
    /\ Goto(c, "active")
    /\ UNCHANGED <<table, quarantine, gate, spec, changed>>

\* The writer lease is owned; availability is read again before any write.
RecheckAvailable(c) ==
    /\ phase[c] = "granted" /\ Available(spec[c].guru)
    /\ Goto(c, "active")
    /\ UNCHANGED <<table, quarantine, gate, spec, changed>>

\* A write that ends with an unresolved journal quarantines its own Guru.
FailWrite(c) ==
    /\ phase[c] = "active" /\ Queued(c)
    /\ quarantine' = [quarantine EXCEPT ![spec[c].guru] = @ \cup {"memory_write"}]
    /\ Goto(c, "failed")
    /\ UNCHANGED <<table, gate, spec, changed>>

\* A recovery run, or the failed write itself, resolves the journal.
FinishRecovery(c) ==
    /\ phase[c] = "failed" \/ (phase[c] = "active" /\ Recovers(c))
    /\ quarantine' = [quarantine EXCEPT ![spec[c].guru] = @ \ {"memory_write"}]
    /\ Goto(c, "closing")
    /\ UNCHANGED <<table, gate, spec, changed>>

\* A Chat deletion that leaves its journal pending quarantines the Guru.
FailChatDeletion(c) ==
    /\ phase[c] = "active" /\ spec[c].kind = "chat_mutation"
    /\ quarantine' = [quarantine EXCEPT ![spec[c].guru] = @ \cup {"deletion"}]
    /\ Goto(c, "closing")
    /\ UNCHANGED <<table, gate, spec, changed>>

\* RunCoordinator::cancel, which only Chat runs are ever sent.
Cancel(r) ==
    /\ r \in ChatRuns /\ runs[r].terminal = "running"
    /\ runs' = [runs EXCEPT ![r].terminal = "cancel_requested"]
    /\ UNCHANGED <<queue, quarantine, gate, phase, spec, changed>>

\* RunCoordinator::claim_completion: the turn learns which side won.
ClaimCompletion(c) ==
    /\ phase[c] = "active" /\ spec[c].kind = "chat" /\ spec[c].id \in ChatRuns
    /\ \/ /\ runs[spec[c].id].terminal = "running"
          /\ runs' = [runs EXCEPT ![spec[c].id].terminal = "completion_claimed"]
          /\ Goto(c, "completing")
       \/ /\ runs[spec[c].id].terminal = "cancel_requested"
          /\ Goto(c, "stopping")
          /\ UNCHANGED runs
    /\ UNCHANGED <<queue, quarantine, gate, spec, changed>>

\* RunLease::drop under the table lock; a pending reservation may be dropped.
RemoveRun(c) ==
    /\ Holds(c)
    /\ LET r == spec[c].id IN
         /\ runs' = [runs EXCEPT ![r] = NoRun]
         /\ queue' = IF runs[r] # NoRun /\ runs[r].kind = "memory_write"
                        THEN [queue EXCEPT ![runs[r].guru] = Dequeue(@, r)]
                        ELSE queue
    /\ Goto(c, "notifying")
    /\ UNCHANGED <<quarantine, gate, spec, changed>>

\* Slip: only a departing writer tells the waiters.
NotifyAfterWrites(c) ==
    /\ phase[c] = "notifying"
    /\ changed' = [d \in Caller |->
                     changed[d] \/ (IsWriter(c) /\ phase[d] \in {"checking", "sleeping"})]
    /\ Goto(c, "leaving")
    /\ UNCHANGED <<table, quarantine, gate, spec>>

\* The rest of RunLease::drop: every subscribed waiter sees a new version.
NotifyWaiters(c) ==
    /\ phase[c] = "notifying"
    /\ changed' = [d \in Caller |-> changed[d] \/ phase[d] \in {"checking", "sleeping"}]
    /\ Goto(c, "leaving")
    /\ UNCHANGED <<table, quarantine, gate, spec>>

\* ActivityLease::drop.
DropActivity(c) ==
    /\ phase[c] = "leaving"
    /\ activities' = activities \ {c}
    /\ spec' = [spec EXCEPT ![c] = NoRun]
    /\ Goto(c, "idle")
    /\ UNCHANGED <<table, quarantine, installing, changed>>

\* RunCoordinator::begin_guru_mutation, whose mutation quarantines the Guru.
BeginGuruMutation(g) ==
    /\ ActiveOf(g) = {}
    /\ quarantine' = [quarantine EXCEPT ![g] = @ \cup {"deletion"}]
    /\ UNCHANGED <<table, gate, phase, spec, changed>>

\* forget_guru, and a deletion that failed and left no journal.
ClearDeletionQuarantine(g) ==
    /\ "deletion" \in quarantine[g]
    /\ quarantine' = [quarantine EXCEPT ![g] = @ \ {"deletion"}]
    /\ UNCHANGED <<table, gate, phase, spec, changed>>

AdmitNative(n) ==
    /\ n \notin activities /\ ~installing
    /\ activities' = activities \cup {n}
    /\ UNCHANGED <<table, quarantine, installing, phase, spec, changed>>

DropNative(n) ==
    /\ n \in activities
    /\ activities' = activities \ {n}
    /\ UNCHANGED <<table, quarantine, installing, phase, spec, changed>>

\* Slip: the update does not wait for commands that hold no run yet.
BeginUpdateBetweenRuns ==
    /\ ~installing /\ \A r \in RunId : runs[r] = NoRun
    /\ installing' = TRUE
    /\ UNCHANGED <<table, quarantine, activities, phase, spec, changed>>

\* MaintenanceCoordinator::begin_update, and its lease dropped on failure.
BeginUpdate ==
    /\ ~installing /\ activities = {}
    /\ installing' = TRUE
    /\ UNCHANGED <<table, quarantine, activities, phase, spec, changed>>

EndUpdate ==
    /\ installing
    /\ installing' = FALSE
    /\ UNCHANGED <<table, quarantine, activities, phase, spec, changed>>

CallerStep(c) ==
    \/ \E s \in Requests[c] : AdmitActivity(c, s)
    \/ Register(c) \/ ReserveMemoryWrite(c) \/ RefuseRegistration(c)
    \/ BeginWait(c) \/ CheckQueue(c) \/ Wake(c) \/ RecheckAvailable(c)
    \/ FailWrite(c) \/ FinishRecovery(c) \/ FailChatDeletion(c)
    \/ ClaimCompletion(c)
    \/ RemoveRun(c) \/ NotifyWaiters(c) \/ DropActivity(c)

Next ==
    \/ \E c \in Caller : CallerStep(c)
    \/ \E r \in RunId : Cancel(r)
    \/ \E g \in Guru : BeginGuruMutation(g) \/ ClearDeletionQuarantine(g)
    \/ \E n \in Native : AdmitNative(n) \/ DropNative(n)
    \/ BeginUpdate \/ EndUpdate

Spec == Init /\ [][Next]_vars

\* Every scheduled task runs, and every admitted command ends: a writer
\* waits for its turn, anything else eventually drops its lease.
EndLease(c) == phase[c] \notin Waiting /\ RemoveRun(c)
Fairness ==
    \A c \in Caller :
        /\ WF_vars(BeginWait(c)) /\ WF_vars(CheckQueue(c)) /\ WF_vars(Wake(c))
        /\ WF_vars(EndLease(c)) /\ WF_vars(NotifyWaiters(c))

FairSpec == Spec /\ Fairness
-----------------------------------------------------------------------------
TypeOK ==
    /\ runs \in [RunId -> ActiveRun \cup {NoRun}]
    /\ queue \in [Guru -> Seq(RunId)]
    /\ quarantine \in [Guru -> SUBSET Source]
    /\ activities \subseteq Caller \cup Native
    /\ installing \in BOOLEAN
    /\ phase \in [Caller -> Phase]
    /\ spec \in [Caller -> RunSpec \cup {NoRun}]
    /\ \A c \in Caller : phase[c] # "idle" => spec[c] \in RunSpec
    /\ changed \in [Caller -> BOOLEAN]

\* "Memory apply is exclusive for that Guru" (docs/architecture.md): while a
\* caller may be touching a Guru's files, Git state or journal, every other
\* run of that Guru is a writer that still waits or that has stopped writing.
ExclusiveMemoryWrite ==
    \A c, d \in Caller :
        c # d /\ Writing(c) /\ Holds(d) /\ spec[c].guru = spec[d].guru
          => IsWriter(d) /\ phase[d] \in Waiting \cup {"closing"}

\* A write only runs on a Guru that nothing has quarantined since its turn
\* came, and a recovery only on a Guru whose Memory needs recovering: the
\* check before the wait is stale, the one after it must not be.
WriteSeesQuarantine ==
    \A c \in Caller :
        phase[c] = "active" /\ IsWriter(c) =>
            IF Recovers(c) THEN "memory_write" \in quarantine[spec[c].guru]
                           ELSE Available(spec[c].guru)

\* A caller that writes is alone, and may (run_coordinator.rs:306).
WritesAreGuarded == ExclusiveMemoryWrite /\ WriteSeesQuarantine

\* No run is in the table while an update is being installed, although run
\* and activity are added and removed under two different locks.
NoRunDuringUpdate == installing => \A r \in RunId : runs[r] = NoRun

\* A waiter that is asleep when its turn has come has been, or is about to
\* be, woken: no wake-up falls between its check of the table and its sleep.
NoLostWakeup ==
    \A c \in Caller :
        phase[c] = "sleeping" /\ Ready(c) =>
            changed[c] \/ \E d \in Caller : phase[d] = "notifying"

-----------------------------------------------------------------------------
\* Why the exclusion holds, in parts that are inductive together.

\* Every lease has its own entry in the table, with the spec it was given.
LeaseOwnsEntry ==
    /\ \A c \in Caller : Holds(c) =>
         LET r == runs[spec[c].id] IN
           /\ r # NoRun
           /\ r.guru = spec[c].guru /\ r.kind = spec[c].kind /\ r.target = spec[c].target
    /\ \A c, d \in Caller : c # d /\ Holds(c) /\ Holds(d) => spec[c].id # spec[d].id

\* Every entry belongs to a lease.
EntryHasLease ==
    \A r \in RunId : runs[r] # NoRun => \E c \in Caller : Holds(c) /\ spec[c].id = r

PhaseFitsKind ==
    \A c \in Caller :
        /\ phase[c] \in Waiting \cup {"granted", "failed"} => Queued(c)
        /\ phase[c] \in {"completing", "stopping"} => spec[c].kind = "chat"

\* A granted writer stays the head of its queue, and stays without readers.
WriterOwnsGuru ==
    \A c \in Caller : phase[c] \in {"granted", "active", "failed"} /\ Queued(c) => Ready(c)

\* A recovery is alone on its Guru until it clears the quarantine.
RecoveryIsAlone ==
    \A c \in Caller : phase[c] = "active" /\ Recovers(c) =>
        /\ "memory_write" \in quarantine[spec[c].guru]
        /\ \A d \in Caller : d # c /\ Holds(d) => spec[d].guru # spec[c].guru

\* Whoever holds a lease still holds its activity.
LeaseHasActivity ==
    /\ \A c \in Caller : phase[c] # "idle" => c \in activities
    /\ installing => activities = {}

Inv ==
    /\ TypeOK /\ LeaseOwnsEntry /\ EntryHasLease /\ PhaseFitsKind
    /\ WriterOwnsGuru /\ RecoveryIsAlone /\ LeaseHasActivity
-----------------------------------------------------------------------------
\* At most MAX_MODEL_WORKERS callers believe they hold a model slot, and no
\* two of them the same Chat: counted over callers, not over table entries,
\* so that a reused run id cannot hide one of them.
Chats == {c \in Caller : Holds(c) /\ spec[c].kind = "chat"}
ModelSlots ==
    /\ Cardinality(Chats) <= MaxModelWorkers
    /\ \A c, d \in Chats : c # d /\ spec[c].guru = spec[d].guru
                              => spec[c].target # spec[d].target

\* What the table admits holds while it changes under the caller: neither an
\* installation beside a run nor more model runs than there are slots.
AdmissionHolds == NoRunDuringUpdate /\ ModelSlots

\* A turn that goes on to commit owns the terminal boundary of its own run,
\* and one that was stopped never gets it, whatever Stop arrives meanwhile.
TerminalBoundary ==
    \A c \in Caller :
        /\ phase[c] = "completing" =>
             runs[spec[c].id] # NoRun /\ runs[spec[c].id].terminal = "completion_claimed"
        /\ phase[c] = "stopping" =>
             runs[spec[c].id] # NoRun /\ runs[spec[c].id].terminal = "cancel_requested"

\* Once a writer is queued for a Guru no new reader is admitted to it, so a
\* completed Chat cannot starve or lose the race for its Memory commit; and
\* the writers go in the order in which they reserved: whoever is ahead of a
\* queued writer after a step was already ahead of it before.
Readers(g) == {r \in ActiveOf(g) : runs[r].kind # "memory_write"}
Ahead(q, i) == {q[k] : k \in 1 .. i - 1}
QueueOrder ==
    [][\A g \in Guru :
         /\ queue[g] # <<>> => Readers(g)' \subseteq Readers(g)
         /\ \A l \in DOMAIN queue'[g] : \A j \in DOMAIN queue[g] :
              queue'[g][l] = queue[g][j] => Ahead(queue'[g], l) \subseteq Ahead(queue[g], j)]_vars

\* A reserved writer is eventually granted the Guru, or gives up its place.
WritersServed == \A c \in Caller : phase[c] \in Waiting ~> phase[c] \notin Waiting
=============================================================================
