------------------------ MODULE RunCoordinatorProofs ------------------------
(***************************************************************************)
(* Proofs about RunCoordinator, for every set of callers, run ids, Gurus   *)
(* and threads: first the exclusion of runs on one Guru and of updates,    *)
(* then what the coordinator promises beside it: writers see the           *)
(* quarantine, model slots are bounded, queues keep their order, no        *)
(* wake-up is lost and the terminal boundary of a turn has one owner.      *)
(***************************************************************************)
EXTENDS RunCoordinator, FiniteSetTheorems, FunctionTheorems, TLAPS

\* The first element of a concatenation is that of its first part.
LEMMA ConcatKeepsHead ==
    ASSUME NEW S, NEW s \in Seq(S), NEW t \in Seq(S), Len(s) > 0
    PROVE  /\ s \o t \in Seq(S)
           /\ s \o t # <<>>
           /\ Head(s \o t) = s[1]
<1>1. s \o t \in Seq(S) /\ Len(s \o t) = Len(s) + Len(t)
  OBVIOUS
<1>2. Len(s \o t) > 0 /\ (s \o t)[1] = s[1]
  BY <1>1
<1> QED
  BY <1>1, <1>2

\* Retaining every id but one keeps a sequence of ids, and keeps its head
\* unless the head is the id that leaves.
LEMMA DequeueKeepsHead ==
    ASSUME NEW S, NEW q \in Seq(S), NEW r
    PROVE  /\ Dequeue(q, r) \in Seq(S)
           /\ q # <<>> /\ Head(q) # r =>
                Dequeue(q, r) # <<>> /\ Head(Dequeue(q, r)) = Head(q)
<1>1. CASE \E i \in DOMAIN q : q[i] = r
  <2> DEFINE i == CHOOSE i \in DOMAIN q : q[i] = r
             before == SubSeq(q, 1, i - 1)
             after == SubSeq(q, i + 1, Len(q))
  <2>1. i \in 1 .. Len(q) /\ q[i] = r
    BY <1>1
  <2>2. Dequeue(q, r) = before \o after
    BY <1>1 DEF Dequeue, RemoveAt
  <2> HIDE DEF i
  <2>3. before \in Seq(S) /\ after \in Seq(S)
    BY <2>1
  <2>4. ASSUME q # <<>>, Head(q) # r
        PROVE  Len(before) > 0 /\ before[1] = Head(q)
    <3>1. i > 1
      BY <2>1, <2>4
    <3> QED
      BY <2>1, <2>4, <3>1
  <2> HIDE DEF before, after
  <2>5. before \o after \in Seq(S)
    BY <2>3
  <2> QED
    BY <2>2, <2>3, <2>4, <2>5, ConcatKeepsHead
<1>2. CASE ~\E i \in DOMAIN q : q[i] = r
  BY <1>2 DEF Dequeue
<1> QED
  BY <1>1, <1>2
-----------------------------------------------------------------------------
\* Every step, by name: what the proofs below split on.
LEMMA NextCases ==
    ASSUME [Next]_vars
    PROVE  \/ \E c \in Caller : \E s \in Requests[c] : AdmitActivity(c, s)
           \/ \E c \in Caller :
                \/ Register(c) \/ ReserveMemoryWrite(c) \/ RefuseRegistration(c)
                \/ BeginWait(c) \/ CheckQueue(c) \/ Wake(c) \/ RecheckAvailable(c)
                \/ FailWrite(c) \/ FinishRecovery(c) \/ FailChatDeletion(c)
                \/ ClaimCompletion(c)
                \/ RemoveRun(c) \/ NotifyWaiters(c) \/ DropActivity(c)
           \/ \E r \in RunId : Cancel(r)
           \/ \E g \in Guru : BeginGuruMutation(g) \/ ClearDeletionQuarantine(g)
           \/ \E n \in Native : AdmitNative(n) \/ DropNative(n)
           \/ BeginUpdate \/ EndUpdate
           \/ UNCHANGED vars
BY DEF Next, CallerStep

\* Recording a terminal decision changes nothing else of an entry.
LEMMA TerminalUpdate ==
    ASSUME TypeOK, NEW r \in RunId, runs[r] # NoRun,
           NEW t \in {"cancel_requested", "completion_claimed"},
           runs' = [runs EXCEPT ![r].terminal = t]
    PROVE  /\ runs' \in [RunId -> ActiveRun \cup {NoRun}]
           /\ \A i \in RunId : runs[i] # NoRun <=> runs'[i] # NoRun
           /\ \A i \in RunId : runs[i] # NoRun =>
                /\ runs'[i].guru = runs[i].guru /\ runs'[i].kind = runs[i].kind
                /\ runs'[i].target = runs[i].target
<1> DEFINE e == [runs[r] EXCEPT !.terminal = t]
<1>1. runs[r] \in ActiveRun
  BY DEF TypeOK
<1>2. /\ e \in ActiveRun
      /\ e.guru = runs[r].guru /\ e.kind = runs[r].kind /\ e.target = runs[r].target
  BY <1>1 DEF ActiveRun
<1>3. runs' = [runs EXCEPT ![r] = e]
  OBVIOUS
<1>4. e # NoRun
  BY <1>2, NoRunAssumption
<1> HIDE DEF e
<1>5. \A i \in RunId : runs'[i] = IF i = r THEN e ELSE runs[i]
  BY <1>3 DEF TypeOK
<1>6. runs' \in [RunId -> ActiveRun \cup {NoRun}]
  BY <1>2, <1>3 DEF TypeOK
<1> QED
  BY <1>2, <1>4, <1>5, <1>6

\* Type correctness: each action keeps every variable in its set.
LEMMA TypeStep == TypeOK /\ [Next]_vars => TypeOK'
<1> SUFFICES ASSUME TypeOK, [Next]_vars
             PROVE  TypeOK'
  OBVIOUS
<1> USE DEF TypeOK, Phase, Holding, Waiting, Goto, table, gate
<1>1. ASSUME NEW c \in Caller, NEW s \in Requests[c], AdmitActivity(c, s)
      PROVE  TypeOK'
  <2>1. s \in RunSpec
    BY RequestsAssumption DEF Request
  <2> QED
    BY <1>1, <2>1 DEF AdmitActivity
<1>2. ASSUME NEW c \in Caller, Register(c)
      PROVE  TypeOK'
  <2>1. spec[c] \in RunSpec
    BY <1>2 DEF Register
  <2>2. Entry(spec[c]) \in ActiveRun
    BY <2>1 DEF Entry, RunSpec, ActiveRun
  <2> QED
    BY <1>2, <2>1, <2>2 DEF Register, RunSpec
<1>3. ASSUME NEW c \in Caller, ReserveMemoryWrite(c)
      PROVE  TypeOK'
  <2>1. spec[c] \in RunSpec
    BY <1>3 DEF ReserveMemoryWrite
  <2>2. Entry(spec[c]) \in ActiveRun
    BY <2>1 DEF Entry, RunSpec, ActiveRun
  <2>3. queue' \in [Guru -> Seq(RunId)]
    BY <1>3, <2>1 DEF ReserveMemoryWrite, RunSpec
  <2> QED
    BY <1>3, <2>1, <2>2, <2>3 DEF ReserveMemoryWrite, RunSpec
<1>4. ASSUME NEW c \in Caller,
             RefuseRegistration(c) \/ BeginWait(c) \/ CheckQueue(c) \/ Wake(c)
               \/ RecheckAvailable(c) \/ NotifyWaiters(c)
      PROVE  TypeOK'
  BY <1>4 DEF RefuseRegistration, BeginWait, CheckQueue, Wake, RecheckAvailable,
              NotifyWaiters
<1>5. ASSUME NEW c \in Caller,
             FailWrite(c) \/ FinishRecovery(c) \/ FailChatDeletion(c)
      PROVE  TypeOK'
  <2>1. quarantine' \in [Guru -> SUBSET Source]
    <3>1. CASE FailWrite(c)
      BY <3>1 DEF FailWrite, Source
    <3>2. CASE FinishRecovery(c)
      BY <3>2 DEF FinishRecovery
    <3>3. CASE FailChatDeletion(c)
      BY <3>3 DEF FailChatDeletion, Source
    <3> QED
      BY <1>5, <3>1, <3>2, <3>3
  <2> QED
    BY <1>5, <2>1 DEF FailWrite, FinishRecovery, FailChatDeletion
<1>6. ASSUME NEW c \in Caller, ClaimCompletion(c)
      PROVE  TypeOK'
  <2>1. runs' \in [RunId -> ActiveRun \cup {NoRun}]
    BY <1>6, TerminalUpdate DEF ClaimCompletion, ChatRuns
  <2> QED
    BY <1>6, <2>1 DEF ClaimCompletion
<1>7. ASSUME NEW c \in Caller, RemoveRun(c)
      PROVE  TypeOK'
  <2>1. queue' \in [Guru -> Seq(RunId)]
    BY <1>7, DequeueKeepsHead DEF RemoveRun
  <2> QED
    BY <1>7, <2>1 DEF RemoveRun, Holds
<1>8. ASSUME NEW c \in Caller, DropActivity(c)
      PROVE  TypeOK'
  BY <1>8 DEF DropActivity
<1>9. ASSUME NEW r \in RunId, Cancel(r)
      PROVE  TypeOK'
  <2>1. runs' \in [RunId -> ActiveRun \cup {NoRun}]
    BY <1>9, TerminalUpdate DEF Cancel, ChatRuns
  <2> QED
    BY <1>9, <2>1 DEF Cancel
<1>10. ASSUME NEW g \in Guru, BeginGuruMutation(g) \/ ClearDeletionQuarantine(g)
       PROVE  TypeOK'
  <2>1. quarantine[g] \cup {"deletion"} \in SUBSET Source
         /\ quarantine[g] \ {"deletion"} \in SUBSET Source
    BY DEF Source
  <2>2. quarantine' \in [Guru -> SUBSET Source]
    BY <1>10, <2>1 DEF BeginGuruMutation, ClearDeletionQuarantine
  <2>3. UNCHANGED <<runs, queue, activities, installing, phase, spec, changed>>
    BY <1>10 DEF BeginGuruMutation, ClearDeletionQuarantine
  <2> QED
    BY <2>2, <2>3
<1>11. ASSUME NEW n \in Native, AdmitNative(n) \/ DropNative(n)
       PROVE  TypeOK'
  BY <1>11 DEF AdmitNative, DropNative
<1>12. ASSUME BeginUpdate \/ EndUpdate
       PROVE  TypeOK'
  BY <1>12 DEF BeginUpdate, EndUpdate
<1>13. CASE UNCHANGED vars
  BY <1>13 DEF vars
<1> QED
  BY <1>1, <1>2, <1>3, <1>4, <1>5, <1>6, <1>7, <1>8, <1>9, <1>10, <1>11, <1>12,
     <1>13, NextCases
-----------------------------------------------------------------------------
\* The steps that neither add nor remove an entry of the run table, and what
\* they leave of a lease: at most a terminal decision is recorded.
Unregistering == \E c \in Caller : RemoveRun(c)
Registering   == \E c \in Caller : Register(c) \/ ReserveMemoryWrite(c)

LEMMA OtherSteps ==
    ASSUME TypeOK, LeaseOwnsEntry, [Next]_vars, ~Unregistering, ~Registering
    PROVE  /\ queue' = queue
           /\ \A r \in RunId : runs[r] # NoRun <=> runs'[r] # NoRun
           /\ \A r \in RunId : runs[r] # NoRun =>
                /\ runs'[r].guru = runs[r].guru /\ runs'[r].kind = runs[r].kind
                /\ runs'[r].target = runs[r].target
           /\ \A c \in Caller : Holds(c)' <=> Holds(c)
           /\ \A c \in Caller : Holds(c) => spec'[c] = spec[c]
<1> DEFINE Goal ==
             /\ queue' = queue
             /\ \A r \in RunId : runs[r] # NoRun <=> runs'[r] # NoRun
             /\ \A r \in RunId : runs[r] # NoRun =>
                  /\ runs'[r].guru = runs[r].guru /\ runs'[r].kind = runs[r].kind
                  /\ runs'[r].target = runs[r].target
             /\ \A c \in Caller : Holds(c)' <=> Holds(c)
             /\ \A c \in Caller : Holds(c) => spec'[c] = spec[c]
<1> USE DEF Goto, table, gate, Holds, Holding, Waiting
<1>1. ASSUME NEW c \in Caller, NEW s \in Requests[c], AdmitActivity(c, s)
      PROVE  Goal
  BY <1>1 DEF AdmitActivity, TypeOK
<1>2. ASSUME NEW c \in Caller,
             RefuseRegistration(c) \/ BeginWait(c) \/ CheckQueue(c) \/ Wake(c)
               \/ RecheckAvailable(c) \/ NotifyWaiters(c)
      PROVE  Goal
  BY <1>2 DEF RefuseRegistration, BeginWait, CheckQueue, Wake, RecheckAvailable,
              NotifyWaiters, TypeOK
<1>3. ASSUME NEW c \in Caller,
             FailWrite(c) \/ FinishRecovery(c) \/ FailChatDeletion(c) \/ DropActivity(c)
      PROVE  Goal
  BY <1>3 DEF FailWrite, FinishRecovery, FailChatDeletion, DropActivity, TypeOK
<1>4. ASSUME NEW c \in Caller, ClaimCompletion(c)
      PROVE  Goal
  <2>1. /\ \A r \in RunId : runs[r] # NoRun <=> runs'[r] # NoRun
        /\ \A r \in RunId : runs[r] # NoRun =>
             /\ runs'[r].guru = runs[r].guru /\ runs'[r].kind = runs[r].kind
             /\ runs'[r].target = runs[r].target
    BY <1>4, TerminalUpdate DEF ClaimCompletion, ChatRuns
  <2> QED
    BY <1>4, <2>1 DEF ClaimCompletion, TypeOK
<1>5. ASSUME NEW r \in RunId, Cancel(r)
      PROVE  Goal
  <2>1. runs[r] # NoRun
    BY <1>5 DEF Cancel, ChatRuns
  <2> QED
    BY <1>5, <2>1, TerminalUpdate DEF Cancel
<1>6. ASSUME \/ \E g \in Guru : BeginGuruMutation(g) \/ ClearDeletionQuarantine(g)
             \/ \E n \in Native : AdmitNative(n) \/ DropNative(n)
             \/ BeginUpdate \/ EndUpdate \/ UNCHANGED vars
      PROVE  Goal
  BY <1>6 DEF BeginGuruMutation, ClearDeletionQuarantine, AdmitNative, DropNative,
              BeginUpdate, EndUpdate, vars
<1> QED
  BY <1>1, <1>2, <1>3, <1>4, <1>5, <1>6, NextCases DEF Unregistering, Registering

\* Registration: a new entry and a new lease, on an id nobody else holds.
LEMMA RegisterStep ==
    ASSUME TypeOK, LeaseOwnsEntry, NEW c \in Caller, Register(c) \/ ReserveMemoryWrite(c)
    PROVE  /\ spec[c] \in RunSpec /\ spec' = spec
           /\ runs[spec[c].id] = NoRun
           /\ runs' = [runs EXCEPT ![spec[c].id] = Entry(spec[c])]
           /\ Entry(spec[c]) # NoRun
           /\ ~Holds(c)
           /\ \A d \in Caller : Holds(d)' <=> Holds(d) \/ d = c
           /\ \A d \in Caller : Holds(d) => spec[d].id # spec[c].id /\ spec[d] \in RunSpec
<1>1. /\ phase[c] = "admitted" /\ spec' = spec /\ runs[spec[c].id] = NoRun
      /\ runs' = [runs EXCEPT ![spec[c].id] = Entry(spec[c])]
      /\ \E p \in {"active", "reserved"} : phase' = [phase EXCEPT ![c] = p]
  BY DEF Register, ReserveMemoryWrite, Admit, AdmitWaitingWriter, Goto
<1>2. spec[c] \in RunSpec
  BY <1>1 DEF TypeOK
<1>3. Entry(spec[c]) \in ActiveRun
  BY <1>2 DEF Entry, RunSpec, ActiveRun
<1>4. ~Holds(c) /\ \A d \in Caller : Holds(d)' <=> Holds(d) \/ d = c
  BY <1>1 DEF TypeOK, Holds, Holding, Waiting
<1>5. \A d \in Caller : Holds(d) => spec[d].id # spec[c].id /\ spec[d] \in RunSpec
  BY <1>1 DEF LeaseOwnsEntry, TypeOK, Holds, Holding, Waiting
<1> QED
  BY <1>1, <1>2, <1>3, <1>4, <1>5, NoRunAssumption

\* Dropping a lease removes its own entry, and no other lease.
LEMMA RemoveStep ==
    ASSUME TypeOK, LeaseOwnsEntry, NEW c \in Caller, RemoveRun(c)
    PROVE  /\ spec[c] \in RunSpec /\ spec' = spec
           /\ runs' = [runs EXCEPT ![spec[c].id] = NoRun]
           /\ \A d \in Caller : Holds(d)' <=> Holds(d) /\ d # c
           /\ \A d \in Caller : Holds(d) /\ d # c => spec[d].id # spec[c].id
           /\ \A d \in Caller : Holds(d) => spec[d] \in RunSpec
BY DEF RemoveRun, LeaseOwnsEntry, TypeOK, Holds, Holding, Waiting, Goto

LEMMA LeaseStep ==
    TypeOK /\ LeaseOwnsEntry /\ EntryHasLease /\ [Next]_vars
      => LeaseOwnsEntry' /\ EntryHasLease'
<1> SUFFICES ASSUME TypeOK, LeaseOwnsEntry, EntryHasLease, [Next]_vars
             PROVE  LeaseOwnsEntry' /\ EntryHasLease'
  OBVIOUS
<1>0. \A d \in Caller : Holds(d) => spec[d] \in RunSpec /\ spec[d].id \in RunId
  BY DEF TypeOK, Holds, Holding, Waiting, RunSpec
<1>1. CASE ~Unregistering /\ ~Registering
  <2>1. LeaseOwnsEntry'
    BY <1>0, <1>1, OtherSteps DEF LeaseOwnsEntry
  <2>2. EntryHasLease'
    BY <1>0, <1>1, OtherSteps DEF EntryHasLease
  <2> QED
    BY <2>1, <2>2
<1>2. ASSUME NEW c \in Caller, Register(c) \/ ReserveMemoryWrite(c)
      PROVE  LeaseOwnsEntry' /\ EntryHasLease'
  <2> DEFINE e == Entry(spec[c])
  <2>1. e.guru = spec[c].guru /\ e.kind = spec[c].kind /\ e.target = spec[c].target
    BY DEF Entry
  <2> HIDE DEF e
  <2>2. spec[c].id \in RunId
    BY <1>2, RegisterStep DEF RunSpec
  <2>3. \A r \in RunId : runs'[r] = IF r = spec[c].id THEN e ELSE runs[r]
    BY <1>2, RegisterStep DEF TypeOK, e
  <2>4. e # NoRun
    BY <1>2, RegisterStep DEF e
  <2>5. LeaseOwnsEntry'
    BY <1>0, <1>2, <2>1, <2>2, <2>3, <2>4, RegisterStep DEF LeaseOwnsEntry
  <2>6. EntryHasLease'
    BY <1>2, <2>2, <2>3, RegisterStep DEF EntryHasLease
  <2> QED
    BY <2>5, <2>6
<1>3. ASSUME NEW c \in Caller, RemoveRun(c)
      PROVE  LeaseOwnsEntry' /\ EntryHasLease'
  <2>1. \A r \in RunId : runs'[r] = IF r = spec[c].id THEN NoRun ELSE runs[r]
    BY <1>3, RemoveStep DEF TypeOK
  <2>2. LeaseOwnsEntry'
    BY <1>0, <1>3, <2>1, RemoveStep DEF LeaseOwnsEntry
  <2>3. EntryHasLease'
    BY <1>0, <1>3, <2>1, RemoveStep DEF EntryHasLease
  <2> QED
    BY <2>2, <2>3
<1> QED
  BY <1>1, <1>2, <1>3 DEF Unregistering, Registering
-----------------------------------------------------------------------------
\* A phase of the waiting, granted or failed kind is only ever entered by a
\* queued writer, and a claim is only ever decided for a Chat.
LEMMA PhaseStep == TypeOK /\ PhaseFitsKind /\ [Next]_vars => PhaseFitsKind'
<1> SUFFICES ASSUME TypeOK, PhaseFitsKind, [Next]_vars
             PROVE  PhaseFitsKind'
  OBVIOUS
<1> USE DEF PhaseFitsKind, Goto, Queued, IsWriter, Waiting, TypeOK
<1>1. ASSUME NEW c \in Caller, NEW s \in Requests[c], AdmitActivity(c, s)
      PROVE  PhaseFitsKind'
  BY <1>1 DEF AdmitActivity
<1>2. ASSUME NEW c \in Caller,
             Register(c) \/ ReserveMemoryWrite(c) \/ RefuseRegistration(c)
               \/ BeginWait(c) \/ CheckQueue(c) \/ Wake(c) \/ RecheckAvailable(c)
      PROVE  PhaseFitsKind'
  BY <1>2 DEF Register, ReserveMemoryWrite, RefuseRegistration, BeginWait, CheckQueue,
              Wake, RecheckAvailable
<1>3. ASSUME NEW c \in Caller,
             FailWrite(c) \/ FinishRecovery(c) \/ FailChatDeletion(c) \/ ClaimCompletion(c)
      PROVE  PhaseFitsKind'
  BY <1>3 DEF FailWrite, FinishRecovery, FailChatDeletion, ClaimCompletion
<1>4. ASSUME NEW c \in Caller, RemoveRun(c) \/ NotifyWaiters(c) \/ DropActivity(c)
      PROVE  PhaseFitsKind'
  BY <1>4 DEF RemoveRun, NotifyWaiters, DropActivity
<1>5. ASSUME \/ \E r \in RunId : Cancel(r)
             \/ \E g \in Guru : BeginGuruMutation(g) \/ ClearDeletionQuarantine(g)
             \/ \E n \in Native : AdmitNative(n) \/ DropNative(n)
             \/ BeginUpdate \/ EndUpdate \/ UNCHANGED vars
      PROVE  PhaseFitsKind'
  BY <1>5 DEF Cancel, BeginGuruMutation, ClearDeletionQuarantine, AdmitNative,
              DropNative, BeginUpdate, EndUpdate, vars
<1> QED
  BY <1>1, <1>2, <1>3, <1>4, <1>5, NextCases

\* The activity lease is taken first and dropped last.
LEMMA ActivityStep == TypeOK /\ LeaseHasActivity /\ [Next]_vars => LeaseHasActivity'
<1> SUFFICES ASSUME TypeOK, LeaseHasActivity, [Next]_vars
             PROVE  LeaseHasActivity'
  OBVIOUS
<1> USE DEF LeaseHasActivity, Goto, gate, table, TypeOK
<1>1. ASSUME NEW c \in Caller, NEW s \in Requests[c], AdmitActivity(c, s)
      PROVE  LeaseHasActivity'
  BY <1>1 DEF AdmitActivity
<1>2. ASSUME NEW c \in Caller,
             Register(c) \/ ReserveMemoryWrite(c) \/ RefuseRegistration(c)
               \/ BeginWait(c) \/ CheckQueue(c) \/ Wake(c) \/ RecheckAvailable(c)
      PROVE  LeaseHasActivity'
  BY <1>2 DEF Register, ReserveMemoryWrite, RefuseRegistration, BeginWait, CheckQueue,
              Wake, RecheckAvailable
<1>3. ASSUME NEW c \in Caller,
             FailWrite(c) \/ FinishRecovery(c) \/ FailChatDeletion(c) \/ ClaimCompletion(c)
               \/ RemoveRun(c) \/ NotifyWaiters(c)
      PROVE  LeaseHasActivity'
  BY <1>3 DEF FailWrite, FinishRecovery, FailChatDeletion, ClaimCompletion, RemoveRun,
              NotifyWaiters, Holds, Holding, Waiting
<1>4. ASSUME NEW c \in Caller, DropActivity(c)
      PROVE  LeaseHasActivity'
  BY <1>4 DEF DropActivity
<1>5. ASSUME NEW n \in Native, AdmitNative(n) \/ DropNative(n)
      PROVE  LeaseHasActivity'
  BY <1>5, HolderAssumption DEF AdmitNative, DropNative
<1>6. ASSUME \/ \E r \in RunId : Cancel(r)
             \/ \E g \in Guru : BeginGuruMutation(g) \/ ClearDeletionQuarantine(g)
             \/ BeginUpdate \/ EndUpdate \/ UNCHANGED vars
      PROVE  LeaseHasActivity'
  BY <1>6 DEF Cancel, BeginGuruMutation, ClearDeletionQuarantine, BeginUpdate,
              EndUpdate, vars
<1> QED
  BY <1>1, <1>2, <1>3, <1>4, <1>5, <1>6, NextCases
-----------------------------------------------------------------------------
Owner(c) == phase[c] \in {"granted", "active", "failed"} /\ Queued(c)

\* A writer becomes an owner only by finding itself ready.
LEMMA OwnerEntry ==
    ASSUME TypeOK, PhaseFitsKind, [Next]_vars, NEW d \in Caller, Owner(d)'
    PROVE  spec'[d] = spec[d] /\ Holds(d) /\ (Owner(d) \/ Ready(d))
<1> DEFINE Goal == /\ spec'[d] = spec[d] /\ Holds(d)
                   /\ Owner(d) \/ Ready(d)
<1> USE DEF Owner, Goto, Queued, IsWriter, Holds, Holding, Waiting, TypeOK, table, gate
<1>1. ASSUME NEW c \in Caller, NEW s \in Requests[c], AdmitActivity(c, s)
      PROVE  Goal
  BY <1>1 DEF AdmitActivity
<1>2. ASSUME NEW c \in Caller, Register(c) \/ ReserveMemoryWrite(c)
      PROVE  Goal
  BY <1>2 DEF Register, ReserveMemoryWrite
<1>3. ASSUME NEW c \in Caller, CheckQueue(c)
      PROVE  Goal
  BY <1>3 DEF CheckQueue
<1>4. ASSUME NEW c \in Caller,
             RefuseRegistration(c) \/ BeginWait(c) \/ Wake(c) \/ RecheckAvailable(c)
      PROVE  Goal
  BY <1>4 DEF RefuseRegistration, BeginWait, Wake, RecheckAvailable
<1>5. ASSUME NEW c \in Caller,
             FailWrite(c) \/ FinishRecovery(c) \/ FailChatDeletion(c) \/ ClaimCompletion(c)
      PROVE  Goal
  BY <1>5 DEF FailWrite, FinishRecovery, FailChatDeletion, ClaimCompletion
<1>6. ASSUME NEW c \in Caller, RemoveRun(c) \/ NotifyWaiters(c) \/ DropActivity(c)
      PROVE  Goal
  BY <1>6 DEF RemoveRun, NotifyWaiters, DropActivity
<1>7. ASSUME \/ \E r \in RunId : Cancel(r)
             \/ \E g \in Guru : BeginGuruMutation(g) \/ ClearDeletionQuarantine(g)
             \/ \E n \in Native : AdmitNative(n) \/ DropNative(n)
             \/ BeginUpdate \/ EndUpdate \/ UNCHANGED vars
      PROVE  Goal
  BY <1>7 DEF Cancel, BeginGuruMutation, ClearDeletionQuarantine, AdmitNative,
              DropNative, BeginUpdate, EndUpdate, vars
<1> QED
  BY <1>1, <1>2, <1>3, <1>4, <1>5, <1>6, <1>7, NextCases

\* Nothing but its own release takes the head of the queue from a writer that
\* owns the Guru, and nothing lets a reader in beside it.
LEMMA OwnerStep ==
    TypeOK /\ LeaseOwnsEntry /\ PhaseFitsKind /\ WriterOwnsGuru /\ [Next]_vars
      => WriterOwnsGuru'
<1> SUFFICES ASSUME TypeOK, LeaseOwnsEntry, PhaseFitsKind, WriterOwnsGuru, [Next]_vars,
                    NEW d \in Caller, Owner(d)'
             PROVE  Ready(d)'
  BY DEF WriterOwnsGuru, Owner
<1>1. Ready(d) /\ Holds(d) /\ spec'[d] = spec[d] /\ Queued(d)
  BY OwnerEntry DEF WriterOwnsGuru, Owner, Queued, IsWriter
<1>2. spec[d] \in RunSpec /\ spec[d].guru \in Guru /\ spec[d].id \in RunId
  BY <1>1 DEF TypeOK, Holds, Holding, Waiting, RunSpec
<1>3. /\ spec[d].id \in ActiveOf(spec[d].guru)
      /\ runs[spec[d].id].kind = "memory_write"
  BY <1>1, <1>2 DEF LeaseOwnsEntry, ActiveOf, Queued, IsWriter
<1> DEFINE q == queue[spec[d].guru]
<1>4. q \in Seq(RunId) /\ q # <<>> /\ Head(q) = spec[d].id
  BY <1>1, <1>2 DEF Ready, QueueHead, TypeOK
<1>5. CASE ~Unregistering /\ ~Registering
  BY <1>1, <1>5, OtherSteps DEF Ready, QueueHead, ActiveOf
<1>6. ASSUME NEW c \in Caller, Register(c) \/ ReserveMemoryWrite(c)
      PROVE  Ready(d)'
  <2> DEFINE e == Entry(spec[c])
  <2>1. e.guru = spec[c].guru /\ e.kind = spec[c].kind
    BY DEF Entry
  <2> HIDE DEF e
  <2>2. spec[c].id \in RunId /\ spec[c].guru \in Guru
    BY <1>6, RegisterStep DEF RunSpec
  <2>3. \A r \in RunId : runs'[r] = IF r = spec[c].id THEN e ELSE runs[r]
    BY <1>6, RegisterStep DEF TypeOK, e
  <2>4. spec[c].guru = spec[d].guru => spec[c].kind = "memory_write"
    <3>1. CASE Register(c)
      BY <1>3, <3>1 DEF Register, Admit
    <3>2. CASE ReserveMemoryWrite(c)
      BY <3>2 DEF ReserveMemoryWrite, Queued, IsWriter
    <3> QED
      BY <1>6, <3>1, <3>2
  <2>5. QueueHead(d)'
    <3>1. CASE Register(c)
      BY <1>1, <1>4, <3>1 DEF Register, QueueHead
    <3>2. CASE ReserveMemoryWrite(c)
      <4>1. Append(q, spec[c].id) # <<>> /\ Head(Append(q, spec[c].id)) = Head(q)
        BY <1>4, <2>2
      <4>2. queue'[spec[d].guru] = IF spec[c].guru = spec[d].guru
                                     THEN Append(q, spec[c].id) ELSE q
        BY <1>2, <3>2 DEF ReserveMemoryWrite, TypeOK
      <4> QED
        BY <1>1, <1>4, <4>1, <4>2 DEF QueueHead
    <3> QED
      BY <1>6, <3>1, <3>2
  <2> QED
    BY <1>1, <2>1, <2>3, <2>4, <2>5 DEF Ready, ActiveOf
<1>7. ASSUME NEW c \in Caller, RemoveRun(c)
      PROVE  Ready(d)'
  <2>1. c # d /\ spec[c].id # spec[d].id
    <3>1. Holds(d)'
      BY <1>1 DEF Owner, Holds, Holding
    <3> QED
      BY <1>1, <1>7, <3>1, RemoveStep
  <2>2. \A r \in RunId : runs'[r] = IF r = spec[c].id THEN NoRun ELSE runs[r]
    BY <1>7, RemoveStep DEF TypeOK
  <2>3. queue'[spec[d].guru] \in {q, Dequeue(q, spec[c].id)}
    BY <1>2, <1>7 DEF RemoveRun, TypeOK
  <2>4. QueueHead(d)'
    BY <1>1, <1>4, <2>1, <2>3, DequeueKeepsHead DEF QueueHead
  <2> QED
    BY <1>1, <2>2, <2>4 DEF Ready, ActiveOf
<1> QED
  BY <1>5, <1>6, <1>7 DEF Unregistering, Registering
-----------------------------------------------------------------------------
Recovering(c) == phase[c] = "active" /\ Recovers(c)

\* A recovery starts only by registering, and only it may clear what it needs.
LEMMA RecoveryEntry ==
    ASSUME TypeOK, PhaseFitsKind, RecoveryIsAlone, [Next]_vars, ~Registering,
           NEW d \in Caller, Recovering(d)'
    PROVE  /\ spec'[d] = spec[d] /\ Recovering(d)
           /\ "memory_write" \in quarantine'[spec[d].guru]
<1> DEFINE Goal == /\ spec'[d] = spec[d] /\ Recovering(d)
                   /\ "memory_write" \in quarantine'[spec[d].guru]
<1> USE DEF Recovering, RecoveryIsAlone, Goto, Recovers, Queued, IsWriter, TypeOK, table, gate
<1>1. ASSUME NEW c \in Caller, NEW s \in Requests[c], AdmitActivity(c, s)
      PROVE  Goal
  BY <1>1 DEF AdmitActivity
<1>2. ASSUME NEW c \in Caller, RefuseRegistration(c) \/ BeginWait(c) \/ CheckQueue(c) \/ Wake(c)
      PROVE  Goal
  BY <1>2 DEF RefuseRegistration, BeginWait, CheckQueue, Wake
<1>3. ASSUME NEW c \in Caller, RecheckAvailable(c)
      PROVE  Goal
  BY <1>3 DEF RecheckAvailable, PhaseFitsKind
<1>4. ASSUME NEW c \in Caller, FailWrite(c) \/ FailChatDeletion(c)
      PROVE  Goal
  <2>1. d # c /\ spec' = spec /\ phase'[d] = phase[d]
    BY <1>4 DEF FailWrite, FailChatDeletion
  <2>2. "memory_write" \in quarantine[spec[d].guru] /\ spec[d].guru \in Guru
    BY <2>1 DEF RunSpec
  <2>3. "memory_write" \in quarantine'[spec[d].guru]
    <3>1. CASE FailWrite(c)
      BY <2>2, <3>1 DEF FailWrite
    <3>2. CASE FailChatDeletion(c)
      BY <2>2, <3>2 DEF FailChatDeletion
    <3> QED
      BY <1>4, <3>1, <3>2
  <2> QED
    BY <2>1, <2>3
<1>5. ASSUME NEW c \in Caller, FinishRecovery(c)
      PROVE  Goal
  <2>1. d # c /\ Recovering(d) /\ spec' = spec
    BY <1>5 DEF FinishRecovery
  <2>2. spec[c].guru # spec[d].guru
    BY <1>5, <2>1 DEF FinishRecovery, Holds, Holding
  <2>3. quarantine'[spec[d].guru] = quarantine[spec[d].guru]
    BY <1>5, <2>2 DEF FinishRecovery
  <2> QED
    BY <2>1, <2>3
<1>6. ASSUME NEW c \in Caller,
             ClaimCompletion(c) \/ RemoveRun(c) \/ NotifyWaiters(c) \/ DropActivity(c)
      PROVE  Goal
  BY <1>6 DEF ClaimCompletion, RemoveRun, NotifyWaiters, DropActivity
<1>7. ASSUME NEW g \in Guru, BeginGuruMutation(g) \/ ClearDeletionQuarantine(g)
      PROVE  Goal
  <2>1. spec' = spec /\ phase' = phase
    BY <1>7 DEF BeginGuruMutation, ClearDeletionQuarantine
  <2>2. "memory_write" \in quarantine[spec[d].guru] /\ spec[d].guru \in Guru
    BY <2>1 DEF RunSpec
  <2>3. "memory_write" \in quarantine'[spec[d].guru]
    <3>1. CASE BeginGuruMutation(g)
      BY <2>2, <3>1 DEF BeginGuruMutation
    <3>2. CASE ClearDeletionQuarantine(g)
      BY <2>2, <3>2 DEF ClearDeletionQuarantine
    <3> QED
      BY <1>7, <3>1, <3>2
  <2> QED
    BY <2>1, <2>3
<1>8. ASSUME \/ \E r \in RunId : Cancel(r)
             \/ \E n \in Native : AdmitNative(n) \/ DropNative(n)
             \/ BeginUpdate \/ EndUpdate \/ UNCHANGED vars
      PROVE  Goal
  BY <1>8 DEF Cancel, AdmitNative, DropNative, BeginUpdate, EndUpdate, vars
<1> QED
  BY <1>1, <1>2, <1>3, <1>4, <1>5, <1>6, <1>7, <1>8, NextCases DEF Registering

\* The quarantine keeps every other command off the Guru while it recovers.
LEMMA RecoveryStep ==
    TypeOK /\ LeaseOwnsEntry /\ PhaseFitsKind /\ RecoveryIsAlone /\ [Next]_vars
      => RecoveryIsAlone'
<1> SUFFICES ASSUME TypeOK, LeaseOwnsEntry, PhaseFitsKind, RecoveryIsAlone, [Next]_vars,
                    NEW d \in Caller, Recovering(d)'
             PROVE  /\ "memory_write" \in quarantine'[spec'[d].guru]
                    /\ \A e \in Caller : e # d /\ Holds(e)' => spec'[e].guru # spec'[d].guru
  BY DEF RecoveryIsAlone, Recovering
<1>0. /\ \A e \in Caller : Holds(e) => spec[e].id \in RunId
      /\ \A e \in Caller : Holds(e) => spec[e].id \in ActiveOf(spec[e].guru)
  BY DEF TypeOK, Holds, Holding, Waiting, RunSpec, LeaseOwnsEntry, ActiveOf
<1>1. CASE ~Registering
  <2>1. /\ spec'[d] = spec[d] /\ Recovering(d)
        /\ "memory_write" \in quarantine'[spec[d].guru]
    BY <1>1, RecoveryEntry
  <2>2. \A e \in Caller : Holds(e)' => Holds(e) /\ spec'[e] = spec[e]
    <3>1. CASE ~Unregistering
      BY <1>1, <3>1, OtherSteps
    <3>2. CASE Unregistering
      BY <3>2, RemoveStep DEF Unregistering
    <3> QED
      BY <3>1, <3>2
  <2> QED
    BY <2>1, <2>2 DEF RecoveryIsAlone, Recovering
<1>2. ASSUME NEW c \in Caller, Register(c) \/ ReserveMemoryWrite(c)
      PROVE  /\ "memory_write" \in quarantine'[spec'[d].guru]
             /\ \A e \in Caller : e # d /\ Holds(e)' => spec'[e].guru # spec'[d].guru
  <2>1. spec' = spec /\ quarantine' = quarantine
    BY <1>2 DEF Register, ReserveMemoryWrite
  <2>2. \A e \in Caller : Holds(e)' <=> Holds(e) \/ e = c
    BY <1>2, RegisterStep
  <2>3. CASE d = c
    <3>1. Register(c) /\ Recovers(c)
      BY <1>2, <2>1, <2>3 DEF Recovering, ReserveMemoryWrite, Goto, TypeOK, Recovers,
         Queued, IsWriter
    <3>2. quarantine[spec[c].guru] = {"memory_write"}
      BY <3>1 DEF Register, AvailabilityCheck, RecoveryRequired, Recovers
    <3>3. ActiveOf(spec[c].guru) = {}
      BY <3>1 DEF Register, Admit, Recovers, IsWriter
    <3> QED
      BY <1>0, <2>1, <2>2, <2>3, <3>2, <3>3
  <2>4. CASE d # c
    <3>1. Recovering(d) /\ Holds(d)
      BY <1>2, <2>1, <2>4
         DEF Recovering, Recovers, IsWriter, Register, ReserveMemoryWrite, Goto, TypeOK,
             Holds, Holding
    <3>2. "memory_write" \in quarantine[spec[d].guru]
      BY <3>1 DEF RecoveryIsAlone, Recovering
    <3>3. spec[c].guru # spec[d].guru
      <4>1. SUFFICES ASSUME spec[c].guru = spec[d].guru PROVE FALSE
        OBVIOUS
      <4>2. ~Available(spec[c].guru)
        BY <3>2, <4>1 DEF Available
      <4>3. spec[c].target = PendingRecovery /\ Register(c)
        BY <1>2, <4>2 DEF Register, ReserveMemoryWrite, AvailabilityCheck, Queued
      <4>4. runs[spec[d].id].target = PendingRecovery
        BY <3>1 DEF LeaseOwnsEntry, Recovering, Recovers
      <4> QED
        BY <1>0, <3>1, <4>1, <4>3, <4>4 DEF Register, Admit, SameTarget
    <3> QED
      BY <2>1, <2>2, <3>1, <3>2, <3>3 DEF RecoveryIsAlone, Recovering
  <2> QED
    BY <2>3, <2>4
<1> QED
  BY <1>1, <1>2 DEF Registering
-----------------------------------------------------------------------------
LEMMA InitInv == Init => Inv
<1> SUFFICES ASSUME Init PROVE Inv
  OBVIOUS
<1>1. TypeOK
  <2>1. <<>> \in Seq(RunId) /\ "idle" \in Phase
    BY DEF Phase
  <2> QED
    BY <2>1 DEF Init, TypeOK
<1>2. \A c \in Caller : phase[c] = "idle"
  BY DEF Init
<1> QED
  BY <1>1, <1>2 DEF Init, Inv, LeaseOwnsEntry, EntryHasLease, PhaseFitsKind, WriterOwnsGuru,
                    RecoveryIsAlone, LeaseHasActivity, Holds, Holding, Waiting

LEMMA InvStep == Inv /\ [Next]_vars => Inv'
BY TypeStep, LeaseStep, PhaseStep, OwnerStep, RecoveryStep, ActivityStep DEF Inv

\* Every reachable state of the coordinator is well typed and keeps the parts
\* of the inductive invariant.
THEOREM Invariance == Spec => []Inv
BY InitInv, InvStep, PTL DEF Spec

\* Type correctness of the coordinator's state.
THEOREM TypeCorrect == Spec => []TypeOK
<1>1. Inv => TypeOK
  BY DEF Inv
<1> QED
  BY <1>1, Invariance, PTL

\* Memory apply is exclusive for its Guru: readers have drained, the queue
\* head alone was granted, and a recovery keeps everyone else out.
THEOREM Exclusion == Spec => []ExclusiveMemoryWrite
<1>1. ASSUME Inv PROVE ExclusiveMemoryWrite
  <2> SUFFICES ASSUME NEW c \in Caller, NEW d \in Caller, c # d, Writing(c), Holds(d),
                      spec[c].guru = spec[d].guru
               PROVE  IsWriter(d) /\ phase[d] \in Waiting \cup {"closing"}
    BY DEF ExclusiveMemoryWrite
  <2>0. TypeOK /\ LeaseOwnsEntry /\ PhaseFitsKind /\ WriterOwnsGuru /\ RecoveryIsAlone
    BY <1>1 DEF Inv
  <2>1. Holds(c)
    BY DEF Writing, Holds, Holding
  <2>2. ~Recovering(c) /\ ~Recovering(d)
    BY <2>0, <2>1 DEF RecoveryIsAlone, Recovering
  <2>3. Owner(c)
    BY <2>0, <2>2 DEF Writing, Recovering, Recovers, PhaseFitsKind, Owner, Queued
  <2>4. Ready(c)
    BY <2>0, <2>3 DEF WriterOwnsGuru, Owner
  <2>5. spec[d].id \in ActiveOf(spec[d].guru) /\ runs[spec[d].id].kind = spec[d].kind
    BY <2>0 DEF LeaseOwnsEntry, ActiveOf, TypeOK, Holds, Holding, Waiting, RunSpec
  <2>6. IsWriter(d)
    BY <2>4, <2>5 DEF Ready, IsWriter
  <2>7. ~Owner(d)
    BY <2>0, <2>1, <2>4 DEF WriterOwnsGuru, Owner, Ready, QueueHead, LeaseOwnsEntry
  <2> QED
    BY <2>0, <2>2, <2>6, <2>7
       DEF Owner, Recovering, Recovers, Queued, PhaseFitsKind, Holds, Holding, IsWriter
<1> QED
  BY <1>1, Invariance, PTL

\* An update is installed only while no run is registered, whatever the order
\* in which the two locks are taken.
THEOREM UpdateExclusion == Spec => []NoRunDuringUpdate
<1>1. ASSUME Inv PROVE NoRunDuringUpdate
  <2> SUFFICES ASSUME installing, NEW r \in RunId, runs[r] # NoRun PROVE FALSE
    BY DEF NoRunDuringUpdate
  <2>1. PICK c \in Caller : Holds(c)
    BY <1>1 DEF Inv, EntryHasLease
  <2> QED
    BY <1>1, <2>1 DEF Inv, LeaseHasActivity, Holds, Holding, Waiting
<1> QED
  BY <1>1, Invariance, PTL
-----------------------------------------------------------------------------
\* Whoever writes finds the Guru without any quarantine: nobody else runs on it
\* who could set one.
SeesQuarantine ==
    \A c \in Caller : phase[c] = "active" /\ Queued(c) => Available(spec[c].guru)

\* Setting a quarantine needs a run of its own, or a Guru without runs.
LEMMA SeesStep == Inv /\ SeesQuarantine /\ [Next]_vars => SeesQuarantine'
<1> SUFFICES ASSUME Inv, SeesQuarantine, [Next]_vars,
                    NEW d \in Caller, phase'[d] = "active", Queued(d)'
             PROVE  quarantine'[spec'[d].guru] = {}
  BY DEF SeesQuarantine, Available, Queued, IsWriter
<1>0. /\ TypeOK /\ LeaseOwnsEntry /\ PhaseFitsKind /\ WriterOwnsGuru /\ RecoveryIsAlone
      /\ WriterOwnsGuru'
  BY InvStep DEF Inv
<1>1. spec'[d] = spec[d] /\ Holds(d) /\ Queued(d)
  BY <1>0, OwnerEntry DEF Owner, Queued, IsWriter
<1>2. spec[d] \in RunSpec /\ spec[d].guru \in Guru /\ spec[d].id \in RunId
  BY <1>0, <1>1 DEF TypeOK, Holds, Holding, Waiting, RunSpec
<1> SUFFICES quarantine'[spec[d].guru] = {}
  BY <1>1
<1> USE DEF Goto, table, gate
<1>3. CASE quarantine' = quarantine
  <2>1. CASE \E c \in Caller : RecheckAvailable(c) /\ d = c
    BY <1>3, <2>1 DEF RecheckAvailable, Available
  <2>2. CASE ~\E c \in Caller : RecheckAvailable(c) /\ d = c
    <3>1. phase[d] = "active"
      <4>1. ASSUME NEW c \in Caller, NEW s \in Requests[c], AdmitActivity(c, s)
            PROVE  phase[d] = "active"
        BY <1>0, <4>1 DEF AdmitActivity, TypeOK
      <4>2. ASSUME NEW c \in Caller, Register(c)
            PROVE  phase[d] = "active"
        BY <1>0, <1>1, <4>2 DEF Register, TypeOK
      <4>3. ASSUME NEW c \in Caller,
                   \/ ReserveMemoryWrite(c) \/ RefuseRegistration(c)
                   \/ BeginWait(c) \/ CheckQueue(c) \/ Wake(c)
            PROVE  phase[d] = "active"
        BY <1>0, <4>3 DEF ReserveMemoryWrite, RefuseRegistration, BeginWait, CheckQueue,
                          Wake, TypeOK
      <4>4. ASSUME NEW c \in Caller, RecheckAvailable(c)
            PROVE  phase[d] = "active"
        BY <1>0, <2>2, <4>4 DEF RecheckAvailable, TypeOK
      <4>5. ASSUME NEW c \in Caller,
                   \/ FailWrite(c) \/ FinishRecovery(c) \/ FailChatDeletion(c)
                   \/ ClaimCompletion(c)
                   \/ RemoveRun(c) \/ NotifyWaiters(c) \/ DropActivity(c)
            PROVE  phase[d] = "active"
        BY <1>0, <4>5 DEF FailWrite, FinishRecovery, FailChatDeletion, ClaimCompletion,
                          RemoveRun, NotifyWaiters, DropActivity, TypeOK
      <4>6. ASSUME \/ \E r \in RunId : Cancel(r)
                   \/ \E g \in Guru : BeginGuruMutation(g) \/ ClearDeletionQuarantine(g)
                   \/ \E n \in Native : AdmitNative(n) \/ DropNative(n)
                   \/ BeginUpdate \/ EndUpdate \/ UNCHANGED vars
            PROVE  phase[d] = "active"
        BY <4>6 DEF Cancel, BeginGuruMutation, ClearDeletionQuarantine, AdmitNative,
                    DropNative, BeginUpdate, EndUpdate, vars
      <4> QED
        BY <4>1, <4>2, <4>3, <4>4, <4>5, <4>6, NextCases
    <3> QED
      BY <1>1, <1>3, <3>1 DEF SeesQuarantine, Available
  <2> QED
    BY <2>1, <2>2
<1>4. ASSUME NEW c \in Caller, FailWrite(c) \/ FinishRecovery(c) \/ FailChatDeletion(c)
      PROVE  quarantine'[spec[d].guru] = {}
  <2>1. d # c /\ phase[d] = "active"
    BY <1>0, <1>4 DEF FailWrite, FinishRecovery, FailChatDeletion, TypeOK
  <2>2. quarantine[spec[d].guru] = {} /\ Ready(d)
    BY <1>0, <1>1, <2>1 DEF SeesQuarantine, Available, WriterOwnsGuru
  <2>3. Holds(c) /\ spec[c] \in RunSpec
    BY <1>0, <1>4 DEF FailWrite, FinishRecovery, FailChatDeletion, Holds, Holding, TypeOK
  <2>4. CASE FinishRecovery(c)
    BY <1>0, <2>2, <2>3, <2>4 DEF FinishRecovery, TypeOK, RunSpec
  <2>5. CASE FailWrite(c) \/ FailChatDeletion(c)
    <3>1. spec[c].guru # spec[d].guru
      <4>1. SUFFICES ASSUME spec[c].guru = spec[d].guru PROVE FALSE
        OBVIOUS
      <4>2. spec[c].id \in ActiveOf(spec[d].guru) /\ runs[spec[c].id].kind = spec[c].kind
        BY <1>0, <2>3, <4>1 DEF LeaseOwnsEntry, ActiveOf, RunSpec
      <4>3. spec[c].kind = "memory_write"
        BY <2>2, <4>2 DEF Ready
      <4>4. Owner(c) /\ Owner(d) /\ spec[c].id # spec[d].id
        BY <1>0, <1>1, <2>1, <2>3, <2>5, <4>3
           DEF FailWrite, FailChatDeletion, Owner, LeaseOwnsEntry
      <4> QED
        BY <1>0, <2>2, <4>1, <4>4 DEF WriterOwnsGuru, Owner, Ready, QueueHead
    <3> QED
      BY <1>0, <1>2, <2>2, <2>5, <3>1 DEF FailWrite, FailChatDeletion, TypeOK
  <2> QED
    BY <1>4, <2>4, <2>5
<1>5. ASSUME NEW g \in Guru, BeginGuruMutation(g) \/ ClearDeletionQuarantine(g)
      PROVE  quarantine'[spec[d].guru] = {}
  <2>1. phase[d] = "active" /\ spec[d].id \in ActiveOf(spec[d].guru)
    BY <1>0, <1>1, <1>2, <1>5
       DEF BeginGuruMutation, ClearDeletionQuarantine, LeaseOwnsEntry, ActiveOf
  <2>2. quarantine[spec[d].guru] = {}
    BY <1>1, <2>1 DEF SeesQuarantine, Available
  <2>3. CASE BeginGuruMutation(g)
    <3>1. g # spec[d].guru
      BY <2>1, <2>3 DEF BeginGuruMutation
    <3> QED
      BY <1>0, <1>2, <2>2, <2>3, <3>1 DEF BeginGuruMutation, TypeOK
  <2>4. CASE ClearDeletionQuarantine(g)
    BY <1>0, <1>2, <2>2, <2>4 DEF ClearDeletionQuarantine, TypeOK
  <2> QED
    BY <1>5, <2>3, <2>4
<1>6. \/ quarantine' = quarantine
      \/ \E c \in Caller : FailWrite(c) \/ FinishRecovery(c) \/ FailChatDeletion(c)
      \/ \E g \in Guru : BeginGuruMutation(g) \/ ClearDeletionQuarantine(g)
  BY NextCases DEF AdmitActivity, Register, ReserveMemoryWrite, RefuseRegistration,
     BeginWait, CheckQueue, Wake, RecheckAvailable, ClaimCompletion, RemoveRun,
     NotifyWaiters, DropActivity, Cancel, AdmitNative, DropNative, BeginUpdate, EndUpdate,
     vars
<1> QED
  BY <1>3, <1>4, <1>5, <1>6

\* A caller that writes is alone on its Guru, and no quarantine was set since
\* its turn came, although it looked at both before it waited.
THEOREM Guarded == Spec => []WritesAreGuarded
<1>1. Init => SeesQuarantine
  BY DEF Init, SeesQuarantine
<1>2. ASSUME Inv, SeesQuarantine PROVE WriteSeesQuarantine
  BY <1>2 DEF Inv, RecoveryIsAlone, SeesQuarantine, WriteSeesQuarantine, Recovers, Queued,
              IsWriter
<1>3. ExclusiveMemoryWrite /\ WriteSeesQuarantine => WritesAreGuarded
  BY DEF WritesAreGuarded
<1> QED
  BY <1>1, <1>2, <1>3, SeesStep, Invariance, Exclusion, PTL DEF Spec
-----------------------------------------------------------------------------
\* The table never holds more Chat runs than there are model slots.
SlotBound == Cardinality(ChatRuns) <= MaxModelWorkers

\* Two leases on one Guru have different targets.
TargetsDiffer ==
    \A c, d \in Caller :
        c # d /\ Holds(c) /\ Holds(d) /\ spec[c].guru = spec[d].guru
          => spec[c].target # spec[d].target

\* The Chat runs of the table can be counted.
LEMMA ChatRunsFinite == IsFiniteSet(ChatRuns) /\ Cardinality(ChatRuns) \in Nat
<1>1. ChatRuns \subseteq RunId
  BY DEF ChatRuns
<1> QED
  BY <1>1, RunIdAssumption, FS_Subset, FS_CardinalityType

\* A Chat is admitted only below the bound, and only admission adds one.
LEMMA SlotStep == TypeOK /\ LeaseOwnsEntry /\ SlotBound /\ [Next]_vars => SlotBound'
<1> SUFFICES ASSUME TypeOK, LeaseOwnsEntry, SlotBound, [Next]_vars
             PROVE  Cardinality(ChatRuns') <= MaxModelWorkers
  BY DEF SlotBound
<1>0. IsFiniteSet(ChatRuns) /\ Cardinality(ChatRuns) \in Nat /\ MaxModelWorkers \in Nat
  BY ChatRunsFinite, WorkersAssumption
<1>1. CASE ChatRuns' \subseteq ChatRuns
  <2>1. Cardinality(ChatRuns') <= Cardinality(ChatRuns) /\ IsFiniteSet(ChatRuns')
    BY <1>0, <1>1, FS_Subset
  <2>2. Cardinality(ChatRuns') \in Nat
    BY <2>1, FS_CardinalityType
  <2> QED
    BY <1>0, <2>1, <2>2 DEF SlotBound
<1>2. CASE ~Unregistering /\ ~Registering
  <2>1. ChatRuns' \subseteq ChatRuns
    BY <1>2, OtherSteps DEF ChatRuns
  <2> QED
    BY <1>1, <2>1
<1>3. ASSUME NEW c \in Caller, RemoveRun(c)
      PROVE  Cardinality(ChatRuns') <= MaxModelWorkers
  <2>1. \A r \in RunId : runs'[r] = IF r = spec[c].id THEN NoRun ELSE runs[r]
    BY <1>3, RemoveStep DEF TypeOK
  <2>2. ChatRuns' \subseteq ChatRuns
    BY <2>1 DEF ChatRuns
  <2> QED
    BY <1>1, <2>2
<1>4. ASSUME NEW c \in Caller, Register(c) \/ ReserveMemoryWrite(c)
      PROVE  Cardinality(ChatRuns') <= MaxModelWorkers
  <2> DEFINE e == Entry(spec[c])
  <2>1. spec[c].id \in RunId /\ e.kind = spec[c].kind
    BY <1>4, RegisterStep DEF RunSpec, Entry
  <2>2. \A r \in RunId : runs'[r] = IF r = spec[c].id THEN e ELSE runs[r]
    BY <1>4, RegisterStep DEF TypeOK
  <2>3. runs[spec[c].id] = NoRun /\ e # NoRun
    BY <1>4, RegisterStep
  <2> HIDE DEF e
  <2>4. CASE spec[c].kind = "chat"
    <3>1. ChatRuns' = ChatRuns \cup {spec[c].id}
      BY <2>1, <2>2, <2>3, <2>4 DEF ChatRuns
    <3>2. Cardinality(ChatRuns) < MaxModelWorkers
      BY <1>4, <2>4 DEF Register, Admit, ReserveMemoryWrite, Queued, IsWriter
    <3>3. Cardinality(ChatRuns') = Cardinality(ChatRuns) + 1
      BY <1>0, <2>3, <3>1, FS_AddElement DEF ChatRuns
    <3> QED
      BY <1>0, <3>2, <3>3
  <2>5. CASE spec[c].kind # "chat"
    <3>1. ChatRuns' = ChatRuns
      BY <2>1, <2>2, <2>3, <2>5 DEF ChatRuns
    <3> QED
      BY <1>1, <3>1
  <2> QED
    BY <2>4, <2>5
<1> QED
  BY <1>2, <1>3, <1>4 DEF Unregistering, Registering

\* Either admission refuses a target that the Guru's table already has.
LEMMA TargetStep ==
    TypeOK /\ LeaseOwnsEntry /\ TargetsDiffer /\ [Next]_vars => TargetsDiffer'
<1> SUFFICES ASSUME TypeOK, LeaseOwnsEntry, TargetsDiffer, [Next]_vars
             PROVE  TargetsDiffer'
  OBVIOUS
<1>1. CASE ~Unregistering /\ ~Registering
  BY <1>1, OtherSteps DEF TargetsDiffer
<1>2. ASSUME NEW c \in Caller, RemoveRun(c)
      PROVE  TargetsDiffer'
  BY <1>2, RemoveStep DEF TargetsDiffer
<1>3. ASSUME NEW c \in Caller, Register(c) \/ ReserveMemoryWrite(c)
      PROVE  TargetsDiffer'
  <2>1. ~SameTarget(spec[c])
    BY <1>3 DEF Register, ReserveMemoryWrite, Admit, AdmitWaitingWriter
  <2>2. ASSUME NEW d \in Caller, Holds(d), spec[d].guru = spec[c].guru
        PROVE  spec[d].target # spec[c].target
    <3>1. spec[d].id \in ActiveOf(spec[c].guru)
      BY <1>3, <2>2, RegisterStep DEF LeaseOwnsEntry, ActiveOf, RunSpec
    <3> QED
      BY <2>1, <2>2, <3>1 DEF SameTarget, LeaseOwnsEntry
  <2> QED
    BY <1>3, <2>2, RegisterStep DEF TargetsDiffer
<1> QED
  BY <1>1, <1>2, <1>3 DEF Unregistering, Registering

\* Callers that hold a Chat run have entries of their own.
LEMMA ChatsBound == Inv /\ SlotBound => Cardinality(Chats) <= MaxModelWorkers
<1> SUFFICES ASSUME Inv, SlotBound PROVE Cardinality(Chats) <= MaxModelWorkers
  OBVIOUS
<1> DEFINE f == [c \in Chats |-> spec[c].id]
<1>1. IsFiniteSet(ChatRuns) /\ Cardinality(ChatRuns) \in Nat /\ MaxModelWorkers \in Nat
  BY ChatRunsFinite, WorkersAssumption
<1>2. \A c \in Chats : Holds(c) /\ spec[c].id \in ChatRuns
  BY DEF Chats, ChatRuns, Inv, TypeOK, LeaseOwnsEntry, Holds, Holding, Waiting, RunSpec
<1>3. f \in Injection(Chats, ChatRuns)
  <2>1. f \in [Chats -> ChatRuns]
    BY <1>2
  <2>2. \A c, d \in Chats : f[c] = f[d] => c = d
    BY <1>2 DEF Inv, LeaseOwnsEntry, Chats
  <2> QED
    BY <2>1, <2>2, Fun_IsInj
<1>4. IsFiniteSet(Chats) /\ Cardinality(Chats) <= Cardinality(ChatRuns)
  BY <1>1, <1>3, FS_Injection
<1>5. Cardinality(Chats) \in Nat
  BY <1>4, FS_CardinalityType
<1> QED
  BY <1>1, <1>4, <1>5 DEF SlotBound

\* No run is in the table beside an installation, and never do more callers
\* hold a model slot than there are, whatever run ids the renderer reuses.
THEOREM Admissions == Spec => []AdmissionHolds
<1>1. Init => SlotBound /\ TargetsDiffer
  <2> SUFFICES ASSUME Init PROVE SlotBound /\ TargetsDiffer
    OBVIOUS
  <2>1. ChatRuns = {}
    BY DEF Init, ChatRuns
  <2>2. SlotBound
    BY <2>1, FS_EmptySet, WorkersAssumption DEF SlotBound
  <2>3. TargetsDiffer
    BY DEF Init, TargetsDiffer, Holds, Holding, Waiting
  <2> QED
    BY <2>2, <2>3
<1>2. ASSUME Inv, SlotBound, TargetsDiffer PROVE ModelSlots
  <2>1. \A c, d \in Chats : c # d /\ spec[c].guru = spec[d].guru
                              => spec[c].target # spec[d].target
    BY <1>2 DEF Chats, TargetsDiffer
  <2> QED
    BY <1>2, <2>1, ChatsBound DEF ModelSlots
<1>3. Inv /\ SlotBound /\ TargetsDiffer /\ [Next]_vars => SlotBound' /\ TargetsDiffer'
  BY SlotStep, TargetStep DEF Inv
<1>4. NoRunDuringUpdate /\ ModelSlots => AdmissionHolds
  BY DEF AdmissionHolds
<1> QED
  BY <1>1, <1>2, <1>3, <1>4, Invariance, UpdateExclusion, PTL DEF Spec
-----------------------------------------------------------------------------
\* Where the elements of a concatenation come from.
LEMMA ConcatShape ==
    ASSUME NEW S, NEW s \in Seq(S), NEW t \in Seq(S)
    PROVE  /\ Len(s \o t) = Len(s) + Len(t)
           /\ \A l \in 1 .. Len(s) : (s \o t)[l] = s[l]
           /\ \A l \in 1 .. Len(s) + Len(t) : l > Len(s) => (s \o t)[l] = t[l - Len(s)]
OBVIOUS

\* What retaining every id but one does to the places of the others.
LEMMA DequeueShape ==
    ASSUME NEW S, NEW q \in Seq(S), NEW r
    PROVE  \/ Dequeue(q, r) = q /\ \A i \in 1 .. Len(q) : q[i] # r
           \/ \E i \in 1 .. Len(q) :
                /\ q[i] = r
                /\ Len(Dequeue(q, r)) = Len(q) - 1
                /\ \A l \in 1 .. Len(q) - 1 :
                     Dequeue(q, r)[l] = IF l < i THEN q[l] ELSE q[l + 1]
<1>1. CASE \E i \in DOMAIN q : q[i] = r
  <2> DEFINE i == CHOOSE i \in DOMAIN q : q[i] = r
             before == SubSeq(q, 1, i - 1)
             after == SubSeq(q, i + 1, Len(q))
  <2>1. i \in 1 .. Len(q) /\ q[i] = r
    BY <1>1
  <2>2. Dequeue(q, r) = before \o after
    BY <1>1 DEF Dequeue, RemoveAt
  <2> HIDE DEF i
  <2>3. /\ before \in Seq(S) /\ Len(before) = i - 1
        /\ \A l \in 1 .. i - 1 : before[l] = q[l]
    BY <2>1
  <2>4. /\ after \in Seq(S) /\ Len(after) = Len(q) - i
        /\ \A l \in 1 .. Len(q) - i : after[l] = q[l + i]
    BY <2>1
  <2> HIDE DEF before, after
  <2>5. /\ Len(before \o after) = Len(before) + Len(after)
        /\ \A l \in 1 .. Len(before) : (before \o after)[l] = before[l]
        /\ \A l \in 1 .. Len(before) + Len(after) :
             l > Len(before) => (before \o after)[l] = after[l - Len(before)]
    BY <2>3, <2>4, ConcatShape
  <2>6. Len(before \o after) = Len(q) - 1
    BY <2>1, <2>3, <2>4, <2>5
  <2>7. ASSUME NEW l \in 1 .. Len(q) - 1
        PROVE  (before \o after)[l] = IF l < i THEN q[l] ELSE q[l + 1]
    <3>1. CASE l < i
      BY <2>1, <2>3, <2>5, <3>1
    <3>2. CASE ~(l < i)
      <4>1. l - (i - 1) \in 1 .. Len(q) - i /\ l - (i - 1) + i = l + 1
        BY <2>1, <3>2
      <4>2. (before \o after)[l] = after[l - (i - 1)]
        BY <2>1, <2>3, <2>4, <2>5, <3>2
      <4> QED
        BY <2>4, <3>2, <4>1, <4>2
    <3> QED
      BY <3>1, <3>2
  <2> QED
    BY <2>1, <2>2, <2>6, <2>7
<1>2. CASE ~\E i \in DOMAIN q : q[i] = r
  BY <1>2 DEF Dequeue
<1> QED
  BY <1>1, <1>2

\* A queue names each of its writers once, and they are writers of its Guru.
QueueIsWriters ==
    \A g \in Guru :
        /\ \A j \in 1 .. Len(queue[g]) :
             LET r == runs[queue[g][j]] IN r # NoRun /\ r.kind = "memory_write" /\ r.guru = g
        /\ \A j, k \in 1 .. Len(queue[g]) : queue[g][j] = queue[g][k] => j = k

\* After a step, whoever is ahead of a writer was ahead of it before.
KeepsOrder(p, q) ==
    \A l \in DOMAIN q : \A j \in DOMAIN p : q[l] = p[j] => Ahead(q, l) \subseteq Ahead(p, j)

\* What QueueOrder asks of a step, for one Guru.
QueueStep(g) ==
    /\ queue[g] # <<>> => Readers(g)' \subseteq Readers(g)
    /\ KeepsOrder(queue[g], queue'[g])

\* A queue that no step touches keeps its order, since it names no id twice.
LEMMA SameQueueKeepsOrder ==
    ASSUME NEW S, NEW q \in Seq(S),
           \A j, k \in 1 .. Len(q) : q[j] = q[k] => j = k
    PROVE  KeepsOrder(q, q)
BY DEF KeepsOrder

\* A new writer goes behind all others.
LEMMA AppendKeepsOrder ==
    ASSUME NEW S, NEW q \in Seq(S), NEW r \in S,
           \A j, k \in 1 .. Len(q) : q[j] = q[k] => j = k,
           \A j \in 1 .. Len(q) : q[j] # r
    PROVE  /\ KeepsOrder(q, Append(q, r))
           /\ Len(Append(q, r)) = Len(q) + 1
           /\ \A j, k \in 1 .. Len(q) + 1 : Append(q, r)[j] = Append(q, r)[k] => j = k
           /\ \A j \in 1 .. Len(q) + 1 :
                Append(q, r)[j] = r \/ \E k \in 1 .. Len(q) : Append(q, r)[j] = q[k]
<1> DEFINE p == Append(q, r)
<1>1. /\ p \in Seq(S) /\ Len(p) = Len(q) + 1 /\ p[Len(q) + 1] = r
      /\ \A j \in 1 .. Len(q) : p[j] = q[j]
  OBVIOUS
<1> HIDE DEF p
<1>2. \A j \in 1 .. Len(q) + 1 : j \in 1 .. Len(q) \/ j = Len(q) + 1
  OBVIOUS
<1>3. \A j, k \in 1 .. Len(q) + 1 : p[j] = p[k] => j = k
  BY <1>1, <1>2
<1>4. \A j \in 1 .. Len(q) + 1 : p[j] = r \/ \E k \in 1 .. Len(q) : p[j] = q[k]
  BY <1>1, <1>2
<1>5. ASSUME NEW l \in DOMAIN p, NEW j \in DOMAIN q, p[l] = q[j]
      PROVE  Ahead(p, l) \subseteq Ahead(q, j)
  <2>1. l = j
    BY <1>1, <1>3, <1>5
  <2> QED
    BY <1>1, <2>1 DEF Ahead
<1> QED
  BY <1>1, <1>3, <1>4, <1>5 DEF KeepsOrder, p

\* A writer that leaves changes the order of no two others.
LEMMA DequeueKeepsOrder ==
    ASSUME NEW S, NEW q \in Seq(S), NEW r,
           \A j, k \in 1 .. Len(q) : q[j] = q[k] => j = k
    PROVE  LET p == Dequeue(q, r) IN
             /\ KeepsOrder(q, p)
             /\ \A j, k \in 1 .. Len(p) : p[j] = p[k] => j = k
             /\ \A j \in 1 .. Len(p) : p[j] # r /\ \E k \in 1 .. Len(q) : p[j] = q[k]
<1> DEFINE p == Dequeue(q, r)
<1>1. CASE p = q /\ \A i \in 1 .. Len(q) : q[i] # r
  BY <1>1, SameQueueKeepsOrder
<1>2. ASSUME NEW i \in 1 .. Len(q), q[i] = r, Len(p) = Len(q) - 1,
             \A l \in 1 .. Len(q) - 1 : p[l] = IF l < i THEN q[l] ELSE q[l + 1]
      PROVE  /\ KeepsOrder(q, p)
             /\ \A j, k \in 1 .. Len(p) : p[j] = p[k] => j = k
             /\ \A j \in 1 .. Len(p) : p[j] # r /\ \E k \in 1 .. Len(q) : p[j] = q[k]
  <2> DEFINE was(l) == IF l < i THEN l ELSE l + 1
  <2>0. p \in Seq(S)
    BY DequeueKeepsHead
  <2> HIDE DEF p
  <2>1. \A l \in 1 .. Len(p) :
          was(l) \in 1 .. Len(q) /\ was(l) # i /\ p[l] = q[was(l)]
    BY <1>2
  <2>2. \A l, m \in 1 .. Len(p) : (l = m <=> was(l) = was(m)) /\ (l < m <=> was(l) < was(m))
    OBVIOUS
  <2> HIDE DEF was
  <2>3. \A j, k \in 1 .. Len(p) : p[j] = p[k] => j = k
    BY <2>1, <2>2
  <2>4. \A j \in 1 .. Len(p) : p[j] # r /\ \E k \in 1 .. Len(q) : p[j] = q[k]
    BY <1>2, <2>1
  <2>5. ASSUME NEW l \in DOMAIN p, NEW j \in DOMAIN q, p[l] = q[j]
        PROVE  Ahead(p, l) \subseteq Ahead(q, j)
    <3>1. l \in 1 .. Len(p) /\ j = was(l)
      BY <2>0, <2>1, <2>5
    <3>2. ASSUME NEW k \in 1 .. l - 1
          PROVE  p[k] \in Ahead(q, j)
      <4>1. k \in 1 .. Len(p) /\ k < l
        BY <2>0, <3>1
      <4>2. was(k) \in 1 .. j - 1
        BY <2>1, <2>2, <3>1, <4>1
      <4> QED
        BY <2>1, <4>1, <4>2 DEF Ahead
    <3> QED
      BY <3>2 DEF Ahead
  <2> QED
    BY <2>3, <2>4, <2>5 DEF KeepsOrder
<1> QED
  BY <1>1, <1>2, DequeueShape

\* The queues and the readers, where neither is touched.
LEMMA QueueStep0 ==
    ASSUME TypeOK, QueueIsWriters, NEW g \in Guru, queue'[g] = queue[g], Readers(g)' \subseteq Readers(g)
    PROVE  QueueStep(g)
<1>1. KeepsOrder(queue[g], queue[g])
  BY SameQueueKeepsOrder DEF TypeOK, QueueIsWriters
<1> QED
  BY <1>1 DEF QueueStep

\* Steps that neither add nor remove a run leave the queues alone.
LEMMA QueueStepOther ==
    ASSUME TypeOK, LeaseOwnsEntry, QueueIsWriters, [Next]_vars, ~Unregistering, ~Registering
    PROVE  QueueIsWriters' /\ \A g \in Guru : QueueStep(g)
<1>1. queue' = queue
  BY OtherSteps
<1>2. \A g \in Guru : Readers(g)' \subseteq Readers(g)
  BY OtherSteps DEF Readers, ActiveOf
<1>3. \A g \in Guru : \A j \in 1 .. Len(queue[g]) : queue[g][j] \in RunId
  BY DEF TypeOK
<1>4. QueueIsWriters'
  BY <1>1, <1>3, OtherSteps DEF QueueIsWriters
<1> QED
  BY <1>1, <1>2, <1>4, QueueStep0

\* A registration: a writer joins its queue, a reader only an empty one.
LEMMA QueueStepRegister ==
    ASSUME TypeOK, LeaseOwnsEntry, QueueIsWriters,
           NEW c \in Caller, Register(c) \/ ReserveMemoryWrite(c)
    PROVE  QueueIsWriters' /\ \A g \in Guru : QueueStep(g)
<1> DEFINE e == Entry(spec[c])
<1>0. PICK h \in Guru, i \in RunId : h = spec[c].guru /\ i = spec[c].id
  BY RegisterStep DEF RunSpec
<1>1. e.guru = h /\ e.kind = spec[c].kind
  BY <1>0 DEF Entry
<1>2. \A r \in RunId : runs'[r] = IF r = i THEN e ELSE runs[r]
  BY <1>0, RegisterStep DEF TypeOK
<1>3. runs[i] = NoRun /\ e # NoRun
  BY <1>0, RegisterStep
<1> HIDE DEF e
<1>4. /\ \A g \in Guru : queue[g] \in Seq(RunId)
      /\ \A g \in Guru : \A j \in 1 .. Len(queue[g]) : queue[g][j] \in RunId /\ queue[g][j] # i
  BY <1>3 DEF TypeOK, QueueIsWriters
<1>5. \A g \in Guru : g # h => Readers(g)' = Readers(g)
  BY <1>1, <1>2, <1>3 DEF Readers, ActiveOf
<1>6. CASE Register(c)
  <2>1. queue' = queue
    BY <1>6 DEF Register
  <2>2. QueueIsWriters'
    BY <1>2, <1>4, <2>1 DEF QueueIsWriters
  <2>3. CASE queue[h] = <<>>
    <3>1. \A g \in Guru : g # h => QueueStep(g)
      BY <1>5, <2>1, QueueStep0
    <3>2. KeepsOrder(queue[h], queue[h])
      BY <1>1, <1>4, SameQueueKeepsOrder DEF QueueIsWriters
    <3> QED
      BY <2>1, <2>2, <2>3, <3>1, <3>2 DEF QueueStep
  <2>4. CASE queue[h] # <<>>
    <3>1. 1 \in 1 .. Len(queue[h])
      BY <1>1, <1>4, <2>4
    <3>2. queue[h][1] \in ActiveOf(h) /\ runs[queue[h][1]].kind = "memory_write"
      BY <1>1, <1>4, <3>1 DEF QueueIsWriters, ActiveOf
    <3> QED
      BY <1>0, <1>6, <3>2 DEF Register, Admit
  <2> QED
    BY <2>3, <2>4
<1>7. CASE ReserveMemoryWrite(c)
  <2>1. /\ queue' = [queue EXCEPT ![h] = Append(queue[h], i)]
        /\ e.kind = "memory_write"
    BY <1>0, <1>1, <1>7 DEF ReserveMemoryWrite, Queued, IsWriter
  <2>2. \A g \in Guru : queue'[g] = IF g = h THEN Append(queue[h], i) ELSE queue[g]
    BY <2>1 DEF TypeOK
  <2>3. \A g \in Guru : Readers(g)' \subseteq Readers(g)
    BY <1>2, <2>1 DEF Readers, ActiveOf
  <2>4. PICK q \in Seq(RunId) : q = queue[h]
    BY <1>4
  <2>5. PICK p : p = Append(q, i)
    OBVIOUS
  <2>6. /\ \A j, k \in 1 .. Len(q) : q[j] = q[k] => j = k
        /\ \A j \in 1 .. Len(q) : q[j] # i
    BY <1>4, <2>4 DEF QueueIsWriters
  <2>7. /\ KeepsOrder(q, p)
        /\ Len(p) = Len(q) + 1
        /\ \A j, k \in 1 .. Len(q) + 1 : p[j] = p[k] => j = k
        /\ \A j \in 1 .. Len(q) + 1 : p[j] = i \/ \E k \in 1 .. Len(q) : p[j] = q[k]
    BY <2>5, <2>6, AppendKeepsOrder
  <2>8. queue[h] = q /\ queue'[h] = p
    BY <2>2, <2>4, <2>5
  <2>9. ASSUME NEW g \in Guru
        PROVE  QueueStep(g)
    <3>1. CASE g = h
      BY <2>3, <2>7, <2>8, <3>1 DEF QueueStep
    <3>2. CASE g # h
      BY <2>2, <2>3, <3>2, QueueStep0
    <3> QED
      BY <3>1, <3>2
  <2>10. ASSUME NEW g \in Guru, g # h
        PROVE  /\ \A j \in 1 .. Len(queue'[g]) :
                    LET r == runs'[queue'[g][j]] IN
                      r # NoRun /\ r.kind = "memory_write" /\ r.guru = g
               /\ \A j, k \in 1 .. Len(queue'[g]) : queue'[g][j] = queue'[g][k] => j = k
    <3>1. queue'[g] = queue[g]
      BY <2>2, <2>10
    <3>2. \A j, k \in 1 .. Len(queue[g]) : queue[g][j] = queue[g][k] => j = k
      BY DEF QueueIsWriters
    <3>3. ASSUME NEW j \in 1 .. Len(queue[g])
          PROVE  LET r == runs'[queue[g][j]] IN
                   r # NoRun /\ r.kind = "memory_write" /\ r.guru = g
      BY <1>2, <1>4 DEF QueueIsWriters
    <3> QED
      BY <3>1, <3>2, <3>3
  <2>11. ASSUME NEW j \in 1 .. Len(p)
         PROVE  LET r == runs'[p[j]] IN r # NoRun /\ r.kind = "memory_write" /\ r.guru = h
    <3>1. CASE p[j] = i
      BY <1>1, <1>2, <1>3, <2>1, <3>1
    <3>2. ASSUME NEW k \in 1 .. Len(q), p[j] = q[k]
          PROVE  LET r == runs'[p[j]] IN r # NoRun /\ r.kind = "memory_write" /\ r.guru = h
      BY <1>2, <1>4, <2>4, <3>2 DEF QueueIsWriters
    <3> QED
      BY <2>7, <3>1, <3>2
  <2> QED
    BY <2>7, <2>8, <2>9, <2>10, <2>11 DEF QueueIsWriters
<1> QED
  BY <1>6, <1>7

\* A removal takes one writer out of one queue, or none.
LEMMA QueueStepRemove ==
    ASSUME TypeOK, LeaseOwnsEntry, QueueIsWriters, NEW c \in Caller, RemoveRun(c)
    PROVE  QueueIsWriters' /\ \A g \in Guru : QueueStep(g)
<1>0. PICK i \in RunId : i = spec[c].id
  BY RemoveStep DEF RunSpec
<1>1. runs[i] # NoRun
  BY <1>0 DEF LeaseOwnsEntry, RemoveRun
<1>2. \A r \in RunId : runs'[r] = IF r = i THEN NoRun ELSE runs[r]
  BY <1>0, RemoveStep DEF TypeOK
<1>3. \A g \in Guru : Readers(g)' \subseteq Readers(g)
  BY <1>2 DEF Readers, ActiveOf
<1>4. /\ \A g \in Guru : queue[g] \in Seq(RunId)
      /\ \A g \in Guru : \A j \in 1 .. Len(queue[g]) : queue[g][j] \in RunId
      /\ runs[i].guru \in Guru
  BY <1>1 DEF TypeOK, ActiveRun
<1>5. ASSUME NEW g \in Guru, queue'[g] = queue[g],
             \A j \in 1 .. Len(queue[g]) : queue[g][j] # i
      PROVE  /\ QueueStep(g)
             /\ \A j \in 1 .. Len(queue'[g]) :
                  LET r == runs'[queue'[g][j]] IN
                    r # NoRun /\ r.kind = "memory_write" /\ r.guru = g
             /\ \A j, k \in 1 .. Len(queue'[g]) : queue'[g][j] = queue'[g][k] => j = k
  <2>1. QueueStep(g)
    BY <1>3, <1>5, QueueStep0
  <2> QED
    BY <1>2, <1>4, <1>5, <2>1 DEF QueueIsWriters
<1>6. CASE runs[i].kind # "memory_write"
  <2>1. queue' = queue
    BY <1>0, <1>6 DEF RemoveRun
  <2>2. \A g \in Guru : \A j \in 1 .. Len(queue[g]) : queue[g][j] # i
    BY <1>6 DEF QueueIsWriters
  <2> QED
    BY <1>5, <2>1, <2>2 DEF QueueIsWriters
<1>7. CASE runs[i].kind = "memory_write"
  <2>0. PICK h \in Guru : h = runs[i].guru
    BY <1>4
  <2>1. queue' = [queue EXCEPT ![h] = Dequeue(queue[h], i)]
    BY <1>0, <1>1, <1>7, <2>0 DEF RemoveRun
  <2>2. \A g \in Guru : queue'[g] = IF g = h THEN Dequeue(queue[h], i) ELSE queue[g]
    BY <2>1 DEF TypeOK
  <2>3. ASSUME NEW g \in Guru, g # h
        PROVE  queue'[g] = queue[g] /\ \A j \in 1 .. Len(queue[g]) : queue[g][j] # i
    BY <2>0, <2>2, <2>3 DEF QueueIsWriters
  <2>4. PICK q \in Seq(RunId) : q = queue[h]
    BY <1>4
  <2>5. PICK p : p = Dequeue(q, i)
    OBVIOUS
  <2>6. \A j, k \in 1 .. Len(q) : q[j] = q[k] => j = k
    BY <2>4 DEF QueueIsWriters
  <2>7. /\ KeepsOrder(q, p)
        /\ \A j, k \in 1 .. Len(p) : p[j] = p[k] => j = k
        /\ \A j \in 1 .. Len(p) : p[j] # i /\ \E k \in 1 .. Len(q) : p[j] = q[k]
    BY <2>5, <2>6, DequeueKeepsOrder
  <2>8. queue[h] = q /\ queue'[h] = p
    BY <2>2, <2>4, <2>5
  <2>9. QueueStep(h)
    BY <1>3, <2>7, <2>8 DEF QueueStep
  <2>10. \A j \in 1 .. Len(p) :
           LET r == runs'[p[j]] IN r # NoRun /\ r.kind = "memory_write" /\ r.guru = h
    <3>1. ASSUME NEW j \in 1 .. Len(p), NEW k \in 1 .. Len(q), p[j] = q[k], p[j] # i
          PROVE  LET r == runs'[p[j]] IN r # NoRun /\ r.kind = "memory_write" /\ r.guru = h
      BY <1>2, <1>4, <2>4, <3>1 DEF QueueIsWriters
    <3> QED
      BY <2>7, <3>1
  <2>11. \A g \in Guru : QueueStep(g)
    BY <1>5, <2>3, <2>9
  <2>12. ASSUME NEW g \in Guru
         PROVE  /\ \A j \in 1 .. Len(queue'[g]) :
                     LET r == runs'[queue'[g][j]] IN
                       r # NoRun /\ r.kind = "memory_write" /\ r.guru = g
                /\ \A j, k \in 1 .. Len(queue'[g]) : queue'[g][j] = queue'[g][k] => j = k
    <3>1. CASE g = h
      BY <2>7, <2>8, <2>10, <3>1
    <3>2. CASE g # h
      BY <1>5, <2>3, <3>2
    <3> QED
      BY <3>1, <3>2
  <2> QED
    BY <2>11, <2>12 DEF QueueIsWriters
<1> QED
  BY <1>6, <1>7

\* Every step keeps the queues well formed and their order.
LEMMA QueueStepInv ==
    Inv /\ QueueIsWriters /\ [Next]_vars => QueueIsWriters' /\ \A g \in Guru : QueueStep(g)
<1> SUFFICES ASSUME Inv, QueueIsWriters, [Next]_vars
             PROVE  QueueIsWriters' /\ \A g \in Guru : QueueStep(g)
  OBVIOUS
<1>0. TypeOK /\ LeaseOwnsEntry
  BY DEF Inv
<1>1. CASE ~Unregistering /\ ~Registering
  BY <1>0, <1>1, QueueStepOther
<1>2. CASE Unregistering
  BY <1>0, <1>2, QueueStepRemove DEF Unregistering
<1>3. CASE Registering
  BY <1>0, <1>3, QueueStepRegister DEF Registering
<1> QED
  BY <1>1, <1>2, <1>3

\* No reader joins a Guru whose queue has a writer, and no writer overtakes
\* another, whichever of them gives up its place.
THEOREM QueueOrdered == Spec => QueueOrder
<1>1. Init => QueueIsWriters
  BY DEF Init, QueueIsWriters
<1>2. Inv /\ QueueIsWriters /\ [Next]_vars
        => [\A g \in Guru :
             /\ queue[g] # <<>> => Readers(g)' \subseteq Readers(g)
             /\ \A l \in DOMAIN queue'[g] : \A j \in DOMAIN queue[g] :
                  queue'[g][l] = queue[g][j]
                    => Ahead(queue'[g], l) \subseteq Ahead(queue[g], j)]_vars
  BY QueueStepInv DEF QueueStep, KeepsOrder
<1> QED
  BY <1>1, <1>2, QueueStepInv, Invariance, PTL DEF Spec, QueueOrder
-----------------------------------------------------------------------------
\* Only a departing run brings a waiter its turn.
LEMMA BecomesReady ==
    ASSUME TypeOK, LeaseOwnsEntry, [Next]_vars,
           NEW c \in Caller, Holds(c), Holds(c)', Ready(c)', ~Ready(c)
    PROVE  Unregistering
<1> SUFFICES ASSUME ~Unregistering PROVE FALSE
  OBVIOUS
<1>0. PICK i \in RunId, g \in Guru : i = spec[c].id /\ g = spec[c].guru
  BY DEF TypeOK, Holds, Holding, Waiting, RunSpec
<1>1. ASSUME queue'[g] # <<>>, Head(queue'[g]) = i, spec'[c] = spec[c],
             \A r \in ActiveOf(g) : r \in ActiveOf(g)' /\ runs'[r].kind = runs[r].kind
      PROVE  queue[g] = <<>> \/ Head(queue[g]) # i
  BY <1>0, <1>1 DEF Ready, QueueHead
<1>2. /\ spec'[c] = spec[c]
      /\ \A r \in ActiveOf(g) : r \in ActiveOf(g)' /\ runs'[r].kind = runs[r].kind
  <2>1. CASE ~Registering
    BY <2>1, OtherSteps DEF ActiveOf
  <2>2. ASSUME NEW d \in Caller, Register(d) \/ ReserveMemoryWrite(d)
        PROVE  /\ spec'[c] = spec[c]
               /\ \A r \in ActiveOf(g) : r \in ActiveOf(g)' /\ runs'[r].kind = runs[r].kind
    <3>1. spec' = spec /\ runs[spec[d].id] = NoRun
      BY <2>2, RegisterStep
    <3>2. \A r \in RunId : r # spec[d].id => runs'[r] = runs[r]
      BY <2>2, RegisterStep DEF TypeOK
    <3> QED
      BY <3>1, <3>2 DEF ActiveOf
  <2> QED
    BY <2>1, <2>2 DEF Registering
<1>3. queue'[g] # <<>> /\ Head(queue'[g]) = i
  BY <1>0, <1>2 DEF Ready, QueueHead
<1>4. queue[g] # <<>> /\ Head(queue[g]) = i
  <2>1. CASE queue' = queue
    BY <1>3, <2>1
  <2>2. CASE ~Registering
    BY <2>1, <2>2, OtherSteps
  <2>3. ASSUME NEW d \in Caller, Register(d)
        PROVE  queue' = queue
    BY <2>3 DEF Register
  <2>4. ASSUME NEW d \in Caller, ReserveMemoryWrite(d)
        PROVE  queue[g] # <<>> /\ Head(queue[g]) = i
    <3>1. spec[d].id # i /\ spec[d].id \in RunId
      BY <1>0, <2>4, RegisterStep DEF RunSpec
    <3>2. PICK q \in Seq(RunId) : q = queue[g]
      BY DEF TypeOK
    <3>3. queue'[g] = q \/ queue'[g] = Append(q, spec[d].id)
      BY <2>4, <3>2 DEF ReserveMemoryWrite, TypeOK
    <3>4. CASE q = <<>>
      BY <1>3, <3>1, <3>3, <3>4
    <3>5. CASE q # <<>>
      <4>1. Head(Append(q, spec[d].id)) = Head(q)
        BY <3>1, <3>5
      <4> QED
        BY <1>3, <3>2, <3>3, <3>5, <4>1
    <3> QED
      BY <3>4, <3>5
  <2> QED
    BY <2>1, <2>2, <2>3, <2>4 DEF Registering
<1> QED
  BY <1>1, <1>2, <1>3, <1>4

\* A waiter whose turn has come is told, or the one who left is about to.
LEMMA WakeStep == Inv /\ NoLostWakeup /\ [Next]_vars => NoLostWakeup'
<1> SUFFICES ASSUME Inv, NoLostWakeup, [Next]_vars,
                    NEW c \in Caller, phase'[c] = "sleeping", Ready(c)'
             PROVE  changed'[c] \/ \E d \in Caller : phase'[d] = "notifying"
  BY DEF NoLostWakeup
<1> USE DEF Goto, table, gate
<1>0. TypeOK /\ LeaseOwnsEntry
  BY DEF Inv
<1>1. ASSUME NEW e \in Caller, RemoveRun(e)
      PROVE  phase'[e] = "notifying"
  BY <1>0, <1>1 DEF RemoveRun, TypeOK
<1>2. ASSUME NEW e \in Caller, NotifyWaiters(e)
      PROVE  changed'[c]
  <2>1. phase[c] = "sleeping"
    BY <1>0, <1>2 DEF NotifyWaiters, TypeOK
  <2> QED
    BY <1>2, <2>1 DEF NotifyWaiters
<1>3. ASSUME NEW e \in Caller, CheckQueue(e), e = c
      PROVE  FALSE
  <2>1. ~Ready(c)
    BY <1>0, <1>3 DEF CheckQueue, TypeOK
  <2>2. spec' = spec /\ runs' = runs /\ queue' = queue
    BY <1>3 DEF CheckQueue
  <2> QED
    BY <2>1, <2>2 DEF Ready, QueueHead, ActiveOf
<1>4. ASSUME ~Unregistering,
             ~\E e \in Caller : NotifyWaiters(e),
             ~\E e \in Caller : CheckQueue(e) /\ e = c
      PROVE  changed'[c] \/ \E d \in Caller : phase'[d] = "notifying"
  <2>1. /\ phase[c] = "sleeping" /\ (changed[c] => changed'[c])
        /\ \A d \in Caller : phase[d] = "notifying" => phase'[d] = "notifying"
    <3> DEFINE Goal ==
          /\ phase[c] = "sleeping" /\ (changed[c] => changed'[c])
          /\ \A d \in Caller : phase[d] = "notifying" => phase'[d] = "notifying"
    <3>1. ASSUME NEW e \in Caller, NEW s \in Requests[e], AdmitActivity(e, s)
          PROVE  Goal
      BY <1>0, <3>1 DEF AdmitActivity, TypeOK
    <3>2. ASSUME NEW e \in Caller,
                 Register(e) \/ ReserveMemoryWrite(e) \/ RefuseRegistration(e)
          PROVE  Goal
      BY <1>0, <3>2 DEF Register, ReserveMemoryWrite, RefuseRegistration, TypeOK
    <3>3. ASSUME NEW e \in Caller, BeginWait(e) \/ Wake(e) \/ RecheckAvailable(e)
          PROVE  Goal
      BY <1>0, <3>3 DEF BeginWait, Wake, RecheckAvailable, TypeOK
    <3>4. ASSUME NEW e \in Caller, CheckQueue(e)
          PROVE  Goal
      <4>1. e # c
        BY <1>4, <3>4
      <4> QED
        BY <1>0, <3>4, <4>1 DEF CheckQueue, TypeOK
    <3>5. ASSUME NEW e \in Caller,
                 \/ FailWrite(e) \/ FinishRecovery(e) \/ FailChatDeletion(e)
                 \/ ClaimCompletion(e) \/ DropActivity(e)
          PROVE  Goal
      BY <1>0, <3>5 DEF FailWrite, FinishRecovery, FailChatDeletion, ClaimCompletion,
                        DropActivity, TypeOK
    <3>6. ASSUME \/ \E r \in RunId : Cancel(r)
                 \/ \E g \in Guru : BeginGuruMutation(g) \/ ClearDeletionQuarantine(g)
                 \/ \E n \in Native : AdmitNative(n) \/ DropNative(n)
                 \/ BeginUpdate \/ EndUpdate \/ UNCHANGED vars
          PROVE  Goal
      BY <3>6 DEF Cancel, BeginGuruMutation, ClearDeletionQuarantine, AdmitNative,
                  DropNative, BeginUpdate, EndUpdate, vars
    <3> QED
      BY <1>4, <3>1, <3>2, <3>3, <3>4, <3>5, <3>6, NextCases DEF Unregistering
  <2>2. Ready(c)
    BY <1>0, <1>4, <2>1, BecomesReady DEF Holds, Holding, Waiting
  <2> QED
    BY <2>1, <2>2 DEF NoLostWakeup
<1> QED
  BY <1>1, <1>2, <1>3, <1>4 DEF Unregistering

\* No wake-up is lost between a waiter's look at the table and its sleep.
THEOREM WakeUps == Spec => []NoLostWakeup
<1>1. Init => NoLostWakeup
  BY DEF Init, NoLostWakeup
<1> QED
  BY <1>1, WakeStep, Invariance, PTL DEF Spec

\* Only the turn itself decides its boundary, and only once.
LEMMA BoundaryStep == Inv /\ TerminalBoundary /\ [Next]_vars => TerminalBoundary'
<1> SUFFICES ASSUME Inv, TerminalBoundary, [Next]_vars, NEW d \in Caller,
                    NEW p \in {"completing", "stopping"}, phase'[d] = p
             PROVE  /\ runs'[spec'[d].id] # NoRun
                    /\ runs'[spec'[d].id].terminal =
                         IF p = "completing" THEN "completion_claimed" ELSE "cancel_requested"
  BY DEF TerminalBoundary
<1> DEFINE Goal == /\ runs'[spec'[d].id] # NoRun
                   /\ runs'[spec'[d].id].terminal =
                        IF p = "completing" THEN "completion_claimed" ELSE "cancel_requested"
<1> USE DEF Goto, table, gate
<1>0. TypeOK /\ LeaseOwnsEntry
  BY DEF Inv
<1>1. ASSUME phase[d] = p, spec'[d] = spec[d], spec[d].id \in RunId,
             runs'[spec[d].id] = runs[spec[d].id]
      PROVE  Goal
  BY <1>1 DEF TerminalBoundary
<1>2. phase[d] = p => Holds(d) /\ spec[d].id \in RunId
  BY <1>0 DEF TypeOK, Holds, Holding, RunSpec
<1>3. ASSUME NEW c \in Caller, ClaimCompletion(c)
      PROVE  Goal
  <2>1. /\ spec' = spec /\ spec[c].id \in RunId /\ runs[spec[c].id] \in ActiveRun
        /\ runs[spec[c].id] # NoRun
    BY <1>0, <1>3 DEF ClaimCompletion, ChatRuns, TypeOK
  <2>2. CASE d # c
    <3>1. phase[d] = p
      BY <1>0, <1>3, <2>2 DEF ClaimCompletion, TypeOK
    <3>2. spec[d].id # spec[c].id
      BY <1>0, <1>2, <1>3, <2>2, <3>1 DEF LeaseOwnsEntry, ClaimCompletion, Holds, Holding
    <3>3. runs'[spec[d].id] = runs[spec[d].id]
      BY <1>0, <1>2, <1>3, <3>1, <3>2 DEF ClaimCompletion, TypeOK
    <3> QED
      BY <1>1, <1>2, <2>1, <3>1, <3>3
  <2>3. CASE d = c
    <3>1. CASE /\ runs[spec[c].id].terminal = "running"
               /\ runs' = [runs EXCEPT ![spec[c].id].terminal = "completion_claimed"]
               /\ phase' = [phase EXCEPT ![c] = "completing"]
      <4>1. p = "completing"
        BY <1>0, <2>3, <3>1 DEF TypeOK
      <4>2. runs'[spec[c].id] # NoRun
        BY <1>0, <2>1, <3>1, TerminalUpdate
      <4>3. runs'[spec[c].id].terminal = "completion_claimed"
        BY <1>0, <2>1, <3>1 DEF TypeOK, ActiveRun
      <4> QED
        BY <2>1, <2>3, <4>1, <4>2, <4>3
    <3>2. CASE /\ runs[spec[c].id].terminal = "cancel_requested"
               /\ phase' = [phase EXCEPT ![c] = "stopping"]
               /\ UNCHANGED runs
      BY <1>0, <2>1, <2>3, <3>2 DEF TypeOK
    <3> QED
      BY <1>3, <3>1, <3>2 DEF ClaimCompletion
  <2> QED
    BY <2>2, <2>3
<1>4. ASSUME NEW r \in RunId, Cancel(r)
      PROVE  Goal
  <2>1. phase[d] = p /\ spec' = spec
    BY <1>4 DEF Cancel
  <2>2. r # spec[d].id
    BY <1>4, <2>1 DEF Cancel, TerminalBoundary
  <2>3. runs'[spec[d].id] = runs[spec[d].id]
    BY <1>0, <1>2, <1>4, <2>1, <2>2 DEF Cancel, TypeOK
  <2> QED
    BY <1>1, <1>2, <2>1, <2>3
<1>5. ASSUME NEW c \in Caller, RemoveRun(c)
      PROVE  Goal
  <2>1. d # c /\ phase[d] = p
    BY <1>0, <1>5 DEF RemoveRun, TypeOK
  <2>2. spec[d].id # spec[c].id /\ spec' = spec
    BY <1>0, <1>2, <1>5, <2>1, RemoveStep
  <2>3. runs'[spec[d].id] = runs[spec[d].id]
    BY <1>0, <1>2, <1>5, <2>1, <2>2, RemoveStep DEF TypeOK
  <2> QED
    BY <1>1, <1>2, <2>1, <2>2, <2>3
<1>6. ASSUME NEW c \in Caller, Register(c) \/ ReserveMemoryWrite(c)
      PROVE  Goal
  <2>1. d # c /\ phase[d] = p
    BY <1>0, <1>6 DEF Register, ReserveMemoryWrite, TypeOK
  <2>2. spec[d].id # spec[c].id /\ spec' = spec
    BY <1>0, <1>2, <1>6, <2>1, RegisterStep
  <2>3. runs'[spec[d].id] = runs[spec[d].id]
    BY <1>0, <1>2, <1>6, <2>1, <2>2, RegisterStep DEF TypeOK
  <2> QED
    BY <1>1, <1>2, <2>1, <2>2, <2>3
<1>7. ASSUME NEW c \in Caller, NEW s \in Requests[c], AdmitActivity(c, s)
      PROVE  Goal
  BY <1>0, <1>1, <1>2, <1>7 DEF AdmitActivity, TypeOK
<1>8. ASSUME NEW c \in Caller,
             \/ RefuseRegistration(c) \/ BeginWait(c) \/ CheckQueue(c) \/ Wake(c)
             \/ RecheckAvailable(c) \/ FailWrite(c) \/ FinishRecovery(c)
             \/ FailChatDeletion(c) \/ NotifyWaiters(c) \/ DropActivity(c)
      PROVE  Goal
  <2>1. phase[d] = p /\ spec'[d] = spec[d] /\ runs' = runs
    BY <1>0, <1>8 DEF RefuseRegistration, BeginWait, CheckQueue, Wake, RecheckAvailable,
       FailWrite, FinishRecovery, FailChatDeletion, NotifyWaiters, DropActivity, TypeOK
  <2> QED
    BY <1>1, <1>2, <2>1
<1>9. ASSUME \/ \E g \in Guru : BeginGuruMutation(g) \/ ClearDeletionQuarantine(g)
             \/ \E n \in Native : AdmitNative(n) \/ DropNative(n)
             \/ BeginUpdate \/ EndUpdate \/ UNCHANGED vars
      PROVE  Goal
  <2>1. phase' = phase /\ spec' = spec /\ runs' = runs
    BY <1>9 DEF BeginGuruMutation, ClearDeletionQuarantine, AdmitNative, DropNative,
                BeginUpdate, EndUpdate, vars
  <2> QED
    BY <1>1, <1>2, <2>1
<1> QED
  BY <1>3, <1>4, <1>5, <1>6, <1>7, <1>8, <1>9, NextCases

\* A turn that claimed its terminal boundary keeps it, and one that was
\* stopped never gets it.
THEOREM Boundaries == Spec => []TerminalBoundary
<1>1. Init => TerminalBoundary
  BY DEF Init, TerminalBoundary
<1> QED
  BY <1>1, BoundaryStep, Invariance, PTL DEF Spec
=============================================================================
