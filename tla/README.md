# Guru Terminal: TLA+ specifications and proofs

Guru Terminal is a desktop application (Tauri, Rust) that runs research "Gurus".
A Guru owns a folder of Markdown Memory under a private Git repository and a set
of Chats in SQLite.  A Chat turn runs a model agent (the Pi process) whose tools
reach the native process through a broker socket, and from there connectors,
web sources, calculations and files.  What can go wrong in it is concurrent or
transactional, and that is what is specified here: who may touch a Guru's Memory
and when, how a write survives errors and crashes, how a turn ends, how a tool
call takes effect exactly when the agent was told so, and what happens to
processes, credentials and files that outlive the step that made them.

Sources without a directory are relative to `src/apps/guruterminal/src-tauri/src/`.
`PROJECT.json` maps every definition to the lines it models, lists the hazards at
their lines and names a mutation of the model that breaks each property.

| Module | Models | Proofs |
| --- | --- | --- |
| `RunCoordinator` | `run_coordinator.rs`, `maintenance.rs`, the quarantine of `app.rs` | `RunCoordinatorProofs` |
| `MemoryTransaction` | `commands/memory_write.rs`, `memory_git.rs`, `memory_finalization.rs` | `LocalDataProofs` |
| `AtomicMemoryCommit` | what a Memory write promises (abstract) | refinement in `LocalDataProofs` |
| `FileSwap`, `ReplaceSwap` | `runtime/memory_apply.rs`, Unix and Windows | `LocalDataProofs` |
| `MemoryUpdates` | `commands/memory_updates.rs` | `LocalDataProofs` |
| `LocalData` | the four above, one followed at a time | `LocalDataProofs` |
| `PrivateDeletion` | `deletion.rs` and the delete commands | `PrivateDataProofs` |
| `ChatArtifacts` | the artifacts that the turns of a Chat publish | `PrivateDataProofs` |
| `ChatFiles`, `MemoryTransfer`, `PinnedTree` | attachments of a Chat, copies of Memory, removal of directories | |
| `PrivateData` | the last three rows, one followed at a time | `PrivateDataProofs` |
| `ToolBroker` | `broker.rs`, `commands/tool_executor.rs`, `agent/broker-client.mjs` | `ToolBrokerProofs` |
| `ChatTurn` | `commands/chat_runtime.rs`, `chat_turn.rs`, `chat_control.rs` | `ChatTurnProofs` |
| `AgentSession`, `PiStream` | `process_lease.rs`, `chat_execution_session.rs`; `pi.rs`, `pi_execution.rs`, `pi_response.rs` | `AgentSessionProofs` |
| `McpPool` | `mcp_pool.rs`, `commands/tool_executor/mcp_host.rs` | `McpPoolProofs` |
| `McpClient`, `WebResearch`, `Finance`, `WorkbenchSearch` | `mcp.rs`; search, pages and fetch; calculations and provider reads; listing and searching files | |
| `ToolRuntimes` | these four, one followed at a time | |
| `Maintenance`, `ProviderSupport`, `Updater` | the maintenance gate, and two services that share it | `ServicesProofs` |
| `Connectors`, `Workbench`, `ComputeSession` | connector credentials and bindings and what a turn may ask of a tool, the edited file, a turn's calculation workers | `ServicesProofs` |
| `TurnProgress`, `BrowserTabs` | the renderer's view of a turn, its browser panel | |
| `Services` | the last three rows, one followed at a time | `ServicesProofs` |

Each `MC...` module adds what a specification needs for TLC (requests, plans and
records of a small instance), and each `.cfg` is one run.

## 1. Inventory

### Components: state, operations, correctness

**Run coordinator.**  State: the table of active runs, a FIFO of waiting writers per
Guru, a watch channel bumped when a run ends, the quarantine sources of a Guru,
the activities and the installing flag.  Operations: `register`,
`reserve_memory_write`, `wait`, `cancel`, `claim_completion`, `begin_guru_mutation`,
lease drops, `begin_update`.  Hard: two locks and a channel, callers between any two
critical sections.  Correct when a writer is alone on its Guru, saw every
quarantine, nothing is admitted during an update, no waiter sleeps through its
turn, and Stop and completion never both win.

**Memory write.**  State: the journal row, the Markdown files, Git's index, HEAD and
locks, the Chat's row, the quarantine.  Operations: apply, compensate, recover.
Hard: nine durable effects in three stores without a common transaction, beside a
user who edits and commits.  Correct when an open Guru holds all of a write or
nothing of it, as its caller was told, nobody else's change is replaced, and
recovery gets through.

**File publication.**  State: the target and the transaction directory's artifact.
Operations: create, update, delete, their undoing, reconciliation after a crash.
Hard: an editor saves between any two system calls.  Correct when no save is lost
and a settled change is whole and leaves nothing behind.

**Memory updates.**  State: records, what each turn has read in full, its draft of
proposals and its decision, Library commands, the writers' queue.  Correct when
committed Memory has no dangling link and nobody replaces what he did not read.

**Private deletion.**  State: the journal and its phase, sources and tombstones, the
row, the quarantine.  Operations: delete, rollback, cleanup, recovery at start.
Correct when what exists has its bytes, what is deleted does not come back, and
nothing runs while storage moves.

**Chat artifacts, Chat files, transfer, pinned directories.**  Charts and datasets a
turn stages and publishes; attachments that follow their messages and are quoted
to a cold session within its budgets; import, copy and export of Memory; removal
of a tree by descriptors while others move what is in it.  Correct when nothing
half-made stays, and nothing that belongs to somebody else goes.

**Tool broker.**  State: a connection per call, the turn's counters, pending and
committed deliveries.  Operations: request, execute, stage, respond, acknowledge,
commit, barrier, discard, shutdown.  Hard: both ends may give up at any frame.
Correct when agent and capture agree on every settled call, a turn takes exactly
what its agent was given, and budgets are kept and given back once.

**Chat turn.**  One task per turn: launch, events against watchdogs, Stop and
steering, the terminal boundary, the handoff from reader to writer, the canonical
outcome.  Correct when it ends once and as the user was told, Stop wins or loses
as a whole, and the transcript has what the agent saw in the order it saw it.

**Chat execution session, process leases, Pi process.**  Durable records of process
groups and a marker of an unconfirmed exit; the start's recovery against reused
ids; the controls, events, answer and watchdog of one agent.  Correct when no
process is lost, one writes the session directory, and the answer is what Pi said.

**MCP pool and client.**  Connector processes shared by consecutive turns; requests,
list pages and list changes of one session; what a Guru is granted.  Correct when
nothing of one turn reaches the next, an answer belongs to its request, and no
change of the tools is missed.

**Web research, finance, workbench search, compute workers.**  Correct when answers
are the asked call's own, within the policy, dates, credentials and bounds of the
turn, and no worker outlives its turn.

**Provider support, updater, connectors, workbench file.**  Correct when a cached
catalog, a verified credential, a confirmed offer and a read revision are still
current when they are used.

**Turn progress, browser panel.**  Correct when what the user sees is what the turn
did, whatever event was missed, and which page the user turned to.

Not modelled, with reasons in `PROJECT.json`: the SQLite store (each operation is
one transaction with a compare-and-swap, and one step here), settings, the agent
harness and the knowledge core (pure functions of data), the bundled sidecars.

### How they interact

    renderer --command--> Chat turn --register/reserve--> Run coordinator
                             |  ^                             ^  (quarantine)
                      frames |  | capture                     |
                             v  |                             |
              agent <----> Tool broker --> tools, MCP pool    |
                             |                                |
             Chat turn --updates--> Memory write -------------+
                                              |-> File publication (each file)
                                              |-> Git index and HEAD
                                              '-> Chat row in SQLite
             delete command --begin_guru_mutation--> Run coordinator
                            --journal, renames, SQLite--> Private deletion
             start of the app --> recover deletions, Memory journals, orphans

A model takes from its neighbour what that neighbour's model shows:
`MemoryTransaction` has one writer because `RunCoordinator` shows `WritesAreGuarded`;
it swaps a file in one step because `FileSwap` shows that a settled change is the
old file or the new one; `PrivateDeletion` has one run that is registered or not
because `RunCoordinator` models the table; `MemoryUpdates` applies a change at once
because `MemoryTransaction` implements one decision; `ChatTurn` sees the agent as
settled or failed because `PiStream` models how it does.

## 2. Plan

Done, in this order, since each protects what the next relies on: coordinator,
Memory write with its abstract decision, file publication, deletion, broker, turn,
agent and its stream, pool, services, and the parts of `LocalData`, `PrivateData` and
`ToolRuntimes`; then the proofs of section 6.

Left to prove, in the order of what they say of the system:

1. `FilesAreKept`: `ChatFiles` and `MemoryTransfer` first; `PinnedTree` needs a
   reachability argument over the tree.
2. `AnswersAreOwn`, part by part.

Left to model: the separate locks of `commit_delivery` in `ToolBroker`; warm turns in
`ChatFiles`; Windows' job objects in `AgentSession`.

## 3. The models

A part of a composite module (`LocalData`, `PrivateData`, `ToolRuntimes`, `Services`) shares
no state with the others, so a behaviour follows one part, `focus`, and the others
rest in one initial state.  `Services` composes `ProviderSupport` and `Updater` each with
the most general environment of the other over the gate they share.

### RunCoordinator

A caller is one asynchronous command.  `phase` is its program counter, `spec` the
`RunSpec` it was given; `runs` and `queue` are `RunTable`, `activities` and
`installing` the maintenance state.  Each critical section is one action, and so
is each step between two of them that another thread could see:

| Code | Actions |
| --- | --- |
| `admit_activity`, `begin_update`, lease drops | `AdmitActivity`, `BeginUpdate`, `EndUpdate`, `DropActivity`, `AdmitNative`, `DropNative` |
| `register_with_controls` | `Register`, or `RefuseRegistration` |
| `reserve_memory_write` | `ReserveMemoryWrite` |
| `wait_for_memory_writer` | `BeginWait` (subscribe), `CheckQueue` (under the lock), `Wake` (`changed()`) |
| availability again once granted | `RecheckAvailable` |
| `RunLease::drop` | `RemoveRun`, then `NotifyWaiters`, then `DropActivity` |
| `cancel`, `claim_completion` | `Cancel`, `ClaimCompletion` |
| `begin_guru_mutation`, quarantines | `BeginGuruMutation`, `ClearDeletionQuarantine`, `FailWrite`, `FinishRecovery`, `FailChatDeletion` |

The watch channel is a boolean for each receiver, "has an unseen change", which
is its whole meaning to `changed()`.  `Writing(c)` is wider than the code's intent
on purpose: from the moment a caller passed its last check until it leaves.  The
recovery registers outside of the writer queue, so once it has cleared the
quarantine, and before it drops its lease, another writer may already be granted;
by then the recovery changes nothing any more.

### MemoryTransaction and AtomicMemoryCommit

The contents of files, index and HEAD are named relative to the one transaction:
before, proposed or somebody else's.  `pc` is where the write, its compensation or
the recovery is.  `Write` follows `apply_memory_targets_registered`: `CreateJournal`,
`ApplyFile`, `ValidateApplied`, `Prepare` (the commit object), `RecordIntent`,
`LockRefs`, `LockIndex`, `PublishIndex`, `MoveHead`, `VerifyPublished`, `Finalize` (the
Chat row), `DeleteJournal`.  `Rollback` follows the compensation, `Recovery`
`recover_memory_finalizations_for_guru`.  A step that may fail in the code has a
failing twin that goes where the code's error path goes, "error after COMMIT" of
SQLite included.  `Crash` forgets the process and keeps what is durable; the next
start quarantines each Guru that has a journal.

`Interfere` is whoever else is at work: the user saves a file (`Save`), another Git
process takes a lock on refs or index (`OtherLocks`) and later changes what it locked
or gives up (`OtherEnds`).  `others` says which lock files belong to such processes.
Lock files are removed by path, so `Release` may remove a lock that is not the
command's own: where the index cannot be locked, the code's guard removes the lock
it met.  `robbed` counts the processes this befell; each ends (`RobbedEnds`) by renaming
or removing what then is at its lock's path, ours included.

`AtomicMemoryCommit` is the abstract specification: a Guru closes, at most one
irrevocable decision is made, and it opens again only with the Memory that was
decided.  The refinement mapping reads the decision off the Chat message or, for
a write without a Chat, off HEAD.

### FileSwap and ReplaceSwap

One file in either direction: publishing and taking back are the same procedure
with before and after exchanged (`Old`, `New`).  Each system call is an action: create
and fill the artifact, rename into place (`MoveIn`), exchange, inspect what came
out, unlink, or exchange back when a user's save came out.  `CallFails` and
`ExchangeUnsynced` are the error returns.  `Save` is the user's editor, which replaces
the file atomically.  `Judge`, `Reconcile`, `Clear` and `Reread` are
`rollback_memory_changes_idempotent` after a crash.  `ReplaceSwap` is the same with
Windows' calls: staged bytes in `incoming`, `Replace` with a backup in `swap`.  User
bytes always survive there; a `ReplaceFileW` that stops half way, or a torn staged
file, leaves the Guru closed for good (`Stuck`).

### MemoryUpdates

Turns hold a reader lease, `ReadFull` records, `Propose` with the base they read
(beside another call, unseen by it), `Decide`, and at `EndTurn` trade the lease for a
place in the queue.  `Create`, `Revise`, `Delete` and `Revert` form what a Library
command will do; `Reserve` queues it.  `Publish` re-checks at its turn whether the
change is `Applicable` (bases and titles for a turn, the bytes read for a command),
then validation with the whole change in place lets it `Commit` or not
(`RollBack`).  Library commands do not look for colliding titles, in the code and in
the model.  Not in it: Evidence, which has uuids; two parallel `stage_decision`
calls, of which both may pass and the last commit stays; and `allocate_slug_id`,
which after 9,999 decisions of one title gives the same "-overflow" id to each
further one (`memory_updates.rs:333`).

### PrivateDeletion, ChatArtifacts, ChatFiles, MemoryTransfer, PinnedTree

`PrivateDeletion`: commands run next to each other, to a run that uses the storage
(`RunStarts`, `RunStores`, `RunEnds`) and to crashes; `Boot` is the recovery of the next
start.  Paths are visited in any order where the code has a fixed one: more
behaviour, never less.  The history variable `lapses` remembers what befell the target
that the code does not make good, each a step that the model takes like any other:
two deletions at work at once (`overlap`), an SQLite error that hid a durable COMMIT
(`indeterminate`), a Chat that could not be read when its deletion had failed
(`unread`).  Section 5 says which part of which property yields to which of them.

`ChatArtifacts`: `Stage`, `CommitDelivery`, `DiscardDelivery` for each overlapping call,
`Complete` writes rows.  The handlers of a turn run in one task, so what lies between
two waits is one step.  The transaction replaces rows artifact by artifact; as the
artifacts are distinct, `RowsReplaced` says in one set what is left.  `ChatFiles`: `Write`, `Store` and `Undo` of one message, `Tamper`
by others, `Bootstrap` and `Quote` of a cold turn within the budgets.  Any attachment
but an image may have extracted Markdown beside it, a text included, and `Restore`
prefers that, unchecked, to the file.  `MemoryTransfer`:
`List` and `Capture` record by record without a lease while `Edit` changes the source,
`Publish`, `Register`, `TakeBack`.  `PinnedTree`: the descriptors of
`remove_entry_unix` as a stack of frames, every `openat`, `fstat` and `unlinkat` a step
between which `Moves` renames, replaces and adds.

### ToolBroker

One connection for each call with a frame in flight in each direction (`up`,
`down`).  The handler: `Accept`, `Stage`, `Finish` or `ExecuteFails`, `Respond`, `ReadAck`,
`CommitDelivery`, `CommitBarrier`, and `PeerGone`, `Oversize`, `Undelivered` on the
ways out, each of which discards the delivery and releases the counter.  The
client: `ReceiveResponse`, `ReceiveBarrier`, `ReceiveEnd`, where a lost barrier
makes the agent exit, and `AbortCall`.  The turn: `SettleTurn` or `FailTurn`,
`ShutDown`, `Drain` (handlers that do not end in two seconds are aborted), `Take`.

### ChatTurn

`pc` is where the turn's task is: `ReadChat`, `StoreUser`, the setup steps, the event
loop (`Forward`, `Respond`, `SettleControls`, `AgentSettled`), `Close` at the terminal
boundary, `Reserve` and `HandOff` from reader to writer, `WriterReady`, `Finalize`, and
`Fail`, `Conclude`, `Recovered` on the error paths.  `chat` is the stored row, `told` what
the renderer heard, `steer` where each instruction is between the renderer and the
agent.  Instructions are settled one per step.

### AgentSession and PiStream

`os` says who leads each process group, so that an id can be reused; `leases` are the
records; `held` and `reapers` who still has a handle.  `Launch`, `Leased`, `Configure`,
`Prompt`, `Settle`, `Interrupt`, `Stopped` or `NotStopped`, `Record`, `Seal` are a turn;
`Recover` the next start; `Write` the agent in its session directory.  `PiStream` has
the frames on a bounded broadcast channel (`wire`, `lagged`), the control
conversation with its one fallback to a cold launch (`Relaunch`), the capture of the
answer (`Hear`) and the watchdog (`Tick`, `Elapse`).

### McpPool, McpClient, WebResearch, Finance, WorkbenchSearch

`McpPool`: a handler (`task`) takes the cell's lock, lists, calls, or acquires, prepares
and installs a process; any await of it may be dropped (`Abort`); `Reset` and `Enter`
return a process to the pool in the background; `EndTurn` and `Drain` are the turn's
end.  `McpClient`: `Caller`, `Hearing` (the reader task), `CleanUp` of a dropped request,
`Server`, `Shutdown`.  `WebResearch`: the candidates of one search with their
times, the pages of a source, one fetch over redirects.  `Finance`: one batch of a
worker line by line, and reads with a kept token.  `WorkbenchSearch`: one directory or
file per step while the user edits.

### Services

`ProviderSupport`: `Ask`, `Proceed` (the command's next step), Pi's answers, `CancelOauth`
in its two halves.  `Updater`: `BeginCheck` to `Publish`, `BeginInstall` to `Restart`.
`Connectors`: what the holder of the lifecycle mutex still has to do (`command`), a
verification beside it, failing stores; and, apart from these, `Resolve`, `Inventory`,
`Call`, `Received` for what a Guru is granted of a tool.  The enumeration in a schema
counts how often each provider is listed, up to two, as neither its order nor a third
mention changes what is granted.  `Workbench`: `Call`, `Acquire`, `Check`, `Rename`
of each turn.  `ComputeSession`: cells, the one worker it keeps, its pipes.
`TurnProgress`: patches and snapshots by sequence.  `BrowserTabs`: the renderer's session
and panel, the native records and webviews, and the commands in flight between.  A
panel that unmounts (`Unmount`) starts a last flush that nobody awaits: its requests
and the hides that follow them go to `parting.panels` and are answered at any time
(`LateBounds`), while the next panel (`Mount`) begins with refs of its own and asks at once.

## 4. The runs

| Run | Distinct states | What it shows |
| --- | --- | --- |
| `coordinator` | 477,148 | `WritesAreGuarded`, `AdmissionHolds`, `QueueOrder`, and that every reserved writer leaves the queue (`WritersServed`) |
| `local_data` | 780,508 | a file's saves and its settled content on both platforms (`SyncedBytesSurvive`, `SettledWhole`), a write that is whole, honest and one decision (`AnswerAndMemoryAgree`, `CompetingChangesSurvive`, `ImplementsAtomicCommit`), updates that stay coherent (`MemoryStaysCoherent`), and that all of it settles (`WritesSettle`) |
| `private_data` | 1,397,559 | a deletion (`ExistingIsWhole`, `MovesAlone`, `DeletedStaysGone`, `StartResolves`), artifacts (`ArtifactsSettle`), attachments, transfers and removed trees (`FilesAreKept`) |
| `broker_turn` | 325,729 | agent and capture agree (`DeliveriesAgree`), budgets (`BudgetsHold`), every call settles (`CallsSettle`) |
| `chat_turn` | 571,679 | one outcome as told (`OneOutcome`), Stop (`StopHonoured`), the transcript (`TranscriptIsWhole`), and that a Stop ends the turn (`StopEnds`) |
| `agent` | 2,020,891 | processes (`NoOrphans`), the session (`SessionHasOneWriter`), the stream (`TurnFollowsPi`), and that a start gets through (`ApplicationStartsAgain`) |
| `mcp_pool` | 689,515 | nothing leaks between turns (`ToolsAreTheTurns`), ended turns give up their processes (`EndedTurnsLetGo`) |
| `tool_runtimes` | 666,729 | answers within policy, dates and bounds (`AnswersAreOwn`), calls that return (`CallsReturn`) |
| `services` | 1,043,639 | `FreshIsCurrent`, `ConnectorsAsVerified`, `CallsAreGranted`, `HostsAreClean`, `ViewIsExact`, `UpdatesAsAgreed`, `ReplacesWhatWasSeen`, and that requests end (`RequestsEnd`) |
| `memory_stale_locks` | violated | lock files of a dead process stop every recovery |
| `swap_unsynced_exchange` | violated | a failed sync after an exchange deletes a save |
| `deletion_race` | violated | two deletions of one Guru share one quarantine |

**Bounds and why they are enough.**

- `coordinator`: three callers give a holder, the head of a queue and one behind it,
  or a writer, its recovery and a reader; two use one thread, so that Chats meet at
  the thread or at the one slot; one run id is shared, as the renderer may reuse
  one.  One Guru: that Gurus do not block each other rests on the theorems, which
  have any number.
- `local_data`: one file, as files of a set do not depend on each other in
  publication; three saves reach the target before the preflight, before the
  exchange and before the exchange back; three faults and crashes a recovery that
  dies.  A write of two files: an error or a crash before, between and after them,
  a failed compensation of a failed write, a crash within a recovery; two saves or
  locks of others, so that a process is robbed of its lock and a second takes the
  place, or a save comes beside it.  Updates: two
  turns and one command on three pages, of which two have one title and one links
  to another, two proposals per turn.
- `private_data`: one required and one optional path, two commands, two errors and
  two crashes: a failed rename whose rollback fails, a durable COMMIT that reports an
  error and another error on its way out, two deletions of which one fails.
  Two overlapping calls over two artifacts and three datasets in three turns, so
  that a third turn meets what a failed and a complete one left.  Three messages
  with four attachments over budgets that hold two.  Two moves by others in a tree.  Three records, three
  changes to them and one error or crash.
- `broker_turn`: three calls in the plans that differ in what they cite and in which
  budget they share; limit one per kind, so that the second of a kind is refused or
  waits for a discarded one; two connections, so that the third waits (the code has
  64).
- `chat_turn`: two turns, one that ends while the next begins; two instructions, whose
  order can be confused; two errors, one and one on its error path.
- `agent`: two process ids and two launches, so that an id is reused and a second
  agent meets the first; one crash; two errors, the second on the way out of the
  first; two writes to the session.  A channel of three with five events overflows;
  a deferred deadline passes and is deferred once.
- `mcp_pool`: two turns over two processes and one place, so that a process is shared,
  another evicted; three calls, two at once; one error, exit, timeout or abort.
- `tool_runtimes`: two tools over two list pages with one change; one failure anywhere
  in three requests; four calls on one source, three operations, two readers with two credentials.
- `services`: two provider commands, after one whose Pi process may still be there; two
  such processes at a time, which is what it takes for a key to come back unseen;
  three versions and two checks; one crash; two Gurus, two scopes and a slow
  verification; two providers, one of them keyed; two turns on one file; three cells
  over three workers; one missed event; three pages over a bound of two and four
  moves of the user, so that a panel goes and another comes while the first one's
  requests are under way.

**Deadlock** is checked in `coordinator`, `memory_stale_locks` and
`swap_unsynced_exchange`.  Everywhere else the system really stops: its turns are
over, its target is deleted, or the bound on errors and crashes is used up.

**Fairness**, weak throughout.  `RunCoordinator`: the steps of a lease's own command,
because it is a task that Tokio polls until it returns and whose drops run even
when it fails; not Stop, updates or a new command.  `ChatTurn`: the turn's task, which
is always polled, and the queueing of an accepted instruction; not the agent's
events or its answers.  `ToolBroker`: a handler, whose reads and writes have timeouts; a client
that reads what has arrived; shutdown, drain and take, which follow each other in
the turn's task.  `AgentSession`: the start's recovery, and the exit of a group that
was killed.  `McpPool`: handlers, the answer, reset and pooling of a process, which
have timeouts; an abort only once its turn is not open; the drain of an ended turn.
`LocalData`: a command runs to its end, and a Guru that stays closed is recovered by
the next start or the user's retry.  `Services`: the application's own steps and the
deadlines of the updater's requests; neither Pi's answer, nor its timeout, nor the
user.  `ToolRuntimes`: the caller, the shutdown, the reaping of a process and the host
side of a calculation, each under a timeout.  Errors, crashes and edits are bounded
and never fair.

## 5. What the checks found

Three disagreements between the code and what it says of itself are runs of their
own, quoted under `findings` in `PROJECT.json`: `memory_stale_locks`,
`swap_unsynced_exchange`, `deletion_race`.

More behaviours would make a property fail.  The models have them all; a history
variable or a condition in the property says where it yields, and is marked where
it is defined.

- `PrivateDeletion`, "overlap": the finding `deletion_race`.  Even then no two commands
  move storage at once (`MovesAlone`) and no required storage is destroyed
  (`ExistingKeepsBytes`, which yields to nothing); but a run may be active beside the
  one that moves, and store beside a tombstone, so that the last parts of
  `ExistingIsWhole`, `MovesAlone` and `DeletedStaysGone`, and `StartResolves`, are claimed only
  without it.
- `PrivateDeletion`, "indeterminate": `deletion.rs:116` takes every SQLite error as "not
  deleted" and restores the storage, although an I/O error may follow a durable
  COMMIT.  Storage of a deleted target is then live (the second part of
  `DeletedStaysGone`).
- `PrivateDeletion`, "unread": `commands/records.rs:107` returns with the store's error
  before it quarantines the Guru, which stays open with a deletion pending
  (`OpenIsWhole`); a run may then store beside a tombstone (`StartResolves`).
- `ChatFiles` (`unsure`), `MemoryTransfer`: in the same way `replace_chat` and
  `create_guru` may report an error for what they wrote, and their callers then
  remove its files.
- `ChatFiles`: extracted Markdown is preferred to the file itself and read without a
  length or a digest (`commands/attachments.rs:502-526`), for a text attachment too,
  which otherwise is checked; what is quoted is labelled
  `digest_verified_bounded_content` all the same (`attachments.rs:568`).  `QuotesTheEnd`
  claims exact bytes only of what comes from the file.
- `MemoryTransaction` (`others`, `robbed`): the guard that removes `index.lock` is armed
  before the file is created (`memory_git.rs:558-566`), so a write that meets another
  process's lock there fails and removes that lock.  That process and a third may
  then write the index at once, or the first may replace it under ours, which the
  comment at `memory_git.rs:571` takes for impossible.  `CompetitorsKept` exempts
  locks on the index and the steps of those robbed; that the command itself replaces
  nothing foreign holds without exception.  The same guard would remove a stale
  `index.lock`; `memory_stale_locks` is violated because `HEAD.lock` is met first.
- `MemoryTransaction`, `noop`: when the proposed tree equals HEAD's, `prepare` returns HEAD
  as the commit (`memory_git.rs:176`), and an interrupted compensation looks finished
  to a recovery whose verification then fails for good.
- `FileSwap`, torn artifacts: a crash within `write_all` (`runtime/memory_apply.rs:1159`)
  leaves bytes that equal neither side.  Nothing is lost, but the Guru stays closed.
- `ChatTurn`: a completed turn whose writer fails stores its error after the next turn
  may have begun (`chat_turn.rs:52`, `commands/chat_runtime.rs:3035`), against
  `docs/architecture.md:148`; and when recording an unconfirmed stop fails
  (`chat_runtime.rs:2871`), a complete answer is followed by an error (`unsure`).
- `AgentSession`: an unconfirmed stop on the way out of a failed launch is not recorded
  (`chat_runtime.rs:2218-2298`; `unrecorded`), against `chat_execution_session.rs:31`; a
  child whose lease cannot be written is not on record (`unleased`).
- `McpPool`: a refresh that is dropped between `take_tools_changed` and the end of its
  list loses the flag (`mcp_host.rs:523`, `764`; `dropped`).
- `WebResearch`: two calls in flight on one source; the later answer replaces the
  snapshot whose offsets the earlier one gave out (`together`).
- `ProviderSupport`: a discovery compares the key it began from with the one there is
  (a generation, by value).  A forgotten Pi process that brings back the former key
  after another was stored passes unnoticed, and the catalog is of the other
  (`returned`).
- `WorkbenchSearch`: entries whose names are not UTF-8 are passed over without
  `truncated` (`commands/tool_executor/workbench.rs:503-505`).
- `Workbench`: what the user saves between check and rename is lost
  (`workbench.rs:134`; `disturbed`).
- `BrowserTabs`: closing a tab, removing its Chat or switching Chat while its opening is
  in flight leaves a webview that the panel never meets and that takes a place of
  the bound (`met`); a failed opening is asked again at once.  A hide of a panel that
  is gone may come after the show of the next (`useNativeBrowserTabs.ts:286-297`): the
  active page stays hidden until the panel next asks (`parting.undone`).  That nothing
  but the active page is seen holds all the same.

## 6. The proofs

Each theorem holds for every value of the constants that meets the module's named
assumptions: any number of Gurus, callers, calls, files, turns, saves, errors and
crashes.  The assumptions say that a bound is a natural number, that a
distinguished value ("none", "nobody") is not one of the real ones, and that sets
such as slugs' numbers are what their names say.  In every proof module an
inductive invariant is a conjunction of named parts, its preservation has one step
per action, and the properties follow from it.

**RunCoordinatorProofs.**  `Guarded`, `Admissions`, `QueueOrdered`, and besides
`Exclusion`, `UpdateExclusion`, `WakeUps`, `Boundaries`.  Exclusion is not inductive: a
granted writer is alone because it is still the head of its queue and no reader
came since, which needs that every lease owns its entry in the table, that every
entry belongs to a lease, that a recovery is alone while it writes, and that
whoever holds a lease holds its activity.  `SeesQuarantine` carries what was decided
while a writer waited, `SlotBound` counts callers, `QueueIsWriters` the queue;
`DequeueKeepsHead` carries the lease drop.

**LocalDataProofs.**  `PublicationIsWhole`, `SavesSurvive`, `WritesAgree`, `LocksHeld`,
`CompetitorsSurvive`, `WriteIsAtomic`, `Coherence`.  For a file, what the artifact may
hold at each system call (`ArtifactAt`) and where the target stands while no user
interferes (`TargetAt`); the same for Windows' two files.  For a write, the invariant
says, for each place of the command and while nobody interferes, what files, index,
HEAD and message hold (`StoresAt`, `ProgressAt`, `IdleAt`), and, whoever interferes,
other processes with locks of theirs and processes robbed of one included, that HEAD
is written under a lock of the command's own (`RefsAt`) and that the journal fits the
stores; `WriteIsAtomic` maps each step to one of the abstract decision or
to a stutter.  For updates, `Coherence` rests on the writers being one line with the
head alone at work (`Lined`, `Alone`), on what a rollback restores (`Restores`), and on
what a command read (`Based`); `Room` shows that the decisions of a finite set of
turns never run out of ids, which needs least elements of sets of ids (`Smallest`).

**PrivateDataProofs.**  `Wholeness`, `RunsStayOut`, `Gone`, `StartsResolve`, `TypeCorrect`, for
any number of delete commands, errors and crashes and with overlapping deletions,
durable errors and unreadable Chats among the behaviours.  The invariant has a part
for each degree of harm.  Whatever lapses (`Always`), it relates the place of each
command to journal and row (`PlaceFits`, `BootFits`) and these to where each path is
(`StorageFits`), with one mover (`OneAtATime`).  While deletions have not overlapped, one
command at most has begun, and no run beside it (`Apart`); while nothing but a
durable error lapsed, a pending deletion has its target closed (`Closed`); and while
nothing but an unread Chat did, what SQLite deleted has no live storage (`Absent`).
`ArtifactsHold`: the transaction of a turn insists on what was decided call by call,
so the invariant (`ArtifactInv`) carries each decision until then: what is staged and
what is delivered concern different artifacts and results (`Distinct`), staged and
delivered together keep the bound, and deliveries are as many as their artifacts
(`Bounded`), each publication is still the next revision of what its author read
(`Fits`), and a result that is staged has its place (`RoomKept`).  `ArtifactsAssumption`
says that the calls under way are finitely many.  `OwnedDataHolds` brings both to the
specification that the run checks.

**ToolBrokerProofs.**  `Deliveries`, `Budgets`, `TypeCorrect`.  The invariant says how far the
two ends of a connection can be apart (`Handshake`), what a frame in flight tells of
both (`InFlight`), where a delivery is at each of the handler's steps, and what a
turn that has taken it can no longer change.  A counter is the cardinality of the
calls that hold a reservation, with one lemma for a call that joins and one for a
call that leaves.

**ChatTurnProofs.**  `Endings`, `Stopping`, `Wholeness`, `TypeCorrect`.  `Course` ties each
place of a turn to its lease, boundary and flags; `Outcomes` what was stored to what
was told; `Places` and `Transcript` where a message stands between those of other
turns; `InOrder` the instructions on their way from channel to agent to Chat.  The
last are facts about positions in sequences that grow at the end or are cut.

**AgentSessionProofs.**  `Orphans`, `OneWriter`, `Following`.  The first two need who owns
which process group while ids are reused (`OnRecord`, `Owns`) and what a sealed
cursor describes (`Sealed`).  `Following` counts: the message ends on the wire and
those captured are those said (`Counts`), every end has its beginning (`Begins`), the
last end is the answer (`LastEnd`), the settled event is the last (`SettledLast`),
unless the channel forgot one, which the capture notices; and the watchdog's
deferrals against what is queued (`Watches`, `Counted`).

**McpPoolProofs.**  `ShownToolsAreTheTurns`.  `PoolInv` says what a call knows of its process
at each of its steps (`Served`), that a lock is held by a call that is between its
taking and its giving back (`Guarded`), that a process in the cell of a turn has that
turn's authority and activations and lists no others, and an unused one has none
(`Isolated`), that the host's view of it is what the process has unless the process
has said or will list that it changed (`Current`), and that the pool holds idle
processes, each once (`Pooled`).  `NoProcess`: the mark of an empty cell is not a
process.

**ServicesProofs.**  `Verified`, `AskedAsGranted`, `Replacements`, `CleanHosts`, `Agreed`, `Current`,
`Exact`, one invariant for each part.  `AskedAsGranted` follows what a manifest grants through
the narrowing of the schema (`NarrowedIsAware`) to the answer that is checked.  `Current` holds
for any number of Pi processes that outlive their commands, until one of them
brings back the key from which a look at the models began (`returned`): of two
forgotten processes that store keys, the second may do that.

`Exact` has two invariants.  `DisplayInv`: what the turn has now differs from what it
had at its last patch by what is dirty and what is to be removed (`Fits`), every
event on its way tells what the turn had at its number (`EventFits`), and so does what
the renderer shows (`StateFits`); the terminal snapshot is the last on its way
(`EndsExact`).  Identifiers ascend, so that a sequence of items is determined by its set
(`AscendingDetermined`), and a patch that is applied to the items of the one before gives
those it was taken of (`PatchIsExact`).  `TabsInv`: tabs are of one Chat and pages of one tab
(`TabsApart`), a page in the course of opening is not met (`OpeningsApart`), registry and
webviews agree for each page but for what is on its way (`Recorded`), what the panel
asked last of a page is what it is or a request that waits (`AsksFit`), of this panel
or of one that is gone (`LateHidden`), which hides in the end what it still shows
(`LateFit`), and without a flush due it is what the panel wants (`FrontAsked`).  `BrowserAssumption` says that the
bound is a number, that no page is the mark of none and that there is a Chat.

**Only model-checked.**  Liveness, which the prover cannot reach: `WritersServed`,
`CallsSettle`, `StopEnds`, `ApplicationStartsAgain`, `EndedTurnsLetGo`, `CallsReturn`, `RequestsEnd`,
`WritesSettle`.  Of the safety properties `FilesAreKept` and `AnswersAreOwn`: several of their parts
filter or fold sequences by an operator, which the provers cannot instantiate, and
the others are the plan of section 2.

## 7. Assumptions and what is left out

**Of the platform.**  A crash is the death of the process, not of the machine: what a
system call wrote is durable, synced or not.  libgit2 replaces a ref by a rename as
the last effect of a transaction's commit.  SQLite transactions are atomic; where a
caller distinguishes it, one may fail and be durable.  An editor saves by replacing
the file.  Windows' paths, where no model is named for them, are left out, and so
are authentication frames, the normalisation of paths, digests and every wording.

**Broker and turn.**  A settled agent makes no further tool call.  `commit_delivery` is
one step although it takes several locks in turn; only a turn that is failing can
be aborted half way, or tokio's cooperative budget yield between them
(`tool_executor.rs:339`).  Decisions may cite Memory that was read in the turn as
well; only citations of Evidence and results are modelled.  Everything else of the
event loop waits while it settles its instructions.

**Agent.**  Signalling after a check is one step.  Left out: a marker that cannot be
written, a lease left as a temporary file, a leftover record whose id a stranger
took or whose leaderless group lives (each of which refuses later starts or keeps a
Chat closed), and the second signal of `Drop` after `finish_shutdown`
(`pi.rs:772`).  Events before the subscription are lost; exit, protocol error and
extension error are one event.

**Pool and client.**  An abandoned activation takes effect before a later turn lists
(`docs/architecture.md`); idle processes expire only when one is acquired or released
(`mcp_pool.rs:54`); one server id.  Of `McpClient`, one call at a time; notifications of
cancellation have no effect; hosts, credentials and the syntax of schemas are
abstracted.

**Web, finance, files.**  Documents' texts, numbers and the directory of entities are
abstracted.  `returned_count` is not adjusted after the as-of filter
(`research.rs:103`), a URL fetch skips the as-of check, KIS reads are neither cut nor
validated: no property claims otherwise.  A search passes over files that are too
large or unreadable, or whose names are not UTF-8, without saying so.  Context lines and glob syntax are left out.

**Private data.**  The device checks of tree removal are left out; a directory without a
recorded identity is removed whatever it is.  A copy takes no reader lease and may
be half of a write set.  `chat_artifact_read` reads in three queries
(`records.rs:192`).  Extracted text is restored without a digest check (section 5).
Warm turns are left out.

**Services.**  One provider, whose OAuth credential is the one that rotates; no
credentials from the environment.  The jitter of the updater's schedule and a clock
set back are left out.  Connector stamps increase strictly; a tool call may read
credential and environment at two times (`finance.rs`, `mcp_host.rs:628`).  One
compute language.  The browser's navigation and bounds are left out; a page that is
reserved while a reset drains has no record (`lost`).
