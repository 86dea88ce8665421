------------------------------ MODULE ChatTurn ------------------------------
(***************************************************************************)
(* The turns of one Chat (commands/chat_runtime.rs): the command that      *)
(* stores the user's message and launches the agent, the task that follows *)
(* its events, Stop, instructions that are queued while it answers, the    *)
(* hand-over to the Memory writer, and the one message that ends the turn. *)
(*                                                                         *)
(* Registration, Stop and the claim are the run coordinator's critical     *)
(* sections (module RunCoordinator); the Memory write behind "writing" is  *)
(* module MemoryTransaction; the agent's process is module AgentSession.   *)
(* A read of the Chat and the compare-and-swap that follows it at once are *)
(* one step: that another writer comes in between is one of its errors.    *)
(***************************************************************************)
EXTENDS Naturals, Sequences

CONSTANTS
    Turn,       \* run ids of the Chat's turns
    Steer,      \* instructions that the user queues
    NoTurn,     \* the Chat has no run
    MaxFaults   \* bound on reported errors

ASSUME NoTurnAssumption == NoTurn \notin Turn
ASSUME FaultsAssumption == MaxFaults \in Nat
ASSUME SteerAssumption == Steer \cap {"user", "complete", "aborted", "error"} = {}

VARIABLES
    chat,      \* the messages of the Chat's row, which only replace_chat changes
    lease,     \* the turn whose run is registered for the Chat
    writer,    \* the turn that is queued for, or owns, the Memory write
    terminal,  \* ActiveRun.terminal of each turn
    pc,        \* where each turn is
    seen,      \* the messages in the row that chat_send read
    flags,     \* aborted, completed, failure, terminal_completion_claimed
    told,      \* the terminal events and errors the renderer received
    owner,     \* the turn an instruction was submitted to
    steer,     \* what became of each instruction
    channel,   \* the turn's control channel
    sent,      \* instructions written to the agent and not settled, in order
    order,     \* history: instructions in the order in which they were sent
    taken,     \* history: instructions that the agent accepted
    unsure,    \* history: turns that lost track of the agent or of the row
    faults

run    == <<lease, writer, terminal>>
hist   == <<order, taken>>
ctl    == <<owner, steer, channel, sent, hist>>
vars   == <<chat, run, pc, seen, flags, told, ctl, unsure, faults>>

Flag    == {"aborted", "completed", "failure", "claimed"}
Outcome == {"complete", "aborted", "error"}
Setup   == {"stored", "brokered", "launched"}
Owning  == Setup \cup
           {"setup", "read", "loop", "settling", "closing", "setup_abort", "task_abort",
            "finalizing", "reserved", "failing"}
Step    == Owning \cup {"idle", "waiting", "writing", "unfinalized", "error_write",
                        "stop_write", "ended"}
Status  == {"idle", "admitted", "queued", "sent", "acked", "nacked", "accepted",
            "rejected"}
Open    == {"admitted", "queued", "sent", "acked", "nacked"}

Msg(t, k) == [turn |-> t, kind |-> k]

\* A message id occurs once in a Chat, and a turn ends under one message id.
Answered(t) == \E i \in DOMAIN chat : chat[i].turn = t /\ chat[i].kind \in Outcome
Completed(t) == \E i \in DOMAIN chat : chat[i] = Msg(t, "complete")

Stopped(t) == terminal[t] = "cancel_requested"

Init ==
    /\ chat = <<>> /\ lease = NoTurn /\ writer = NoTurn
    /\ terminal = [t \in Turn |-> "running"]
    /\ pc = [t \in Turn |-> "idle"] /\ seen = [t \in Turn |-> 0]
    /\ flags = [t \in Turn |-> {}] /\ told = [t \in Turn |-> <<>>]
    /\ owner = [s \in Steer |-> NoTurn] /\ steer = [s \in Steer |-> "idle"]
    /\ channel = [t \in Turn |-> <<>>] /\ sent = [t \in Turn |-> <<>>]
    /\ order = <<>> /\ taken = {} /\ unsure = {} /\ faults = 0

Fault == faults < MaxFaults /\ faults' = faults + 1
Quiet == faults' = faults

Move(t, from, to) == pc[t] = from /\ pc' = [pc EXCEPT ![t] = to]
Raise(t, f) == flags' = [flags EXCEPT ![t] = @ \cup f]
Say(t, e)   == told' = [told EXCEPT ![t] = Append(@, e)]
Store(m)    == chat' = Append(chat, m)

\* Instructions of a turn that nobody will look at any more are rejected, or
\* their sender finds the channel closed.
Rejected(t, st) ==
    [s \in Steer |-> IF owner[s] = t /\ steer[s] \in st THEN "rejected" ELSE steer[s]]

\* Slip: the receiver outlives the turn, and nobody answers what it holds.
EndKeepsControls(t, from) ==
    /\ Move(t, from, "ended")
    /\ lease' = (IF lease = t THEN NoTurn ELSE lease)
    /\ UNCHANGED <<terminal, ctl, seen>>

\* The task or the command returns: its lease and its channel are dropped.
End(t, from) ==
    /\ Move(t, from, "ended")
    /\ lease' = (IF lease = t THEN NoTurn ELSE lease)
    /\ steer' = Rejected(t, Open \ {"admitted"})
    /\ channel' = [channel EXCEPT ![t] = <<>>] /\ sent' = [sent EXCEPT ![t] = <<>>]
    /\ UNCHANGED <<terminal, owner, seen, hist>>
-----------------------------------------------------------------------------
\* Slip: a writer that waits does not keep the Chat's next turn out.
RegisterBesideWriter(t) ==
    /\ Move(t, "idle", "setup")
    /\ lease = NoTurn
    /\ lease' = t
    /\ UNCHANGED <<chat, writer, terminal, seen, flags, told, ctl, unsure, faults>>

\* register_chat_run: one run for each thread, and no reader while a writer
\* of the Guru waits or works.
Register(t) ==
    /\ Move(t, "idle", "setup")
    /\ lease = NoTurn /\ writer = NoTurn
    /\ lease' = t
    /\ UNCHANGED <<chat, writer, terminal, seen, flags, told, ctl, unsure, faults>>

ReadChat(t) ==
    /\ Move(t, "setup", "read")
    /\ seen' = [seen EXCEPT ![t] = Len(chat)]
    /\ UNCHANGED <<chat, run, flags, told, ctl, unsure, faults>>

\* The user's message becomes durable by comparing the whole row that was read.
StoreUser(t) ==
    /\ Move(t, "read", "stored")
    /\ seen[t] = Len(chat)
    /\ Store(Msg(t, "user"))
    /\ UNCHANGED <<run, seen, flags, told, ctl, unsure, faults>>

\* Every earlier error is the command's own, and leaves no trace in the Chat.
Refuse(t) ==
    /\ \/ \E from \in {"setup", "read"} : End(t, from) /\ Fault
       \/ End(t, "read") /\ seen[t] # Len(chat) /\ Quiet
    /\ Say(t, "error")
    /\ UNCHANGED <<chat, writer, flags, unsure>>

\* Profile and broker, launch of the agent, prompt: after each of them the
\* command looks whether it was stopped.
SetupStep(t) ==
    /\ ~Stopped(t)
    /\ \/ Move(t, "stored", "brokered")
       \/ Move(t, "brokered", "launched")
       \/ Move(t, "launched", "loop")
    /\ UNCHANGED <<chat, run, seen, flags, told, ctl, unsure, faults>>

SetupStops(t) ==
    /\ Stopped(t)
    /\ \E from \in Setup : Move(t, from, "setup_abort")
    /\ UNCHANGED <<chat, run, seen, flags, told, ctl, unsure, faults>>

SetupFails(t) ==
    /\ \E from \in Setup : Move(t, from, "failing")
    /\ Fault
    /\ UNCHANGED <<chat, run, seen, flags, told, ctl, unsure>>

\* persist_and_emit_aborted_chat, whose error becomes the command's.
SetupAbort(t) ==
    /\ End(t, "setup_abort")
    /\ \/ Store(Msg(t, "aborted")) /\ Say(t, "aborted") /\ Quiet
       \/ (UNCHANGED chat \/ Store(Msg(t, "aborted"))) /\ Say(t, "error") /\ Fault
    /\ UNCHANGED <<writer, flags, unsure>>
-----------------------------------------------------------------------------
\* chat_stop, acknowledged by RunCoordinator::cancel.
Stop(t) ==
    /\ lease = t /\ terminal[t] = "running"
    /\ terminal' = [terminal EXCEPT ![t] = "cancel_requested"]
    /\ UNCHANGED <<chat, lease, writer, pc, seen, flags, told, ctl, unsure, faults>>

\* submit_chat_control: the handle is taken under the coordinator's lock...
Submit(s, t) ==
    /\ steer[s] = "idle" /\ lease = t /\ terminal[t] = "running"
    /\ steer' = [steer EXCEPT ![s] = "admitted"] /\ owner' = [owner EXCEPT ![s] = t]
    /\ UNCHANGED <<chat, run, pc, seen, flags, told, channel, sent, hist, unsure, faults>>

\* ... and used outside of it, when the turn may be over.
Enqueue(s) ==
    /\ steer[s] = "admitted"
    /\ IF pc[owner[s]] = "ended"
       THEN steer' = [steer EXCEPT ![s] = "rejected"] /\ UNCHANGED channel
       ELSE /\ steer' = [steer EXCEPT ![s] = "queued"]
            /\ channel' = [channel EXCEPT ![owner[s]] = Append(@, s)]
    /\ UNCHANGED <<chat, run, pc, seen, flags, told, owner, sent, hist, unsure, faults>>

\* The first instruction in line has been answered: nothing else happens in the
\* turn's loop before it is settled (persist_contiguous_chat_controls).
Due(t) == sent[t] # <<>> /\ steer[Head(sent[t])] \in {"acked", "nacked"}

\* The loop forwards an instruction to the agent.
Forward(t) ==
    /\ pc[t] = "loop" /\ channel[t] # <<>> /\ ~Due(t)
    /\ channel' = [channel EXCEPT ![t] = Tail(@)]
    /\ LET s == Head(channel[t]) IN
         \/ steer' = [steer EXCEPT ![s] = "sent"] /\ Quiet
            /\ sent' = [sent EXCEPT ![t] = Append(@, s)] /\ order' = Append(order, s)
         \/ steer' = [steer EXCEPT ![s] = "rejected"] /\ Fault /\ UNCHANGED <<sent, order>>
    /\ UNCHANGED <<chat, run, pc, seen, flags, told, owner, taken, unsure>>

\* The agent's response is recorded under the instruction's sequence number.
Respond(t, s) ==
    /\ pc[t] \in {"loop", "settling"} /\ steer[s] = "sent" /\ owner[s] = t /\ ~Due(t)
    /\ \/ steer' = [steer EXCEPT ![s] = "acked"] /\ taken' = taken \cup {s}
       \/ steer' = [steer EXCEPT ![s] = "nacked"] /\ UNCHANGED taken
    /\ UNCHANGED <<chat, run, pc, seen, flags, told, owner, channel, sent, order, unsure, faults>>

\* settle_chat_control_response: what the agent refused is rejected, what it
\* took joins the Chat.  If the Chat cannot be stored, or is stored and reports
\* an error, the turn fails.
Persist(t) ==
    /\ pc[t] \in {"loop", "settling"} /\ Due(t)
    /\ sent' = [sent EXCEPT ![t] = Tail(@)]
    /\ LET s == Head(sent[t]) IN
         \/ /\ steer[s] = "nacked" /\ steer' = [steer EXCEPT ![s] = "rejected"]
            /\ Quiet /\ UNCHANGED <<chat, pc, flags, channel>>
         \/ /\ steer[s] = "acked" /\ steer' = [steer EXCEPT ![s] = "accepted"]
            /\ Store(Msg(t, s)) /\ Quiet /\ UNCHANGED <<pc, flags, channel>>
         \/ /\ steer[s] = "acked" /\ Fault
            /\ UNCHANGED chat \/ Store(Msg(t, s))
            /\ pc' = [pc EXCEPT ![t] = "closing"] /\ Raise(t, {"failure"})
            /\ \/ /\ pc[t] = "loop" /\ steer' = [steer EXCEPT ![s] = "rejected"]
                  /\ UNCHANGED channel
               \/ /\ pc[t] = "settling"
                  /\ steer' = [Rejected(t, {"queued"}) EXCEPT ![s] = "rejected"]
                  /\ channel' = [channel EXCEPT ![t] = <<>>]
    /\ UNCHANGED <<run, seen, told, owner, hist, unsure>>
-----------------------------------------------------------------------------
LoopStops(t) ==
    /\ Move(t, "loop", "closing") /\ Stopped(t) /\ ~Due(t)
    /\ Raise(t, {"aborted"})
    /\ UNCHANGED <<chat, run, seen, told, ctl, unsure, faults>>

\* The agent exits or breaks the protocol, or no provider body arrives.
LoopFails(t) ==
    /\ Move(t, "loop", "closing") /\ Fault /\ ~Due(t)
    /\ Raise(t, {"failure"})
    /\ UNCHANGED <<chat, run, seen, told, ctl, unsure>>

\* reject_queued_chat_controls.
RejectQueued(t) ==
    /\ steer' = Rejected(t, {"queued"})
    /\ channel' = [channel EXCEPT ![t] = <<>>]

\* agent_settled: the turn and Stop race for the terminal boundary.
AgentSettled(t) ==
    /\ ~Due(t)
    /\ \/ /\ terminal[t] = "running" /\ Move(t, "loop", "settling")
          /\ terminal' = [terminal EXCEPT ![t] = "completion_claimed"]
          /\ Raise(t, {"claimed"}) /\ RejectQueued(t)
       \/ /\ Stopped(t) /\ Move(t, "loop", "closing")
          /\ Raise(t, {"aborted"})
          /\ UNCHANGED <<terminal, steer, channel>>
    /\ UNCHANGED <<chat, lease, writer, seen, told, owner, sent, hist, unsure, faults>>

\* Slip: the answer is complete before the agent confirmed every instruction.
SettleAtOnce(t) ==
    /\ Move(t, "settling", "closing")
    /\ Raise(t, {"completed"}) /\ RejectQueued(t)
    /\ UNCHANGED <<chat, run, seen, told, owner, sent, hist, unsure, faults>>

\* settle_chat_controls_before_completion.
SettleControls(t) ==
    /\ Move(t, "settling", "closing") /\ sent[t] = <<>>
    /\ Raise(t, {"completed"}) /\ RejectQueued(t)
    /\ UNCHANGED <<chat, run, seen, told, owner, sent, hist, unsure, faults>>

\* Three seconds pass, or the agent exits.
SettleFails(t) ==
    /\ Move(t, "settling", "closing") /\ sent[t] # <<>> /\ ~Due(t)
    /\ Raise(t, {"failure"}) /\ RejectQueued(t)
    /\ UNCHANGED <<chat, run, seen, told, owner, sent, hist, unsure, faults>>

\* After the loop: pending instructions are rejected and the agent is shut
\* down.  An exit that is neither confirmed nor recorded is a failure as well.
Close(t) ==
    /\ Move(t, "closing",
            IF "aborted" \in flags[t] THEN "task_abort"
            ELSE IF "completed" \in flags[t] THEN "finalizing" ELSE "failing")
    /\ steer' = Rejected(t, {"sent", "acked", "nacked"})
    /\ sent' = [sent EXCEPT ![t] = <<>>]
    /\ \/ Quiet /\ UNCHANGED <<flags, unsure>>
       \/ Fault /\ Raise(t, {"failure"}) /\ unsure' = unsure \cup {t}
    /\ UNCHANGED <<chat, run, seen, told, owner, channel, hist>>

\* The stopped turn's message; its error leads to the second attempt below.
TaskAbort(t) ==
    /\ \/ /\ Store(Msg(t, "aborted")) /\ Say(t, "aborted") /\ Quiet
          /\ IF "failure" \in flags[t]
             THEN Move(t, "task_abort", "failing") /\ UNCHANGED <<run, ctl, seen>>
             ELSE End(t, "task_abort") /\ UNCHANGED writer
          /\ UNCHANGED flags
       \/ /\ UNCHANGED chat \/ Store(Msg(t, "aborted"))
          /\ Move(t, "task_abort", "failing") /\ Raise(t, {"failure"}) /\ Fault
          /\ UNCHANGED <<run, ctl, seen, told>>
    /\ UNCHANGED unsure
-----------------------------------------------------------------------------
\* The completed turn queues for the Memory write while it is still a reader.
Reserve(t) ==
    /\ Move(t, "finalizing", "reserved")
    /\ writer' = t
    /\ UNCHANGED <<chat, lease, terminal, seen, flags, told, ctl, unsure, faults>>

\* No answer, a trace that is too large, or a Guru that was quarantined.
ReserveFails(t) ==
    /\ Move(t, "finalizing", "error_write") /\ Fault
    /\ UNCHANGED <<chat, run, seen, flags, told, ctl, unsure>>

\* ChatTurnResources::handoff_to_memory_write drops the reader lease...
HandOff(t) ==
    /\ Move(t, "reserved", "waiting")
    /\ lease' = NoTurn
    /\ UNCHANGED <<chat, writer, terminal, seen, flags, told, ctl, unsure, faults>>

\* ... and waits for its turn as a writer.
WriterReady(t) ==
    /\ Move(t, "waiting", "writing")
    /\ UNCHANGED <<chat, run, seen, flags, told, ctl, unsure, faults>>

WriterRefused(t) ==
    /\ Move(t, "waiting", "error_write") /\ Fault
    /\ writer' = NoTurn
    /\ UNCHANGED <<chat, lease, terminal, seen, flags, told, ctl, unsure>>

\* Memory and the complete message are written together, the writer returns.
Finalize(t) ==
    /\ Store(Msg(t, "complete")) /\ Say(t, "complete")
    /\ writer' = NoTurn
    /\ IF "failure" \in flags[t]
       THEN Move(t, "writing", "failing") /\ UNCHANGED <<lease, terminal, ctl, seen>>
       ELSE End(t, "writing")
    /\ UNCHANGED <<flags, unsure, faults>>

\* An error says nothing of the message, which one transaction may have stored.
FinalizeFails(t) ==
    /\ Move(t, "writing", "unfinalized") /\ Fault
    /\ UNCHANGED chat \/ Store(Msg(t, "complete"))
    /\ writer' = NoTurn
    /\ UNCHANGED <<lease, terminal, seen, flags, told, ctl, unsure>>

\* Slip: the error of the write is taken for the outcome of the turn.
RecoverNothing(t) ==
    /\ Move(t, "unfinalized", "failing") /\ Raise(t, {"failure"})
    /\ UNCHANGED <<chat, run, seen, told, ctl, unsure, faults>>

\* recovered_canonical_completion reads the row again.
Recovered(t) ==
    /\ \/ /\ Completed(t) /\ Say(t, "complete") /\ Quiet
          /\ IF "failure" \in flags[t]
             THEN Move(t, "unfinalized", "failing") /\ UNCHANGED <<run, ctl, seen>>
             ELSE End(t, "unfinalized") /\ UNCHANGED writer
          /\ UNCHANGED <<flags, unsure>>
       \/ /\ Move(t, "unfinalized", "failing") /\ Raise(t, {"failure"})
          /\ \/ ~Completed(t) /\ Quiet /\ UNCHANGED unsure
             \/ Fault /\ unsure' = unsure \cup {t}
          /\ UNCHANGED <<run, ctl, seen, told>>
    /\ UNCHANGED chat
-----------------------------------------------------------------------------
\* Slip: a turn that failed before it claimed anything ignores Stop.
FailRegardless(t) ==
    /\ Move(t, "failing", "error_write")
    /\ UNCHANGED <<chat, run, seen, flags, told, ctl, unsure, faults>>

\* A failure claims the boundary, unless the turn has; if Stop has won, the
\* turn ends as stopped (persist_or_emit_failed_chat_with_stop_precedence).
Fail(t) ==
    /\ \/ "claimed" \in flags[t] /\ Move(t, "failing", "error_write") /\ UNCHANGED terminal
       \/ /\ "claimed" \notin flags[t] /\ Stopped(t)
          /\ Move(t, "failing", "stop_write") /\ UNCHANGED terminal
       \/ /\ "claimed" \notin flags[t] /\ ~Stopped(t)
          /\ Move(t, "failing", "error_write")
          /\ terminal' = [terminal EXCEPT ![t] = "completion_claimed"]
    /\ UNCHANGED <<chat, lease, writer, seen, flags, told, ctl, unsure, faults>>

\* Whether or not the message can be stored, the renderer is told.
Conclude(t, from, kind) ==
    /\ End(t, from) /\ Say(t, kind) /\ UNCHANGED writer
    /\ \/ ~Answered(t) /\ Store(Msg(t, kind)) /\ Quiet
       \/ Answered(t) /\ UNCHANGED chat /\ Quiet
       \/ ~Answered(t) /\ (UNCHANGED chat \/ Store(Msg(t, kind))) /\ Fault
    /\ UNCHANGED <<flags, unsure>>

TaskStep(t) ==
    \/ ReadChat(t) \/ StoreUser(t) \/ Refuse(t) \/ SetupStep(t) \/ SetupStops(t)
    \/ SetupFails(t) \/ SetupAbort(t) \/ Persist(t) \/ LoopStops(t)
    \/ SettleControls(t) \/ SettleFails(t) \/ Close(t) \/ TaskAbort(t)
    \/ Reserve(t) \/ ReserveFails(t) \/ HandOff(t) \/ WriterReady(t) \/ WriterRefused(t)
    \/ Finalize(t) \/ FinalizeFails(t) \/ Recovered(t) \/ Fail(t)
    \/ Conclude(t, "error_write", "error") \/ Conclude(t, "stop_write", "aborted")

EventStep(t) ==
    \/ Forward(t) \/ \E s \in Steer : Respond(t, s)
    \/ LoopFails(t) \/ AgentSettled(t)

Next ==
    \/ \E t \in Turn : Register(t) \/ Stop(t) \/ TaskStep(t) \/ EventStep(t)
    \/ \E s \in Steer : Enqueue(s) \/ \E t \in Turn : Submit(s, t)

Spec == Init /\ [][Next]_vars

\* A task that can go on without the agent or the user does so, and a sender
\* reaches the channel.  Nothing makes the agent answer or settle.
FairSpec ==
    /\ Spec
    /\ \A t \in Turn : WF_vars(TaskStep(t))
    /\ \A s \in Steer : WF_vars(Enqueue(s))
-----------------------------------------------------------------------------
EndedAs(t) == {k \in Outcome : \E i \in DOMAIN chat : chat[i] = Msg(t, k)}
Heard(t)   == {told[t][i] : i \in DOMAIN told[t]}

\* A turn ends in one way, in the Chat and on the screen: one terminal message,
\* and the renderer is told of a complete answer exactly if there is one.
OneOutcome ==
    \A t \in Turn :
        /\ \A i, j \in DOMAIN chat :
             chat[i].turn = t /\ chat[j].turn = t /\ {chat[i].kind, chat[j].kind} \subseteq Outcome
               => i = j
        /\ pc[t] = "ended" /\ t \notin unsure =>
             /\ \E e \in Outcome : Heard(t) = {e}
             /\ "complete" \in EndedAs(t) <=> "complete" \in Heard(t)

\* "A successful Stop must be represented as an aborted assistant message rather
\* than an Error" (chat_runtime.rs), whichever failure it races, and never as
\* an answer; and no turn reads as stopped that nobody stopped.
StopHonoured ==
    \A t \in Turn : IF Stopped(t) THEN EndedAs(t) \subseteq {"aborted"}
                                  ELSE "aborted" \notin EndedAs(t)

\* An answer stands right after what it answers: between a turn's question and
\* its complete or stopped answer there are only its own instructions (and the
\* error of an earlier turn whose Memory could not be written), and nothing of a
\* turn comes after its answer, although the lease is dropped before that is written.
AnswerFollowsQuestion ==
    \A t \in Turn : \A i, j \in DOMAIN chat :
        /\ chat[i] = Msg(t, "user") /\ i < j /\ chat[j].kind \in {"complete", "aborted"}
             /\ chat[j].turn = t => \A k \in i .. j : chat[k].turn = t \/ chat[k].kind = "error"
        /\ chat[i].turn = t /\ chat[i].kind \in Outcome /\ i < j => chat[j].turn # t

\* What the user was told is accepted is in the Chat, in the order in which it
\* was sent; a complete answer has seen no instruction that the Chat has not.
InstructionsAreKept ==
    /\ \A s \in Steer : steer[s] = "accepted" =>
         \E i \in DOMAIN chat : chat[i] = Msg(owner[s], s)
    /\ \A i, j \in DOMAIN chat : \A k, l \in DOMAIN order :
         i < j /\ chat[i].kind = order[k] /\ chat[j].kind = order[l] => k < l
    /\ \A t \in Turn : "complete" \in EndedAs(t) =>
         \A s \in taken : owner[s] = t => steer[s] = "accepted"

\* The Chat holds what was said, in the order in which it was said
\* (chat_runtime.rs:2735, chat_turn.rs:52).
TranscriptIsWhole == AnswerFollowsQuestion /\ InstructionsAreKept

\* Stop ends a turn, however it was going on, and whoever waits for an answer
\* about an instruction gets one.
StopEnds ==
    \A t \in Turn :
        Stopped(t) ~> /\ pc[t] = "ended"
                      /\ \A s \in Steer : owner[s] = t => steer[s] \in {"accepted", "rejected"}

=============================================================================
