--------------------------- MODULE ChatTurnProofs ---------------------------
(***************************************************************************)
(* Proofs about ChatTurn, for every set of turns and instructions and any  *)
(* number of faults.  The invariant says where a turn may hold the Chat    *)
(* (Course), what the Chat and the renderer know of it (Outcomes), what    *)
(* may stand behind its question (Sole, Alone), and where an instruction   *)
(* is between the user and the Chat (Line, Places).                        *)
(***************************************************************************)
EXTENDS ChatTurn, TLAPS

Terminal == {"running", "cancel_requested", "completion_claimed"}
Kinds    == {"user"} \cup Outcome \cup Steer
Message  == [turn : Turn, kind : Kinds]

CourseTypes ==
    /\ lease \in Turn \cup {NoTurn} /\ writer \in Turn \cup {NoTurn}
    /\ terminal \in [Turn -> Terminal] /\ pc \in [Turn -> Step]
    /\ flags \in [Turn -> SUBSET Flag] /\ unsure \subseteq Turn
ToldTypes == told \in [Turn -> Seq(Outcome)]
ChatTypes == chat \in Seq(Message)
SteerTypes ==
    /\ owner \in [Steer -> Turn \cup {NoTurn}] /\ steer \in [Steer -> Status]
    /\ channel \in [Turn -> Seq(Steer)] /\ sent \in [Turn -> Seq(Steer)]
    /\ order \in Seq(Steer) /\ taken \subseteq Steer
Types ==
    /\ CourseTypes /\ ToldTypes /\ ChatTypes /\ SteerTypes
    /\ seen \in [Turn -> Nat] /\ faults \in Nat
-----------------------------------------------------------------------------
Early    == {"idle", "setup", "read"} \cup Setup
Agreeing == {"loop", "settling"}
Writing  == {"reserved", "waiting", "writing"}
Ending   == {"finalizing", "unfinalized"} \cup Writing

\* What a turn knows of its own end agrees with the boundary that it and Stop
\* race for, and a failure that it carries along is one that lost track.
Boundary(t) ==
    /\ "claimed" \in flags[t] => terminal[t] = "completion_claimed"
    /\ "aborted" \in flags[t] => Stopped(t)
    /\ pc[t] \in Early \cup {"loop", "setup_abort"} => flags[t] = {}
    /\ pc[t] = "settling" => flags[t] = {"claimed"}
    /\ pc[t] = "closing" =>
         flags[t] \in {{"aborted"}, {"failure"}, {"claimed", "failure"}, {"claimed", "completed"}}
    /\ pc[t] = "task_abort" => "aborted" \in flags[t]
    /\ pc[t] \in {"setup_abort", "stop_write"} => Stopped(t)
    /\ pc[t] \in Ending => {"claimed", "completed"} \subseteq flags[t]
    /\ pc[t] = "error_write" => terminal[t] = "completion_claimed"
    /\ "failure" \in flags[t] /\ pc[t] \in Ending \cup {"task_abort"} => t \in unsure

\* A turn keeps its lease as long as it can say anything but an error, except
\* that the writer takes it over.
Hold(t) ==
    /\ lease = t => pc[t] \in Owning \cup {"error_write", "stop_write"}
    /\ pc[t] \in (Owning \ {"failing"}) \cup {"stop_write"} => lease = t
    /\ pc[t] = "failing" /\ "claimed" \notin flags[t] => lease = t
    /\ writer = t <=> pc[t] \in Writing

\* A writer that is registered as a reader as well is the same turn.
OneHolder == lease # NoTurn => writer \in {NoTurn, lease}

Course == OneHolder /\ \A t \in Turn : Boundary(t) /\ Hold(t)

Sole(t) == lease = t \/ writer = t
-----------------------------------------------------------------------------
Said == {chat[i] : i \in DOMAIN chat}

\* What the Chat holds of a turn and what the renderer heard of it.
Ended(t) ==
    /\ Msg(t, "complete") \in Said \/ Msg(t, "error") \in Said =>
         terminal[t] = "completion_claimed"
    /\ Msg(t, "aborted") \in Said => Stopped(t)
    /\ Msg(t, "complete") \in Said => "completed" \in flags[t]
    /\ pc[t] \in Step \ {"unfinalized", "failing", "error_write", "stop_write", "ended"} =>
         \A k \in Outcome : Msg(t, k) \notin Said
    /\ pc[t] \in {"idle", "setup", "read"} => \A k \in Kinds : Msg(t, k) \notin Said
    /\ pc[t] \in {"failing", "error_write", "stop_write"} /\ t \notin unsure =>
         Msg(t, "complete") \notin Said

Hears(t) ==
    t \notin unsure =>
        IF pc[t] = "ended"
        THEN \E e \in Outcome :
                told[t] = <<e>> /\ (e = "complete" <=> Msg(t, "complete") \in Said)
        ELSE told[t] = <<>>

Outcomes == \A t \in Turn : Ended(t) /\ Hears(t)
-----------------------------------------------------------------------------
\* A turn has one outcome, and says nothing after it.
Last ==
    \A i, j \in DOMAIN chat : chat[i].kind \in Outcome /\ i < j => chat[j].turn # chat[i].turn

\* From its question on, whoever holds the Chat is alone with late errors.
Alone ==
    \A t \in Turn : Sole(t) =>
        \A i, k \in DOMAIN chat :
            chat[i] = Msg(t, "user") /\ i <= k => chat[k].turn = t \/ chat[k].kind = "error"

\* The same up to the answer, when the Chat may be another turn's.
Between ==
    \A i, j, k \in DOMAIN chat :
        chat[i].kind = "user" /\ chat[j].kind \in {"complete", "aborted"}
        /\ chat[i].turn = chat[j].turn /\ i <= k /\ k <= j
          => chat[k].turn = chat[j].turn \/ chat[k].kind = "error"

Transcript == Last /\ Alone /\ Between
-----------------------------------------------------------------------------
Unsent  == {"idle", "admitted", "queued"}
Waiting == {"sent", "acked", "nacked"}

\* Instructions stand in one line before the agent and in one behind it.
Line(t) ==
    /\ \A i \in DOMAIN channel[t] :
         steer[channel[t][i]] = "queued" /\ owner[channel[t][i]] = t
    /\ \A i, j \in DOMAIN channel[t] : channel[t][i] = channel[t][j] => i = j
    /\ \A i \in DOMAIN sent[t] : steer[sent[t][i]] \in Waiting /\ owner[sent[t][i]] = t
    /\ \A i, j \in DOMAIN sent[t] : sent[t][i] = sent[t][j] => i = j
    /\ sent[t] # <<>> => pc[t] \in Agreeing \cup {"closing"}

Place(s) ==
    /\ steer[s] # "idle" => owner[s] \in Turn
    /\ steer[s] \in Unsent =>
         /\ s \notin taken
         /\ \A i \in DOMAIN order : order[i] # s
         /\ \A t \in Turn : Msg(t, s) \notin Said
    /\ steer[s] = "accepted" => Msg(owner[s], s) \in Said
    /\ owner[s] \in Turn /\ pc[owner[s]] \in Early \cup Agreeing =>
         /\ steer[s] \in Waiting => \E i \in DOMAIN sent[owner[s]] : sent[owner[s]][i] = s
         /\ s \in taken => steer[s] \in {"acked", "accepted"}
    /\ owner[s] \in Turn /\ s \in taken /\ "completed" \in flags[owner[s]] =>
         steer[s] = "accepted"

Places == (\A t \in Turn : Line(t)) /\ \A s \in Steer : Place(s)

\* The Chat, and behind it what was sent, are in the order of sending.
SentOnce == \A k, l \in DOMAIN order : order[k] = order[l] => k = l
SentInOrder ==
    \A t \in Turn : \A i, j \in DOMAIN sent[t] : \A k, l \in DOMAIN order :
        i < j /\ sent[t][i] = order[k] /\ sent[t][j] = order[l] => k < l
ChatFirst ==
    \A i \in DOMAIN chat : \A t \in Turn : \A j \in DOMAIN sent[t] : \A k, l \in DOMAIN order :
        chat[i].kind = order[k] /\ sent[t][j] = order[l] => k < l
ChatInOrder ==
    \A i, j \in DOMAIN chat : \A k, l \in DOMAIN order :
        i < j /\ chat[i].kind = order[k] /\ chat[j].kind = order[l] => k < l

InOrder == SentOnce /\ SentInOrder /\ ChatFirst /\ ChatInOrder

Inv == Types /\ Course /\ Outcomes /\ Transcript /\ Places /\ InOrder
-----------------------------------------------------------------------------
USE NoTurnAssumption

LEMMA InitInv == Init => Inv
<1> SUFFICES ASSUME Init
             PROVE  Inv
  OBVIOUS
<1>1. Types
  BY FaultsAssumption DEF Init, Types, CourseTypes, ToldTypes, ChatTypes, SteerTypes,
        Terminal, Step, Owning, Setup, Flag, Status
<1>2. Said = {}
  BY DEF Init, Said
<1>3. Course
  BY DEF Init, Course, OneHolder, Boundary, Hold, Early, Setup, Owning, Writing, Ending
<1>4. Outcomes
  BY <1>2 DEF Init, Outcomes, Ended, Hears
<1>5. Transcript
  BY DEF Init, Transcript, Last, Alone, Between
<1>6. Places
  <2>1. ASSUME NEW t \in Turn
        PROVE  Line(t)
    <3>1. channel[t] = <<>> /\ sent[t] = <<>>
      BY DEF Init
    <3> QED
      BY <3>1 DEF Line
  <2>2. \A s \in Steer : Place(s)
    BY <1>2 DEF Init, Place, Unsent
  <2> QED
    BY <2>1, <2>2 DEF Places
<1>7. InOrder
  BY DEF Init, InOrder, SentOnce, SentInOrder, ChatFirst, ChatInOrder
<1> QED
  BY <1>1, <1>3, <1>4, <1>5, <1>6, <1>7 DEF Inv

\* Every step, by name: what the proofs below split on.
LEMMA NextCases ==
    ASSUME [Next]_vars
    PROVE  \/ \E t \in Turn :
                \/ Register(t) \/ Stop(t) \/ ReadChat(t) \/ StoreUser(t) \/ Refuse(t)
                \/ SetupStep(t) \/ SetupStops(t) \/ SetupFails(t) \/ SetupAbort(t)
                \/ Persist(t) \/ LoopStops(t) \/ SettleControls(t) \/ SettleFails(t)
                \/ Close(t) \/ TaskAbort(t) \/ Reserve(t) \/ ReserveFails(t) \/ HandOff(t)
                \/ WriterReady(t) \/ WriterRefused(t) \/ Finalize(t) \/ FinalizeFails(t)
                \/ Recovered(t) \/ Fail(t) \/ Conclude(t, "error_write", "error")
                \/ Conclude(t, "stop_write", "aborted") \/ Forward(t) \/ LoopFails(t)
                \/ AgentSettled(t) \/ \E s \in Steer : Respond(t, s) \/ Submit(s, t)
           \/ \E s \in Steer : Enqueue(s)
           \/ UNCHANGED vars
BY DEF Next, TaskStep, EventStep
-----------------------------------------------------------------------------
LEMMA CourseTypesStep ==
    ASSUME CourseTypes, [Next]_vars
    PROVE  CourseTypes'
<1> USE DEF CourseTypes, Terminal, Step, Owning, Setup, Flag, run, ctl, Move, Raise, Quiet,
        Fault
<1>1. ASSUME NEW t \in Turn, Register(t) \/ Stop(t) \/ ReadChat(t) \/ StoreUser(t)
      PROVE  CourseTypes'
  BY <1>1 DEF Register, Stop, ReadChat, StoreUser
<1>15. ASSUME NEW t \in Turn, SetupStep(t) \/ SetupStops(t) \/ SetupFails(t)
       PROVE  CourseTypes'
  BY <1>15 DEF SetupStep, SetupStops, SetupFails
<1>2. ASSUME NEW t \in Turn, Refuse(t)
      PROVE  CourseTypes'
  BY <1>2 DEF Refuse, End
<1>16. ASSUME NEW t \in Turn, SetupAbort(t)
       PROVE  CourseTypes'
  <2>1. /\ pc' = [pc EXCEPT ![t] = "ended"] /\ lease' \in {lease, NoTurn}
        /\ UNCHANGED <<writer, terminal, flags, unsure>>
    BY <1>16 DEF SetupAbort, End
  <2> QED
    BY <2>1
<1>3. ASSUME NEW t \in Turn, Persist(t)
      PROVE  CourseTypes'
  <2>1. /\ pc' = pc \/ pc' = [pc EXCEPT ![t] = "closing"]
        /\ flags' = flags \/ flags' = [flags EXCEPT ![t] = @ \cup {"failure"}]
        /\ UNCHANGED <<lease, writer, terminal, unsure>>
    BY <1>3 DEF Persist
  <2> QED
    BY <2>1
<1>4. ASSUME NEW t \in Turn,
             LoopStops(t) \/ SettleControls(t) \/ SettleFails(t) \/ Close(t)
      PROVE  CourseTypes'
  BY <1>4 DEF LoopStops, SettleControls, SettleFails, Close
<1>5. ASSUME NEW t \in Turn, TaskAbort(t)
      PROVE  CourseTypes'
  BY <1>5 DEF TaskAbort, End
<1>6. ASSUME NEW t \in Turn,
             Reserve(t) \/ ReserveFails(t) \/ HandOff(t) \/ WriterReady(t) \/ WriterRefused(t)
      PROVE  CourseTypes'
  BY <1>6 DEF Reserve, ReserveFails, HandOff, WriterReady, WriterRefused
<1>7. ASSUME NEW t \in Turn, Finalize(t) \/ FinalizeFails(t)
      PROVE  CourseTypes'
  BY <1>7 DEF Finalize, FinalizeFails, End
<1>8. ASSUME NEW t \in Turn, Recovered(t)
      PROVE  CourseTypes'
  BY <1>8 DEF Recovered, End
<1>9. ASSUME NEW t \in Turn, Fail(t)
      PROVE  CourseTypes'
  BY <1>9 DEF Fail
<1>10. ASSUME NEW t \in Turn, NEW from, NEW k, Conclude(t, from, k)
       PROVE  CourseTypes'
  BY <1>10 DEF Conclude, End
<1>11. ASSUME NEW t \in Turn, Forward(t) \/ LoopFails(t) \/ AgentSettled(t)
       PROVE  CourseTypes'
  BY <1>11 DEF Forward, LoopFails, AgentSettled
<1>12. ASSUME NEW t \in Turn, NEW s \in Steer, Respond(t, s) \/ Submit(s, t)
       PROVE  CourseTypes'
  BY <1>12 DEF Respond, Submit
<1>13. CASE UNCHANGED vars
  BY <1>13 DEF vars
<1>14. ASSUME NEW s \in Steer, Enqueue(s)
       PROVE  CourseTypes'
  BY <1>14 DEF Enqueue
<1> QED
  BY <1>1, <1>2, <1>3, <1>4, <1>5, <1>6, <1>7, <1>8, <1>9, <1>10, <1>11, <1>12, <1>13, <1>14,
     <1>15, <1>16, NextCases

LEMMA CourseStep ==
    ASSUME CourseTypes, Course, [Next]_vars
    PROVE  Course'
<1> USE DEF CourseTypes, Course, OneHolder, Boundary, Hold, Stopped, Terminal, Step, Owning,
            Setup, Flag, Early, Writing, Ending, run, ctl, Move, Raise, Quiet, Fault
<1>1. ASSUME NEW t \in Turn, Register(t) \/ Stop(t) \/ ReadChat(t) \/ StoreUser(t)
      PROVE  Course'
  BY <1>1 DEF Register, Stop, ReadChat, StoreUser
<1>2. ASSUME NEW t \in Turn, SetupStep(t) \/ SetupStops(t) \/ SetupFails(t)
      PROVE  Course'
  BY <1>2 DEF SetupStep, SetupStops, SetupFails
<1>3. ASSUME NEW t \in Turn, Refuse(t) \/ SetupAbort(t)
      PROVE  Course'
  BY <1>3 DEF Refuse, SetupAbort, End
<1>4. ASSUME NEW t \in Turn, Persist(t)
      PROVE  Course'
  BY <1>4 DEF Persist
<1>5. ASSUME NEW t \in Turn, LoopStops(t) \/ SettleControls(t) \/ SettleFails(t)
      PROVE  Course'
  BY <1>5 DEF LoopStops, SettleControls, SettleFails
<1>6. ASSUME NEW t \in Turn, Close(t)
      PROVE  Course'
  BY <1>6 DEF Close
<1>7. ASSUME NEW t \in Turn, TaskAbort(t)
      PROVE  Course'
  BY <1>7 DEF TaskAbort, End
<1>8. ASSUME NEW t \in Turn, Reserve(t) \/ ReserveFails(t) \/ HandOff(t)
      PROVE  Course'
  BY <1>8 DEF Reserve, ReserveFails, HandOff
<1>9. ASSUME NEW t \in Turn, WriterReady(t) \/ WriterRefused(t)
      PROVE  Course'
  BY <1>9 DEF WriterReady, WriterRefused
<1>10. ASSUME NEW t \in Turn, Finalize(t) \/ FinalizeFails(t)
       PROVE  Course'
  BY <1>10 DEF Finalize, FinalizeFails, End
<1>11. ASSUME NEW t \in Turn, Recovered(t)
       PROVE  Course'
  BY <1>11 DEF Recovered, End
<1>12. ASSUME NEW t \in Turn, Fail(t)
       PROVE  Course'
  BY <1>12 DEF Fail
<1>13. ASSUME NEW t \in Turn,
              Conclude(t, "error_write", "error") \/ Conclude(t, "stop_write", "aborted")
       PROVE  Course'
  BY <1>13 DEF Conclude, End
<1>14. ASSUME NEW t \in Turn, Forward(t) \/ LoopFails(t) \/ AgentSettled(t)
       PROVE  Course'
  BY <1>14 DEF Forward, LoopFails, AgentSettled
<1>15. ASSUME NEW t \in Turn, NEW s \in Steer, Respond(t, s) \/ Submit(s, t)
       PROVE  Course'
  BY <1>15 DEF Respond, Submit
<1>16. ASSUME NEW s \in Steer, Enqueue(s)
       PROVE  Course'
  BY <1>16 DEF Enqueue
<1>17. CASE UNCHANGED vars
  BY <1>17 DEF vars
<1> QED
  BY <1>1, <1>2, <1>3, <1>4, <1>5, <1>6, <1>7, <1>8, <1>9, <1>10, <1>11, <1>12, <1>13, <1>14,
     <1>15, <1>16, <1>17, NextCases
-----------------------------------------------------------------------------
\* What a message that is stored adds to what the Chat says.
LEMMA Stores ==
    ASSUME ChatTypes
    PROVE  /\ chat' = chat => Said' = Said /\ ChatTypes'
           /\ \A t \in Turn, k \in Kinds :
                Store(Msg(t, k)) => Said' = Said \cup {Msg(t, k)} /\ ChatTypes'
<1>1. chat' = chat => Said' = Said /\ ChatTypes'
  BY DEF Said, ChatTypes
<1>2. ASSUME NEW t \in Turn, NEW k \in Kinds, Store(Msg(t, k))
      PROVE  Said' = Said \cup {Msg(t, k)} /\ ChatTypes'
  <2>1. Msg(t, k) \in Message
    BY DEF Msg, Message
  <2>2. chat' \in Seq(Message) /\ Len(chat') = Len(chat) + 1
        /\ chat'[Len(chat) + 1] = Msg(t, k)
        /\ \A i \in 1 .. Len(chat) : chat'[i] = chat[i]
    BY <1>2, <2>1 DEF Store, ChatTypes
  <2>3. DOMAIN chat = 1 .. Len(chat) /\ DOMAIN chat' = 1 .. Len(chat) + 1 /\ Len(chat) \in Nat
    BY <2>2 DEF ChatTypes
  <2>4. ASSUME NEW m \in Said'
        PROVE  m \in Said \cup {Msg(t, k)}
    <3>1. PICK i \in DOMAIN chat' : m = chat'[i]
      BY <2>4 DEF Said
    <3> QED
      BY <3>1, <2>2, <2>3 DEF Said
  <2>5. ASSUME NEW m \in Said
        PROVE  m \in Said'
    <3>1. PICK i \in DOMAIN chat : m = chat[i]
      BY <2>5 DEF Said
    <3>2. i \in DOMAIN chat' /\ chat'[i] = m
      BY <3>1, <2>2, <2>3
    <3> QED
      BY <3>2 DEF Said
  <2>6. Msg(t, k) \in Said'
    BY <2>2, <2>3 DEF Said
  <2> QED
    BY <2>2, <2>4, <2>5, <2>6 DEF ChatTypes
<1> QED
  BY <1>1, <1>2

LEMMA WhatIsSaid ==
    /\ \A t : Completed(t) <=> Msg(t, "complete") \in Said
    /\ \A t : Answered(t) /\ ChatTypes <=> ChatTypes /\ \E k \in Outcome : Msg(t, k) \in Said
<1>1. \A t : Completed(t) <=> Msg(t, "complete") \in Said
  BY DEF Completed, Said
<1>2. ASSUME NEW t, ChatTypes, Answered(t)
      PROVE  \E k \in Outcome : Msg(t, k) \in Said
  <2>1. PICK i \in DOMAIN chat : chat[i].turn = t /\ chat[i].kind \in Outcome
    BY <1>2 DEF Answered
  <2>2. chat[i] \in Message
    BY <1>2 DEF ChatTypes
  <2>3. chat[i] = Msg(t, chat[i].kind)
    BY <2>1, <2>2 DEF Msg, Message
  <2> QED
    BY <2>1, <2>3 DEF Said
<1>3. ASSUME NEW t, NEW k \in Outcome, Msg(t, k) \in Said
      PROVE  Answered(t)
  BY <1>3 DEF Answered, Said, Msg
<1> QED
  BY <1>1, <1>2, <1>3

LEMMA SameMsg == \A t, u, k, q : Msg(t, k) = Msg(u, q) <=> t = u /\ k = q
BY DEF Msg

LEMMA FirstHeard ==
    /\ \A e : Append(<<>>, e) = <<e>>
    /\ \A e, f : <<e>> = <<f>> => e = f
  OBVIOUS

\* What settling an instruction can add.
LEMMA PersistSays ==
    ASSUME SteerTypes, ChatTypes, NEW t \in Turn, Persist(t)
    PROVE  /\ Head(sent[t]) \in Steer
           /\ chat' = chat \/ Store(Msg(t, Head(sent[t])))
           /\ \A u \in Turn : \A k \in Outcome \cup {"user"} :
                Msg(u, k) \in Said' <=> Msg(u, k) \in Said
           /\ \A u \in Turn \ {t} : \A k \in Kinds : Msg(u, k) \in Said' <=> Msg(u, k) \in Said
<1>1. Head(sent[t]) \in Steer
  BY DEF Persist, Due, SteerTypes
<1>2. chat' = chat \/ Store(Msg(t, Head(sent[t])))
  BY DEF Persist
<1>3. Said' = Said \/ Said' = Said \cup {Msg(t, Head(sent[t]))}
  BY <1>1, <1>2, Stores DEF Kinds
<1>4. Head(sent[t]) \notin Outcome \cup {"user"}
  BY <1>1, SteerAssumption DEF Outcome
<1> QED
  BY <1>1, <1>2, <1>3, <1>4, SameMsg

LEMMA ToldTypesStep ==
    ASSUME ToldTypes, [Next]_vars
    PROVE  ToldTypes'
<1>1. \A t \in Turn, e \in Outcome : Say(t, e) => ToldTypes'
  BY DEF ToldTypes, Say
<1>2. UNCHANGED told => ToldTypes'
  BY DEF ToldTypes
<1> QED
  BY <1>1, <1>2, NextCases DEF Outcome, vars, Register, Stop, ReadChat, StoreUser, Refuse,
     SetupStep,
     SetupStops, SetupFails, SetupAbort, Persist, LoopStops, SettleControls, SettleFails, Close,
     TaskAbort, Reserve, ReserveFails, HandOff, WriterReady, WriterRefused, Finalize,
     FinalizeFails, Recovered, Fail, Conclude, Forward, LoopFails, AgentSettled, Respond,
     Submit, Enqueue

LEMMA OutcomesStep ==
    ASSUME CourseTypes, ToldTypes, ChatTypes, SteerTypes, Course, Outcomes, [Next]_vars
    PROVE  Outcomes'
<1> USE DEF Outcomes, Ended, Hears, Stopped, CourseTypes, ToldTypes, Outcome, Step, Owning,
        Setup,
            Flag, run, ctl, Move, Raise, Quiet, Fault
<1> USE Stores, SameMsg, FirstHeard DEF Kinds
<1> USE DEF Course, Boundary, Early, Ending, Writing
<1>1. ASSUME NEW t \in Turn, Register(t) \/ Stop(t) \/ ReadChat(t)
      PROVE  Outcomes'
  BY <1>1 DEF Register, Stop, ReadChat
<1>2. ASSUME NEW t \in Turn, StoreUser(t)
      PROVE  Outcomes'
  BY <1>2 DEF StoreUser
<1>3. ASSUME NEW t \in Turn, Refuse(t)
      PROVE  Outcomes'
  <2>1. pc[t] \in {"setup", "read"} /\ pc' = [pc EXCEPT ![t] = "ended"]
        /\ UNCHANGED <<chat, flags, unsure, terminal>>
    BY <1>3 DEF Refuse, End
  <2>2. told' = [told EXCEPT ![t] = Append(told[t], "error")]
    BY <1>3 DEF Refuse, Say
  <2>3. Said' = Said /\ Msg(t, "complete") \notin Said
    BY <2>1
  <2>4. t \notin unsure => told'[t] = <<"error">>
    <3>1. t \notin unsure => told[t] = <<>>
      BY <2>1
    <3>2. told'[t] = Append(told[t], "error")
      BY <2>2
    <3> QED
      BY <3>1, <3>2
  <2>5. ASSUME NEW u \in Turn
        PROVE  Ended(u)'
    BY <2>1, <2>3
  <2>6. ASSUME NEW u \in Turn
        PROVE  Hears(u)'
    BY <2>1, <2>2, <2>3, <2>4
  <2> QED
    BY <2>5, <2>6
<1>4. ASSUME NEW t \in Turn, SetupStep(t) \/ SetupStops(t) \/ SetupFails(t)
      PROVE  Outcomes'
  BY <1>4 DEF SetupStep, SetupStops, SetupFails
<1>5. ASSUME NEW t \in Turn, SetupAbort(t)
      PROVE  Outcomes'
  BY <1>5 DEF SetupAbort, End, Say
<1>7. ASSUME NEW t \in Turn, LoopStops(t) \/ SettleControls(t) \/ SettleFails(t) \/ Close(t)
      PROVE  Outcomes'
  BY <1>7 DEF LoopStops, SettleControls, SettleFails, Close
<1>8. ASSUME NEW t \in Turn, TaskAbort(t)
      PROVE  Outcomes'
  BY <1>8 DEF TaskAbort, End, Say
<1>9. ASSUME NEW t \in Turn, Reserve(t) \/ ReserveFails(t) \/ HandOff(t)
      PROVE  Outcomes'
  BY <1>9 DEF Reserve, ReserveFails, HandOff
<1>10. ASSUME NEW t \in Turn, WriterReady(t) \/ WriterRefused(t)
       PROVE  Outcomes'
  BY <1>10 DEF WriterReady, WriterRefused
<1>11. ASSUME NEW t \in Turn, Finalize(t)
       PROVE  Outcomes'
  <2>1. told' = [told EXCEPT ![t] = Append(told[t], "complete")]
    BY <1>11 DEF Finalize, Say
  <2>2. pc[t] = "writing" /\ Said' = Said \cup {Msg(t, "complete")}
        /\ UNCHANGED <<flags, unsure, terminal>>
    BY <1>11 DEF Finalize, End
  <2>3. IF "failure" \in flags[t] THEN pc' = [pc EXCEPT ![t] = "failing"]
                                  ELSE pc' = [pc EXCEPT ![t] = "ended"]
    BY <1>11 DEF Finalize, End
  <2>4. {"claimed", "completed"} \subseteq flags[t] /\ ("failure" \in flags[t] => t \in unsure)
    BY <2>2
  <2>5. t \notin unsure => pc' = [pc EXCEPT ![t] = "ended"] /\ told'[t] = <<"complete">>
    <3>1. t \notin unsure => told[t] = <<>>
      BY <2>2
    <3>2. told'[t] = Append(told[t], "complete")
      BY <2>1
    <3> QED
      BY <2>3, <2>4, <3>1, <3>2
  <2>6. ASSUME NEW u \in Turn
        PROVE  Ended(u)'
    BY <2>2, <2>3, <2>4
  <2>7. ASSUME NEW u \in Turn
        PROVE  Hears(u)'
    <3>1. CASE u = t
      BY <2>2, <2>5, <3>1
    <3>2. CASE u # t
      <4>1. told'[u] = told[u] /\ pc'[u] = pc[u] /\ unsure' = unsure
        BY <2>1, <2>2, <2>3, <3>2
      <4>2. Msg(u, "complete") \in Said' <=> Msg(u, "complete") \in Said
        BY <2>2, <3>2
      <4> QED
        BY <4>1, <4>2
    <3> QED
      BY <3>1, <3>2
  <2> QED
    BY <2>6, <2>7
<1>12. ASSUME NEW t \in Turn, FinalizeFails(t)
       PROVE  Outcomes'
  BY <1>12 DEF FinalizeFails
<1>13. ASSUME NEW t \in Turn, Recovered(t)
       PROVE  Outcomes'
  BY <1>13, WhatIsSaid DEF Recovered, End, Say
<1>14. ASSUME NEW t \in Turn, Fail(t)
       PROVE  Outcomes'
  BY <1>14 DEF Fail
<1>15. ASSUME NEW t \in Turn,
              Conclude(t, "error_write", "error") \/ Conclude(t, "stop_write", "aborted")
       PROVE  Outcomes'
  BY <1>15 DEF Conclude, End, Say
<1>16. ASSUME NEW t \in Turn, Forward(t) \/ LoopFails(t) \/ AgentSettled(t)
       PROVE  Outcomes'
  BY <1>16 DEF Forward, LoopFails, AgentSettled
<1>17. ASSUME NEW t \in Turn, NEW s \in Steer, Respond(t, s) \/ Submit(s, t)
       PROVE  Outcomes'
  BY <1>17 DEF Respond, Submit
<1>18. ASSUME NEW s \in Steer, Enqueue(s)
       PROVE  Outcomes'
  BY <1>18 DEF Enqueue
<1>19. CASE UNCHANGED vars
  BY <1>19 DEF vars
<1>20. ASSUME NEW t \in Turn, Persist(t)
       PROVE  Outcomes'
  <2>3. \A u \in Turn : \A k \in Outcome : Msg(u, k) \in Said' <=> Msg(u, k) \in Said
    BY <1>20, PersistSays
  <2>4. /\ pc[t] \in {"loop", "settling"} /\ UNCHANGED <<terminal, told, unsure>>
        /\ \/ UNCHANGED <<pc, flags>>
           \/ /\ pc' = [pc EXCEPT ![t] = "closing"]
              /\ flags' = [flags EXCEPT ![t] = @ \cup {"failure"}]
    BY <1>20 DEF Persist
  <2>5. ASSUME NEW u \in Turn
        PROVE  Ended(u)'
    <3>1. "completed" \in flags[u] => "completed" \in flags'[u]
      <4>1. CASE UNCHANGED flags
        BY <4>1
      <4>2. CASE flags' = [flags EXCEPT ![t] = @ \cup {"failure"}]
        <5>1. flags'[u] = flags[u] \/ flags'[u] = flags[u] \cup {"failure"}
          BY <4>2
        <5> QED
          BY <5>1
      <4> QED
        BY <2>4, <4>1, <4>2
    <3>2. CASE u # t
      <4>1. pc'[u] = pc[u]
        BY <2>4, <3>2
      <4>2. \A k \in Kinds : Msg(u, k) \in Said' <=> Msg(u, k) \in Said
        BY <1>20, <3>2, PersistSays
      <4> QED
        BY <2>4, <3>1, <4>1, <4>2
    <3>3. CASE u = t
      BY <2>3, <2>4, <3>1, <3>3
    <3> QED
      BY <3>2, <3>3
  <2>6. ASSUME NEW u \in Turn
        PROVE  Hears(u)'
    BY <2>3, <2>4
  <2> QED
    BY <2>5, <2>6
<1> QED
  BY <1>1, <1>2, <1>3, <1>4, <1>5, <1>7, <1>8, <1>9, <1>10, <1>11, <1>12, <1>13, <1>14,
     <1>15, <1>16, <1>17, <1>18, <1>19, <1>20, NextCases
-----------------------------------------------------------------------------
\* Who may say what: nobody after the turn's outcome, and nobody but the one
\* that holds the Chat, except for an error.
Utters(t, k) ==
    /\ Store(Msg(t, k))
    /\ \A q \in Outcome : Msg(t, q) \notin Said
    /\ k # "error" => Sole(t)

LEMMA Utterance ==
    ASSUME CourseTypes, ChatTypes, SteerTypes, Course, Outcomes, [Next]_vars
    PROVE  chat' = chat \/ \E t \in Turn, k \in Kinds : Utters(t, k)
<1> USE DEF Course, Hold, Outcomes, Ended, Owning, Setup, Step, Writing, Move, Fault, Quiet,
        Kinds
<1> USE DEF Sole, Utters
<1>1. ASSUME NEW t \in Turn, StoreUser(t)
      PROVE  Utters(t, "user")
  BY <1>1 DEF StoreUser, Outcome
<1>2. ASSUME NEW t \in Turn, SetupAbort(t) \/ TaskAbort(t)
      PROVE  chat' = chat \/ Utters(t, "aborted")
  BY <1>2 DEF SetupAbort, TaskAbort, End
<1>3. ASSUME NEW t \in Turn, Finalize(t) \/ FinalizeFails(t)
      PROVE  chat' = chat \/ Utters(t, "complete")
  BY <1>3 DEF Finalize, FinalizeFails, End
<1>4. ASSUME NEW t \in Turn, Conclude(t, "stop_write", "aborted")
      PROVE  chat' = chat \/ Utters(t, "aborted")
  BY <1>4, WhatIsSaid DEF Conclude, End
<1>5. ASSUME NEW t \in Turn, Conclude(t, "error_write", "error")
      PROVE  chat' = chat \/ Utters(t, "error")
  BY <1>5, WhatIsSaid DEF Conclude, End
<1>6. ASSUME NEW t \in Turn, Persist(t)
      PROVE  chat' = chat \/ \E k \in Kinds : Utters(t, k)
  <2>1. Head(sent[t]) \in Kinds /\ (chat' = chat \/ Store(Msg(t, Head(sent[t]))))
    BY <1>6, PersistSays
  <2>2. pc[t] \in {"loop", "settling"}
    BY <1>6 DEF Persist
  <2> QED
    BY <2>1, <2>2
<1>7. UNCHANGED vars => chat' = chat
  BY DEF vars
<1>8. ASSUME NEW t \in Turn,
             \/ Register(t) \/ Stop(t) \/ ReadChat(t) \/ Refuse(t) \/ SetupStep(t)
             \/ SetupStops(t) \/ SetupFails(t) \/ LoopStops(t) \/ SettleControls(t)
             \/ SettleFails(t) \/ Close(t) \/ Reserve(t) \/ ReserveFails(t) \/ HandOff(t)
             \/ WriterReady(t) \/ WriterRefused(t) \/ Recovered(t) \/ Fail(t)
             \/ Forward(t) \/ LoopFails(t) \/ AgentSettled(t)
      PROVE  chat' = chat
  BY <1>8 DEF Register, Stop, ReadChat, Refuse, SetupStep, SetupStops, SetupFails, LoopStops,
     SettleControls, SettleFails, Close, Reserve, ReserveFails, HandOff, WriterReady,
     WriterRefused, Recovered, Fail, Forward, LoopFails, AgentSettled
<1>9. ASSUME NEW t \in Turn, NEW s \in Steer, Respond(t, s) \/ Submit(s, t)
      PROVE  chat' = chat
  BY <1>9 DEF Respond, Submit
<1>10. ASSUME NEW s \in Steer, Enqueue(s)
      PROVE  chat' = chat
  BY <1>10 DEF Enqueue
<1>11. {"user", "complete", "aborted", "error"} \subseteq Kinds
  BY DEF Outcome
<1> HIDE DEF Utters, Kinds
<1> QED
  BY <1>1, <1>2, <1>3, <1>4, <1>5, <1>6, <1>7, <1>8, <1>9, <1>10, <1>11, NextCases

\* Only a turn that has said nothing yet comes to hold the Chat.
LEMMA Entering ==
    ASSUME CourseTypes, Course, [Next]_vars, NEW t \in Turn, Sole(t)', ~Sole(t)
    PROVE  pc[t] = "idle" /\ chat' = chat
<1> USE DEF Sole, CourseTypes, Course, Hold, Owning, Setup, Writing, run, ctl, Move
<1>1. ASSUME NEW u \in Turn, Register(u) \/ Reserve(u)
      PROVE  pc[t] = "idle" /\ chat' = chat
  BY <1>1 DEF Register, Reserve
<1>2. ASSUME \A u \in Turn : ~Register(u) /\ ~Reserve(u)
      PROVE  lease' \in {lease, NoTurn} /\ writer' \in {writer, NoTurn}
  BY <1>2, NextCases DEF vars, Stop, ReadChat, StoreUser, Refuse, SetupStep,
     SetupStops, SetupFails, SetupAbort, Persist, LoopStops, SettleControls, SettleFails, Close,
     TaskAbort, ReserveFails, HandOff, WriterReady, WriterRefused, Finalize,
     FinalizeFails, Recovered, Fail, Conclude, Forward, LoopFails, AgentSettled, Respond,
     Submit, Enqueue, End
<1> QED
  BY <1>1, <1>2

LEMMA TranscriptStep ==
    ASSUME CourseTypes, ChatTypes, SteerTypes, Course, Outcomes, Transcript, [Next]_vars
    PROVE  Transcript'
<1>1. CASE chat' = chat
  <2>1. Last' /\ Between'
    BY <1>1 DEF Transcript, Last, Between
  <2>2. ASSUME NEW t \in Turn, Sole(t)', NEW i \in DOMAIN chat, NEW k \in DOMAIN chat,
               chat[i] = Msg(t, "user"), i <= k
        PROVE  chat[k].turn = t \/ chat[k].kind = "error"
    <3>1. CASE Sole(t)
      BY <2>2, <3>1 DEF Transcript, Alone
    <3>2. CASE ~Sole(t)
      <4>1. pc[t] = "idle"
        BY <2>2, <3>2, Entering
      <4>2. Msg(t, "user") \in Said
        BY <2>2 DEF Said
      <4> QED
        BY <4>1, <4>2 DEF Outcomes, Ended, Kinds
    <3> QED
      BY <3>1, <3>2
  <2>3. Alone'
    BY <1>1, <2>2 DEF Alone
  <2> QED
    BY <2>1, <2>3 DEF Transcript
<1>2. ASSUME NEW t \in Turn, NEW q \in Kinds, Utters(t, q)
      PROVE  Transcript'
  <2> DEFINE n == Len(chat)
  <2>1. /\ n \in Nat /\ DOMAIN chat = 1 .. n /\ DOMAIN chat' = 1 .. n + 1
        /\ chat'[n + 1] = Msg(t, q)
        /\ \A i \in 1 .. n : chat'[i] = chat[i] /\ chat[i] \in Message
    <3>1. Msg(t, q) \in Message
      BY DEF Msg, Message
    <3> QED
      BY <1>2, <3>1 DEF Utters, Store, ChatTypes
  <2> HIDE DEF n
  <2>2. chat'[n + 1].turn = t /\ chat'[n + 1].kind = q
    BY <2>1 DEF Msg
  <2>3. \A i \in 1 .. n : chat[i].kind \in Outcome => chat[i].turn # t
    <3>1. ASSUME NEW i \in 1 .. n, chat[i].kind \in Outcome, chat[i].turn = t
          PROVE  FALSE
      <4>1. chat[i] = Msg(t, chat[i].kind) /\ chat[i] \in Said
        BY <2>1, <3>1 DEF Message, Msg, Said
      <4> QED
        BY <1>2, <3>1, <4>1 DEF Utters
    <3> QED
      BY <3>1
  <2>4. Last'
    BY <2>1, <2>2, <2>3 DEF Transcript, Last
  <2>5. \A u \in Turn : Sole(u)' => Sole(u)
    <3>1. chat' # chat
      BY <2>1
    <3> QED
      BY <3>1, Entering
  <2>6. ASSUME NEW u \in Turn, Sole(u), q # "error"
        PROVE  u = t
    BY <1>2, <2>6 DEF Utters, Sole, Course, OneHolder, CourseTypes
  <2>7. Alone'
    <3> SUFFICES ASSUME NEW u \in Turn, Sole(u)', NEW i \in 1 .. n + 1, NEW k \in 1 .. n + 1,
                        chat'[i] = Msg(u, "user"), i <= k
                 PROVE  chat'[k].turn = u \/ chat'[k].kind = "error"
      BY <2>1 DEF Alone
    <3>1. CASE k = n + 1
      BY <2>2, <2>5, <2>6, <3>1
    <3>2. CASE k # n + 1
      <4>1. i \in 1 .. n /\ k \in 1 .. n
        BY <2>1, <3>2
      <4> QED
        BY <2>1, <2>5, <4>1 DEF Transcript, Alone
    <3> QED
      BY <3>1, <3>2
  <2>8. Between'
    <3> SUFFICES ASSUME NEW i \in 1 .. n + 1, NEW j \in 1 .. n + 1, NEW k \in 1 .. n + 1,
                        chat'[i].kind = "user", chat'[j].kind \in {"complete", "aborted"},
                        chat'[i].turn = chat'[j].turn, i <= k, k <= j
                 PROVE  chat'[k].turn = chat'[j].turn \/ chat'[k].kind = "error"
      BY <2>1 DEF Between
    <3>1. CASE j # n + 1
      <4>1. i \in 1 .. n /\ j \in 1 .. n /\ k \in 1 .. n
        BY <2>1, <3>1
      <4> QED
        BY <2>1, <4>1 DEF Transcript, Between
    <3>2. CASE j = n + 1
      <4>1. q # "error" /\ Sole(t) /\ q # "user"
        BY <1>2, <2>2, <3>2 DEF Utters
      <4>2. i # n + 1
        BY <2>2, <4>1
      <4>3. i \in 1 .. n /\ chat[i] = Msg(t, "user")
        <5>1. i \in 1 .. n
          BY <2>1, <4>2
        <5>2. chat[i].turn = t /\ chat[i].kind = "user" /\ chat[i] \in Message
          BY <2>1, <2>2, <3>2, <5>1
        <5> QED
          BY <5>1, <5>2 DEF Message, Msg
      <4>4. CASE k = n + 1
        BY <3>2, <4>4
      <4>5. CASE k # n + 1
        <5>1. k \in 1 .. n
          BY <2>1, <4>5
        <5>2. chat[k].turn = t \/ chat[k].kind = "error"
          BY <2>1, <4>1, <4>3, <5>1 DEF Transcript, Alone
        <5> QED
          BY <2>1, <2>2, <3>2, <5>1, <5>2
      <4> QED
        BY <4>4, <4>5
    <3> QED
      BY <3>1, <3>2
  <2> QED
    BY <2>4, <2>7, <2>8 DEF Transcript
<1> QED
  BY <1>1, <1>2, Utterance
-----------------------------------------------------------------------------
\* Most steps have nothing to do with instructions: they leave them alone, or
\* end the turn and with it whatever is left of them.
Mute == chat' = chat \/ \E u \in Turn, k \in Outcome \cup {"user"} : Store(Msg(u, k))

Passes ==
    /\ Mute /\ UNCHANGED ctl
    /\ \A u \in Turn :
         /\ pc'[u] \in Early \cup Agreeing => pc[u] \in Early \cup Agreeing
         /\ pc[u] \in Agreeing \cup {"closing"} => pc'[u] \in Agreeing \cup {"closing"}
         /\ "completed" \in flags'[u] => "completed" \in flags[u]

Stops(t) ==
    /\ Mute /\ UNCHANGED <<owner, hist, flags>>
    /\ pc' = [pc EXCEPT ![t] = "ended"]
    /\ steer' = Rejected(t, Open \ {"admitted"})
    /\ channel' = [channel EXCEPT ![t] = <<>>] /\ sent' = [sent EXCEPT ![t] = <<>>]

Steers(t) ==
    \/ Persist(t) \/ SettleControls(t) \/ SettleFails(t) \/ Close(t) \/ AgentSettled(t)
    \/ Forward(t) \/ \E s \in Steer : Respond(t, s) \/ Submit(s, t)

LEMMA Steering ==
    ASSUME CourseTypes, [Next]_vars
    PROVE  \/ Passes
           \/ \E t \in Turn : Stops(t) \/ Steers(t)
           \/ \E s \in Steer : Enqueue(s)
<1> USE DEF CourseTypes, Passes, Stops, Mute, Outcome, Early, Agreeing, Setup, Step, Owning,
        Flag,
            run, Move, Raise, Quiet, Fault
<1>1. ASSUME NEW t \in Turn, Register(t) \/ Stop(t) \/ ReadChat(t) \/ StoreUser(t)
      PROVE  Passes
  BY <1>1 DEF Register, Stop, ReadChat, StoreUser
<1>2. ASSUME NEW t \in Turn, SetupStep(t) \/ SetupStops(t) \/ SetupFails(t)
      PROVE  Passes
  BY <1>2 DEF SetupStep, SetupStops, SetupFails
<1>3. ASSUME NEW t \in Turn, Refuse(t) \/ SetupAbort(t)
      PROVE  Stops(t)
  BY <1>3 DEF Refuse, SetupAbort, End
<1>4. ASSUME NEW t \in Turn, LoopStops(t) \/ LoopFails(t)
      PROVE  Passes
  BY <1>4 DEF LoopStops, LoopFails
<1>5. ASSUME NEW t \in Turn, TaskAbort(t)
      PROVE  Passes \/ Stops(t)
  BY <1>5 DEF TaskAbort, End
<1>6. ASSUME NEW t \in Turn, Reserve(t) \/ ReserveFails(t) \/ HandOff(t)
      PROVE  Passes
  BY <1>6 DEF Reserve, ReserveFails, HandOff
<1>7. ASSUME NEW t \in Turn, WriterReady(t) \/ WriterRefused(t)
      PROVE  Passes
  BY <1>7 DEF WriterReady, WriterRefused
<1>8. ASSUME NEW t \in Turn, Finalize(t) \/ FinalizeFails(t)
      PROVE  Passes \/ Stops(t)
  BY <1>8 DEF Finalize, FinalizeFails, End
<1>9. ASSUME NEW t \in Turn, Recovered(t)
      PROVE  Passes \/ Stops(t)
  BY <1>9 DEF Recovered, End
<1>10. ASSUME NEW t \in Turn, Fail(t)
       PROVE  Passes
  BY <1>10 DEF Fail
<1>11. ASSUME NEW t \in Turn,
              Conclude(t, "error_write", "error") \/ Conclude(t, "stop_write", "aborted")
       PROVE  Stops(t)
  BY <1>11 DEF Conclude, End
<1>12. CASE UNCHANGED vars
  BY <1>12 DEF vars
<1> HIDE DEF Passes, Stops
<1> QED
  BY <1>1, <1>2, <1>3, <1>4, <1>5, <1>6, <1>7, <1>8, <1>9, <1>10, <1>11, <1>12, NextCases
     DEF Steers

LEMMA MuteSays ==
    ASSUME ChatTypes, Mute
    PROVE  \A u : \A s \in Steer : Msg(u, s) \in Said' <=> Msg(u, s) \in Said
<1>1. \A s \in Steer : s \notin Outcome \cup {"user"}
  BY SteerAssumption DEF Outcome
<1>2. Said' = Said \/ \E u \in Turn, k \in Outcome \cup {"user"} : Said' = Said \cup {Msg(u, k)}
  BY Stores DEF Mute, Kinds
<1> QED
  BY <1>1, <1>2, SameMsg

LEMMA SeqUpdate ==
    ASSUME NEW f \in [Turn -> Seq(Steer)], NEW t \in Turn
    PROVE  /\ [f EXCEPT ![t] = <<>>] \in [Turn -> Seq(Steer)]
           /\ \A s \in Steer : [f EXCEPT ![t] = Append(@, s)] \in [Turn -> Seq(Steer)]
           /\ f[t] # <<>> => /\ Head(f[t]) \in Steer
                            /\ [f EXCEPT ![t] = Tail(@)] \in [Turn -> Seq(Steer)]
<1>1. ASSUME NEW q \in Seq(Steer)
      PROVE  [f EXCEPT ![t] = q] \in [Turn -> Seq(Steer)]
  OBVIOUS
<1>2. f[t] \in Seq(Steer) /\ <<>> \in Seq(Steer)
  OBVIOUS
<1>3. \A s \in Steer : Append(f[t], s) \in Seq(Steer)
  BY <1>2
<1>4. f[t] # <<>> => Head(f[t]) \in Steer /\ Tail(f[t]) \in Seq(Steer)
  BY <1>2
<1> QED
  BY <1>1, <1>2, <1>3, <1>4

LEMMA SteerUpdate ==
    ASSUME NEW f \in [Steer -> Status], NEW s \in Steer, NEW k \in Status
    PROVE  [f EXCEPT ![s] = k] \in [Steer -> Status]
  OBVIOUS

LEMMA SteerTypesStep ==
    ASSUME CourseTypes, SteerTypes, [Next]_vars
    PROVE  SteerTypes'
<1>1. CASE Passes
  BY <1>1 DEF Passes, SteerTypes, ctl, hist
<1>2. \A t, st : Rejected(t, st) \in [Steer -> Status]
  BY DEF Rejected, SteerTypes, Status
<1>3. \A t : RejectQueued(t) /\ t \in Turn =>
        steer' \in [Steer -> Status] /\ channel' \in [Turn -> Seq(Steer)]
  BY <1>2, SeqUpdate DEF RejectQueued, SteerTypes
<1>4. ASSUME NEW t \in Turn, Stops(t)
      PROVE  SteerTypes'
  BY <1>2, <1>4, SeqUpdate DEF Stops, SteerTypes, hist
<1>5. ASSUME NEW t \in Turn, Persist(t)
      PROVE  SteerTypes'
  <2>1. sent[t] # <<>> /\ sent' = [sent EXCEPT ![t] = Tail(@)] /\ UNCHANGED <<owner, order, taken>>
    BY <1>5 DEF Persist, Due, hist
  <2>2. Head(sent[t]) \in Steer /\ sent' \in [Turn -> Seq(Steer)]
    BY <2>1, SeqUpdate DEF SteerTypes
  <2>3. channel' = channel \/ channel' = [channel EXCEPT ![t] = <<>>]
    BY <1>5 DEF Persist
  <2>4. channel' \in [Turn -> Seq(Steer)]
    <3>1. channel \in [Turn -> Seq(Steer)] /\ [channel EXCEPT ![t] = <<>>] \in [Turn -> Seq(Steer)]
      BY SeqUpdate DEF SteerTypes
    <3> QED
      BY <2>3, <3>1, Zenon
  <2>5. \/ \E k \in Status : steer' = [steer EXCEPT ![Head(sent[t])] = k]
        \/ steer' = [Rejected(t, {"queued"}) EXCEPT ![Head(sent[t])] = "rejected"]
    BY <1>5 DEF Persist, Status
  <2>6. steer' \in [Steer -> Status]
    <3>1. \A k \in Status : [steer EXCEPT ![Head(sent[t])] = k] \in [Steer -> Status]
      BY <2>2, SteerUpdate DEF SteerTypes
    <3>2. [Rejected(t, {"queued"}) EXCEPT ![Head(sent[t])] = "rejected"] \in [Steer -> Status]
      BY <1>2, <2>2, SteerUpdate DEF Status
    <3> QED
      BY <2>5, <3>1, <3>2, Zenon
  <2> QED
    BY <2>1, <2>2, <2>4, <2>6 DEF SteerTypes
<1>6. ASSUME NEW t \in Turn, SettleControls(t) \/ SettleFails(t)
      PROVE  SteerTypes'
  BY <1>3, <1>6 DEF SettleControls, SettleFails, SteerTypes, hist
<1>7. ASSUME NEW t \in Turn, AgentSettled(t)
      PROVE  SteerTypes'
  BY <1>3, <1>7 DEF AgentSettled, SteerTypes, hist
<1>8. ASSUME NEW t \in Turn, Close(t)
      PROVE  SteerTypes'
  BY <1>2, <1>8, SeqUpdate DEF Close, SteerTypes, hist
<1>9. ASSUME NEW t \in Turn, Forward(t)
      PROVE  SteerTypes'
  <2>1. /\ channel[t] # <<>> /\ channel' = [channel EXCEPT ![t] = Tail(@)]
        /\ UNCHANGED <<owner, taken>>
    BY <1>9 DEF Forward
  <2>2. Head(channel[t]) \in Steer /\ channel' \in [Turn -> Seq(Steer)]
    BY <2>1, SeqUpdate DEF SteerTypes
  <2>3. /\ sent' = sent \/ sent' = [sent EXCEPT ![t] = Append(@, Head(channel[t]))]
        /\ order' = order \/ order' = Append(order, Head(channel[t]))
        /\ \E k \in {"sent", "rejected"} : steer' = [steer EXCEPT ![Head(channel[t])] = k]
    BY <1>9 DEF Forward
  <2>4. sent' \in [Turn -> Seq(Steer)]
    <3>1. sent \in [Turn -> Seq(Steer)]
          /\ [sent EXCEPT ![t] = Append(@, Head(channel[t]))] \in [Turn -> Seq(Steer)]
      BY <2>2, SeqUpdate DEF SteerTypes
    <3> QED
      BY <2>3, <3>1, Zenon
  <2>5. order' \in Seq(Steer)
    <3>1. order \in Seq(Steer) /\ Append(order, Head(channel[t])) \in Seq(Steer)
      BY <2>2 DEF SteerTypes
    <3> QED
      BY <2>3, <3>1, Zenon
  <2>6. steer' \in [Steer -> Status]
    BY <2>2, <2>3, SteerUpdate DEF SteerTypes, Status
  <2> QED
    BY <2>1, <2>2, <2>4, <2>5, <2>6 DEF SteerTypes
<1>10. ASSUME NEW t \in Turn, NEW s \in Steer, Respond(t, s) \/ Submit(s, t)
       PROVE  SteerTypes'
  BY <1>10 DEF Respond, Submit, SteerTypes, Status, hist
<1>11. ASSUME NEW s \in Steer, Enqueue(s)
       PROVE  SteerTypes'
  <2>1. /\ UNCHANGED <<owner, order, taken, sent>>
        /\ \E k \in {"queued", "rejected"} : steer' = [steer EXCEPT ![s] = k]
        /\ channel' = channel \/ channel' = [channel EXCEPT ![owner[s]] = Append(@, s)]
    BY <1>11 DEF Enqueue, hist
  <2>2. steer' \in [Steer -> Status]
    BY <2>1, SteerUpdate DEF SteerTypes, Status
  <2>3. channel' \in [Turn -> Seq(Steer)]
    <3>1. CASE owner[s] \in Turn
      <4>1. channel \in [Turn -> Seq(Steer)]
            /\ [channel EXCEPT ![owner[s]] = Append(@, s)] \in [Turn -> Seq(Steer)]
        BY <3>1, SeqUpdate DEF SteerTypes
      <4> QED
        BY <2>1, <4>1, Zenon
    <3>2. CASE owner[s] \notin Turn
      BY <2>1, <3>2 DEF SteerTypes
    <3> QED
      BY <3>1, <3>2
  <2> QED
    BY <2>1, <2>2, <2>3 DEF SteerTypes
<1> QED
  BY <1>1, <1>4, <1>5, <1>6, <1>7, <1>8, <1>9, <1>10, <1>11, Steering DEF Steers
-----------------------------------------------------------------------------
LEMMA TailOf ==
    ASSUME NEW q \in Seq(Steer), q # <<>>
    PROVE  /\ Head(q) = q[1] /\ 1 \in DOMAIN q
           /\ \A i \in DOMAIN Tail(q) : i + 1 \in DOMAIN q /\ i + 1 # 1 /\ Tail(q)[i] = q[i + 1]
           /\ \A i \in DOMAIN q \ {1} : i - 1 \in DOMAIN Tail(q) /\ Tail(q)[i - 1] = q[i]
           /\ DOMAIN q \subseteq Nat /\ DOMAIN Tail(q) \subseteq Nat
  OBVIOUS

LEMMA AppendOf ==
    ASSUME NEW q \in Seq(Steer), NEW s \in Steer
    PROVE  /\ DOMAIN Append(q, s) = DOMAIN q \cup {Len(q) + 1} /\ Len(q) + 1 \notin DOMAIN q
           /\ Append(q, s)[Len(q) + 1] = s /\ \A i \in DOMAIN q : Append(q, s)[i] = q[i]
           /\ \A i \in DOMAIN q : i \in Nat /\ i < Len(q) + 1
           /\ Len(q) \in Nat
  OBVIOUS

\* A turn that leaves its instructions alone, and one that ends.
LEMMA PlacesKept ==
    ASSUME CourseTypes, ChatTypes, SteerTypes, Places, Passes
    PROVE  Places'
<1>1. \A u : \A s \in Steer : Msg(u, s) \in Said' <=> Msg(u, s) \in Said
  BY MuteSays DEF Passes
<1>2. UNCHANGED <<owner, steer, channel, sent, order, taken>>
  BY DEF Passes, ctl, hist
<1>3. ASSUME NEW t \in Turn
      PROVE  Line(t)'
  BY <1>2 DEF Places, Line, Passes
<1>4. ASSUME NEW s \in Steer
      PROVE  Place(s)'
  BY <1>1, <1>2 DEF Places, Place, Passes
<1> QED
  BY <1>3, <1>4 DEF Places

LEMMA PlacesLeft ==
    ASSUME CourseTypes, ChatTypes, SteerTypes, Places, NEW t \in Turn, Stops(t)
    PROVE  Places'
<1>1. \A u : \A s \in Steer : Msg(u, s) \in Said' <=> Msg(u, s) \in Said
  BY MuteSays DEF Stops
<1>2. UNCHANGED <<owner, order, taken, flags>>
  BY DEF Stops, hist
<1>3. \A s \in Steer :
        \/ steer'[s] = steer[s] /\ (owner[s] = t => steer[s] \notin Waiting \cup {"queued"})
        \/ steer'[s] = "rejected" /\ owner[s] = t /\ steer[s] \in Waiting \cup {"queued"}
  BY DEF Stops, Rejected, Open, Waiting, SteerTypes, Status
<1>4. /\ pc'[t] = "ended" /\ channel'[t] = <<>> /\ sent'[t] = <<>>
      /\ \A u \in Turn \ {t} : pc'[u] = pc[u] /\ channel'[u] = channel[u] /\ sent'[u] = sent[u]
  BY DEF Stops, CourseTypes, SteerTypes
<1>5. ASSUME NEW u \in Turn
      PROVE  Line(u)'
  <2>1. CASE u = t
    BY <1>4, <2>1 DEF Line
  <2>2. CASE u # t
    <3>1. \A i \in DOMAIN channel[u] : channel[u][i] \in Steer
      BY DEF SteerTypes
    <3>2. \A i \in DOMAIN sent[u] : sent[u][i] \in Steer
      BY DEF SteerTypes
    <3>3. Line(u)
      BY DEF Places
    <3> QED
      BY <1>2, <1>3, <1>4, <2>2, <3>1, <3>2, <3>3 DEF Line
  <2> QED
    BY <2>1, <2>2
<1>6. ASSUME NEW s \in Steer
      PROVE  Place(s)'
  <2>1. CASE owner[s] = t
    BY <1>1, <1>2, <1>3, <1>4, <2>1 DEF Places, Place, Early, Agreeing, Setup, Unsent, Waiting
  <2>2. CASE owner[s] # t
    BY <1>1, <1>2, <1>3, <1>4, <2>2 DEF Places, Place
  <2> QED
    BY <2>1, <2>2
<1> QED
  BY <1>5, <1>6 DEF Places

\* A turn that goes on to its end with or without its queue: an answer is
\* complete only when nothing is left with the agent.
LEMMA PlacesDrained ==
    ASSUME CourseTypes, ChatTypes, SteerTypes, Places, NEW t \in Turn, pc[t] \in Agreeing,
           NEW p \in {"settling", "closing"}, pc' = [pc EXCEPT ![t] = p],
           NEW f, flags' = [flags EXCEPT ![t] = @ \cup f], "completed" \in f => sent[t] = <<>>,
           UNCHANGED <<chat, owner, sent, order, taken>>,
           RejectQueued(t) \/ UNCHANGED <<steer, channel>>
    PROVE  Places'
<1>1. Said' = Said
  BY DEF Said
<1>2. \A s \in Steer :
        \/ steer'[s] = steer[s]
        \/ steer'[s] = "rejected" /\ owner[s] = t /\ steer[s] = "queued"
  BY DEF RejectQueued, Rejected, SteerTypes
<1>3. /\ (channel'[t] = channel[t] /\ steer' = steer) \/ channel'[t] = <<>>
      /\ \A u \in Turn \ {t} : channel'[u] = channel[u]
  BY DEF RejectQueued, SteerTypes
<1>4. /\ pc'[t] = p /\ flags'[t] = flags[t] \cup f
      /\ \A u \in Turn \ {t} : pc'[u] = pc[u] /\ flags'[u] = flags[u]
  BY DEF CourseTypes
<1>5. ASSUME NEW u \in Turn
      PROVE  Line(u)'
  <2>1. \A i \in DOMAIN channel[u] : channel[u][i] \in Steer
    BY DEF SteerTypes
  <2>2. \A i \in DOMAIN sent[u] : sent[u][i] \in Steer
    BY DEF SteerTypes
  <2>3. Line(u)
    BY DEF Places
  <2>4. CASE u # t
    BY <1>2, <1>3, <1>4, <2>1, <2>2, <2>3, <2>4 DEF Line, Waiting
  <2>5. CASE u = t
    BY <1>2, <1>3, <1>4, <2>1, <2>2, <2>3, <2>5 DEF Line, Waiting, Agreeing
  <2> QED
    BY <2>4, <2>5
<1>6. ASSUME NEW s \in Steer
      PROVE  Place(s)'
  <2>1. Place(s)
    BY DEF Places
  <2>2. CASE owner[s] # t
    BY <1>1, <1>2, <1>4, <2>1, <2>2 DEF Place
  <2>3. CASE owner[s] = t
    BY <1>1, <1>2, <1>4, <2>1, <2>3 DEF Place, Unsent, Waiting, Agreeing
  <2> QED
    BY <2>2, <2>3
<1> QED
  BY <1>5, <1>6 DEF Places

\* Close takes from the agent what it has not settled.
LEMMA PlacesClosed ==
    ASSUME CourseTypes, ChatTypes, SteerTypes, Course, Places, NEW t \in Turn, Close(t)
    PROVE  Places'
<1>1. Said' = Said /\ UNCHANGED <<owner, channel, order, taken>>
  BY DEF Close, Said, hist
<1>2. \A s \in Steer :
        \/ steer'[s] = steer[s] /\ (owner[s] = t => steer[s] \notin Waiting)
        \/ steer'[s] = "rejected" /\ owner[s] = t /\ steer[s] \in Waiting
  BY DEF Close, Rejected, SteerTypes, Waiting
<1>3. /\ pc[t] = "closing" /\ pc'[t] \in {"task_abort", "finalizing", "failing"}
      /\ sent'[t] = <<>>
      /\ \A u \in Turn \ {t} : pc'[u] = pc[u] /\ sent'[u] = sent[u]
  BY DEF Close, CourseTypes, SteerTypes, Move
<1>4. \A u \in Turn : "completed" \in flags'[u] => "completed" \in flags[u]
  BY DEF Close, CourseTypes, Raise
<1>5. ASSUME NEW u \in Turn
      PROVE  Line(u)'
  <2>1. \A i \in DOMAIN channel[u] : channel[u][i] \in Steer
    BY DEF SteerTypes
  <2>2. \A i \in DOMAIN sent[u] : sent[u][i] \in Steer
    BY DEF SteerTypes
  <2>3. Line(u)
    BY DEF Places
  <2>4. CASE u # t
    BY <1>1, <1>2, <1>3, <2>1, <2>2, <2>3, <2>4 DEF Line
  <2>5. CASE u = t
    BY <1>1, <1>2, <1>3, <2>1, <2>3, <2>5 DEF Line, Waiting
  <2> QED
    BY <2>4, <2>5
<1>6. ASSUME NEW s \in Steer
      PROVE  Place(s)'
  <2>1. Place(s)
    BY DEF Places
  <2>2. CASE owner[s] # t
    BY <1>1, <1>2, <1>3, <1>4, <2>1, <2>2 DEF Place
  <2>3. CASE owner[s] = t
    BY <1>1, <1>2, <1>3, <1>4, <2>1, <2>3 DEF Place, Unsent, Waiting, Agreeing, Early, Setup
  <2> QED
    BY <2>2, <2>3
<1> QED
  BY <1>5, <1>6 DEF Places

\* A step about one instruction, which stays with its turn.
LEMMA PlacesPersisted ==
    ASSUME CourseTypes, ChatTypes, SteerTypes, Course, Places, NEW t \in Turn, Persist(t)
    PROVE  Places'
<1> DEFINE s == Head(sent[t])
<1>1. s \in Steer /\ sent[t] # <<>> /\ sent[t] \in Seq(Steer) /\ pc[t] \in Agreeing
  BY PersistSays DEF Persist, Due, SteerTypes, Agreeing
<1>2. /\ s = sent[t][1] /\ 1 \in DOMAIN sent[t] /\ owner[s] = t /\ steer[s] \in Waiting
      /\ \A i \in DOMAIN sent[t] \ {1} : sent[t][i] # s
  BY <1>1, TailOf DEF Places, Line
<1>3. /\ UNCHANGED <<owner, order, taken>> /\ sent'[t] = Tail(sent[t])
      /\ \A u \in Turn \ {t} : sent'[u] = sent[u] /\ channel'[u] = channel[u]
      /\ channel'[t] = channel[t] \/ channel'[t] = <<>>
  BY DEF Persist, SteerTypes, hist
<1>4. /\ steer[s] \in {"acked", "nacked"} /\ steer'[s] \in {"accepted", "rejected"}
      /\ steer'[s] = "accepted" => Msg(t, s) \in Said'
      /\ steer'[s] = "rejected" /\ steer[s] = "acked" => pc'[t] = "closing"
  <2>1. /\ steer[s] \in {"acked", "nacked"} /\ steer'[s] \in {"accepted", "rejected"}
        /\ steer'[s] = "accepted" => Store(Msg(t, s))
        /\ steer'[s] = "rejected" /\ steer[s] = "acked" => pc'[t] = "closing"
    <3>1. \/ steer[s] = "nacked" /\ steer' = [steer EXCEPT ![s] = "rejected"]
          \/ /\ steer[s] = "acked" /\ steer' = [steer EXCEPT ![s] = "accepted"]
             /\ Store(Msg(t, s))
          \/ /\ steer[s] = "acked" /\ pc' = [pc EXCEPT ![t] = "closing"]
             /\ \/ steer' = [steer EXCEPT ![s] = "rejected"]
                \/ steer' = [Rejected(t, {"queued"}) EXCEPT ![s] = "rejected"]
      BY DEF Persist
    <3>2. DOMAIN Rejected(t, {"queued"}) = Steer /\ DOMAIN steer = Steer /\ DOMAIN pc = Turn
      BY DEF Rejected, SteerTypes, CourseTypes
    <3> QED
      BY <1>1, <3>1, <3>2
  <2> QED
    BY <1>1, <2>1, Stores DEF Kinds
<1>5. \A r \in Steer \ {s} :
        \/ steer'[r] = steer[r]
        \/ steer'[r] = "rejected" /\ owner[r] = t /\ steer[r] = "queued" /\ channel'[t] = <<>>
  BY <1>1 DEF Persist, Rejected, SteerTypes
<1>6. /\ \A u : \A r \in Steer \ {s} : Msg(u, r) \in Said' <=> Msg(u, r) \in Said
      /\ \A u : \A r \in Steer : Msg(u, r) \in Said => Msg(u, r) \in Said'
  <2>1. Said' = Said \/ Said' = Said \cup {Msg(t, s)}
    BY <1>1, PersistSays, Stores DEF Kinds
  <2> QED
    BY <2>1, SameMsg
<1>7. /\ pc'[t] = pc[t] \/ pc'[t] = "closing"
      /\ "completed" \notin flags[t] /\ "completed" \notin flags'[t]
      /\ \A u \in Turn \ {t} : pc'[u] = pc[u] /\ flags'[u] = flags[u]
  <2>1. flags[t] \subseteq {"claimed"}
    BY <1>1 DEF Course, Boundary, Agreeing
  <2> QED
    BY <2>1 DEF Persist, CourseTypes, Raise
<1> HIDE DEF s
<1>8. ASSUME NEW u \in Turn
      PROVE  Line(u)'
  <2>1. \A i \in DOMAIN channel[u] : channel[u][i] \in Steer
    BY DEF SteerTypes
  <2>2. \A i \in DOMAIN sent[u] : sent[u][i] \in Steer
    BY DEF SteerTypes
  <2>3. Line(u)
    BY DEF Places
  <2>4. CASE u # t
    BY <1>2, <1>3, <1>5, <1>7, <2>1, <2>2, <2>3, <2>4 DEF Line, Waiting
  <2>5. CASE u = t
    <3>1. \A i \in DOMAIN sent'[t] :
            /\ i + 1 \in DOMAIN sent[t] /\ i + 1 # 1 /\ sent'[t][i] = sent[t][i + 1]
            /\ i \in Nat
      BY <1>1, <1>3, TailOf
    <3>2. \A i \in DOMAIN channel'[t] : channel'[t] = channel[t]
      BY <1>3
    <3>3. \A i \in DOMAIN channel'[t] :
            steer'[channel'[t][i]] = "queued" /\ owner[channel'[t][i]] = t
      BY <1>2, <1>3, <1>5, <2>1, <2>3, <2>5, <3>2 DEF Line, Waiting
    <3>7. \A i, j \in DOMAIN channel'[t] : channel'[t][i] = channel'[t][j] => i = j
      BY <2>3, <2>5, <3>2 DEF Line
    <3>8. owner' = owner
      BY <1>3
    <3>4. \A i \in DOMAIN sent'[t] : steer'[sent'[t][i]] \in Waiting /\ owner[sent'[t][i]] = t
      BY <1>2, <1>5, <2>2, <2>3, <2>5, <3>1 DEF Line, Waiting
    <3>5. \A i, j \in DOMAIN sent'[t] : sent'[t][i] = sent'[t][j] => i = j
      BY <2>3, <2>5, <3>1 DEF Line
    <3>6. pc'[t] \in Agreeing \cup {"closing"}
      BY <1>1, <1>7
    <3> QED
      BY <2>5, <3>3, <3>4, <3>5, <3>6, <3>7, <3>8 DEF Line
  <2> QED
    BY <2>4, <2>5
<1>9. ASSUME NEW r \in Steer
      PROVE  Place(r)'
  <2>1. Place(r)
    BY DEF Places
  <2>2. CASE r = s
    BY <1>1, <1>2, <1>3, <1>4, <1>7, <2>1, <2>2 DEF Place, Unsent, Waiting, Agreeing, Early,
       Setup
  <2>3. CASE r # s /\ owner[r] # t
    BY <1>3, <1>5, <1>6, <1>7, <2>1, <2>3 DEF Place
  <2>4. CASE r # s /\ owner[r] = t
    <3>1. steer'[r] \in Waiting /\ pc'[t] \in Agreeing =>
            \E i \in DOMAIN sent'[t] : sent'[t][i] = r
      <4>1. steer'[r] \in Waiting => steer[r] \in Waiting
        BY <1>5, <2>4 DEF Waiting
      <4>2. steer[r] \in Waiting => \E i \in DOMAIN sent[t] : sent[t][i] = r
        BY <1>1, <2>1, <2>4 DEF Place
      <4>3. ASSUME NEW i \in DOMAIN sent[t], sent[t][i] = r
            PROVE  \E j \in DOMAIN sent'[t] : sent'[t][j] = r
        <5>1. i # 1
          BY <1>2, <2>4, <4>3
        <5>2. i - 1 \in DOMAIN Tail(sent[t]) /\ Tail(sent[t])[i - 1] = sent[t][i]
          BY <1>1, <5>1, TailOf
        <5> QED
          BY <1>3, <4>3, <5>2
      <4> QED
        BY <4>1, <4>2, <4>3
    <3> QED
      BY <1>1, <1>3, <1>5, <1>6, <1>7, <2>1, <2>4, <3>1
         DEF Place, Unsent, Waiting, Agreeing, Early, Setup
  <2> QED
    BY <2>2, <2>3, <2>4
<1> QED
  BY <1>8, <1>9 DEF Places

LEMMA PlacesForwarded ==
    ASSUME CourseTypes, ChatTypes, SteerTypes, Places, NEW t \in Turn, Forward(t)
    PROVE  Places'
<1> DEFINE s == Head(channel[t])
<1>1. s \in Steer /\ channel[t] # <<>> /\ channel[t] \in Seq(Steer) /\ sent[t] \in Seq(Steer)
  BY SeqUpdate DEF Forward, SteerTypes
<1>2. /\ s = channel[t][1] /\ 1 \in DOMAIN channel[t] /\ owner[s] = t /\ steer[s] = "queued"
      /\ \A i \in DOMAIN channel[t] \ {1} : channel[t][i] # s
  BY <1>1, TailOf DEF Places, Line
<1>3. /\ UNCHANGED <<owner, taken, pc, flags>> /\ Said' = Said /\ pc[t] = "loop"
      /\ channel'[t] = Tail(channel[t])
      /\ \A u \in Turn \ {t} : sent'[u] = sent[u] /\ channel'[u] = channel[u]
      /\ \A r \in Steer \ {s} : steer'[r] = steer[r]
  BY <1>1 DEF Forward, SteerTypes, Said
<1>4. \/ /\ steer'[s] = "sent" /\ sent'[t] = Append(sent[t], s) /\ order' = Append(order, s)
      \/ steer'[s] = "rejected" /\ sent' = sent /\ order' = order
  BY <1>1 DEF Forward, SteerTypes
<1> HIDE DEF s
<1>5. /\ \A i \in DOMAIN sent'[t] :
           \/ i \in DOMAIN sent[t] /\ sent'[t][i] = sent[t][i]
           \/ sent'[t][i] = s /\ steer'[s] = "sent" /\ i = Len(sent[t]) + 1
      /\ \A i \in DOMAIN sent[t] : i \in DOMAIN sent'[t] /\ sent'[t][i] = sent[t][i]
  <2>1. CASE sent' = sent
    BY <2>1
  <2>2. CASE steer'[s] = "sent" /\ sent'[t] = Append(sent[t], s)
    BY <1>1, <2>2, AppendOf
  <2> QED
    BY <1>4, <2>1, <2>2
<1>7. \A i \in DOMAIN order' : order'[i] = s \/ (i \in DOMAIN order /\ order'[i] = order[i])
  <2>1. CASE order' = order
    BY <2>1
  <2>2. CASE order' = Append(order, s)
    BY <1>1, <2>2, AppendOf DEF SteerTypes
  <2> QED
    BY <1>4, <2>1, <2>2
<1>8. ASSUME NEW u \in Turn
      PROVE  Line(u)'
  <2>1. \A i \in DOMAIN channel[u] : channel[u][i] \in Steer
    BY DEF SteerTypes
  <2>2. \A i \in DOMAIN sent[u] : sent[u][i] \in Steer
    BY DEF SteerTypes
  <2>3. Line(u)
    BY DEF Places
  <2>4. CASE u # t
    BY <1>2, <1>3, <2>1, <2>2, <2>3, <2>4 DEF Line, Waiting
  <2>5. CASE u = t
    <3>1. \A i \in DOMAIN channel'[t] :
            /\ i + 1 \in DOMAIN channel[t] /\ i + 1 # 1
            /\ channel'[t][i] = channel[t][i + 1] /\ i \in Nat
      BY <1>1, <1>3, TailOf
    <3>2. \A i \in DOMAIN channel'[t] :
            steer'[channel'[t][i]] = "queued" /\ owner'[channel'[t][i]] = t
      BY <1>2, <1>3, <2>1, <2>3, <2>5, <3>1 DEF Line
    <3>3. \A i, j \in DOMAIN channel'[t] : channel'[t][i] = channel'[t][j] => i = j
      BY <2>3, <2>5, <3>1 DEF Line
    <3>4. \A i \in DOMAIN sent[t] : sent[t][i] # s
      BY <1>2, <2>3, <2>5 DEF Line, Waiting
    <3>5. \A i \in DOMAIN sent'[t] : steer'[sent'[t][i]] \in Waiting /\ owner'[sent'[t][i]] = t
      BY <1>2, <1>3, <1>5, <2>2, <2>3, <2>5, <3>4 DEF Line, Waiting
    <3>6. \A i, j \in DOMAIN sent'[t] : sent'[t][i] = sent'[t][j] => i = j
      BY <1>5, <2>3, <2>5, <3>4 DEF Line
    <3> QED
      BY <1>3, <2>5, <3>2, <3>3, <3>5, <3>6 DEF Line, Agreeing
  <2> QED
    BY <2>4, <2>5
<1>9. ASSUME NEW r \in Steer
      PROVE  Place(r)'
  <2>1. Place(r)
    BY DEF Places
  <2>2. CASE r = s
    <3>1. steer'[s] = "sent" => \E i \in DOMAIN sent'[t] : sent'[t][i] = s
      BY <1>1, <1>4, AppendOf
    <3>2. s \notin taken /\ steer'[s] \in {"sent", "rejected"}
      BY <1>2, <1>4, <2>1, <2>2 DEF Place, Unsent
    <3> QED
      BY <1>2, <1>3, <2>1, <2>2, <3>1, <3>2 DEF Place, Unsent, Waiting
  <2>3. CASE r # s
    <3>1. \A u \in Turn : \A i \in DOMAIN sent[u] :
            sent[u][i] = r => i \in DOMAIN sent'[u] /\ sent'[u][i] = r
      BY <1>3, <1>5
    <3>2. \A i \in DOMAIN order' : order'[i] = r => i \in DOMAIN order /\ order[i] = r
      BY <1>7, <2>3
    <3> QED
      BY <1>3, <2>1, <2>3, <3>1, <3>2 DEF Place
  <2> QED
    BY <2>2, <2>3
<1> QED
  BY <1>8, <1>9 DEF Places

LEMMA PlacesMarked ==
    ASSUME CourseTypes, ChatTypes, SteerTypes, Course, Places, NEW t \in Turn, NEW s \in Steer,
           Respond(t, s) \/ Submit(s, t)
    PROVE  Places'
<1>1. /\ UNCHANGED <<pc, flags, channel, sent, order>> /\ Said' = Said
      /\ \A r \in Steer \ {s} :
           steer'[r] = steer[r] /\ owner'[r] = owner[r] /\ (r \in taken' <=> r \in taken)
  BY DEF Respond, Submit, SteerTypes, Said, hist
<1>2. \/ /\ steer[s] = "sent" /\ owner[s] = t /\ owner'[s] = t /\ pc[t] \in Agreeing
         /\ steer'[s] \in {"acked", "nacked"} /\ (steer'[s] = "nacked" => taken' = taken)
      \/ steer[s] = "idle" /\ steer'[s] = "admitted" /\ owner'[s] = t /\ taken' = taken
  BY DEF Respond, Submit, SteerTypes, Agreeing, hist
<1>3. ASSUME NEW u \in Turn
      PROVE  Line(u)'
  <2>1. \A i \in DOMAIN channel[u] : channel[u][i] \in Steer
    BY DEF SteerTypes
  <2>2. \A i \in DOMAIN sent[u] : sent[u][i] \in Steer
    BY DEF SteerTypes
  <2>3. Line(u)
    BY DEF Places
  <2>4. \A i \in DOMAIN channel[u] : channel[u][i] # s
    BY <1>2, <2>3 DEF Line
  <2>5. \A i \in DOMAIN sent[u] :
          steer'[sent[u][i]] \in Waiting /\ owner'[sent[u][i]] = u
    BY <1>1, <1>2, <2>2, <2>3 DEF Line, Waiting
  <2> QED
    BY <1>1, <2>1, <2>3, <2>4, <2>5 DEF Line
<1>4. ASSUME NEW r \in Steer
      PROVE  Place(r)'
  <2>1. Place(r)
    BY DEF Places
  <2>2. CASE r # s
    BY <1>1, <2>1, <2>2 DEF Place
  <2>3. CASE r = s /\ steer[s] = "idle"
    BY <1>1, <1>2, <2>1, <2>3 DEF Place, Unsent, Waiting
  <2>4. CASE r = s /\ steer[s] = "sent"
    <3>1. "completed" \notin flags[t]
      BY <1>2, <2>4 DEF Course, Boundary, Agreeing
    <3> QED
      BY <1>1, <1>2, <2>1, <2>4, <3>1 DEF Place, Unsent, Waiting
  <2> QED
    BY <1>2, <2>2, <2>3, <2>4
<1> QED
  BY <1>3, <1>4 DEF Places

LEMMA PlacesQueued ==
    ASSUME CourseTypes, ChatTypes, SteerTypes, Places, NEW s \in Steer, Enqueue(s)
    PROVE  Places'
<1>1. owner[s] \in Turn /\ Place(s)
  BY DEF Enqueue, Places, Place
<1> DEFINE t == owner[s]
<1>2. /\ UNCHANGED <<owner, pc, flags, sent, order, taken>> /\ Said' = Said
      /\ steer[s] = "admitted" /\ \A r \in Steer \ {s} : steer'[r] = steer[r]
      /\ \A u \in Turn \ {t} : channel'[u] = channel[u]
  BY <1>1 DEF Enqueue, SteerTypes, Said, hist
<1>3. \/ steer'[s] = "rejected" /\ pc[t] = "ended" /\ channel' = channel
      \/ steer'[s] = "queued" /\ channel'[t] = Append(channel[t], s)
  BY <1>1 DEF Enqueue, SteerTypes
<1>4. channel[t] \in Seq(Steer)
  BY <1>1 DEF SteerTypes
<1>5. t = owner[s]
  OBVIOUS
<1> HIDE DEF t
<1>6. ASSUME NEW u \in Turn
      PROVE  Line(u)'
  <2>1. \A i \in DOMAIN channel[u] : channel[u][i] \in Steer
    BY DEF SteerTypes
  <2>2. \A i \in DOMAIN sent[u] : sent[u][i] \in Steer
    BY DEF SteerTypes
  <2>3. Line(u)
    BY DEF Places
  <2>4. \A i \in DOMAIN channel[u] : channel[u][i] # s
    BY <1>2, <2>3 DEF Line
  <2>5. \A i \in DOMAIN sent[u] : sent[u][i] # s
    BY <1>2, <2>3 DEF Line, Waiting
  <2>6. CASE channel'[u] = channel[u]
    BY <1>2, <2>1, <2>2, <2>3, <2>4, <2>5, <2>6 DEF Line
  <2>7. CASE u = t /\ steer'[s] = "queued" /\ channel'[t] = Append(channel[t], s)
    <3>1. \A i \in DOMAIN channel'[t] :
            \/ i \in DOMAIN channel[t] /\ channel'[t][i] = channel[t][i]
            \/ channel'[t][i] = s /\ i = Len(channel[t]) + 1
      BY <1>4, <2>7, AppendOf
    <3>2. \A i \in DOMAIN channel'[t] :
            steer'[channel'[t][i]] = "queued" /\ owner'[channel'[t][i]] = t
      BY <1>2, <1>5, <2>1, <2>3, <2>4, <2>7, <3>1 DEF Line
    <3>3. \A i, j \in DOMAIN channel'[t] : channel'[t][i] = channel'[t][j] => i = j
      BY <2>3, <2>4, <2>7, <3>1 DEF Line
    <3> QED
      BY <1>2, <2>2, <2>3, <2>5, <2>7, <3>2, <3>3 DEF Line
  <2> QED
    BY <1>2, <1>3, <2>6, <2>7
<1>7. ASSUME NEW r \in Steer
      PROVE  Place(r)'
  <2>1. Place(r)
    BY DEF Places
  <2>2. CASE r # s
    BY <1>2, <2>1, <2>2 DEF Place
  <2>3. CASE r = s
    BY <1>1, <1>2, <1>3, <1>5, <2>1, <2>3 DEF Place, Unsent, Waiting, Early, Agreeing, Setup
  <2> QED
    BY <2>2, <2>3
<1> QED
  BY <1>6, <1>7 DEF Places

LEMMA PlacesStep ==
    ASSUME CourseTypes, ChatTypes, SteerTypes, Course, Places, [Next]_vars
    PROVE  Places'
<1>1. ASSUME NEW t \in Turn, SettleControls(t)
      PROVE  Places'
  <2>1. /\ pc[t] \in Agreeing /\ pc' = [pc EXCEPT ![t] = "closing"] /\ RejectQueued(t)
        /\ flags' = [flags EXCEPT ![t] = @ \cup {"completed"}] /\ sent[t] = <<>>
        /\ UNCHANGED <<chat, owner, sent, order, taken>>
    BY <1>1 DEF SettleControls, Agreeing, Move, Raise, hist
  <2> QED
    BY <2>1, PlacesDrained
<1>2. ASSUME NEW t \in Turn, SettleFails(t)
      PROVE  Places'
  <2>1. /\ pc[t] \in Agreeing /\ pc' = [pc EXCEPT ![t] = "closing"] /\ RejectQueued(t)
        /\ flags' = [flags EXCEPT ![t] = @ \cup {"failure"}] /\ "completed" \notin {"failure"}
        /\ UNCHANGED <<chat, owner, sent, order, taken>>
    BY <1>2 DEF SettleFails, Agreeing, Move, Raise, hist
  <2> QED
    BY <2>1, PlacesDrained
<1>3. ASSUME NEW t \in Turn, AgentSettled(t)
      PROVE  Places'
  <2>1. /\ pc[t] \in Agreeing /\ UNCHANGED <<chat, owner, sent, order, taken>>
        /\ \/ /\ pc' = [pc EXCEPT ![t] = "settling"] /\ RejectQueued(t)
              /\ flags' = [flags EXCEPT ![t] = @ \cup {"claimed"}]
           \/ /\ pc' = [pc EXCEPT ![t] = "closing"] /\ UNCHANGED <<steer, channel>>
              /\ flags' = [flags EXCEPT ![t] = @ \cup {"aborted"}]
    BY <1>3 DEF AgentSettled, Agreeing, Move, Raise, hist
  <2>2. "completed" \notin {"claimed"} /\ "completed" \notin {"aborted"}
    OBVIOUS
  <2> QED
    BY <2>1, <2>2, PlacesDrained
<1> QED
  BY <1>1, <1>2, <1>3, Steering, PlacesKept, PlacesLeft, PlacesPersisted, PlacesClosed,
     PlacesForwarded, PlacesMarked, PlacesQueued DEF Steers
-----------------------------------------------------------------------------
\* The Chat after a message: what it held is where it was.
LEMMA ChatAppend ==
    ASSUME ChatTypes, NEW t \in Turn, NEW q \in Kinds, Store(Msg(t, q))
    PROVE  \A i \in DOMAIN chat' :
              /\ i \in Nat
              /\ \/ i \in DOMAIN chat /\ chat'[i] = chat[i] /\ i < Len(chat) + 1
                 \/ i = Len(chat) + 1 /\ chat'[i].kind = q
<1>1. Msg(t, q) \in Message /\ Msg(t, q).kind = q
  BY DEF Msg, Message
<1>2. Len(chat) \in Nat /\ DOMAIN chat = 1 .. Len(chat) /\ DOMAIN chat' = 1 .. Len(chat) + 1
      /\ chat'[Len(chat) + 1] = Msg(t, q) /\ \A i \in 1 .. Len(chat) : chat'[i] = chat[i]
  BY <1>1 DEF Store, ChatTypes
<1> QED
  BY <1>1, <1>2

LEMMA InOrderKept ==
    ASSUME ChatTypes, SteerTypes, InOrder, Mute, order' = order,
           \A u \in Turn : sent'[u] \in {sent[u], <<>>}
    PROVE  InOrder'
<1>1. \A i \in DOMAIN chat' : \A k \in DOMAIN order :
        chat'[i].kind = order[k] => i \in DOMAIN chat /\ chat'[i] = chat[i]
  <2>1. \A k \in DOMAIN order : order[k] \in Steer
    BY DEF SteerTypes
  <2>2. \A s \in Steer : s \notin Outcome \cup {"user"}
    BY SteerAssumption DEF Outcome
  <2>3. CASE chat' = chat
    BY <2>3
  <2>4. ASSUME NEW u \in Turn, NEW q \in Outcome \cup {"user"}, Store(Msg(u, q))
        PROVE  \A i \in DOMAIN chat' : \A k \in DOMAIN order :
                 chat'[i].kind = order[k] => i \in DOMAIN chat /\ chat'[i] = chat[i]
    <3>1. q \in Kinds
      BY DEF Kinds
    <3> QED
      BY <2>1, <2>2, <2>4, <3>1, ChatAppend
  <2> QED
    BY <2>3, <2>4 DEF Mute
<1>2. \A u \in Turn : \A i \in DOMAIN sent'[u] : sent'[u] = sent[u]
  OBVIOUS
<1> QED
  BY <1>1, <1>2 DEF InOrder, SentOnce, SentInOrder, ChatFirst, ChatInOrder

LEMMA InOrderPersisted ==
    ASSUME CourseTypes, ChatTypes, SteerTypes, Course, Places, InOrder, NEW t \in Turn, Persist(t)
    PROVE  InOrder'
<1> DEFINE s == Head(sent[t])
<1>1. s \in Steer /\ sent[t] # <<>> /\ sent[t] \in Seq(Steer)
  BY PersistSays DEF Persist, Due, SteerTypes
<1>2. /\ s = sent[t][1] /\ 1 \in DOMAIN sent[t] /\ order' = order
      /\ sent'[t] = Tail(sent[t]) /\ \A u \in Turn \ {t} : sent'[u] = sent[u]
  BY <1>1, TailOf DEF Persist, SteerTypes, hist
<1>3. \A i \in DOMAIN sent'[t] :
        i \in Nat /\ i + 1 \in DOMAIN sent[t] /\ 1 < i + 1 /\ sent'[t][i] = sent[t][i + 1]
  BY <1>1, <1>2, TailOf
<1>4. \A i \in DOMAIN chat' :
        /\ i \in Nat
        /\ \/ i \in DOMAIN chat /\ chat'[i] = chat[i] /\ (chat' = chat \/ i < Len(chat) + 1)
           \/ i = Len(chat) + 1 /\ chat'[i].kind = s
  <2>1. s \in Kinds
    BY <1>1 DEF Kinds
  <2>2. CASE chat' = chat
    BY <2>2 DEF ChatTypes
  <2>3. CASE Store(Msg(t, s))
    BY <2>1, <2>3, ChatAppend
  <2> QED
    BY <2>2, <2>3, PersistSays
<1> HIDE DEF s
<1>5. \A u \in Turn : \A i \in DOMAIN sent'[u] : u = t
  <2>1. ASSUME NEW u \in Turn, sent[u] # <<>>
        PROVE  lease = u
    <3>1. pc[u] \in Agreeing \cup {"closing"}
      BY <2>1 DEF Places, Line
    <3> QED
      BY <3>1 DEF Course, Hold, Agreeing, Owning, Setup
  <2>2. \A u \in Turn \ {t} : sent[u] = <<>>
    BY <1>1, <2>1
  <2> QED
    BY <1>2, <2>2
<1>6. SentOnce'
  BY <1>2 DEF InOrder, SentOnce
<1>7. ASSUME NEW i \in DOMAIN chat, NEW k \in DOMAIN order, NEW l \in DOMAIN order,
             chat[i].kind = order[k], s = order[l]
      PROVE  k < l
  <2>1. sent[t][1] = order[l]
    BY <1>2, <1>7
  <2> QED
    BY <1>2, <1>7, <2>1 DEF InOrder, ChatFirst
<1>8. ASSUME NEW j \in DOMAIN sent'[t], NEW k \in DOMAIN order, NEW l \in DOMAIN order,
             s = order[k], sent'[t][j] = order[l]
      PROVE  k < l
  <2>1. /\ j + 1 \in DOMAIN sent[t] /\ 1 < j + 1 /\ sent[t][j + 1] = order[l]
        /\ sent[t][1] = order[k]
    BY <1>2, <1>3, <1>8
  <2> QED
    BY <1>2, <2>1 DEF InOrder, SentInOrder
<1>9. SentInOrder'
  <2>1. ASSUME NEW i \in DOMAIN sent'[t], NEW j \in DOMAIN sent'[t], NEW k \in DOMAIN order,
               NEW l \in DOMAIN order, i < j, sent'[t][i] = order[k], sent'[t][j] = order[l]
        PROVE  k < l
    <3>1. i + 1 < j + 1 /\ i + 1 \in DOMAIN sent[t] /\ j + 1 \in DOMAIN sent[t]
          /\ sent[t][i + 1] = order[k] /\ sent[t][j + 1] = order[l]
      BY <1>3, <2>1
    <3> QED
      BY <3>1 DEF InOrder, SentInOrder
  <2> QED
    <3> SUFFICES ASSUME NEW u \in Turn, NEW i \in DOMAIN sent'[u], NEW j \in DOMAIN sent'[u],
                        NEW k \in DOMAIN order, NEW l \in DOMAIN order, i < j,
                        sent'[u][i] = order[k], sent'[u][j] = order[l]
                 PROVE  k < l
      BY <1>2 DEF SentInOrder
    <3>1. u = t
      BY <1>5
    <3> QED
      BY <2>1, <3>1
<1>10. ChatFirst'
  <2>1. ASSUME NEW i \in DOMAIN chat', NEW j \in DOMAIN sent'[t], NEW k \in DOMAIN order,
               NEW l \in DOMAIN order, chat'[i].kind = order[k], sent'[t][j] = order[l]
        PROVE  k < l
    <3>1. CASE i \in DOMAIN chat /\ chat'[i] = chat[i]
      <4>1. j + 1 \in DOMAIN sent[t] /\ sent[t][j + 1] = order[l]
        BY <1>3, <2>1
      <4> QED
        BY <2>1, <3>1, <4>1 DEF InOrder, ChatFirst
    <3>2. CASE chat'[i].kind = s
      BY <1>8, <2>1, <3>2
    <3> QED
      BY <1>4, <3>1, <3>2
  <2> QED
    <3> SUFFICES ASSUME NEW i \in DOMAIN chat', NEW u \in Turn, NEW j \in DOMAIN sent'[u],
                        NEW k \in DOMAIN order, NEW l \in DOMAIN order,
                        chat'[i].kind = order[k], sent'[u][j] = order[l]
                 PROVE  k < l
      BY <1>2 DEF ChatFirst
    <3>1. u = t
      BY <1>5
    <3> QED
      BY <2>1, <3>1
<1>11. ChatInOrder'
  <2>1. ASSUME NEW i \in DOMAIN chat', NEW j \in DOMAIN chat', NEW k \in DOMAIN order,
               NEW l \in DOMAIN order, i < j, chat'[i].kind = order[k], chat'[j].kind = order[l]
        PROVE  k < l
    <3>1. CASE chat' = chat
      BY <2>1, <3>1 DEF InOrder, ChatInOrder
    <3>2. CASE chat' # chat
      <4>1. i \in DOMAIN chat /\ chat'[i] = chat[i]
        <5>1. Len(chat) \in Nat
          BY DEF ChatTypes
        <5> QED
          BY <1>4, <2>1, <3>2, <5>1
      <4>2. CASE j \in DOMAIN chat /\ chat'[j] = chat[j]
        BY <2>1, <4>1, <4>2 DEF InOrder, ChatInOrder
      <4>3. CASE chat'[j].kind = s
        BY <1>7, <2>1, <4>1, <4>3
      <4> QED
        BY <1>4, <4>2, <4>3
    <3> QED
      BY <3>1, <3>2
  <2> QED
    BY <1>2, <2>1 DEF ChatInOrder
<1> QED
  BY <1>6, <1>9, <1>10, <1>11 DEF InOrder

LEMMA InOrderForwarded ==
    ASSUME CourseTypes, ChatTypes, SteerTypes, Places, InOrder, NEW t \in Turn, Forward(t)
    PROVE  InOrder'
<1> DEFINE s == Head(channel[t])
<1>1. s \in Steer /\ channel[t] # <<>> /\ channel[t] \in Seq(Steer) /\ sent[t] \in Seq(Steer)
  BY SeqUpdate DEF Forward, SteerTypes
<1>2. chat' = chat /\ \A u \in Turn \ {t} : sent'[u] = sent[u]
  BY DEF Forward, SteerTypes
<1>3. \/ sent' = sent /\ order' = order
      \/ sent'[t] = Append(sent[t], s) /\ order' = Append(order, s)
  BY DEF Forward, SteerTypes
<1>4. CASE sent' = sent /\ order' = order
  BY <1>2, <1>4 DEF InOrder, SentOnce, SentInOrder, ChatFirst, ChatInOrder
<1>5. CASE sent'[t] = Append(sent[t], s) /\ order' = Append(order, s)
  <2>1. steer[s] = "queued"
    BY <1>1, TailOf DEF Places, Line
  <2>2. /\ \A i \in DOMAIN order : order[i] # s
        /\ \A u \in Turn : Msg(u, s) \notin Said
    BY <1>1, <2>1 DEF Places, Place, Unsent
  <2>3. \A i \in DOMAIN chat : chat[i].kind # s
    <3>1. ASSUME NEW i \in DOMAIN chat, chat[i].kind = s
          PROVE  FALSE
      <4>1. chat[i] \in Message /\ chat[i] \in Said
        BY <3>1 DEF ChatTypes, Said
      <4>2. chat[i] = Msg(chat[i].turn, s) /\ chat[i].turn \in Turn
        BY <3>1, <4>1 DEF Message, Msg
      <4> QED
        BY <2>2, <4>1, <4>2
    <3> QED
      BY <3>1
  <2>4. \A u \in Turn : \A i \in DOMAIN sent[u] : sent[u][i] # s
    BY <2>1 DEF Places, Line, Waiting
  <2> HIDE DEF s
  <2>5. \A k \in DOMAIN order' :
          \/ k \in DOMAIN order /\ order'[k] = order[k] /\ k < Len(order) + 1 /\ k \in Nat
          \/ k = Len(order) + 1 /\ order'[k] = s
    BY <1>1, <1>5, AppendOf DEF SteerTypes
  <2>6. \A u \in Turn : \A i \in DOMAIN sent'[u] :
          \/ i \in DOMAIN sent[u] /\ sent'[u][i] = sent[u][i] /\ (u = t => i < Len(sent[t]) + 1)
          \/ u = t /\ i = Len(sent[t]) + 1 /\ sent'[u][i] = s
    <3>1. \A i \in DOMAIN sent'[t] :
            \/ i \in DOMAIN sent[t] /\ sent'[t][i] = sent[t][i] /\ i < Len(sent[t]) + 1
            \/ i = Len(sent[t]) + 1 /\ sent'[t][i] = s
      BY <1>1, <1>5, AppendOf
    <3> QED
      BY <1>2, <3>1
  <2>7. Len(order) \in Nat /\ Len(sent[t]) \in Nat /\ \A i \in DOMAIN sent[t] : i \in Nat
    BY <1>1 DEF SteerTypes
  <2>8. SentOnce'
    BY <2>2, <2>5 DEF InOrder, SentOnce
  <2>9. SentInOrder'
    <3> SUFFICES ASSUME NEW u \in Turn, NEW i \in DOMAIN sent'[u], NEW j \in DOMAIN sent'[u],
                        NEW k \in DOMAIN order', NEW l \in DOMAIN order', i < j,
                        sent'[u][i] = order'[k], sent'[u][j] = order'[l]
                 PROVE  k < l
      BY DEF SentInOrder
    <3>1. i \in DOMAIN sent[u] /\ sent'[u][i] = sent[u][i]
      BY <2>6, <2>7
    <3>2. k \in DOMAIN order /\ order'[k] = order[k] /\ k < Len(order) + 1
      BY <2>4, <2>5, <3>1
    <3>3. CASE sent'[u][j] = s
      BY <2>2, <2>5, <2>7, <3>2, <3>3
    <3>4. CASE sent'[u][j] # s
      <4>1. /\ j \in DOMAIN sent[u] /\ sent'[u][j] = sent[u][j]
            /\ l \in DOMAIN order /\ order'[l] = order[l]
        BY <2>5, <2>6, <3>4
      <4>2. sent[u][i] = order[k] /\ sent[u][j] = order[l]
        BY <3>1, <3>2, <4>1
      <4>3. SentInOrder
        BY DEF InOrder
      <4> QED
        BY <3>1, <3>2, <4>1, <4>2, <4>3 DEF SentInOrder
    <3> QED
      BY <3>3, <3>4
  <2>10. ChatFirst'
    <3> SUFFICES ASSUME NEW i \in DOMAIN chat, NEW u \in Turn, NEW j \in DOMAIN sent'[u],
                        NEW k \in DOMAIN order', NEW l \in DOMAIN order',
                        chat[i].kind = order'[k], sent'[u][j] = order'[l]
                 PROVE  k < l
      BY <1>2 DEF ChatFirst
    <3>1. k \in DOMAIN order /\ order'[k] = order[k] /\ k < Len(order) + 1
      BY <2>3, <2>5
    <3>2. CASE sent'[u][j] = s
      BY <2>2, <2>5, <2>7, <3>1, <3>2
    <3>3. CASE sent'[u][j] # s
      <4>1. /\ j \in DOMAIN sent[u] /\ sent'[u][j] = sent[u][j]
            /\ l \in DOMAIN order /\ order'[l] = order[l]
        BY <2>5, <2>6, <3>3
      <4> QED
        BY <3>1, <4>1 DEF InOrder, ChatFirst
    <3> QED
      BY <3>2, <3>3
  <2>11. ChatInOrder'
    <3> SUFFICES ASSUME NEW i \in DOMAIN chat, NEW j \in DOMAIN chat,
                        NEW k \in DOMAIN order', NEW l \in DOMAIN order', i < j,
                        chat[i].kind = order'[k], chat[j].kind = order'[l]
                 PROVE  k < l
      BY <1>2 DEF ChatInOrder
    <3>1. k \in DOMAIN order /\ order'[k] = order[k] /\ l \in DOMAIN order /\ order'[l] = order[l]
      BY <2>3, <2>5
    <3> QED
      BY <3>1 DEF InOrder, ChatInOrder
  <2> QED
    BY <2>8, <2>9, <2>10, <2>11 DEF InOrder
<1> QED
  BY <1>3, <1>4, <1>5

LEMMA InOrderStep ==
    ASSUME CourseTypes, ChatTypes, SteerTypes, Course, Places, InOrder, [Next]_vars
    PROVE  InOrder'
<1> USE DEF Mute, hist, ctl
<1>1. CASE Passes
  <2>1. Mute /\ order' = order /\ \A u \in Turn : sent'[u] \in {sent[u], <<>>}
    BY <1>1 DEF Passes
  <2> QED
    BY <2>1, InOrderKept
<1>2. ASSUME NEW t \in Turn, Stops(t)
      PROVE  InOrder'
  <2>1. Mute /\ order' = order /\ \A u \in Turn : sent'[u] \in {sent[u], <<>>}
    BY <1>2 DEF Stops, SteerTypes
  <2> QED
    BY <2>1, InOrderKept
<1>3. ASSUME NEW t \in Turn,
             \/ SettleControls(t) \/ SettleFails(t) \/ Close(t) \/ AgentSettled(t)
             \/ \E s \in Steer : Respond(t, s) \/ Submit(s, t)
      PROVE  InOrder'
  <2>1. chat' = chat /\ order' = order /\ \A u \in Turn : sent'[u] \in {sent[u], <<>>}
    BY <1>3 DEF SettleControls, SettleFails, Close, AgentSettled, Respond, Submit,
       SteerTypes
  <2> QED
    BY <2>1, InOrderKept
<1>4. ASSUME NEW s \in Steer, Enqueue(s)
      PROVE  InOrder'
  <2>1. chat' = chat /\ order' = order /\ \A u \in Turn : sent'[u] \in {sent[u], <<>>}
    BY <1>4 DEF Enqueue
  <2> QED
    BY <2>1, InOrderKept
<1> QED
  BY <1>1, <1>2, <1>3, <1>4, Steering, InOrderPersisted, InOrderForwarded DEF Steers
-----------------------------------------------------------------------------
LEMMA StepInv == Inv /\ [Next]_vars => Inv'
<1> SUFFICES ASSUME Inv, [Next]_vars
             PROVE  Inv'
  OBVIOUS
<1>1. /\ CourseTypes /\ ToldTypes /\ ChatTypes /\ SteerTypes
      /\ seen \in [Turn -> Nat] /\ faults \in Nat
  BY DEF Inv, Types
<1>2. Course /\ Outcomes /\ Transcript /\ Places /\ InOrder
  BY DEF Inv
<1>3. chat' \in Seq(Message)
  BY <1>1, <1>2, Utterance, Stores DEF Utters, ChatTypes
<1>4. seen' \in [Turn -> Nat]
  <2>1. seen' = seen \/ \E t \in Turn : seen' = [seen EXCEPT ![t] = Len(chat)]
    BY NextCases DEF vars, Register, Stop, ReadChat, StoreUser, Refuse, SetupStep,
       SetupStops, SetupFails, SetupAbort, Persist, LoopStops, SettleControls, SettleFails,
       Close,
       TaskAbort, Reserve, ReserveFails, HandOff, WriterReady, WriterRefused, Finalize,
       FinalizeFails, Recovered, Fail, Conclude, Forward, LoopFails, AgentSettled, Respond,
       Submit, Enqueue, End
  <2>2. Len(chat) \in Nat
    BY <1>1 DEF ChatTypes
  <2> QED
    BY <1>1, <2>1, <2>2
<1>5. faults' \in Nat
  <2>1. faults' = faults \/ faults' = faults + 1
    BY NextCases DEF vars, Register, Stop, ReadChat, StoreUser, Refuse, SetupStep,
       SetupStops, SetupFails, SetupAbort, Persist, LoopStops, SettleControls, SettleFails,
       Close,
       TaskAbort, Reserve, ReserveFails, HandOff, WriterReady, WriterRefused, Finalize,
       FinalizeFails, Recovered, Fail, Conclude, Forward, LoopFails, AgentSettled, Respond,
       Submit, Enqueue, Fault, Quiet
  <2> QED
    BY <1>1, <2>1
<1>6. Types'
  BY <1>1, <1>2, <1>3, <1>4, <1>5, CourseTypesStep, ToldTypesStep, SteerTypesStep
     DEF Types, ChatTypes
<1>7. Course' /\ Outcomes' /\ Transcript'
  BY <1>1, <1>2, CourseStep, OutcomesStep, TranscriptStep
<1>8. Places' /\ InOrder'
  BY <1>1, <1>2, PlacesStep, InOrderStep
<1> QED
  BY <1>6, <1>7, <1>8 DEF Inv

THEOREM Invariance == Spec => []Inv
<1> QED
  BY InitInv, StepInv, PTL DEF Spec

\* The variables keep their types.
THEOREM TypeCorrect == Spec => []Types
<1>1. Inv => Types
  BY DEF Inv
<1> QED
  BY <1>1, Invariance, PTL

\* However many turns follow each other and whatever fails, each ends in one
\* way, in the Chat as on the screen (persist_and_emit_terminal_chat).
THEOREM Endings == Spec => []OneOutcome
<1>1. Inv => OneOutcome
  <2> SUFFICES ASSUME Inv, NEW t \in Turn
               PROVE  /\ \A i, j \in DOMAIN chat :
                           chat[i].turn = t /\ chat[j].turn = t
                           /\ {chat[i].kind, chat[j].kind} \subseteq Outcome => i = j
                      /\ pc[t] = "ended" /\ t \notin unsure =>
                           /\ \E e \in Outcome : Heard(t) = {e}
                           /\ "complete" \in EndedAs(t) <=> "complete" \in Heard(t)
    BY DEF OneOutcome
  <2>1. ASSUME NEW i \in DOMAIN chat, NEW j \in DOMAIN chat, chat[i].turn = t, chat[j].turn = t,
               {chat[i].kind, chat[j].kind} \subseteq Outcome
        PROVE  i = j
    <3>1. DOMAIN chat \subseteq Nat
      BY DEF Inv, Types, ChatTypes
    <3>2. ~(i < j) /\ ~(j < i)
      BY <2>1 DEF Inv, Transcript, Last
    <3> QED
      BY <3>1, <3>2
  <2>2. ASSUME pc[t] = "ended", t \notin unsure
        PROVE  /\ \E e \in Outcome : Heard(t) = {e}
               /\ "complete" \in EndedAs(t) <=> "complete" \in Heard(t)
    <3>1. PICK e \in Outcome :
            told[t] = <<e>> /\ (e = "complete" <=> Msg(t, "complete") \in Said)
      BY <2>2 DEF Inv, Outcomes, Hears
    <3>2. Heard(t) = {e}
      BY <3>1 DEF Heard
    <3>3. "complete" \in EndedAs(t) <=> Msg(t, "complete") \in Said
      BY DEF EndedAs, Said, Outcome
    <3> QED
      BY <3>1, <3>2, <3>3
  <2> QED
    BY <2>1, <2>2
<1> QED
  BY <1>1, Invariance, PTL

\* Stop wins or loses as a whole, whichever failure it races
\* (persist_or_emit_failed_chat_with_stop_precedence).
THEOREM Stopping == Spec => []StopHonoured
<1>1. Inv => StopHonoured
  <2>1. \A t \in Turn : \A k \in Outcome : k \in EndedAs(t) <=> Msg(t, k) \in Said
    BY DEF EndedAs, Said
  <2>2. \A t \in Turn : EndedAs(t) \subseteq Outcome
    BY DEF EndedAs
  <2> QED
    BY <2>1, <2>2 DEF Inv, Outcomes, Ended, StopHonoured, Stopped, Outcome
<1> QED
  BY <1>1, Invariance, PTL

\* The Chat holds what was said in the order in which it was said, and what
\* the user was told is accepted (chat_turn.rs, settle_chat_control_response).
THEOREM Wholeness == Spec => []TranscriptIsWhole
<1>1. Inv => AnswerFollowsQuestion
  <2> SUFFICES ASSUME Inv, NEW t \in Turn, NEW i \in DOMAIN chat, NEW j \in DOMAIN chat
               PROVE  /\ chat[i] = Msg(t, "user") /\ i < j
                         /\ chat[j].kind \in {"complete", "aborted"} /\ chat[j].turn = t
                           => \A k \in i .. j : chat[k].turn = t \/ chat[k].kind = "error"
                      /\ chat[i].turn = t /\ chat[i].kind \in Outcome /\ i < j => chat[j].turn # t
    BY DEF AnswerFollowsQuestion
  <2>1. chat[i].turn = t /\ chat[i].kind \in Outcome /\ i < j => chat[j].turn # t
    BY DEF Inv, Transcript, Last
  <2>2. ASSUME chat[i] = Msg(t, "user"), i < j, chat[j].kind \in {"complete", "aborted"},
               chat[j].turn = t, NEW k \in i .. j
        PROVE  chat[k].turn = t \/ chat[k].kind = "error"
    <3>1. k \in DOMAIN chat /\ i <= k /\ k <= j
      BY DEF Inv, Types, ChatTypes
    <3>2. chat[i].kind = "user" /\ chat[i].turn = t
      BY <2>2 DEF Msg
    <3> QED
      BY <2>2, <3>1, <3>2 DEF Inv, Transcript, Between
  <2> QED
    BY <2>1, <2>2
<1>2. Inv => InstructionsAreKept
  <2> SUFFICES ASSUME Inv
               PROVE  InstructionsAreKept
    OBVIOUS
  <2>1. \A s \in Steer : steer[s] = "accepted" => \E i \in DOMAIN chat : chat[i] = Msg(owner[s], s)
    BY DEF Inv, Places, Place, Said
  <2>2. \A i, j \in DOMAIN chat : \A k, l \in DOMAIN order :
          i < j /\ chat[i].kind = order[k] /\ chat[j].kind = order[l] => k < l
    BY DEF Inv, InOrder, ChatInOrder
  <2>3. ASSUME NEW t \in Turn, "complete" \in EndedAs(t), NEW s \in taken, owner[s] = t
        PROVE  steer[s] = "accepted"
    <3>1. Msg(t, "complete") \in Said
      BY <2>3 DEF EndedAs, Said
    <3>2. "completed" \in flags[t] /\ s \in Steer
      BY <3>1 DEF Inv, Outcomes, Ended, Types, SteerTypes
    <3> QED
      BY <2>3, <3>2 DEF Inv, Places, Place
  <2> QED
    BY <2>1, <2>2, <2>3 DEF InstructionsAreKept
<1>3. Inv => TranscriptIsWhole
  BY <1>1, <1>2 DEF TranscriptIsWhole
<1> QED
  BY <1>3, Invariance, PTL
=============================================================================
