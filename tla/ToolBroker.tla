----------------------------- MODULE ToolBroker -----------------------------
(***************************************************************************)
(* The tool calls of one Chat turn: the agent's client                     *)
(* (agent/broker-client.mjs), the connection handlers of the turn's broker *)
(* (broker.rs) and the capture that they stage into and commit to          *)
(* (commands/tool_executor.rs).  A call is one connection: request,        *)
(* response, the client's acknowledgement, the broker's commit barrier.    *)
(* Either side may close, a timeout may race the late answer, the agent    *)
(* may abort a call, exit, or be stopped, and the turn ends by draining    *)
(* the handlers before it takes what they committed.                       *)
(***************************************************************************)
EXTENDS Naturals, FiniteSets

CONSTANTS
    Call,           \* tool calls of the turn, one connection each
    NoCall,         \* a call that cites nothing
    Plans,          \* what the agent may ask in a turn, call by call
    Limit,          \* how many of each method a turn may commit
    MaxConnections  \* MAX_CONCURRENT_CONNECTIONS

\* A result may be cited by Evidence, and Evidence by the Decision.
Method == {"result", "evidence", "decision"}
Cited  == [evidence |-> "result", decision |-> "evidence"]

ASSUME CallAssumption  == IsFiniteSet(Call) /\ NoCall \notin Call
ASSUME PlanAssumption  ==
    Plans \subseteq [Call -> [method : Method, cites : Call \cup {NoCall}]]
ASSUME LimitAssumption == Limit \in [Method -> Nat] /\ MaxConnections \in Nat \ {0}

VARIABLES
    ask,              \* what each call asks for and which call it cites
    client,           \* the client's promise
    server,           \* the connection handler
    outcome,          \* the handler's response: ok, error, or none yet
    terminal,         \* the response that the client acknowledged
    up, down,         \* the frame in flight to the broker, to the client
    used,             \* TransactionCardinality
    pending,          \* deliveries staged in the capture
    committed,        \* deliveries committed to the capture
    agent, broker, turn,
    taken             \* what the completed turn takes from the capture

wire == <<up, down>>
capture == <<pending, committed>>
host == <<agent, broker, turn, taken>>
vars == <<ask, client, server, outcome, terminal, wire, used, capture, host>>

method == [c \in Call |-> ask[c].method]
cites  == [c \in Call |-> ask[c].cites]

Outcome == {"none", "ok", "error"}
Client  == {"idle", "waiting", "acked", "resolved", "rejected"}
\* A handler between its reservation and its end.
Busy    == {"executing", "staged", "responding", "awaiting", "acked", "delivered"}
Server  == Busy \cup {"none", "closed"}

Init ==
    /\ ask \in Plans
    /\ client = [c \in Call |-> "idle"] /\ server = [c \in Call |-> "none"]
    /\ outcome = [c \in Call |-> "none"] /\ terminal = [c \in Call |-> "none"]
    /\ up = [c \in Call |-> "none"] /\ down = [c \in Call |-> "none"]
    /\ used = [m \in Method |-> 0]
    /\ pending = {} /\ committed = {}
    /\ agent = "running" /\ broker = "accepting" /\ turn = "open" /\ taken = {}

Open(c)  == agent = "running" /\ client[c] \in {"waiting", "acked"}
Serving  == {c \in Call : server[c] \in Busy}
Of(S, m) == {c \in S : method[c] = m}

\* A TransactionReservation that is neither committed nor dropped.  Results
\* are not counted there but by the registry of the capture.
Counted(c)  == method[c] # "result"
Reserves(c) == /\ Counted(c) /\ server[c] \in Busy \ {"delivered"}
               /\ outcome[c] # "error"

Serve(c, from, to) == server[c] = from /\ server' = [server EXCEPT ![c] = to]
Answer(c, o)       == outcome' = [outcome EXCEPT ![c] = o]

\* The reservation is dropped (TypeOK: its saturating_sub never saturates) and
\* the staged delivery removed.
Release(c) ==
    used' = IF Reserves(c) THEN [used EXCEPT ![method[c]] = @ - 1] ELSE used
Discard(c) == Release(c) /\ pending' = pending \ {c} /\ UNCHANGED committed
-----------------------------------------------------------------------------
\* The agent calls a tool; what it cites may be anything that it has read.
Request(c) ==
    /\ agent = "running" /\ client[c] = "idle"
    /\ client' = [client EXCEPT ![c] = "waiting"]
    /\ up' = [up EXCEPT ![c] = "request"]
    /\ UNCHANGED <<ask, server, outcome, terminal, down, used, capture, host>>

\* A connection slot, the request, and the reservation of execute_request.
Accept(c) ==
    /\ up[c] = "request" /\ broker = "accepting"
    /\ Cardinality(Serving) < MaxConnections
    /\ up' = [up EXCEPT ![c] = "none"]
    /\ IF Counted(c) /\ used[method[c]] >= Limit[method[c]]
       THEN Serve(c, "none", "responding") /\ Answer(c, "error") /\ UNCHANGED used
       ELSE /\ Serve(c, "none", "executing") /\ UNCHANGED outcome
            /\ used' = IF Counted(c) THEN [used EXCEPT ![method[c]] = @ + 1] ELSE used
    /\ UNCHANGED <<ask, client, terminal, down, capture, host>>

\* No slot, no endpoint any more, or the request was not read in time.
Refuse(c) ==
    /\ up[c] = "request"
    /\ up' = [up EXCEPT ![c] = "none"]
    /\ Serve(c, "none", "closed")
    /\ UNCHANGED <<ask, client, outcome, terminal, down, used, capture, host>>

\* Slip: a delivery that may still be discarded can be cited.
GroundedInPending(c) ==
    Counted(c) => cites[c] \in {d \in pending \cup committed : method[d] = Cited[method[c]]}

\* What is cited must be a delivered result, or Evidence, of this turn.
Grounded(c) ==
    Counted(c) => cites[c] \in {d \in committed : method[d] = Cited[method[c]]}

\* Capacity of the registry, the Evidence and the Decision.
Fits(c) == Cardinality(Of(pending \cup committed, method[c])) < Limit[method[c]]

Stage(c) ==
    /\ Serve(c, "executing", "staged") /\ Grounded(c) /\ Fits(c)
    /\ pending' = pending \cup {c}
    /\ UNCHANGED <<ask, client, outcome, terminal, wire, used, committed, host>>

Finish(c) ==
    /\ Serve(c, "staged", "responding") /\ Answer(c, "ok")
    /\ UNCHANGED <<ask, client, terminal, wire, used, capture, host>>

\* The tool fails, before or after it staged.
ExecuteFails(c) ==
    /\ \E from \in {"executing", "staged"} : Serve(c, from, "responding")
    /\ Discard(c) /\ Answer(c, "error")
    /\ UNCHANGED <<ask, client, terminal, wire, host>>

\* Slip: the reservation outlives the connection.
PeerGoneKeeps(c) ==
    /\ \E from \in {"executing", "staged"} : Serve(c, from, "closed")
    /\ ~Open(c) /\ pending' = pending \ {c}
    /\ UNCHANGED <<ask, client, outcome, terminal, wire, used, committed, host>>

\* wait_for_peer_disconnect: the tool's future is dropped.
PeerGone(c) ==
    /\ \E from \in {"executing", "staged"} : Serve(c, from, "closed")
    /\ ~Open(c) /\ Discard(c)
    /\ UNCHANGED <<ask, client, outcome, terminal, wire, host>>

\* A response that exceeds the frame becomes an error.
Oversize(c) ==
    /\ server[c] = "responding" /\ outcome[c] = "ok"
    /\ Discard(c) /\ Answer(c, "error")
    /\ UNCHANGED <<ask, client, server, terminal, wire, host>>

Respond(c) ==
    /\ Serve(c, "responding", "awaiting") /\ Open(c)
    /\ down' = [down EXCEPT ![c] = outcome[c]]
    /\ UNCHANGED <<ask, client, outcome, terminal, up, used, capture, host>>

\* The write or the acknowledgement fails or times out, however late the
\* acknowledgement that is on its way.
Undelivered(c) ==
    /\ \E from \in {"responding", "awaiting"} : Serve(c, from, "closed")
    /\ Discard(c)
    /\ up' = [up EXCEPT ![c] = "none"]
    /\ UNCHANGED <<ask, client, outcome, terminal, down, host>>

ReadAck(c) ==
    /\ Serve(c, "awaiting", IF outcome[c] = "ok" THEN "acked" ELSE "delivered")
    /\ up[c] = "ack" /\ up' = [up EXCEPT ![c] = "none"]
    /\ UNCHANGED <<ask, client, outcome, terminal, down, used, capture, host>>

\* ToolCapture::commit_delivery.
CommitDelivery(c) ==
    /\ Serve(c, "acked", "delivered")
    /\ pending' = pending \ {c} /\ committed' = committed \cup {c}
    /\ UNCHANGED <<ask, client, outcome, terminal, wire, used, host>>

\* The reservation is kept; the barrier is written, or lost.
CommitBarrier(c) ==
    /\ Serve(c, "delivered", "closed")
    /\ \/ Open(c) /\ down' = [down EXCEPT ![c] = "barrier"]
       \/ UNCHANGED down
    /\ UNCHANGED <<ask, client, outcome, terminal, up, used, capture, host>>
-----------------------------------------------------------------------------
\* The client's promise settles; its socket is destroyed.
Settled(c, o) ==
    /\ client' = [client EXCEPT ![c] = IF o = "ok" THEN "resolved" ELSE "rejected"]
    /\ down' = [down EXCEPT ![c] = "none"]

\* Slip: the response settles the call, the barrier is not awaited.
ReceiveAndResolve(c) ==
    /\ Open(c) /\ client[c] = "waiting" /\ down[c] \in {"ok", "error"}
    /\ Settled(c, down[c])
    /\ up' = [up EXCEPT ![c] = "ack"]
    /\ terminal' = [terminal EXCEPT ![c] = down[c]]
    /\ UNCHANGED <<ask, server, outcome, used, capture, host>>

ReceiveResponse(c) ==
    /\ Open(c) /\ client[c] = "waiting" /\ down[c] \in {"ok", "error"}
    /\ client' = [client EXCEPT ![c] = "acked"]
    /\ terminal' = [terminal EXCEPT ![c] = down[c]]
    /\ up' = [up EXCEPT ![c] = "ack"] /\ down' = [down EXCEPT ![c] = "none"]
    /\ UNCHANGED <<ask, server, outcome, used, capture, host>>

ReceiveBarrier(c) ==
    /\ Open(c) /\ client[c] = "acked" /\ down[c] = "barrier"
    /\ Settled(c, terminal[c])
    /\ UNCHANGED <<ask, server, outcome, terminal, up, used, capture, host>>

Ended(c) == Open(c) /\ server[c] = "closed" /\ down[c] = "none"

\* Slip: a lost barrier is an ordinary tool error.
EndIsError(c) ==
    /\ Ended(c) /\ Settled(c, "error")
    /\ UNCHANGED <<ask, server, outcome, terminal, up, used, capture, host>>

\* Slip: only an acknowledged call notices that the broker closed.
EndAfterAck(c) ==
    /\ Ended(c) /\ client[c] = "acked"
    /\ agent' = "exited" /\ turn' = "failed"
    /\ UNCHANGED <<ask, client, down, server, outcome, terminal, up, used, capture,
                   broker, taken>>

\* The broker closed: before the acknowledgement the call failed, after it
\* the outcome is indeterminate and the agent exits.
ReceiveEnd(c) ==
    /\ Ended(c)
    /\ IF client[c] = "waiting"
       THEN Settled(c, "error") /\ UNCHANGED <<agent, turn>>
       ELSE /\ agent' = "exited" /\ turn' = (IF turn = "open" THEN "failed" ELSE turn)
            /\ UNCHANGED <<client, down>>
    /\ UNCHANGED <<ask, server, outcome, terminal, up, used, capture, broker, taken>>

AbortCall(c) ==
    /\ Open(c) /\ client[c] = "waiting" /\ Settled(c, "error")
    /\ UNCHANGED <<ask, server, outcome, terminal, up, used, capture, host>>
-----------------------------------------------------------------------------
\* agent_settled: every call of the turn has settled, and Pi is shut down (an
\* agent that settled makes no call, whether its stop is confirmed or not).
SettleTurn ==
    /\ turn = "open" /\ agent = "running"
    /\ \A c \in Call : ~Open(c)
    /\ turn' = "settled" /\ agent' = "exited"
    /\ UNCHANGED <<ask, client, server, outcome, terminal, wire, used, capture,
                   broker, taken>>

\* Stop, a failure or the exit of the agent; its stop may be unconfirmed.
FailTurn ==
    /\ turn = "open" /\ turn' = "failed"
    /\ agent' \in {"running", "exited"}
    /\ UNCHANGED <<ask, client, server, outcome, terminal, wire, used, capture,
                   broker, taken>>

ShutDown ==
    /\ turn \in {"settled", "failed"} /\ broker = "accepting"
    /\ broker' = "draining"
    /\ UNCHANGED <<ask, client, server, outcome, terminal, wire, used, capture,
                   agent, turn, taken>>

\* The handlers end, or are dropped after two seconds wherever they are; what
\* they staged stays pending and is never taken.
Drain ==
    /\ broker = "draining" /\ broker' = "down"
    /\ server' = [c \in Call |-> IF c \in Serving THEN "closed" ELSE server[c]]
    /\ used' = [m \in Method |-> used[m] - Cardinality({c \in Of(Serving, m) : Reserves(c)})]
    /\ UNCHANGED <<ask, client, outcome, terminal, wire, capture, agent, turn, taken>>

\* The completed turn takes the capture into its canonical message.
Take ==
    /\ turn = "settled" /\ broker = "down"
    /\ turn' = "taken" /\ taken' = committed
    /\ UNCHANGED <<ask, client, server, outcome, terminal, wire, used, capture,
                   agent, broker>>

Handle(c) ==
    \/ Accept(c) \/ Refuse(c)
    \/ Stage(c) \/ Finish(c) \/ ExecuteFails(c) \/ PeerGone(c)
    \/ Oversize(c) \/ Respond(c) \/ Undelivered(c)
    \/ ReadAck(c) \/ CommitDelivery(c) \/ CommitBarrier(c)

Receive(c) == ReceiveResponse(c) \/ ReceiveBarrier(c) \/ ReceiveEnd(c)

Next ==
    \/ \E c \in Call : Request(c) \/ Handle(c) \/ Receive(c) \/ AbortCall(c)
    \/ SettleTurn \/ FailTurn \/ ShutDown \/ Drain \/ Take

Spec == Init /\ [][Next]_vars

\* Tools return, timeouts expire, and the turn's task runs to its end.
FairSpec ==
    /\ Spec
    /\ \A c \in Call : WF_vars(Handle(c)) /\ WF_vars(Receive(c))
    /\ WF_vars(ShutDown) /\ WF_vars(Drain) /\ WF_vars(Take)
-----------------------------------------------------------------------------
TypeOK ==
    /\ ask \in Plans
    /\ client \in [Call -> Client] /\ server \in [Call -> Server]
    /\ outcome \in [Call -> Outcome] /\ terminal \in [Call -> Outcome]
    /\ up \in [Call -> {"none", "request", "ack"}]
    /\ down \in [Call -> Outcome \cup {"barrier"}]
    /\ used \in [Method -> Nat]
    /\ {pending, committed, taken} \subseteq SUBSET Call
    /\ agent \in {"running", "exited"} /\ broker \in {"accepting", "draining", "down"}
    /\ turn \in {"open", "settled", "failed", "taken"}

\* "The broker commits a staged result only after the client acknowledges the
\* response, then sends a commit barrier" (docs/architecture.md): the agent and
\* the capture never disagree about a call that settled.
AgentAndCaptureAgree ==
    \A c \in Call :
        /\ client[c] = "resolved" => c \in committed
        /\ client[c] = "rejected" => c \notin committed

\* A completed turn takes exactly what its agent was given, and no handler
\* adds to it afterwards, whatever was aborted, late or dropped meanwhile.
TakenIsDelivered ==
    turn = "taken" =>
        /\ taken = committed
        /\ taken = {c \in Call : client[c] = "resolved"}

Kept(c) == Counted(c) /\ c \in committed
Holders(m) == {c \in Of(Call, m) : Reserves(c) \/ Kept(c)}
CountersAreExact == \A m \in Method : used[m] = Cardinality(Holders(m))

\* Failed, aborted and undelivered calls give their budget back, delivered
\* ones do not, and nothing else leaves a trace in the counters.  So the agent
\* never has more calls of one kind admitted or delivered than the turn allows,
\* and a commit never meets a full registry (commit_delivery would panic).
BudgetsHold ==
    /\ CountersAreExact
    /\ \A m \in Method :
        /\ Cardinality(Of(pending \cup committed, m)) <= Limit[m]
        /\ Cardinality(Holders(m)) <= Limit[m]

\* Whatever the turn takes cites only what it takes as well.
CitationsAreDelivered ==
    \A c \in committed : method[c] # "result" =>
        cites[c] \in Of(committed, Cited[method[c]])

\* What a turn takes is what was delivered, and it stands on its own.
CaptureIsWhole == TakenIsDelivered /\ CitationsAreDelivered

\* Agent, capture and turn agree about every delivery (broker.rs:966).
DeliveriesAgree == AgentAndCaptureAgree /\ CaptureIsWhole

\* Every call settles, unless the turn it belongs to has failed.
CallsSettle ==
    \A c \in Call : client[c] = "waiting" ~>
        client[c] \in {"resolved", "rejected"} \/ turn = "failed"
=============================================================================
