-------------------------- MODULE ToolBrokerProofs --------------------------
(***************************************************************************)
(* Proofs about ToolBroker, for every set of calls, every plan of what they *)
(* ask and cite, and every limit.                                          *)
(***************************************************************************)
EXTENDS ToolBroker, FiniteSetTheorems, TLAPS

Answered == {"ok", "error"}

\* Type correctness of what the invariant speaks of.
Types ==
    /\ client \in [Call -> Client] /\ server \in [Call -> Server]
    /\ outcome \in [Call -> Outcome] /\ terminal \in [Call -> Outcome]
    /\ up \in [Call -> {"none", "request", "ack"}]
    /\ down \in [Call -> Outcome \cup {"barrier"}]
    /\ pending \subseteq Call /\ committed \subseteq Call
    /\ agent \in {"running", "exited"} /\ broker \in {"accepting", "draining", "down"}
    /\ turn \in {"open", "settled", "failed", "taken"}

\* How far the handler and the client of one call can be apart.
Handshake(c) ==
    /\ server[c] = "none" => down[c] = "none" /\ up[c] # "ack"
    /\ server[c] \in {"none", "executing", "staged"} => outcome[c] = "none"
    /\ server[c] \in {"responding", "awaiting", "acked", "delivered"} =>
         outcome[c] \in Answered
    /\ client[c] = "idle" => server[c] = "none" /\ up[c] = "none"
    /\ client[c] = "acked" =>
         /\ terminal[c] = outcome[c] /\ outcome[c] \in Answered
         /\ server[c] \in {"awaiting", "acked", "delivered", "closed"}
    /\ server[c] = "acked" => outcome[c] = "ok"
    /\ server[c] \in {"acked", "delivered"} => client[c] = "acked"

\* What a frame on its way tells of both ends.
InFlight(c) ==
    /\ up[c] = "ack" => client[c] = "acked" /\ server[c] \in {"awaiting", "closed"}
    /\ down[c] \in Answered =>
         /\ client[c] = "waiting" /\ server[c] \in {"awaiting", "closed"}
         /\ down[c] = outcome[c]
    /\ down[c] = "barrier" =>
         /\ client[c] = "acked" /\ server[c] = "closed" /\ up[c] # "ack"
         /\ outcome[c] = "ok" => c \in committed

\* When the delivery of a call is committed.
Delivery(c) ==
    /\ c \in committed =>
         /\ server[c] \in {"delivered", "closed"} /\ outcome[c] = "ok"
         /\ client[c] \in {"acked", "resolved"}
    /\ server[c] = "delivered" /\ outcome[c] = "ok" => c \in committed
    /\ client[c] = "resolved" => c \in committed
    /\ client[c] = "rejected" => c \notin committed

\* A turn that settled has no call left that could change the capture.
Quiet ==
    turn \in {"settled", "taken"} =>
        /\ agent = "exited"
        /\ \A c \in Call : client[c] \notin {"waiting", "acked"}

TakenAll == taken = IF turn = "taken" THEN committed ELSE {}

Inv ==
    /\ Types
    /\ \A c \in Call : Handshake(c) /\ InFlight(c) /\ Delivery(c)
    /\ Quiet /\ TakenAll
-----------------------------------------------------------------------------
LEMMA InitInv == Init => Inv
BY DEF Init, Inv, Types, Client, Server, Busy, Outcome, Handshake, InFlight,
       Delivery, Quiet, TakenAll, Answered

\* Every step, by name: what the proof below splits on.
LEMMA NextCases ==
    ASSUME [Next]_vars
    PROVE  \/ \E c \in Call :
                \/ Request(c) \/ Accept(c) \/ Refuse(c)
                \/ Stage(c) \/ Finish(c) \/ ExecuteFails(c) \/ PeerGone(c)
                \/ Oversize(c) \/ Respond(c) \/ Undelivered(c)
                \/ ReadAck(c) \/ CommitDelivery(c) \/ CommitBarrier(c)
                \/ ReceiveResponse(c) \/ ReceiveBarrier(c) \/ ReceiveEnd(c)
                \/ AbortCall(c)
           \/ SettleTurn \/ FailTurn \/ ShutDown \/ Drain \/ Take
           \/ UNCHANGED vars
BY DEF Next, Handle, Receive

LEMMA StepInv == Inv /\ [Next]_vars => Inv'
<1> SUFFICES ASSUME Inv, [Next]_vars
             PROVE  Inv'
  OBVIOUS
<1> USE DEF Inv, Types, Client, Server, Busy, Outcome, Handshake, InFlight, Delivery,
            Quiet, TakenAll, Answered, wire, capture, host, Serve, Answer
<1>1. ASSUME NEW c \in Call, Request(c) \/ Accept(c) \/ Refuse(c)
      PROVE  Inv'
  BY <1>1 DEF Request, Accept, Refuse
<1>2. ASSUME NEW c \in Call, Stage(c) \/ Finish(c) \/ ExecuteFails(c) \/ PeerGone(c)
      PROVE  Inv'
  BY <1>2 DEF Stage, Finish, ExecuteFails, PeerGone, Discard
<1>3. ASSUME NEW c \in Call, Oversize(c) \/ Respond(c) \/ Undelivered(c) \/ ReadAck(c)
      PROVE  Inv'
  BY <1>3 DEF Oversize, Respond, Undelivered, ReadAck, Discard, Open
<1>4. ASSUME NEW c \in Call, CommitDelivery(c) \/ CommitBarrier(c)
      PROVE  Inv'
  BY <1>4 DEF CommitDelivery, CommitBarrier, Open
<1>5. ASSUME NEW c \in Call, ReceiveResponse(c) \/ ReceiveBarrier(c)
      PROVE  Inv'
  <2>1. CASE ReceiveResponse(c)
    BY <2>1 DEF ReceiveResponse, Open
  <2>2. CASE ReceiveBarrier(c)
    BY <2>2 DEF ReceiveBarrier, Settled, Open
  <2> QED
    BY <1>5, <2>1, <2>2
<1>6. ASSUME NEW c \in Call, ReceiveEnd(c) \/ AbortCall(c)
      PROVE  Inv'
  BY <1>6 DEF ReceiveEnd, AbortCall, Ended, Settled, Open
<1>7. CASE SettleTurn \/ FailTurn \/ ShutDown \/ Take \/ UNCHANGED vars
  BY <1>7 DEF SettleTurn, FailTurn, ShutDown, Take, Open, vars
<1>8. CASE Drain
  BY <1>8 DEF Drain, Serving
<1> QED
  BY <1>1, <1>2, <1>3, <1>4, <1>5, <1>6, <1>7, <1>8, NextCases

\* The agent and the capture never disagree about a call that settled, for any
\* number of calls.
THEOREM Agreement == Spec => []AgentAndCaptureAgree
<1>1. Inv => AgentAndCaptureAgree
  BY DEF Inv, Delivery, AgentAndCaptureAgree
<1> QED
  BY <1>1, InitInv, StepInv, PTL DEF Spec

\* A completed turn takes exactly what its agent was given.
THEOREM Completeness == Spec => []TakenIsDelivered
<1>1. Inv => TakenIsDelivered
  BY DEF Inv, Types, Delivery, Quiet, TakenAll, TakenIsDelivered
<1> QED
  BY <1>1, InitInv, StepInv, PTL DEF Spec
-----------------------------------------------------------------------------
\* What a call cites was delivered before the call was staged.
Cites(c) ==
    /\ \/ server[c] \in {"staged", "acked"}
       \/ server[c] \in {"responding", "awaiting"} /\ outcome[c] = "ok"
       => c \in pending
    /\ c \in pending \cup committed => Grounded(c)

Capacity ==
    \A m \in Method : Cardinality(Of(pending \cup committed, m)) <= Limit[m]

StagedInv == ask \in Plans /\ (\A c \in Call : Cites(c)) /\ Capacity

LEMMA InitStaged == Init => StagedInv
<1> SUFFICES ASSUME Init
             PROVE  StagedInv
  OBVIOUS
<1>1. \A m \in Method : Of(pending \cup committed, m) = {}
  BY DEF Init, Of
<1>2. Capacity
  BY <1>1, FS_EmptySet, LimitAssumption DEF Capacity
<1> QED
  BY <1>2 DEF Init, StagedInv, Cites

LEMMA AddsAtMostOne ==
    ASSUME NEW S, NEW x, IsFiniteSet(S)
    PROVE  /\ Cardinality(S \cup {x}) \in Nat
           /\ Cardinality(S \cup {x}) <= Cardinality(S) + 1
<1>1. Cardinality(S) \in Nat
  BY FS_CardinalityType
<1>2. Cardinality(S \cup {x}) = IF x \in S THEN Cardinality(S) ELSE Cardinality(S) + 1
  BY FS_AddElement
<1> QED
  BY <1>1, <1>2

\* Deliveries are staged one at a time, and where they fit.
LEMMA StageFits ==
    ASSUME Inv, StagedInv, NEW c \in Call, Stage(c)
    PROVE  Capacity'
<1> DEFINE S == pending \cup committed
<1>1. method' = method /\ S' = S \cup {c}
  BY DEF Stage, method
<1>2. SUFFICES ASSUME NEW m \in Method
               PROVE  Cardinality(Of(S, m)') <= Limit[m]
  BY DEF Capacity
<1>3. IsFiniteSet(Of(S, m)) /\ Cardinality(Of(S, m)) \in Nat
  <2>1. Of(S, m) \in SUBSET Call
    BY DEF Of, Inv, Types
  <2> QED
    BY <2>1, CallAssumption, FS_Subset, FS_CardinalityType
<1>4. CASE m = method[c]
  <2>1. Of(S, m)' = Of(S, m) \cup {c}
    BY <1>1, <1>4 DEF Of
  <2>2. Cardinality(Of(S, m)) < Limit[m]
    BY <1>4 DEF Stage, Fits
  <2>3. /\ Cardinality(Of(S, m)') \in Nat
        /\ Cardinality(Of(S, m)') <= Cardinality(Of(S, m)) + 1
    BY <1>3, <2>1, AddsAtMostOne
  <2> QED
    BY <1>3, <2>2, <2>3, LimitAssumption
<1>5. CASE m # method[c]
  <2>1. Of(S, m)' = Of(S, m)
    BY <1>1, <1>5 DEF Of
  <2> QED
    BY <2>1 DEF StagedInv, Capacity
<1> QED
  BY <1>4, <1>5

\* A capture that only loses deliveries keeps fitting.
LEMMA FewerFit ==
    ASSUME Inv, StagedInv, UNCHANGED ask,
           pending' \cup committed' \subseteq pending \cup committed
    PROVE  Capacity'
<1> DEFINE S == pending \cup committed
<1>1. method' = method
  BY DEF method
<1>2. SUFFICES ASSUME NEW m \in Method
               PROVE  Cardinality(Of(S, m)') <= Limit[m]
  BY DEF Capacity
<1>3. Of(S, m)' \subseteq Of(S, m) /\ Of(S, m) \subseteq Call
  BY <1>1 DEF Of, Inv, Types
<1>4. IsFiniteSet(Of(S, m))
  BY <1>3, CallAssumption, FS_Subset
<1>5. /\ Cardinality(Of(S, m)') <= Cardinality(Of(S, m))
      /\ IsFiniteSet(Of(S, m)')
  BY <1>3, <1>4, FS_Subset
<1>6. Cardinality(Of(S, m)') \in Nat /\ Cardinality(Of(S, m)) \in Nat
  BY <1>4, <1>5, FS_CardinalityType
<1>7. Cardinality(Of(S, m)) <= Limit[m]
  BY DEF StagedInv, Capacity
<1> QED
  BY <1>5, <1>6, <1>7, LimitAssumption

LEMMA StagedStep == Inv /\ StagedInv /\ [Next]_vars => StagedInv'
<1> SUFFICES ASSUME Inv, StagedInv, [Next]_vars
             PROVE  StagedInv'
  OBVIOUS
<1>1. /\ Types /\ ask \in Plans
      /\ \A c \in Call : Handshake(c) /\ InFlight(c) /\ Delivery(c) /\ Cites(c)
  BY DEF Inv, StagedInv
<1> USE DEF Types, Client, Server, Busy, Outcome, Answered, Cites, Grounded, Counted,
            wire, capture, host, Serve, Answer
<1>2. ASSUME UNCHANGED <<ask, server, outcome, pending, committed>>
      PROVE  StagedInv'
  <2>1. Capacity'
    BY <1>2, FewerFit
  <2> QED
    BY <1>1, <1>2, <2>1 DEF StagedInv, method, cites
<1>3. ASSUME NEW c \in Call, Accept(c) \/ Refuse(c)
      PROVE  StagedInv'
  <2>1. /\ UNCHANGED <<ask, pending, committed>>
        /\ \A d \in Call \ {c} : server'[d] = server[d] /\ outcome'[d] = outcome[d]
        /\ \/ server'[c] \in {"executing", "closed"}
           \/ server'[c] = "responding" /\ outcome'[c] = "error"
    BY <1>1, <1>3 DEF Accept, Refuse
  <2>2. Capacity'
    BY <2>1, FewerFit
  <2> QED
    BY <1>1, <2>1, <2>2 DEF StagedInv, method, cites
<1>4. ASSUME NEW c \in Call, Stage(c)
      PROVE  StagedInv'
  <2>1. Capacity'
    BY <1>4, StageFits
  <2> QED
    BY <1>1, <1>4, <2>1 DEF Stage, StagedInv, method, cites
<1>5. ASSUME NEW c \in Call, Finish(c) \/ Respond(c) \/ ReadAck(c) \/ CommitBarrier(c)
      PROVE  StagedInv'
  <2>1. /\ UNCHANGED <<ask, pending, committed>>
        /\ \A d \in Call \ {c} : server'[d] = server[d] /\ outcome'[d] = outcome[d]
        /\ \/ c \in pending
           \/ server'[c] \in {"closed", "delivered"}
           \/ server'[c] = "awaiting" /\ outcome'[c] # "ok"
    BY <1>1, <1>5 DEF Finish, Respond, ReadAck, CommitBarrier, Handshake
  <2>2. Capacity'
    BY <2>1, FewerFit
  <2> QED
    BY <1>1, <2>1, <2>2 DEF StagedInv, method, cites
<1>6. ASSUME NEW c \in Call,
             ExecuteFails(c) \/ PeerGone(c) \/ Oversize(c) \/ Undelivered(c)
      PROVE  StagedInv'
  <2>1. /\ UNCHANGED <<ask, committed>> /\ pending' = pending \ {c}
        /\ \A d \in Call \ {c} : server'[d] = server[d] /\ outcome'[d] = outcome[d]
        /\ \/ server'[c] = "closed"
           \/ server'[c] = "responding" /\ outcome'[c] = "error"
    <3>1. CASE ExecuteFails(c)
      BY <1>1, <3>1 DEF ExecuteFails, Discard
    <3>2. CASE PeerGone(c)
      BY <1>1, <3>2 DEF PeerGone, Discard
    <3>3. CASE Oversize(c)
      BY <1>1, <3>3 DEF Oversize, Discard
    <3>4. CASE Undelivered(c)
      BY <1>1, <3>4 DEF Undelivered, Discard
    <3> QED
      BY <1>6, <3>1, <3>2, <3>3, <3>4
  <2>2. Capacity'
    BY <2>1, FewerFit
  <2>3. ASSUME NEW d \in Call
        PROVE  Cites(d)'
    <3>1. CASE d = c
      BY <1>1, <2>1, <3>1 DEF method, cites
    <3>2. CASE d # c
      BY <1>1, <2>1, <3>2 DEF method, cites
    <3> QED
      BY <3>1, <3>2
  <2> QED
    BY <1>1, <2>1, <2>2, <2>3 DEF StagedInv
<1>7. ASSUME NEW c \in Call, CommitDelivery(c)
      PROVE  StagedInv'
  <2>1. c \in pending
    BY <1>1, <1>7 DEF CommitDelivery
  <2>2. Capacity'
    BY <1>7, <2>1, FewerFit DEF CommitDelivery
  <2>3. /\ UNCHANGED <<ask, outcome>> /\ pending' = pending \ {c} /\ committed' = committed \cup {c}
        /\ server'[c] = "delivered" /\ \A d \in Call \ {c} : server'[d] = server[d]
    BY <1>1, <1>7 DEF CommitDelivery
  <2>4. ASSUME NEW d \in Call
        PROVE  Cites(d)'
    <3>1. CASE d = c
      BY <1>1, <2>1, <2>3, <3>1 DEF method, cites
    <3>2. CASE d # c
      BY <1>1, <2>3, <3>2 DEF method, cites
    <3> QED
      BY <3>1, <3>2
  <2> QED
    BY <1>1, <2>2, <2>3, <2>4 DEF StagedInv
<1>8. CASE Drain
  <2>1. Capacity'
    BY <1>8, FewerFit DEF Drain
  <2> QED
    BY <1>1, <1>8, <2>1 DEF Drain, Serving, StagedInv, method, cites
<1>9. ASSUME NEW c \in Call,
             Request(c) \/ ReceiveResponse(c) \/ ReceiveBarrier(c) \/ ReceiveEnd(c)
               \/ AbortCall(c)
      PROVE  StagedInv'
  BY <1>2, <1>9 DEF Request, ReceiveResponse, ReceiveBarrier, ReceiveEnd, AbortCall
<1>10. CASE SettleTurn \/ FailTurn \/ ShutDown \/ Take \/ UNCHANGED vars
  BY <1>2, <1>10 DEF SettleTurn, FailTurn, ShutDown, Take, vars
<1> QED
  BY <1>3, <1>4, <1>5, <1>6, <1>7, <1>8, <1>9, <1>10, NextCases

\* Whatever a turn takes cites only what it takes as well, whatever the agent
\* asked and in whatever order its calls were delivered.
THEOREM Citations == Spec => []CitationsAreDelivered
<1>1. Inv /\ StagedInv => CitationsAreDelivered
  BY DEF Inv, Types, StagedInv, Cites, Grounded, Counted, CitationsAreDelivered, Of
<1> QED
  BY <1>1, InitInv, StepInv, InitStaged, StagedStep, PTL DEF Spec
-----------------------------------------------------------------------------
\* TransactionCardinality counts the reservations that are held or kept.
Holds(c) == Reserves(c) \/ Kept(c)

Counting ==
    /\ ask \in Plans /\ used \in [Method -> Nat] /\ CountersAreExact
    /\ \A m \in Method : used[m] <= Limit[m]

LEMMA HoldersFinite ==
    ASSUME NEW m
    PROVE  IsFiniteSet(Holders(m)) /\ Cardinality(Holders(m)) \in Nat
BY CallAssumption, FS_Subset, FS_CardinalityType DEF Holders, Of

LEMMA MethodType == ask \in Plans => method \in [Call -> Method]
BY PlanAssumption DEF method

\* Nothing is reserved or dropped.
LEMMA SameHolders ==
    ASSUME Counting, UNCHANGED <<ask, used>>, \A d \in Call : Holds(d)' <=> Holds(d)
    PROVE  Counting'
<1>1. \A m : Holders(m)' = Holders(m)
  BY DEF Holders, Holds, Of, method
<1> QED
  BY <1>1 DEF Counting, CountersAreExact

\* A reservation within the limit.
LEMMA OneMoreHolder ==
    ASSUME Counting, UNCHANGED ask, NEW c \in Call,
           ~Holds(c), \A d \in Call : Holds(d)' <=> Holds(d) \/ d = c,
           used' = [used EXCEPT ![method[c]] = @ + 1],
           used[method[c]] < Limit[method[c]]
    PROVE  Counting'
<1>1. method' = method /\ method[c] \in Method
  BY MethodType DEF Counting, method
<1>2. used' \in [Method -> Nat] /\ \A m \in Method : used'[m] <= Limit[m]
  <2>1. used \in [Method -> Nat] /\ Limit \in [Method -> Nat]
    BY LimitAssumption DEF Counting
  <2>2. used' \in [Method -> Nat]
    BY <1>1, <2>1
  <2>3. ASSUME NEW m \in Method
        PROVE  used'[m] <= Limit[m]
    <3>1. used[m] <= Limit[m]
      BY DEF Counting
    <3> QED
      BY <1>1, <2>1, <3>1
  <2> QED
    BY <2>2, <2>3
<1>3. ASSUME NEW m \in Method
      PROVE  used'[m] = Cardinality(Holders(m)')
  <2>1. CASE m = method[c]
    <3>1. Holders(m)' = Holders(m) \cup {c} /\ c \notin Holders(m)
      BY <1>1, <2>1 DEF Holders, Holds, Of
    <3>2. Cardinality(Holders(m)') = Cardinality(Holders(m)) + 1
      BY <3>1, HoldersFinite, FS_AddElement
    <3> QED
      BY <2>1, <3>2 DEF Counting, CountersAreExact
  <2>2. CASE m # method[c]
    <3>1. Holders(m)' = Holders(m)
      BY <1>1, <2>2 DEF Holders, Holds, Of
    <3> QED
      BY <2>2, <3>1 DEF Counting, CountersAreExact
  <2> QED
    BY <2>1, <2>2
<1> QED
  BY <1>2, <1>3 DEF Counting, CountersAreExact

\* What Release does, for a call that keeps nothing.
LEMMA OneLessHolder ==
    ASSUME Counting, UNCHANGED ask, NEW c \in Call, c \notin committed, Release(c),
           ~Holds(c)', \A d \in Call \ {c} : Holds(d)' <=> Holds(d)
    PROVE  Counting'
<1>1. method' = method /\ method[c] \in Method
  BY MethodType DEF Counting, method
<1>2. CASE ~Reserves(c)
  <2>1. used' = used /\ ~Holds(c)
    BY <1>2 DEF Release, Holds, Kept
  <2> QED
    BY <2>1, SameHolders
<1>3. CASE Reserves(c)
  <2>1. used' = [used EXCEPT ![method[c]] = @ - 1]
    BY <1>3 DEF Release
  <2>2. c \in Holders(method[c])
    BY <1>3 DEF Holders, Of
  <2>3. ASSUME NEW m \in Method
        PROVE  used'[m] = Cardinality(Holders(m)') /\ used'[m] <= used[m]
    <3>1. CASE m = method[c]
      <4>1. Holders(m)' = Holders(m) \ {c}
        BY <1>1, <3>1 DEF Holders, Holds, Of
      <4>2. Cardinality(Holders(m)') = Cardinality(Holders(m)) - 1
        BY <2>2, <3>1, <4>1, HoldersFinite, FS_RemoveElement
      <4> QED
        BY <2>1, <3>1, <4>2 DEF Counting, CountersAreExact
    <3>2. CASE m # method[c]
      <4>1. Holders(m)' = Holders(m)
        BY <1>1, <3>2 DEF Holders, Holds, Of
      <4> QED
        BY <2>1, <3>2, <4>1 DEF Counting, CountersAreExact
    <3> QED
      BY <3>1, <3>2
  <2>4. \A m \in Method : Holders(m)' \subseteq Call
    BY DEF Holders, Of
  <2>5. \A m \in Method : Cardinality(Holders(m)') \in Nat
    BY <2>4, CallAssumption, FS_Subset, FS_CardinalityType
  <2>6. used' \in [Method -> Nat]
    BY <2>1, <2>3, <2>5 DEF Counting
  <2>7. \A m \in Method : used'[m] <= Limit[m]
    BY <2>3, <2>6, LimitAssumption DEF Counting
  <2> QED
    BY <2>3, <2>6, <2>7 DEF Counting, CountersAreExact
<1> QED
  BY <1>2, <1>3

\* Aborting the handlers drops every reservation that is not kept.
LEMMA DrainDrops ==
    ASSUME Inv, Counting, Drain
    PROVE  Counting'
<1> DEFINE Dropped(m) == {c \in Of(Serving, m) : Reserves(c)}
<1>1. /\ UNCHANGED <<ask, outcome, committed>>
      /\ used' = [m \in Method |-> used[m] - Cardinality(Dropped(m))]
      /\ \A d \in Call : server'[d] = IF d \in Serving THEN "closed" ELSE server[d]
  BY DEF Drain, capture
<1>2. \A d \in Call : /\ ~Reserves(d)'
                      /\ Kept(d)' <=> Kept(d)
                      /\ Reserves(d) => d \in Serving /\ ~Kept(d)
  <2>1. \A d \in Call : d \in committed => server[d] \in {"delivered", "closed"}
    BY DEF Inv, Delivery
  <2> QED
    BY <1>1, <2>1 DEF Reserves, Kept, Counted, Serving, Busy, method
<1>3. ASSUME NEW m \in Method
      PROVE  /\ used'[m] = Cardinality(Holders(m)') /\ used'[m] \in Nat
             /\ used'[m] <= Limit[m]
  <2>1. Holders(m)' = Holders(m) \ Dropped(m)
    BY <1>1, <1>2 DEF Holders, Of, method, Serving
  <2>2. Dropped(m) \subseteq Holders(m)
    BY DEF Holders, Of, Serving
  <2>3. Holders(m) \cap Dropped(m) = Dropped(m)
    BY <2>2
  <2> HIDE DEF Dropped
  <2>4. Cardinality(Holders(m)') = Cardinality(Holders(m)) - Cardinality(Dropped(m))
    BY <2>1, <2>3, HoldersFinite, FS_Difference
  <2>5. IsFiniteSet(Holders(m)')
    BY <2>1, HoldersFinite, FS_Difference
  <2>6. Cardinality(Holders(m)') \in Nat /\ Cardinality(Dropped(m)) \in Nat
    BY <2>2, <2>5, HoldersFinite, FS_Subset, FS_CardinalityType
  <2>7. used'[m] = used[m] - Cardinality(Dropped(m)) /\ used[m] = Cardinality(Holders(m))
    BY <1>1 DEF Counting, CountersAreExact
  <2>8. used[m] \in Nat /\ used[m] <= Limit[m] /\ Limit[m] \in Nat
    BY LimitAssumption DEF Counting
  <2> QED
    BY <2>4, <2>6, <2>7, <2>8
<1>4. used' \in [Method -> Nat]
  BY <1>1, <1>3
<1> QED
  BY <1>1, <1>3, <1>4 DEF Counting, CountersAreExact

LEMMA CountingStep == Inv /\ Counting /\ [Next]_vars => Counting'
<1> SUFFICES ASSUME Inv, Counting, [Next]_vars
             PROVE  Counting'
  OBVIOUS
<1>1. /\ Types
      /\ \A c \in Call : Handshake(c) /\ Delivery(c)
  BY DEF Inv
<1> USE DEF Types, Client, Server, Busy, Outcome, Answered, wire, capture, host,
            Serve, Answer, Holds, Reserves, Kept, Counted, method
<1>2. ASSUME NEW c \in Call, Accept(c)
      PROVE  Counting'
  <2>1. ~Holds(c) /\ outcome[c] = "none"
    BY <1>1, <1>2 DEF Accept, Handshake, Delivery
  <2>2. CASE Counted(c) /\ used[method[c]] < Limit[method[c]]
    <3>1. /\ UNCHANGED <<ask, outcome, committed>>
          /\ server' = [server EXCEPT ![c] = "executing"]
          /\ used' = [used EXCEPT ![method[c]] = @ + 1]
      <4>1. ~(used[method[c]] >= Limit[method[c]])
        BY <2>2, LimitAssumption, MethodType DEF Counting
      <4> QED
        BY <1>2, <2>2, <4>1 DEF Accept
    <3>2. \A d \in Call : Holds(d)' <=> Holds(d) \/ d = c
      BY <1>1, <2>1, <2>2, <3>1
    <3> QED
      BY <2>1, <2>2, <3>1, <3>2, OneMoreHolder
  <2>3. CASE ~(Counted(c) /\ used[method[c]] < Limit[method[c]])
    <3>1. /\ UNCHANGED <<ask, used, committed>>
          /\ \A d \in Call \ {c} : server'[d] = server[d] /\ outcome'[d] = outcome[d]
          /\ ~Counted(c) \/ outcome'[c] = "error"
      <4>1. Counted(c) => used[method[c]] >= Limit[method[c]]
        BY <2>3, LimitAssumption, MethodType DEF Counting
      <4> QED
        BY <1>1, <1>2, <4>1 DEF Accept
    <3>2. \A d \in Call : Holds(d)' <=> Holds(d)
      BY <1>1, <2>1, <3>1
    <3> QED
      BY <3>1, <3>2, SameHolders
  <2> QED
    BY <2>2, <2>3
<1>3. ASSUME NEW c \in Call,
             Refuse(c) \/ Stage(c) \/ Finish(c) \/ Respond(c) \/ ReadAck(c)
      PROVE  Counting'
  <2>1. \A d \in Call : Holds(d)' <=> Holds(d)
    BY <1>1, <1>3 DEF Refuse, Stage, Finish, Respond, ReadAck, Handshake, Delivery
  <2> QED
    BY <1>3, <2>1, SameHolders DEF Refuse, Stage, Finish, Respond, ReadAck
<1>4. ASSUME NEW c \in Call, CommitDelivery(c) \/ CommitBarrier(c)
      PROVE  Counting'
  <2>1. \A d \in Call : Holds(d)' <=> Holds(d)
    BY <1>1, <1>4 DEF CommitDelivery, CommitBarrier, Handshake, Delivery
  <2> QED
    BY <1>4, <2>1, SameHolders DEF CommitDelivery, CommitBarrier
<1>5. ASSUME NEW c \in Call,
             ExecuteFails(c) \/ PeerGone(c) \/ Oversize(c) \/ Undelivered(c)
      PROVE  Counting'
  <2>1. /\ c \notin committed /\ Release(c) /\ UNCHANGED <<ask, committed>>
        /\ server'[c] = "closed" \/ outcome'[c] = "error"
        /\ \A d \in Call \ {c} : server'[d] = server[d] /\ outcome'[d] = outcome[d]
    <3>1. CASE ExecuteFails(c)
      BY <1>1, <3>1 DEF ExecuteFails, Discard, Delivery
    <3>2. CASE PeerGone(c)
      BY <1>1, <3>2 DEF PeerGone, Discard, Delivery
    <3>3. CASE Oversize(c)
      BY <1>1, <3>3 DEF Oversize, Discard, Delivery
    <3>4. CASE Undelivered(c)
      BY <1>1, <3>4 DEF Undelivered, Discard, Delivery
    <3> QED
      BY <1>5, <3>1, <3>2, <3>3, <3>4
  <2>2. ~Holds(c)' /\ \A d \in Call \ {c} : Holds(d)' <=> Holds(d)
    BY <2>1
  <2> QED
    BY <2>1, <2>2, OneLessHolder
<1>6. CASE Drain
  BY <1>6, DrainDrops
<1>7. ASSUME UNCHANGED <<ask, server, outcome, used, committed>>
      PROVE  Counting'
  <2>1. \A d \in Call : Holds(d)' <=> Holds(d)
    BY <1>7
  <2> QED
    BY <1>7, <2>1, SameHolders
<1>8. ASSUME NEW c \in Call,
             Request(c) \/ ReceiveResponse(c) \/ ReceiveBarrier(c) \/ ReceiveEnd(c)
               \/ AbortCall(c)
      PROVE  Counting'
  BY <1>7, <1>8 DEF Request, ReceiveResponse, ReceiveBarrier, ReceiveEnd, AbortCall
<1>9. CASE SettleTurn \/ FailTurn \/ ShutDown \/ Take \/ UNCHANGED vars
  BY <1>7, <1>9 DEF SettleTurn, FailTurn, ShutDown, Take, vars
<1> QED
  BY <1>2, <1>3, <1>4, <1>5, <1>6, <1>8, <1>9, NextCases

LEMMA InitCounting == Init => Counting
<1> SUFFICES ASSUME Init
             PROVE  Counting
  OBVIOUS
<1>1. \A m \in Method : Holders(m) = {}
  BY DEF Init, Holders, Of, Reserves, Kept, Busy
<1>2. CountersAreExact
  BY <1>1, FS_EmptySet DEF Init, CountersAreExact
<1> QED
  BY <1>2, LimitAssumption DEF Init, Counting

\* No ending of a call, of a handler or of the broker leaves a reservation
\* behind or drops one twice, so neither the reservations nor the capture ever
\* exceed what a turn allows.
THEOREM Budgets == Spec => []BudgetsHold
<1>1. StagedInv /\ Counting => BudgetsHold
  BY DEF StagedInv, Capacity, Counting, CountersAreExact, BudgetsHold
<1> QED
  BY <1>1, InitInv, StepInv, InitStaged, StagedStep, InitCounting, CountingStep, PTL
     DEF Spec

\* Every variable stays in its set; in particular no counter underflows.
THEOREM TypeCorrect == Spec => []TypeOK
<1>1. Inv /\ Counting => TypeOK
  BY DEF Inv, Types, Counting, TakenAll, TypeOK
<1> QED
  BY <1>1, InitInv, StepInv, InitCounting, CountingStep, PTL DEF Spec

\* What a completed turn takes is what its agent was given, and it cites nothing
\* else, whatever was aborted, late or lost.
THEOREM CaptureWhole == Spec => []CaptureIsWhole
BY Completeness, Citations, PTL DEF CaptureIsWhole
\* The agent, the capture and the turn agree about every delivery.
THEOREM Deliveries == Spec => []DeliveriesAgree
BY Agreement, CaptureWhole, PTL DEF DeliveriesAgree
=============================================================================
