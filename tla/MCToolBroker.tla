---------------------------- MODULE MCToolBroker ----------------------------
EXTENDS ToolBroker, TLC

CONSTANTS c1, c2, c3

MCCall == {c1, c2, c3}
Ask(m, d) == [method |-> m, cites |-> d]

Result == Ask("result", NoCall)

\* A Decision on Evidence on a result; Evidence twice; a result twice.
SmallPlans ==
    {c1 :> Result @@ c2 :> Ask("evidence", c1) @@ c3 :> Ask("decision", c2),
     c1 :> Result @@ c2 :> Ask("evidence", c1) @@ c3 :> Ask("evidence", c1),
     c1 :> Result @@ c2 :> Result @@ c3 :> Ask("evidence", c1)}

\* One delivery of each kind fills the turn.
SmallLimit == [m \in Method |-> 1]
=============================================================================
