---------------------------- MODULE ServicesProofs ----------------------------
(***************************************************************************)
(* What the parts of one application keep to, for any number of Gurus,     *)
(* turns, cells, requests and versions: a connector is used as it was      *)
(* verified, a file of the workbench is replaced as it was seen, compute   *)
(* hosts are clean, the updater does as agreed, models shown as fresh are  *)
(* those of the stored credential, the renderer shows the progress that    *)
(* the turn made, and no page lies above it but the one the user turned    *)
(* to.  Each part has an inductive invariant of its own; the other parts   *)
(* leave its variables alone, but for the end of the process, which the    *)
(* updater and the provider share.                                         *)
(***************************************************************************)
EXTENDS Services, Sequences, FiniteSetTheorems, SequenceTheorems, TLAPS

\* Connectors.  A Guru has a connector enabled only while there is an accepted
\* credential; a command disables all of them before it takes the credential
\* away, and takes it away before it writes another scope.
Field == Scope \cup {None}
Binding  == [enabled : BOOLEAN, stamp : Nat]
Commands == [op : {"free", "disable", "write"}, left : SUBSET Guru, value : Field]
Probing  == [step : {"none", "asks", "answers"}, revision : Nat, scope : Field, asked : Field]
Grant    == [binding : Binding, config : Nat, credential : Nat]
Turning  == [step : {"none", "runs", "sealed"}, guru : Guru \cup {None},
             authority : Grant \cup {None}, stale : BOOLEAN]
MarketTypeOK ==
    /\ bindings \in [Guru -> Binding]
    /\ config \in [value : Field, revision : Nat]
    /\ active \in [revision : Nat, at : Field] \cup {None}
    /\ candidate \in Nat \cup {None}
    /\ command \in Commands /\ probes \in [Probe -> Probing]
    /\ turns \in [Session -> Turning] /\ changes \in Nat

Accepted ==
    /\ active # None => active.at = config.value
    /\ \A g \in Guru : bindings[g].enabled => active # None
    /\ command.op = "disable" => \A g \in Guru \ command.left : ~bindings[g].enabled
    /\ command.op = "write" /\ command.value # config.value =>
         active = None /\ candidate = None /\ \A g \in Guru : ~bindings[g].enabled

\* A candidate that is still the one a verification asked about was asked about
\* in the scope of now.
Asked ==
    \A v \in Probe :
        /\ probes[v].revision <= changes
        /\ probes[v].step # "none" /\ candidate = probes[v].revision =>
             /\ probes[v].scope = config.value
             /\ probes[v].step = "answers" => probes[v].asked = config.value

\* Revisions and stamps are taken from one counter.
Counted ==
    /\ candidate # None => candidate <= changes
    /\ active # None => active.revision <= changes
    /\ candidate # None /\ active # None => active.revision < candidate
    /\ candidate # None => candidate > 0
    /\ config.revision <= changes
    /\ \A g \in Guru : bindings[g].stamp <= changes

\* What a running turn captured, and how that differs from what there is now if
\* it changed in between.
Captured(t) ==
    turns[t].step = "runs" =>
        /\ turns[t].guru \in Guru /\ turns[t].authority \in Grant
        /\ turns[t].authority.binding.stamp <= bindings[turns[t].guru].stamp
        /\ turns[t].authority.config <= config.revision
        /\ turns[t].authority.credential <= changes
        /\ candidate # None => turns[t].authority.credential < candidate
Differs(t) ==
    LET g == turns[t].guru IN
    turns[t].step = "runs" /\ turns[t].stale =>
        \/ turns[t].authority.binding.stamp < bindings[g].stamp
        \/ turns[t].authority.config < config.revision
        \/ bindings[g].enabled /\ turns[t].authority.credential < Market!Revision
Sealed(t) == turns[t].step = "sealed" => ~turns[t].stale
Sessions  == \A t \in Session : Captured(t) /\ Differs(t) /\ Sealed(t)

MarketInv == MarketTypeOK /\ Accepted /\ Asked /\ Counted /\ Sessions


\* Another change marks the running turns that it concerns and no other.
LEMMA TurnTypes ==
    ASSUME turns \in [Session -> Turning], NEW gurus, Market!Change(gurus)
    PROVE  /\ turns' \in [Session -> Turning]
           /\ \A t \in Session : turns'[t] = [turns[t] EXCEPT !.stale = turns'[t].stale]
           /\ \A t \in Session : turns'[t].stale <=>
                turns[t].stale \/ (turns[t].step = "runs" /\ turns[t].guru \in gurus)
<1>1. ASSUME NEW t \in Session
      PROVE  /\ turns'[t] \in Turning
             /\ turns'[t] = [turns[t] EXCEPT !.stale = turns'[t].stale]
             /\ turns'[t].stale <=>
                  turns[t].stale \/ (turns[t].step = "runs" /\ turns[t].guru \in gurus)
  <2> DEFINE marked == turns[t].stale \/ (turns[t].step = "runs" /\ turns[t].guru \in gurus)
  <2>1. turns'[t] = [turns[t] EXCEPT !.stale = marked]
    BY DEF Market!Change
  <2>2. turns[t] \in Turning /\ marked \in BOOLEAN
    BY DEF Turning
  <2> HIDE DEF marked
  <2>3. [turns[t] EXCEPT !.stale = marked] \in Turning /\ [turns[t] EXCEPT !.stale = marked].stale = marked
    BY <2>2 DEF Turning
  <2> QED
    BY <2>1, <2>3 DEF marked
<1> QED
  BY <1>1 DEF Market!Change

\* What a command saves is a binding.
LEMMA BindingType ==
    ASSUME NEW enabled \in BOOLEAN, NEW stamp \in Nat
    PROVE  [enabled |-> enabled, stamp |-> stamp] \in Binding
BY DEF Binding

\* A session that does nothing is well typed.
LEMMA TurnRests == Market!NoTurn \in Turning
BY DEF Market!NoTurn, Turning

\* The commands keep the types.
LEMMA MarketTypes ==
    ASSUME MarketTypeOK, Market!ConnectorsNext
    PROVE  MarketTypeOK'
<1>0. /\ bindings \in [Guru -> Binding] /\ probes \in [Probe -> Probing]
      /\ config \in [value : Field, revision : Nat]
      /\ active \in [revision : Nat, at : Field] \cup {None}
      /\ candidate \in Nat \cup {None} /\ command \in Commands /\ changes \in Nat
      /\ turns \in [Session -> Turning]
  BY DEF MarketTypeOK
<1>1. CASE Market!Save
  BY <1>0, <1>1 DEF Market!Save, Market!Used, Market!Fresh, MarketTypeOK
<1>2. ASSUME NEW op \in {"disable", "write"}, NEW value \in Field,
             command' = [op |-> op, left |-> Guru, value |-> value],
             UNCHANGED <<bindings, config, active, candidate, probes, turns, changes>>
      PROVE  MarketTypeOK'
  BY <1>0, <1>2 DEF Commands, MarketTypeOK
<1>3. CASE Market!Delete
  BY <1>2, <1>3 DEF Market!Delete, Field
<1>4. ASSUME NEW value \in Scope, Market!Configure(value)
      PROVE  MarketTypeOK'
  BY <1>2, <1>4 DEF Market!Configure, Field
<1>5. ASSUME NEW v \in Probe, Market!BeginVerification(v)
      PROVE  MarketTypeOK'
  <2>1. candidate \in Nat /\ config.value \in Field
    BY <1>0, <1>5 DEF Market!BeginVerification
  <2>2. probes' \in [Probe -> Probing]
    BY <1>0, <1>5, <2>1 DEF Market!BeginVerification, Market!Resting, Probing, Field
  <2> QED
    BY <1>0, <1>5, <2>2 DEF Market!BeginVerification, MarketTypeOK
<1>6. ASSUME NEW v \in Probe, Market!FinishVerification(v)
      PROVE  MarketTypeOK'
  <2>1. probes' \in [Probe -> Probing]
    BY <1>0, <1>6 DEF Market!FinishVerification, Market!Resting, Probing, Field
  <2>2. probes[v].asked \in Field /\ probes[v].revision \in Nat
    BY <1>0 DEF Probing
  <2>3. active' \in [revision : Nat, at : Field] \cup {None} /\ candidate' \in Nat \cup {None}
    BY <1>0, <1>6, <2>2 DEF Market!FinishVerification, Market!IsCurrent
  <2>4. turns' \in [Session -> Turning]
    BY <1>0, <1>6, TurnTypes DEF Market!FinishVerification
  <2> QED
    BY <1>0, <1>6, <2>1, <2>3, <2>4 DEF Market!FinishVerification, MarketTypeOK
<1>7. ASSUME NEW v \in Probe, NEW scope \in Field, Market!Ask(v, scope)
      PROVE  MarketTypeOK'
  <2>1. probes[v] \in Probing
    BY <1>0
  <2>2. [probes[v] EXCEPT !.step = "answers", !.asked = scope] \in Probing
    BY <2>1 DEF Probing
  <2>3. probes' = [probes EXCEPT ![v] = [probes[v] EXCEPT !.step = "answers", !.asked = scope]]
    BY <1>0, <1>7 DEF Market!Ask
  <2>4. probes' \in [Probe -> Probing]
    BY <1>0, <2>2, <2>3
  <2> QED
    BY <1>0, <1>7, <2>4 DEF Market!Ask, MarketTypeOK
<1>8. ASSUME NEW g \in Guru, NEW enabled \in BOOLEAN, Market!Used, Market!Change({g}),
             bindings' = [bindings EXCEPT ![g] = [enabled |-> enabled, stamp |-> Market!Fresh]]
      PROVE  /\ bindings' \in [Guru -> Binding] /\ changes' \in Nat
             /\ turns' \in [Session -> Turning]
  <2>1. Market!Fresh \in Nat /\ changes' = Market!Fresh
    BY <1>0, <1>8 DEF Market!Fresh, Market!Used
  <2>2. [enabled |-> enabled, stamp |-> Market!Fresh] \in Binding
    BY <2>1, BindingType
  <2> QED
    BY <1>0, <1>8, <2>1, <2>2, TurnTypes
<1>9. ASSUME NEW g \in Guru, Market!DisableOne(g)
      PROVE  MarketTypeOK'
  <2>1. [command EXCEPT !.left = command.left \ {g}] \in Commands
    BY <1>0 DEF Commands
  <2>2. CASE UNCHANGED <<bindings, turns, changes>>
    BY <1>0, <1>9, <2>1, <2>2 DEF Market!DisableOne, MarketTypeOK
  <2>3. CASE ~UNCHANGED <<bindings, turns, changes>>
    BY <1>0, <1>8, <1>9, <2>1, <2>3 DEF Market!DisableOne, MarketTypeOK
  <2> QED
    BY <2>2, <2>3
<1>10. ASSUME NEW g \in Guru, NEW enabled \in BOOLEAN, Market!SaveBinding(g, enabled)
       PROVE  MarketTypeOK'
  BY <1>0, <1>8, <1>10 DEF Market!SaveBinding, MarketTypeOK
<1>11. CASE Market!DropCredentials
  <2>1. [command EXCEPT !.op = "write"] \in Commands /\ Market!Free \in Commands
    BY <1>0 DEF Commands, Market!Free, Field
  <2> QED
    BY <1>0, <1>11, <2>1 DEF Market!DropCredentials, MarketTypeOK
<1>12. CASE Market!WriteConfig
  <2>1. Market!Free \in Commands /\ command.value \in Field
    BY <1>0 DEF Commands, Market!Free, Field
  <2>2. CASE UNCHANGED <<config, turns, changes>>
    BY <1>0, <1>12, <2>1, <2>2 DEF Market!WriteConfig, MarketTypeOK
  <2>3. CASE Market!Used /\ config' = [value |-> command.value, revision |-> Market!Fresh] /\ Market!Change(Guru)
    <3>1. config' \in [value : Field, revision : Nat] /\ changes' \in Nat
      BY <1>0, <2>1, <2>3 DEF Market!Used, Market!Fresh
    <3>2. turns' \in [Session -> Turning]
      BY <1>0, <2>3, TurnTypes
    <3> QED
      BY <1>0, <1>12, <2>1, <3>1, <3>2 DEF Market!WriteConfig, MarketTypeOK
  <2> QED
    BY <1>12, <2>2, <2>3 DEF Market!WriteConfig
<1>13. CASE Market!CommandFails
  <2>1. Market!Free \in Commands
    BY DEF Commands, Market!Free, Field
  <2> QED
    BY <1>0, <1>13, <2>1 DEF Market!CommandFails, MarketTypeOK
<1>14. CASE Market!Crash
  <2>1. Market!Free \in Commands /\ Market!Resting \in Probing
    BY DEF Commands, Market!Free, Field, Probing, Market!Resting
  <2>2. turns' \in [Session -> Turning]
    BY <1>0, <1>14, TurnRests DEF Market!Crash
  <2> QED
    BY <1>0, <1>14, <2>1, <2>2 DEF Market!Crash, MarketTypeOK
<1>15. ASSUME NEW t \in Session, Market!EndTurn(t)
       PROVE  MarketTypeOK'
  <2>1. turns' \in [Session -> Turning]
    <3>1. [Market!NoTurn EXCEPT !.step = "sealed", !.stale = turns[t].stale] \in Turning
      <4>1. turns[t].stale \in BOOLEAN
        BY <1>0 DEF Turning
      <4> QED
        BY <4>1 DEF Market!NoTurn, Turning
    <3> QED
      BY <1>0, <1>15, <3>1, TurnRests DEF Market!EndTurn
  <2> QED
    BY <1>0, <1>15, <2>1 DEF Market!EndTurn, MarketTypeOK
<1>16. ASSUME NEW t \in Session, NEW g \in Guru, Market!BeginTurn(t, g)
       PROVE  MarketTypeOK'
  <2>1. Market!Authority(g) \in Grant
    BY <1>0, ServicesAssumption DEF Market!Authority, Market!Revision, Grant
  <2>2. [step |-> "runs", guru |-> g, authority |-> Market!Authority(g), stale |-> FALSE] \in Turning
    BY <2>1 DEF Turning
  <2>3. turns' \in [Session -> Turning]
    BY <1>0, <1>16, <2>2 DEF Market!BeginTurn
  <2> QED
    BY <1>0, <1>16, <2>3 DEF Market!BeginTurn, MarketTypeOK
<1> QED
  BY <1>1, <1>3, <1>4, <1>5, <1>6, <1>7, <1>9, <1>10, <1>11, <1>12, <1>13, <1>14, <1>15, <1>16
     DEF Market!ConnectorsNext, Field

\* Only an accepted credential is executable.
LEMMA MarketAccepts ==
    ASSUME MarketTypeOK, Accepted, Asked, Market!ConnectorsNext
    PROVE  Accepted'
<1> USE ServicesAssumption DEF MarketTypeOK, Accepted, Asked, Field, Binding, Commands,
        Probing, Market!Unlocked, Market!Room, Market!Fresh, Market!Used, Market!Change,
        Market!Users, Market!Free, Market!Resting, Market!NoTurn
<1>1. CASE Market!Save
  BY <1>1 DEF Market!Save
<1>2. CASE Market!Delete
  BY <1>2 DEF Market!Delete
<1>3. ASSUME NEW value \in Scope, Market!Configure(value)
      PROVE  Accepted'
  BY <1>3 DEF Market!Configure, Market!ScopeChanged
<1>4. ASSUME NEW v \in Probe, Market!BeginVerification(v)
      PROVE  Accepted'
  BY <1>4 DEF Market!BeginVerification
<1>5. ASSUME NEW v \in Probe, Market!FinishVerification(v)
      PROVE  Accepted'
  BY <1>5 DEF Market!FinishVerification, Market!StillInScope, Market!IsCurrent
<1>6. ASSUME NEW v \in Probe, NEW scope \in Field, Market!Ask(v, scope)
      PROVE  Accepted'
  BY <1>6 DEF Market!Ask
<1>7. ASSUME NEW g \in Guru, Market!DisableOne(g)
      PROVE  Accepted'
  BY <1>7 DEF Market!DisableOne
<1>8. ASSUME NEW g \in Guru, NEW enabled \in BOOLEAN, Market!SaveBinding(g, enabled)
      PROVE  Accepted'
  BY <1>8 DEF Market!SaveBinding, Market!Ready
<1>9. CASE Market!DropCredentials
  BY <1>9 DEF Market!DropCredentials
<1>10. CASE Market!WriteConfig
  BY <1>10 DEF Market!WriteConfig, Market!Rewritten
<1>11. CASE Market!CommandFails
  BY <1>11 DEF Market!CommandFails
<1>12. CASE Market!Crash
  BY <1>12 DEF Market!Crash
<1>13. ASSUME NEW t \in Session, Market!EndTurn(t)
      PROVE  Accepted'
  BY <1>13 DEF Market!EndTurn
<1>14. ASSUME NEW t \in Session, NEW g \in Guru, Market!BeginTurn(t, g)
      PROVE  Accepted'
  BY <1>14 DEF Market!BeginTurn
<1> QED
  BY <1>1, <1>2, <1>3, <1>4, <1>5, <1>6, <1>7, <1>8, <1>9, <1>10, <1>11, <1>12, <1>13, <1>14
     DEF Market!ConnectorsNext, Field

\* A verification that is still current asked about the scope of now: every
\* change of the scope takes the candidate away first.
LEMMA MarketAsks ==
    ASSUME MarketTypeOK, Accepted, Asked, Counted, Market!ConnectorsNext
    PROVE  Asked'
<1> USE ServicesAssumption DEF MarketTypeOK, Accepted, Asked, Counted, Field, Binding,
        Commands, Probing, Market!Unlocked, Market!Room, Market!Fresh, Market!Used,
        Market!Change, Market!Users, Market!Free, Market!Resting, Market!NoTurn
<1>1. CASE Market!Save
  BY <1>1 DEF Market!Save
<1>2. CASE Market!Delete
  BY <1>2 DEF Market!Delete
<1>3. ASSUME NEW value \in Scope, Market!Configure(value)
      PROVE  Asked'
  BY <1>3 DEF Market!Configure, Market!ScopeChanged
<1>4. ASSUME NEW v \in Probe, Market!BeginVerification(v)
      PROVE  Asked'
  BY <1>4 DEF Market!BeginVerification
<1>5. ASSUME NEW v \in Probe, Market!FinishVerification(v)
      PROVE  Asked'
  BY <1>5 DEF Market!FinishVerification, Market!StillInScope, Market!IsCurrent
<1>6. ASSUME NEW v \in Probe, NEW scope \in Field, Market!Ask(v, scope)
      PROVE  Asked'
  BY <1>6 DEF Market!Ask
<1>7. ASSUME NEW g \in Guru, Market!DisableOne(g)
      PROVE  Asked'
  BY <1>7 DEF Market!DisableOne
<1>8. ASSUME NEW g \in Guru, NEW enabled \in BOOLEAN, Market!SaveBinding(g, enabled)
      PROVE  Asked'
  BY <1>8 DEF Market!SaveBinding, Market!Ready
<1>9. CASE Market!DropCredentials
  BY <1>9 DEF Market!DropCredentials
<1>10. CASE Market!WriteConfig
  BY <1>10 DEF Market!WriteConfig, Market!Rewritten
<1>11. CASE Market!CommandFails
  BY <1>11 DEF Market!CommandFails
<1>12. CASE Market!Crash
  BY <1>12 DEF Market!Crash
<1>13. ASSUME NEW t \in Session, Market!EndTurn(t)
      PROVE  Asked'
  BY <1>13 DEF Market!EndTurn
<1>14. ASSUME NEW t \in Session, NEW g \in Guru, Market!BeginTurn(t, g)
      PROVE  Asked'
  BY <1>14 DEF Market!BeginTurn
<1> QED
  BY <1>1, <1>2, <1>3, <1>4, <1>5, <1>6, <1>7, <1>8, <1>9, <1>10, <1>11, <1>12, <1>13, <1>14
     DEF Market!ConnectorsNext, Field

\* Every revision that is in use was taken from the counter.
LEMMA MarketCounts ==
    ASSUME MarketTypeOK, Counted, Market!ConnectorsNext
    PROVE  Counted'
<1> USE ServicesAssumption DEF MarketTypeOK, Counted, Field, Binding, Commands, Probing,
        Market!Unlocked, Market!Room, Market!Fresh, Market!Used, Market!Change,
        Market!Users, Market!Free, Market!Resting, Market!NoTurn
<1>1. CASE Market!Save
  BY <1>1 DEF Market!Save
<1>2. CASE Market!Delete
  BY <1>2 DEF Market!Delete
<1>3. ASSUME NEW value \in Scope, Market!Configure(value)
      PROVE  Counted'
  BY <1>3 DEF Market!Configure, Market!ScopeChanged
<1>4. ASSUME NEW v \in Probe, Market!BeginVerification(v)
      PROVE  Counted'
  BY <1>4 DEF Market!BeginVerification
<1>5. ASSUME NEW v \in Probe, Market!FinishVerification(v)
      PROVE  Counted'
  BY <1>5 DEF Market!FinishVerification, Market!StillInScope, Market!IsCurrent
<1>6. ASSUME NEW v \in Probe, NEW scope \in Field, Market!Ask(v, scope)
      PROVE  Counted'
  BY <1>6 DEF Market!Ask
<1>7. ASSUME NEW g \in Guru, Market!DisableOne(g)
      PROVE  Counted'
  BY <1>7 DEF Market!DisableOne
<1>8. ASSUME NEW g \in Guru, NEW enabled \in BOOLEAN, Market!SaveBinding(g, enabled)
      PROVE  Counted'
  BY <1>8 DEF Market!SaveBinding, Market!Ready
<1>9. CASE Market!DropCredentials
  BY <1>9 DEF Market!DropCredentials
<1>10. CASE Market!WriteConfig
  BY <1>10 DEF Market!WriteConfig, Market!Rewritten
<1>11. CASE Market!CommandFails
  BY <1>11 DEF Market!CommandFails
<1>12. CASE Market!Crash
  BY <1>12 DEF Market!Crash
<1>13. ASSUME NEW t \in Session, Market!EndTurn(t)
      PROVE  Counted'
  BY <1>13 DEF Market!EndTurn
<1>14. ASSUME NEW t \in Session, NEW g \in Guru, Market!BeginTurn(t, g)
      PROVE  Counted'
  BY <1>14 DEF Market!BeginTurn
<1> QED
  BY <1>1, <1>2, <1>3, <1>4, <1>5, <1>6, <1>7, <1>8, <1>9, <1>10, <1>11, <1>12, <1>13, <1>14
     DEF Market!ConnectorsNext, Field

\* What a step that is not the turn's own does to a turn.
Carried(t, gurus) ==
    /\ turns'[t].step = turns[t].step /\ turns'[t].guru = turns[t].guru
    /\ turns'[t].authority = turns[t].authority
    /\ turns'[t].stale =>
         turns[t].stale \/ (turns[t].step = "runs" /\ turns[t].guru \in gurus)

\* Another part of the Marketplace leaves the turn its authority.
LEMMA Carries ==
    ASSUME turns \in [Session -> Turning], NEW gurus, Market!Change(gurus), NEW t \in Session
    PROVE  Carried(t, gurus)
<1>1. turns'[t] = [turns[t] EXCEPT !.stale = turns'[t].stale] /\ turns[t] \in Turning
  BY TurnTypes
<1>2. turns'[t].stale <=> turns[t].stale \/ (turns[t].step = "runs" /\ turns[t].guru \in gurus)
  BY TurnTypes
<1> QED
  BY <1>1, <1>2 DEF Carried, Turning

\* A turn that saw a change ends with an authority other than the one it began
\* with.
LEMMA MarketSeals ==
    ASSUME MarketTypeOK, Accepted, Counted, Sessions, Market!ConnectorsNext
    PROVE  Sessions'
<1> SUFFICES ASSUME NEW t \in Session
             PROVE  Captured(t)' /\ Differs(t)' /\ Sealed(t)'
  BY DEF Sessions
<1>0. /\ bindings \in [Guru -> Binding] /\ changes \in Nat
      /\ config \in [value : Field, revision : Nat]
      /\ active \in [revision : Nat, at : Field] \cup {None}
      /\ candidate \in Nat \cup {None}
      /\ turns \in [Session -> Turning]
      /\ Captured(t) /\ Differs(t) /\ Sealed(t)
  BY DEF MarketTypeOK, Sessions
<1>c. turns[t].step = "runs" =>
        /\ turns[t].guru \in Guru /\ turns[t].authority.binding.stamp \in Nat
        /\ turns[t].authority.config \in Nat /\ turns[t].authority.credential \in Nat
  <2>1. turns[t].step = "runs" => turns[t].guru \in Guru /\ turns[t].authority \in Grant
    BY <1>0 DEF Captured
  <2> QED
    BY <2>1 DEF Grant, Binding
<1>d. \A g \in Guru : bindings[g].enabled \in BOOLEAN /\ bindings[g].stamp \in Nat
  BY <1>0 DEF Binding
<1>e. config.revision \in Nat /\ (active # None => active.revision \in Nat)
  BY <1>0
<1>f. ASSUME UNCHANGED turns
      PROVE  Carried(t, {})
  BY <1>f DEF Carried
<1> USE <1>c, <1>d, <1>e DEF Captured, Differs, Sealed, Counted, Market!Revision
<1>1. CASE Market!Save
  BY <1>0, <1>1, <1>f DEF Market!Save, Market!Used, Market!Fresh, Carried
<1>2. ASSUME UNCHANGED <<bindings, config, active, candidate, turns, changes>>
      PROVE  Captured(t)' /\ Differs(t)' /\ Sealed(t)'
  BY <1>0, <1>2
<1>3. CASE Market!Delete
  BY <1>2, <1>3 DEF Market!Delete
<1>4. ASSUME NEW value \in Scope, Market!Configure(value)
      PROVE  Captured(t)' /\ Differs(t)' /\ Sealed(t)'
  BY <1>2, <1>4 DEF Market!Configure
<1>5. ASSUME NEW v \in Probe, Market!BeginVerification(v)
      PROVE  Captured(t)' /\ Differs(t)' /\ Sealed(t)'
  BY <1>2, <1>5 DEF Market!BeginVerification
<1>6. ASSUME NEW v \in Probe, Market!FinishVerification(v)
      PROVE  Captured(t)' /\ Differs(t)' /\ Sealed(t)'
  <2>1. CASE UNCHANGED <<active, candidate, turns>>
    BY <1>2, <1>6, <2>1 DEF Market!FinishVerification
  <2>2. CASE /\ candidate = probes[v].revision /\ candidate' = None /\ Market!Change(Market!Users)
             /\ active' = [revision |-> candidate, at |-> probes[v].asked]
    <3>1. probes[v].revision \in Nat
      BY DEF MarketTypeOK, Probing
    <3>2. active' # None /\ active'.revision = candidate /\ candidate \in Nat
      BY <1>0, <2>2, <3>1, ServicesAssumption DEF MarketTypeOK, Probing, Field
    <3>3. Carried(t, Market!Users) /\ UNCHANGED <<bindings, config, changes>>
      BY <1>0, <1>6, <2>2, Carries DEF Market!FinishVerification
    <3>4. candidate # None
      BY <3>2, ServicesAssumption
    <3> QED
      BY <1>0, <2>2, <3>2, <3>3, <3>4 DEF Carried, Market!Users
  <2> QED
    BY <1>6, <2>1, <2>2 DEF Market!FinishVerification, Market!IsCurrent
<1>7. ASSUME NEW v \in Probe, NEW scope \in Field, Market!Ask(v, scope)
      PROVE  Captured(t)' /\ Differs(t)' /\ Sealed(t)'
  BY <1>2, <1>7 DEF Market!Ask
<1>8. ASSUME NEW g \in Guru, NEW enabled \in BOOLEAN, Market!Used, Market!Change({g}),
             bindings' = [bindings EXCEPT ![g] = [enabled |-> enabled, stamp |-> Market!Fresh]],
             UNCHANGED <<config, active, candidate>>
      PROVE  Captured(t)' /\ Differs(t)' /\ Sealed(t)'
  <2>1. Carried(t, {g})
    BY <1>0, <1>8, Carries
  <2>2. changes' = changes + 1 /\ bindings'[g].stamp = changes + 1 /\ bindings[g].stamp <= changes
    BY <1>0, <1>8 DEF Market!Fresh, Market!Used
  <2>3. \A u \in Guru \ {g} : bindings'[u] = bindings[u]
    BY <1>0, <1>8
  <2> QED
    BY <1>0, <1>8, <2>1, <2>2, <2>3 DEF Carried
<1>9. ASSUME NEW g \in Guru, Market!DisableOne(g)
      PROVE  Captured(t)' /\ Differs(t)' /\ Sealed(t)'
  BY <1>2, <1>8, <1>9 DEF Market!DisableOne
<1>10. ASSUME NEW g \in Guru, NEW enabled \in BOOLEAN, Market!SaveBinding(g, enabled)
       PROVE  Captured(t)' /\ Differs(t)' /\ Sealed(t)'
  BY <1>8, <1>10 DEF Market!SaveBinding
<1>11. ASSUME active' = None, candidate' = None, \A g \in Guru : ~bindings[g].enabled,
              UNCHANGED <<bindings, config, turns, changes>>
       PROVE  Captured(t)' /\ Differs(t)' /\ Sealed(t)'
  BY <1>0, <1>11
<1>12. CASE Market!DropCredentials
  BY <1>11, <1>12 DEF Market!DropCredentials, Accepted
<1>13. CASE Market!WriteConfig
  <2>1. CASE Market!Used /\ config' = [value |-> command.value, revision |-> Market!Fresh] /\ Market!Change(Guru)
    <3>1. Carried(t, Guru) /\ UNCHANGED <<bindings, active, candidate>>
      BY <1>0, <1>13, <2>1, Carries DEF Market!WriteConfig
    <3>2. changes' = changes + 1 /\ config'.revision = changes + 1
      BY <2>1 DEF Market!Fresh, Market!Used
    <3> QED
      BY <1>0, <3>1, <3>2 DEF Carried
  <2> QED
    BY <1>2, <1>13, <2>1 DEF Market!WriteConfig
<1>14. CASE Market!CommandFails
  BY <1>2, <1>11, <1>14 DEF Market!CommandFails, Accepted
<1>15. CASE Market!Crash
  <2>1. turns'[t] = turns[t] \/ turns'[t] = Market!NoTurn
    BY <1>15 DEF Market!Crash
  <2> QED
    BY <1>0, <1>15, <2>1 DEF Market!Crash, Market!NoTurn
<1>16. ASSUME NEW u \in Session, Market!EndTurn(u)
       PROVE  Captured(t)' /\ Differs(t)' /\ Sealed(t)'
  <2>1. CASE t # u
    <3>1. turns'[t] = turns[t]
      BY <1>16, <2>1, <1>0 DEF Market!EndTurn
    <3> QED
      BY <1>0, <1>16, <3>1 DEF Market!EndTurn
  <2>2. CASE t = u /\ turns'[t] = Market!NoTurn
    <3>1. turns'[t].step = "none"
      BY <2>2 DEF Market!NoTurn
    <3> QED
      BY <3>1
  <2>3. CASE t = u /\ Market!Unchanged(t) /\ turns'[t] = [Market!NoTurn EXCEPT !.step = "sealed", !.stale = turns[t].stale]
    <3>1. turns'[t].step = "sealed" /\ turns'[t].stale = turns[t].stale /\ turns[t].step = "runs"
      BY <1>16, <2>3 DEF Market!EndTurn, Market!NoTurn
    <3>2. ~turns[t].stale
      BY <1>0, <2>3, <3>1 DEF Market!Unchanged, Market!Authority
    <3> QED
      BY <3>1, <3>2
  <2> QED
    BY <1>0, <1>16, <2>1, <2>2, <2>3 DEF Market!EndTurn
<1>17. ASSUME NEW u \in Session, NEW g \in Guru, Market!BeginTurn(u, g)
       PROVE  Captured(t)' /\ Differs(t)' /\ Sealed(t)'
  <2>1. CASE t # u
    <3>1. turns'[t] = turns[t]
      BY <1>17, <2>1, <1>0 DEF Market!BeginTurn
    <3> QED
      BY <1>0, <1>17, <3>1 DEF Market!BeginTurn
  <2>2. CASE t = u
    <3>1. turns'[t] = [step |-> "runs", guru |-> g, authority |-> Market!Authority(g), stale |-> FALSE]
      BY <1>0, <1>17, <2>2 DEF Market!BeginTurn
    <3>2. Market!Authority(g) \in Grant
      BY <1>0, ServicesAssumption DEF Market!Authority, Grant
    <3>3. /\ Market!Authority(g).binding = bindings[g] /\ Market!Authority(g).config = config.revision
          /\ Market!Authority(g).credential = Market!Revision
      BY DEF Market!Authority
    <3> QED
      BY <1>0, <1>17, <3>1, <3>2, <3>3 DEF Market!BeginTurn
  <2> QED
    BY <2>1, <2>2
<1> QED
  BY <1>1, <1>3, <1>4, <1>5, <1>6, <1>7, <1>9, <1>10, <1>12, <1>13, <1>14, <1>15, <1>16, <1>17
     DEF Market!ConnectorsNext, Field

\* Together: the invariant of the connectors is inductive.
LEMMA MarketStep ==
    ASSUME MarketInv, [Market!ConnectorsNext]_market
    PROVE  MarketInv'
<1>1. CASE Market!ConnectorsNext
  BY <1>1, MarketTypes, MarketAccepts, MarketAsks, MarketCounts, MarketSeals DEF MarketInv
<1>2. CASE UNCHANGED market
  BY <1>2 DEF market, MarketInv, MarketTypeOK, Accepted, Asked, Counted, Sessions, Captured,
     Differs, Sealed, Market!Revision
<1> QED
  BY <1>1, <1>2

\* It holds at the start.
LEMMA MarketBegins == ASSUME Market!ConnectorsInit PROVE MarketInv
<1> USE DEF Market!ConnectorsInit
<1>1. MarketTypeOK
  BY DEF MarketTypeOK, Field, Binding, Commands, Probing, Turning, Market!Free,
     Market!Resting, Market!NoTurn
<1>2. Accepted /\ Counted
  BY DEF Accepted, Counted, Market!Free
<1>3. Asked
  BY DEF Asked, Market!Resting
<1>4. Sessions
  BY DEF Sessions, Captured, Differs, Sealed, Market!NoTurn
<1> QED
  BY <1>1, <1>2, <1>3, <1>4 DEF MarketInv

\* And it is what the turns rely on.
LEMMA MarketHolds == ASSUME MarketInv PROVE ConnectorsAsVerified
BY DEF MarketInv, Accepted, Sessions, Sealed, ConnectorsAsVerified, Market!ExecutableAsVerified,
   Market!SealedUnderOneAuthority

-----------------------------------------------------------------------------
\* Workbench.  The calls that have begun hold the registered lock, at most one
\* of them has it acquired, and one that passed its check sees the file it
\* named for as long as the user leaves the file alone.
Text  == Content \cup {Absent}
CallStep == {"idle", "waits", "holds", "writes"}
Calling == [step : CallStep, lock : Nat, expected : Text, next : Text, disturbed : BOOLEAN]

BenchTypeOK ==
    /\ file \in Text /\ registered \in Nat
    /\ calls \in [Turn -> Calling] /\ seen \in [Turn -> Text]

Registered(t) ==
    IF calls[t].step = "idle" THEN calls[t].lock = 0
    ELSE calls[t].lock = registered /\ registered # 0
Working(t) == calls[t].step \in {"holds", "writes"}
OneWorks   == \A t, u \in Turn : Working(t) /\ Working(u) => t = u
SeesItsFile(t) ==
    calls[t].step = "writes" /\ ~calls[t].disturbed => file = calls[t].expected

BenchInv ==
    /\ BenchTypeOK /\ OneWorks
    /\ \A t \in Turn : Registered(t) /\ SeesItsFile(t)

\* The instance counts as this module does.
LEMMA SameCardinality == ASSUME NEW S PROVE Bench!Cardinality(S) = Cardinality(S)
BY DEF Cardinality, Bench!Cardinality

\* The lock that a call gets is the one that every other call has.
LEMMA LockShared ==
    ASSUME BenchInv, NEW t \in Turn
    PROVE  /\ Bench!MutationLock \in Nat \ {0}
           /\ \A u \in Turn : calls[u].step # "idle" => Bench!MutationLock = registered
<1>0. /\ registered \in Nat /\ \A u \in Turn : Registered(u) /\ calls[u].lock \in Nat
  BY DEF BenchInv, BenchTypeOK, Calling
<1>1. CASE registered # 0 /\ Bench!Holders(registered) # {}
  BY <1>0, <1>1 DEF Bench!MutationLock
<1>2. CASE ~(registered # 0 /\ Bench!Holders(registered) # {})
  <2>1. \A u \in Turn : calls[u].step = "idle" /\ calls[u].lock = 0
    BY <1>0, <1>2 DEF Registered, Bench!Holders
  <2>2. 1 \in 1..Cardinality(Turn)
    <3>1. Cardinality(Turn) \in Nat /\ Cardinality(Turn) # 0
      BY ServicesAssumption, FS_CardinalityType, FS_EmptySet
    <3> QED
      BY <3>1
  <2>3. Bench!Holders(1) = {}
    BY <2>1 DEF Bench!Holders
  <2>4. Bench!FreshLock \in 1..Cardinality(Turn)
    BY <2>2, <2>3, SameCardinality DEF Bench!FreshLock
  <2>5. Bench!FreshLock \in Nat \ {0}
    BY <2>4
  <2> QED
    BY <1>2, <2>1, <2>5 DEF Bench!MutationLock
<1> QED
  BY <1>1, <1>2

\* No call has begun.
LEMMA BenchBegins == ASSUME Bench!WorkbenchInit PROVE BenchInv
BY DEF Bench!WorkbenchInit, BenchInv, BenchTypeOK, Registered, SeesItsFile, OneWorks,
   Working, Calling, CallStep, Text, Bench!Idle

\* A call that ends leaves the others as they are.
LEMMA BenchReturns ==
    ASSUME BenchInv, NEW t \in Turn, NEW told \in Text, Bench!Return(t, told),
           calls[t].step # "idle", UNCHANGED registered, file' \in Text,
           file' = file \/ calls[t].step = "writes"
    PROVE  BenchInv'
<1>1. /\ calls' = [calls EXCEPT ![t] = Bench!Idle] /\ Bench!Idle \in Calling
      /\ seen' \in [Turn -> Text]
  BY DEF Bench!Return, Bench!Idle, Calling, CallStep, Text, BenchInv, BenchTypeOK
<1>2. calls \in [Turn -> Calling] /\ registered \in Nat
  BY DEF BenchInv, BenchTypeOK
<1>3. calls'[t].step = "idle" /\ calls'[t].lock = 0
  BY <1>1, <1>2 DEF Bench!Idle
<1>4. \A u \in Turn \ {t} : calls'[u] = calls[u]
  BY <1>1, <1>2
<1>5. BenchTypeOK'
  BY <1>1, <1>2 DEF BenchTypeOK
<1>6. OneWorks'
  BY <1>3, <1>4 DEF BenchInv, OneWorks, Working
<1>7. ASSUME NEW u \in Turn
      PROVE  Registered(u)' /\ SeesItsFile(u)'
  BY <1>3, <1>4 DEF BenchInv, OneWorks, Working, Registered, SeesItsFile
<1> QED
  BY <1>5, <1>6, <1>7 DEF BenchInv

\* The invariant of the workbench is inductive.
LEMMA BenchStep ==
    ASSUME BenchInv, [Bench!WorkbenchNext]_bench
    PROVE  BenchInv'
<1>0. /\ calls \in [Turn -> Calling] /\ registered \in Nat /\ seen \in [Turn -> Text]
      /\ file \in Text /\ OneWorks
      /\ \A u \in Turn : calls[u] \in Calling /\ Registered(u) /\ SeesItsFile(u)
  BY DEF BenchInv, BenchTypeOK
<1>1. ASSUME NEW t \in Turn, Bench!Read(t)
      PROVE  BenchInv'
  <2>1. seen' \in [Turn -> Text]
    BY <1>0, <1>1 DEF Bench!Read
  <2> QED
    BY <1>0, <1>1, <2>1
       DEF Bench!Read, BenchInv, BenchTypeOK, OneWorks, Working, Registered, SeesItsFile
<1>2. ASSUME NEW t \in Turn, NEW expected \in Text, NEW next \in Text, Bench!Call(t, expected, next)
      PROVE  BenchInv'
  <2> DEFINE asking == [Bench!Idle EXCEPT !.step = "waits", !.lock = Bench!MutationLock,
                                          !.expected = expected, !.next = next]
  <2>1. Bench!MutationLock \in Nat \ {0}
    BY LockShared
  <2>2. asking \in Calling /\ asking.step = "waits" /\ asking.lock = Bench!MutationLock
    BY <2>1 DEF Bench!Idle, Calling, CallStep, Text
  <2>3. calls' = [calls EXCEPT ![t] = asking] /\ registered' = Bench!MutationLock
    BY <1>2 DEF Bench!Call
  <2> HIDE DEF asking
  <2>4. calls' \in [Turn -> Calling] /\ calls'[t] = asking /\ \A u \in Turn \ {t} : calls'[u] = calls[u]
    BY <1>0, <2>2, <2>3
  <2>5. \A u \in Turn : calls[u].step # "idle" => registered' = registered
    BY <2>3, LockShared
  <2>6. OneWorks'
    BY <1>0, <2>2, <2>4 DEF OneWorks, Working
  <2>7. ASSUME NEW u \in Turn
        PROVE  Registered(u)' /\ SeesItsFile(u)'
    BY <1>0, <1>2, <2>1, <2>2, <2>3, <2>4, <2>5 DEF Registered, SeesItsFile, Bench!Call
  <2> QED
    BY <1>0, <1>2, <2>1, <2>3, <2>4, <2>6, <2>7 DEF Bench!Call, BenchInv, BenchTypeOK
<1>3. ASSUME NEW t \in Turn, Bench!Acquire(t)
      PROVE  BenchInv'
  <2>1. calls' = [calls EXCEPT ![t] = [calls[t] EXCEPT !.step = "holds"]]
    BY <1>3 DEF Bench!Acquire
  <2>2. [calls[t] EXCEPT !.step = "holds"] \in Calling
    BY <1>0 DEF Calling, CallStep
  <2>3. /\ calls' \in [Turn -> Calling] /\ \A u \in Turn \ {t} : calls'[u] = calls[u]
        /\ calls'[t].step = "holds" /\ calls'[t].lock = calls[t].lock
    BY <1>0, <2>1, <2>2 DEF Calling
  <2>4. \A u \in Turn : ~Working(u)
    <3>1. \A u \in Turn : Working(u) => u \in Bench!Holders(calls[t].lock)
      BY <1>0, <1>3 DEF Bench!Acquire, Registered, Working, Bench!Holders
    <3> QED
      BY <1>3, <3>1 DEF Bench!Acquire, Bench!Locked, Working
  <2>5. OneWorks'
    BY <2>3, <2>4 DEF OneWorks, Working
  <2>6. ASSUME NEW u \in Turn
        PROVE  Registered(u)' /\ SeesItsFile(u)'
    BY <1>0, <1>3, <2>3 DEF Bench!Acquire, Registered, SeesItsFile
  <2> QED
    BY <1>0, <1>3, <2>3, <2>5, <2>6 DEF Bench!Acquire, BenchInv, BenchTypeOK
<1>4. ASSUME NEW t \in Turn, Bench!Check(t)
      PROVE  BenchInv'
  <2>1. CASE Bench!Return(t, file)
    BY <1>0, <1>4, <2>1, BenchReturns DEF Bench!Check, Text
  <2>2. CASE /\ calls' = [calls EXCEPT ![t] = [calls[t] EXCEPT !.step = "writes"]]
             /\ file = calls[t].expected /\ UNCHANGED seen
    <3>1. [calls[t] EXCEPT !.step = "writes"] \in Calling
      BY <1>0 DEF Calling, CallStep
    <3>2. /\ calls' \in [Turn -> Calling] /\ \A u \in Turn \ {t} : calls'[u] = calls[u]
          /\ calls'[t].step = "writes" /\ calls'[t].lock = calls[t].lock
          /\ calls'[t].expected = calls[t].expected
      BY <1>0, <2>2, <3>1 DEF Calling
    <3>3. OneWorks' /\ calls[t].step = "holds"
      BY <1>0, <1>4, <3>2 DEF OneWorks, Working, Bench!Check
    <3>4. ASSUME NEW u \in Turn
          PROVE  Registered(u)' /\ SeesItsFile(u)'
      BY <1>0, <1>4, <2>2, <3>2, <3>3 DEF Bench!Check, Registered, SeesItsFile
    <3> QED
      BY <1>0, <1>4, <2>2, <3>2, <3>3, <3>4 DEF Bench!Check, BenchInv, BenchTypeOK
  <2> QED
    BY <1>4, <2>1, <2>2 DEF Bench!Check, Bench!Matches
<1>5. ASSUME NEW t \in Turn, Bench!WriteFails(t)
      PROVE  BenchInv'
  BY <1>0, <1>5, BenchReturns DEF Bench!WriteFails, Text
<1>6. ASSUME NEW t \in Turn, Bench!Rename(t)
      PROVE  BenchInv'
  <2>1. PICK told \in Text : Bench!Return(t, told) /\ file' \in Text
    <3>1. calls[t].next \in Text /\ Absent \in Text
      BY <1>0 DEF Calling, Text
    <3> QED
      BY <1>0, <1>6, <3>1 DEF Bench!Rename
  <2> QED
    BY <1>6, <2>1, BenchReturns DEF Bench!Rename
<1>7. ASSUME NEW content \in Text, Bench!UserChanges(content)
      PROVE  BenchInv'
  <2>1. ASSUME NEW u \in Turn
        PROVE  /\ calls'[u] \in Calling /\ calls'[u].step = calls[u].step
               /\ calls'[u].lock = calls[u].lock
               /\ calls'[u].disturbed = (calls[u].disturbed \/ calls[u].step = "writes")
    <3> DEFINE marked == calls[u].disturbed \/ calls[u].step = "writes"
    <3>1. calls'[u] = [calls[u] EXCEPT !.disturbed = marked] /\ marked \in BOOLEAN
      BY <1>0, <1>7 DEF Bench!UserChanges, Calling
    <3> HIDE DEF marked
    <3>2. calls'[u] \in Calling /\ calls'[u].disturbed = marked
      BY <1>0, <3>1 DEF Calling
    <3>3. calls'[u].step = calls[u].step /\ calls'[u].lock = calls[u].lock
      BY <1>0, <3>1 DEF Calling
    <3> QED
      BY <3>2, <3>3 DEF marked
  <2>2. calls' \in [Turn -> Calling]
    BY <1>7, <2>1 DEF Bench!UserChanges
  <2>3. OneWorks'
    BY <1>0, <2>1 DEF OneWorks, Working
  <2>4. ASSUME NEW u \in Turn
        PROVE  Registered(u)' /\ SeesItsFile(u)'
    BY <1>0, <1>7, <2>1 DEF Bench!UserChanges, Registered, SeesItsFile
  <2> QED
    BY <1>0, <1>7, <2>2, <2>3, <2>4 DEF Bench!UserChanges, BenchInv, BenchTypeOK
<1>8. CASE UNCHANGED bench
  BY <1>8 DEF bench, BenchInv, BenchTypeOK, OneWorks, Working, Registered, SeesItsFile
<1>9. \A t \in Turn : seen[t] \in Text
  BY <1>0
<1> QED
  BY <1>1, <1>2, <1>3, <1>4, <1>5, <1>6, <1>7, <1>8, <1>9 DEF Bench!WorkbenchNext, Text

\* A rename replaces the file that its call named, or one the user put there.
LEMMA BenchReplaces ==
    ASSUME BenchInv, Bench!WorkbenchNext, NEW t \in Turn,
           calls[t].step = "writes", calls'[t].step = "idle", file' # file
    PROVE  file = calls[t].expected \/ (calls[t].disturbed /\ calls[t].expected # Absent)
<1>0. /\ calls \in [Turn -> Calling] /\ SeesItsFile(t)
      /\ \A u \in Turn : calls[u] \in Calling
  BY DEF BenchInv, BenchTypeOK
<1>1. CASE Bench!Rename(t)
  BY <1>0, <1>1 DEF Bench!Rename, Bench!Blocked, SeesItsFile, Calling
<1>2. ASSUME NEW u \in Turn, u # t, Bench!Rename(u)
      PROVE  FALSE
  BY <1>0, <1>2 DEF Bench!Rename, Bench!Return
<1>3. ASSUME NEW content \in Text, Bench!UserChanges(content)
      PROVE  FALSE
  <2>1. calls'[t].step = calls[t].step
    BY <1>0, <1>3 DEF Bench!UserChanges, Calling
  <2> QED
    BY <2>1
<1> QED
  BY <1>1, <1>2, <1>3, Zenon
     DEF Bench!WorkbenchNext, Bench!Read, Bench!Acquire, Bench!Check, Bench!WriteFails, Bench!Call, Text

-----------------------------------------------------------------------------
\* Compute hosts.  At most one cell uses a host, the kept host is the one that
\* a running cell wrote to, and what is in the pipes of a host is the one line
\* of that cell or nothing.
Hosts    == 1..MaxHosts
Stage    == {"idle", "waits", "answered", "refused", "retires", "spawns", "runs"}
CellType == [step : Stage, host : Nat, answer : SUBSET Cell]
Bundle   == {Packages(c) : c \in Cell} \cup {{}}
Keeping  == [host : Nat, packages : Bundle]

HostTypeOK ==
    /\ cells \in [Cell -> CellType] /\ worker \in Keeping
    /\ asked \in [Hosts -> Seq(Cell)] /\ answers \in [Hosts -> Seq(Cell)]
    /\ processes \subseteq 1..spawned /\ spawned \in 0..MaxHosts /\ ended \in BOOLEAN

Uses(c)  == cells[c].step \in {"retires", "spawns", "runs"}
OneUses  == \A c, d \in Cell : Uses(c) /\ Uses(d) => c = d
Empty(h) == asked[h] = <<>> /\ answers[h] = <<>>

\* What a cell's step says of its host and of the host that is kept.
Holding(c) ==
    /\ cells[c].step \in {"idle", "waits", "refused"} => cells[c].host = 0
    /\ cells[c].step = "answered" => cells[c].answer = {c}
    /\ Uses(c) => cells[c].host \in 1..spawned
    /\ cells[c].step \in {"retires", "spawns"} => worker.host = 0
    /\ cells[c].step \in {"retires", "spawns"} => Empty(cells[c].host)
    /\ cells[c].step = "runs" => worker.host = cells[c].host /\ Host!Covered(c)
Line(c) ==
    LET h == cells[c].host IN
    cells[c].step = "runs" =>
        \/ asked[h] = <<c>> /\ answers[h] = <<>>
        \/ asked[h] = <<>> /\ answers[h] = <<c>>

Kept ==
    /\ worker.host \in 0..spawned
    /\ worker.host # 0 /\ ~Host!Locked => Empty(worker.host)
    /\ \A h \in Hosts : h > spawned => Empty(h)
NoneLeft ==
    /\ \A h \in processes : h = worker.host \/ \E c \in Cell : Uses(c) /\ cells[c].host = h
    /\ ended => processes = {} /\ \A c \in Cell : ~Uses(c) /\ cells[c].step # "waits"

HostInv ==
    /\ HostTypeOK /\ OneUses /\ Kept /\ NoneLeft
    /\ \A c \in Cell : Holding(c) /\ Line(c)

\* No host runs.
LEMMA HostBegins == ASSUME Host!ComputeInit PROVE HostInv
<1> USE ServicesAssumption DEF Host!ComputeInit
<1>1. HostTypeOK
  <2>1. cells \in [Cell -> CellType] /\ worker \in Keeping
    BY DEF CellType, Stage, Keeping, Bundle, Host!NoCell
  <2>2. asked \in [Hosts -> Seq(Cell)] /\ answers \in [Hosts -> Seq(Cell)]
    BY DEF Hosts
  <2>3. processes = {} /\ spawned = 0 /\ ended = FALSE /\ 0 \in 0..MaxHosts
    BY ServicesAssumption
  <2> QED
    BY <2>1, <2>2, <2>3 DEF HostTypeOK
<1>2. /\ OneUses /\ NoneLeft
      /\ \A c \in Cell : Holding(c) /\ Line(c)
  BY DEF OneUses, NoneLeft, Holding, Line, Uses, Host!NoCell
<1>3. Kept
  BY DEF Kept, Empty, Hosts
<1> QED
  BY <1>1, <1>2, <1>3 DEF HostInv

\* Clean hosts are part of the invariant.
LEMMA HostHolds == ASSUME HostInv PROVE HostsAreClean
<1>0. \A c \in Cell : cells[c] \in CellType
  BY DEF HostInv, HostTypeOK
<1>1. \A c \in Cell : Host!At(c, "answered") => cells[c].answer = {c}
  BY DEF HostInv, Holding, Host!At
<1>2. \A c \in Cell : Host!At(c, "runs") => Host!Covered(c)
  BY DEF HostInv, Holding, Host!At
<1>3. ~Host!Locked /\ worker.host # 0 => asked[worker.host] = <<>> /\ answers[worker.host] = <<>>
  BY DEF HostInv, Kept, Empty
<1>4. \A h \in processes : h = worker.host \/ \E c \in Cell : cells[c].host = h /\ ~Host!At(c, "answered")
  BY DEF HostInv, NoneLeft, Uses, Host!At
<1>5. ended => processes = {}
  BY DEF HostInv, NoneLeft
<1> QED
  BY <1>1, <1>2, <1>3, <1>4, <1>5 DEF HostsAreClean, Host!HostsAreClean

\* The cell that moves, and the others.
Moved(c, step, h) ==
    /\ cells' \in [Cell -> CellType]
    /\ cells'[c].step = step /\ cells'[c].host = h /\ cells'[c].answer = cells[c].answer
    /\ \A d \in Cell \ {c} : cells'[d] = cells[d]

\* Only the cell itself is moved.
LEMMA CellMoves ==
    ASSUME cells \in [Cell -> CellType], NEW c \in Cell, NEW step \in Stage, NEW h \in Nat,
           Host!To(c, step, h)
    PROVE  Moved(c, step, h)
<1>1. cells' = [cells EXCEPT ![c] = [cells[c] EXCEPT !.step = step, !.host = h]]
  BY DEF Host!To
<1>2. [cells[c] EXCEPT !.step = step, !.host = h] \in CellType
  BY DEF CellType
<1> QED
  BY <1>1, <1>2 DEF Moved, CellType

\* The lock of the language is taken while a cell uses a host.
LEMMA LockIsUse ==
    ASSUME cells \in [Cell -> CellType]
    PROVE  Host!Locked <=> \E c \in Cell : Uses(c)
BY DEF Host!Locked, Host!Waiting, Uses, CellType, Stage

\* The invariant of the compute hosts is inductive.
LEMMA HostStep ==
    ASSUME HostInv, [Host!ComputeNext]_host
    PROVE  HostInv'
<1>0. /\ cells \in [Cell -> CellType] /\ worker \in Keeping
      /\ asked \in [Hosts -> Seq(Cell)] /\ answers \in [Hosts -> Seq(Cell)]
      /\ processes \subseteq 1..spawned /\ spawned \in 0..MaxHosts /\ ended \in BOOLEAN
      /\ \A c \in Cell : cells[c] \in CellType /\ Holding(c) /\ Line(c)
      /\ OneUses /\ Kept /\ NoneLeft
  BY DEF HostInv, HostTypeOK
<1>w. worker.host \in Nat /\ worker.packages \in Bundle
  BY <1>0 DEF Keeping
<1>h. 1..spawned \subseteq Hosts /\ spawned \in Nat /\ MaxHosts \in Nat
  BY <1>0, ServicesAssumption DEF Hosts
<1>l. Host!Locked <=> \E c \in Cell : Uses(c)
  BY <1>0, LockIsUse
<1>m. ASSUME HostTypeOK'
      PROVE  Host!Locked' <=> \E c \in Cell : Uses(c)'
  BY <1>m DEF HostTypeOK, Host!Locked, Host!Waiting, Uses, CellType, Stage
<1>1. ASSUME NEW c \in Cell, Host!Ask(c)
      PROVE  HostInv'
  <2>1. Moved(c, "waits", 0)
    BY <1>0, <1>1, CellMoves DEF Host!Ask, Stage
  <2>2. cells[c].step = "idle" /\ ~ended /\ UNCHANGED <<worker, asked, answers, processes, spawned, ended>>
    BY <1>1 DEF Host!Ask, Host!At
  <2>3. ~Uses(c) /\ \A d \in Cell : Uses(d)' <=> Uses(d)
    BY <2>1, <2>2 DEF Moved, Uses
  <2>4. HostTypeOK' /\ OneUses'
    BY <1>0, <2>1, <2>2, <2>3 DEF HostTypeOK, Moved, OneUses
  <2>5. Kept'
    BY <1>0, <1>l, <1>m, <2>2, <2>3, <2>4 DEF Kept, Empty
  <2>6. NoneLeft'
    BY <1>0, <2>1, <2>2, <2>3 DEF NoneLeft, Moved
  <2>7. ASSUME NEW d \in Cell
        PROVE  Holding(d)' /\ Line(d)'
    <3>1. CASE d = c
      BY <2>1, <3>1 DEF Moved, Holding, Line, Uses
    <3>2. CASE d # c
      <4>1. cells'[d] = cells[d] /\ Holding(d) /\ Line(d)
        BY <1>0, <2>1, <3>2 DEF Moved
      <4> QED
        BY <2>2, <4>1 DEF Holding, Line, Uses, Empty, Host!Covered
    <3> QED
      BY <3>1, <3>2
  <2> QED
    BY <2>4, <2>5, <2>6, <2>7 DEF HostInv
<1>2. ASSUME NEW c \in Cell, cells[c].step = "waits", ~Host!Locked,
             worker.host # 0, Host!Covered(c), Host!Exchange(c, worker.host), UNCHANGED worker
      PROVE  HostInv'
  <2> DEFINE h == worker.host
  <2>1. Moved(c, "runs", h)
    BY <1>0, <1>w, <1>2, CellMoves DEF Host!Exchange, Stage
  <2>2. /\ asked' = [asked EXCEPT ![h] = Append(asked[h], c)]
        /\ UNCHANGED <<worker, answers, processes, spawned, ended>>
    BY <1>2 DEF Host!Exchange
  <2>3. h \in 1..spawned /\ h \in Hosts /\ Empty(h)
    BY <1>0, <1>2, <1>h, <1>w DEF Kept, Hosts
  <2>4. asked'[h] = <<c>> /\ \A g \in Hosts \ {h} : asked'[g] = asked[g]
    <3>1. asked[h] = <<>>
      BY <2>3 DEF Empty
    <3> QED
      BY <1>0, <2>2, <2>3, <3>1
  <2>5. asked' \in [Hosts -> Seq(Cell)]
    BY <1>0, <2>2, <2>3
  <2>6. /\ \A d \in Cell : ~Uses(d)
        /\ \A d \in Cell : Uses(d)' <=> d = c
    BY <1>2, <1>l, <2>1 DEF Moved, Uses
  <2>7. HostTypeOK' /\ OneUses'
    BY <1>0, <2>1, <2>2, <2>5, <2>6 DEF HostTypeOK, Moved, OneUses
  <2>8. Kept'
    BY <1>0, <1>h, <1>m, <2>2, <2>3, <2>4, <2>6, <2>7 DEF Kept, Empty
  <2>9. NoneLeft'
    BY <1>0, <1>2, <2>1, <2>2, <2>6 DEF NoneLeft, Moved
  <2>10. ASSUME NEW d \in Cell
         PROVE  Holding(d)' /\ Line(d)'
    BY <1>0, <1>2, <2>1, <2>2, <2>3, <2>4, <2>6 DEF Moved, Holding, Line, Uses, Empty,
       Host!Covered
  <2> QED
    BY <2>7, <2>8, <2>9, <2>10 DEF HostInv
<1>3. ASSUME NEW c \in Cell, cells[c].step = "waits", ~Host!Locked, worker.host # 0,
             Host!To(c, "retires", worker.host), worker' = [worker EXCEPT !.host = 0],
             UNCHANGED <<asked, answers, processes, spawned, ended>>
      PROVE  HostInv'
  <2>1. Moved(c, "retires", worker.host)
    BY <1>0, <1>w, <1>3, CellMoves DEF Stage
  <2>2. worker' \in Keeping /\ worker'.host = 0
    BY <1>0, <1>3 DEF Keeping
  <2>3. worker.host \in 1..spawned /\ Empty(worker.host)
    BY <1>0, <1>3, <1>h, <1>w DEF Kept
  <2>4. /\ \A d \in Cell : ~Uses(d)
        /\ \A d \in Cell : Uses(d)' <=> d = c
    BY <1>3, <1>l, <2>1 DEF Moved, Uses
  <2>5. HostTypeOK' /\ OneUses'
    BY <1>0, <1>3, <2>1, <2>2, <2>4 DEF HostTypeOK, Moved, OneUses
  <2>6. Kept'
    BY <1>0, <1>3, <1>h, <2>2 DEF Kept, Empty
  <2>7. NoneLeft'
    BY <1>0, <1>3, <2>1, <2>2, <2>4 DEF NoneLeft, Moved
  <2>8. ASSUME NEW d \in Cell
        PROVE  Holding(d)' /\ Line(d)'
    BY <1>0, <1>3, <2>1, <2>2, <2>3, <2>4 DEF Moved, Holding, Line, Uses, Empty
  <2> QED
    BY <2>5, <2>6, <2>7, <2>8 DEF HostInv
\* A new host, for a cell that had none or whose host is gone.
<1>4. ASSUME NEW c \in Cell, Host!SpawnRoom, spawned' = spawned + 1,
             \A d \in Cell \ {c} : ~Uses(d), ~ended,
             \/ cells[c].step = "waits" /\ UNCHANGED worker /\ processes' = processes \cup {spawned'}
             \/ /\ cells[c].step = "retires" /\ worker' = Host!NoHost
                /\ processes' = (processes \ {cells[c].host}) \cup {spawned'},
             worker.host = 0, Host!To(c, "spawns", spawned'), UNCHANGED <<asked, answers, ended>>
      PROVE  HostInv'
  <2>1. spawned' \in Nat /\ spawned' \in 1..MaxHosts
    BY <1>h, <1>4 DEF Host!SpawnRoom
  <2>2. Moved(c, "spawns", spawned')
    BY <1>0, <1>4, <2>1, CellMoves DEF Stage
  <2>3. worker' \in Keeping /\ worker'.host = 0
    BY <1>0, <1>4 DEF Host!NoHost, Keeping, Bundle
  <2>4. \A d \in Cell : Uses(d)' <=> d = c
    BY <1>4, <2>2 DEF Moved, Uses
  <2>5. processes' \subseteq processes \cup {spawned'}
    BY <1>4
  <2>6. processes' \subseteq 1..spawned'
    BY <1>0, <1>h, <1>4, <2>5
  <2>7. HostTypeOK' /\ OneUses'
    BY <1>0, <1>4, <2>1, <2>2, <2>3, <2>4, <2>6 DEF HostTypeOK, Moved, OneUses
  <2>8. Empty(spawned')
    BY <1>0, <1>h, <1>4, <2>1 DEF Kept, Hosts
  <2>9. Kept'
    BY <1>0, <1>h, <1>4, <2>1, <2>3 DEF Kept, Empty, Hosts
  <2>10. \A h \in processes' : h = spawned'
    <3>1. \A h \in processes : h # 0 /\ Uses(c) /\ cells[c].host = h
      BY <1>0, <1>4 DEF NoneLeft
    <3> QED
      BY <1>4, <3>1 DEF Uses
  <2>11. NoneLeft'
    BY <1>4, <2>2, <2>4, <2>10 DEF NoneLeft, Moved
  <2>12. ASSUME NEW d \in Cell
         PROVE  Holding(d)' /\ Line(d)'
    BY <1>0, <1>4, <2>1, <2>2, <2>3, <2>4, <2>8 DEF Moved, Holding, Line, Uses, Empty
  <2> QED
    BY <2>7, <2>9, <2>11, <2>12 DEF HostInv
<1>5. ASSUME NEW c \in Cell, Host!Enter(c)
      PROVE  HostInv'
  <2>1. cells[c].step = "waits" /\ ~Host!Locked /\ ~ended
    BY <1>0, <1>5 DEF Host!Enter, Host!At, NoneLeft
  <2>2. CASE worker.host = 0 /\ Host!Spawn(c) /\ UNCHANGED worker
    BY <1>4, <1>l, <2>1, <2>2 DEF Host!Spawn
  <2> QED
    BY <1>2, <1>3, <1>5, <2>1, <2>2 DEF Host!Enter
<1>6. ASSUME NEW c \in Cell, Host!Retired(c)
      PROVE  HostInv'
  <2>1. cells[c].step = "retires" /\ Uses(c) /\ worker.host = 0 /\ ~ended
    BY <1>0, <1>6 DEF Host!Retired, Host!At, Uses, Holding, NoneLeft
  <2>2. \A d \in Cell \ {c} : ~Uses(d)
    BY <1>0, <2>1 DEF OneUses
  <2> QED
    BY <1>4, <1>6, <2>1, <2>2 DEF Host!Retired
<1>7. ASSUME NEW c \in Cell, Host!Ready(c)
      PROVE  HostInv'
  <2> DEFINE h == cells[c].host
  <2>1. /\ cells[c].step = "spawns" /\ Uses(c) /\ ~ended
        /\ h \in 1..spawned /\ h \in Hosts /\ Empty(h) /\ h \in Nat
        /\ worker.host = 0 /\ worker.host \notin processes
    BY <1>0, <1>h, <1>7 DEF Host!Ready, Host!At, Uses, Holding, NoneLeft
  <2>2. Moved(c, "runs", h)
    BY <1>0, <1>7, <2>1, CellMoves DEF Host!Ready, Host!Exchange, Stage
  <2>3. /\ asked' = [asked EXCEPT ![h] = Append(asked[h], c)]
        /\ worker' = [host |-> h, packages |-> Packages(c)]
        /\ UNCHANGED <<answers, processes, spawned, ended>>
    BY <1>7 DEF Host!Ready, Host!Exchange
  <2>4. asked'[h] = <<c>> /\ \A g \in Hosts \ {h} : asked'[g] = asked[g]
    <3>1. asked[h] = <<>>
      BY <2>1 DEF Empty
    <3> QED
      BY <1>0, <2>1, <2>3, <3>1
  <2>5. asked' \in [Hosts -> Seq(Cell)]
    BY <1>0, <2>1, <2>3
  <2>6. \A d \in Cell : (Uses(d) <=> d = c) /\ (Uses(d)' <=> d = c)
    BY <1>0, <2>1, <2>2 DEF Moved, Uses, OneUses
  <2>7. worker' \in Keeping /\ worker'.host = h /\ Host!Covered(c)'
    BY <2>1, <2>3 DEF Keeping, Bundle, Host!Covered
  <2>8. HostTypeOK' /\ OneUses'
    BY <1>0, <2>2, <2>3, <2>5, <2>6, <2>7 DEF HostTypeOK, Moved, OneUses
  <2>9. Kept'
    BY <1>0, <1>h, <1>m, <2>1, <2>3, <2>4, <2>6, <2>7, <2>8 DEF Kept, Empty
  <2>10. NoneLeft'
    BY <1>0, <2>1, <2>3, <2>6, <2>7 DEF NoneLeft
  <2>11. ASSUME NEW d \in Cell
         PROVE  Holding(d)' /\ Line(d)'
    <3>1. CASE d = c
      BY <2>1, <2>2, <2>3, <2>4, <2>7, <3>1 DEF Moved, Holding, Line, Uses, Empty
    <3>2. CASE d # c
      BY <1>0, <2>2, <2>6, <3>2 DEF Moved, Holding, Line, Uses
    <3> QED
      BY <3>1, <3>2
  <2> QED
    BY <2>8, <2>9, <2>10, <2>11 DEF HostInv
<1>8. ASSUME NEW h \in Hosts, Host!HostAnswers(h)
      PROVE  HostInv'
  <2>1. /\ h \in processes /\ asked[h] # <<>>
        /\ asked' = [asked EXCEPT ![h] = Tail(asked[h])]
        /\ answers' = [answers EXCEPT ![h] = Append(answers[h], Head(asked[h]))]
        /\ UNCHANGED <<cells, worker, processes, spawned, ended>>
    BY <1>8 DEF Host!HostAnswers
  <2>2. h \in 1..spawned /\ ~ended
    BY <1>0, <2>1 DEF NoneLeft
  <2>3. PICK c \in Cell : cells[c].step = "runs" /\ cells[c].host = h /\ asked[h] = <<c>> /\ answers[h] = <<>>
    <3>1. \E c \in Cell : Uses(c) /\ h \in {worker.host, cells[c].host}
      <4>1. CASE h = worker.host
        <5>1. worker.host # 0 /\ ~Empty(worker.host)
          BY <2>1, <2>2, <4>1 DEF Empty
        <5> QED
          BY <1>0, <1>l, <4>1, <5>1 DEF Kept
      <4>2. CASE h # worker.host
        BY <1>0, <2>1, <4>2 DEF NoneLeft
      <4> QED
        BY <4>1, <4>2
    <3>2. PICK c \in Cell : Uses(c) /\ h \in {worker.host, cells[c].host}
      BY <3>1
    <3>3. cells[c].step = "runs" /\ cells[c].host = h
      BY <1>0, <2>1, <2>2, <3>2 DEF Uses, Holding, Empty
    <3> QED
      BY <1>0, <2>1, <3>3 DEF Line
  <2>4. asked'[h] = <<>> /\ answers'[h] = <<c>>
    BY <1>0, <2>1, <2>3
  <2>5. \A g \in Hosts \ {h} : asked'[g] = asked[g] /\ answers'[g] = answers[g]
    BY <1>0, <2>1
  <2>6. asked' \in [Hosts -> Seq(Cell)] /\ answers' \in [Hosts -> Seq(Cell)]
    <3>1. Tail(asked[h]) = <<>> /\ Append(answers[h], Head(asked[h])) = <<c>>
      BY <2>3
    <3>2. <<>> \in Seq(Cell) /\ <<c>> \in Seq(Cell)
      OBVIOUS
    <3> QED
      BY <1>0, <2>1, <3>1, <3>2
  <2>7. HostTypeOK' /\ OneUses' /\ NoneLeft'
    BY <1>0, <2>1, <2>6 DEF HostTypeOK, OneUses, NoneLeft, Uses
  <2>8. Kept'
    <3>1. Uses(c)'
      BY <2>1, <2>3 DEF Uses
    <3> QED
      BY <1>0, <1>h, <1>m, <2>1, <2>2, <2>5, <2>7, <3>1 DEF Kept, Empty
  <2>9. ASSUME NEW d \in Cell
        PROVE  Holding(d)' /\ Line(d)'
    <3>1. Uses(d) => d = c
      BY <1>0, <2>3 DEF OneUses, Uses
    <3> QED
      BY <1>0, <2>1, <2>3, <2>4, <3>1 DEF Holding, Line, Uses, Host!Covered
  <2> QED
    BY <2>7, <2>8, <2>9 DEF HostInv
<1>9. ASSUME NEW h \in Hosts, Host!HostDies(h)
      PROVE  HostInv'
  <2>1. processes' = processes \ {h} /\ UNCHANGED <<cells, worker, asked, answers, spawned, ended>>
    BY <1>9 DEF Host!HostDies, Host!Kill
  <2>2. Host!Locked' = Host!Locked
    BY <2>1 DEF Host!Locked
  <2> QED
    BY <1>0, <2>1, <2>2 DEF HostInv, HostTypeOK, OneUses, Kept, NoneLeft, Uses, Holding,
       Line, Empty, Host!Covered
\* A cell that gives its host up, with the host's process.
<1>10. ASSUME NEW c \in Cell, cells[c].step \in {"waits", "retires", "spawns", "runs"},
              Host!To(c, "refused", 0), processes' = processes \ {cells[c].host},
              IF cells[c].step = "runs" THEN worker' = Host!NoHost ELSE UNCHANGED worker,
              \A h \in Hosts : \/ asked'[h] = asked[h] /\ answers'[h] = answers[h]
                               \/ h = cells[c].host /\ cells[c].step = "runs",
              asked' \in [Hosts -> Seq(Cell)], answers' \in [Hosts -> Seq(Cell)],
              UNCHANGED <<spawned, ended>>
       PROVE  HostInv'
  <2>1. Moved(c, "refused", 0)
    BY <1>0, <1>10, CellMoves DEF Stage
  <2>2. worker' \in Keeping /\ worker'.host \in {0, worker.host}
    BY <1>0, <1>10 DEF Host!NoHost, Keeping, Bundle
  <2>3. \A d \in Cell : Uses(d)' <=> Uses(d) /\ d # c
    BY <2>1 DEF Moved, Uses
  <2>4. HostTypeOK' /\ OneUses'
    BY <1>0, <1>10, <2>1, <2>2, <2>3 DEF HostTypeOK, Moved, OneUses
  <2>5. \A h \in processes' : h = worker'.host \/ \E d \in Cell : Uses(d)' /\ cells'[d].host = h
    <3>1. CASE cells[c].step = "runs"
      <4>1. worker.host = cells[c].host /\ Uses(c) /\ \A d \in Cell \ {c} : ~Uses(d)
        BY <1>0, <3>1 DEF Holding, Uses, OneUses
      <4> QED
        BY <1>0, <1>10, <4>1 DEF NoneLeft
    <3>2. CASE cells[c].step # "runs"
      <4> SUFFICES ASSUME NEW h \in processes', h # worker'.host
                   PROVE  \E d \in Cell : Uses(d)' /\ cells'[d].host = h
        OBVIOUS
      <4>1. h \in processes /\ h # cells[c].host /\ h # worker.host
        BY <1>10, <3>2
      <4>2. PICK d \in Cell : Uses(d) /\ cells[d].host = h
        BY <1>0, <4>1 DEF NoneLeft
      <4>3. d # c /\ cells'[d] = cells[d]
        BY <2>1, <4>1, <4>2 DEF Moved
      <4> QED
        BY <2>3, <4>2, <4>3
    <3> QED
      BY <3>1, <3>2
  <2>6. NoneLeft'
    <3>1. ended' => processes' = {} /\ \A d \in Cell : ~Uses(d)' /\ cells'[d].step # "waits"
      BY <1>0, <1>10, <2>1, <2>3 DEF NoneLeft, Moved, Uses
    <3> QED
      BY <2>5, <3>1 DEF NoneLeft
  <2>7. Kept'
    <3>1. worker'.host \in 0..spawned'
      BY <1>0, <1>h, <1>10, <2>2 DEF Kept
    <3>2. \A h \in Hosts : h > spawned' => Empty(h)'
      <4>1. cells[c].step = "runs" => cells[c].host \in 1..spawned
        BY <1>0 DEF Holding, Uses
      <4>2. ASSUME NEW h \in Hosts, h > spawned
            PROVE  Empty(h)'
        <5>1. ~(h = cells[c].host /\ cells[c].step = "runs")
          BY <1>h, <4>1, <4>2 DEF Hosts
        <5>2. asked'[h] = asked[h] /\ answers'[h] = answers[h]
          BY <1>10, <4>2, <5>1
        <5> QED
          BY <1>0, <4>2, <5>2 DEF Kept, Empty
      <4> QED
        BY <1>10, <4>2
    <3>3. ASSUME worker'.host # 0, ~Host!Locked'
          PROVE  Empty(worker.host)'
      <4>1. cells[c].step # "runs" /\ worker' = worker
        BY <1>10, <3>3 DEF Host!NoHost
      <4>2. worker.host \in Hosts
        BY <1>0, <1>h, <1>w, <3>3, <4>1 DEF Kept
      <4>3. Empty(worker.host)
        <5>1. \A d \in Cell \ {c} : ~Uses(d)
          BY <1>m, <2>3, <2>4, <3>3
        <5>2. ~Uses(c)
          BY <1>0, <3>3, <4>1 DEF Uses, Holding
        <5> QED
          BY <1>0, <1>l, <3>3, <4>1, <5>1, <5>2 DEF Kept
      <4> QED
        BY <1>10, <4>1, <4>2, <4>3 DEF Empty
    <3> QED
      BY <3>1, <3>2, <3>3 DEF Kept
  <2>8. ASSUME NEW d \in Cell
        PROVE  Holding(d)' /\ Line(d)'
    <3>1. CASE d = c
      BY <2>1, <3>1 DEF Moved, Holding, Line, Uses
    <3>2. CASE d # c /\ ~Uses(d)
      BY <1>0, <2>1, <2>3, <3>2 DEF Moved, Holding, Line, Uses
    <3>3. CASE d # c /\ Uses(d)
      <4>1. cells[c].step # "runs" /\ worker' = worker
        BY <1>0, <1>10, <3>3 DEF OneUses, Uses
      <4>2. cells[d].host \in Hosts
        BY <1>0, <1>h, <3>3 DEF Holding
      <4> QED
        BY <1>0, <1>10, <2>1, <3>3, <4>1, <4>2 DEF Moved, Holding, Line, Uses, Empty,
           Host!Covered
    <3> QED
      BY <3>1, <3>2, <3>3
  <2> QED
    BY <2>4, <2>6, <2>7, <2>8 DEF HostInv
<1>11. ASSUME NEW c \in Cell, Host!Stop(c)
       PROVE  HostInv'
  <2>1. /\ cells[c].step \in {"waits", "retires", "spawns", "runs"} /\ Host!To(c, "refused", 0)
        /\ processes' = processes \ {cells[c].host}
        /\ IF cells[c].step = "runs" THEN worker' = Host!NoHost ELSE UNCHANGED worker
        /\ UNCHANGED <<asked, answers, spawned, ended>>
    BY <1>11 DEF Host!Stop, Host!Discard, Host!Kill, Host!At
  <2>2. \A h \in Hosts :
          \/ asked'[h] = asked[h] /\ answers'[h] = answers[h]
          \/ h = cells[c].host /\ cells[c].step = "runs"
    BY <2>1
  <2>3. /\ asked' \in [Hosts -> Seq(Cell)] /\ answers' \in [Hosts -> Seq(Cell)]
        /\ UNCHANGED <<spawned, ended>>
    BY <1>0, <2>1
  <2> QED
    BY <1>10, <2>1, <2>2, <2>3
<1>12. ASSUME NEW c \in Cell, Host!Read(c)
       PROVE  HostInv'
  <2> DEFINE h == cells[c].host
  <2>1. /\ cells[c].step = "runs" /\ Uses(c) /\ answers[h] # <<>> /\ ~ended
        /\ h \in 1..spawned /\ h \in Hosts /\ h \in Nat /\ worker.host = h
        /\ asked[h] = <<>> /\ answers[h] = <<c>>
    BY <1>0, <1>h, <1>12 DEF Host!Read, Host!At, Uses, Holding, Line, NoneLeft
  <2>2. Head(answers[h]) = c /\ Tail(answers[h]) = <<>>
    BY <2>1
  <2>3. /\ cells' = [cells EXCEPT ![c] = [step |-> "answered", host |-> h, answer |-> {c}]]
        /\ answers' = [answers EXCEPT ![h] = <<>>]
        /\ UNCHANGED <<worker, processes, asked, spawned, ended>>
    BY <1>12, <2>2 DEF Host!Read, Host!IsAnswer
  <2>4. [step |-> "answered", host |-> h, answer |-> {c}] \in CellType
    BY <2>1 DEF CellType, Stage
  <2>5. /\ cells' \in [Cell -> CellType] /\ \A d \in Cell \ {c} : cells'[d] = cells[d]
        /\ cells'[c].step = "answered" /\ cells'[c].answer = {c}
    BY <1>0, <2>3, <2>4
  <2>6. answers' \in [Hosts -> Seq(Cell)] /\ answers'[h] = <<>> /\ \A g \in Hosts \ {h} : answers'[g] = answers[g]
    <3>1. <<>> \in Seq(Cell)
      OBVIOUS
    <3> QED
      BY <1>0, <2>1, <2>3, <3>1
  <2>7. \A d \in Cell : (Uses(d) <=> d = c) /\ ~Uses(d)'
    BY <1>0, <2>1, <2>5 DEF Uses, OneUses
  <2>8. HostTypeOK' /\ OneUses'
    BY <1>0, <2>3, <2>5, <2>6, <2>7 DEF HostTypeOK, OneUses
  <2>9. Kept'
    BY <1>0, <1>h, <2>1, <2>3, <2>6 DEF Kept, Empty
  <2>10. NoneLeft'
    BY <1>0, <2>1, <2>3, <2>7 DEF NoneLeft
  <2>11. ASSUME NEW d \in Cell
         PROVE  Holding(d)' /\ Line(d)'
    BY <1>0, <2>5, <2>7 DEF Holding, Line, Uses
  <2> QED
    BY <2>8, <2>9, <2>10, <2>11 DEF HostInv
<1>13. CASE Host!Shutdown
  <2>1. /\ processes' = processes \ {worker.host} /\ worker' = Host!NoHost /\ ended' = TRUE
        /\ UNCHANGED <<cells, asked, answers, spawned>>
        /\ \A c \in Cell : ~Uses(c) /\ cells[c].step # "waits"
    BY <1>13 DEF Host!Shutdown, Host!Kill, Host!Waiting, Uses
  <2>2. worker' \in Keeping /\ worker'.host = 0
    BY <2>1 DEF Host!NoHost, Keeping, Bundle
  <2>3. processes' = {} /\ \A d \in Cell : ~Uses(d)'
    BY <1>0, <2>1 DEF NoneLeft, Uses
  <2>4. HostTypeOK' /\ OneUses' /\ NoneLeft'
    BY <1>0, <2>1, <2>2, <2>3 DEF HostTypeOK, OneUses, NoneLeft
  <2>5. Kept'
    BY <1>0, <1>h, <2>1, <2>2 DEF Kept, Empty
  <2>6. ASSUME NEW d \in Cell
        PROVE  Holding(d)' /\ Line(d)'
    BY <1>0, <2>1, <2>3 DEF Holding, Line, Uses
  <2> QED
    BY <2>4, <2>5, <2>6 DEF HostInv
<1>14. CASE UNCHANGED host
  <2>1. Host!Locked' = Host!Locked
    BY <1>14 DEF host, Host!Locked
  <2> QED
    BY <1>14, <2>1 DEF host, HostInv, HostTypeOK, OneUses, Kept, NoneLeft, Uses, Holding,
       Line, Empty, Host!Covered
<1> QED
  BY <1>1, <1>5, <1>6, <1>7, <1>8, <1>9, <1>11, <1>12, <1>13, <1>14 DEF Host!ComputeNext, Hosts

-----------------------------------------------------------------------------
\* Updater.  The offer that an installation confirmed stays the current one
\* until it ends, the gate stays closed from the dialog on, and a schedule that
\* is believed is saved.
Offer    == [id : Nat, version : Nat]
Schedule == [failures : Nat, next : Nat]
Moment   == Nat \cup {Never}
Checked  == [automatic : BOOLEAN, began : Moment, passed : Moment]

UpdateTypeOK ==
    /\ {now, version, feed, checks, target} \subseteq Nat
    /\ {offer, shown, chosen} \subseteq Offer
    /\ {schedule, saved} \subseteq Schedule /\ last \in Checked

Confirmed == {"dialog", "verify", "download", "install"}
Phases == install = "none" <=> phase \in {"idle", "checking"}
Installs ==
    /\ install \in {"gate"} \cup Confirmed => chosen = offer
    /\ install \in Confirmed => installing /\ activities = {}
    /\ install \in {"download", "install"} => target = chosen.version

Spaced ==
    /\ schedule = saved
    /\ phase = "checking" => last.passed = Never
    /\ last.began # Never => last.began <= now /\ saved.next >= last.began + Delay[0]
    /\ last.passed # Never => saved.next >= last.passed + Success

Elsewhere == focus # "updater" => phase = "idle" /\ install = "none"

UpdateInv == UpdateTypeOK /\ Phases /\ Installs /\ Spaced /\ Elsewhere

\* Nothing is offered or planned at the start.
LEMMA UpdateBegins == ASSUME Init PROVE UpdateInv
<1> USE DEF Init, UpdaterInit
<1>1. UpdateTypeOK
  BY DEF UpdateTypeOK, NoOffer, Offer, Schedule, Checked, Moment, Never
<1>2. Phases /\ Installs /\ Spaced /\ Elsewhere
  BY DEF Phases, Installs, Confirmed, Spaced, Elsewhere, Never
<1> QED
  BY <1>1, <1>2 DEF UpdateInv

\* A step of the updater keeps the types.
LEMMA UpdateTypes ==
    ASSUME UpdateTypeOK, UpdaterNext
    PROVE  UpdateTypeOK'
<1>0. /\ now \in Nat /\ version \in Nat /\ feed \in Nat /\ checks \in Nat /\ target \in Nat
      /\ offer \in Offer /\ shown \in Offer /\ chosen \in Offer /\ NoOffer \in Offer
      /\ schedule \in Schedule /\ saved \in Schedule /\ last \in Checked
      /\ \A i \in 0..3 : Delay[i] \in Nat
      /\ Success \in Nat
  BY UpdaterAssumption DEF UpdateTypeOK, NoOffer, Offer
<1>1. ASSUME NEW automatic \in BOOLEAN, BeginCheck(automatic)
      PROVE  UpdateTypeOK'
  <2>1. [schedule EXCEPT !.next = now + Delay[0]] \in Schedule
    BY <1>0 DEF Schedule
  <2>2. [automatic |-> automatic, began |-> now, passed |-> Never] \in Checked
    BY <1>0 DEF Checked, Moment
  <2> QED
    BY <1>0, <1>1, <2>1, <2>2 DEF BeginCheck, Plan, UpdateTypeOK, versions, work
<1>2. CASE FinishCheck
  <2>1. /\ [failures |-> 0, next |-> now + Success] \in Schedule
        /\ [id |-> checks, version |-> feed] \in Offer
        /\ [last EXCEPT !.passed = now] \in Checked
    BY <1>0 DEF Schedule, Offer, Checked, Moment
  <2> QED
    BY <1>0, <1>2, <2>1 DEF FinishCheck, Plan, UpdateTypeOK, plan, versions, work
<1>3. CASE FailCheck
  <2>1. schedule.failures \in Nat
    BY <1>0 DEF Schedule
  <2>2. Least(schedule.failures + 1, 4) \in Nat /\ Least(schedule.failures, 3) \in 0..3
    BY <2>1 DEF Least
  <2>3. [failures |-> Least(schedule.failures + 1, 4),
         next |-> now + Delay[Least(schedule.failures, 3)]] \in Schedule
    BY <1>0, <2>2 DEF Schedule
  <2> QED
    BY <1>0, <1>3, <2>3 DEF FailCheck, Plan, UpdateTypeOK, plan, versions, work
<1>4. CASE Show
  BY <1>0, <1>4 DEF Show, UpdateTypeOK, versions, plan, work
<1>5. CASE BeginInstall
  BY <1>0, <1>5 DEF BeginInstall, Still, UpdateTypeOK, versions, plan
<1>6. CASE EnterGate
  BY <1>0, <1>6 DEF EnterGate, Still, UpdateTypeOK, versions, plan
<1>7. CASE Confirm
  BY <1>0, <1>7 DEF Confirm, Still, UpdateTypeOK, versions, plan
<1>8. CASE Verify
  BY <1>0, <1>8 DEF Verify, Still, UpdateTypeOK, versions, plan
<1>9. CASE Download
  BY <1>0, <1>9 DEF Download, Still, UpdateTypeOK, versions, plan
<1>10. CASE GiveUp
  BY <1>0, <1>10 DEF GiveUp, Still, UpdateTypeOK, versions, plan
<1>11. CASE Changed
  BY <1>0, <1>11 DEF Changed, Still, UpdateTypeOK, versions, plan
<1>12. CASE BackIdle
  BY <1>0, <1>12 DEF BackIdle, Still, UpdateTypeOK, versions, plan
<1>13. CASE Tick
  BY <1>0, <1>13 DEF Tick, UpdateTypeOK, versions, plan, work
<1>14. CASE Publish
  BY <1>0, <1>14 DEF Publish, UpdateTypeOK, versions, plan, work
<1> QED
  BY <1>1, <1>2, <1>3, <1>4, <1>5, <1>6, <1>7, <1>8, <1>9, <1>10, <1>11, <1>12, <1>13, <1>14
     DEF UpdaterNext

\* Nor does it lose what the installation and the schedule rest on.
LEMMA UpdateKeeps ==
    ASSUME UpdateTypeOK, Phases, Installs, UpdaterNext
    PROVE  Phases' /\ Installs'
<1> USE DEF Phases, Installs, Confirmed
<1>1. ASSUME NEW automatic \in BOOLEAN, BeginCheck(automatic)
      PROVE  Phases' /\ Installs'
  BY <1>1 DEF BeginCheck, work, gate
<1>2. CASE FinishCheck
  BY <1>2 DEF FinishCheck, work, gate
<1>3. CASE FailCheck
  BY <1>3 DEF FailCheck, work, gate
<1>4. CASE Show
  BY <1>4 DEF Show, work, gate
<1>5. CASE BeginInstall
  BY <1>5 DEF BeginInstall, Step, gate
<1>6. CASE EnterGate
  BY <1>6 DEF EnterGate, CloseGate, Step, gate
<1>7. CASE Confirm
  BY <1>7 DEF Confirm, Step, gate
<1>8. CASE Verify
  BY <1>8 DEF Verify, Step, gate
<1>9. CASE Download
  BY <1>9 DEF Download, Step, gate
<1>10. CASE GiveUp
  BY <1>10 DEF GiveUp, OpenGate, Step
<1>11. CASE Changed
  BY <1>11 DEF Changed, OpenGate, Step
<1>12. CASE BackIdle
  BY <1>12 DEF BackIdle, Step, gate
<1>13. CASE Tick
  BY <1>13 DEF Tick, work, gate
<1>14. CASE Publish
  BY <1>14 DEF Publish, work, gate
<1> QED
  BY <1>1, <1>2, <1>3, <1>4, <1>5, <1>6, <1>7, <1>8, <1>9, <1>10, <1>11, <1>12, <1>13, <1>14
     DEF UpdaterNext

\* Nor the distance of its checks.
LEMMA UpdateSpaces ==
    ASSUME UpdateTypeOK, Phases, Spaced, UpdaterNext
    PROVE  Spaced'
<1>0. /\ now \in Nat /\ schedule \in Schedule /\ saved \in Schedule /\ last \in Checked
      /\ \A i \in 0..3 : Delay[i] \in Nat /\ Delay[0] <= Delay[i]
      /\ Success \in Nat /\ Delay[0] \in Nat /\ Delay[0] <= Success
  BY UpdaterAssumption DEF UpdateTypeOK
<1>s. saved.next \in Nat /\ last.began \in Moment /\ last.passed \in Moment
  BY <1>0 DEF Schedule, Checked
<1>1. ASSUME NEW automatic \in BOOLEAN, BeginCheck(automatic)
      PROVE  Spaced'
  <2>1. schedule' = saved' /\ saved'.next = now + Delay[0] /\ now' = now
    BY <1>0, <1>1 DEF BeginCheck, Plan, Schedule
  <2>2. last'.began = now /\ last'.passed = Never
    BY <1>1 DEF BeginCheck
  <2> QED
    BY <1>0, <2>1, <2>2 DEF Spaced, Never
<1>2. CASE FinishCheck
  <2>1. CASE /\ Plan([failures |-> 0, next |-> now + Success])
             /\ last' = [last EXCEPT !.passed = now]
    <3>1. schedule' = saved' /\ saved'.next = now + Success /\ now' = now /\ phase' = "idle"
      BY <1>2, <2>1 DEF FinishCheck, Plan
    <3>2. last'.began = last.began /\ last'.passed = now
      BY <1>0, <2>1 DEF Checked
    <3> QED
      BY <1>0, <1>s, <3>1, <3>2 DEF Spaced, Never, Moment
  <2> QED
    BY <1>0, <1>2, <2>1 DEF FinishCheck, plan, Spaced
<1>3. CASE FailCheck
  <2>1. schedule.failures \in Nat
    BY <1>0 DEF Schedule
  <2>2. Least(schedule.failures, 3) \in 0..3
    BY <2>1 DEF Least
  <2>3. PICK k \in 0..3 : k = Least(schedule.failures, 3)
    BY <2>2
  <2>4. CASE Plan([failures |-> Least(schedule.failures + 1, 4), next |-> now + Delay[k]])
    <3>1. /\ schedule' = saved' /\ saved'.next = now + Delay[k] /\ now' = now /\ phase' = "idle"
          /\ last' = last /\ last.passed = Never
      BY <1>3, <2>4 DEF FailCheck, Plan, Spaced
    <3> QED
      BY <1>0, <1>s, <3>1 DEF Spaced, Never, Moment
  <2> QED
    BY <1>3, <2>3, <2>4 DEF FailCheck, plan, Spaced
<1>4. CASE Tick
  BY <1>0, <1>s, <1>4 DEF Tick, plan, Spaced, Moment, Never
<1>5. CASE BeginInstall \/ EnterGate \/ Confirm \/ Verify \/ Download \/ GiveUp \/ Changed
           \/ BackIdle
  <2>1. UNCHANGED <<now, schedule, saved, last>> /\ phase' # "checking"
    BY <1>5 DEF Phases, BeginInstall, EnterGate, Confirm, Verify, Download, GiveUp, Changed,
       BackIdle,
                Still, plan
  <2> QED
    BY <2>1 DEF Spaced
<1>6. CASE Show \/ Publish
  BY <1>6 DEF Show, Publish, plan, Spaced
<1> QED
  BY <1>1, <1>2, <1>3, <1>4, <1>5, <1>6 DEF UpdaterNext

\* The invariant of the updater is inductive, whatever the other services do
\* through the gate.
LEMMA UpdateStep ==
    ASSUME UpdateInv, [Next]_vars
    PROVE  UpdateInv'
<1> USE DEF UpdateInv
<1>1. ASSUME Update(UpdaterNext)
      PROVE  UpdateInv'
  BY <1>1, UpdateTypes, UpdateKeeps, UpdateSpaces DEF Update, Elsewhere
<1>2. ASSUME UNCHANGED <<updater, focus>>, focus = "updater" => (OtherWork \/ UNCHANGED gate)
      PROVE  UpdateInv'
  <2>1. UpdateTypeOK' /\ Phases' /\ Spaced' /\ Elsewhere'
    BY <1>2 DEF updater, versions, plan, work, UpdateTypeOK, Phases, Spaced, Elsewhere
  <2>2. Installs'
    BY <1>2 DEF updater, versions, plan, work, gate, Elsewhere, Installs, Confirmed,
       OtherWork, Admit, Leave
  <2> QED
    BY <2>1, <2>2
<1>3. ASSUME Reset, UNCHANGED <<now, feed, saved, checks, last, focus>>, version' \in Nat
      PROVE  UpdateInv'
  <2>1. UpdateTypeOK'
    BY <1>3 DEF Reset, UpdateTypeOK, NoOffer, Offer
  <2>2. Phases' /\ Installs' /\ Elsewhere'
    BY <1>3 DEF Reset, Phases, Installs, Confirmed, Elsewhere
  <2>3. Spaced'
    BY <1>3 DEF Reset, Spaced
  <2> QED
    BY <2>1, <2>2, <2>3
<1>4. CASE Environment \/ Provider(ProviderNext)
  BY <1>2, <1>4 DEF Environment, Provider, Update
<1>5. CASE Relaunch
  <2>1. version' \in Nat
    BY <1>5 DEF Relaunch, Restart, UpdateTypeOK
  <2> QED
    BY <1>3, <1>5, <2>1 DEF Relaunch, Restart
<1>6. CASE Crash
  <2>1. version' \in Nat
    BY <1>6 DEF Crash, UpdaterLost, versions, UpdateTypeOK
  <2> QED
    BY <1>3, <1>6, <2>1 DEF Crash, UpdaterLost, versions
<1>7. CASE UNCHANGED <<app, focus>>
  BY <1>2, <1>7 DEF app
<1> QED
  BY <1>1, <1>4, <1>5, <1>6, <1>7 DEF Next, Connect, AskServer, Edit, Compute, Stream, Browse,
     vars

\* A step checks and installs as agreed.
LEMMA UpdateAgrees ==
    ASSUME UpdateInv, [Next]_vars
    PROVE  [ChecksAreSpaced /\ InstallsAsConfirmed']_updater
<1>1. InstallsAsConfirmed'
  <2>1. Installs'
    BY UpdateStep DEF UpdateInv
  <2> QED
    BY <2>1 DEF Installs, Confirmed, InstallsAsConfirmed
<1>2. ASSUME NEW automatic \in BOOLEAN, BeginCheck(automatic)
      PROVE  ChecksAreSpaced
  <2>1. now \in Nat /\ saved.next \in Nat /\ last.began \in Moment /\ last.passed \in Moment
    BY DEF UpdateInv, UpdateTypeOK, Schedule, Checked
  <2>2. last'.automatic = automatic /\ (automatic => now >= saved.next)
    BY <1>2 DEF BeginCheck, Due, UpdateInv, Spaced
  <2>3. Delay[0] \in Nat /\ Success \in Nat
    BY UpdaterAssumption
  <2> QED
    BY <2>1, <2>2, <2>3 DEF ChecksAreSpaced, UpdateInv, Spaced, Moment, Never
<1>3. ASSUME checks' = checks PROVE ChecksAreSpaced
  BY <1>3 DEF ChecksAreSpaced
<1>4. checks' = checks \/ \E automatic \in BOOLEAN : BeginCheck(automatic)
  <2>1. ASSUME Update(UpdaterNext)
        PROVE  checks' = checks \/ \E automatic \in BOOLEAN : BeginCheck(automatic)
    BY <2>1 DEF Update, UpdaterNext, FinishCheck, FailCheck, Show, BeginInstall, EnterGate,
       Confirm, Verify,
                Download, GiveUp, Changed, BackIdle, Tick, Publish, Still
  <2> QED
    BY <2>1 DEF Next, Provider, Update, Environment, Relaunch, Restart, Crash, UpdaterLost,
       Connect, AskServer, Edit, Compute, Stream, Browse, app, updater, vars
<1>5. ChecksAreSpaced
  BY <1>2, <1>3, <1>4
<1> QED
  BY <1>1, <1>5

-----------------------------------------------------------------------------
\* Provider support.  One command has the slot.  A look at the models holds the
\* cache empty while it runs, and a generation that it saw and that is replaced
\* does not come back, unless it is known to have returned: tokens are issued
\* once, and a key comes back only from a Pi process that outlived its command.
Generation == Key \cup Token \cup {None}
Place == {"new", "look", "enter", "occupy", "discover", "launch", "check", "wait", "failed",
          "answered", "took", "recheck", "release", "leave", "done"}
Task == [pc : Place, kind : Kind, seen : Generation, found : Generation, wants : Generation,
         wrote : BOOLEAN, listens : BOOLEAN, woken : BOOLEAN]
Outliving == [by : Request \cup {NoRequest}, wants : Generation]

ProviderTypeOK ==
    /\ {credential, catalog, cache} \subseteq Generation /\ issued \subseteq Token
    /\ occupied \in BOOLEAN /\ {oauth, waking} \subseteq Request \cup {NoRequest}
    /\ IsFiniteSet(late) /\ late \subseteq Outliving
    /\ task \in [Request -> Task]

Asks(x)    == x.pc \in {"check", "wait", "failed", "answered", "took"}
Slotted(x) == x.pc \in {"discover", "launch", "recheck", "release"} \/ Asks(x)
Probes(x)  == x.kind = "models" /\ (x.pc \in {"launch", "recheck"} \/ Asks(x))
Pending(x) == x.wants \in Token /\ ~x.wrote

\* What a command rests on.
TaskOK(x) ==
    /\ Slotted(x) => occupied
    /\ x.wants \in Token => x.wants \in issued
    /\ Pending(x) => x.wants # credential /\ \A l \in late : l.wants # x.wants
    /\ x.kind \in Changes /\ Asks(x) => cache = None
    /\ x.pc = "recheck" => x.kind = "models"
    /\ Probes(x) =>
        /\ cache = None /\ x.seen # None
        /\ x.seen \in Token => x.seen \in issued /\ \A l \in late : l.wants # x.seen
        /\ x.wrote /\ credential = x.seen /\ ~returned => x.found = x.seen
        /\ x.pc \in {"answered", "took", "recheck"} => x.wrote
        /\ x.pc = "recheck" => catalog = x.found

Apart(x, y) ==
    /\ ~(Slotted(x) /\ Slotted(y))
    /\ Pending(x) /\ Pending(y) => x.wants # y.wants
    /\ Pending(x) /\ Probes(y) => y.seen # x.wants
    /\ Pending(y) /\ Probes(x) => x.seen # y.wants

Outlive ==
    /\ \A l \in late : l.wants \in Token => l.wants \in issued /\ l.wants # credential
    /\ \A l, m \in late : l.wants \in Token /\ l.wants = m.wants => l = m

ProviderInv ==
    /\ ProviderTypeOK /\ Outlive
    /\ \A r \in Request : TaskOK(task[r])
    /\ \A r, s \in Request : r # s => Apart(task[r], task[s])
    /\ credential \in Token => credential \in issued
    /\ cache # None /\ ~returned => catalog = cache

\* A command begins well typed.
LEMMA NewTaskType == NewTask \in Task
BY DEF NewTask, Task, Place, Kind, Generation

\* There is no command at the start.
LEMMA ProviderBegins == ASSUME ProviderInit PROVE ProviderInv
<1> USE DEF ProviderInit
<1>0. IsFiniteSet(late)
  <2>1. IsFiniteSet({[by |-> NoRequest, wants |-> credential]})
    BY FS_Singleton
  <2>2. late \subseteq {[by |-> NoRequest, wants |-> credential]}
    OBVIOUS
  <2> QED
    BY <2>1, <2>2, FS_Subset
<1>1. ProviderTypeOK
  <2>1. late \subseteq Outliving
    BY DEF Outliving, Generation
  <2>2. {credential, catalog, cache} \subseteq Generation /\ issued \subseteq Token
    BY DEF Generation
  <2>3. occupied \in BOOLEAN /\ {oauth, waking} \subseteq Request \cup {NoRequest}
    OBVIOUS
  <2>4. task \in [Request -> Task]
    BY NewTaskType
  <2> QED
    BY <1>0, <2>1, <2>2, <2>3, <2>4 DEF ProviderTypeOK
<1>2. Outlive
  BY ProviderAssumption DEF Outlive
<1>3. \A r \in Request : TaskOK(task[r])
  BY ProviderAssumption DEF TaskOK, NewTask, Slotted, Asks, Probes, Pending
<1>4. \A r, s \in Request : r # s => Apart(task[r], task[s])
  BY ProviderAssumption DEF Apart, NewTask, Slotted, Asks, Probes, Pending
<1> QED
  BY <1>1, <1>2, <1>3, <1>4 DEF ProviderInv

\* What is fresh is current by the invariant.
LEMMA ProviderHolds == ASSUME ProviderInv PROVE FreshIsCurrent
BY DEF ProviderInv, FreshIsCurrent, IsFresh

\* A step of one command that leaves the credential and the Pi processes that
\* outlived theirs alone.
LEMMA OneCommand ==
    ASSUME ProviderInv, NEW r \in Request, NEW x \in Task,
           task' = [task EXCEPT ![r] = x], UNCHANGED <<credential, issued, late, returned>>,
           TaskOK(x)',
           Slotted(x) => Slotted(task[r]) \/ ~occupied,
           Pending(x) => Pending(task[r]) /\ x.wants = task[r].wants,
           Probes(x) => \/ x.seen = credential
                        \/ Probes(task[r]) /\ x.seen = task[r].seen,
           \/ occupied' \in {occupied, TRUE}
           \/ Slotted(task[r]) /\ ~Slotted(x),
           occupied' \in BOOLEAN,
           \/ catalog' = catalog
           \/ cache = None /\ cache' = None /\ Slotted(task[r]),
           \/ cache' \in {cache, None}
           \/ /\ Slotted(task[r]) /\ (returned \/ cache' = catalog)
              /\ cache' \in Generation /\ catalog' = catalog,
           catalog' \in Generation,
           {oauth', waking'} \subseteq Request \cup {NoRequest}
    PROVE  ProviderInv'
<1>0. task \in [Request -> Task] /\ \A s \in Request : task[s] \in Task
  BY DEF ProviderInv, ProviderTypeOK
<1>1. task'[r] = x /\ \A s \in Request \ {r} : task'[s] = task[s]
  BY <1>0
<1>2. ProviderTypeOK'
  <2>1. cache' \in Generation
    BY DEF ProviderInv, ProviderTypeOK, Generation
  <2>2. task' \in [Request -> Task]
    BY <1>0
  <2> QED
    BY <2>1, <2>2 DEF ProviderInv, ProviderTypeOK
<1>3. Outlive'
  BY DEF ProviderInv, Outlive
<1>4. ASSUME NEW s \in Request, s # r
      PROVE  TaskOK(task[s])'
  <2>1. TaskOK(task[s]) /\ Apart(task[r], task[s])
    BY <1>4 DEF ProviderInv
  <2>2. PICK y : y = task[s]
    OBVIOUS
  <2>3. Slotted(y) => ~Slotted(task[r])
    BY <2>1, <2>2 DEF Apart
  <2>4. TaskOK(y)'
    BY <2>1, <2>2, <2>3 DEF TaskOK, Slotted, Probes
  <2>5. task'[s] = y
    BY <1>1, <1>4, <2>2
  <2> QED
    BY <2>4, <2>5 DEF TaskOK, Slotted, Asks, Probes, Pending
<1>5. ASSUME NEW s \in Request, s # r
      PROVE  Apart(x, task[s]) /\ Apart(task[s], x)
  <2>1. TaskOK(task[s]) /\ Apart(task[r], task[s])
    BY <1>5 DEF ProviderInv
  <2> QED
    BY <2>1 DEF Apart, TaskOK
<1>6. ASSUME NEW s \in Request, NEW u \in Request, s # u
      PROVE  Apart(task[s], task[u])'
  <2>1. CASE s = r
    BY <1>1, <1>5, <1>6, <2>1 DEF Apart, Slotted, Asks, Probes, Pending
  <2>2. CASE u = r
    BY <1>1, <1>5, <1>6, <2>2 DEF Apart, Slotted, Asks, Probes, Pending
  <2>3. CASE s # r /\ u # r
    BY <1>1, <1>6, <2>3 DEF ProviderInv, Apart, Slotted, Asks, Probes, Pending
  <2> QED
    BY <2>1, <2>2, <2>3
<1>7. cache' # None /\ ~returned' => catalog' = cache'
  BY DEF ProviderInv
<1>8. ASSUME NEW s \in Request
      PROVE  TaskOK(task[s])'
  <2>1. CASE s = r
    BY <1>1, <2>1 DEF TaskOK, Slotted, Asks, Probes, Pending
  <2> QED
    BY <1>4, <2>1
<1> QED
  BY <1>2, <1>3, <1>6, <1>7, <1>8 DEF ProviderInv

\* What a command leaves behind when it ends.
LEMMA CommandEnds ==
    ASSUME ProviderInv, NEW r \in Request, NEW place \in {"release", "leave", "done"}, End(r, place),
           UNCHANGED <<credential, issued, late, returned>>,
           \/ occupied' = occupied /\ (place = "release" => Slotted(task[r]))
           \/ place = "leave" /\ Slotted(task[r]) /\ occupied' = FALSE,
           \/ catalog' = catalog
           \/ cache = None /\ cache' = None /\ Slotted(task[r]),
           \/ cache' \in {cache, None}
           \/ /\ Slotted(task[r]) /\ (returned \/ cache' = catalog)
              /\ cache' \in Generation /\ catalog' = catalog,
           catalog' \in Generation,
           {oauth', waking'} \subseteq Request \cup {NoRequest}
    PROVE  ProviderInv'
<1> DEFINE x == [NewTask EXCEPT !.pc = place]
<1>1. /\ x \in Task /\ ~Pending(x) /\ ~Probes(x) /\ ~Asks(x) /\ x.wants \notin Token
      /\ x.pc = place /\ (Slotted(x) <=> place = "release")
  BY ProviderAssumption DEF NewTask, Task, Place, Kind, Generation, Pending, Probes, Asks,
     Slotted
<1>2. task' = [task EXCEPT ![r] = x]
  BY DEF End
<1> HIDE DEF x
<1>3. occupied' \in BOOLEAN /\ (place = "release" => occupied') /\ TaskOK(task[r])
  BY DEF ProviderInv, ProviderTypeOK, TaskOK
<1>4. TaskOK(x)'
  BY <1>1, <1>3 DEF TaskOK
<1>5. \/ occupied' \in {occupied, TRUE}
      \/ Slotted(task[r]) /\ ~Slotted(x)
  BY <1>1
<1>6. Slotted(x) => Slotted(task[r]) \/ ~occupied
  BY <1>1
<1> QED
  BY <1>1, <1>2, <1>3, <1>4, <1>5, <1>6, OneCommand

\* A command that goes on: what it remembers stays.
Remembers(x, y) ==
    /\ x.kind = y.kind /\ x.seen = y.seen /\ x.found = y.found
    /\ x.wants = y.wants /\ x.wrote = y.wrote

\* It is the same command at another place.
LEMMA CommandGoes ==
    ASSUME ProviderInv, NEW r \in Request, NEW place \in Place,
           Go(r, place) \/ task' = [task EXCEPT ![r].listens = TRUE, ![r].pc = place]
    PROVE  \E x \in Task : /\ task' = [task EXCEPT ![r] = x]
                           /\ x.pc = place /\ Remembers(x, task[r])
<1>0. task[r] \in Task /\ task \in [Request -> Task]
  BY DEF ProviderInv, ProviderTypeOK
<1>1. CASE Go(r, place)
  <2> DEFINE x == [task[r] EXCEPT !.pc = place]
  <2>1. task' = [task EXCEPT ![r] = x]
    BY <1>1 DEF Go
  <2>2. x \in Task /\ x.pc = place /\ Remembers(x, task[r])
    BY <1>0 DEF Task, Remembers
  <2> QED
    BY <2>1, <2>2
<1>2. CASE task' = [task EXCEPT ![r].listens = TRUE, ![r].pc = place]
  <2> DEFINE x == [task[r] EXCEPT !.listens = TRUE, !.pc = place]
  <2>1. task' = [task EXCEPT ![r] = x]
    BY <1>0, <1>2
  <2>2. x \in Task /\ x.pc = place /\ Remembers(x, task[r])
    BY <1>0 DEF Task, Remembers
  <2> QED
    BY <2>1, <2>2
<1> QED
  BY <1>1, <1>2

\* While its Pi works, the places of a command are alike.
LEMMA CommandAsks ==
    ASSUME ProviderInv, NEW r \in Request, NEW place \in {"wait", "failed", "answered", "took"},
           Go(r, place), Asks(task[r]),
           task[r].kind = "models" /\ place \in {"answered", "took"} => task[r].wrote,
           UNCHANGED <<stored, cache, slot, cancel, forgotten>>
    PROVE  ProviderInv'
<1>0. place \in Place
  BY DEF Place
<1>1. PICK x \in Task : task' = [task EXCEPT ![r] = x] /\ x.pc = place /\ Remembers(x, task[r])
  BY <1>0, CommandGoes
<1>2. /\ Asks(x) /\ Slotted(x) /\ Slotted(task[r]) /\ (Probes(x) <=> Probes(task[r]))
      /\ (Pending(x) <=> Pending(task[r]))
  BY <1>1 DEF Asks, Slotted, Probes, Pending, Remembers
<1>3. UNCHANGED <<credential, issued, catalog, cache, occupied, oauth, waking, late, returned>>
  BY DEF stored, slot, cancel, forgotten
<1>4. TaskOK(task[r])
  BY DEF ProviderInv
<1>5. TaskOK(x)'
  BY <1>1, <1>2, <1>3, <1>4 DEF TaskOK, Remembers, Probes
<1>6. catalog' \in Generation /\ {oauth', waking'} \subseteq Request \cup {NoRequest} /\ occupied' \in BOOLEAN
  BY <1>3 DEF ProviderInv, ProviderTypeOK
<1>7. x.wants = task[r].wants /\ x.seen = task[r].seen
  BY <1>1 DEF Remembers
<1> QED
  BY <1>1, <1>2, <1>3, <1>5, <1>6, <1>7, OneCommand

\* The invariant of provider support is inductive.
LEMMA ProviderStep ==
    ASSUME ProviderInv, ProviderNext
    PROVE  ProviderInv'
<1>0. /\ {credential, catalog, cache} \subseteq Generation /\ issued \subseteq Token
      /\ occupied \in BOOLEAN /\ {oauth, waking} \subseteq Request \cup {NoRequest}
      /\ IsFiniteSet(late) /\ late \subseteq Outliving
      /\ task \in [Request -> Task] /\ \A r \in Request : task[r] \in Task /\ TaskOK(task[r])
      /\ Outlive
  BY DEF ProviderInv, ProviderTypeOK
<1>g. None \notin Key \cup Token /\ Key \cap Token = {} /\ Generation = Key \cup Token \cup {None}
  BY ProviderAssumption DEF Generation
<1>1. ASSUME NEW r \in Request, NEW kind \in Kind, Ask(r, kind)
      PROVE  ProviderInv'
  <2>1. PICK g \in Wanted(kind) :
          task' = [task EXCEPT ![r].kind = kind, ![r].wants = g,
                      ![r].seen = IF kind = "models" THEN credential ELSE None,
                      ![r].pc = IF kind = "models" THEN "look" ELSE "enter"]
    BY <1>1, Zenon DEF Ask
  <2>2. PICK x : x = [task[r] EXCEPT !.kind = kind, !.wants = g,
                        !.seen = IF kind = "models" THEN credential ELSE None,
                        !.pc = IF kind = "models" THEN "look" ELSE "enter"]
    OBVIOUS
  <2>3. task' = [task EXCEPT ![r] = x]
    BY <1>0, <2>1, <2>2
  <2>4. g \in Generation /\ (g \in Token => kind = "connect" /\ g \notin issued)
    BY <1>g DEF Wanted, Kind
  <2>5. x \in Task /\ x.wants = g /\ x.pc \in {"look", "enter"}
    <3>1. PICK seen0 \in Generation, pc0 \in {"look", "enter"} :
            x = [task[r] EXCEPT !.kind = kind, !.wants = g, !.seen = seen0, !.pc = pc0]
      BY <1>0, <1>g, <2>2, Zenon
    <3> QED
      BY <1>0, <2>4, <3>1 DEF Task, Place
  <2>6. /\ ~Slotted(x) /\ ~Asks(x) /\ ~Probes(x) /\ (Pending(x) => g \in Token)
    BY <2>5 DEF Slotted, Asks, Probes, Pending
  <2>7. UNCHANGED <<credential, catalog, cache, occupied, oauth, waking, late, returned>>
    BY <1>1 DEF Ask, slot, cancel, forgotten
  <2>8. task'[r].wants = g
    BY <1>0, <2>3, <2>5
  <2>9. CASE kind # "connect"
    <3>1. g \notin Token /\ issued' = issued
      BY <1>1, <2>4, <2>9 DEF Ask
    <3>2. TaskOK(x)'
      BY <2>5, <2>6, <3>1 DEF TaskOK
    <3> QED
      BY <1>0, <2>3, <2>5, <2>6, <2>7, <3>1, <3>2, OneCommand
  <2>10. CASE kind = "connect"
    <3>1. g \in Token \ issued /\ issued' = issued \cup {g}
      BY <1>1, <2>8, <2>10 DEF Ask, Wanted
    <3>2. TaskOK(x)'
      BY <1>0, <2>5, <2>6, <2>7, <3>1 DEF TaskOK, Outlive, ProviderInv
    <3>3. ASSUME NEW y, TaskOK(y)
          PROVE  TaskOK(y)' /\ Apart(x, y) /\ Apart(y, x)
      BY <2>5, <2>6, <2>7, <3>1, <3>3 DEF TaskOK, Apart, Pending
    <3>4. ProviderTypeOK'
      BY <1>0, <2>3, <2>5, <2>7, <3>1 DEF ProviderTypeOK
    <3>5. Outlive'
      BY <1>0, <2>7, <3>1 DEF Outlive
    <3>6. task'[r] = x /\ \A s \in Request \ {r} : task'[s] = task[s]
      BY <1>0, <2>3
    <3>7. ASSUME NEW s \in Request
          PROVE  TaskOK(task[s])'
      <4>1. PICK y : y = task'[s]
        OBVIOUS
      <4>2. TaskOK(y)'
        BY <1>0, <3>2, <3>3, <3>6, <4>1
      <4> QED
        BY <4>1, <4>2 DEF TaskOK, Slotted, Asks, Probes, Pending
    <3>8. ASSUME NEW s \in Request, NEW u \in Request, s # u
          PROVE  Apart(task'[s], task'[u])
      BY <1>0, <3>3, <3>6, <3>8 DEF ProviderInv
    <3> QED
      BY <2>7, <3>1, <3>4, <3>5, <3>7, <3>8 DEF ProviderInv, Apart, Slotted, Asks, Probes,
         Pending
  <2> QED
    BY <2>9, <2>10
<1>2. ASSUME NEW r \in Request, Cached(r)
      PROVE  ProviderInv'
  <2>1. CASE End(r, "done") /\ UNCHANGED cache
    BY <1>0, <1>2, <2>1, CommandEnds DEF Cached, stored, slot, cancel, forgotten
  <2>2. CASE cache' = None /\ task' = [task EXCEPT ![r].seen = None, ![r].pc = "enter"]
    <3>0. PICK x : x = [task[r] EXCEPT !.seen = None, !.pc = "enter"]
      OBVIOUS
    <3>1. task' = [task EXCEPT ![r] = x]
      BY <1>0, <2>2, <3>0
    <3>2. /\ x \in Task /\ ~Slotted(x) /\ ~Asks(x) /\ ~Probes(x) /\ (Pending(x) <=> Pending(task[r]))
          /\ x.wants = task[r].wants /\ x.pc # "recheck"
      <4>1. x \in Task /\ x.pc = "enter" /\ x.wants = task[r].wants /\ x.wrote = task[r].wrote
        BY <1>0, <3>0 DEF Task, Place, Generation
      <4> QED
        BY <4>1 DEF Slotted, Asks, Probes, Pending
    <3>3. UNCHANGED <<credential, issued, catalog, occupied, oauth, waking, late, returned>>
      BY <1>2 DEF Cached, stored, slot, cancel, forgotten
    <3>4. TaskOK(x)'
      BY <1>0, <3>2, <3>3 DEF TaskOK
    <3> QED
      BY <1>0, <2>2, <3>1, <3>2, <3>3, <3>4, OneCommand
  <2> QED
    BY <1>2, <2>1, <2>2 DEF Cached
<1>3. ASSUME NEW r \in Request, Enter(r)
      PROVE  ProviderInv'
  <2>1. UNCHANGED <<credential, issued, catalog, cache, occupied, oauth, waking, late, returned>>
    BY <1>3 DEF Enter, stored, slot, cancel, forgotten
  <2>2. CASE Go(r, "occupy")
    <3>1. PICK x \in Task : task' = [task EXCEPT ![r] = x] /\ x.pc = "occupy" /\ Remembers(x, task[r])
      BY <2>2, CommandGoes DEF Place
    <3>2. /\ ~Slotted(x) /\ ~Asks(x) /\ ~Probes(x) /\ (Pending(x) <=> Pending(task[r]))
          /\ x.wants = task[r].wants /\ x.pc # "recheck"
      BY <3>1 DEF Slotted, Asks, Probes, Pending, Remembers
    <3>3. TaskOK(x)'
      BY <1>0, <2>1, <3>2 DEF TaskOK
    <3> QED
      BY <1>0, <2>1, <3>1, <3>2, <3>3, OneCommand
  <2>3. CASE End(r, "done")
    BY <1>0, <2>1, <2>3, CommandEnds
  <2> QED
    BY <1>3, <2>2, <2>3 DEF Enter
<1>4. ASSUME NEW r \in Request, Occupy(r)
      PROVE  ProviderInv'
  <2>1. UNCHANGED <<credential, issued, catalog, cache, waking, late, returned>>
    BY <1>4 DEF Occupy, stored, cancel, forgotten
  <2>2. CASE /\ ~occupied /\ occupied' = TRUE /\ oauth' = (IF task[r].kind = "connect" THEN r ELSE oauth)
             /\ Go(r, IF task[r].kind = "models" THEN "discover" ELSE "launch")
    <3>0. PICK place \in Place : place = IF task[r].kind = "models" THEN "discover" ELSE "launch"
      BY DEF Place
    <3>1. PICK x \in Task : task' = [task EXCEPT ![r] = x] /\ x.pc = place /\ Remembers(x, task[r])
      BY <2>2, <3>0, CommandGoes
    <3>2. /\ ~Asks(x) /\ ~Probes(x) /\ (Pending(x) <=> Pending(task[r])) /\ x.wants = task[r].wants
          /\ x.pc # "recheck"
      BY <3>0, <3>1 DEF Asks, Probes, Pending, Remembers
    <3>3. TaskOK(x)'
      BY <1>0, <2>1, <2>2, <3>2 DEF TaskOK
    <3> QED
      BY <1>0, <2>1, <2>2, <3>1, <3>2, <3>3, OneCommand
  <2>3. CASE End(r, "done") /\ UNCHANGED slot
    BY <1>0, <2>1, <2>3, CommandEnds DEF slot
  <2> QED
    BY <1>4, <2>2, <2>3 DEF Occupy
<1>5. ASSUME NEW r \in Request, Discover(r)
      PROVE  ProviderInv'
  <2>1. /\ UNCHANGED <<credential, issued, catalog, occupied, oauth, waking, late, returned>>
        /\ Slotted(task[r])
    BY <1>5 DEF Discover, stored, slot, cancel, forgotten, At, Slotted
  <2>2. CASE End(r, "release")
    BY <1>0, <1>5, <2>1, <2>2, CommandEnds DEF Discover
  <2>3. CASE /\ credential # None /\ cache' = None
             /\ task' = [task EXCEPT ![r] = [NewTask EXCEPT !.pc = "launch", !.seen = credential]]
    <3>0. PICK x : x = [NewTask EXCEPT !.pc = "launch", !.seen = credential]
      OBVIOUS
    <3>1. /\ x \in Task /\ x.seen = credential /\ ~x.wrote /\ x.kind = "models" /\ x.pc = "launch"
          /\ ~Pending(x) /\ x.wants \notin Token /\ ~Asks(x) /\ Slotted(x)
      BY <1>0, <1>g, <3>0 DEF NewTask, Task, Place, Kind, Pending, Asks, Slotted
    <3>2. TaskOK(x)'
      BY <1>0, <2>1, <2>3, <3>1 DEF TaskOK, Outlive, ProviderInv
    <3> QED
      BY <1>0, <2>1, <2>3, <3>0, <3>1, <3>2, OneCommand
  <2> QED
    BY <1>5, <2>2, <2>3 DEF Discover
<1>6. ASSUME NEW r \in Request, Launch(r)
      PROVE  ProviderInv'
  <2>1. /\ UNCHANGED <<credential, issued, catalog, occupied, oauth, waking, late, returned>>
        /\ Slotted(task[r]) /\ task[r].pc = "launch"
        /\ cache' = IF task[r].kind \in Changes THEN None ELSE cache
    BY <1>6 DEF Launch, EntryLeft, stored, slot, cancel, forgotten, At, Slotted
  <2>2. CASE task' = [task EXCEPT ![r].listens = TRUE, ![r].pc = "check"]
    <3>1. PICK x \in Task : task' = [task EXCEPT ![r] = x] /\ x.pc = "check" /\ Remembers(x, task[r])
      BY <2>2, CommandGoes DEF Place
    <3>2. /\ Asks(x) /\ Slotted(x) /\ (Probes(x) <=> Probes(task[r]))
          /\ (Pending(x) <=> Pending(task[r]))
      BY <2>1, <3>1 DEF Slotted, Asks, Probes, Pending, Remembers
    <3>3. x.kind \in Changes \/ x.kind = "models"
      BY DEF Task, Changes, Kind
    <3>4. TaskOK(x)'
      BY <1>0, <2>1, <3>1, <3>2, <3>3 DEF TaskOK, Remembers, Probes
    <3>5. x.wants = task[r].wants /\ x.seen = task[r].seen
      BY <3>1 DEF Remembers
    <3> QED
      BY <1>0, <2>1, <3>1, <3>2, <3>4, <3>5, OneCommand
  <2>3. CASE End(r, "release")
    BY <1>0, <2>1, <2>3, CommandEnds
  <2> QED
    BY <1>6, <2>2, <2>3 DEF Launch
<1>7. ASSUME NEW r \in Request, CheckFlag(r) \/ Woken(r)
      PROVE  ProviderInv'
  <2>1. PICK place \in {"failed", "wait"} : Go(r, place) /\ Asks(task[r])
    BY <1>7 DEF CheckFlag, Woken, At, Asks
  <2> QED
    BY <1>7, <2>1, CommandAsks DEF CheckFlag, Woken
<1>8. ASSUME NEW r \in Request, Answer(r)
      PROVE  ProviderInv'
  <2>1. PICK place \in {"failed", "answered"} :
          Go(r, place) /\ Asks(task[r]) /\ (place = "answered" => task[r].wrote)
    BY <1>8 DEF Answer, At, Asks
  <2> QED
    BY <1>8, <2>1, CommandAsks DEF Answer
<1>9. ASSUME NEW r \in Request, PiFinds(r)
      PROVE  ProviderInv'
  <2>1. UNCHANGED <<credential, issued, catalog, cache, occupied, oauth, waking, late, returned>>
    BY <1>9 DEF PiFinds, stored, slot, cancel, forgotten
  <2>2. PICK x : x = [task[r] EXCEPT !.found = credential, !.wrote = TRUE]
    OBVIOUS
  <2>3. /\ task' = [task EXCEPT ![r] = x] /\ task[r].pc \in {"check", "wait"}
        /\ task[r].kind = "models"
    BY <1>0, <1>9, <2>2 DEF PiFinds
  <2>4. /\ x \in Task /\ x.pc = task[r].pc /\ x.kind = "models" /\ x.seen = task[r].seen
        /\ x.wants = task[r].wants /\ x.wrote /\ x.found = credential
    BY <1>0, <2>2, <2>3 DEF Task
  <2>5. /\ Asks(x) /\ Slotted(x) /\ Probes(x) /\ ~Pending(x)
        /\ Asks(task[r]) /\ Slotted(task[r]) /\ Probes(task[r])
    BY <2>3, <2>4 DEF Asks, Slotted, Probes, Pending
  <2>6. TaskOK(x)'
    BY <1>0, <2>1, <2>3, <2>4, <2>5 DEF TaskOK
  <2> QED
    BY <1>0, <2>1, <2>3, <2>4, <2>5, <2>6, OneCommand
<1>10. ASSUME NEW r \in Request, Take(r)
       PROVE  ProviderInv'
  <2>1. /\ UNCHANGED <<credential, issued, cache, occupied, oauth, waking, late, returned>>
        /\ Slotted(task[r]) /\ Asks(task[r]) /\ task[r].pc = "took"
    BY <1>10 DEF Take, slot, cancel, forgotten, At, Slotted, Asks
  <2>2. cache = None
    <3>1. task[r].kind \in Changes \/ Probes(task[r])
      BY <1>0, <2>1 DEF Task, Changes, Kind, Probes
    <3> QED
      BY <1>0, <2>1, <3>1 DEF TaskOK
  <2>3. CASE task[r].kind \in {"key", "connect"} /\ Go(r, "discover") /\ UNCHANGED catalog
    <3>1. PICK x \in Task : task' = [task EXCEPT ![r] = x] /\ x.pc = "discover" /\ Remembers(x, task[r])
      BY <2>3, CommandGoes DEF Place
    <3>2. /\ ~Asks(x) /\ ~Probes(x) /\ Slotted(x) /\ (Pending(x) <=> Pending(task[r]))
          /\ x.wants = task[r].wants /\ x.pc # "recheck"
      BY <3>1 DEF Slotted, Asks, Probes, Pending, Remembers
    <3>3. TaskOK(x)'
      BY <1>0, <2>1, <3>2 DEF TaskOK
    <3> QED
      BY <1>0, <2>1, <2>3, <3>1, <3>2, <3>3, OneCommand
  <2>4. CASE task[r].kind = "models" /\ Go(r, "recheck") /\ catalog' = task[r].found
    <3>1. PICK x \in Task : task' = [task EXCEPT ![r] = x] /\ x.pc = "recheck" /\ Remembers(x, task[r])
      BY <2>4, CommandGoes DEF Place
    <3>2. /\ ~Asks(x) /\ Probes(x) /\ Probes(task[r]) /\ Slotted(x) /\ (Pending(x) <=> Pending(task[r]))
          /\ x.wants = task[r].wants /\ x.seen = task[r].seen /\ x.found = task[r].found
          /\ x.wrote = task[r].wrote /\ x.kind = "models"
      BY <2>1, <2>4, <3>1 DEF Slotted, Asks, Probes, Pending, Remembers
    <3>3. TaskOK(x)'
      BY <1>0, <2>1, <2>2, <2>4, <3>1, <3>2 DEF TaskOK
    <3>4. catalog' \in Generation
      BY <1>0, <2>4 DEF Task
    <3> QED
      BY <1>0, <2>1, <2>2, <3>1, <3>2, <3>3, <3>4, OneCommand
  <2>5. CASE End(r, "release") /\ catalog' \in {catalog, None}
    BY <1>0, <1>g, <2>1, <2>2, <2>5, CommandEnds
  <2> QED
    BY <1>10, <2>3, <2>4, <2>5 DEF Take
<1>11. ASSUME NEW r \in Request, Record(r)
       PROVE  ProviderInv'
  <2>1. /\ UNCHANGED <<credential, issued, catalog, occupied, oauth, waking, late, returned>>
        /\ Slotted(task[r]) /\ task[r].pc = "recheck" /\ End(r, "release")
        /\ cache' = IF credential = task[r].seen THEN credential ELSE cache
    BY <1>11 DEF Record, stored, slot, cancel, forgotten, At, Slotted
  <2>2. credential = task[r].seen => returned \/ catalog = credential
    BY <1>0, <2>1 DEF TaskOK, Probes
  <2> QED
    BY <1>0, <2>1, <2>2, CommandEnds
<1>12. ASSUME NEW r \in Request, Release(r) \/ LeaveActivity(r)
       PROVE  ProviderInv'
  <2>1. UNCHANGED <<credential, issued, catalog, cache, waking, late, returned>>
    BY <1>12 DEF Release, LeaveActivity, stored, slot, cancel, forgotten
  <2>2. oauth' \in Request \cup {NoRequest}
    BY <1>0, <1>12 DEF Release, LeaveActivity, slot
  <2>3. CASE Release(r)
    BY <1>0, <2>1, <2>2, <2>3, CommandEnds DEF Release, At, Slotted
  <2>4. CASE LeaveActivity(r)
    BY <1>0, <2>1, <2>2, <2>4, CommandEnds DEF LeaveActivity, slot
  <2> QED
    BY <1>12, <2>3, <2>4
<1>13. ASSUME NEW r \in Request, PiStores(r)
       PROVE  ProviderInv'
  <2>1. /\ UNCHANGED <<catalog, cache, occupied, oauth, waking, late, returned>>
        /\ Asks(task[r]) /\ Slotted(task[r]) /\ task[r].kind \in Changes /\ ~task[r].wrote
        /\ credential' = task[r].wants /\ cache = None
    BY <1>0, <1>13 DEF PiStores, Store, slot, cancel, forgotten, Asks, Slotted, TaskOK
  <2>2. issued' = issued
    BY <1>0, <1>13 DEF PiStores, Store, TaskOK
  <2>3. PICK x : x = [task[r] EXCEPT !.wrote = TRUE]
    OBVIOUS
  <2>4. task' = [task EXCEPT ![r] = x]
    BY <1>0, <1>13, <2>3 DEF PiStores
  <2>5. x \in Task /\ x.wrote /\ x.pc = task[r].pc /\ x.kind = task[r].kind /\ x.wants = task[r].wants
    BY <1>0, <2>3 DEF Task
  <2>6. ~Pending(x) /\ ~Probes(x) /\ (Pending(task[r]) <=> task[r].wants \in Token)
    BY <2>1, <2>5 DEF Pending, Probes, Changes
  <2>7. TaskOK(x)'
    BY <1>0, <2>1, <2>2, <2>5, <2>6 DEF TaskOK
  <2>8. ASSUME NEW y, TaskOK(y), Apart(task[r], y)
        PROVE  TaskOK(y)' /\ Apart(x, y) /\ Apart(y, x)
    <3>1. ~Slotted(y) /\ ~Probes(y)
      BY <2>1, <2>8 DEF Apart, Slotted, Probes
    <3>2. Pending(y) => y.wants # credential'
      BY <2>1, <2>6, <2>8 DEF Apart, Pending
    <3>3. TaskOK(y)'
      BY <2>1, <2>2, <2>8, <3>1, <3>2 DEF TaskOK, Slotted
    <3> QED
      BY <2>6, <3>1, <3>3 DEF Apart
  <2>9. task'[r] = x /\ \A s \in Request \ {r} : task'[s] = task[s]
    BY <1>0, <2>4
  <2>10. ProviderTypeOK'
    <3>1. credential' \in Generation
      BY <1>0, <2>1 DEF Task
    <3> QED
      BY <1>0, <2>1, <2>2, <2>4, <2>5, <3>1 DEF ProviderTypeOK
  <2>11. Outlive'
    BY <1>0, <2>1, <2>2, <2>6 DEF Outlive, TaskOK
  <2>12. ASSUME NEW s \in Request
         PROVE  TaskOK(task[s])'
    <3>1. PICK y : y = task'[s]
      OBVIOUS
    <3>2. TaskOK(y)'
      BY <1>0, <2>7, <2>8, <2>9, <3>1 DEF ProviderInv
    <3> QED
      BY <3>1, <3>2 DEF TaskOK, Slotted, Asks, Probes, Pending
  <2>13. ASSUME NEW s \in Request, NEW u \in Request, s # u
         PROVE  Apart(task'[s], task'[u])
    BY <1>0, <2>8, <2>9, <2>13 DEF ProviderInv
  <2>14. credential' \in Token => credential' \in issued'
    BY <1>0, <2>1, <2>2 DEF TaskOK
  <2> QED
    BY <2>1, <2>10, <2>11, <2>12, <2>13, <2>14 DEF ProviderInv, Apart, Slotted, Asks,
       Probes, Pending
<1>14. ASSUME NEW r \in Request, StopPi(r)
       PROVE  ProviderInv'
  <2>1. /\ UNCHANGED <<credential, issued, catalog, cache, occupied, oauth, waking, returned>>
        /\ Asks(task[r]) /\ Slotted(task[r])
    BY <1>14 DEF StopPi, stored, slot, cancel, forgotten, Asks, Slotted
  <2>2. CASE At(r, "answered") /\ Go(r, "took") /\ UNCHANGED late
    <3>1. task[r].kind = "models" => task[r].wrote
      BY <1>0, <2>2 DEF At, TaskOK, Probes, Asks
    <3> QED
      BY <1>14, <2>1, <2>2, <3>1, CommandAsks DEF StopPi, forgotten
  <2>3. CASE End(r, "release") /\ UNCHANGED late
    BY <1>0, <2>1, <2>3, CommandEnds
  <2>4. CASE /\ Cardinality(late) < MaxLate /\ End(r, "release")
             /\ task[r].kind \in Changes /\ ~task[r].wrote
             /\ late' = late \cup {[by |-> r, wants |-> task[r].wants]}
    <3>1. PICK l : l = [by |-> r, wants |-> task[r].wants]
      OBVIOUS
    <3>2. l \in Outliving /\ l.wants = task[r].wants /\ late' = late \cup {l}
      BY <1>0, <2>4, <3>1 DEF Outliving, Task
    <3>3. IsFiniteSet(late')
      BY <1>0, <3>2, FS_AddElement
    <3>5. Pending(task[r]) <=> task[r].wants \in Token
      BY <2>4 DEF Pending
    <3>6. Outlive'
      BY <1>0, <2>1, <3>2, <3>5 DEF Outlive, TaskOK
    <3>7. PICK x : x = [NewTask EXCEPT !.pc = "release"]
      OBVIOUS
    <3>8. task'[r] = x /\ \A s \in Request \ {r} : task'[s] = task[s]
      BY <1>0, <2>4, <3>7 DEF End
    <3>9. /\ x \in Task /\ x.wants \notin Token /\ ~Asks(x) /\ ~Probes(x) /\ ~Pending(x)
          /\ x.pc = "release"
      BY <1>g, <3>7 DEF NewTask, Task, Place, Kind, Generation, Asks, Probes, Pending
    <3>10. TaskOK(x)'
      BY <1>0, <2>1, <3>9 DEF TaskOK
    <3>11. ASSUME NEW y, TaskOK(y), Apart(task[r], y)
           PROVE  TaskOK(y)' /\ Apart(x, y) /\ Apart(y, x)
      <4>1. ~Slotted(y) /\ ~Probes(y) /\ ~Asks(y) /\ y.pc # "recheck"
        BY <2>1, <3>11 DEF Apart, Slotted, Probes
      <4>2. Pending(y) => y.wants # l.wants
        BY <3>2, <3>5, <3>11 DEF Apart, Pending
      <4>3. TaskOK(y)'
        BY <2>1, <3>2, <3>11, <4>1, <4>2 DEF TaskOK
      <4> QED
        BY <3>9, <4>1, <4>3 DEF Apart
    <3>12. ProviderTypeOK'
      <4>1. task' \in [Request -> Task]
        BY <1>0, <2>4, <3>7, <3>9 DEF End
      <4> QED
        BY <1>0, <2>1, <3>2, <3>3, <4>1 DEF ProviderTypeOK
    <3>13. ASSUME NEW s \in Request
           PROVE  TaskOK(task[s])'
      <4>1. PICK y : y = task'[s]
        OBVIOUS
      <4>2. TaskOK(y)'
        BY <1>0, <3>8, <3>10, <3>11, <4>1 DEF ProviderInv
      <4> QED
        BY <4>1, <4>2 DEF TaskOK, Slotted, Asks, Probes, Pending
    <3>14. ASSUME NEW s \in Request, NEW u \in Request, s # u
           PROVE  Apart(task'[s], task'[u])
      BY <1>0, <3>8, <3>11, <3>14 DEF ProviderInv
    <3> QED
      BY <2>1, <3>6, <3>12, <3>13, <3>14 DEF ProviderInv, Apart, Slotted, Asks, Probes, Pending
  <2> QED
    BY <1>14, <2>2, <2>3, <2>4 DEF StopPi
\* Pi stores a credential after its command ended, or a Chat's agent rotates it.
<1>15. ASSUME NEW g \in Generation, credential' = g, issued' = issued \cup ({g} \cap Token),
              UNCHANGED <<catalog, cache, occupied, oauth, waking, task>>, late' \subseteq late,
              \A l \in late' : l.wants \in Token => l.wants # g,
              \A r \in Request : Pending(task[r]) => task[r].wants # g,
              returned => returned',
              \A r \in Request :
                Probes(task[r]) /\ task[r].seen = g => credential = g \/ returned'
       PROVE  ProviderInv'
  <2>1. ProviderTypeOK'
    BY <1>0, <1>15, FS_Subset DEF ProviderTypeOK
  <2>2. Outlive'
    BY <1>0, <1>15 DEF Outlive
  <2>3. ASSUME NEW r \in Request
        PROVE  TaskOK(task[r])'
    <3>1. PICK y : y = task[r] /\ TaskOK(y)
      BY <1>0
    <3>2. TaskOK(y)'
      BY <1>15, <3>1 DEF TaskOK
    <3> QED
      BY <1>15, <3>1, <3>2 DEF TaskOK, Slotted, Asks, Probes, Pending
  <2>4. ASSUME NEW r \in Request, NEW s \in Request, r # s
        PROVE  Apart(task[r], task[s])'
    BY <1>15, <2>4 DEF ProviderInv, Apart, Slotted, Asks, Probes, Pending
  <2> QED
    BY <1>15, <2>1, <2>2, <2>3, <2>4 DEF ProviderInv
<1>16. CASE PiStoresLate
  <2>1. PICK l \in late : /\ Store(l.wants) /\ late' = late \ {l}
                         /\ returned' = (returned \/ BringsBack(l.wants))
    BY <1>16 DEF PiStoresLate
  <2>2. UNCHANGED <<catalog, cache, occupied, oauth, waking, task>>
    BY <1>16 DEF PiStoresLate, slot, cancel, forgotten
  <2>3. l.wants \in Generation
    BY <1>0 DEF Outliving
  <2>4. \A m \in late' : m.wants \in Token => m.wants # l.wants
    BY <1>0, <2>1 DEF Outlive
  <2>5. \A r \in Request : Pending(task[r]) => task[r].wants # l.wants
    BY <1>0 DEF TaskOK
  <2>6. returned => returned'
    BY <2>1
  <2>7. ASSUME NEW r \in Request, Probes(task[r]), task[r].seen = l.wants
        PROVE  credential = l.wants \/ returned'
    <3>1. task[r].seen \in Key
      BY <1>0, <1>g, <2>1, <2>3, <2>7 DEF TaskOK
    <3>2. task[r].kind = "models" /\ ~At(r, "look")
      BY <2>7 DEF Probes, Asks, At
    <3>3. credential # l.wants => BringsBack(l.wants)
      BY <2>7, <3>1, <3>2 DEF BringsBack
    <3> QED
      BY <2>1, <3>3
  <2> QED
    BY <1>15, <2>1, <2>2, <2>3, <2>4, <2>5, <2>6, <2>7 DEF Store
<1>17. CASE Rotate
  <2>1. PICK g \in Token \ issued : Store(g) /\ credential \in Token
    BY <1>17 DEF Rotate
  <2>2. UNCHANGED <<catalog, cache, occupied, oauth, waking, late, returned, task>>
    BY <1>17 DEF Rotate, slot, cancel, forgotten
  <2>3. \A l \in late' : l.wants \in Token => l.wants # g
    BY <1>0, <2>1, <2>2 DEF Outlive
  <2>4. \A r \in Request : Pending(task[r]) => task[r].wants # g
    BY <1>0, <2>1 DEF TaskOK
  <2>5. \A r \in Request :
          Probes(task[r]) /\ task[r].seen = g => credential = g \/ returned'
    BY <1>0, <2>1 DEF TaskOK
  <2> QED
    BY <1>15, <1>g, <2>1, <2>2, <2>3, <2>4, <2>5 DEF Store
<1>18. CASE NotifyWaiters
  <2>1. waking \in Request
    BY <1>0, <1>18 DEF NotifyWaiters
  <2>2. UNCHANGED <<credential, issued, catalog, cache, occupied, oauth, late, returned>> /\ waking' = NoRequest
    BY <1>18 DEF NotifyWaiters, stored, slot, forgotten
  <2>3. PICK r \in Request, told \in BOOLEAN : task' = [task EXCEPT ![r].woken = told]
    <3>1. (task[waking].woken \/ task[waking].listens) \in BOOLEAN
      OBVIOUS
    <3> QED
      BY <1>18, <2>1, <3>1 DEF NotifyWaiters
  <2>4. PICK x : x = [task[r] EXCEPT !.woken = told]
    OBVIOUS
  <2>5. task' = [task EXCEPT ![r] = x]
    BY <1>0, <2>3, <2>4
  <2>6. x \in Task /\ Remembers(x, task[r]) /\ x.pc = task[r].pc
    BY <1>0, <2>4 DEF Task, Remembers
  <2>7. /\ (Asks(x) <=> Asks(task[r])) /\ (Slotted(x) <=> Slotted(task[r]))
        /\ (Probes(x) <=> Probes(task[r])) /\ (Pending(x) <=> Pending(task[r]))
        /\ x.wants = task[r].wants /\ x.seen = task[r].seen
    BY <2>6 DEF Asks, Slotted, Probes, Pending, Remembers
  <2>8. TaskOK(x)'
    BY <1>0, <2>2, <2>6, <2>7 DEF TaskOK, Remembers
  <2> QED
    BY <1>0, <2>2, <2>5, <2>6, <2>7, <2>8, OneCommand
<1>19. ASSUME UNCHANGED <<credential, issued, catalog, occupied, late, returned, task>>, cache' \in {cache, None},
              {oauth', waking'} \subseteq Request \cup {NoRequest}
       PROVE  ProviderInv'
  <2>1. ProviderTypeOK'
    BY <1>0, <1>g, <1>19 DEF ProviderTypeOK
  <2>2. Outlive'
    BY <1>0, <1>19 DEF Outlive
  <2>3. ASSUME NEW r \in Request
        PROVE  TaskOK(task[r])'
    <3>1. PICK y : y = task[r] /\ TaskOK(y)
      BY <1>0
    <3>2. TaskOK(y)'
      BY <1>19, <3>1 DEF TaskOK
    <3> QED
      BY <1>19, <3>1, <3>2 DEF TaskOK, Slotted, Asks, Probes, Pending
  <2>4. ASSUME NEW r \in Request, NEW s \in Request, r # s
        PROVE  Apart(task[r], task[s])'
    BY <1>19, <2>4 DEF ProviderInv, Apart, Slotted, Asks, Probes, Pending
  <2> QED
    BY <1>19, <2>1, <2>2, <2>3, <2>4 DEF ProviderInv
<1>20. CASE CancelOauth
  BY <1>0, <1>19, <1>20 DEF CancelOauth, stored, slot, forgotten
<1>21. CASE Expire
  BY <1>0, <1>19, <1>21 DEF Expire, stored, slot, cancel, forgotten
<1> QED
  BY <1>1, <1>2, <1>3, <1>4, <1>5, <1>6, <1>7, <1>8, <1>9, <1>10, <1>11, <1>12, <1>13,
     <1>14, <1>16,
     <1>17, <1>18, <1>20, <1>21 DEF ProviderNext, Proceed

\* What the application loses when it ends.
LEMMA ProviderStarts ==
    ASSUME ProviderInv, ProviderLost
    PROVE  ProviderInv'
<1>1. PICK fresh \in Task, over \in Task :
        /\ fresh = NewTask /\ over = [NewTask EXCEPT !.pc = "done"]
  BY NewTaskType DEF NewTask, Task, Place
<1>2. /\ ~Slotted(fresh) /\ ~Asks(fresh) /\ ~Probes(fresh) /\ ~Pending(fresh) /\ fresh.pc # "recheck"
      /\ ~Slotted(over) /\ ~Asks(over) /\ ~Probes(over) /\ ~Pending(over) /\ over.pc # "recheck"
      /\ fresh.wants \notin Token /\ over.wants \notin Token
  BY <1>1, ProviderAssumption DEF NewTask, Slotted, Asks, Probes, Pending
<1>3. \A r \in Request : task'[r] \in {fresh, over}
  BY <1>1 DEF ProviderLost
<1>4. UNCHANGED <<credential, issued, catalog, late>> /\ cache' = None /\ occupied' = FALSE
  BY DEF ProviderLost, stored
<1>5. ProviderTypeOK'
  <2>1. task' \in [Request -> Task]
    BY <1>1, <1>3 DEF ProviderLost
  <2> QED
    BY <1>4, <2>1 DEF ProviderLost, ProviderInv, ProviderTypeOK, Generation
<1>6. Outlive'
  BY <1>4 DEF ProviderInv, Outlive
<1>7. ASSUME NEW r \in Request
      PROVE  TaskOK(task[r])'
  <2>1. PICK y \in {fresh, over} : y = task'[r]
    BY <1>3
  <2>2. TaskOK(y)'
    BY <1>2 DEF TaskOK
  <2> QED
    BY <2>1, <2>2 DEF TaskOK, Slotted, Asks, Probes, Pending
<1>8. ASSUME NEW r \in Request, NEW s \in Request, r # s
      PROVE  Apart(task'[r], task'[s])
  BY <1>2, <1>3 DEF Apart
<1> QED
  BY <1>4, <1>5, <1>6, <1>7, <1>8 DEF ProviderInv, Apart, Slotted, Asks, Probes, Pending

-----------------------------------------------------------------------------
\* What a turn may ask.  What is granted is resolved once; the tool that is
\* offered was authorized by that and narrowed to it, the call that was let
\* through is one that the narrowed tool allows, and an answer is taken from the
\* provider that was asked.
Offered(tool) ==
    /\ Market!Authorized(tool) /\ Market!Shown(tool)
    /\ listed = <<tool>> /\ offered = <<Market!Narrowed(tool)>>
LetThrough(q) ==
    /\ Market!Allows(offered[1], q)
    /\ call = <<[argument |-> q, provider |-> Market!Requested(q)]>>

AskInv ==
    /\ granted # {} => Market!ManifestIsValid /\ granted \subseteq Market!Granted
    /\ offered # <<>> => granted # {} /\ \E tool \in Market!Schema : Offered(tool)
    /\ call # <<>> =>
         offered # <<>> /\ \E q \in Source \cup {Market!Nobody} : LetThrough(q)
    /\ verdict = "taken" => call # <<>> /\ Market!Matches(call[1].provider, answer)

LEMMA AskBegins == ASSUME Market!McpGrantsInit PROVE AskInv
BY DEF Market!McpGrantsInit, AskInv

LEMMA AskStep ==
    ASSUME AskInv, [Market!McpGrantsNext]_grants
    PROVE  AskInv'
<1> USE DEF AskInv
<1>1. CASE Market!Resolve
  <2>1. /\ Market!ManifestIsValid /\ granted' = Market!Granted /\ granted = {}
        /\ UNCHANGED <<manifest, capability, filled, listed, offered, call, answer, verdict>>
    BY <1>1 DEF Market!Resolve
  <2>2. Market!ManifestIsValid' /\ Market!Granted' = Market!Granted
    BY <2>1 DEF Market!ManifestIsValid, Market!Granted, Market!Configured, Market!Collected
  <2>3. offered = <<>> /\ call = <<>> /\ verdict # "taken"
    BY <2>1
  <2> QED
    BY <2>1, <2>2, <2>3
<1>2. CASE Market!Inventory
  <2>1. /\ granted # {} /\ offered = <<>>
        /\ UNCHANGED <<manifest, capability, filled, granted, call, answer, verdict>>
    BY <1>2 DEF Market!Inventory
  <2>2. PICK tool \in Market!Schema :
          /\ Market!Authorized(tool) /\ Market!Shown(tool)
          /\ listed' = <<tool>> /\ offered' = <<Market!Narrowed(tool)>>
    BY <1>2 DEF Market!Inventory
  <2>3. Market!ManifestIsValid' = Market!ManifestIsValid /\ Market!Granted' = Market!Granted
    BY <2>1 DEF Market!ManifestIsValid, Market!Granted, Market!Configured, Market!Collected
  <2>4. Offered(tool)'
    <3>1. Market!Available(tool)' = Market!Available(tool)
      BY <2>1 DEF Market!Available
    <3>2. Market!Narrowed(tool)' = Market!Narrowed(tool)
      BY <3>1 DEF Market!Narrowed
    <3>3. Market!Authorized(tool)' /\ Market!Shown(tool)'
      BY <2>1, <2>2, <3>1 DEF Market!Authorized, Market!Shown
    <3> QED
      BY <2>2, <3>2, <3>3 DEF Offered
  <2>5. call = <<>> /\ verdict # "taken"
    BY <2>1
  <2> QED
    BY <2>1, <2>3, <2>4, <2>5
<1>3. ASSUME UNCHANGED <<manifest, capability, filled, granted, listed, offered>>
      PROVE  /\ Market!ManifestIsValid' = Market!ManifestIsValid
             /\ Market!Granted' = Market!Granted
             /\ \A tool \in Market!Schema : Offered(tool)' <=> Offered(tool)
  <2>1. Market!ManifestIsValid' = Market!ManifestIsValid /\ Market!Granted' = Market!Granted
    BY <1>3 DEF Market!ManifestIsValid, Market!Granted, Market!Configured, Market!Collected
  <2>2. ASSUME NEW tool \in Market!Schema
        PROVE  Offered(tool)' <=> Offered(tool)
    <3>1. Market!Available(tool)' = Market!Available(tool)
      BY <1>3 DEF Market!Available
    <3>2. Market!Narrowed(tool)' = Market!Narrowed(tool)
      BY <3>1 DEF Market!Narrowed
    <3> QED
      BY <1>3, <3>1, <3>2 DEF Offered, Market!Authorized, Market!Shown
  <2> QED
    BY <2>1, <2>2
<1>4. CASE Market!Call
  BY <1>3, <1>4 DEF Market!Call, LetThrough, Market!Allows, Market!Requested, Market!Matches
<1>5. CASE Market!Received
  BY <1>3, <1>5 DEF Market!Received, LetThrough, Market!Allows, Market!Requested, Market!Matches
<1>6. CASE UNCHANGED grants
  BY <1>3, <1>6 DEF grants, LetThrough, Market!Allows, Market!Requested, Market!Matches
<1> QED
  BY <1>1, <1>2, <1>4, <1>5, <1>6 DEF Market!McpGrantsNext

\* A narrowed tool still has its provider property, and now needs it.
LEMMA NarrowedIsAware ==
    ASSUME NEW tool \in Market!Schema
    PROVE  LET narrow == Market!Narrowed(tool) IN
           /\ Market!Aware(narrow) <=> Market!Aware(tool)
           /\ Market!Aware(tool) =>
                narrow.required /\ narrow.provider.enum = Market!Available(tool)
<1>1. CASE ~Market!Aware(tool)
  BY <1>1 DEF Market!Narrowed
<1>2. CASE Market!Aware(tool)
  <2> DEFINE narrow == Market!Narrowed(tool)
  <2>1. /\ narrow.required
        /\ narrow.provider.enum = Market!Available(tool) /\ "enum" \in DOMAIN narrow.provider
    BY <1>2 DEF Market!Narrowed, Market!Schema
  <2>2. "enum" \notin DOMAIN Market!Plain
    BY DEF Market!Plain
  <2> QED
    BY <1>2, <2>1, <2>2 DEF Market!Aware
<1> QED
  BY <1>1, <1>2

LEMMA AskHolds == ASSUME AskInv PROVE CallsAreGranted
<1>1. ASSUME call # <<>>
      PROVE  Market!AsksWhatIsGranted /\ Market!UnnamedIsAccountedFor
  <2>1. PICK tool \in Market!Schema : Offered(tool)
    BY <1>1 DEF AskInv
  <2>2. PICK p \in Source \cup {Market!Nobody} : LetThrough(p)
    BY <1>1 DEF AskInv
  <2>3. granted \subseteq Market!Granted /\ Market!ManifestIsValid
    BY <1>1 DEF AskInv
  <2>4. offered[1] = Market!Narrowed(tool) /\ listed[1] = tool /\ call[1].argument = p
    BY <2>1, <2>2 DEF Offered, LetThrough
  <2>5. Market!UnnamedIsAccountedFor
    BY <2>1, <2>3, <2>4 DEF Offered, Market!UnnamedIsAccountedFor, Market!Authorized,
       Market!Shown,
       Market!ManifestIsValid
  <2>6. ASSUME Market!Aware(offered[1])
        PROVE  Market!AsksWhatIsGranted
    <3>1. Market!Aware(tool) /\ Market!Narrowed(tool).required
          /\ Market!Narrowed(tool).provider.enum = Market!Available(tool)
      BY <2>4, <2>6, NarrowedIsAware
    <3>2. p \in granted /\ p \in Market!Names(Market!Available(tool))
      BY <2>2, <2>4, <2>6, <3>1 DEF LetThrough, Market!Allows
    <3>3. (\E e \in capability : p \in Of[e]) /\ (p \in Needs => \E e \in filled : p \in Of[e])
      BY <2>3, <3>2 DEF Market!Granted, Market!Configured, Market!Collected
    <3>4. p \in Market!Names(Market!Candidates(tool.provider))
      BY <3>2 DEF Market!Names, Market!Available
    <3>5. tool.provider.const \in {Market!Nobody, p}
      BY <2>1, <3>1, <3>2 DEF Offered, Market!Shown, Market!Names, Market!Only
    <3> QED
      BY <2>4, <3>3, <3>4, <3>5 DEF Market!AsksWhatIsGranted
  <2> QED
    BY <2>5, <2>6 DEF Market!AsksWhatIsGranted
<1>2. ASSUME call = <<>>
      PROVE  Market!AsksWhatIsGranted /\ Market!UnnamedIsAccountedFor
  BY <1>2 DEF Market!AsksWhatIsGranted, Market!UnnamedIsAccountedFor
<1>3. ASSUME verdict = "taken", call[1].provider # Market!Nobody
      PROVE  answer = call[1].provider /\ \E e \in capability : answer \in Of[e]
  <2>1. answer = call[1].provider /\ answer \in granted /\ granted \subseteq Market!Granted
    BY <1>3 DEF AskInv, Market!Matches
  <2> QED
    BY <2>1 DEF Market!Granted
<1> QED
  BY <1>1, <1>2, <1>3 DEF CallsAreGranted, Market!CallsAreGranted, Market!TakesWhatWasAsked

-----------------------------------------------------------------------------
\* Progress.  The items that a turn shows, kept by the application and, patch by
\* patch, by the renderer.

\* The cardinality that the model counts with is that of the library.
LEMMA ShownCardinality == \A S : Display!Cardinality(S) = Cardinality(S)
BY DEF Display!Cardinality, Cardinality

\* The positions of a finite set of numbers are its members in order.
LEMMA NthFacts ==
  ASSUME NEW S \in SUBSET Nat, IsFiniteSet(S)
  PROVE  /\ Cardinality(S) \in Nat
         /\ \A k \in 1..Cardinality(S) : Display!Nth(S, k) \in S
         /\ \A i \in S : \E k \in 1..Cardinality(S) : Display!Nth(S, k) = i
         /\ \A k, l \in 1..Cardinality(S) : k < l => Display!Nth(S, k) < Display!Nth(S, l)
<1> DEFINE n == Cardinality(S)
           Upto(i) == {j \in S : j <= i}
           rank == [i \in S |-> Cardinality(Upto(i))]
<1>1. n \in Nat
  BY FS_CardinalityType
<1>2. \A i \in S : IsFiniteSet(Upto(i)) /\ rank[i] \in 1..n
  <2> TAKE i \in S
  <2>1. Upto(i) \in SUBSET S /\ Upto(i) # {}
    OBVIOUS
  <2>2. IsFiniteSet(Upto(i)) /\ Cardinality(Upto(i)) <= n
    BY <2>1, FS_Subset
  <2>3. Cardinality(Upto(i)) \in Nat /\ Cardinality(Upto(i)) # 0
    BY <2>1, <2>2, FS_CardinalityType, FS_EmptySet
  <2> QED
    BY <1>1, <2>2, <2>3
<1>3. \A i, j \in S : i < j => rank[i] < rank[j]
  <2> SUFFICES ASSUME NEW i \in S, NEW j \in S, i < j
               PROVE  rank[i] < rank[j]
    OBVIOUS
  <2>0. i \in Nat /\ j \in Nat /\ j \in Upto(j) /\ j \notin Upto(i)
    OBVIOUS
  <2>1. Upto(i) \in SUBSET Upto(j) /\ Upto(i) # Upto(j)
    <3>1. \A k \in Upto(i) : k \in Nat /\ k \in S /\ k <= i
      OBVIOUS
    <3>2. \A k \in Upto(i) : k <= j
      BY <2>0, <3>1
    <3>3. Upto(i) \in SUBSET Upto(j)
      BY <3>1, <3>2
    <3> QED
      BY <2>0, <3>3
  <2>2. IsFiniteSet(Upto(j))
    BY <1>2
  <2>3. Cardinality(Upto(i)) <= Cardinality(Upto(j)) /\ Cardinality(Upto(i)) # Cardinality(Upto(j))
    BY <2>1, <2>2, FS_Subset
  <2> QED
    BY <1>1, <1>2, <2>3
<1>4. rank \in Injection(S, 1..n)
  <2>1. rank \in [S -> 1..n]
    BY <1>2
  <2>2. \A i, j \in S : rank[i] = rank[j] => i = j
    <3> SUFFICES ASSUME NEW i \in S, NEW j \in S, rank[i] = rank[j]
                 PROVE  i = j
      OBVIOUS
    <3>1. i \in Nat /\ j \in Nat /\ rank[i] \in Nat /\ rank[j] \in Nat
      BY <1>1, <1>2
    <3>2. ~(i < j) /\ ~(j < i)
      BY ONLY <1>3, <3>1, rank[i] = rank[j], i \in S, j \in S
    <3> QED
      BY <3>1, <3>2
  <2> HIDE DEF rank
  <2> QED
    BY <2>1, <2>2 DEF Injection, IsInjective
<1>5. rank \in Surjection(S, 1..n)
  BY <1>1, <1>4, FS_Injection, FS_Interval
<1>6. \A k \in 1..n : \E i \in S : rank[i] = k
  BY <1>5 DEF Surjection
<1>7. \A k \in 1..n : Display!Nth(S, k) \in S /\ rank[Display!Nth(S, k)] = k
  <2> SUFFICES ASSUME NEW k \in 1..n
               PROVE  Display!Nth(S, k) \in S /\ rank[Display!Nth(S, k)] = k
    OBVIOUS
  <2>1. \E i \in S : Display!Cardinality({j \in S : j <= i}) = k
    BY <1>6, ShownCardinality
  <2>2. LET i == Display!Nth(S, k) IN i \in S /\ Display!Cardinality({j \in S : j <= i}) = k
    BY <2>1, Zenon DEF Display!Nth
  <2> QED
    BY <2>2, ShownCardinality
<1>8. n = Cardinality(S)
  OBVIOUS
<1> HIDE DEF rank, n
<1>9. \A i, j \in S : rank[i] = rank[j] => i = j
  BY <1>4 DEF Injection, IsInjective
<1>10. \A i \in S : \E k \in 1..n : Display!Nth(S, k) = i
  BY <1>2, <1>7, <1>9
<1>11. \A k, l \in 1..n : k < l => Display!Nth(S, k) < Display!Nth(S, l)
  <2> SUFFICES ASSUME NEW k \in 1..n, NEW l \in 1..n, k < l
               PROVE  Display!Nth(S, k) < Display!Nth(S, l)
    OBVIOUS
  <2> DEFINE i == Display!Nth(S, k)
             j == Display!Nth(S, l)
  <2>1. i \in S /\ j \in S /\ rank[i] = k /\ rank[j] = l
    BY <1>7
  <2> HIDE DEF i, j
  <2>2. i # j /\ ~(j < i) /\ i \in Nat /\ j \in Nat
    BY <1>1, <1>3, <2>1
  <2>3. i < j
    BY <2>2
  <2> QED
    BY <2>3 DEF i, j
<1> QED
  BY <1>1, <1>7, <1>8, <1>10, <1>11

\* What is kept of a sequence is what stands at the positions, in order.
LEMMA KeepingFacts ==
  ASSUME NEW T, NEW s \in Seq(T), NEW S, S \subseteq DOMAIN s
  PROVE  LET kept == Display!Keeping(s, S) IN
         /\ kept \in Seq(T)
         /\ \A k \in DOMAIN kept : Display!Nth(S, k) \in S /\ kept[k] = s[Display!Nth(S, k)]
         /\ \A i \in S : \E k \in DOMAIN kept : Display!Nth(S, k) = i
         /\ \A k, l \in DOMAIN kept : k < l => Display!Nth(S, k) < Display!Nth(S, l)
<1> DEFINE kept == Display!Keeping(s, S)
<1>1. Len(s) \in Nat /\ DOMAIN s = 1..Len(s) /\ S \in SUBSET (1..Len(s)) /\ S \in SUBSET Nat
  OBVIOUS
<1>2. IsFiniteSet(S)
  <2>1. IsFiniteSet(1..Len(s))
    BY <1>1, FS_Interval
  <2> QED
    BY <1>1, <2>1, FS_Subset
<1> DEFINE m == Cardinality(S)
<1>a. /\ m \in Nat
      /\ \A k \in 1..m : Display!Nth(S, k) \in S
      /\ \A i \in S : \E k \in 1..m : Display!Nth(S, k) = i
      /\ \A k, l \in 1..m : k < l => Display!Nth(S, k) < Display!Nth(S, l)
  BY <1>1, <1>2, NthFacts
<1>b. kept = [k \in 1..m |-> s[Display!Nth(S, k)]]
  BY ShownCardinality DEF Display!Keeping
<1> HIDE DEF m, kept
<1>3. /\ DOMAIN kept = 1..m
      /\ \A k \in 1..m : kept[k] = s[Display!Nth(S, k)]
  BY <1>b
<1>4. \A k \in 1..m : s[Display!Nth(S, k)] \in T
  BY <1>1, <1>a
<1>5. kept \in Seq(T)
  BY <1>a, <1>b, <1>4
<1> QED
  BY <1>a, <1>3, <1>5 DEF kept

\* The items of a turn, as they are shown.
ShownStatus == {"text", "running", "succeeded", "failed", "stopped"}
ShownItem == [id : Nat, text : Nat, status : ShownStatus]
Ascending(items) == \A i, j \in DOMAIN items : i < j => items[i].id < items[j].id

\* What is left of the items when some are taken out, in the same order.
LEMMA WithoutFacts ==
  ASSUME NEW items \in Seq(ShownItem), NEW ids
  PROVE  LET left == Display!Without(items, ids) IN
         /\ left \in Seq(ShownItem)
         /\ \A k \in DOMAIN left : left[k].id \notin ids /\ \E i \in DOMAIN items : left[k] = items[i]
         /\ \A i \in DOMAIN items :
               items[i].id \notin ids => \E k \in DOMAIN left : left[k] = items[i]
         /\ \A k, l \in DOMAIN left : k < l =>
               \E i, j \in DOMAIN items : i < j /\ left[k] = items[i] /\ left[l] = items[j]
         /\ Ascending(items) => Ascending(left)
<1> DEFINE S == {i \in DOMAIN items : items[i].id \notin ids}
           left == Display!Keeping(items, S)
<1>1. Display!Without(items, ids) = left
  BY DEF Display!Without
<1>2. /\ left \in Seq(ShownItem)
      /\ \A k \in DOMAIN left : Display!Nth(S, k) \in S /\ left[k] = items[Display!Nth(S, k)]
      /\ \A i \in S : \E k \in DOMAIN left : Display!Nth(S, k) = i
      /\ \A k, l \in DOMAIN left : k < l => Display!Nth(S, k) < Display!Nth(S, l)
  BY KeepingFacts, Zenon
<1> HIDE DEF left
<1>3. \A k \in DOMAIN left : left[k].id \notin ids /\ \E i \in DOMAIN items : left[k] = items[i]
  BY <1>2
<1>4. \A i \in DOMAIN items : items[i].id \notin ids => \E k \in DOMAIN left : left[k] = items[i]
  BY <1>2
<1>5. \A k, l \in DOMAIN left : k < l =>
         \E i, j \in DOMAIN items : i < j /\ left[k] = items[i] /\ left[l] = items[j]
  BY <1>2
<1>6. Ascending(items) => Ascending(left)
  BY <1>5 DEF Ascending
<1> QED
  BY <1>1, <1>2, <1>3, <1>4, <1>5, <1>6

\* Items in ascending order are determined by which they are.
LEMMA AscendingDetermined ==
  ASSUME NEW a \in Seq(ShownItem), NEW b \in Seq(ShownItem), Ascending(a), Ascending(b),
         \A i \in DOMAIN a : \E j \in DOMAIN b : b[j] = a[i],
         \A j \in DOMAIN b : \E i \in DOMAIN a : a[i] = b[j]
  PROVE  a = b
<1> DEFINE n == Len(a)
           m == Len(b)
           f == [i \in 1..n |-> CHOOSE j \in 1..m : b[j] = a[i]]
<1>1. n \in Nat /\ m \in Nat /\ DOMAIN a = 1..n /\ DOMAIN b = 1..m
  OBVIOUS
<1>2. \A i \in 1..n : f[i] \in 1..m /\ b[f[i]] = a[i]
  BY <1>1
<1>2a. f \in [1..n -> 1..m]
  BY <1>2
<1>3. (\A i \in 1..n : a[i].id \in Nat) /\ (\A j \in 1..m : b[j].id \in Nat)
  <2>1. (\A i \in 1..n : a[i] \in ShownItem) /\ (\A j \in 1..m : b[j] \in ShownItem)
    BY <1>1
  <2> QED
    BY <2>1 DEF ShownItem
<1> HIDE DEF f, n, m
<1>4. \A i, j \in 1..n : i < j => f[i] < f[j]
  <2> SUFFICES ASSUME NEW i \in 1..n, NEW j \in 1..n, i < j
               PROVE  f[i] < f[j]
    OBVIOUS
  <2>1. b[f[i]].id < b[f[j]].id
    <3>1. a[i].id < a[j].id
      BY <1>1 DEF Ascending
    <3> QED
      BY <1>2, <3>1
  <2>2. f[i] \in 1..m /\ f[j] \in 1..m /\ b[f[i]].id \in Nat /\ b[f[j]].id \in Nat
    BY <1>2, <1>3
  <2>3. ~(f[j] < f[i])
    <3>1. f[j] < f[i] => b[f[j]].id < b[f[i]].id
      BY <1>1, <2>2 DEF Ascending
    <3>2. \A x, y \in Nat : x < y => ~(y < x)
      OBVIOUS
    <3> QED
      BY ONLY <2>1, <2>2, <3>1, <3>2
  <2>4. f[i] # f[j]
    BY <2>1, <2>2
  <2> QED
    BY <1>1, <2>2, <2>3, <2>4
<1>5. \A j \in 1..m : \E i \in 1..n : f[i] = j
  <2> SUFFICES ASSUME NEW j \in 1..m
               PROVE  \E i \in 1..n : f[i] = j
    OBVIOUS
  <2>1. PICK i \in 1..n : a[i] = b[j]
    BY <1>1
  <2>2. f[i] \in 1..m /\ b[f[i]] = b[j] /\ b[j].id \in Nat
    BY <1>2, <1>3, <2>1
  <2>3. ~(f[i] < j) /\ ~(j < f[i])
    <3>1. (f[i] < j => b[f[i]].id < b[j].id) /\ (j < f[i] => b[j].id < b[f[i]].id)
      BY <1>1, <2>2 DEF Ascending
    <3> QED
      BY <2>2, <3>1
  <2> QED
    BY <1>1, <2>2, <2>3
<1>6. \A i \in 1..n : f[i] = i
  <2> SUFFICES ASSUME NEW i \in 1..n
               PROVE  f[i] = i
    OBVIOUS
  <2> DEFINE g == [k \in 1..i |-> f[k]]
  <2>1. i \in Nat /\ f[i] \in Nat /\ 1..i \subseteq 1..n /\ 1..f[i] \subseteq 1..m
    BY <1>1, <1>2
  <2>2. \A k \in 1..i : g[k] \in 1..f[i]
    <3> SUFFICES ASSUME NEW k \in 1..i
                 PROVE  f[k] \in 1..f[i]
      OBVIOUS
    <3>1. k \in 1..n /\ f[k] \in 1..m /\ (k < i => f[k] < f[i])
      BY <1>2, <1>4, <2>1
    <3>2. k = i \/ k < i
      BY <2>1
    <3> QED
      BY <1>1, <2>1, <3>1, <3>2
  <2>3. \A k, l \in 1..i : g[k] = g[l] => k = l
    <3> SUFFICES ASSUME NEW k \in 1..i, NEW l \in 1..i, g[k] = g[l]
                 PROVE  k = l
      OBVIOUS
    <3>1. k \in 1..n /\ l \in 1..n /\ f[k] = f[l]
      BY <2>1
    <3>2. f[k] \in Nat /\ k \in Nat /\ l \in Nat
      BY <1>1, <1>2, <3>1
    <3>3. ~(k < l) /\ ~(l < k)
      BY <1>4, <3>1, <3>2
    <3> QED
      BY <3>2, <3>3
  <2>4. \A j \in 1..f[i] : \E k \in 1..i : g[k] = j
    <3> SUFFICES ASSUME NEW j \in 1..f[i]
                 PROVE  \E k \in 1..i : g[k] = j
      OBVIOUS
    <3>1. PICK k \in 1..n : f[k] = j
      BY <1>5, <2>1
    <3>2. ~(i < k)
      BY <1>4, <2>1, <3>1
    <3> QED
      BY <1>1, <2>1, <3>1, <3>2
  <2>5. g \in Bijection(1..i, 1..f[i])
    BY <2>2, <2>3, <2>4 DEF Bijection, Injection, Surjection, IsInjective
  <2>6. Cardinality(1..f[i]) = Cardinality(1..i)
    BY <2>1, <2>5, FS_Bijection, FS_Interval DEF ExistsBijection
  <2>7. Cardinality(1..i) = i /\ Cardinality(1..f[i]) = f[i]
    BY <1>2, <2>1, FS_Interval
  <2> QED
    BY <2>6, <2>7
<1>7. n = m
  <2>1. n # 0 => n <= m
    BY <1>1, <1>2, <1>6
  <2>2. m # 0 => m <= n
    <3> SUFFICES ASSUME m # 0
                 PROVE  m <= n
      OBVIOUS
    <3>1. PICK i \in 1..n : f[i] = m
      BY <1>1, <1>5
    <3>2. f[i] = i
      BY <1>6
    <3> QED
      BY <1>1, <3>1, <3>2
  <2> QED
    BY <1>1, <2>1, <2>2
<1> QED
  BY <1>1, <1>2, <1>6, <1>7 DEF n, m

\* The identifiers of some items, in whatever order.
IdsOf(items) == {items[i].id : i \in DOMAIN items}
SetOf(s)     == {s[i] : i \in DOMAIN s}

\* The sets of the model are those of the library.
LEMMA ShownSets ==
  /\ \A items : Display!Ids(items) = IdsOf(items)
  /\ \A s : Display!ToSet(s) = SetOf(s)
BY DEF Display!Ids, Display!ToSet, IdsOf, SetOf

\* What the items of a turn have to do with those of its last patch, before:
\* every item is one of them or dirty, what is gone is to be removed, and what
\* is new has been given the next identifiers.
ItemsFit(items, next, dirty, published, removed, before) ==
  /\ items \in Seq(ShownItem) /\ before \in Seq(ShownItem) /\ dirty \in Seq(Nat)
  /\ next \in Nat /\ next > 0
  /\ Ascending(items) /\ Ascending(before)
  /\ \A i \in DOMAIN items : 0 < items[i].id /\ items[i].id < next
  /\ \A j \in DOMAIN before : before[j].id < next
  /\ \A k, l \in DOMAIN dirty : k < l => dirty[k] # dirty[l]
  /\ IdsOf(items) = published \cup SetOf(dirty)
  /\ IdsOf(before) = published \cup removed
  /\ removed \cap IdsOf(items) = {}
  /\ \A i \in DOMAIN items :
        items[i].id \notin SetOf(dirty) => \E j \in DOMAIN before : before[j] = items[i]
  /\ \A k, l \in DOMAIN dirty :
        k < l /\ dirty[k] \notin published /\ dirty[l] \notin published => dirty[k] < dirty[l]
  /\ \A k \in DOMAIN dirty :
        dirty[k] \notin published => \A j \in DOMAIN before : before[j].id < dirty[k]

Marked(dirty, id) == IF id \in SetOf(dirty) THEN dirty ELSE Append(dirty, id)

\* An item that is changed becomes dirty, and the rest fits as it did.
LEMMA ItemTouched ==
  ASSUME NEW items, NEW next, NEW dirty, NEW published, NEW removed, NEW before,
         ItemsFit(items, next, dirty, published, removed, before),
         NEW i \in DOMAIN items, NEW x \in ShownItem, x.id = items[i].id
  PROVE  ItemsFit([items EXCEPT ![i] = x], next, Marked(dirty, x.id), published, removed, before)
<1> DEFINE fresh == [items EXCEPT ![i] = x]
           id  == x.id
           d   == Marked(dirty, id)
<1>1. fresh \in Seq(ShownItem) /\ DOMAIN fresh = DOMAIN items /\ DOMAIN items = 1..Len(items)
      /\ Len(items) \in Nat
  BY DEF ItemsFit
<1>2. \A j \in DOMAIN items : fresh[j] = IF j = i THEN x ELSE items[j]
  BY DEF ItemsFit
<1> HIDE DEF fresh
<1>3. \A j \in DOMAIN items : fresh[j].id = items[j].id
  BY <1>2
<1>4. IdsOf(fresh) = IdsOf(items)
  BY <1>1, <1>3 DEF IdsOf
<1>5. id \in IdsOf(items) /\ id \in Nat
  BY DEF IdsOf, ShownItem
<1> HIDE DEF id
<1>6. CASE id \in SetOf(dirty)
  <2>1. d = dirty
    BY <1>6 DEF Marked
  <2>2. Ascending(fresh)
    BY <1>1, <1>3 DEF ItemsFit, Ascending
  <2>3. \A j \in DOMAIN items : fresh[j].id \notin SetOf(dirty) =>
                                   \E k \in DOMAIN before : before[k] = fresh[j]
    BY <1>1, <1>2, <1>3, <1>6 DEF ItemsFit, id
  <2> QED
    <3>1. ItemsFit(fresh, next, dirty, published, removed, before)
      BY <1>1, <1>3, <1>4, <2>2, <2>3 DEF ItemsFit
    <3> QED
      BY <2>1, <3>1 DEF fresh, id
<1>7. CASE id \notin SetOf(dirty)
  <2>1. d = Append(dirty, id)
    BY <1>7 DEF Marked
  <2>2. dirty \in Seq(Nat) /\ Len(dirty) \in Nat /\ DOMAIN dirty = 1..Len(dirty)
    BY DEF ItemsFit
  <2>3. /\ d \in Seq(Nat) /\ DOMAIN d = 1..(Len(dirty) + 1)
        /\ \A k \in DOMAIN dirty : d[k] = dirty[k]
        /\ d[Len(dirty) + 1] = id
    BY <1>5, <2>1, <2>2
  <2>4. id \in published
    BY <1>5, <1>7 DEF ItemsFit
  <2> HIDE DEF d
  <2>5. SetOf(d) = SetOf(dirty) \cup {id}
    BY <2>2, <2>3 DEF SetOf
  <2>6. \A k \in DOMAIN d : k \in DOMAIN dirty \/ k = Len(dirty) + 1
    BY <2>2, <2>3
  <2>7. \A k, l \in DOMAIN d : k < l => d[k] # d[l] /\ k \in DOMAIN dirty
    <3> SUFFICES ASSUME NEW k \in DOMAIN d, NEW l \in DOMAIN d, k < l
                 PROVE  d[k] # d[l] /\ k \in DOMAIN dirty
      OBVIOUS
    <3>1. k \in DOMAIN dirty
      BY <2>2, <2>3
    <3>2. CASE l \in DOMAIN dirty
      BY <2>3, <3>1, <3>2 DEF ItemsFit
    <3>3. CASE l = Len(dirty) + 1
      BY <1>7, <2>3, <3>1, <3>3 DEF SetOf
    <3> QED
      BY <2>6, <3>1, <3>2, <3>3
  <2>8. Ascending(fresh)
    BY <1>1, <1>3 DEF ItemsFit, Ascending
  <2>9. \A j \in DOMAIN items : fresh[j].id \notin SetOf(d) =>
                                   \E k \in DOMAIN before : before[k] = fresh[j]
    BY <1>1, <1>2, <1>3, <2>5 DEF ItemsFit, id
  <2>10. \A k, l \in DOMAIN d :
            k < l /\ d[k] \notin published /\ d[l] \notin published => d[k] < d[l]
    BY <2>3, <2>4, <2>6, <2>7 DEF ItemsFit
  <2>11. \A k \in DOMAIN d :
            d[k] \notin published => \A j \in DOMAIN before : before[j].id < d[k]
    BY <2>3, <2>4, <2>6 DEF ItemsFit
  <2>12. IdsOf(fresh) = published \cup SetOf(d)
    BY <1>4, <2>4, <2>5 DEF ItemsFit
  <2> QED
    BY <1>1, <1>3, <1>4, <2>3, <2>7, <2>8, <2>9, <2>10, <2>11, <2>12 DEF ItemsFit, fresh, d, id
<1> QED
  BY <1>6, <1>7

\* A new item has the next identifier, and is dirty.
LEMMA ItemPushed ==
  ASSUME NEW items, NEW next, NEW dirty, NEW published, NEW removed, NEW before,
         ItemsFit(items, next, dirty, published, removed, before),
         NEW x \in ShownItem, x.id = next
  PROVE  /\ ItemsFit(Append(items, x), next + 1, Append(dirty, next), published, removed, before)
         /\ IdsOf(Append(items, x)) = IdsOf(items) \cup {next}
<1> DEFINE fresh == Append(items, x)
           d   == Append(dirty, next)
<1>1. /\ items \in Seq(ShownItem) /\ Len(items) \in Nat /\ DOMAIN items = 1..Len(items)
      /\ dirty \in Seq(Nat) /\ Len(dirty) \in Nat /\ DOMAIN dirty = 1..Len(dirty)
      /\ next \in Nat /\ next > 0
  BY DEF ItemsFit
<1>2. /\ fresh \in Seq(ShownItem) /\ DOMAIN fresh = 1..(Len(items) + 1)
      /\ \A i \in DOMAIN items : fresh[i] = items[i]
      /\ fresh[Len(items) + 1] = x
      /\ d \in Seq(Nat) /\ DOMAIN d = 1..(Len(dirty) + 1)
      /\ \A k \in DOMAIN dirty : d[k] = dirty[k]
      /\ d[Len(dirty) + 1] = next
  BY <1>1
<1> HIDE DEF fresh, d
<1>3. /\ \A i \in DOMAIN fresh : i \in DOMAIN items \/ i = Len(items) + 1
      /\ \A k \in DOMAIN d : k \in DOMAIN dirty \/ k = Len(dirty) + 1
      /\ \A i, j \in DOMAIN fresh : i < j => i \in DOMAIN items
      /\ \A k, l \in DOMAIN d : k < l => k \in DOMAIN dirty
      /\ DOMAIN items \subseteq DOMAIN fresh /\ Len(items) + 1 \in DOMAIN fresh
      /\ DOMAIN dirty \subseteq DOMAIN d /\ Len(dirty) + 1 \in DOMAIN d
  BY <1>1, <1>2
<1>4. IdsOf(fresh) = IdsOf(items) \cup {next}
  BY <1>2, <1>3 DEF IdsOf
<1>5. SetOf(d) = SetOf(dirty) \cup {next}
  BY <1>2, <1>3 DEF SetOf
<1>6. Ascending(fresh)
  <2> SUFFICES ASSUME NEW i \in DOMAIN fresh, NEW j \in DOMAIN fresh, i < j
               PROVE  fresh[i].id < fresh[j].id
    BY DEF Ascending
  <2>1. i \in DOMAIN items /\ fresh[i].id = items[i].id /\ items[i].id < next
    BY <1>2, <1>3 DEF ItemsFit
  <2>2. CASE j \in DOMAIN items
    BY <1>2, <2>1, <2>2 DEF ItemsFit, Ascending
  <2>3. CASE j = Len(items) + 1
    BY <1>2, <2>1, <2>3
  <2> QED
    BY <1>3, <2>2, <2>3
<1>7. \A y \in Nat : y < next => y < next + 1 /\ y # next
  BY <1>1
<1>8. \A i \in DOMAIN items : items[i].id \in Nat /\ items[i].id < next
  <2>1. \A i \in DOMAIN items : items[i] \in ShownItem
    BY <1>1
  <2> QED
    BY <2>1 DEF ItemsFit, ShownItem
<1>9. \A j \in DOMAIN before : before[j].id \in Nat /\ before[j].id < next
  <2>1. before \in Seq(ShownItem)
    BY DEF ItemsFit
  <2>2. \A j \in DOMAIN before : before[j] \in ShownItem
    BY <2>1
  <2> QED
    BY <2>2 DEF ItemsFit, ShownItem
<1>10. \A k \in DOMAIN dirty : dirty[k] \in Nat /\ dirty[k] < next
  <2> SUFFICES ASSUME NEW k \in DOMAIN dirty
               PROVE  dirty[k] \in Nat /\ dirty[k] < next
    OBVIOUS
  <2>1. dirty[k] \in IdsOf(items)
    BY DEF ItemsFit, SetOf
  <2> QED
    BY <1>8, <2>1 DEF IdsOf
<1>11. \A i \in DOMAIN fresh : 0 < fresh[i].id /\ fresh[i].id < next + 1
  <2> SUFFICES ASSUME NEW i \in DOMAIN fresh
               PROVE  0 < fresh[i].id /\ fresh[i].id < next + 1
    OBVIOUS
  <2>1. CASE i \in DOMAIN items
    BY <1>2, <1>7, <1>8, <2>1 DEF ItemsFit
  <2>2. CASE i = Len(items) + 1
    BY <1>1, <1>2, <2>2
  <2> QED
    BY <1>3, <2>1, <2>2
<1>12. \A j \in DOMAIN before : before[j].id < next + 1
  BY <1>7, <1>9
<1>13. \A k, l \in DOMAIN d : k < l => d[k] # d[l]
  <2> SUFFICES ASSUME NEW k \in DOMAIN d, NEW l \in DOMAIN d, k < l
               PROVE  d[k] # d[l]
    OBVIOUS
  <2>1. k \in DOMAIN dirty /\ d[k] = dirty[k]
    BY <1>2, <1>3
  <2>2. CASE l \in DOMAIN dirty
    BY <1>2, <2>1, <2>2 DEF ItemsFit
  <2>3. CASE l = Len(dirty) + 1
    BY <1>2, <1>7, <1>10, <2>1, <2>3
  <2> QED
    BY <1>3, <2>2, <2>3
<1>14. next \notin published /\ next \notin removed
  <2>1. next \notin IdsOf(items) /\ next \notin IdsOf(before)
    BY <1>7, <1>8, <1>9 DEF IdsOf
  <2> QED
    BY <2>1 DEF ItemsFit
<1>15. IdsOf(fresh) = published \cup SetOf(d)
  BY <1>4, <1>5 DEF ItemsFit
<1>16. removed \cap IdsOf(fresh) = {}
  BY <1>4, <1>14 DEF ItemsFit
<1>17. \A i \in DOMAIN fresh :
          fresh[i].id \notin SetOf(d) => \E j \in DOMAIN before : before[j] = fresh[i]
  <2> SUFFICES ASSUME NEW i \in DOMAIN fresh, fresh[i].id \notin SetOf(d)
               PROVE  \E j \in DOMAIN before : before[j] = fresh[i]
    OBVIOUS
  <2>1. i \in DOMAIN items
    BY <1>2, <1>3, <1>5
  <2> QED
    BY <1>2, <1>5, <2>1 DEF ItemsFit
<1>18. \A k, l \in DOMAIN d :
          k < l /\ d[k] \notin published /\ d[l] \notin published => d[k] < d[l]
  <2> SUFFICES ASSUME NEW k \in DOMAIN d, NEW l \in DOMAIN d, k < l,
                      d[k] \notin published, d[l] \notin published
               PROVE  d[k] < d[l]
    OBVIOUS
  <2>1. k \in DOMAIN dirty /\ d[k] = dirty[k]
    BY <1>2, <1>3
  <2>2. CASE l \in DOMAIN dirty
    BY <1>2, <2>1, <2>2 DEF ItemsFit
  <2>3. CASE l = Len(dirty) + 1
    BY <1>2, <1>10, <2>1, <2>3
  <2> QED
    BY <1>3, <2>2, <2>3
<1>19. \A k \in DOMAIN d :
          d[k] \notin published => \A j \in DOMAIN before : before[j].id < d[k]
  <2> SUFFICES ASSUME NEW k \in DOMAIN d, d[k] \notin published, NEW j \in DOMAIN before
               PROVE  before[j].id < d[k]
    OBVIOUS
  <2>1. CASE k \in DOMAIN dirty
    BY <1>2, <2>1 DEF ItemsFit
  <2>2. CASE k = Len(dirty) + 1
    BY <1>2, <1>9, <2>2
  <2> QED
    BY <1>3, <2>1, <2>2
<1>20. next + 1 \in Nat /\ next + 1 > 0
  BY <1>1
<1>21. before \in Seq(ShownItem) /\ Ascending(before) /\ IdsOf(before) = published \cup removed
  BY DEF ItemsFit
<1>22. ItemsFit(fresh, next + 1, d, published, removed, before)
  BY <1>2, <1>6, <1>11, <1>12, <1>13, <1>15, <1>16, <1>17, <1>18, <1>19, <1>20, <1>21 DEF ItemsFit
<1> QED
  BY <1>4, <1>22 DEF fresh, d

\* An identifier that is forgotten leaves the rest as dirty as they were.
LEMMA CleanFacts ==
  ASSUME NEW dirty \in Seq(Nat), NEW id
  PROVE  LET left == Display!Clean(dirty, id) IN
         /\ left \in Seq(Nat)
         /\ SetOf(left) = SetOf(dirty) \ {id}
         /\ \A k, l \in DOMAIN left : k < l =>
               \E i, j \in DOMAIN dirty : i < j /\ left[k] = dirty[i] /\ left[l] = dirty[j]
<1> DEFINE S == {i \in DOMAIN dirty : dirty[i] # id}
           left == Display!Keeping(dirty, S)
<1>1. Display!Clean(dirty, id) = left
  BY DEF Display!Clean
<1>2. /\ left \in Seq(Nat)
      /\ \A k \in DOMAIN left : Display!Nth(S, k) \in S /\ left[k] = dirty[Display!Nth(S, k)]
      /\ \A i \in S : \E k \in DOMAIN left : Display!Nth(S, k) = i
      /\ \A k, l \in DOMAIN left : k < l => Display!Nth(S, k) < Display!Nth(S, l)
  BY KeepingFacts, Zenon
<1> HIDE DEF left
<1>3. SetOf(left) = SetOf(dirty) \ {id}
  <2>1. \A k \in DOMAIN left : left[k] \in SetOf(dirty) /\ left[k] # id
    BY <1>2 DEF SetOf
  <2>2. \A i \in DOMAIN dirty : dirty[i] # id => dirty[i] \in SetOf(left)
    BY <1>2 DEF SetOf
  <2> QED
    BY <2>1, <2>2 DEF SetOf
<1>4. \A k, l \in DOMAIN left : k < l =>
         \E i, j \in DOMAIN dirty : i < j /\ left[k] = dirty[i] /\ left[l] = dirty[j]
  BY <1>2
<1> QED
  BY <1>1, <1>2, <1>3, <1>4

Dropped(items, id) == Display!Without(items, {id})

\* An item that is taken out was sent before and is to be removed, or was never sent.
LEMMA ItemRemoved ==
  ASSUME NEW items, NEW next, NEW dirty, NEW published, NEW removed, NEW before,
         ItemsFit(items, next, dirty, published, removed, before),
         NEW id \in IdsOf(items)
  PROVE  /\ ItemsFit(Dropped(items, id), next, Display!Clean(dirty, id),
                     published \ {id},
                     IF id \in published THEN removed \cup {id} ELSE removed, before)
         /\ IdsOf(Dropped(items, id)) = IdsOf(items) \ {id}
<1> DEFINE fresh == Display!Without(items, {id})
           d     == Display!Clean(dirty, id)
           p     == published \ {id}
           r     == IF id \in published THEN removed \cup {id} ELSE removed
<1>1. items \in Seq(ShownItem) /\ dirty \in Seq(Nat)
  BY DEF ItemsFit
<1>2. /\ fresh \in Seq(ShownItem)
      /\ \A k \in DOMAIN fresh : fresh[k].id # id /\ \E i \in DOMAIN items : fresh[k] = items[i]
      /\ \A i \in DOMAIN items :
            items[i].id # id => \E k \in DOMAIN fresh : fresh[k] = items[i]
      /\ Ascending(fresh)
  <2>1. Ascending(items)
    BY DEF ItemsFit
  <2>2. /\ fresh \in Seq(ShownItem)
        /\ \A k \in DOMAIN fresh : fresh[k].id \notin {id} /\ \E i \in DOMAIN items : fresh[k] = items[i]
        /\ \A i \in DOMAIN items :
              items[i].id \notin {id} => \E k \in DOMAIN fresh : fresh[k] = items[i]
        /\ \A k, l \in DOMAIN fresh : k < l =>
              \E i, j \in DOMAIN items : i < j /\ fresh[k] = items[i] /\ fresh[l] = items[j]
        /\ Ascending(items) => Ascending(fresh)
    BY <1>1, WithoutFacts, Zenon
  <2> HIDE DEF fresh
  <2> QED
    BY <2>1, <2>2
<1>3. /\ d \in Seq(Nat) /\ SetOf(d) = SetOf(dirty) \ {id}
      /\ \A k, l \in DOMAIN d : k < l =>
            \E i, j \in DOMAIN dirty : i < j /\ d[k] = dirty[i] /\ d[l] = dirty[j]
  BY <1>1, CleanFacts
<1> HIDE DEF fresh, d
<1>4. IdsOf(fresh) = IdsOf(items) \ {id}
  BY <1>2 DEF IdsOf
<1>5. /\ r \subseteq removed \cup {id}
      /\ IdsOf(before) = p \cup r
      /\ r \cap IdsOf(fresh) = {}
      /\ IdsOf(fresh) = p \cup SetOf(d)
  BY <1>3, <1>4 DEF ItemsFit
<1>6. \A i \in DOMAIN fresh : 0 < fresh[i].id /\ fresh[i].id < next
  BY <1>2 DEF ItemsFit
<1>7. \A k, l \in DOMAIN d : k < l => d[k] # d[l]
  BY <1>3 DEF ItemsFit
<1>8. \A i \in DOMAIN fresh :
         fresh[i].id \notin SetOf(d) => \E j \in DOMAIN before : before[j] = fresh[i]
  <2> SUFFICES ASSUME NEW i \in DOMAIN fresh, fresh[i].id \notin SetOf(d)
               PROVE  \E j \in DOMAIN before : before[j] = fresh[i]
    OBVIOUS
  <2>1. PICK k \in DOMAIN items : fresh[i] = items[k]
    BY <1>2
  <2>2. items[k].id \notin SetOf(dirty)
    BY <1>2, <1>3, <2>1
  <2> QED
    BY <2>1, <2>2 DEF ItemsFit
<1>9. \A k \in DOMAIN d : d[k] # id /\ d[k] \in SetOf(dirty)
  BY <1>3 DEF SetOf
<1>10. \A k, l \in DOMAIN d : k < l /\ d[k] \notin p /\ d[l] \notin p => d[k] < d[l]
  <2> SUFFICES ASSUME NEW k \in DOMAIN d, NEW l \in DOMAIN d, k < l, d[k] \notin p, d[l] \notin p
               PROVE  d[k] < d[l]
    OBVIOUS
  <2>1. PICK i \in DOMAIN dirty, j \in DOMAIN dirty : i < j /\ d[k] = dirty[i] /\ d[l] = dirty[j]
    BY <1>3
  <2>2. dirty[i] \notin published /\ dirty[j] \notin published
    BY <1>9, <2>1
  <2> QED
    BY <2>1, <2>2 DEF ItemsFit
<1>11. \A k \in DOMAIN d : d[k] \notin p => \A j \in DOMAIN before : before[j].id < d[k]
  <2> SUFFICES ASSUME NEW k \in DOMAIN d, d[k] \notin p, NEW j \in DOMAIN before
               PROVE  before[j].id < d[k]
    OBVIOUS
  <2>1. PICK i \in DOMAIN dirty : d[k] = dirty[i]
    BY <1>9 DEF SetOf
  <2>2. dirty[i] \notin published
    BY <1>9, <2>1
  <2> QED
    BY <2>1, <2>2 DEF ItemsFit
<1>12. ItemsFit(fresh, next, d, p, r, before)
  <2>1. /\ before \in Seq(ShownItem) /\ next \in Nat /\ next > 0 /\ Ascending(before)
        /\ \A j \in DOMAIN before : before[j].id < next
    BY DEF ItemsFit
  <2> HIDE DEF p, r
  <2> QED
    BY <1>2, <1>3, <1>5, <1>6, <1>7, <1>8, <1>10, <1>11, <2>1 DEF ItemsFit
<1> QED
  BY <1>4, <1>12 DEF fresh, d, Dropped

\* The end of a turn: what still runs ends, and is dirty.
EndedItems(items, status) == [i \in DOMAIN items |-> Display!Ended(items[i], status)]
WithIds(dirty, items)     == dirty \o [k \in DOMAIN items |-> items[k].id]

\* The items that still ran have ended, and are dirty.
LEMMA ItemsEnded ==
  ASSUME NEW items, NEW next, NEW dirty, NEW published, NEW removed, NEW before,
         ItemsFit(items, next, dirty, published, removed, before), NEW status \in ShownStatus,
         NEW ongoing, ongoing = Display!Keeping(items,
            {i \in DOMAIN items : items[i].status = "running" /\ items[i].id \notin SetOf(dirty)})
  PROVE  /\ ItemsFit(EndedItems(items, status), next, WithIds(dirty, ongoing), published, removed,
                     before)
         /\ IdsOf(EndedItems(items, status)) = IdsOf(items)
<1> DEFINE S == {i \in DOMAIN items : items[i].status = "running" /\ items[i].id \notin SetOf(dirty)}
           fresh == [i \in DOMAIN items |-> Display!Ended(items[i], status)]
           more  == [k \in DOMAIN ongoing |-> ongoing[k].id]
           d     == dirty \o more
<1>1. /\ items \in Seq(ShownItem) /\ dirty \in Seq(Nat)
      /\ DOMAIN items = 1..Len(items) /\ Len(items) \in Nat
      /\ DOMAIN dirty = 1..Len(dirty) /\ Len(dirty) \in Nat
  BY DEF ItemsFit
<1>2. /\ ongoing \in Seq(ShownItem)
      /\ \A k \in DOMAIN ongoing : Display!Nth(S, k) \in S /\ ongoing[k] = items[Display!Nth(S, k)]
      /\ \A i \in S : \E k \in DOMAIN ongoing : Display!Nth(S, k) = i
      /\ \A k, l \in DOMAIN ongoing : k < l => Display!Nth(S, k) < Display!Nth(S, l)
  <2>1. S \subseteq DOMAIN items
    OBVIOUS
  <2>2. LET k == Display!Keeping(items, S) IN
        /\ k \in Seq(ShownItem)
        /\ \A i \in DOMAIN k : Display!Nth(S, i) \in S /\ k[i] = items[Display!Nth(S, i)]
        /\ \A i \in S : \E j \in DOMAIN k : Display!Nth(S, j) = i
        /\ \A i, j \in DOMAIN k : i < j => Display!Nth(S, i) < Display!Nth(S, j)
    BY ONLY <1>1, <2>1, KeepingFacts, Zenon
  <2>3. ongoing = Display!Keeping(items, S)
    OBVIOUS
  <2> HIDE DEF S
  <2> QED
    BY ONLY <2>2, <2>3
<1>3. \A i \in DOMAIN items : items[i] \in ShownItem /\ items[i].id \in Nat
  <2>1. \A i \in DOMAIN items : items[i] \in ShownItem
    BY <1>1
  <2> QED
    BY <2>1 DEF ShownItem
<1>4. \A i \in DOMAIN items : /\ fresh[i] \in ShownItem /\ fresh[i].id = items[i].id
                              /\ items[i].status # "running" => fresh[i] = items[i]
  <2> SUFFICES ASSUME NEW i \in DOMAIN items
               PROVE  /\ fresh[i] \in ShownItem /\ fresh[i].id = items[i].id
                      /\ items[i].status # "running" => fresh[i] = items[i]
    OBVIOUS
  <2>1. fresh[i] = IF items[i].status = "running" THEN [items[i] EXCEPT !.status = status] ELSE items[i]
    BY DEF Display!Ended
  <2> QED
    BY <1>3, <2>1 DEF ShownItem
<1>5. fresh \in Seq(ShownItem) /\ DOMAIN fresh = DOMAIN items
  BY <1>1, <1>4
<1> HIDE DEF fresh
<1>6. IdsOf(fresh) = IdsOf(items)
  BY <1>4, <1>5 DEF IdsOf
<1>7. Ascending(fresh)
  BY <1>4, <1>5 DEF ItemsFit, Ascending
<1>8. Len(ongoing) \in Nat /\ DOMAIN ongoing = 1..Len(ongoing)
  BY <1>2
<1>9. \A k \in DOMAIN ongoing : /\ ongoing[k].id \in Nat /\ ongoing[k].id \in IdsOf(items)
                             /\ ongoing[k].id \notin SetOf(dirty)
  BY <1>2, <1>3 DEF IdsOf
<1>10. more \in Seq(Nat) /\ Len(more) = Len(ongoing)
  <2>1. more = [k \in 1..Len(ongoing) |-> ongoing[k].id]
    BY <1>8
  <2>2. \A k \in 1..Len(ongoing) : ongoing[k].id \in Nat
    BY <1>8, <1>9
  <2> HIDE DEF more
  <2> QED
    BY <1>8, <2>1, <2>2
<1>11. /\ d \in Seq(Nat) /\ DOMAIN d = 1..(Len(dirty) + Len(ongoing))
       /\ \A k \in DOMAIN dirty : d[k] = dirty[k]
       /\ \A k \in DOMAIN ongoing : d[Len(dirty) + k] = ongoing[k].id
  <2>1. \A k \in DOMAIN ongoing : more[k] = ongoing[k].id
    OBVIOUS
  <2>2. DOMAIN more = DOMAIN ongoing
    OBVIOUS
  <2> HIDE DEF more
  <2>3. d \in Seq(Nat) /\ Len(d) = Len(dirty) + Len(ongoing)
    BY ONLY <1>1, <1>8, <1>10
  <2>4. \A k \in DOMAIN dirty : d[k] = dirty[k]
    BY <1>1, <1>8, <1>10
  <2>5. \A k \in DOMAIN ongoing : d[Len(dirty) + k] = more[k]
    BY <1>1, <1>8, <1>10
  <2> HIDE DEF d
  <2>6. DOMAIN d = 1..(Len(dirty) + Len(ongoing))
    BY <2>3
  <2> QED
    BY <2>1, <2>3, <2>4, <2>5, <2>6
<1> HIDE DEF d, more
<1>12. \A k \in DOMAIN d : k \in DOMAIN dirty \/ \E m \in DOMAIN ongoing : k = Len(dirty) + m
  <2> SUFFICES ASSUME NEW k \in DOMAIN d, k \notin DOMAIN dirty
               PROVE  \E m \in DOMAIN ongoing : k = Len(dirty) + m
    OBVIOUS
  <2>1. k - Len(dirty) \in DOMAIN ongoing /\ k = Len(dirty) + (k - Len(dirty))
    BY <1>1, <1>8, <1>11
  <2> QED
    BY <2>1
<1>13. SetOf(d) = SetOf(dirty) \cup {ongoing[k].id : k \in DOMAIN ongoing}
  <2>1. DOMAIN dirty \subseteq DOMAIN d
    BY <1>1, <1>8, <1>11
  <2>2. \A k \in DOMAIN ongoing : Len(dirty) + k \in DOMAIN d
    BY <1>1, <1>8, <1>11
  <2>3. \A k \in DOMAIN d : d[k] \in SetOf(dirty) \cup {ongoing[m].id : m \in DOMAIN ongoing}
    <3> SUFFICES ASSUME NEW k \in DOMAIN d
                 PROVE  d[k] \in SetOf(dirty) \cup {ongoing[m].id : m \in DOMAIN ongoing}
      OBVIOUS
    <3>1. CASE k \in DOMAIN dirty
      BY <1>11, <3>1 DEF SetOf
    <3>2. CASE \E m \in DOMAIN ongoing : k = Len(dirty) + m
      BY <1>11, <3>2
    <3> QED
      BY <1>12, <3>1, <3>2
  <2>4. \A k \in DOMAIN dirty : dirty[k] \in SetOf(d)
    BY <1>11, <2>1 DEF SetOf
  <2>5. \A k \in DOMAIN ongoing : ongoing[k].id \in SetOf(d)
    BY <1>11, <2>2 DEF SetOf
  <2> QED
    BY <2>3, <2>4, <2>5 DEF SetOf
<1>14. {ongoing[k].id : k \in DOMAIN ongoing} \subseteq published
  BY <1>9 DEF ItemsFit
<1>15. IdsOf(fresh) = published \cup SetOf(d)
  BY <1>6, <1>13, <1>14 DEF ItemsFit
<1>16. \A k, l \in DOMAIN ongoing : k < l => ongoing[k].id # ongoing[l].id
  <2> SUFFICES ASSUME NEW k \in DOMAIN ongoing, NEW l \in DOMAIN ongoing, k < l
               PROVE  ongoing[k].id # ongoing[l].id
    OBVIOUS
  <2> DEFINE i == Display!Nth(S, k)
             j == Display!Nth(S, l)
  <2>1. i \in DOMAIN items /\ j \in DOMAIN items /\ i < j /\ ongoing[k] = items[i] /\ ongoing[l] = items[j]
    BY <1>2
  <2> HIDE DEF i, j
  <2>2. items[i].id < items[j].id /\ items[i].id \in Nat /\ items[j].id \in Nat
    BY <1>3, <2>1 DEF ItemsFit, Ascending
  <2> QED
    BY <2>1, <2>2
<1>17. \A k, l \in DOMAIN d : k < l => d[k] # d[l]
  <2> SUFFICES ASSUME NEW k \in DOMAIN d, NEW l \in DOMAIN d, k < l
               PROVE  d[k] # d[l]
    OBVIOUS
  <2>1. CASE k \in DOMAIN dirty /\ l \in DOMAIN dirty
    <3>1. d[k] = dirty[k] /\ d[l] = dirty[l]
      BY <1>11, <2>1
    <3>2. dirty[k] # dirty[l]
      BY <2>1 DEF ItemsFit
    <3> QED
      BY <3>1, <3>2
  <2>2. CASE k \in DOMAIN dirty /\ \E m \in DOMAIN ongoing : l = Len(dirty) + m
    <3>1. PICK m \in DOMAIN ongoing : l = Len(dirty) + m
      BY <2>2
    <3>2. d[k] \in SetOf(dirty)
      BY <1>11, <2>2 DEF SetOf
    <3>3. d[l] = ongoing[m].id /\ ongoing[m].id \notin SetOf(dirty)
      BY <1>9, <1>11, <3>1
    <3> QED
      BY <3>2, <3>3
  <2>3. CASE \E m \in DOMAIN ongoing : k = Len(dirty) + m
    <3>1. PICK m \in DOMAIN ongoing : k = Len(dirty) + m
      BY <2>3
    <3>2. l \notin DOMAIN dirty
      BY <1>1, <1>8, <3>1
    <3>3. PICK o \in DOMAIN ongoing : l = Len(dirty) + o
      BY <1>12, <3>2
    <3>4. m < o
      BY <1>1, <1>8, <3>1, <3>3
    <3> QED
      BY <1>11, <1>16, <3>1, <3>3, <3>4
  <2> QED
    BY <1>12, <2>1, <2>2, <2>3
<1>18. \A i \in DOMAIN fresh :
          fresh[i].id \notin SetOf(d) => \E j \in DOMAIN before : before[j] = fresh[i]
  <2> SUFFICES ASSUME NEW i \in DOMAIN fresh, fresh[i].id \notin SetOf(d)
               PROVE  \E j \in DOMAIN before : before[j] = fresh[i]
    OBVIOUS
  <2>1. i \in DOMAIN items /\ items[i].id \notin SetOf(dirty) /\ i \notin S
    <3>1. i \in DOMAIN items /\ fresh[i].id = items[i].id
      BY <1>4, <1>5
    <3>2. items[i].id \notin SetOf(dirty)
      BY <1>13, <3>1
    <3>3. ASSUME i \in S PROVE FALSE
      <4>1. PICK k \in DOMAIN ongoing : Display!Nth(S, k) = i
        BY <1>2, <3>3
      <4>2. ongoing[k] = items[i]
        BY <1>2, <4>1
      <4> QED
        BY <1>13, <3>1, <4>2
    <3> QED
      BY <3>1, <3>2, <3>3
  <2>2. items[i].status # "running"
    BY <2>1
  <2>2a. fresh[i] = items[i]
    BY <1>4, <2>1, <2>2
  <2> QED
    BY <2>1, <2>2a DEF ItemsFit
<1>19. \A k \in DOMAIN d : d[k] \notin published => k \in DOMAIN dirty
  BY <1>11, <1>12, <1>14, Zenon
<1>20. \A k, l \in DOMAIN d :
          k < l /\ d[k] \notin published /\ d[l] \notin published => d[k] < d[l]
  BY <1>11, <1>19 DEF ItemsFit
<1>21. \A k \in DOMAIN d :
          d[k] \notin published => \A j \in DOMAIN before : before[j].id < d[k]
  BY <1>11, <1>19 DEF ItemsFit
<1>22. ItemsFit(fresh, next, d, published, removed, before)
  <2>1. /\ before \in Seq(ShownItem) /\ next \in Nat /\ next > 0 /\ Ascending(before)
        /\ \A j \in DOMAIN before : before[j].id < next
        /\ IdsOf(before) = published \cup removed
        /\ removed \cap IdsOf(items) = {}
    BY DEF ItemsFit
  <2>2. \A i \in DOMAIN fresh : 0 < fresh[i].id /\ fresh[i].id < next
    BY <1>4, <1>5 DEF ItemsFit
  <2> QED
    BY <1>5, <1>6, <1>7, <1>11, <1>15, <1>17, <1>18, <1>20, <1>21, <2>1, <2>2 DEF ItemsFit
<1> QED
  BY <1>6, <1>22 DEF fresh, d, more, EndedItems, WithIds

\* What was sent is what is shown before the next patch.
LEMMA ItemsTaken ==
  ASSUME NEW items, NEW next, NEW dirty, NEW published, NEW removed, NEW before,
         ItemsFit(items, next, dirty, published, removed, before)
  PROVE  ItemsFit(items, next, <<>>, published \cup SetOf(dirty), {}, items)
<1>1. SetOf(<<>>) = {} /\ <<>> \in Seq(Nat) /\ DOMAIN <<>> = {}
  BY DEF SetOf
<1> QED
  BY <1>1 DEF ItemsFit

\* A patch, applied to the items of the patch before, gives the items it was
\* taken of.
LEMMA PatchIsExact ==
  ASSUME NEW items, NEW next, NEW dirty, NEW published, NEW removed, NEW before,
         ItemsFit(items, next, dirty, published, removed, before),
         NEW given \in Seq(ShownItem), DOMAIN given = DOMAIN dirty,
         \A k \in DOMAIN dirty : given[k].id = dirty[k] /\ \E i \in DOMAIN items : given[k] = items[i]
  PROVE  Display!Upsert(Display!Without(before, removed), given) = items
<1> DEFINE kept  == Display!Without(before, removed)
           first == [i \in DOMAIN kept |-> Display!Replaced(kept[i], given)]
           later == Display!Without(given, Display!Ids(kept))
           result == first \o later
<1>1. /\ items \in Seq(ShownItem) /\ before \in Seq(ShownItem) /\ dirty \in Seq(Nat)
      /\ Ascending(items) /\ Ascending(before)
  BY DEF ItemsFit
<1>2. /\ kept \in Seq(ShownItem)
      /\ \A k \in DOMAIN kept : kept[k].id \notin removed /\ \E i \in DOMAIN before : kept[k] = before[i]
      /\ \A i \in DOMAIN before :
            before[i].id \notin removed => \E k \in DOMAIN kept : kept[k] = before[i]
      /\ Ascending(kept)
  <2>1. /\ kept \in Seq(ShownItem)
        /\ \A k \in DOMAIN kept : kept[k].id \notin removed /\ \E i \in DOMAIN before : kept[k] = before[i]
        /\ \A i \in DOMAIN before :
              before[i].id \notin removed => \E k \in DOMAIN kept : kept[k] = before[i]
        /\ \A k, l \in DOMAIN kept : k < l =>
              \E i, j \in DOMAIN before : i < j /\ kept[k] = before[i] /\ kept[l] = before[j]
        /\ Ascending(before) => Ascending(kept)
    BY ONLY <1>1, WithoutFacts, Zenon
  <2> HIDE DEF kept
  <2> QED
    BY <1>1, <2>1
<1>3. /\ later \in Seq(ShownItem)
      /\ \A k \in DOMAIN later : later[k].id \notin Display!Ids(kept) /\ \E i \in DOMAIN given : later[k] = given[i]
      /\ \A i \in DOMAIN given :
            given[i].id \notin Display!Ids(kept) => \E k \in DOMAIN later : later[k] = given[i]
      /\ \A k, l \in DOMAIN later : k < l =>
            \E i, j \in DOMAIN given : i < j /\ later[k] = given[i] /\ later[l] = given[j]
  <2> DEFINE known == Display!Ids(kept)
  <2> HIDE DEF known
  <2>1. given \in Seq(ShownItem)
    OBVIOUS
  <2>2. LET left == Display!Without(given, known) IN
        /\ left \in Seq(ShownItem)
        /\ \A k \in DOMAIN left : left[k].id \notin known /\ \E i \in DOMAIN given : left[k] = given[i]
        /\ \A i \in DOMAIN given :
              given[i].id \notin known => \E k \in DOMAIN left : left[k] = given[i]
        /\ \A k, l \in DOMAIN left : k < l =>
              \E i, j \in DOMAIN given : i < j /\ left[k] = given[i] /\ left[l] = given[j]
        /\ Ascending(given) => Ascending(left)
    BY ONLY <2>1, WithoutFacts, Zenon
  <2> QED
    BY ONLY <2>2 DEF known
<1>4. Display!Upsert(kept, given) = result
  BY DEF Display!Upsert
<1> HIDE DEF kept
<1>5. /\ Display!Ids(kept) = IdsOf(kept)
      /\ \A id : Display!Given(given, id) = {g \in SetOf(given) : g.id = id}
  BY ShownSets DEF Display!Given
<1>6. IdsOf(kept) = published \ removed
  <2>1. IdsOf(kept) = IdsOf(before) \ removed
    <3>1. \A k \in DOMAIN kept : kept[k].id \in IdsOf(before) /\ kept[k].id \notin removed
      BY <1>2 DEF IdsOf
    <3>2. \A i \in DOMAIN before : before[i].id \notin removed => before[i].id \in IdsOf(kept)
      BY <1>2 DEF IdsOf
    <3> QED
      BY <3>1, <3>2 DEF IdsOf
  <2> QED
    BY <2>1 DEF ItemsFit
<1>7. /\ Len(items) \in Nat /\ DOMAIN items = 1..Len(items)
      /\ Len(kept) \in Nat /\ DOMAIN kept = 1..Len(kept)
      /\ Len(before) \in Nat /\ DOMAIN before = 1..Len(before)
      /\ Len(given) \in Nat /\ DOMAIN given = 1..Len(given)
      /\ Len(later) \in Nat /\ DOMAIN later = 1..Len(later)
  BY <1>1, <1>2, <1>3
<1>8. /\ \A i \in DOMAIN items : items[i] \in ShownItem /\ items[i].id \in Nat
      /\ \A i \in DOMAIN kept : kept[i] \in ShownItem /\ kept[i].id \in Nat
      /\ \A i \in DOMAIN before : before[i] \in ShownItem /\ before[i].id \in Nat
      /\ \A i \in DOMAIN given : given[i] \in ShownItem /\ given[i].id \in Nat
  <2>1. /\ \A i \in DOMAIN items : items[i] \in ShownItem
        /\ \A i \in DOMAIN kept : kept[i] \in ShownItem
        /\ \A i \in DOMAIN before : before[i] \in ShownItem
        /\ \A i \in DOMAIN given : given[i] \in ShownItem
    BY <1>1, <1>2
  <2> QED
    BY <2>1 DEF ShownItem
\* Items have one identifier each.
<1>9. \A i, j \in DOMAIN items : items[i].id = items[j].id => i = j
  <2> SUFFICES ASSUME NEW i \in DOMAIN items, NEW j \in DOMAIN items, items[i].id = items[j].id
               PROVE  i = j
    OBVIOUS
  <2>1. (i < j => items[i].id < items[j].id) /\ (j < i => items[j].id < items[i].id)
    BY <1>1 DEF Ascending
  <2>2. ~(i < j) /\ ~(j < i)
    BY <1>8, <2>1
  <2> QED
    BY <1>7, <2>2
\* A kept item is replaced by what the turn has under its identifier.
<1>10. \A k \in DOMAIN kept : \E i \in DOMAIN items :
          items[i].id = kept[k].id /\ first[k] = items[i]
  <2> SUFFICES ASSUME NEW k \in DOMAIN kept
               PROVE  \E i \in DOMAIN items : items[i].id = kept[k].id /\ first[k] = items[i]
    OBVIOUS
  <2>1. kept[k].id \in IdsOf(items)
    <3>1. kept[k].id \in IdsOf(kept)
      BY DEF IdsOf
    <3> QED
      BY <1>6, <3>1 DEF ItemsFit
  <2>2. PICK i \in DOMAIN items : items[i].id = kept[k].id
    BY <2>1 DEF IdsOf
  <2>3. first[k] = Display!Replaced(kept[k], given)
    OBVIOUS
  <2>4. CASE kept[k].id \in SetOf(dirty)
    <3>1. PICK d \in DOMAIN dirty : dirty[d] = kept[k].id
      BY <2>4 DEF SetOf
    <3>2. given[d] \in Display!Given(given, kept[k].id)
      BY <1>5, <3>1 DEF SetOf
    <3>3. first[k] \in Display!Given(given, kept[k].id)
      BY <2>3, <3>2, Zenon DEF Display!Replaced
    <3>4. PICK e \in DOMAIN given : first[k] = given[e] /\ given[e].id = kept[k].id
      BY <1>5, <3>3 DEF SetOf
    <3>5. PICK j \in DOMAIN items : given[e] = items[j]
      BY <3>4
    <3> QED
      BY <2>2, <3>4, <3>5, <1>9
  <2>5. CASE kept[k].id \notin SetOf(dirty)
    <3>1. Display!Given(given, kept[k].id) = {}
      BY <1>5, <2>5 DEF SetOf
    <3>2. first[k] = kept[k]
      BY <2>3, <3>1 DEF Display!Replaced
    <3>3. PICK j \in DOMAIN before : before[j] = items[i]
      BY <2>2, <2>5 DEF ItemsFit
    <3>4. PICK m \in DOMAIN before : kept[k] = before[m]
      BY <1>2
    <3>5. (j < m => before[j].id < before[m].id) /\ (m < j => before[m].id < before[j].id)
      BY <1>1 DEF Ascending
    <3>6. ~(j < m) /\ ~(m < j)
      BY <1>8, <2>2, <3>3, <3>4, <3>5
    <3>7. j = m
      BY <1>7, <3>6
    <3> QED
      BY <2>2, <3>2, <3>3, <3>4, <3>7
  <2> QED
    BY <2>4, <2>5
<1>11. first \in Seq(ShownItem) /\ DOMAIN first = DOMAIN kept /\ Len(first) = Len(kept)
  <2>1. \A k \in DOMAIN kept : first[k] \in ShownItem
    BY <1>8, <1>10
  <2>2. first = [k \in 1..Len(kept) |-> first[k]]
    BY <1>7
  <2> HIDE DEF first
  <2>3. first \in Seq(ShownItem)
    BY <1>7, <2>1, <2>2
  <2> QED
    BY <1>7, <2>2, <2>3
<1> HIDE DEF first, later
<1>12. \A k \in DOMAIN first : first[k].id = kept[k].id
  BY <1>10, <1>11
<1>13. /\ result \in Seq(ShownItem) /\ DOMAIN result = 1..(Len(kept) + Len(later))
       /\ \A k \in DOMAIN kept : result[k] = first[k]
       /\ \A k \in DOMAIN later : result[Len(kept) + k] = later[k]
  <2>1. result \in Seq(ShownItem) /\ Len(result) = Len(kept) + Len(later)
    BY <1>3, <1>7, <1>11, SMTT(30)
  <2>2. \A k \in DOMAIN kept : result[k] = first[k]
    BY <1>3, <1>7, <1>11, SMTT(30)
  <2>3. \A k \in DOMAIN later : result[Len(kept) + k] = later[k]
    BY <1>3, <1>7, <1>11, SMTT(30)
  <2> HIDE DEF result
  <2> QED
    BY <1>7, <2>1, <2>2, <2>3
<1> HIDE DEF result
<1>14. \A k \in DOMAIN result : k \in DOMAIN kept \/ \E m \in DOMAIN later : k = Len(kept) + m
  <2> SUFFICES ASSUME NEW k \in DOMAIN result, k \notin DOMAIN kept
               PROVE  \E m \in DOMAIN later : k = Len(kept) + m
    OBVIOUS
  <2>1. k - Len(kept) \in DOMAIN later /\ k = Len(kept) + (k - Len(kept))
    BY <1>7, <1>13
  <2> QED
    BY <2>1
\* What comes later is new, in the order in which it was made.
<1>15. \A k \in DOMAIN later : \E d \in DOMAIN dirty :
          later[k] = given[d] /\ dirty[d] \notin published /\ later[k].id = dirty[d]
  <2> SUFFICES ASSUME NEW k \in DOMAIN later
               PROVE  \E d \in DOMAIN dirty :
                         later[k] = given[d] /\ dirty[d] \notin published /\ later[k].id = dirty[d]
    OBVIOUS
  <2>1. PICK d \in DOMAIN dirty : later[k] = given[d]
    BY <1>3
  <2>2. dirty[d] \notin IdsOf(kept) /\ later[k].id = dirty[d]
    BY <1>3, <1>5, <2>1
  <2>3. dirty[d] \in IdsOf(items)
    BY DEF ItemsFit, SetOf
  <2> QED
    BY <1>6, <2>1, <2>2, <2>3 DEF ItemsFit
<1>16. \A k \in DOMAIN result : \E i \in DOMAIN items : items[i] = result[k]
  <2> SUFFICES ASSUME NEW k \in DOMAIN result
               PROVE  \E i \in DOMAIN items : items[i] = result[k]
    OBVIOUS
  <2>1. CASE k \in DOMAIN kept
    BY <1>10, <1>13, <2>1
  <2>2. CASE \E m \in DOMAIN later : k = Len(kept) + m
    <3>1. PICK m \in DOMAIN later : k = Len(kept) + m
      BY <2>2
    <3>2. PICK d \in DOMAIN dirty : later[m] = given[d]
      BY <1>15
    <3> QED
      BY <1>13, <3>1, <3>2
  <2> QED
    BY <1>14, <2>1, <2>2
<1>17. \A i \in DOMAIN items : \E k \in DOMAIN result : result[k] = items[i]
  <2> SUFFICES ASSUME NEW i \in DOMAIN items
               PROVE  \E k \in DOMAIN result : result[k] = items[i]
    OBVIOUS
  <2>1. CASE items[i].id \in IdsOf(kept)
    <3>1. PICK k \in DOMAIN kept : kept[k].id = items[i].id
      BY <2>1 DEF IdsOf
    <3>2. first[k] = items[i]
      BY <1>9, <1>10, <3>1
    <3> QED
      BY <1>7, <1>13, <3>1, <3>2
  <2>2. CASE items[i].id \notin IdsOf(kept)
    <3>1. items[i].id \notin published
      BY <1>6, <2>2 DEF ItemsFit, IdsOf
    <3>2. items[i].id \in SetOf(dirty)
      BY <3>1 DEF ItemsFit, IdsOf
    <3>3. PICK d \in DOMAIN dirty : dirty[d] = items[i].id
      BY <3>2 DEF SetOf
    <3>4. given[d] = items[i]
      BY <1>9, <3>3
    <3>5. PICK k \in DOMAIN later : later[k] = given[d]
      BY <1>3, <1>5, <2>2, <3>3
    <3> QED
      BY <1>7, <1>13, <3>4, <3>5
  <2> QED
    BY <2>1, <2>2
<1>18. Ascending(result)
  <2> SUFFICES ASSUME NEW k \in DOMAIN result, NEW l \in DOMAIN result, k < l
               PROVE  result[k].id < result[l].id
    BY DEF Ascending
  <2>1. CASE k \in DOMAIN kept /\ l \in DOMAIN kept
    BY <1>2, <1>11, <1>12, <1>13, <2>1 DEF Ascending
  <2>2. CASE k \in DOMAIN kept /\ \E m \in DOMAIN later : l = Len(kept) + m
    <3>1. PICK m \in DOMAIN later : l = Len(kept) + m
      BY <2>2
    <3>2. PICK d \in DOMAIN dirty : dirty[d] \notin published /\ later[m].id = dirty[d]
      BY <1>15
    <3>3. PICK j \in DOMAIN before : kept[k] = before[j]
      BY <1>2, <2>2
    <3>4. before[j].id < dirty[d]
      BY <3>2 DEF ItemsFit
    <3> QED
      BY <1>11, <1>12, <1>13, <2>2, <3>1, <3>2, <3>3, <3>4
  <2>3. CASE \E m \in DOMAIN later : k = Len(kept) + m
    <3>1. PICK m \in DOMAIN later : k = Len(kept) + m
      BY <2>3
    <3>2. l \notin DOMAIN kept
      BY <1>7, <3>1
    <3>3. PICK o \in DOMAIN later : l = Len(kept) + o
      BY <1>14, <3>2
    <3>4. m < o
      BY <1>7, <3>1, <3>3
    <3>5. PICK d \in DOMAIN given, e \in DOMAIN given :
             d < e /\ later[m] = given[d] /\ later[o] = given[e]
      BY <1>3, <3>4
    <3>6. /\ later[m].id = dirty[d] /\ later[o].id = dirty[e]
          /\ dirty[d] \notin published /\ dirty[e] \notin published
      BY <1>15, <3>5
    <3>7. dirty[d] < dirty[e]
      BY <3>5, <3>6 DEF ItemsFit
    <3> QED
      BY <1>13, <3>1, <3>3, <3>6, <3>7
  <2> QED
    BY <1>14, <2>1, <2>2, <2>3
<1>19. result = items
  BY <1>1, <1>13, <1>16, <1>17, <1>18, AscendingDetermined
<1> QED
  BY <1>4, <1>19 DEF kept

\* A projection is a record of these fields.
ProjectionFields ==
  {"items", "next", "sequence", "active", "open", "dirty", "published", "removed", "closing", "over"}

IsProjection(p) == p = [field \in ProjectionFields |-> p[field]]

\* What a projection refers to is one of its items, and no two the same.
RefersToItems(items, current, open) ==
  /\ current # 0 => current \in IdsOf(items)
  /\ open = [key \in Tracked |-> open[key]]
  /\ \A key \in Tracked : open[key] # 0 => open[key] \in IdsOf(items) /\ open[key] # current

\* What a projection keeps, with the items of the patch before.
Fits(p, before) ==
  /\ IsProjection(p)
  /\ p.sequence \in Nat /\ p.closing \in BOOLEAN /\ p.over \in BOOLEAN
  /\ ItemsFit(p.items, p.next, p.dirty, p.published, p.removed, before)
  /\ RefersToItems(p.items, p.active, p.open)

\* What each helper leaves of a projection, field by field.
LEMMA PushFields ==
  ASSUME NEW p, IsProjection(p), NEW status
  PROVE  LET q == Display!Push(p, status) IN
         /\ IsProjection(q)
         /\ q.items = Append(p.items, [id |-> p.next, text |-> 0, status |-> status])
         /\ q.next = p.next + 1
         /\ q.sequence = p.sequence
         /\ q.active = 0
         /\ q.open = p.open
         /\ q.dirty = Append(p.dirty, p.next)
         /\ q.published = p.published
         /\ q.removed = p.removed
         /\ q.closing = p.closing
         /\ q.over = p.over
BY DEF Display!Push, IsProjection, ProjectionFields

LEMMA MarkDirtyFields ==
  ASSUME NEW p, IsProjection(p), NEW id
  PROVE  LET q == Display!MarkDirty(p, id) IN
         /\ IsProjection(q)
         /\ q.items = p.items
         /\ q.next = p.next
         /\ q.sequence = p.sequence
         /\ q.active = p.active
         /\ q.open = p.open
         /\ q.dirty = Marked(p.dirty, id)
         /\ q.published = p.published
         /\ q.removed = p.removed
         /\ q.closing = p.closing
         /\ q.over = p.over
BY ShownSets DEF Display!MarkDirty, Marked, IsProjection, ProjectionFields

LEMMA ConcludeFields ==
  ASSUME NEW p, IsProjection(p), NEW status
  PROVE  LET q == Display!Conclude(p, status) IN
         /\ IsProjection(q)
         /\ q.items = EndedItems(p.items, status)
         /\ q.next = p.next
         /\ q.sequence = p.sequence
         /\ q.active = 0
         /\ q.open = p.open
         /\ q.dirty = WithIds(p.dirty, Display!Running(p))
         /\ q.published = p.published
         /\ q.removed = p.removed
         /\ q.closing = TRUE
         /\ q.over = TRUE
BY DEF Display!Conclude, EndedItems, WithIds, IsProjection, ProjectionFields

LEMMA TakenFields ==
  ASSUME NEW p, IsProjection(p)
  PROVE  LET q == Display!Taken(p) IN
         /\ IsProjection(q)
         /\ q.items = p.items
         /\ q.next = p.next
         /\ q.sequence = p.sequence + 1
         /\ q.active = p.active
         /\ q.open = p.open
         /\ q.dirty = <<>>
         /\ q.published = p.published \cup SetOf(p.dirty)
         /\ q.removed = {}
         /\ q.closing = FALSE
         /\ q.over = p.over
BY ShownSets DEF Display!Taken, IsProjection, ProjectionFields

LEMMA ItemFields ==
  ASSUME NEW p, IsProjection(p), NEW items
  PROVE  LET q == [p EXCEPT !.items = items] IN
         /\ IsProjection(q)
         /\ q.items = items
         /\ q.next = p.next
         /\ q.sequence = p.sequence
         /\ q.active = p.active
         /\ q.open = p.open
         /\ q.dirty = p.dirty
         /\ q.published = p.published
         /\ q.removed = p.removed
         /\ q.closing = p.closing
         /\ q.over = p.over
BY DEF IsProjection, ProjectionFields

LEMMA ActiveFields ==
  ASSUME NEW p, IsProjection(p), NEW id
  PROVE  LET q == [p EXCEPT !.active = id] IN
         /\ IsProjection(q)
         /\ q.items = p.items
         /\ q.next = p.next
         /\ q.sequence = p.sequence
         /\ q.active = id
         /\ q.open = p.open
         /\ q.dirty = p.dirty
         /\ q.published = p.published
         /\ q.removed = p.removed
         /\ q.closing = p.closing
         /\ q.over = p.over
BY DEF IsProjection, ProjectionFields

LEMMA OpenedFields ==
  ASSUME NEW p, IsProjection(p), NEW key, NEW id
  PROVE  LET q == [p EXCEPT !.open[key] = id] IN
         /\ IsProjection(q)
         /\ q.items = p.items
         /\ q.next = p.next
         /\ q.sequence = p.sequence
         /\ q.active = p.active
         /\ q.open = [p.open EXCEPT ![key] = id]
         /\ q.dirty = p.dirty
         /\ q.published = p.published
         /\ q.removed = p.removed
         /\ q.closing = p.closing
         /\ q.over = p.over
BY DEF IsProjection, ProjectionFields


\* Functions that agree on their domain are the same.
LEMMA SameFunction ==
  ASSUME NEW S, NEW f, NEW g, f = [x \in S |-> f[x]], g = [x \in S |-> g[x]], \A x \in S : f[x] = g[x]
  PROVE  f = g
OBVIOUS

\* The position of an item.
LEMMA AtFacts ==
  ASSUME NEW p, NEW id \in IdsOf(p.items)
  PROVE  Display!At(p, id) \in DOMAIN p.items /\ p.items[Display!At(p, id)].id = id
<1>1. \E i \in DOMAIN p.items : p.items[i].id = id
  BY DEF IdsOf
<1> QED
  BY <1>1 DEF Display!At

\* A changed item keeps its identifier.
LEMMA IdsOfTouched ==
  ASSUME NEW items \in Seq(ShownItem), NEW i \in DOMAIN items, NEW x \in ShownItem, x.id = items[i].id
  PROVE  IdsOf([items EXCEPT ![i] = x]) = IdsOf(items)
<1> DEFINE changed == [items EXCEPT ![i] = x]
<1>1. DOMAIN changed = DOMAIN items /\ \A j \in DOMAIN items : changed[j] = IF j = i THEN x ELSE items[j]
  OBVIOUS
<1> HIDE DEF changed
<1>2. \A j \in DOMAIN items : changed[j].id = items[j].id
  BY <1>1
<1>3. IdsOf(changed) = IdsOf(items)
  BY <1>1, <1>2 DEF IdsOf
<1> QED
  BY <1>3 DEF changed

\* An item is changed, and is dirty.
LEMMA FitsTouched ==
  ASSUME NEW p, NEW before, Fits(p, before), NEW id \in IdsOf(p.items),
         NEW x \in ShownItem, x.id = id
  PROVE  Fits(Display!MarkDirty([p EXCEPT !.items = [p.items EXCEPT ![Display!At(p, id)] = x]], id), before)
<1> DEFINE i == Display!At(p, id)
           items == [p.items EXCEPT ![i] = x]
           q == [p EXCEPT !.items = items]
           r == Display!MarkDirty(q, id)
<1>1. i \in DOMAIN p.items /\ x.id = p.items[i].id
  BY AtFacts
<1>2. IsProjection(p) /\ p.items \in Seq(ShownItem)
  BY DEF Fits, ItemsFit
<1> HIDE DEF i
<1>3. IdsOf(items) = IdsOf(p.items)
  BY <1>1, <1>2, IdsOfTouched
<1>4. ItemsFit(items, p.next, Marked(p.dirty, x.id), p.published, p.removed, before)
  BY <1>1, ItemTouched DEF Fits
<1> HIDE DEF items
<1>5. /\ IsProjection(q) /\ q.items = items /\ q.next = p.next /\ q.sequence = p.sequence
      /\ q.active = p.active /\ q.open = p.open /\ q.dirty = p.dirty /\ q.published = p.published
      /\ q.removed = p.removed /\ q.closing = p.closing /\ q.over = p.over
  BY <1>2, ItemFields
<1> HIDE DEF q
<1>6. /\ IsProjection(r) /\ r.items = q.items /\ r.next = q.next /\ r.sequence = q.sequence
      /\ r.active = q.active /\ r.open = q.open /\ r.dirty = Marked(q.dirty, id)
      /\ r.published = q.published
      /\ r.removed = q.removed /\ r.closing = q.closing /\ r.over = q.over
  BY <1>5, MarkDirtyFields
<1> HIDE DEF r
<1>7. Fits(r, before)
  <2>1. ItemsFit(r.items, r.next, r.dirty, r.published, r.removed, before)
    BY <1>4, <1>5, <1>6
  <2>2. RefersToItems(r.items, r.active, r.open)
    BY <1>3, <1>5, <1>6 DEF Fits, RefersToItems
  <2> QED
    BY <1>5, <1>6, <2>1, <2>2 DEF Fits
<1> QED
  BY <1>7 DEF r, q, items, i

\* An item is pushed (next_id).
LEMMA FitsPushed ==
  ASSUME NEW p, NEW before, Fits(p, before), NEW status \in ShownStatus
  PROVE  LET q == Display!Push(p, status) IN
         /\ Fits(q, before) /\ IdsOf(q.items) = IdsOf(p.items) \cup {p.next}
         /\ p.next # 0 /\ p.next \notin IdsOf(p.items)
<1> DEFINE q == Display!Push(p, status)
           x == [id |-> p.next, text |-> 0, status |-> status]
<1>1. /\ IsProjection(q) /\ q.items = Append(p.items, x) /\ q.next = p.next + 1
      /\ q.sequence = p.sequence /\ q.active = 0 /\ q.open = p.open
      /\ q.dirty = Append(p.dirty, p.next) /\ q.published = p.published
      /\ q.removed = p.removed /\ q.closing = p.closing /\ q.over = p.over
  BY PushFields DEF Fits
<1>2. p.next \in Nat /\ p.next > 0 /\ x \in ShownItem /\ x.id = p.next
  BY DEF Fits, ItemsFit, ShownItem
<1> HIDE DEF q, x
<1>3. /\ ItemsFit(q.items, q.next, q.dirty, q.published, q.removed, before)
      /\ IdsOf(q.items) = IdsOf(p.items) \cup {p.next}
  BY <1>1, <1>2, ItemPushed DEF Fits
<1>4. RefersToItems(q.items, q.active, q.open)
  BY <1>1, <1>3 DEF Fits, RefersToItems
<1>5. p.next \notin IdsOf(p.items)
  BY <1>2 DEF Fits, ItemsFit, IdsOf
<1>6. Fits(q, before)
  BY <1>1, <1>3, <1>4 DEF Fits
<1> QED
  BY <1>2, <1>3, <1>5, <1>6 DEF q

\* No commentary is open, or that one of the items which no call has.
LEMMA FitsActive ==
  ASSUME NEW p, NEW before, Fits(p, before), NEW id,
         id # 0 => id \in IdsOf(p.items) /\ \A key \in Tracked : p.open[key] # id
  PROVE  Fits([p EXCEPT !.active = id], before)
<1> DEFINE q == [p EXCEPT !.active = id]
<1>1. /\ IsProjection(q) /\ q.items = p.items /\ q.next = p.next /\ q.sequence = p.sequence
      /\ q.active = id /\ q.open = p.open /\ q.dirty = p.dirty /\ q.published = p.published
      /\ q.removed = p.removed /\ q.closing = p.closing /\ q.over = p.over
  BY ActiveFields DEF Fits
<1> HIDE DEF q
<1>2. RefersToItems(q.items, q.active, q.open)
  BY <1>1 DEF Fits, RefersToItems
<1>3. Fits(q, before)
  BY <1>1, <1>2 DEF Fits
<1> QED
  BY <1>3 DEF q

\* A call takes an item that it alone has.
LEMMA FitsOpen ==
  ASSUME NEW p, NEW before, Fits(p, before), NEW key \in Tracked, NEW id,
         id # 0 => id \in IdsOf(p.items) /\ id # p.active
  PROVE  Fits([p EXCEPT !.open[key] = id], before)
<1> DEFINE q == [p EXCEPT !.open[key] = id]
<1>1. /\ IsProjection(q) /\ q.items = p.items /\ q.next = p.next /\ q.sequence = p.sequence
      /\ q.active = p.active /\ q.open = [p.open EXCEPT ![key] = id] /\ q.dirty = p.dirty
      /\ q.published = p.published
      /\ q.removed = p.removed /\ q.closing = p.closing /\ q.over = p.over
  BY OpenedFields DEF Fits
<1> HIDE DEF q
<1>2. RefersToItems(q.items, q.active, q.open)
  BY <1>1 DEF Fits, RefersToItems
<1>3. Fits(q, before)
  BY <1>1, <1>2 DEF Fits
<1> QED
  BY <1>3 DEF q

\* A pushed item is the last.
LEMMA PushKeeps ==
  ASSUME NEW p, IsProjection(p), NEW status
  PROVE  LET q == Display!Push(p, status) IN
         /\ q.sequence = p.sequence /\ q.over = p.over /\ q.closing = p.closing
         /\ q.active = 0 /\ q.open = p.open
BY PushFields

\* Commentary is appended (append_commentary).
LEMMA FitsCommentary ==
  ASSUME NEW p, NEW before, Fits(p, before)
  PROVE  LET q == Display!AppendCommentary(p) IN
         /\ Fits(q, before)
         /\ q.sequence = p.sequence /\ q.over = p.over
<1> DEFINE n == Display!Push(p, "text")
           q == IF p.active # 0 THEN p ELSE [n EXCEPT !.active = p.next]
           i == Display!At(q, q.active)
           x == [q.items[i] EXCEPT !.text = @ + 1]
           t == [q EXCEPT !.items = [q.items EXCEPT ![i] = x]]
           r == Display!MarkDirty(t, q.active)
<1>1. /\ Fits(q, before) /\ q.active # 0 /\ q.active \in IdsOf(q.items)
      /\ q.sequence = p.sequence /\ q.over = p.over
  <2>1. CASE p.active # 0
    BY <2>1 DEF Fits, RefersToItems
  <2>2. CASE p.active = 0
    <3>1. /\ Fits(n, before) /\ IdsOf(n.items) = IdsOf(p.items) \cup {p.next}
          /\ p.next # 0 /\ p.next \notin IdsOf(p.items)
      <4>1. "text" \in ShownStatus
        BY DEF ShownStatus
      <4> QED
        BY ONLY <4>1, Fits(p, before), FitsPushed, Zenon
    <3>2. n.sequence = p.sequence /\ n.over = p.over /\ n.open = p.open
      BY PushKeeps DEF Fits
    <3> HIDE DEF n
    <3>3. \A key \in Tracked : n.open[key] # p.next
      BY <3>1, <3>2 DEF Fits, RefersToItems
    <3>4. Fits([n EXCEPT !.active = p.next], before)
      BY <3>1, <3>3, FitsActive
    <3>5. LET m == [n EXCEPT !.active = p.next] IN
          m.active = p.next /\ m.items = n.items /\ m.sequence = n.sequence /\ m.over = n.over
      BY <3>1, ActiveFields DEF Fits
    <3>6. q = [n EXCEPT !.active = p.next]
      BY <2>2
    <3> HIDE DEF q
    <3> QED
      BY <3>1, <3>2, <3>4, <3>5, <3>6
  <2> QED
    BY <2>1, <2>2
<1>2. Display!AppendCommentary(p) = Display!MarkDirty([q EXCEPT !.items[i].text = @ + 1], q.active)
  BY DEF Display!AppendCommentary
<1> HIDE DEF q
<1>3. [q EXCEPT !.items[i].text = @ + 1] = t
  OBVIOUS
<1>4. i \in DOMAIN q.items /\ q.items[i].id = q.active
  BY <1>1, AtFacts
<1>5. q.items[i] \in ShownItem
  <2>1. q.items \in Seq(ShownItem)
    BY <1>1 DEF Fits, ItemsFit
  <2> QED
    BY <1>4, <2>1
<1>6. x \in ShownItem /\ x.id = q.active
  BY <1>4, <1>5 DEF ShownItem
<1> HIDE DEF x
<1>7. Fits(r, before)
  BY <1>1, <1>6, FitsTouched
<1>8. r.sequence = q.sequence /\ r.over = q.over
  <2>1. IsProjection(t) /\ t.sequence = q.sequence /\ t.over = q.over
    BY <1>1, ItemFields DEF Fits
  <2> HIDE DEF t
  <2> QED
    BY <2>1, MarkDirtyFields
<1> QED
  BY <1>1, <1>2, <1>3, <1>7, <1>8

\* A call begins (start_tool).
LEMMA FitsStart ==
  ASSUME NEW p, NEW before, Fits(p, before), NEW key \in Tracked
  PROVE  LET q == Display!Start(p, key) IN
         Fits(q, before) /\ q.sequence = p.sequence /\ q.over = p.over
<1> DEFINE n == Display!Push(p, "running")
           q == [n EXCEPT !.open[key] = p.next]
<1>1. /\ Fits(n, before) /\ IdsOf(n.items) = IdsOf(p.items) \cup {p.next} /\ p.next # 0
  <2>1. "running" \in ShownStatus
    BY DEF ShownStatus
  <2>2. /\ Fits(n, before) /\ IdsOf(n.items) = IdsOf(p.items) \cup {p.next}
        /\ p.next # 0 /\ p.next \notin IdsOf(p.items)
    BY ONLY <2>1, Fits(p, before), FitsPushed, Zenon
  <2> QED
    BY <2>2
<1>2. n.sequence = p.sequence /\ n.over = p.over /\ n.active = 0
  BY PushKeeps DEF Fits
<1>3. Display!Start(p, key) = q
  BY DEF Display!Start
<1> HIDE DEF n
<1>4. Fits(q, before)
  BY <1>1, <1>2, FitsOpen
<1>5. q.sequence = n.sequence /\ q.over = n.over
  BY <1>1, OpenedFields DEF Fits
<1> QED
  BY <1>2, <1>3, <1>4, <1>5

\* A call ends (finish_tool).
LEMMA FitsFinish ==
  ASSUME NEW p, NEW before, Fits(p, before), NEW key \in Tracked, NEW status \in ShownStatus
  PROVE  LET q == Display!Finish(p, key, status) IN
         Fits(q, before) /\ q.sequence = p.sequence /\ q.over = p.over
<1> DEFINE id == p.open[key]
           i  == Display!At(p, id)
           x  == [p.items[i] EXCEPT !.status = status]
           n  == [p EXCEPT !.open[key] = 0]
           j  == Display!At(n, id)
           t  == [n EXCEPT !.items = [n.items EXCEPT ![j] = x]]
           r  == Display!MarkDirty(t, id)
<1>1. CASE id = 0
  BY <1>1 DEF Display!Finish
<1>2. CASE id # 0
  <2>1. id \in IdsOf(p.items)
    BY <1>2 DEF Fits, RefersToItems
  <2>2. Fits(n, before)
    BY FitsOpen
  <2>3. IsProjection(n) /\ n.items = p.items /\ n.sequence = p.sequence /\ n.over = p.over
    BY OpenedFields DEF Fits
  <2>4. i \in DOMAIN p.items /\ p.items[i].id = id
    BY <2>1, AtFacts
  <2>5. p.items[i] \in ShownItem
    <3>1. p.items \in Seq(ShownItem)
      BY DEF Fits, ItemsFit
    <3> QED
      BY <2>4, <3>1
  <2>6. x \in ShownItem /\ x.id = id
    BY <2>4, <2>5 DEF ShownItem
  <2>7. i = j
    BY <2>3 DEF Display!At
  <2>8. Display!Finish(p, key, status) = r
    <3>1. Display!Finish(p, key, status) =
            Display!MarkDirty([p EXCEPT !.items[i].status = status, !.open[key] = 0], id)
      BY <1>2 DEF Display!Finish
    <3>2. [p EXCEPT !.items[i].status = status, !.open[key] = 0] = t
      <4> DEFINE u == [p EXCEPT !.items[i].status = status, !.open[key] = 0]
      <4>1. IsProjection(u) /\ IsProjection(t)
        BY DEF Fits, IsProjection, ProjectionFields
      <4>2. \A field \in ProjectionFields : u[field] = t[field]
        BY <2>7 DEF Fits, IsProjection, ProjectionFields
      <4> HIDE DEF u, t
      <4>3. u = t
        BY ONLY <4>1, <4>2, SameFunction DEF IsProjection
      <4> QED
        BY <4>3 DEF u, t
    <3> QED
      BY <3>1, <3>2
  <2> HIDE DEF x, n
  <2>9. Fits(r, before)
    BY <2>1, <2>2, <2>3, <2>6, FitsTouched
  <2>10. r.sequence = n.sequence /\ r.over = n.over
    <3>1. IsProjection(t) /\ t.sequence = n.sequence /\ t.over = n.over
      BY <2>3, ItemFields
    <3> HIDE DEF t
    <3> QED
      BY <3>1, MarkDirtyFields
  <2> HIDE DEF r
  <2> QED
    BY <2>3, <2>8, <2>9, <2>10
<1> QED
  BY <1>1, <1>2

\* An assistant turn ends, and its text is taken out (finish_assistant_turn).
LEMMA FitsAssistantTurn ==
  ASSUME NEW p, NEW before, Fits(p, before), NEW final \in BOOLEAN
  PROVE  LET q == Display!FinishAssistantTurn(p, final) IN
         Fits(q, before) /\ q.sequence = p.sequence /\ q.over = p.over
<1> DEFINE q == Display!FinishAssistantTurn(p, final)
<1>1. CASE final /\ p.active # 0
  <2> DEFINE r == Display!RemoveItem(p, p.active)
  <2>1. q = r
    BY <1>1 DEF Display!FinishAssistantTurn
  <2>2. p.active \in IdsOf(p.items)
    BY <1>1 DEF Fits, RefersToItems
  <2>3. /\ IsProjection(r) /\ r.items = Dropped(p.items, p.active) /\ r.next = p.next
        /\ r.sequence = p.sequence /\ r.active = 0 /\ r.open = p.open
        /\ r.dirty = Display!Clean(p.dirty, p.active)
        /\ r.published = p.published \ {p.active}
        /\ r.removed = IF p.active \in p.published THEN p.removed \cup {p.active} ELSE p.removed
        /\ r.closing = p.closing /\ r.over = p.over
    <3>1. IsProjection(p)
      BY DEF Fits
    <3> QED
      BY ONLY <3>1 DEF Display!RemoveItem, Dropped, IsProjection, ProjectionFields
  <2> HIDE DEF r
  <2>4. /\ ItemsFit(r.items, r.next, r.dirty, r.published, r.removed, before)
        /\ IdsOf(r.items) = IdsOf(p.items) \ {p.active}
    <3>1. ItemsFit(p.items, p.next, p.dirty, p.published, p.removed, before)
      BY DEF Fits
    <3> QED
      <4>1. /\ ItemsFit(Dropped(p.items, p.active), p.next, Display!Clean(p.dirty, p.active),
                        p.published \ {p.active},
                        IF p.active \in p.published THEN p.removed \cup {p.active} ELSE p.removed, before)
            /\ IdsOf(Dropped(p.items, p.active)) = IdsOf(p.items) \ {p.active}
        BY ONLY <2>2, <3>1, ItemRemoved, Zenon
      <4> QED
        BY ONLY <2>3, <4>1, Zenon
  <2>5. RefersToItems(r.items, r.active, r.open)
    BY <2>3, <2>4 DEF Fits, RefersToItems
  <2>6. Fits(r, before)
    BY <2>3, <2>4, <2>5 DEF Fits
  <2> QED
    BY <2>1, <2>3, <2>6
<1>2. CASE ~(final /\ p.active # 0)
  <2>1. q = [p EXCEPT !.active = 0]
    BY <1>2 DEF Display!FinishAssistantTurn
  <2>2. Fits([p EXCEPT !.active = 0], before)
    BY FitsActive
  <2>3. LET m == [p EXCEPT !.active = 0] IN m.sequence = p.sequence /\ m.over = p.over
    BY ActiveFields DEF Fits
  <2> QED
    BY <2>1, <2>2, <2>3
<1> QED
  BY <1>1, <1>2

\* The turn ends (finish).
LEMMA FitsConclude ==
  ASSUME NEW p, NEW before, Fits(p, before), NEW status \in ShownStatus
  PROVE  LET q == Display!Conclude(p, status) IN
         Fits(q, before) /\ q.sequence = p.sequence /\ q.over = TRUE /\ q.closing = TRUE
<1> DEFINE q == Display!Conclude(p, status)
           s == Display!Running(p)
<1>1. /\ IsProjection(q) /\ q.items = EndedItems(p.items, status)
      /\ q.next = p.next /\ q.sequence = p.sequence /\ q.active = 0 /\ q.open = p.open
      /\ q.dirty = WithIds(p.dirty, s)
      /\ q.published = p.published /\ q.removed = p.removed /\ q.closing = TRUE /\ q.over = TRUE
  <2>1. IsProjection(p)
    BY DEF Fits
  <2> QED
    BY ONLY <2>1, ConcludeFields, Zenon
<1>2. s = Display!Keeping(p.items,
            {i \in DOMAIN p.items : p.items[i].status = "running" /\ p.items[i].id \notin SetOf(p.dirty)})
  BY ShownSets DEF Display!Running
<1> HIDE DEF q, s
<1>3. /\ ItemsFit(q.items, q.next, q.dirty, q.published, q.removed, before)
      /\ IdsOf(q.items) = IdsOf(p.items)
  <2>1. ItemsFit(p.items, p.next, p.dirty, p.published, p.removed, before)
    BY DEF Fits
  <2>2. /\ ItemsFit(EndedItems(p.items, status), p.next,
                    WithIds(p.dirty, s), p.published, p.removed, before)
        /\ IdsOf(EndedItems(p.items, status)) = IdsOf(p.items)
    BY ONLY <1>2, <2>1, status \in ShownStatus, ItemsEnded, Zenon
  <2> QED
    BY ONLY <1>1, <2>2
<1>4. RefersToItems(q.items, q.active, q.open)
  BY <1>1, <1>3 DEF Fits, RefersToItems
<1>5. Fits(q, before)
  BY <1>1, <1>3, <1>4 DEF Fits
<1> QED
  BY <1>1, <1>5 DEF q

\* A patch is taken (take_patch).
LEMMA FitsTaken ==
  ASSUME NEW p, NEW before, Fits(p, before)
  PROVE  LET q == Display!Taken(p) IN
         /\ Fits(q, p.items) /\ q.sequence = p.sequence + 1 /\ q.over = p.over /\ q.items = p.items
<1> DEFINE q == Display!Taken(p)
<1>1. /\ IsProjection(q) /\ q.items = p.items /\ q.next = p.next /\ q.sequence = p.sequence + 1
      /\ q.active = p.active /\ q.open = p.open /\ q.dirty = <<>>
      /\ q.published = p.published \cup SetOf(p.dirty)
      /\ q.removed = {} /\ q.closing = FALSE /\ q.over = p.over
  BY TakenFields DEF Fits
<1> HIDE DEF q
<1>2. ItemsFit(q.items, q.next, q.dirty, q.published, q.removed, p.items)
  BY <1>1, ItemsTaken DEF Fits
<1>3. Fits(q, p.items)
  <2>1. q.sequence \in Nat /\ q.closing \in BOOLEAN /\ q.over \in BOOLEAN
    <3>1. p.sequence \in Nat /\ p.over \in BOOLEAN
      BY DEF Fits
    <3>2. q.sequence \in Nat
      BY <1>1, <3>1
    <3>3. q.closing \in BOOLEAN /\ q.over \in BOOLEAN
      BY <1>1, <3>1, Zenon
    <3> QED
      BY <3>2, <3>3
  <2>2. RefersToItems(q.items, q.active, q.open)
    BY <1>1 DEF Fits
  <2> QED
    BY <1>1, <1>2, <2>1, <2>2 DEF Fits
<1> QED
  BY <1>1, <1>3 DEF q

\* A new projection.
LEMMA EmptyFits == Fits(Display!Empty, <<>>)
<1> DEFINE e == Display!Empty
<1>1. /\ e.items = <<>> /\ e.next = 1 /\ e.sequence = 0 /\ e.active = 0
      /\ e.open = [k \in Tracked |-> 0] /\ e.dirty = <<>> /\ e.published = {} /\ e.removed = {}
      /\ e.closing = FALSE /\ e.over = FALSE
  BY DEF Display!Empty
<1>2. IsProjection(e)
  BY DEF Display!Empty, IsProjection, ProjectionFields
<1> HIDE DEF e
<1>3. /\ <<>> \in Seq(ShownItem) /\ <<>> \in Seq(Nat) /\ DOMAIN <<>> = {}
      /\ IdsOf(<<>>) = {} /\ SetOf(<<>>) = {} /\ Ascending(<<>>)
  BY DEF IdsOf, SetOf, Ascending
<1>4. ItemsFit(e.items, e.next, e.dirty, e.published, e.removed, <<>>)
  <2>1. ItemsFit(<<>>, 1, <<>>, {}, {}, <<>>)
    <3>1. 1 \in Nat /\ 1 > 0
      OBVIOUS
    <3> QED
      BY ONLY <1>3, <3>1, Zenon DEF ItemsFit
  <2> QED
    BY <1>1, <2>1
<1>5. RefersToItems(e.items, e.active, e.open)
  BY <1>1 DEF RefersToItems
<1>6. Fits(e, <<>>)
  <2>1. e.sequence \in Nat /\ e.closing \in BOOLEAN /\ e.over \in BOOLEAN
    <3>1. 0 \in Nat
      OBVIOUS
    <3> QED
      BY <1>1, <3>1, Zenon
  <2> QED
    BY <1>2, <1>4, <1>5, <2>1 DEF Fits
<1> QED
  BY <1>6 DEF e

\* A patch that is applied to the items of the patch before gives those of now.
LEMMA PatchFacts ==
  ASSUME NEW q, NEW before, Fits(q, before)
  PROVE  LET e == Display!Patch(q) IN
         /\ e.type = "patch" /\ e.sequence = q.sequence + 1 /\ e.finished = q.closing
         /\ Display!Upsert(Display!Without(before, e.remove), e.upsert) = q.items
<1> DEFINE e == Display!Patch(q)
           given == [k \in DOMAIN q.dirty |-> q.items[Display!At(q, q.dirty[k])]]
<1>1. /\ e.type = "patch" /\ e.sequence = q.sequence + 1 /\ e.remove = q.removed
      /\ e.finished = q.closing /\ e.upsert = given
  BY DEF Display!Patch
<1>2. ItemsFit(q.items, q.next, q.dirty, q.published, q.removed, before)
  BY DEF Fits
<1>3. q.dirty \in Seq(Nat) /\ q.items \in Seq(ShownItem) /\ SetOf(q.dirty) \subseteq IdsOf(q.items)
  BY <1>2 DEF ItemsFit
<1>4. \A k \in DOMAIN q.dirty : q.dirty[k] \in IdsOf(q.items)
  BY <1>3 DEF SetOf
<1>5. \A k \in DOMAIN q.dirty : LET i == Display!At(q, q.dirty[k]) IN
         i \in DOMAIN q.items /\ q.items[i].id = q.dirty[k] /\ given[k] = q.items[i]
  BY <1>4, AtFacts
<1>6. DOMAIN given = DOMAIN q.dirty
  OBVIOUS
<1>7. given \in Seq(ShownItem)
  <2>1. Len(q.dirty) \in Nat /\ DOMAIN q.dirty = 1..Len(q.dirty)
    BY <1>3
  <2>2. \A k \in DOMAIN q.dirty : given[k] \in ShownItem
    <3>1. \A i \in DOMAIN q.items : q.items[i] \in ShownItem
      BY <1>3
    <3> QED
      BY <1>5, <3>1
  <2>3. given = [k \in 1..Len(q.dirty) |-> given[k]]
    BY <2>1
  <2> HIDE DEF given
  <2> QED
    BY <2>1, <2>2, <2>3
<1> HIDE DEF given, e
<1>8. \A k \in DOMAIN q.dirty : given[k].id = q.dirty[k] /\ \E i \in DOMAIN q.items : given[k] = q.items[i]
  BY <1>5
<1>9. Display!Upsert(Display!Without(before, q.removed), given) = q.items
  BY ONLY <1>2, <1>6, <1>7, <1>8, PatchIsExact
<1> QED
  BY <1>1, <1>9, Zenon DEF e

\* Sequences, of whatever.
IsSequence(s) == \E S : s \in Seq(S)

LEMMA AppendToSequence ==
  ASSUME NEW s, IsSequence(s), NEW e
  PROVE  /\ IsSequence(Append(s, e)) /\ Len(s) \in Nat /\ DOMAIN s = 1..Len(s)
         /\ Len(Append(s, e)) = Len(s) + 1 /\ DOMAIN Append(s, e) = 1..(Len(s) + 1)
         /\ \A i \in DOMAIN s : Append(s, e)[i] = s[i]
         /\ Append(s, e)[Len(s) + 1] = e
<1>1. PICK S : s \in Seq(S)
  BY DEF IsSequence
<1>2. Len(s) \in Nat /\ DOMAIN s = 1..Len(s) /\ \A i \in 1..Len(s) : s[i] \in S \cup {e}
  BY <1>1
<1>3. s \in Seq(S \cup {e})
  <2>1. s = [i \in 1..Len(s) |-> s[i]]
    BY <1>1, <1>2
  <2> QED
    BY <1>2, <2>1
<1>4. Append(s, e) \in Seq(S \cup {e}) /\ Len(Append(s, e)) = Len(s) + 1
  BY <1>3
<1>5. IsSequence(Append(s, e)) /\ DOMAIN Append(s, e) = 1..(Len(s) + 1)
  <2>1. IsSequence(Append(s, e))
    BY <1>4, Zenon DEF IsSequence
  <2>2. DOMAIN Append(s, e) = 1..(Len(s) + 1)
    BY <1>3
  <2> QED
    BY <2>1, <2>2
<1> QED
  BY <1>2, <1>3, <1>4, <1>5

LEMMA RestOfSequence ==
  ASSUME NEW s, IsSequence(s), s # <<>>
  PROVE  /\ IsSequence(Tail(s)) /\ Len(s) \in Nat \ {0} /\ DOMAIN s = 1..Len(s)
         /\ Head(s) = s[1] /\ Len(Tail(s)) = Len(s) - 1 /\ DOMAIN Tail(s) = 1..(Len(s) - 1)
         /\ \A i \in 1..(Len(s) - 1) : Tail(s)[i] = s[i + 1]
<1>1. PICK S : s \in Seq(S)
  BY DEF IsSequence
<1>2. Tail(s) \in Seq(S) /\ Len(s) \in Nat \ {0} /\ Len(Tail(s)) = Len(s) - 1 /\ DOMAIN s = 1..Len(s)
  BY <1>1
<1>3. IsSequence(Tail(s)) /\ DOMAIN Tail(s) = 1..(Len(s) - 1)
  BY <1>2 DEF IsSequence
<1> QED
  BY <1>1, <1>2, <1>3

LEMMA AppendTwice ==
  ASSUME NEW s, IsSequence(s), NEW a, NEW b
  PROVE  s \o <<a, b>> = Append(Append(s, a), b)
<1>1. PICK S : s \in Seq(S)
  BY DEF IsSequence
<1>2. Len(s) \in Nat /\ DOMAIN s = 1..Len(s) /\ \A i \in 1..Len(s) : s[i] \in S \cup {a, b}
  BY <1>1
<1>3. s \in Seq(S \cup {a, b})
  <2>1. s = [i \in 1..Len(s) |-> s[i]]
    BY <1>1, <1>2
  <2> QED
    BY <1>2, <2>1
<1>4. <<a, b>> \in Seq(S \cup {a, b})
  OBVIOUS
<1> QED
  BY <1>3, <1>4

\* An event that was sent, of what the turn had then.
EventFits(e, p, t) ==
  /\ e.type \in {"snapshot", "patch"} /\ e.sequence \in Nat /\ e.sequence <= p.sequence
  /\ e.finished \in BOOLEAN
  /\ e.type = "snapshot" => e.items = t[e.sequence + 1]
  /\ e.type = "patch" =>
        /\ e.sequence > 0
        /\ Display!Upsert(Display!Without(t[e.sequence], e.remove), e.upsert) = t[e.sequence + 1]
  /\ p.over /\ e.sequence = p.sequence => e.finished

\* What the renderer holds is what the turn had at that patch.
StateFits(v, p, t) ==
  v # <<>> =>
     /\ v = [sequence |-> v.sequence, items |-> v.items, finished |-> v.finished]
     /\ v.sequence \in Nat /\ v.sequence <= p.sequence /\ v.finished \in BOOLEAN
     /\ v.items = t[v.sequence + 1]
     /\ p.over /\ v.sequence = p.sequence => v.finished

\* What it holds in the end.
Final(p) == [sequence |-> p.sequence, items |-> p.items, finished |-> TRUE]

\* The terminal snapshot comes last, or has come.
EndsExact(c, v, p) ==
  p.over => (c # <<>> /\ c[Len(c)] = Display!Snapshot(p)) \/ v = Final(p)

\* The inductive invariant of the progress: what is on the way and what is shown are
\* what the turn had when they were taken.
DisplayInv ==
  /\ Fits(projection, taken[Len(taken)])
  /\ IsSequence(taken) /\ Len(taken) = projection.sequence + 1
  /\ projection.over => projection.items = taken[Len(taken)]
  /\ IsSequence(channel)
  /\ \A i \in DOMAIN channel : EventFits(channel[i], projection, taken)
  /\ StateFits(view, projection, taken)
  /\ EndsExact(channel, view, projection)

\* It is what the property says.
LEMMA DisplayIsExact == DisplayInv => Display!ViewIsExact
<1> SUFFICES ASSUME DisplayInv
             PROVE  Display!ViewIsExact
  OBVIOUS
<1>1. view # <<>> => view.items = taken[view.sequence + 1]
  BY DEF DisplayInv, StateFits
<1>2. projection.over /\ channel = <<>> => view = Final(projection)
  BY DEF DisplayInv, EndsExact
<1> QED
  BY <1>1, <1>2, Zenon DEF Display!ViewIsExact, Final

\* It holds at the start.
LEMMA DisplayBegins == Display!ProgressInit => DisplayInv
<1> SUFFICES ASSUME Display!ProgressInit
             PROVE  DisplayInv
  OBVIOUS
<1> DEFINE e == Display!Snapshot(Display!Empty)
<1>1. projection = Display!Empty /\ channel = <<e>> /\ view = <<>> /\ taken = <<<<>>>>
  BY DEF Display!ProgressInit
<1>2. Fits(projection, <<>>)
  BY <1>1, EmptyFits
<1>3. projection.sequence = 0 /\ projection.items = <<>> /\ projection.over = FALSE
  BY <1>1 DEF Display!Empty
<1>4. e.type = "snapshot" /\ e.sequence = 0 /\ e.items = <<>> /\ e.finished = FALSE
  BY DEF Display!Snapshot, Display!Empty
<1> HIDE DEF e
<1>5. IsSequence(taken) /\ Len(taken) = 1 /\ taken[1] = <<>>
  <2>1. <<<<>>>> \in Seq({<<>>})
    OBVIOUS
  <2> QED
    BY <1>1, <2>1 DEF IsSequence
<1>6. IsSequence(channel) /\ DOMAIN channel = {1} /\ channel[1] = e
  <2>1. <<e>> \in Seq({e}) /\ DOMAIN <<e>> = {1} /\ <<e>>[1] = e
    OBVIOUS
  <2> QED
    BY <1>1, <2>1 DEF IsSequence
<1>7. EventFits(e, projection, taken)
  <2>1. e.finished \in BOOLEAN
    BY <1>4, Zenon
  <2>2. ~projection.over
    BY <1>3, Zenon
  <2> QED
    BY <1>3, <1>4, <1>5, <2>1, <2>2 DEF EventFits
<1>8. StateFits(view, projection, taken)
  BY <1>1 DEF StateFits
<1>9. ~projection.over
  BY <1>3, Zenon
<1> QED
  BY <1>2, <1>3, <1>5, <1>6, <1>7, <1>8, <1>9 DEF DisplayInv, EndsExact

\* Nothing is sent.
LEMMA DisplayKept ==
  ASSUME DisplayInv, NEW q, Fits(q, taken[Len(taken)]), q.sequence = projection.sequence,
         ~projection.over, ~q.over,
         projection' = q, UNCHANGED <<channel, taken, view>>
  PROVE  DisplayInv'
<1>1. \A i \in DOMAIN channel : EventFits(channel[i], q, taken)
  BY DEF DisplayInv, EventFits
<1>2. StateFits(view, q, taken)
  BY DEF DisplayInv, StateFits
<1> QED
  BY <1>1, <1>2 DEF DisplayInv, EndsExact

\* A patch is sent.
LEMMA EventsStay ==
  ASSUME DisplayInv, ~projection.over, NEW q, q.sequence = projection.sequence + 1, NEW items
  PROVE  /\ \A i \in DOMAIN channel : EventFits(channel[i], q, Append(taken, items))
         /\ StateFits(view, q, Append(taken, items))
<1> DEFINE t == Append(taken, items)
<1>1. /\ Len(taken) = projection.sequence + 1 /\ projection.sequence \in Nat
      /\ \A i \in 1..(projection.sequence + 1) : t[i] = taken[i]
  <2>1. IsSequence(taken) /\ Len(taken) = projection.sequence + 1 /\ projection.sequence \in Nat
    BY DEF DisplayInv, Fits
  <2> QED
    BY <2>1, AppendToSequence
<1> HIDE DEF t
<1>2. \A i \in DOMAIN channel : EventFits(channel[i], q, t)
  <2> SUFFICES ASSUME NEW i \in DOMAIN channel
               PROVE  EventFits(channel[i], q, t)
    OBVIOUS
  <2> DEFINE e == channel[i]
  <2>1. EventFits(e, projection, taken)
    BY DEF DisplayInv
  <2> HIDE DEF e
  <2>2. /\ e.sequence \in Nat /\ e.sequence <= projection.sequence
        /\ t[e.sequence + 1] = taken[e.sequence + 1]
        /\ e.sequence > 0 => t[e.sequence] = taken[e.sequence]
        /\ e.sequence <= q.sequence /\ e.sequence # q.sequence
    BY <1>1, <2>1 DEF EventFits
  <2>3. EventFits(e, q, t)
    BY <2>1, <2>2 DEF EventFits
  <2> QED
    BY <2>3 DEF e
<1>3. StateFits(view, q, t)
  <2> SUFFICES ASSUME view # <<>>
               PROVE  /\ view = [sequence |-> view.sequence, items |-> view.items, finished |-> view.finished]
                      /\ view.sequence \in Nat /\ view.sequence <= q.sequence /\ view.finished \in BOOLEAN
                      /\ view.items = t[view.sequence + 1]
                      /\ q.over /\ view.sequence = q.sequence => view.finished
    BY DEF StateFits
  <2>1. /\ view = [sequence |-> view.sequence, items |-> view.items, finished |-> view.finished]
        /\ view.sequence \in Nat /\ view.sequence <= projection.sequence /\ view.finished \in BOOLEAN
        /\ view.items = taken[view.sequence + 1]
    BY DEF DisplayInv, StateFits
  <2>2. view.sequence <= q.sequence /\ view.sequence # q.sequence
        /\ t[view.sequence + 1] = taken[view.sequence + 1]
    BY <1>1, <2>1
  <2> QED
    BY <2>1, <2>2
<1> QED
  BY <1>2, <1>3 DEF t

LEMMA PatchSent ==
  ASSUME DisplayInv, ~projection.over, NEW q, Fits(q, taken[Len(taken)]),
         q.sequence = projection.sequence, q.over => q.closing
  PROVE  LET p == Display!Taken(q)
             t == Append(taken, q.items)
         IN  /\ EventFits(Display!Patch(q), p, t)
             /\ Fits(p, t[Len(t)]) /\ IsSequence(t) /\ Len(t) = p.sequence + 1
             /\ p.items = t[Len(t)]
             /\ p.sequence = projection.sequence + 1 /\ p.over = q.over
<1> DEFINE p == Display!Taken(q)
           t == Append(taken, q.items)
           e == Display!Patch(q)
           n == Len(taken)
<1>1. IsSequence(taken) /\ n = projection.sequence + 1 /\ projection.sequence \in Nat /\ n \in Nat
  BY DEF DisplayInv, Fits
<1>2. IsSequence(t) /\ Len(t) = n + 1 /\ t[n + 1] = q.items /\ t[n] = taken[n]
  BY <1>1, AppendToSequence
<1>3. Fits(p, q.items) /\ p.sequence = q.sequence + 1 /\ p.over = q.over /\ p.items = q.items
  BY FitsTaken
<1>4. /\ e.type = "patch" /\ e.sequence = q.sequence + 1 /\ e.finished = q.closing
      /\ Display!Upsert(Display!Without(taken[n], e.remove), e.upsert) = q.items
  BY PatchFacts, Zenon
<1> HIDE DEF p, t, e, n
<1>5. e.sequence = n /\ p.sequence = n /\ e.sequence \in Nat /\ e.sequence > 0 /\ e.sequence <= p.sequence
  BY <1>1, <1>3, <1>4
<1>6. e.finished \in BOOLEAN /\ (p.over => e.finished)
  BY <1>3, <1>4, Zenon DEF Fits
<1>7. EventFits(e, p, t)
  BY <1>2, <1>4, <1>5, <1>6 DEF EventFits
<1>8. Len(t) = p.sequence + 1 /\ p.sequence = projection.sequence + 1 /\ Fits(p, t[Len(t)]) /\ p.items = t[Len(t)]
  BY <1>1, <1>2, <1>3, <1>5
<1> QED
  BY <1>2, <1>3, <1>7, <1>8, Zenon DEF p, t, e

\* An event of the turn is followed by a patch.
LEMMA DisplayEmits ==
  ASSUME DisplayInv, NEW q, Fits(q, taken[Len(taken)]), q.sequence = projection.sequence,
         ~projection.over, ~q.over, Display!Emit(q), view' = view
  PROVE  DisplayInv'
<1>1. CASE ~Display!HasPatch(q)
  <2>1. projection' = q /\ UNCHANGED <<channel, taken>>
    BY <1>1 DEF Display!Emit
  <2> QED
    BY <2>1, DisplayKept
<1>2. CASE Display!HasPatch(q)
  <2> DEFINE e == Display!Patch(q)
             p == Display!Taken(q)
             t == Append(taken, q.items)
             c == Append(channel, e)
  <2>1. projection' = p /\ channel' = c /\ taken' = t
    BY <1>2 DEF Display!Emit
  <2>2. /\ EventFits(e, p, t)
        /\ Fits(p, t[Len(t)]) /\ IsSequence(t) /\ Len(t) = p.sequence + 1
        /\ p.items = t[Len(t)]
        /\ p.sequence = projection.sequence + 1 /\ p.over = q.over
    BY PatchSent, Zenon
  <2> HIDE DEF e, p
  <2>3. (\A i \in DOMAIN channel : EventFits(channel[i], p, t)) /\ StateFits(view, p, t)
    BY <2>2, EventsStay
  <2> HIDE DEF t
  <2>4. IsSequence(channel)
    BY DEF DisplayInv
  <2>5. /\ IsSequence(c) /\ DOMAIN channel = 1..Len(channel) /\ DOMAIN c = 1..(Len(channel) + 1)
        /\ Len(channel) \in Nat
        /\ \A i \in DOMAIN channel : c[i] = channel[i]
        /\ c[Len(channel) + 1] = e
    BY <2>4, AppendToSequence
  <2> HIDE DEF c
  <2>6. \A i \in DOMAIN c : EventFits(c[i], p, t)
    <3>1. \A i \in DOMAIN c : i \in DOMAIN channel \/ i = Len(channel) + 1
      BY <2>5
    <3> QED
      BY <2>2, <2>3, <2>5, <3>1
  <2>7. ~p.over
    BY <2>2, Zenon
  <2> QED
    BY <2>1, <2>2, <2>3, <2>5, <2>6, <2>7 DEF DisplayInv, EndsExact
<1> QED
  BY <1>1, <1>2

\* The end of the turn is followed by a patch and the terminal snapshot.
LEMMA DisplayEnds ==
  ASSUME DisplayInv, NEW status \in ShownStatus, Display!TurnEnds(status), view' = view
  PROVE  DisplayInv'
<1> DEFINE q == Display!Conclude(projection, status)
           e == Display!Patch(q)
           p == Display!Taken(q)
           s == Display!Snapshot(p)
           t == Append(taken, q.items)
           d == Append(channel, e)
           c == Append(d, s)
<1>1. /\ ~projection.over /\ IsSequence(channel) /\ IsSequence(taken)
      /\ projection' = p /\ channel' = channel \o <<e, s>> /\ taken' = t
  BY DEF Display!TurnEnds, DisplayInv
<1>2. Fits(q, taken[Len(taken)]) /\ q.sequence = projection.sequence /\ q.over = TRUE /\ q.closing = TRUE
  BY FitsConclude DEF DisplayInv
<1> HIDE DEF q
<1>3. /\ EventFits(e, p, t)
      /\ Fits(p, t[Len(t)]) /\ IsSequence(t) /\ Len(t) = p.sequence + 1
      /\ p.items = t[Len(t)]
      /\ p.sequence = projection.sequence + 1 /\ p.over = q.over
  BY <1>1, <1>2, PatchSent, Zenon
<1> HIDE DEF e, p
<1>4. (\A i \in DOMAIN channel : EventFits(channel[i], p, t)) /\ StateFits(view, p, t)
  BY <1>1, <1>3, EventsStay
<1> HIDE DEF t
<1>5. /\ IsSequence(d) /\ DOMAIN channel = 1..Len(channel) /\ Len(d) = Len(channel) + 1
      /\ Len(channel) \in Nat
      /\ \A i \in DOMAIN channel : d[i] = channel[i]
      /\ d[Len(channel) + 1] = e
  BY <1>1, AppendToSequence
<1>6. channel' = c
  BY <1>1, AppendTwice
<1> HIDE DEF d
<1>7. /\ IsSequence(c) /\ DOMAIN c = 1..(Len(d) + 1) /\ Len(c) = Len(d) + 1 /\ DOMAIN d = 1..Len(d)
      /\ \A i \in DOMAIN d : c[i] = d[i]
      /\ c[Len(d) + 1] = s
  BY <1>5, AppendToSequence
<1>8. EventFits(s, p, t)
  <2>1. s.type = "snapshot" /\ s.sequence = p.sequence /\ s.items = p.items
    BY DEF Display!Snapshot
  <2>2. s.finished = p.over
    BY Zenon DEF Display!Snapshot
  <2>3. p.sequence \in Nat /\ p.over \in BOOLEAN
    BY <1>3 DEF Fits
  <2>4. s.finished \in BOOLEAN /\ (p.over => s.finished)
    BY <2>2, <2>3, Zenon
  <2>5. s.items = t[s.sequence + 1]
    BY <1>3, <2>1
  <2> HIDE DEF s
  <2> QED
    BY <2>1, <2>3, <2>4, <2>5 DEF EventFits
<1> HIDE DEF c, s
<1>9. \A i \in DOMAIN c : EventFits(c[i], p, t)
  <2>1. \A i \in DOMAIN c : i \in DOMAIN channel \/ i = Len(channel) + 1 \/ i = Len(d) + 1
    BY <1>5, <1>7
  <2>2. \A i \in DOMAIN channel : i \in DOMAIN d /\ c[i] = channel[i]
    BY <1>5, <1>7
  <2>3. c[Len(channel) + 1] = e
    BY <1>5, <1>7
  <2> QED
    BY <1>3, <1>4, <1>7, <1>8, <2>1, <2>2, <2>3
<1>10. EndsExact(c, view, p)
  <2>1. c # <<>>
    BY <1>5, <1>7
  <2> QED
    BY <1>7, <2>1 DEF EndsExact, s
<1> QED
  BY <1>1, <1>3, <1>4, <1>6, <1>7, <1>9, <1>10 DEF DisplayInv

\* What the turn does.
LEMMA DisplayStreams ==
  ASSUME DisplayInv, Display!Streams, view' = view
  PROVE  DisplayInv'
<1> DEFINE b == taken[Len(taken)]
<1>1. Fits(projection, b)
  BY DEF DisplayInv
<1>2. "succeeded" \in ShownStatus /\ "failed" \in ShownStatus /\ "stopped" \in ShownStatus
  BY DEF ShownStatus
<1> HIDE DEF b
<1>3. CASE Display!AssistantStarts
  <2> DEFINE q == Display!FinishAssistantTurn(projection, FALSE)
  <2>1. Fits(q, b) /\ q.sequence = projection.sequence /\ q.over = projection.over
    BY <1>1, FitsAssistantTurn, Zenon
  <2>2. ~projection.over /\ projection' = q /\ UNCHANGED <<channel, taken>>
    BY <1>3 DEF Display!AssistantStarts
  <2> HIDE DEF q
  <2>3. ~q.over
    BY <2>1, <2>2, Zenon
  <2> QED
    BY <2>1, <2>2, <2>3, DisplayKept DEF b
<1>4. CASE Display!TextDelta
  <2> DEFINE q == Display!AppendCommentary(projection)
  <2>1. Fits(q, b) /\ q.sequence = projection.sequence /\ q.over = projection.over
    BY <1>1, FitsCommentary, Zenon
  <2>2. ~projection.over /\ projection' = q /\ UNCHANGED <<channel, taken>>
    BY <1>4, Zenon DEF Display!TextDelta, Display!ProgressRoom
  <2> HIDE DEF q
  <2>3. ~q.over
    BY <2>1, <2>2, Zenon
  <2> QED
    BY <2>1, <2>2, <2>3, DisplayKept DEF b
<1>5. CASE \E final \in BOOLEAN : Display!MessageEnd(final)
  <2>1. PICK final \in BOOLEAN : Display!MessageEnd(final)
    BY <1>5
  <2> DEFINE q == Display!FinishAssistantTurn(projection, final)
  <2>2. Fits(q, b) /\ q.sequence = projection.sequence /\ q.over = projection.over
    BY <1>1, FitsAssistantTurn, Zenon
  <2>3. ~projection.over /\ Display!Emit(q)
    BY <2>1 DEF Display!MessageEnd
  <2> HIDE DEF q
  <2>4. ~q.over
    BY <2>2, <2>3, Zenon
  <2> QED
    BY <2>2, <2>3, <2>4, DisplayEmits DEF b
<1>6. CASE \E key \in Tracked : Display!WorkStarts(key)
  <2>1. PICK key \in Tracked : Display!WorkStarts(key)
    BY <1>6
  <2> DEFINE q == Display!Start(projection, key)
  <2>2. Fits(q, b) /\ q.sequence = projection.sequence /\ q.over = projection.over
    BY <1>1, FitsStart, Zenon
  <2>3. ~projection.over /\ Display!Emit(q)
    BY <2>1 DEF Display!WorkStarts, Display!ProgressRoom
  <2> HIDE DEF q
  <2>4. ~q.over
    BY <2>2, <2>3, Zenon
  <2> QED
    BY <2>2, <2>3, <2>4, DisplayEmits DEF b
<1>7. CASE \E key \in Tracked : Display!WorkEnds(key)
  <2>1. PICK key \in Tracked, status \in ShownStatus :
           ~projection.over /\ Display!Emit(Display!Finish(projection, key, status))
    BY <1>2, <1>7 DEF Display!WorkEnds
  <2> DEFINE q == Display!Finish(projection, key, status)
  <2>2. Fits(q, b) /\ q.sequence = projection.sequence /\ q.over = projection.over
    BY <1>1, FitsFinish, Zenon
  <2>3. ~projection.over /\ Display!Emit(q)
    BY <2>1
  <2> HIDE DEF q
  <2>4. ~q.over
    BY <2>2, <2>3, Zenon
  <2> QED
    BY <2>2, <2>3, <2>4, DisplayEmits DEF b
<1>8. CASE \E status \in {"stopped", "failed"} : Display!TurnEnds(status)
  <2>1. PICK status \in ShownStatus : Display!TurnEnds(status)
    BY <1>2, <1>8
  <2> QED
    BY <2>1, DisplayEnds
<1> QED
  BY <1>3, <1>4, <1>5, <1>6, <1>7, <1>8 DEF Display!Streams

\* What is left to receive.
LEMMA RestFits ==
  ASSUME DisplayInv, channel # <<>>
  PROVE  /\ IsSequence(Tail(channel)) /\ EventFits(Head(channel), projection, taken)
         /\ \A i \in DOMAIN Tail(channel) : EventFits(Tail(channel)[i], projection, taken)
         /\ Tail(channel) # <<>> => Tail(channel)[Len(Tail(channel))] = channel[Len(channel)]
         /\ Tail(channel) = <<>> => Head(channel) = channel[Len(channel)]
<1>1. IsSequence(channel) /\ \A i \in DOMAIN channel : EventFits(channel[i], projection, taken)
  BY DEF DisplayInv
<1> DEFINE c == Tail(channel)
           n == Len(channel)
<1>2. /\ IsSequence(c) /\ n \in Nat \ {0} /\ DOMAIN channel = 1..n
      /\ Head(channel) = channel[1] /\ Len(c) = n - 1 /\ DOMAIN c = 1..(n - 1)
      /\ \A i \in 1..(n - 1) : c[i] = channel[i + 1]
  BY <1>1, RestOfSequence
<1> HIDE DEF c, n
<1>3. \A i \in 1..(n - 1) : i + 1 \in 1..n
  BY <1>2
<1>4. \A i \in DOMAIN c : EventFits(c[i], projection, taken)
  BY <1>1, <1>2, <1>3
<1>5. EventFits(Head(channel), projection, taken)
  BY <1>1, <1>2
<1>6. c = <<>> <=> n = 1
  <2>1. PICK S : c \in Seq(S)
    BY <1>2 DEF IsSequence
  <2>2. c = <<>> <=> Len(c) = 0
    BY <2>1
  <2> QED
    BY <1>2, <2>2
<1>7. c # <<>> => c[Len(c)] = channel[n]
  BY <1>2, <1>6
<1>8. c = <<>> => Head(channel) = channel[n]
  BY <1>2, <1>6
<1> QED
  BY <1>2, <1>4, <1>5, <1>7, <1>8 DEF c, n

\* The renderer receives the next event (applyChatProgressPatch).
LEMMA DisplayReceives ==
  ASSUME DisplayInv, Display!Receive
  PROVE  DisplayInv'
<1> DEFINE e == Head(channel)
           c == Tail(channel)
<1>1. channel # <<>> /\ channel' = c /\ UNCHANGED <<projection, taken>>
  BY DEF Display!Receive
<1>2. /\ IsSequence(c) /\ EventFits(e, projection, taken)
      /\ \A i \in DOMAIN c : EventFits(c[i], projection, taken)
      /\ c # <<>> => c[Len(c)] = channel[Len(channel)]
      /\ c = <<>> => e = channel[Len(channel)]
  BY <1>1, RestFits
<1>3. view' = IF e.type = "snapshot" THEN Display!ApplySnapshot(view, e)
              ELSE Display!ApplyPatch(view, e)
  BY DEF Display!Receive
<1>4. StateFits(view, projection, taken) /\ EndsExact(channel, view, projection)
  BY DEF DisplayInv
<1> HIDE DEF e, c
<1> DEFINE r == [sequence |-> e.sequence, items |-> e.items, finished |-> e.finished]
           a == [sequence |-> e.sequence, finished |-> view.finished \/ e.finished,
                 items |-> Display!Upsert(Display!Without(view.items, e.remove), e.upsert)]
<1>5. CASE e.type = "snapshot" /\ (view = <<>> \/ ~(e.sequence <= view.sequence))
  <2>1. view' = r
    BY <1>3, <1>5, Zenon DEF Display!ApplySnapshot, Display!Shown
  <2>2. r.sequence = e.sequence /\ r.items = e.items
    OBVIOUS
  <2>3. r.finished = e.finished
    BY Zenon
  <2>4. r = [sequence |-> r.sequence, items |-> r.items, finished |-> r.finished]
    BY Zenon
  <2>5. r.finished \in BOOLEAN /\ (projection.over /\ r.sequence = projection.sequence => r.finished)
    BY <1>2, <2>2, <2>3, Zenon DEF EventFits
  <2>6. /\ r.sequence \in Nat /\ r.sequence <= projection.sequence
        /\ r.items = taken[r.sequence + 1]
    BY <1>2, <1>5, <2>2 DEF EventFits
  <2>7. StateFits(r, projection, taken)
    BY <2>4, <2>5, <2>6, Zenon DEF StateFits
  <2>8. ASSUME projection.over, e = Display!Snapshot(projection)
        PROVE  r = Final(projection)
    <3>1. e.sequence = projection.sequence /\ e.items = projection.items
      BY <2>8 DEF Display!Snapshot
    <3>2. e.finished = projection.over
      BY <2>8, Zenon DEF Display!Snapshot
    <3>3. projection.over \in BOOLEAN
      BY DEF DisplayInv, Fits
    <3>4. e.finished = TRUE
      BY <2>8, <3>2, <3>3, Zenon
    <3> QED
      BY <3>1, <3>4, Zenon DEF Final
  <2>9. EndsExact(c, r, projection)
    <3>1. CASE projection.over /\ view = Final(projection)
      \* A snapshot is never ahead of a view that is complete.
      <4>1. view.sequence = projection.sequence
        BY <3>1 DEF Final
      <4>2. view # <<>>
        BY <3>1 DEF Final
      <4>3. e.sequence \in Nat /\ e.sequence <= view.sequence
        BY <1>2, <4>1 DEF EventFits
      <4> QED
        BY <1>5, <4>2, <4>3
    <3>2. CASE projection.over /\ channel[Len(channel)] = Display!Snapshot(projection)
      BY <1>2, <2>8, <3>2 DEF EndsExact
    <3> QED
      BY <1>4, <3>1, <3>2 DEF EndsExact
  <2> HIDE DEF r
  <2> QED
    BY <1>1, <1>2, <2>1, <2>7, <2>9 DEF DisplayInv
<1>6. CASE e.type = "snapshot" /\ view # <<>> /\ e.sequence <= view.sequence
  <2>1. view' = view
    BY <1>3, <1>6, Zenon DEF Display!ApplySnapshot
  <2>2. ASSUME projection.over, e = Display!Snapshot(projection)
        PROVE  view = Final(projection)
    <3>1. e.sequence = projection.sequence
      BY <2>2 DEF Display!Snapshot
    <3>2. /\ view = [sequence |-> view.sequence, items |-> view.items, finished |-> view.finished]
          /\ view.sequence \in Nat /\ view.sequence <= projection.sequence
          /\ view.finished \in BOOLEAN /\ view.items = taken[view.sequence + 1]
          /\ projection.over /\ view.sequence = projection.sequence => view.finished
      BY <1>4, <1>6 DEF StateFits
    <3>3. view.sequence = projection.sequence
      BY <1>6, <3>1, <3>2 DEF DisplayInv, Fits
    <3>4. view.finished = TRUE
      BY <2>2, <3>2, <3>3, Zenon
    <3>5. view.items = projection.items
      BY <2>2, <3>2, <3>3 DEF DisplayInv
    <3> QED
      BY <3>2, <3>3, <3>4, <3>5, Zenon DEF Final
  <2>3. EndsExact(c, view, projection)
    BY <1>2, <1>4, <2>2 DEF EndsExact
  <2> QED
    BY <1>1, <1>2, <1>4, <2>1, <2>3 DEF DisplayInv
<1>7. CASE e.type # "snapshot" /\ (view = <<>> \/ e.sequence # view.sequence + 1)
  <2>1. view' = view
    BY <1>3, <1>7, Zenon DEF Display!ApplyPatch
  <2>2. e # Display!Snapshot(projection)
    BY <1>7 DEF Display!Snapshot
  <2>3. EndsExact(c, view, projection)
    BY <1>2, <1>4, <2>2 DEF EndsExact
  <2> QED
    BY <1>1, <1>2, <1>4, <2>1, <2>3 DEF DisplayInv
<1>8. CASE e.type # "snapshot" /\ view # <<>> /\ e.sequence = view.sequence + 1
  <2>1. view' = a
    BY <1>3, <1>8, Zenon DEF Display!ApplyPatch
  <2>2. a.sequence = e.sequence /\ a.items = Display!Upsert(Display!Without(view.items, e.remove), e.upsert)
    OBVIOUS
  <2>3. a.finished = (view.finished \/ e.finished)
    BY Zenon
  <2>4. a = [sequence |-> a.sequence, items |-> a.items, finished |-> a.finished]
    <3>1. [sequence |-> a.sequence, items |-> a.items, finished |-> a.finished] = a
      BY <2>2, <2>3, Zenon
    <3> QED
      BY <3>1
  <2>5. a.finished \in BOOLEAN /\ (projection.over /\ a.sequence = projection.sequence => a.finished)
    BY <1>2, <2>2, <2>3, Zenon DEF EventFits
  <2>6. /\ view.sequence \in Nat /\ view.sequence <= projection.sequence
        /\ view.items = taken[view.sequence + 1]
    BY <1>4, <1>8 DEF StateFits
  <2>7. /\ e.type = "patch" /\ e.sequence \in Nat /\ e.sequence <= projection.sequence
        /\ Display!Upsert(Display!Without(taken[e.sequence], e.remove), e.upsert) = taken[e.sequence + 1]
    BY <1>2, <1>8 DEF EventFits
  <2>8. a.sequence \in Nat /\ a.sequence <= projection.sequence /\ a.items = taken[a.sequence + 1]
    BY <1>8, <2>2, <2>6, <2>7
  <2>9. StateFits(a, projection, taken)
    BY <2>4, <2>5, <2>8, Zenon DEF StateFits
  <2>10. e # Display!Snapshot(projection)
    BY <1>8 DEF Display!Snapshot
  <2>11. ~(projection.over /\ view = Final(projection))
    <3> SUFFICES ASSUME projection.over, view = Final(projection)
                 PROVE  FALSE
      OBVIOUS
    <3>1. view.sequence = projection.sequence
      BY DEF Final
    <3> QED
      BY <1>8, <2>6, <2>7, <3>1
  <2>12. EndsExact(c, a, projection)
    BY <1>2, <1>4, <2>10, <2>11 DEF EndsExact
  <2> HIDE DEF a
  <2> QED
    BY <1>1, <1>2, <2>1, <2>9, <2>12 DEF DisplayInv
<1> QED
  BY <1>5, <1>6, <1>7, <1>8

\* An event is lost.
LEMMA DisplayMisses ==
  ASSUME DisplayInv, Display!Miss
  PROVE  DisplayInv'
<1> DEFINE e == Head(channel)
           c == Tail(channel)
<1>1. /\ channel # <<>> /\ channel' = c /\ UNCHANGED <<projection, taken, view>>
      /\ ~(e.type = "snapshot" /\ e.finished)
  BY DEF Display!Miss
<1>2. /\ IsSequence(c) /\ EventFits(e, projection, taken)
      /\ \A i \in DOMAIN c : EventFits(c[i], projection, taken)
      /\ c # <<>> => c[Len(c)] = channel[Len(channel)]
      /\ c = <<>> => e = channel[Len(channel)]
  BY <1>1, RestFits
<1> HIDE DEF e, c
<1>3. projection.over => e # Display!Snapshot(projection)
  <2> SUFFICES ASSUME projection.over, e = Display!Snapshot(projection)
               PROVE  FALSE
    OBVIOUS
  <2>1. e.type = "snapshot"
    BY DEF Display!Snapshot
  <2>2. e.finished = projection.over
    BY Zenon DEF Display!Snapshot
  <2> QED
    BY <1>1, <2>1, <2>2, Zenon
<1>4. StateFits(view, projection, taken) /\ EndsExact(channel, view, projection)
  BY DEF DisplayInv
<1>5. EndsExact(c, view, projection)
  BY <1>2, <1>3, <1>4 DEF EndsExact
<1> QED
  BY <1>1, <1>2, <1>4, <1>5 DEF DisplayInv

\* The other parts leave it alone.
LEMMA DisplayStays ==
  ASSUME DisplayInv, UNCHANGED display
  PROVE  DisplayInv'
BY DEF DisplayInv, display

\* And every step of this one keeps it.
LEMMA DisplaySteps ==
  ASSUME DisplayInv, Display!ProgressNext
  PROVE  DisplayInv'
BY DisplayStreams, DisplayReceives, DisplayMisses, Zenon DEF Display!ProgressNext

-----------------------------------------------------------------------------
\* Pages.  The tabs of each Chat, the pages they know and the webviews there are.

\* An opening that is under way.
OpeningRecord ==
  [stage : {"reserved", "added", "refused"}, tab : Page, visible : BOOLEAN,
   noted : BOOLEAN, heard : BOOLEAN]

\* The last flush of a panel that is gone.
LatePanel == [since : Nat, requests : SUBSET [page : Page, visible : BOOLEAN], hides : SUBSET Page]

TabsTyped ==
  /\ moves \in Nat
  /\ parting \in [panels : SUBSET LatePanel, undone : SUBSET Page]
  /\ session \in [Thread -> [tabs : Seq(Page), active : Page \cup {Unset}]]
  /\ page \in [Page -> Page \cup {Unset}]
  /\ panel \in [shown : Thread, mounted : BOOLEAN, open : BOOLEAN, menu : BOOLEAN]
  /\ opening \in [Page -> {Tabs!NoOpening} \cup OpeningRecord]
  /\ closing \in [Page -> {"no", "asked", "reset", "closed"}]
  /\ flush \in [dirty : BOOLEAN, requests : SUBSET [page : Page, visible : BOOLEAN],
                managed : SUBSET Page, met : SUBSET Page, sent : [Page -> SUBSET BOOLEAN]]
  /\ native \in [tabs : SUBSET Page, views : SUBSET Page, seen : SUBSET Page, lost : SUBSET Page]
  /\ leaving \subseteq Thread

OpeningOf(n) == opening[n].stage
Waits(n)     == opening[n].stage # "none"
There(n)     == n \in native.tabs /\ n \in native.views

\* A tab belongs to one Chat, and knows a page of its own.
TabsApart ==
  /\ \A c \in Thread : \A i, j \in DOMAIN session[c].tabs :
        session[c].tabs[i] = session[c].tabs[j] => i = j
  /\ \A c, d \in Thread : c # d => Tabs!TabsOf(c) \cap Tabs!TabsOf(d) = {}
  /\ \A c \in Thread : session[c].active \in Tabs!TabsOf(c) \cup {Unset}
  /\ \A t \in Page : t \notin Tabs!AllTabs => page[t] = Unset
  /\ \A t, u \in Page : page[t] = page[u] /\ page[t] # Unset => t = u

\* A page that is being opened is unknown, and one that nobody will hear of
\* stays so.
OpeningsApart ==
  /\ \A n \in Page : Waits(n) =>
        /\ n \notin flush.met /\ closing[n] \in {"no", "reset"}
        /\ \A t \in Page : page[t] # n
        /\ opening[n].heard => /\ closing[n] = "no" /\ n \notin native.lost
                               /\ OpeningOf(n) # "refused" => n \in native.tabs
  /\ \A n \in native.lost : n \notin flush.met /\ \A t \in Page : page[t] # n

\* The registry and the webviews, page by page.
Recorded(n) ==
  /\ OpeningOf(n) = "reserved" =>
        n \notin native.views /\ (n \in native.tabs <=> n \notin native.lost)
  /\ OpeningOf(n) # "reserved" /\ closing[n] \in {"no", "asked"} =>
        (n \in native.tabs <=> n \in native.views \ native.lost)
  /\ closing[n] = "reset" => n \notin native.tabs
  /\ closing[n] = "closed" => n \in native.tabs /\ n \notin native.views
  /\ n \in native.seen => n \in native.views
  /\ n \in native.lost => n \notin native.tabs

\* The page that a tab knows has a record, and nobody closes it.
KnownAreOpen ==
  \A c \in Thread : c \notin leaving =>
     \A t \in Tabs!TabsOf(c) : page[t] # Unset => page[t] \in native.tabs /\ closing[page[t]] = "no"

\* A panel that is gone is still to hide the page.
LateHidden(n) == \E p \in parting.panels : n \in p.hides \/ \E q \in p.requests : q.page = n /\ ~q.visible

\* What it still shows it is to hide afterwards.
LateFit == \A p \in parting.panels : \A q \in p.requests : q.visible => q.page \in p.hides

\* What was asked of the pages, and what they are like.
AsksFit ==
  /\ LateFit
  /\ flush.managed \subseteq flush.met
  /\ \A n \in Page : flush.sent[n] # {} => n \in flush.managed
  /\ \A q \in flush.requests :
        (q.visible => flush.sent[q.page] = {TRUE}) /\ (~q.visible => flush.sent[q.page] # {TRUE})
  /\ \A q, r \in flush.requests : q.page = r.page => q = r
  /\ \A n \in flush.met : n \in native.seen =>
        \/ flush.sent[n] = {TRUE} \/ closing[n] # "no" \/ LateHidden(n)
        \/ \E q \in flush.requests : q.page = n /\ ~q.visible
  /\ \A n \in Page : flush.sent[n] = {TRUE} =>
        \/ n \in native.seen \/ ~There(n) \/ n \in parting.undone
        \/ \E q \in flush.requests : q.page = n /\ q.visible

\* The page that the panel shows.
Front(n) ==
  /\ Tabs!Surface /\ session[panel.shown].active # Unset
  /\ n = page[session[panel.shown].active]

\* What was asked is what the panel shows, unless it is to ask again.
FrontAsked ==
  ~flush.dirty => \A n \in Page :
     /\ flush.sent[n] = {TRUE} => Front(n)
     /\ Front(n) => flush.sent[n] = {TRUE} \/ (flush.sent[n] = {} /\ ~There(n))

\* The registry keeps to its bound.
Bounded == IsFiniteSet(native.tabs) /\ Cardinality(native.tabs) <= MaxPages

\* The inductive invariant of the pages.
TabsInv ==
  /\ TabsTyped /\ TabsApart /\ OpeningsApart /\ (\A n \in Page : Recorded(n)) /\ KnownAreOpen
  /\ AsksFit /\ FrontAsked /\ Bounded

\* The cardinality that the model counts with is that of the library.
LEMMA PageCardinality == \A S : Tabs!Cardinality(S) = Cardinality(S)
BY DEF Tabs!Cardinality, Cardinality

\* What is true or false of the panel.
LEMMA PanelFields ==
  ASSUME TabsTyped
  PROVE  /\ panel.shown \in Thread /\ panel.mounted \in BOOLEAN /\ panel.open \in BOOLEAN /\ panel.menu \in BOOLEAN
         /\ flush.dirty \in BOOLEAN
BY Zenon DEF TabsTyped

\* To schedule a flush changes nothing but that one is due.
LEMMA ScheduleFields ==
  ASSUME TabsTyped, NEW changed, Tabs!Schedule(changed)
  PROVE  /\ flush'.requests = flush.requests /\ flush'.managed = flush.managed
         /\ flush'.met = flush.met /\ flush'.sent = flush.sent
BY DEF TabsTyped, Tabs!Schedule

LEMMA ScheduleDirty ==
  ASSUME TabsTyped, NEW changed, Tabs!Schedule(changed)
  PROVE  /\ ~flush'.dirty => ~flush.dirty /\ ~(changed /\ panel.mounted)
         /\ flush'.dirty \in BOOLEAN
BY Zenon DEF TabsTyped, Tabs!Schedule

\* The invariant is what the property needs.
LEMMA PagesAreExact == TabsInv => Tabs!PagesAreShown
<1> SUFFICES ASSUME TabsInv PROVE Tabs!PagesAreShown
  OBVIOUS
<1> USE DEF TabsInv
<1>1. Tabs!PagesAreCounted
  <2>1. Tabs!Cardinality(native.tabs) <= MaxPages
    BY PageCardinality DEF Bounded
  <2>2. ASSUME Tabs!Settled
        PROVE  /\ native.views \ native.lost = native.tabs
               /\ \A t \in Tabs!AllTabs : page[t] # Unset => page[t] \in native.tabs
    <3>1. \A n \in Page : (n \in native.tabs <=> n \in native.views \ native.lost)
      <4> TAKE n \in Page
      <4>1. closing[n] = "no" /\ OpeningOf(n) = "none"
        BY <2>2 DEF Tabs!Settled, Tabs!InFlight, OpeningOf
      <4>2. Recorded(n)
        OBVIOUS
      <4> QED
        BY <4>1, <4>2 DEF Recorded
    <3>2. native.tabs \subseteq Page /\ native.views \subseteq Page
      BY DEF TabsTyped
    <3>3. \A t \in Tabs!AllTabs : page[t] # Unset => page[t] \in native.tabs
      BY <2>2 DEF KnownAreOpen, Tabs!Settled, Tabs!AllTabs
    <3> QED
      BY <3>1, <3>2, <3>3
  <2> QED
    BY <2>1, <2>2 DEF Tabs!PagesAreCounted
<1>2. Tabs!SeenIsActive
  <2> SUFFICES ASSUME Tabs!Settled
               PROVE  /\ native.seen \cap flush.met \subseteq {n \in Page : Front(n)}
                      /\ \A n \in native.views \ parting.undone : Front(n) => n \in native.seen
    <3> DEFINE act == session[panel.shown].active
               fr == IF Tabs!Surface /\ act # Unset THEN {page[act]} ELSE {}
    <3>1. \A n : n \in fr <=> Front(n)
      BY DEF Front
    <3>2. native.views \subseteq Page
      BY DEF TabsTyped
    <3> QED
      BY <3>1, <3>2 DEF Tabs!SeenIsActive
  <2>1. /\ ~flush.dirty /\ flush.requests = {} /\ leaving = {} /\ \A n \in Page : closing[n] = "no"
        /\ \A n : ~LateHidden(n)
    BY DEF Tabs!Settled, LateHidden
  <2>2. \A n \in Page : (flush.sent[n] = {TRUE} => Front(n))
                        /\ (Front(n) => flush.sent[n] = {TRUE} \/ ~There(n))
    BY <2>1 DEF FrontAsked
  <2>3. flush.met \subseteq Page /\ native.views \subseteq Page
    BY DEF TabsTyped
  <2>4. native.seen \cap flush.met \subseteq {n \in Page : Front(n)}
    BY <2>1, <2>2, <2>3 DEF AsksFit
  <2>5. ASSUME NEW n \in native.views \ parting.undone, Front(n)
        PROVE  n \in native.seen
    <3>1. panel.shown \in Thread
      BY DEF TabsTyped
    <3>2. session[panel.shown].active \in Tabs!TabsOf(panel.shown)
      BY <2>5, <3>1 DEF TabsApart, Front
    <3>3. n \in Page /\ n # Unset
      BY <2>3, BrowserAssumption
    <3>4. n \in native.tabs
      BY <2>1, <2>5, <3>1, <3>2, <3>3 DEF KnownAreOpen, Front
    <3>5. flush.sent[n] = {TRUE}
      BY <2>2, <2>5, <3>3, <3>4 DEF There
    <3> QED
      BY <2>1, <3>3, <3>4, <3>5 DEF AsksFit, There
  <2> QED
    BY <2>4, <2>5
<1> QED
  BY <1>1, <1>2 DEF Tabs!PagesAreShown

\* No page is open at first.
LEMMA TabsBegin == Tabs!BrowserInit => TabsInv
<1> SUFFICES ASSUME Tabs!BrowserInit PROVE TabsInv
  OBVIOUS
<1>1. /\ \A c \in Thread : session[c].tabs = <<>> /\ session[c].active = Unset
      /\ \A t \in Page : page[t] = Unset
      /\ \A n \in Page : opening[n].stage = "none" /\ closing[n] = "no" /\ flush.sent[n] = {}
      /\ flush.requests = {} /\ flush.managed = {} /\ flush.met = {}
      /\ native.tabs = {} /\ native.views = {} /\ native.seen = {} /\ native.lost = {}
      /\ leaving = {} /\ parting = [panels |-> {}, undone |-> {}] /\ moves = 0
  BY DEF Tabs!BrowserInit, Tabs!NoOpening
<1>2. ~panel.open /\ panel.shown \in Thread
  BY BrowserAssumption DEF Tabs!BrowserInit
<1>3. \A c \in Thread : Tabs!TabsOf(c) = {}
  BY <1>1 DEF Tabs!TabsOf
<1>4. TabsTyped
  <2>1. session \in [Thread -> [tabs : Seq(Page), active : Page \cup {Unset}]]
    BY DEF Tabs!BrowserInit
  <2>2. page \in [Page -> Page \cup {Unset}]
    BY DEF Tabs!BrowserInit
  <2>3. panel \in [shown : Thread, mounted : BOOLEAN, open : BOOLEAN, menu : BOOLEAN]
    BY BrowserAssumption DEF Tabs!BrowserInit
  <2>4. opening \in [Page -> {Tabs!NoOpening}]
    BY DEF Tabs!BrowserInit
  <2>5. closing \in [Page -> {"no", "asked", "reset", "closed"}]
    BY DEF Tabs!BrowserInit
  <2>6. flush \in [dirty : BOOLEAN, requests : SUBSET [page : Page, visible : BOOLEAN],
                   managed : SUBSET Page, met : SUBSET Page, sent : [Page -> SUBSET BOOLEAN]]
    BY DEF Tabs!BrowserInit
  <2>7. native \in [tabs : SUBSET Page, views : SUBSET Page, seen : SUBSET Page, lost : SUBSET Page]
    BY DEF Tabs!BrowserInit
  <2>8. leaving \subseteq Thread
    BY DEF Tabs!BrowserInit
  <2>9. parting \in [panels : SUBSET LatePanel, undone : SUBSET Page] /\ moves \in Nat
    BY <1>1
  <2> QED
    BY <2>9, <2>1, <2>2, <2>3, <2>4, <2>5, <2>6, <2>7, <2>8 DEF TabsTyped
<1>5. TabsApart
  BY <1>1, <1>3 DEF TabsApart
<1>6. OpeningsApart
  BY <1>1 DEF OpeningsApart, Waits
<1>7. \A n \in Page : Recorded(n)
  BY <1>1 DEF Recorded, OpeningOf
<1>8. KnownAreOpen
  BY <1>3 DEF KnownAreOpen
<1>9. AsksFit
  BY <1>1 DEF AsksFit, LateFit
<1>10. FrontAsked
  BY <1>1, <1>2 DEF FrontAsked, Front
<1>11. Bounded
  BY <1>1, FS_EmptySet, BrowserAssumption DEF Bounded
<1> QED
  BY <1>4, <1>5, <1>6, <1>7, <1>8, <1>9, <1>10, <1>11 DEF TabsInv

-----------------------------------------------------------------------------
(* Types. *)

LEMMA ScheduleTyped ==
  ASSUME TabsTyped, NEW changed \in BOOLEAN, Tabs!Schedule(changed)
  PROVE  flush' \in [dirty : BOOLEAN, requests : SUBSET [page : Page, visible : BOOLEAN],
                     managed : SUBSET Page, met : SUBSET Page, sent : [Page -> SUBSET BOOLEAN]]
<1>1. (flush.dirty \/ (changed /\ panel.mounted)) \in BOOLEAN
  OBVIOUS
<1> QED
  BY <1>1 DEF TabsTyped, Tabs!Schedule

\* A Chat's tabs are pages.
LEMMA TabsArePages ==
  ASSUME TabsTyped, NEW c \in Thread
  PROVE  Tabs!TabsOf(c) \subseteq Page
<1>1. session[c].tabs \in Seq(Page)
  BY DEF TabsTyped
<1> QED
  BY <1>1 DEF Tabs!TabsOf

\* A new tab.
LEMMA OpenTyped ==
  ASSUME TabsTyped, NEW c \in Thread, Tabs!OpenTab(c)
  PROVE  TabsTyped'
<1>1. PICK t \in Page : session' = [session EXCEPT ![c] = [tabs |-> Append(@.tabs, t), active |-> t]]
  <2>1. Tabs!FreeTabs # {} /\ Tabs!FreeTabs \subseteq Page
    BY DEF Tabs!OpenTab, Tabs!FreeTabs
  <2>2. Tabs!First(Tabs!FreeTabs) \in Page
    BY <2>1 DEF Tabs!First
  <2> QED
    BY <2>2 DEF Tabs!OpenTab
<1>2. session' \in [Thread -> [tabs : Seq(Page), active : Page \cup {Unset}]]
  <2>1. session[c].tabs \in Seq(Page)
    BY DEF TabsTyped
  <2>2. Append(session[c].tabs, t) \in Seq(Page)
    BY <2>1
  <2> QED
    BY <1>1, <2>2 DEF TabsTyped
<1>3. panel' \in [shown : Thread, mounted : BOOLEAN, open : BOOLEAN, menu : BOOLEAN]
  BY DEF Tabs!OpenTab, TabsTyped
<1>4. flush' \in [dirty : BOOLEAN, requests : SUBSET [page : Page, visible : BOOLEAN],
                     managed : SUBSET Page, met : SUBSET Page, sent : [Page -> SUBSET BOOLEAN]]
  BY ScheduleTyped DEF Tabs!OpenTab
<1> QED
  BY <1>2, <1>3, <1>4 DEF TabsTyped, Tabs!OpenTab, Tabs!Moves

LEMMA OpeningIsRecord ==
  ASSUME TabsTyped, NEW n \in Page, opening[n].stage # "none"
  PROVE  opening[n] \in OpeningRecord
BY DEF TabsTyped, Tabs!NoOpening

LEMMA OpeningGoesOn ==
  ASSUME NEW o \in OpeningRecord
  PROVE  /\ [o EXCEPT !.noted = FALSE] \in OpeningRecord
         /\ [o EXCEPT !.noted = FALSE, !.heard = FALSE] \in OpeningRecord
         /\ [o EXCEPT !.stage = "added"] \in OpeningRecord
         /\ [o EXCEPT !.stage = "refused"] \in OpeningRecord
BY DEF OpeningRecord

\* Each step keeps the types.
LEMMA SelectTyped ==
  ASSUME TabsTyped, NEW t, Tabs!Select(t)
  PROVE  TabsTyped'
<1>0. t \in Page \cup {Unset}
  BY TabsArePages DEF Tabs!Select, TabsTyped
<1>1. session' \in [Thread -> [tabs : Seq(Page), active : Page \cup {Unset}]]
  <2>1. session \in [Thread -> [tabs : Seq(Page), active : Page \cup {Unset}]] /\ panel.shown \in Thread
    BY DEF TabsTyped
  <2>2. session' = [session EXCEPT ![panel.shown].active = t]
    BY DEF Tabs!Select
  <2> QED
    BY <1>0, <2>1, <2>2
<1>2. flush' \in [dirty : BOOLEAN, requests : SUBSET [page : Page, visible : BOOLEAN],
                  managed : SUBSET Page, met : SUBSET Page, sent : [Page -> SUBSET BOOLEAN]]
  BY ScheduleTyped DEF Tabs!Select
<1> QED
  BY <1>1, <1>2 DEF TabsTyped, Tabs!Select, Tabs!Move, Tabs!Moves

LEMMA ShowTyped ==
  ASSUME TabsTyped, NEW c \in Thread, Tabs!Show(c)
  PROVE  TabsTyped'
<1>2. flush' \in [dirty : BOOLEAN, requests : SUBSET [page : Page, visible : BOOLEAN],
                  managed : SUBSET Page, met : SUBSET Page, sent : [Page -> SUBSET BOOLEAN]]
  BY ScheduleTyped DEF Tabs!Show
<1>3. panel' \in [shown : Thread, mounted : BOOLEAN, open : BOOLEAN, menu : BOOLEAN]
  BY DEF TabsTyped, Tabs!Show
<1> QED
  BY <1>2, <1>3 DEF TabsTyped, Tabs!Show, Tabs!Move, Tabs!Moves

LEMMA ToggleTyped ==
  ASSUME TabsTyped, Tabs!Toggle
  PROVE  TabsTyped'
<1>2. flush' \in [dirty : BOOLEAN, requests : SUBSET [page : Page, visible : BOOLEAN],
                  managed : SUBSET Page, met : SUBSET Page, sent : [Page -> SUBSET BOOLEAN]]
  BY ScheduleTyped DEF Tabs!Toggle
<1>3. panel' \in [shown : Thread, mounted : BOOLEAN, open : BOOLEAN, menu : BOOLEAN]
  BY DEF TabsTyped, Tabs!Toggle
<1> QED
  BY <1>2, <1>3 DEF TabsTyped, Tabs!Toggle, Tabs!Move, Tabs!Moves

\* The pages that the Chat's tabs know.
Known(c) == {page[t] : t \in Tabs!TabsOf(c)} \ {Unset}

LEMMA KnownArePages ==
  ASSUME TabsTyped, NEW c \in Thread
  PROVE  Known(c) \subseteq Page
BY TabsArePages DEF Known, TabsTyped

\* What a panel that goes leaves behind: its requests, and that it is to hide
\* the pages that it has not hidden.
LEMMA LastFlush ==
  ASSUME TabsTyped, Tabs!Unmount, moves' \in Nat
  PROVE  \E l \in LatePanel :
           /\ l.requests = flush.requests
           /\ \A n \in flush.managed : flush.sent[n] # {FALSE} => n \in l.hides
           /\ \/ parting' = [parting EXCEPT !.panels = @ \cup {l}]
              \/ parting' = parting /\ flush.requests = {} /\ l.hides = {}
<1> DEFINE hides == {n \in Tabs!Current \cup Tabs!Removed(Tabs!Current) : flush.sent[n] # {FALSE}}
           l == [since |-> moves', requests |-> flush.requests, hides |-> hides]
<1>1. hides \subseteq Page /\ \A n \in flush.managed : flush.sent[n] # {FALSE} => n \in hides
  <2>1. panel.shown \in Thread /\ flush.managed \subseteq Page
    BY DEF TabsTyped
  <2>2. Tabs!Current = Known(panel.shown) /\ Tabs!Removed(Tabs!Current) = flush.managed \ Known(panel.shown)
    BY DEF Tabs!Current, Tabs!Removed, Known
  <2> QED
    BY <2>1, <2>2, KnownArePages
<1>2. l \in LatePanel /\ l.requests = flush.requests /\ l.hides = hides
  BY <1>1 DEF LatePanel, TabsTyped
<1>3. parting' = IF flush.requests = {} /\ hides = {} THEN parting
                 ELSE [parting EXCEPT !.panels = @ \cup {l}]
  BY Zenon DEF Tabs!Unmount
<1> HIDE DEF l, hides
<1> QED
  BY <1>1, <1>2, <1>3

LEMMA UnmountTyped ==
  ASSUME TabsTyped, Tabs!Unmount
  PROVE  TabsTyped'
<1>0. moves' \in Nat /\ UNCHANGED <<session, page, native, closing, leaving>>
  BY DEF TabsTyped, Tabs!Unmount, Tabs!Moves
<1>1. panel' \in [shown : Thread, mounted : BOOLEAN, open : BOOLEAN, menu : BOOLEAN]
  BY DEF TabsTyped, Tabs!Unmount
<1>2. flush' \in [dirty : BOOLEAN, requests : SUBSET [page : Page, visible : BOOLEAN],
                  managed : SUBSET Page, met : SUBSET Page, sent : [Page -> SUBSET BOOLEAN]]
  BY DEF TabsTyped, Tabs!Unmount
<1>3. opening' \in [Page -> {Tabs!NoOpening} \cup OpeningRecord]
  BY OpeningIsRecord, OpeningGoesOn, Zenon DEF TabsTyped, Tabs!Unmount, Tabs!InFlight
<1>4. parting' \in [panels : SUBSET LatePanel, undone : SUBSET Page]
  <2>1. PICK l \in LatePanel : parting' = parting \/ parting' = [parting EXCEPT !.panels = @ \cup {l}]
    BY <1>0, LastFlush
  <2> QED
    BY <2>1 DEF TabsTyped
<1> QED
  BY <1>0, <1>1, <1>2, <1>3, <1>4 DEF TabsTyped

LEMMA MountTyped ==
  ASSUME TabsTyped, Tabs!Mount
  PROVE  TabsTyped'
<1>1. panel' \in [shown : Thread, mounted : BOOLEAN, open : BOOLEAN, menu : BOOLEAN]
  BY DEF TabsTyped, Tabs!Mount
<1>2. flush' \in [dirty : BOOLEAN, requests : SUBSET [page : Page, visible : BOOLEAN],
                  managed : SUBSET Page, met : SUBSET Page, sent : [Page -> SUBSET BOOLEAN]]
  BY DEF TabsTyped, Tabs!Mount
<1> QED
  BY <1>1, <1>2 DEF TabsTyped, Tabs!Mount

LEMMA RemoveSessionTyped ==
  ASSUME TabsTyped, NEW c \in Thread, Tabs!RemoveSession(c)
  PROVE  TabsTyped'
BY DEF TabsTyped, Tabs!RemoveSession, Tabs!Moves

LEMMA DropTyped ==
  ASSUME TabsTyped, NEW c \in Thread, Tabs!DropSession(c)
  PROVE  TabsTyped'
<1>1. panel' \in [shown : Thread, mounted : BOOLEAN, open : BOOLEAN, menu : BOOLEAN]
  BY DEF TabsTyped, Tabs!DropSession
<1>2. flush' \in [dirty : BOOLEAN, requests : SUBSET [page : Page, visible : BOOLEAN],
                  managed : SUBSET Page, met : SUBSET Page, sent : [Page -> SUBSET BOOLEAN]]
  BY ScheduleTyped DEF Tabs!DropSession
<1>3. session' \in [Thread -> [tabs : Seq(Page), active : Page \cup {Unset}]]
  BY DEF TabsTyped, Tabs!DropSession
<1>4. page' \in [Page -> Page \cup {Unset}]
  BY DEF TabsTyped, Tabs!DropSession
<1>5. leaving' \subseteq Thread
  BY DEF TabsTyped, Tabs!DropSession
<1> QED
  BY <1>1, <1>2, <1>3, <1>4, <1>5 DEF TabsTyped, Tabs!DropSession

LEMMA ReloadTyped ==
  ASSUME TabsTyped, Tabs!Reload
  PROVE  TabsTyped'
<1>1. panel' \in [shown : Thread, mounted : BOOLEAN, open : BOOLEAN, menu : BOOLEAN]
  BY Zenon DEF TabsTyped, Tabs!Reload
<1>2. flush' \in [dirty : BOOLEAN, requests : SUBSET [page : Page, visible : BOOLEAN],
                  managed : SUBSET Page, met : SUBSET Page, sent : [Page -> SUBSET BOOLEAN]]
  BY Zenon DEF TabsTyped, Tabs!Reload
<1>3. session' \in [Thread -> [tabs : Seq(Page), active : Page \cup {Unset}]]
  <2>1. <<>> \in Seq(Page)
    OBVIOUS
  <2> QED
    BY <2>1, Zenon DEF Tabs!Reload
<1>4. page' \in [Page -> Page \cup {Unset}]
  BY Zenon DEF TabsTyped, Tabs!Reload
<1>5. leaving' \subseteq Thread
  BY Zenon DEF TabsTyped, Tabs!Reload
<1>6. opening' \in [Page -> {Tabs!NoOpening} \cup OpeningRecord]
  BY OpeningIsRecord, OpeningGoesOn, Zenon DEF TabsTyped, Tabs!Reload, Tabs!InFlight
<1>7. native' \in [tabs : SUBSET Page, views : SUBSET Page, seen : SUBSET Page, lost : SUBSET Page]
  BY Zenon DEF TabsTyped, Tabs!Reload
<1>8. closing' \in [Page -> {"no", "asked", "reset", "closed"}]
  BY Zenon DEF TabsTyped, Tabs!Reload
<1>9. parting' \in [panels : SUBSET LatePanel, undone : SUBSET Page]
  <2>1. parting' = [parting EXCEPT !.panels = {}]
    BY Zenon DEF Tabs!Reload
  <2> QED
    BY <2>1 DEF TabsTyped
<1>10. moves' \in Nat
  <2>1. moves' = moves + 1
    BY Zenon DEF Tabs!Reload, Tabs!Moves
  <2> QED
    BY <2>1 DEF TabsTyped
<1> QED
  BY <1>9, <1>10, <1>1, <1>2, <1>3, <1>4, <1>5, <1>6, <1>7, <1>8 DEF TabsTyped

LEMMA AddTyped ==
  ASSUME TabsTyped, NEW n \in Page, Tabs!AddChild(n)
  PROVE  TabsTyped'
<1>1. opening' \in [Page -> {Tabs!NoOpening} \cup OpeningRecord]
  BY OpeningIsRecord, OpeningGoesOn, Zenon DEF TabsTyped, Tabs!AddChild, Tabs!Advance
<1>2. native' \in [tabs : SUBSET Page, views : SUBSET Page, seen : SUBSET Page, lost : SUBSET Page]
  BY DEF TabsTyped, Tabs!AddChild
<1> QED
  BY <1>1, <1>2 DEF TabsTyped, Tabs!AddChild, Tabs!Advance

LEMMA FailsTyped ==
  ASSUME TabsTyped, NEW n \in Page, Tabs!AddFails(n)
  PROVE  TabsTyped'
<1>1. opening' \in [Page -> {Tabs!NoOpening} \cup OpeningRecord]
  BY OpeningIsRecord, OpeningGoesOn, Zenon DEF TabsTyped, Tabs!AddFails, Tabs!Advance
<1>2. native' \in [tabs : SUBSET Page, views : SUBSET Page, seen : SUBSET Page, lost : SUBSET Page]
  BY DEF TabsTyped, Tabs!AddFails
<1> QED
  BY <1>1, <1>2 DEF TabsTyped, Tabs!AddFails, Tabs!Advance

LEMMA AnswerTyped ==
  ASSUME TabsTyped, NEW n \in Page, Tabs!Answer(n)
  PROVE  TabsTyped'
<1>0. opening[n].heard \in BOOLEAN /\ opening[n].tab \in Page
  <2>1. opening[n] \in OpeningRecord
    BY OpeningIsRecord DEF Tabs!Answer
  <2> QED
    BY <2>1, Zenon DEF OpeningRecord
<1>1. opening' \in [Page -> {Tabs!NoOpening} \cup OpeningRecord]
  BY DEF TabsTyped, Tabs!Answer, Tabs!NoOpening
<1>2. page' \in [Page -> Page \cup {Unset}]
  BY <1>0 DEF TabsTyped, Tabs!Answer
<1>3. flush' \in [dirty : BOOLEAN, requests : SUBSET [page : Page, visible : BOOLEAN],
                  managed : SUBSET Page, met : SUBSET Page, sent : [Page -> SUBSET BOOLEAN]]
  <2>1. ((opening[n].heard /\ opening[n].tab \in Tabs!AllTabs)
            /\ opening[n].tab \in Tabs!TabsOf(panel.shown)) \in BOOLEAN
    BY <1>0
  <2> QED
    BY <2>1, ScheduleTyped DEF Tabs!Answer
<1> QED
  BY <1>1, <1>2, <1>3 DEF TabsTyped, Tabs!Answer

LEMMA SetTyped ==
  ASSUME TabsTyped, NEW q, Tabs!SetBounds(q)
  PROVE  TabsTyped'
<1>0. q \in flush.requests /\ q.page \in Page
  BY DEF TabsTyped, Tabs!SetBounds
<1>1. native' \in [tabs : SUBSET Page, views : SUBSET Page, seen : SUBSET Page, lost : SUBSET Page]
  BY <1>0 DEF TabsTyped, Tabs!SetBounds, Tabs!IsThere
<1>2. flush' \in [dirty : BOOLEAN, requests : SUBSET [page : Page, visible : BOOLEAN],
                  managed : SUBSET Page, met : SUBSET Page, sent : [Page -> SUBSET BOOLEAN]]
  BY <1>0 DEF TabsTyped, Tabs!SetBounds
<1>3. parting' \in [panels : SUBSET LatePanel, undone : SUBSET Page]
  BY DEF TabsTyped, Tabs!SetBounds
<1> QED
  BY <1>3, <1>1, <1>2 DEF TabsTyped, Tabs!SetBounds

LEMMA CloseViewTyped ==
  ASSUME TabsTyped, NEW n \in Page, Tabs!CloseView(n)
  PROVE  TabsTyped'
<1>1. native' \in [tabs : SUBSET Page, views : SUBSET Page, seen : SUBSET Page, lost : SUBSET Page]
  BY DEF TabsTyped, Tabs!CloseView
<1>2. closing' \in [Page -> {"no", "asked", "reset", "closed"}]
  BY DEF TabsTyped, Tabs!CloseView
<1> QED
  BY <1>1, <1>2 DEF TabsTyped, Tabs!CloseView

LEMMA RemoveRecordTyped ==
  ASSUME TabsTyped, NEW n \in Page, Tabs!RemoveRecord(n)
  PROVE  TabsTyped'
<1>1. native' \in [tabs : SUBSET Page, views : SUBSET Page, seen : SUBSET Page, lost : SUBSET Page]
  BY DEF TabsTyped, Tabs!RemoveRecord
<1>2. closing' \in [Page -> {"no", "asked", "reset", "closed"}]
  BY DEF TabsTyped, Tabs!RemoveRecord
<1> QED
  BY <1>1, <1>2 DEF TabsTyped, Tabs!RemoveRecord

TabAt(s, t)    == CHOOSE i \in DOMAIN s : s[i] = t
WithoutAt(s, at) == SubSeq(s, 1, at - 1) \o SubSeq(s, at + 1, Len(s))

\* A sequence without the element at one position.
LEMMA WithoutAtFacts ==
  ASSUME NEW S, NEW s \in Seq(S), NEW at \in 1..Len(s)
  PROVE  /\ WithoutAt(s, at) \in Seq(S) /\ Len(WithoutAt(s, at)) = Len(s) - 1
         /\ \A i \in 1..(Len(s) - 1) : WithoutAt(s, at)[i] = IF i < at THEN s[i] ELSE s[i + 1]
<1>1. at - 1 \in Nat /\ at + 1 \in Nat /\ Len(s) \in Nat /\ at <= Len(s)
  OBVIOUS
<1>2. SubSeq(s, 1, at - 1) \in Seq(S) /\ Len(SubSeq(s, 1, at - 1)) = at - 1
      /\ \A i \in 1..(at - 1) : SubSeq(s, 1, at - 1)[i] = s[i]
  <2>1. \A i \in 1..(at - 1) : s[i] \in S
    BY <1>1
  <2> QED
    BY <1>1, <2>1
<1>3. SubSeq(s, at + 1, Len(s)) \in Seq(S) /\ Len(SubSeq(s, at + 1, Len(s))) = Len(s) - at
      /\ \A i \in 1..(Len(s) - at) : SubSeq(s, at + 1, Len(s))[i] = s[at + i]
  <2>1. \A i \in (at + 1)..Len(s) : s[i] \in S
    BY <1>1
  <2> QED
    BY <1>1, <2>1
<1> DEFINE a == SubSeq(s, 1, at - 1)
           b == SubSeq(s, at + 1, Len(s))
           w == WithoutAt(s, at)
<1>4. w = a \o b /\ a \in Seq(S) /\ b \in Seq(S) /\ Len(a) = at - 1 /\ Len(b) = Len(s) - at
  BY <1>2, <1>3 DEF WithoutAt
<1>5. /\ \A i \in 1..(at - 1) : a[i] = s[i]
      /\ \A i \in 1..(Len(s) - at) : b[i] = s[at + i]
  BY <1>2, <1>3
<1> HIDE DEF a, b, w
<1>6. w \in Seq(S) /\ Len(w) = Len(s) - 1
  <2>1. a \o b \in Seq(S) /\ Len(a \o b) = Len(a) + Len(b)
    BY ONLY <1>4, ConcatProperties
  <2> QED
    BY <1>1, <1>4, <2>1
<1>7. ASSUME NEW i \in 1..(Len(s) - 1)
      PROVE  w[i] = IF i < at THEN s[i] ELSE s[i + 1]
  <2>1. CASE i < at
    <3>1. w[i] = a[i]
      BY <1>1, <1>4, <2>1
    <3> QED
      BY <1>1, <1>5, <2>1, <3>1
  <2>2. CASE ~(i < at)
    <3>1. w[i] = b[i - (at - 1)]
      BY <1>1, <1>4, <2>2
    <3>2. i - (at - 1) \in 1..(Len(s) - at) /\ at + (i - (at - 1)) = i + 1
      BY <1>1, <2>2
    <3> QED
      BY <1>5, <2>2, <3>1, <3>2
  <2> QED
    BY <2>1, <2>2
<1> QED
  BY <1>6, <1>7 DEF w

\* What is left of a Chat's tabs when one is closed.
LEMMA CloseTabs ==
  ASSUME TabsTyped, TabsApart, NEW t \in Page, Tabs!CloseTab(t)
  PROVE  /\ panel.shown \in Thread /\ panel.mounted /\ t \in Tabs!TabsOf(panel.shown)
         /\ session'[panel.shown].tabs \in Seq(Page)
         /\ Tabs!TabsOf(panel.shown)' = Tabs!TabsOf(panel.shown) \ {t}
         /\ \A i, j \in DOMAIN session'[panel.shown].tabs :
               session'[panel.shown].tabs[i] = session'[panel.shown].tabs[j] => i = j
         /\ session'[panel.shown].active \in Tabs!TabsOf(panel.shown)' \cup {Unset}
         /\ \A d \in Thread : d # panel.shown => session'[d] = session[d]
         /\ session' = [session EXCEPT ![panel.shown] = session'[panel.shown]]
         /\ session'[panel.shown] \in [tabs : Seq(Page), active : Page \cup {Unset}]
<1> DEFINE c == panel.shown
           s == session[c].tabs
           at == TabAt(s, t)
           rest == WithoutAt(s, at)
           act == IF session[c].active # t THEN session[c].active
                  ELSE IF rest = <<>> THEN Unset
                  ELSE rest[IF at > Len(rest) THEN Len(rest) ELSE at]
<1>1. c \in Thread /\ t \in Tabs!TabsOf(c) /\ panel.mounted
  BY Zenon DEF TabsTyped, Tabs!CloseTab
<1>2. session' = [session EXCEPT ![c] = [tabs |-> rest, active |-> act]]
  BY Zenon DEF Tabs!CloseTab, TabAt, WithoutAt
<1>3. s \in Seq(Page) /\ session[c].active \in Page \cup {Unset}
  BY <1>1 DEF TabsTyped
<1>4. at \in 1..Len(s) /\ s[at] = t
  <2>1. \E i \in DOMAIN s : s[i] = t
    BY <1>1 DEF Tabs!TabsOf
  <2>2. at \in DOMAIN s /\ s[at] = t
    BY <2>1 DEF TabAt
  <2> QED
    BY <1>3, <2>2
<1>5. /\ rest \in Seq(Page) /\ Len(rest) = Len(s) - 1
      /\ \A i \in 1..(Len(s) - 1) : rest[i] = IF i < at THEN s[i] ELSE s[i + 1]
  <2> HIDE DEF at, s, rest
  <2> QED
    BY <1>3, <1>4, WithoutAtFacts DEF rest
<1>6. session'[c].tabs = rest /\ session'[c].active = act
  BY <1>1, <1>2 DEF TabsTyped
<1>7. \A i, j \in 1..Len(s) : s[i] = s[j] => i = j
  BY <1>1, <1>3 DEF TabsApart
<1> HIDE DEF at, s, rest
<1>8. {rest[i] : i \in DOMAIN rest} = {s[i] : i \in DOMAIN s} \ {t}
  <2>0. DOMAIN rest = 1..(Len(s) - 1) /\ DOMAIN s = 1..Len(s) /\ Len(s) \in Nat
    BY <1>3, <1>5
  <2>1. ASSUME NEW i \in 1..(Len(s) - 1)
        PROVE  rest[i] \in {s[k] : k \in DOMAIN s} \ {t}
    <3>1. i \in 1..Len(s) /\ i + 1 \in 1..Len(s)
      BY <2>0
    <3>2. CASE i < at
      BY <1>4, <1>5, <1>7, <2>0, <3>1, <3>2
    <3>3. CASE ~(i < at)
      BY <1>4, <1>5, <1>7, <2>0, <3>1, <3>3
    <3> QED
      BY <3>2, <3>3
  <2>2. ASSUME NEW k \in 1..Len(s), s[k] # t
        PROVE  \E i \in 1..(Len(s) - 1) : rest[i] = s[k]
    <3>1. CASE k < at
      BY <1>4, <1>5, <2>0, <3>1
    <3>2. CASE k > at
      <4>1. k - 1 \in 1..(Len(s) - 1) /\ ~(k - 1 < at) /\ (k - 1) + 1 = k
        BY <1>4, <2>0, <3>2
      <4> QED
        BY <1>5, <4>1
    <3>3. k # at
      BY <1>4, <2>2
    <3> QED
      BY <1>4, <2>0, <3>1, <3>2, <3>3
  <2> QED
    BY <2>0, <2>1, <2>2, Zenon
<1>9. \A i, j \in DOMAIN rest : rest[i] = rest[j] => i = j
  <2>0. DOMAIN rest = 1..(Len(s) - 1) /\ Len(s) \in Nat
    BY <1>3, <1>5
  <2>1. ASSUME NEW i \in 1..(Len(s) - 1), NEW j \in 1..(Len(s) - 1), i < j
        PROVE  rest[i] # rest[j]
    <3>1. i \in 1..Len(s) /\ j \in 1..Len(s) /\ i + 1 \in 1..Len(s) /\ j + 1 \in 1..Len(s)
          /\ i # j /\ i + 1 # j + 1 /\ i # j + 1
      BY <2>0, <2>1
    <3>2. CASE i < at /\ j < at
      BY <1>5, <1>7, <3>1, <3>2
    <3>3. CASE i < at /\ ~(j < at)
      BY <1>5, <1>7, <3>1, <3>3
    <3>4. CASE ~(i < at) /\ ~(j < at)
      BY <1>5, <1>7, <3>1, <3>4
    <3> QED
      BY <1>4, <2>0, <2>1, <3>2, <3>3, <3>4
  <2>2. ASSUME NEW i \in DOMAIN rest, NEW j \in DOMAIN rest, rest[i] = rest[j], i # j
        PROVE  FALSE
    <3>1. i < j \/ j < i
      BY <2>0, <2>2
    <3> QED
      BY <2>0, <2>1, <2>2, <3>1
  <2> QED
    BY <2>2
<1>10. act \in {rest[i] : i \in DOMAIN rest} \cup {Unset}
  <2>1. CASE session[c].active # t
    <3>1. session[c].active \in {s[i] : i \in DOMAIN s} \cup {Unset}
      BY <1>1 DEF TabsApart, Tabs!TabsOf, s
    <3>2. act = session[c].active
      BY <2>1
    <3>3. act \in ({s[i] : i \in DOMAIN s} \ {t}) \cup {Unset}
      BY <2>1, <3>1, <3>2
    <3> QED
      BY ONLY <1>8, <3>3
  <2>2. CASE session[c].active = t /\ rest = <<>>
    <3>1. act = Unset
      BY <2>2
    <3> QED
      BY <3>1
  <2>3. CASE session[c].active = t /\ rest # <<>>
    <3>1. Len(rest) \in Nat /\ Len(rest) # 0 /\ DOMAIN rest = 1..Len(rest)
      BY <1>5, <2>3
    <3>2. CASE at > Len(rest)
      <4>1. act = rest[Len(rest)]
        BY <2>3, <3>2
      <4> QED
        BY <3>1, <4>1
    <3>3. CASE ~(at > Len(rest))
      <4>1. act = rest[at]
        BY <2>3, <3>3
      <4> QED
        BY <1>4, <3>1, <3>3, <4>1
    <3> QED
      BY <3>2, <3>3
  <2> QED
    BY <2>1, <2>2, <2>3
<1> HIDE DEF act
<1>11. Tabs!TabsOf(c)' = {rest[i] : i \in DOMAIN rest}
  <2>1. Tabs!TabsOf(c)' = {session'[c].tabs[i] : i \in DOMAIN session'[c].tabs}
    <3>1. \A d : Tabs!TabsOf(d)' = {session'[d].tabs[i] : i \in DOMAIN session'[d].tabs}
      BY DEF Tabs!TabsOf
    <3>2. panel'.shown = panel.shown
      BY Zenon DEF Tabs!CloseTab, TabsTyped
    <3> QED
      BY <3>1, <3>2
  <2> QED
    BY <1>6, <2>1
<1>12. Tabs!TabsOf(c) = {s[i] : i \in DOMAIN s}
  BY DEF Tabs!TabsOf, s
<1>13. \A d \in Thread : d # c => session'[d] = session[d]
  BY <1>1, <1>2 DEF TabsTyped
<1>14. session'[c] = [tabs |-> rest, active |-> act]
  BY <1>1, <1>2 DEF TabsTyped
<1>15. act \in Page \cup {Unset}
  <2>1. \A i \in DOMAIN rest : rest[i] \in Page
    BY <1>5
  <2> QED
    BY <1>10, <2>1
<1> QED
  BY <1>1, <1>2, <1>5, <1>6, <1>8, <1>9, <1>10, <1>11, <1>12, <1>13, <1>14, <1>15, Zenon

\* The types, when a tab is closed.
LEMMA CloseTyped ==
  ASSUME TabsTyped, TabsApart, NEW t \in Page, Tabs!CloseTab(t)
  PROVE  TabsTyped'
<1>1. session' \in [Thread -> [tabs : Seq(Page), active : Page \cup {Unset}]]
  BY CloseTabs, Zenon DEF TabsTyped
<1>2. page' \in [Page -> Page \cup {Unset}]
  BY Zenon DEF TabsTyped, Tabs!CloseTab
<1>3. closing' \in [Page -> {"no", "asked", "reset", "closed"}]
  BY Zenon DEF TabsTyped, Tabs!CloseTab
<1>4. panel' \in [shown : Thread, mounted : BOOLEAN, open : BOOLEAN, menu : BOOLEAN]
  <2>1. PICK b \in BOOLEAN : panel' = [panel EXCEPT !.open = b]
    BY PanelFields, Zenon DEF Tabs!CloseTab
  <2> QED
    BY <2>1, Zenon DEF TabsTyped
<1>5. flush' \in [dirty : BOOLEAN, requests : SUBSET [page : Page, visible : BOOLEAN],
                  managed : SUBSET Page, met : SUBSET Page, sent : [Page -> SUBSET BOOLEAN]]
  BY ScheduleTyped, Zenon DEF Tabs!CloseTab
<1>6. UNCHANGED <<opening, parting, native, leaving>>
  BY Zenon DEF Tabs!CloseTab
<1>7. moves' \in Nat
  <2>1. moves' = moves + 1
    BY Zenon DEF Tabs!CloseTab, Tabs!Moves
  <2> QED
    BY <2>1 DEF TabsTyped
<1> QED
  BY <1>7, <1>1, <1>2, <1>3, <1>4, <1>5, <1>6 DEF TabsTyped

\* The page that is asked for is a new one.
FreshPage(n) ==
  /\ n \in Page /\ opening[n].stage = "none" /\ closing[n] = "no"
  /\ n \notin native.tabs /\ n \notin native.views /\ n \notin flush.managed
  /\ \A u \in Page : page[u] # n

\* A page is asked for: everything the opening changes.
AskedFor(n) ==
  /\ FreshPage(n)
  /\ opening'[n] \in OpeningRecord /\ opening'[n].stage \in {"reserved", "refused"}
  /\ \A m \in Page : m # n => opening'[m] = opening[m]
  /\ flush'.met = flush.met \ {n} /\ flush'.requests = flush.requests
  /\ flush'.managed = flush.managed /\ flush'.sent = flush.sent
  /\ parting'.panels = parting.panels /\ parting'.undone = parting.undone \ {n}
  /\ native'.lost = native.lost \ {n} /\ native'.views = native.views /\ native'.seen = native.seen
  /\ opening'[n].stage = "reserved" =>
        native'.tabs = native.tabs \cup {n} /\ Tabs!Cardinality(native.tabs) < MaxPages
  /\ opening'[n].stage = "refused" => native'.tabs = native.tabs
  /\ UNCHANGED <<session, page, panel, closing, leaving>>

LEMMA AskFacts ==
  ASSUME TabsTyped, TabsApart, Tabs!AskOpen
  PROVE  /\ \E n \in Page : AskedFor(n)
         /\ opening' \in [Page -> {Tabs!NoOpening} \cup OpeningRecord]
<1> DEFINE t == session[panel.shown].active
           n == Tabs!First(Tabs!FreePages)
           stage == IF Tabs!Room THEN "reserved" ELSE "refused"
           o == [stage |-> stage, tab |-> t, visible |-> ~panel.menu, noted |-> TRUE, heard |-> TRUE]
<1>1. n \in Tabs!FreePages
  BY DEF Tabs!AskOpen, Tabs!First
<1>2. n \in Page /\ opening[n].stage = "none" /\ closing[n] = "no"
      /\ n \notin native.tabs /\ n \notin native.views /\ n \notin flush.managed
      /\ \A u \in Tabs!AllTabs : page[u] # n
  BY <1>1 DEF Tabs!FreePages, Tabs!InFlight
<1>3. FreshPage(n)
  <2>1. \A u \in Page : u \notin Tabs!AllTabs => page[u] # n
    BY <1>2, BrowserAssumption DEF TabsApart
  <2> QED
    BY <1>2, <2>1 DEF FreshPage
<1>4. t \in Page
  BY DEF Tabs!AskOpen, TabsTyped
<1>5. (~panel.menu) \in BOOLEAN
  BY Zenon
<1>6. o \in OpeningRecord
  BY <1>4, <1>5 DEF OpeningRecord
<1>7. opening' = [opening EXCEPT ![n] = o]
  BY DEF Tabs!AskOpen
<1>8. o.stage = stage
  OBVIOUS
<1> HIDE DEF o, n, t
<1>9. opening'[n] = o /\ (\A m \in Page : m # n => opening'[m] = opening[m])
      /\ opening' \in [Page -> {Tabs!NoOpening} \cup OpeningRecord]
  BY <1>2, <1>6, <1>7 DEF TabsTyped
<1>10. flush'.met = flush.met \ {n} /\ flush'.requests = flush.requests
       /\ flush'.managed = flush.managed /\ flush'.sent = flush.sent
  BY DEF TabsTyped, Tabs!AskOpen, n
<1>11. native'.lost = native.lost \ {n} /\ native'.views = native.views /\ native'.seen = native.seen
       /\ native'.tabs = IF Tabs!Room THEN native.tabs \cup {n} ELSE native.tabs
  BY DEF TabsTyped, Tabs!AskOpen, n
<1>13. parting'.panels = parting.panels /\ parting'.undone = parting.undone \ {n}
  BY DEF TabsTyped, Tabs!AskOpen, n
<1>12. AskedFor(n)
  <2>1. opening'[n].stage = stage
    BY <1>8, <1>9
  <2>2. UNCHANGED <<session, page, panel, closing, leaving>>
    BY DEF Tabs!AskOpen
  <2>3. opening'[n].stage = "reserved" =>
        native'.tabs = native.tabs \cup {n} /\ Tabs!Cardinality(native.tabs) < MaxPages
    BY <1>11, <2>1 DEF Tabs!Room
  <2>4. opening'[n].stage = "refused" => native'.tabs = native.tabs
    BY <1>11, <2>1
  <2>5. opening'[n].stage \in {"reserved", "refused"} /\ opening'[n] \in OpeningRecord
    BY <1>6, <1>9, <2>1
  <2> HIDE DEF stage
  <2> QED
    BY <1>13, <1>3, <1>9, <1>10, <1>11, <2>2, <2>3, <2>4, <2>5 DEF AskedFor
<1> QED
  BY <1>2, <1>9, <1>12

LEMMA AskTyped ==
  ASSUME TabsTyped, TabsApart, Tabs!AskOpen
  PROVE  TabsTyped'
<1>1. opening' \in [Page -> {Tabs!NoOpening} \cup OpeningRecord]
  BY AskFacts
<1>2. Tabs!First(Tabs!FreePages) \in Page
  <2>1. Tabs!FreePages # {} /\ Tabs!FreePages \subseteq Page
    BY DEF Tabs!AskOpen, Tabs!FreePages
  <2> QED
    BY <2>1 DEF Tabs!First
<1>3. flush' \in [dirty : BOOLEAN, requests : SUBSET [page : Page, visible : BOOLEAN],
                  managed : SUBSET Page, met : SUBSET Page, sent : [Page -> SUBSET BOOLEAN]]
  BY DEF TabsTyped, Tabs!AskOpen
<1>4. native' \in [tabs : SUBSET Page, views : SUBSET Page, seen : SUBSET Page, lost : SUBSET Page]
  BY <1>2 DEF TabsTyped, Tabs!AskOpen
<1>5. UNCHANGED <<session, page, panel, closing, leaving, moves>>
  BY DEF Tabs!AskOpen
<1>6. parting' \in [panels : SUBSET LatePanel, undone : SUBSET Page]
  BY DEF TabsTyped, Tabs!AskOpen
<1> QED
  BY <1>6, <1>1, <1>3, <1>4, <1>5 DEF TabsTyped

\* Everything a round of the panel changes.
AskedRound ==
  /\ flush.requests = {} /\ ~flush'.dirty
  /\ flush'.managed = Known(panel.shown) /\ flush'.met = flush.met \cup Known(panel.shown)
  /\ \A n \in Page :
        /\ n \in Known(panel.shown) /\ Front(n) => flush'.sent[n] = {TRUE}
        /\ n \in Known(panel.shown) /\ ~Front(n) => flush'.sent[n] = {FALSE}
        /\ n \notin Known(panel.shown) => flush'.sent[n] = {}
  /\ \A q \in flush'.requests :
        /\ q.page \in Page /\ flush.sent[q.page] # {q.visible}
        /\ (q.page \in Known(panel.shown) /\ (q.visible <=> Front(q.page)))
              \/ (q.page \in flush.managed \ Known(panel.shown) /\ ~q.visible)
  /\ \A q, r \in flush'.requests : q.page = r.page => q = r
  /\ \A n \in Known(panel.shown) : Front(n) /\ flush.sent[n] # {TRUE} =>
        \E q \in flush'.requests : q.page = n /\ q.visible
  /\ \A n \in Known(panel.shown) : ~Front(n) /\ flush.sent[n] # {FALSE} =>
        \E q \in flush'.requests : q.page = n /\ ~q.visible
  /\ \A n \in flush.managed \ Known(panel.shown) : flush.sent[n] # {FALSE} =>
        \E q \in flush'.requests : q.page = n /\ ~q.visible
  /\ UNCHANGED <<session, page, panel, opening, parting, native, closing, leaving, moves>>

\* The round asks for the pages known now, and hides those that are gone.
LEMMA RoundFacts ==
  ASSUME TabsTyped, Tabs!FlushBegin
  PROVE  /\ AskedRound
         /\ flush' \in [dirty : BOOLEAN, requests : SUBSET [page : Page, visible : BOOLEAN],
                        managed : SUBSET Page, met : SUBSET Page, sent : [Page -> SUBSET BOOLEAN]]
<1> DEFINE current == {page[t] : t \in Tabs!TabsOf(panel.shown)} \ {Unset}
           act == session[panel.shown].active
           wanted(n) == Tabs!Surface /\ act # Unset /\ n = page[act]
           all == {[page |-> n, visible |-> wanted(n)] : n \in current}
                       \cup {[page |-> n, visible |-> FALSE] : n \in Tabs!Removed(current)}
           req == {q \in all : flush.sent[q.page] # {q.visible}}
           sent == [n \in Page |-> IF n \in current THEN {wanted(n)} ELSE {}]
<1>1. /\ flush.requests = {}
      /\ flush' = [dirty |-> FALSE, requests |-> req, managed |-> current,
                   met |-> flush.met \cup current, sent |-> sent]
      /\ UNCHANGED <<session, page, panel, opening, parting, native, closing, leaving, moves>>
  BY Zenon DEF Tabs!FlushBegin, Tabs!Current
<1>2. current = Known(panel.shown)
  BY DEF Known
<1>3. \A n : wanted(n) \in BOOLEAN /\ (wanted(n) <=> Front(n))
  BY Zenon DEF Front, Tabs!Surface
<1>4. Tabs!Removed(current) = flush.managed \ current
  BY DEF Tabs!Removed
<1>5. current \subseteq Page /\ flush.managed \subseteq Page /\ flush.met \subseteq Page
  BY <1>2, KnownArePages DEF TabsTyped
<1> HIDE DEF current, wanted
<1>6. \A q \in all : /\ q \in [page : Page, visible : BOOLEAN]
                     /\ \/ q.page \in current /\ (q.visible <=> wanted(q.page))
                        \/ q.page \in flush.managed \ current /\ ~q.visible
  <2>1. ASSUME NEW n \in current
        PROVE  /\ [page |-> n, visible |-> wanted(n)] \in [page : Page, visible : BOOLEAN]
               /\ [page |-> n, visible |-> wanted(n)].page = n
               /\ [page |-> n, visible |-> wanted(n)].visible = wanted(n)
    BY <1>3, <1>5
  <2>2. ASSUME NEW n \in flush.managed \ current
        PROVE  /\ [page |-> n, visible |-> FALSE] \in [page : Page, visible : BOOLEAN]
               /\ [page |-> n, visible |-> FALSE].page = n
               /\ [page |-> n, visible |-> FALSE].visible = FALSE
    BY <1>5
  <2> SUFFICES ASSUME NEW q \in all
               PROVE  /\ q \in [page : Page, visible : BOOLEAN]
                      /\ \/ q.page \in current /\ (q.visible <=> wanted(q.page))
                         \/ q.page \in flush.managed \ current /\ ~q.visible
    OBVIOUS
  <2>3. (\E n \in current : q = [page |-> n, visible |-> wanted(n)])
          \/ (\E n \in flush.managed \ current : q = [page |-> n, visible |-> FALSE])
    BY <1>4
  <2>4. CASE \E n \in current : q = [page |-> n, visible |-> wanted(n)]
    BY <2>1, <2>4, Zenon
  <2>5. CASE \E n \in flush.managed \ current : q = [page |-> n, visible |-> FALSE]
    BY <2>2, <2>5, Zenon
  <2> QED
    BY <2>3, <2>4, <2>5
<1>7. \A q, r \in all : q.page = r.page => q = r
  <2> SUFFICES ASSUME NEW q \in all, NEW r \in all, q.page = r.page
               PROVE  q = r
    OBVIOUS
  <2>1. q.visible = r.visible
    BY <1>6, Zenon
  <2>2. q \in [page : Page, visible : BOOLEAN] /\ r \in [page : Page, visible : BOOLEAN]
    BY <1>6
  <2> QED
    BY <2>1, <2>2
<1>8. \A n \in current : \E q \in all : q.page = n /\ (q.visible <=> wanted(n)) /\ q.visible \in BOOLEAN
  <2> TAKE n \in current
  <2>1. [page |-> n, visible |-> wanted(n)] \in all
    OBVIOUS
  <2> WITNESS [page |-> n, visible |-> wanted(n)] \in all
  <2>2. /\ [page |-> n, visible |-> wanted(n)].page = n
        /\ [page |-> n, visible |-> wanted(n)].visible = wanted(n)
    OBVIOUS
  <2> QED
    BY <1>3, <2>2, Zenon
<1>9. \A n \in flush.managed \ current : \E q \in all : q.page = n /\ q.visible = FALSE
  <2> TAKE n \in flush.managed \ current
  <2>1. [page |-> n, visible |-> FALSE] \in all
    BY <1>4
  <2> WITNESS [page |-> n, visible |-> FALSE] \in all
  <2> QED
    OBVIOUS
<1> HIDE DEF all
<1>10. /\ flush'.dirty = FALSE /\ flush'.requests = req /\ flush'.managed = current
       /\ flush'.met = flush.met \cup current /\ flush'.sent = sent
  BY <1>1
<1>11. \A n \in Page : /\ n \in current /\ Front(n) => sent[n] = {TRUE}
                       /\ n \in current /\ ~Front(n) => sent[n] = {FALSE}
                       /\ n \notin current => sent[n] = {}
  <2> TAKE n \in Page
  <2>1. sent[n] = IF n \in current THEN {wanted(n)} ELSE {}
    OBVIOUS
  <2>2. wanted(n) => wanted(n) = TRUE
    BY <1>3, Zenon
  <2>3. ~wanted(n) => wanted(n) = FALSE
    BY <1>3, Zenon
  <2> HIDE DEF sent
  <2> QED
    BY <1>3, <2>1, <2>2, <2>3, Zenon
<1>12. sent \in [Page -> SUBSET BOOLEAN]
  <2>1. \A n \in Page : {wanted(n)} \in SUBSET BOOLEAN
    BY <1>3
  <2> QED
    BY <2>1
<1>13. req \subseteq all
  OBVIOUS
<1>14. \A n \in current : Front(n) /\ flush.sent[n] # {TRUE} =>
        \E q \in req : q.page = n /\ q.visible
  <2> SUFFICES ASSUME NEW n \in current, Front(n), flush.sent[n] # {TRUE}
               PROVE  \E q \in req : q.page = n /\ q.visible
    OBVIOUS
  <2>1. PICK q \in all : q.page = n /\ (q.visible <=> wanted(n)) /\ q.visible \in BOOLEAN
    BY <1>8
  <2>2. q.visible = TRUE
    BY <1>3, <2>1, Zenon
  <2>3. flush.sent[q.page] # {q.visible}
    BY <2>1, <2>2, Zenon
  <2> QED
    BY <2>1, <2>2, <2>3
<1>15. \A n \in current : ~Front(n) /\ flush.sent[n] # {FALSE} =>
        \E q \in req : q.page = n /\ ~q.visible
  <2> SUFFICES ASSUME NEW n \in current, ~Front(n), flush.sent[n] # {FALSE}
               PROVE  \E q \in req : q.page = n /\ ~q.visible
    OBVIOUS
  <2>1. PICK q \in all : q.page = n /\ (q.visible <=> wanted(n)) /\ q.visible \in BOOLEAN
    BY <1>8
  <2>2. q.visible = FALSE
    BY <1>3, <2>1, Zenon
  <2>3. flush.sent[q.page] # {q.visible}
    BY <2>1, <2>2, Zenon
  <2> QED
    BY <2>1, <2>2, <2>3
<1>16. \A n \in flush.managed \ current : flush.sent[n] # {FALSE} =>
        \E q \in req : q.page = n /\ ~q.visible
  <2> SUFFICES ASSUME NEW n \in flush.managed \ current, flush.sent[n] # {FALSE}
               PROVE  \E q \in req : q.page = n /\ ~q.visible
    OBVIOUS
  <2>1. PICK q \in all : q.page = n /\ q.visible = FALSE
    BY <1>9
  <2>3. flush.sent[q.page] # {q.visible}
    BY <2>1, Zenon
  <2> QED
    BY <2>1, <2>3
<1>17. \A q \in req : q \in all /\ flush.sent[q.page] # {q.visible}
  OBVIOUS
<1> HIDE DEF sent, req
<1>18. AskedRound
  <2>1. \A q \in req :
        /\ q.page \in Page /\ flush.sent[q.page] # {q.visible}
        /\ (q.page \in current /\ (q.visible <=> Front(q.page)))
              \/ (q.page \in flush.managed \ current /\ ~q.visible)
    BY <1>3, <1>5, <1>6, <1>17, Zenon
  <2>2. ~flush'.dirty
    BY <1>10, Zenon
  <2>3. \A q, r \in req : q.page = r.page => q = r
    BY <1>7, <1>13
  <2>4. \A n \in Page :
        /\ n \in Known(panel.shown) /\ Front(n) => flush'.sent[n] = {TRUE}
        /\ n \in Known(panel.shown) /\ ~Front(n) => flush'.sent[n] = {FALSE}
        /\ n \notin Known(panel.shown) => flush'.sent[n] = {}
    BY <1>2, <1>10, <1>11
  <2> QED
    BY <1>1, <1>2, <1>10, <1>14, <1>15, <1>16, <2>1, <2>2, <2>3, <2>4, Zenon DEF AskedRound
<1>19. req \subseteq [page : Page, visible : BOOLEAN]
  BY <1>6, <1>13
<1> QED
  BY <1>1, <1>5, <1>12, <1>18, <1>19

LEMMA RoundTyped ==
  ASSUME TabsTyped, Tabs!FlushBegin
  PROVE  TabsTyped'
BY RoundFacts, Zenon DEF AskedRound, TabsTyped

-----------------------------------------------------------------------------
(* Whose the tabs are. *)

\* A tab is some Chat's.
LEMMA AllTabsFacts ==
  /\ \A t : t \in Tabs!AllTabs <=> \E c \in Thread : t \in Tabs!TabsOf(c)
  /\ \A t : t \in Tabs!AllTabs' <=> \E c \in Thread : t \in Tabs!TabsOf(c)'
BY DEF Tabs!AllTabs

\* A new tab is nobody's yet.
OpensTab(c, t) ==
  /\ t \in Page /\ t \notin Tabs!AllTabs
  /\ Tabs!TabsOf(c)' = Tabs!TabsOf(c) \cup {t}
  /\ \A i, j \in DOMAIN session'[c].tabs : session'[c].tabs[i] = session'[c].tabs[j] => i = j
  /\ session'[c].active = t
  /\ \A d \in Thread : d # c => session'[d] = session[d]
  /\ UNCHANGED <<page, opening, native, closing, leaving>>

LEMMA OpenFacts ==
  ASSUME TabsTyped, TabsApart, NEW c \in Thread, Tabs!OpenTab(c)
  PROVE  \E t \in Page : OpensTab(c, t)
<1>1. PICK t \in Page : /\ t \notin Tabs!AllTabs
                        /\ session' = [session EXCEPT ![c] = [tabs |-> Append(@.tabs, t), active |-> t]]
  <2>1. Tabs!FreeTabs # {} /\ Tabs!FreeTabs \subseteq Page \ Tabs!AllTabs
    BY DEF Tabs!OpenTab, Tabs!FreeTabs
  <2>2. Tabs!First(Tabs!FreeTabs) \in Page \ Tabs!AllTabs
    BY <2>1 DEF Tabs!First
  <2> QED
    BY <2>2 DEF Tabs!OpenTab
<1> DEFINE s == session[c].tabs
           r == Append(s, t)
<1>2. session'[c].tabs = r /\ session'[c].active = t /\ \A d \in Thread : d # c => session'[d] = session[d]
  BY <1>1 DEF TabsTyped
<1>3. s \in Seq(Page) /\ \A i, j \in DOMAIN s : s[i] = s[j] => i = j
  BY DEF TabsTyped, TabsApart
<1>4. Tabs!TabsOf(c) = {s[i] : i \in DOMAIN s} /\ Tabs!TabsOf(c)' = {r[i] : i \in DOMAIN r}
  BY <1>2 DEF Tabs!TabsOf
<1>5. \A i \in DOMAIN s : s[i] # t
  BY <1>1, <1>4 DEF Tabs!AllTabs
<1> HIDE DEF s
<1>6. /\ DOMAIN s = 1..Len(s) /\ DOMAIN r = 1..(Len(s) + 1) /\ Len(s) \in Nat
      /\ r[Len(s) + 1] = t /\ \A i \in 1..Len(s) : r[i] = s[i]
  BY <1>3
<1> HIDE DEF r
<1>7. Tabs!TabsOf(c)' = Tabs!TabsOf(c) \cup {t}
  <2>1. \A i \in 1..(Len(s) + 1) : i = Len(s) + 1 \/ i \in 1..Len(s)
    BY <1>6
  <2>2. \A i \in 1..Len(s) : i \in 1..(Len(s) + 1)
    BY <1>6
  <2>3. Len(s) + 1 \in 1..(Len(s) + 1)
    BY <1>6
  <2>4. \A x : x \in {r[i] : i \in DOMAIN r} => x \in {s[i] : i \in DOMAIN s} \cup {t}
    BY <1>6, <2>1
  <2>5. \A x : x \in {s[i] : i \in DOMAIN s} \cup {t} => x \in {r[i] : i \in DOMAIN r}
    BY <1>6, <2>2, <2>3
  <2> QED
    BY <1>4, <2>4, <2>5
<1>8. \A i, j \in DOMAIN r : r[i] = r[j] => i = j
  BY <1>3, <1>5, <1>6
<1>9. UNCHANGED <<page, opening, native, closing, leaving>>
  BY DEF Tabs!OpenTab
<1> QED
  BY <1>1, <1>2, <1>7, <1>8, <1>9 DEF OpensTab

\* Tabs that stay apart: what a step must say of the tabs of each Chat.
LEMMA StillApart ==
  ASSUME \A c \in Thread : \A i, j \in DOMAIN session'[c].tabs :
            session'[c].tabs[i] = session'[c].tabs[j] => i = j,
         \A c, d \in Thread : c # d => Tabs!TabsOf(c)' \cap Tabs!TabsOf(d)' = {},
         \A c \in Thread : session'[c].active \in Tabs!TabsOf(c)' \cup {Unset},
         \A t \in Page : (\A c \in Thread : t \notin Tabs!TabsOf(c)') => page'[t] = Unset,
         \A t, u \in Page : page'[t] = page'[u] /\ page'[t] # Unset => t = u
  PROVE  TabsApart'
BY AllTabsFacts DEF TabsApart

\* The tabs of a Chat are those of its session.
LEMMA SameTabs ==
  ASSUME NEW c, session'[c].tabs = session[c].tabs
  PROVE  Tabs!TabsOf(c)' = Tabs!TabsOf(c)
BY DEF Tabs!TabsOf

LEMMA ApartFacts ==
  ASSUME TabsApart
  PROVE  /\ \A c \in Thread : \A i, j \in DOMAIN session[c].tabs :
               session[c].tabs[i] = session[c].tabs[j] => i = j
         /\ \A c, d \in Thread : c # d => Tabs!TabsOf(c) \cap Tabs!TabsOf(d) = {}
         /\ \A c \in Thread : session[c].active \in Tabs!TabsOf(c) \cup {Unset}
         /\ \A t \in Page : (\A c \in Thread : t \notin Tabs!TabsOf(c)) => page[t] = Unset
         /\ \A t, u \in Page : page[t] = page[u] /\ page[t] # Unset => t = u
BY AllTabsFacts DEF TabsApart

\* Each step that changes the tabs keeps them apart.
LEMMA OpenApart ==
  ASSUME TabsTyped, TabsApart, NEW c \in Thread, Tabs!OpenTab(c)
  PROVE  TabsApart'
<1>1. PICK t \in Page : OpensTab(c, t)
  BY OpenFacts
<1>2. \A d \in Thread : d # c => Tabs!TabsOf(d)' = Tabs!TabsOf(d)
  BY <1>1, SameTabs DEF OpensTab
<1>3. Tabs!TabsOf(c)' = Tabs!TabsOf(c) \cup {t} /\ \A d \in Thread : t \notin Tabs!TabsOf(d)
  BY <1>1, AllTabsFacts DEF OpensTab
<1>4. \A d \in Thread : \A i, j \in DOMAIN session'[d].tabs :
            session'[d].tabs[i] = session'[d].tabs[j] => i = j
  BY <1>1, ApartFacts DEF OpensTab
<1>5. \A d, e \in Thread : d # e => Tabs!TabsOf(d)' \cap Tabs!TabsOf(e)' = {}
  <2> SUFFICES ASSUME NEW d \in Thread, NEW e \in Thread, d # e
               PROVE  Tabs!TabsOf(d)' \cap Tabs!TabsOf(e)' = {}
    OBVIOUS
  <2>1. Tabs!TabsOf(d) \cap Tabs!TabsOf(e) = {}
    BY ApartFacts
  <2>2. d = c \/ Tabs!TabsOf(d)' = Tabs!TabsOf(d)
    BY <1>2
  <2>3. e = c \/ Tabs!TabsOf(e)' = Tabs!TabsOf(e)
    BY <1>2
  <2> QED
    BY <1>3, <2>1, <2>2, <2>3
<1>6. \A d \in Thread : session'[d].active \in Tabs!TabsOf(d)' \cup {Unset}
  BY <1>1, <1>2, <1>3, ApartFacts DEF OpensTab
<1>7. page' = page
  BY <1>1 DEF OpensTab
<1>8. \A u \in Page : (\A d \in Thread : u \notin Tabs!TabsOf(d)') => page'[u] = Unset
  BY <1>2, <1>3, <1>7, ApartFacts
<1> QED
  BY <1>4, <1>5, <1>6, <1>7, <1>8, ApartFacts, StillApart

LEMMA SelectApart ==
  ASSUME TabsTyped, TabsApart, NEW t, Tabs!Select(t)
  PROVE  TabsApart'
<1> DEFINE c == panel.shown
<1>1. c \in Thread /\ t \in Tabs!TabsOf(c) \cup {Unset}
  BY DEF TabsTyped, Tabs!Select
<1>2. /\ \A d \in Thread : session'[d].tabs = session[d].tabs
      /\ session'[c].active = t /\ \A d \in Thread : d # c => session'[d].active = session[d].active
  BY DEF TabsTyped, Tabs!Select
<1>3. \A d \in Thread : Tabs!TabsOf(d)' = Tabs!TabsOf(d)
  BY <1>2, SameTabs
<1>4. page' = page
  BY DEF Tabs!Select, Tabs!Move
<1>5. \A d \in Thread : session'[d].active \in Tabs!TabsOf(d)' \cup {Unset}
  <2> SUFFICES ASSUME NEW d \in Thread PROVE session'[d].active \in Tabs!TabsOf(d)' \cup {Unset}
    OBVIOUS
  <2>1. CASE d = c
    BY <1>1, <1>2, <1>3, <2>1
  <2>2. CASE d # c
    BY <1>2, <1>3, <2>2, ApartFacts
  <2> QED
    BY <2>1, <2>2
<1> QED
  BY <1>2, <1>3, <1>4, <1>5, ApartFacts, StillApart

LEMMA CloseApart ==
  ASSUME TabsTyped, TabsApart, NEW t \in Page, Tabs!CloseTab(t)
  PROVE  TabsApart'
<1>1. PICK c \in Thread : c = panel.shown
  BY DEF TabsTyped
<1>2. panel'.shown = panel.shown
  BY Zenon DEF Tabs!CloseTab, TabsTyped
<1>3. Tabs!TabsOf(c)' = Tabs!TabsOf(c) \ {t} /\ t \in Tabs!TabsOf(c)
  BY <1>1, <1>2, CloseTabs
<1>4. \A d \in Thread : d # c => session'[d] = session[d] /\ Tabs!TabsOf(d)' = Tabs!TabsOf(d)
  BY <1>1, CloseTabs, SameTabs
<1>5. page' = [page EXCEPT ![t] = Unset]
  BY Zenon DEF Tabs!CloseTab
<1>6. \A d \in Thread : \A i, j \in DOMAIN session'[d].tabs :
            session'[d].tabs[i] = session'[d].tabs[j] => i = j
  <2>1. \A i, j \in DOMAIN session'[c].tabs : session'[c].tabs[i] = session'[c].tabs[j] => i = j
    BY <1>1, CloseTabs
  <2> QED
    BY <1>4, <2>1, ApartFacts
<1>7. \A d, e \in Thread : d # e => Tabs!TabsOf(d)' \cap Tabs!TabsOf(e)' = {}
  <2> SUFFICES ASSUME NEW d \in Thread, NEW e \in Thread, d # e
               PROVE  Tabs!TabsOf(d)' \cap Tabs!TabsOf(e)' = {}
    OBVIOUS
  <2>1. Tabs!TabsOf(d) \cap Tabs!TabsOf(e) = {}
    BY ApartFacts
  <2>2. Tabs!TabsOf(d)' \subseteq Tabs!TabsOf(d) /\ Tabs!TabsOf(e)' \subseteq Tabs!TabsOf(e)
    BY <1>3, <1>4
  <2> QED
    BY <2>1, <2>2
<1>8. \A d \in Thread : session'[d].active \in Tabs!TabsOf(d)' \cup {Unset}
  <2>1. session'[c].active \in Tabs!TabsOf(c)' \cup {Unset}
    BY <1>1, <1>2, CloseTabs
  <2> QED
    BY <1>4, <2>1, ApartFacts
<1>9. \A u \in Page : (\A d \in Thread : u \notin Tabs!TabsOf(d)') => page'[u] = Unset
  <2> SUFFICES ASSUME NEW u \in Page, \A d \in Thread : u \notin Tabs!TabsOf(d)'
               PROVE  page'[u] = Unset
    OBVIOUS
  <2>1. u = t \/ \A d \in Thread : u \notin Tabs!TabsOf(d)
    BY <1>3, <1>4
  <2> QED
    BY <1>5, <2>1, ApartFacts DEF TabsTyped
<1>10. \A u, v \in Page : page'[u] = page'[v] /\ page'[u] # Unset => u = v
  BY <1>5, ApartFacts DEF TabsTyped
<1> QED
  BY <1>6, <1>7, <1>8, <1>9, <1>10, StillApart

LEMMA DropApart ==
  ASSUME TabsTyped, TabsApart, NEW c \in Thread, Tabs!DropSession(c)
  PROVE  TabsApart'
<1>1. session'[c].tabs = <<>> /\ session'[c].active = Unset
      /\ \A d \in Thread : d # c => session'[d] = session[d]
  BY DEF TabsTyped, Tabs!DropSession
<1>2. Tabs!TabsOf(c)' = {}
  BY <1>1 DEF Tabs!TabsOf
<1>3. \A d \in Thread : d # c => Tabs!TabsOf(d)' = Tabs!TabsOf(d)
  BY <1>1, SameTabs
<1>4. \A u \in Page : page'[u] = IF u \in Tabs!TabsOf(c) THEN Unset ELSE page[u]
  BY DEF Tabs!DropSession
<1>5. \A d \in Thread : \A i, j \in DOMAIN session'[d].tabs :
            session'[d].tabs[i] = session'[d].tabs[j] => i = j
  BY <1>1, ApartFacts
<1>6. \A d, e \in Thread : d # e => Tabs!TabsOf(d)' \cap Tabs!TabsOf(e)' = {}
  <2> SUFFICES ASSUME NEW d \in Thread, NEW e \in Thread, d # e
               PROVE  Tabs!TabsOf(d)' \cap Tabs!TabsOf(e)' = {}
    OBVIOUS
  <2>1. Tabs!TabsOf(d) \cap Tabs!TabsOf(e) = {}
    BY ApartFacts
  <2>2. Tabs!TabsOf(d)' \subseteq Tabs!TabsOf(d) /\ Tabs!TabsOf(e)' \subseteq Tabs!TabsOf(e)
    BY <1>2, <1>3
  <2> QED
    BY <2>1, <2>2
<1>7. \A d \in Thread : session'[d].active \in Tabs!TabsOf(d)' \cup {Unset}
  BY <1>1, <1>3, ApartFacts
<1>8. \A u \in Page : (\A d \in Thread : u \notin Tabs!TabsOf(d)') => page'[u] = Unset
  <2> SUFFICES ASSUME NEW u \in Page, \A d \in Thread : u \notin Tabs!TabsOf(d)'
               PROVE  page'[u] = Unset
    OBVIOUS
  <2>1. u \in Tabs!TabsOf(c) \/ \A d \in Thread : u \notin Tabs!TabsOf(d)
    BY <1>3
  <2> QED
    BY <1>4, <2>1, ApartFacts
<1>9. \A u, v \in Page : page'[u] = page'[v] /\ page'[u] # Unset => u = v
  BY <1>4, ApartFacts
<1> QED
  BY <1>5, <1>6, <1>7, <1>8, <1>9, StillApart

LEMMA ReloadApart ==
  ASSUME TabsTyped, TabsApart, Tabs!Reload
  PROVE  TabsApart'
<1>1. \A c \in Thread : session'[c].tabs = <<>> /\ session'[c].active = Unset
  BY Zenon DEF Tabs!Reload
<1>2. \A c \in Thread : Tabs!TabsOf(c)' = {}
  BY <1>1 DEF Tabs!TabsOf
<1>3. \A t \in Page : page'[t] = Unset
  BY Zenon DEF Tabs!Reload
<1> QED
  BY <1>1, <1>2, <1>3, StillApart

LEMMA AnswerApart ==
  ASSUME TabsTyped, TabsApart, OpeningsApart, NEW n \in Page, Tabs!Answer(n)
  PROVE  TabsApart'
<1>1. UNCHANGED session
  BY DEF Tabs!Answer
<1>2. \A c \in Thread : Tabs!TabsOf(c)' = Tabs!TabsOf(c)
  BY <1>1, SameTabs
<1>3. page' = page \/ (opening[n].tab \in Tabs!AllTabs /\ page' = [page EXCEPT ![opening[n].tab] = n])
  BY DEF Tabs!Answer
<1>4. \A u \in Page : page[u] # n
  BY DEF OpeningsApart, Waits, Tabs!Answer
<1>5. \A u \in Page : (\A c \in Thread : u \notin Tabs!TabsOf(c)') => page'[u] = Unset
  <2>1. CASE page' = page
    BY <1>2, <2>1, ApartFacts
  <2>2. CASE opening[n].tab \in Tabs!AllTabs /\ page' = [page EXCEPT ![opening[n].tab] = n]
    BY <1>2, <2>2, ApartFacts, AllTabsFacts DEF TabsTyped
  <2> QED
    BY <1>3, <2>1, <2>2
<1>6. \A u, v \in Page : page'[u] = page'[v] /\ page'[u] # Unset => u = v
  <2>1. CASE page' = page
    BY <2>1, ApartFacts
  <2>2. CASE page' = [page EXCEPT ![opening[n].tab] = n]
    BY <1>4, <2>2, ApartFacts DEF TabsTyped
  <2> QED
    BY <1>3, <2>1, <2>2
<1> QED
  BY <1>1, <1>2, <1>5, <1>6, ApartFacts, StillApart

\* The others do not change them.
LEMMA ApartStays ==
  ASSUME TabsApart, UNCHANGED <<session, page>>
  PROVE  TabsApart'
<1>1. \A c \in Thread : Tabs!TabsOf(c)' = Tabs!TabsOf(c)
  BY SameTabs
<1> QED
  BY <1>1, ApartFacts, StillApart

-----------------------------------------------------------------------------
(* What each step does to the pages, field by field. *)

LEMMA UnmountFields ==
  ASSUME TabsTyped, Tabs!Unmount
  PROVE  /\ \A m \in Page : opening'[m].stage = opening[m].stage /\ (opening'[m].heard = opening[m].heard)
         /\ flush'.met = flush.met /\ flush'.requests = {}
         /\ flush'.managed = {} /\ (\A m \in Page : flush'.sent[m] = {})
         /\ UNCHANGED <<session, page, native, closing, leaving>>
<1>1. ASSUME NEW m \in Page
      PROVE  opening'[m].stage = opening[m].stage /\ (opening'[m].heard = opening[m].heard)
  <2>1. CASE m \in Tabs!InFlight
    <3>1. opening[m] \in OpeningRecord
      BY <2>1, OpeningIsRecord DEF Tabs!InFlight
    <3>2. opening'[m] = [opening[m] EXCEPT !.noted = FALSE]
      BY <2>1 DEF Tabs!Unmount
    <3> QED
      BY <3>1, <3>2 DEF OpeningRecord
  <2>2. CASE m \notin Tabs!InFlight
    BY <2>2 DEF Tabs!Unmount
  <2> QED
    BY <2>1, <2>2
<1>2. /\ flush'.met = flush.met /\ flush'.requests = {}
      /\ flush'.managed = {} /\ (\A m \in Page : flush'.sent[m] = {})
  BY DEF Tabs!Unmount
<1> QED
  BY <1>1, <1>2 DEF Tabs!Unmount

LEMMA MountFields ==
  ASSUME TabsTyped, Tabs!Mount
  PROVE  /\ flush'.met = flush.met /\ flush'.requests = flush.requests
         /\ flush'.managed = flush.managed /\ flush'.sent = flush.sent
         /\ UNCHANGED <<session, page, opening, parting, native, closing, leaving>>
BY DEF TabsTyped, Tabs!Mount

\* A request of a panel that is gone, and what is left of that panel.
IsLate(l, q) ==
  /\ l \in parting.panels /\ q.page \in Page
  /\ l.requests # {} => q \in l.requests
  /\ l.requests = {} => ~q.visible

Leaves(l, q, rest) ==
  /\ rest.requests = l.requests \ {q}
  /\ rest.hides = IF l.requests # {} THEN l.hides ELSE l.hides \ {q.page}
  /\ \/ parting'.panels = (parting.panels \ {l}) \cup {rest}
     \/ parting'.panels = parting.panels \ {l} /\ rest.requests = {} /\ rest.hides = {}

LEMMA LateAnswers ==
  ASSUME TabsTyped, NEW l, NEW q, Tabs!LateBounds(l, q)
  PROVE  /\ IsLate(l, q)
         /\ \E rest \in LatePanel : Leaves(l, q, rest)
         /\ parting' \in [panels : SUBSET LatePanel, undone : SUBSET Page]
         /\ parting'.undone = parting.undone \cup {q.page}
<1> DEFINE rest == [since    |-> l.since,
                    requests |-> l.requests \ {q},
                    hides    |-> IF l.requests # {} THEN l.hides ELSE l.hides \ {q.page}]
           over == rest.requests = {} /\ rest.hides = {}
<1>1. l \in parting.panels /\ q \in Tabs!LateAsks(l)
  BY Zenon DEF Tabs!LateBounds
<1>2. l \in LatePanel
  BY <1>1 DEF TabsTyped
<1>3. IsLate(l, q)
  <2>1. CASE l.requests # {}
    BY <1>1, <1>2, <2>1 DEF Tabs!LateAsks, LatePanel, IsLate
  <2>2. CASE l.requests = {}
    <3>1. PICK n \in l.hides : q = [page |-> n, visible |-> FALSE]
      BY <1>1, <2>2 DEF Tabs!LateAsks
    <3>2. q.page = n /\ q.visible = FALSE
      BY <3>1
    <3> QED
      BY <1>1, <1>2, <2>2, <3>2 DEF LatePanel, IsLate
  <2> QED
    BY <2>1, <2>2
<1>4. rest \in LatePanel
  BY <1>2 DEF LatePanel
<1>5. parting' = [panels |-> (parting.panels \ {l}) \cup (IF over THEN {} ELSE {rest}),
                  undone |-> parting.undone \cup {q.page}]
  BY Zenon DEF Tabs!LateBounds
<1>6. /\ rest.requests = l.requests \ {q}
      /\ rest.hides = IF l.requests # {} THEN l.hides ELSE l.hides \ {q.page}
  OBVIOUS
<1> HIDE DEF rest
<1>7. Leaves(l, q, rest)
  BY <1>5, <1>6 DEF Leaves
<1>8. parting.undone \subseteq Page /\ parting.panels \subseteq LatePanel
  BY DEF TabsTyped
<1>9. parting' \in [panels : SUBSET LatePanel, undone : SUBSET Page]
      /\ parting'.undone = parting.undone \cup {q.page}
  BY <1>3, <1>4, <1>5, <1>8 DEF IsLate
<1> QED
  BY <1>3, <1>4, <1>7, <1>9

LEMMA LateFields ==
  ASSUME TabsTyped, NEW l, NEW q, Tabs!LateBounds(l, q)
  PROVE  /\ native'.tabs = native.tabs /\ native'.views = native.views /\ native'.lost = native.lost
         /\ ~There(q.page) => native' = native
         /\ There(q.page) /\ q.visible => native'.seen = native.seen \cup {q.page}
         /\ There(q.page) /\ ~q.visible => native'.seen = native.seen \ {q.page}
         /\ UNCHANGED <<session, page, panel, opening, flush, closing, leaving, moves>>
<1>1. ~There(q.page) => native' = native
  BY DEF Tabs!LateBounds, Tabs!IsThere, There
<1>2. ASSUME There(q.page)
      PROVE  /\ native'.tabs = native.tabs /\ native'.views = native.views /\ native'.lost = native.lost
             /\ q.visible => native'.seen = native.seen \cup {q.page}
             /\ ~q.visible => native'.seen = native.seen \ {q.page}
  <2>1. native' = [native EXCEPT !.seen = IF q.visible THEN @ \cup {q.page} ELSE @ \ {q.page}]
    BY <1>2 DEF Tabs!LateBounds, Tabs!IsThere, There
  <2> QED
    BY <2>1 DEF TabsTyped
<1>3. UNCHANGED <<session, page, panel, opening, flush, closing, leaving, moves>>
  BY Zenon DEF Tabs!LateBounds
<1> QED
  BY <1>1, <1>2, <1>3

LEMMA LateTyped ==
  ASSUME TabsTyped, NEW l, NEW q, Tabs!LateBounds(l, q)
  PROVE  TabsTyped'
<1>1. q.page \in Page /\ parting' \in [panels : SUBSET LatePanel, undone : SUBSET Page]
  BY LateAnswers DEF IsLate
<1>2. native' \in [tabs : SUBSET Page, views : SUBSET Page, seen : SUBSET Page, lost : SUBSET Page]
  BY <1>1 DEF TabsTyped, Tabs!LateBounds
<1>3. UNCHANGED <<session, page, panel, opening, flush, closing, leaving, moves>>
  BY LateFields
<1> QED
  BY <1>1, <1>2, <1>3 DEF TabsTyped

LEMMA ReloadFields ==
  ASSUME TabsTyped, Tabs!Reload
  PROVE  /\ \A m \in Page : opening'[m].stage = opening[m].stage
                            /\ (opening[m].stage # "none" => opening'[m].heard = FALSE)
         /\ flush'.met = flush.met /\ flush'.requests = {}
         /\ flush'.managed = {} /\ (\A m \in Page : flush'.sent[m] = {} /\ page'[m] = Unset)
         /\ native'.tabs = {} /\ native'.views = native.views /\ native'.seen = native.seen
         /\ native'.lost = native.lost \cup {n \in native.tabs : opening[n].stage = "reserved"}
         /\ \A m \in Page : closing'[m] = IF m \in native.tabs THEN "reset" ELSE closing[m]
         /\ leaving' = {} /\ parting'.panels = {} /\ parting'.undone = parting.undone
<1>1. ASSUME NEW m \in Page
      PROVE  opening'[m].stage = opening[m].stage
             /\ (opening[m].stage # "none" => opening'[m].heard = FALSE)
  <2>1. CASE m \in Tabs!InFlight
    <3>1. opening[m] \in OpeningRecord
      BY <2>1, OpeningIsRecord DEF Tabs!InFlight
    <3>2. opening'[m] = [opening[m] EXCEPT !.noted = FALSE, !.heard = FALSE]
      BY <2>1, Zenon DEF Tabs!Reload
    <3> QED
      BY <3>1, <3>2 DEF OpeningRecord
  <2>2. CASE m \notin Tabs!InFlight
    BY <2>2, Zenon DEF Tabs!Reload, Tabs!InFlight
  <2> QED
    BY <2>1, <2>2
<1>2. /\ flush'.met = flush.met /\ flush'.requests = {}
      /\ flush'.managed = {} /\ (\A m \in Page : flush'.sent[m] = {})
  BY Zenon DEF TabsTyped, Tabs!Reload
<1>3. /\ native'.tabs = {} /\ native'.views = native.views /\ native'.seen = native.seen
      /\ native'.lost = native.lost \cup {n \in native.tabs : opening[n].stage = "reserved"}
  BY Zenon DEF TabsTyped, Tabs!Reload
<1>4. \A m \in Page : page'[m] = Unset
  BY Zenon DEF Tabs!Reload
<1>5. \A m \in Page : closing'[m] = IF m \in native.tabs THEN "reset" ELSE closing[m]
  BY Zenon DEF Tabs!Reload
<1>6. leaving' = {}
  BY Zenon DEF Tabs!Reload
<1>7. parting'.panels = {} /\ parting'.undone = parting.undone
  BY Zenon DEF TabsTyped, Tabs!Reload
<1> QED
  BY <1>7, <1>1, <1>2, <1>3, <1>4, <1>5, <1>6

LEMMA AddFields ==
  ASSUME TabsTyped, NEW n \in Page, Tabs!AddChild(n)
  PROVE  /\ opening[n].stage = "reserved" /\ opening'[n].stage = "added"
         /\ (opening'[n].heard = opening[n].heard)
         /\ \A m \in Page : m # n => opening'[m] = opening[m]
         /\ native'.tabs = native.tabs /\ native'.lost = native.lost
         /\ native'.views = native.views \cup {n}
         /\ (native'.seen = native.seen \/ native'.seen = native.seen \cup {n})
         /\ UNCHANGED <<session, page, panel, flush, parting, closing, leaving>>
<1>1. opening[n] \in OpeningRecord
  BY OpeningIsRecord DEF Tabs!AddChild
<1>2. opening' = [opening EXCEPT ![n] = [opening[n] EXCEPT !.stage = "added"]]
  BY DEF Tabs!AddChild, Tabs!Advance
<1>3. /\ opening'[n].stage = "added" /\ (opening'[n].heard = opening[n].heard)
      /\ \A m \in Page : m # n => opening'[m] = opening[m]
  BY <1>1, <1>2 DEF OpeningRecord, TabsTyped
<1>4. /\ native'.tabs = native.tabs /\ native'.lost = native.lost
      /\ native'.views = native.views \cup {n}
      /\ (native'.seen = native.seen \/ native'.seen = native.seen \cup {n})
  BY DEF TabsTyped, Tabs!AddChild
<1> QED
  BY <1>3, <1>4 DEF Tabs!AddChild, Tabs!Advance

LEMMA FailsFields ==
  ASSUME TabsTyped, NEW n \in Page, Tabs!AddFails(n)
  PROVE  /\ opening[n].stage = "reserved" /\ opening'[n].stage = "refused"
         /\ (opening'[n].heard = opening[n].heard)
         /\ \A m \in Page : m # n => opening'[m] = opening[m]
         /\ native'.tabs = native.tabs \ {n} /\ native'.lost = native.lost \ {n}
         /\ native'.views = native.views /\ native'.seen = native.seen
         /\ UNCHANGED <<session, page, panel, flush, parting, closing, leaving>>
<1>1. opening[n] \in OpeningRecord
  BY OpeningIsRecord DEF Tabs!AddFails
<1>2. opening' = [opening EXCEPT ![n] = [opening[n] EXCEPT !.stage = "refused"]]
  BY DEF Tabs!AddFails, Tabs!Advance
<1>3. /\ opening'[n].stage = "refused" /\ (opening'[n].heard = opening[n].heard)
      /\ \A m \in Page : m # n => opening'[m] = opening[m]
  BY <1>1, <1>2 DEF OpeningRecord, TabsTyped
<1>4. /\ native'.tabs = native.tabs \ {n} /\ native'.lost = native.lost \ {n}
      /\ native'.views = native.views /\ native'.seen = native.seen
  BY DEF TabsTyped, Tabs!AddFails
<1> QED
  BY <1>3, <1>4 DEF Tabs!AddFails, Tabs!Advance

LEMMA AnswerFields ==
  ASSUME TabsTyped, NEW n \in Page, Tabs!Answer(n)
  PROVE  /\ opening[n].stage \in {"added", "refused"} /\ opening'[n].stage = "none"
         /\ opening[n].tab \in Page
         /\ \A m \in Page : m # n => opening'[m] = opening[m]
         /\ \/ page' = page
            \/ /\ opening[n].stage = "added" /\ opening[n].heard /\ opening[n].tab \in Tabs!AllTabs
               /\ page' = [page EXCEPT ![opening[n].tab] = n]
         /\ flush'.requests = flush.requests /\ flush'.managed = flush.managed
         /\ flush'.met = flush.met /\ flush'.sent = flush.sent
         /\ UNCHANGED <<session, panel, parting, native, closing, leaving>>
<1>1. opening[n].stage \in {"added", "refused"} /\ opening' = [opening EXCEPT ![n] = Tabs!NoOpening]
  BY DEF Tabs!Answer
<1>2. /\ opening'[n].stage = "none"
      /\ \A m \in Page : m # n => opening'[m] = opening[m]
  BY <1>1 DEF Tabs!NoOpening, TabsTyped
<1>3. opening[n].tab \in Page
  BY <1>1, OpeningIsRecord DEF OpeningRecord
<1>4. flush'.requests = flush.requests /\ flush'.managed = flush.managed
      /\ flush'.met = flush.met /\ flush'.sent = flush.sent
  BY ScheduleFields DEF Tabs!Answer
<1>5. \/ page' = page
      \/ /\ opening[n].stage = "added" /\ opening[n].heard /\ opening[n].tab \in Tabs!AllTabs
         /\ page' = [page EXCEPT ![opening[n].tab] = n]
  BY Zenon DEF Tabs!Answer
<1>6. UNCHANGED <<session, panel, parting, native, closing, leaving>>
  BY DEF Tabs!Answer
<1> QED
  BY <1>1, <1>2, <1>3, <1>4, <1>5, <1>6

LEMMA SetFields ==
  ASSUME TabsTyped, NEW q, Tabs!SetBounds(q)
  PROVE  /\ q \in flush.requests /\ q.page \in Page
         /\ flush'.requests = flush.requests \ {q}
         /\ flush'.managed = flush.managed /\ flush'.met = flush.met
         /\ \A m \in Page : m # q.page => flush'.sent[m] = flush.sent[m]
         /\ There(q.page) => flush'.sent[q.page] = flush.sent[q.page]
         /\ ~There(q.page) => flush'.sent[q.page] = {} /\ native' = native
         /\ native'.tabs = native.tabs /\ native'.views = native.views /\ native'.lost = native.lost
         /\ There(q.page) /\ q.visible => native'.seen = native.seen \cup {q.page}
         /\ There(q.page) /\ ~q.visible => native'.seen = native.seen \ {q.page}
         /\ parting'.panels = parting.panels /\ parting'.undone = parting.undone \ {q.page}
         /\ UNCHANGED <<session, page, panel, opening, closing, leaving>>
<1>1. q \in flush.requests /\ q.page \in Page
  BY DEF TabsTyped, Tabs!SetBounds
<1>2. /\ flush'.requests = flush.requests \ {q}
      /\ flush'.managed = flush.managed /\ flush'.met = flush.met
      /\ \A m \in Page : m # q.page => flush'.sent[m] = flush.sent[m]
      /\ There(q.page) => flush'.sent[q.page] = flush.sent[q.page]
      /\ ~There(q.page) => flush'.sent[q.page] = {}
  BY <1>1 DEF TabsTyped, Tabs!SetBounds, Tabs!IsThere, There
<1>3. ~There(q.page) => native' = native
  BY DEF Tabs!SetBounds, Tabs!IsThere, There
<1>4. ASSUME There(q.page)
      PROVE  /\ native'.tabs = native.tabs /\ native'.views = native.views /\ native'.lost = native.lost
             /\ q.visible => native'.seen = native.seen \cup {q.page}
             /\ ~q.visible => native'.seen = native.seen \ {q.page}
  <2>1. native' = [native EXCEPT !.seen = IF q.visible THEN @ \cup {q.page} ELSE @ \ {q.page}]
    BY <1>4 DEF Tabs!SetBounds, Tabs!IsThere, There
  <2> QED
    BY <2>1 DEF TabsTyped
<1>5. parting'.panels = parting.panels /\ parting'.undone = parting.undone \ {q.page}
  BY DEF TabsTyped, Tabs!SetBounds
<1> QED
  BY <1>5, <1>1, <1>2, <1>3, <1>4 DEF Tabs!SetBounds

LEMMA CloseViewFields ==
  ASSUME TabsTyped, NEW n \in Page, Tabs!CloseView(n)
  PROVE  /\ closing[n] \in {"asked", "reset"}
         /\ closing'[n] = IF closing[n] = "asked" /\ n \in native.tabs THEN "closed" ELSE "no"
         /\ \A m \in Page : m # n => closing'[m] = closing[m]
         /\ native'.tabs = native.tabs /\ native'.lost = native.lost
         /\ closing[n] = "asked" /\ n \notin native.tabs => native' = native
         /\ ~(closing[n] = "asked" /\ n \notin native.tabs) =>
               native'.views = native.views \ {n} /\ native'.seen = native.seen \ {n}
         /\ UNCHANGED <<session, page, panel, opening, flush, parting, leaving>>
BY DEF TabsTyped, Tabs!CloseView

LEMMA RemoveRecordFields ==
  ASSUME TabsTyped, NEW n \in Page, Tabs!RemoveRecord(n)
  PROVE  /\ closing[n] = "closed" /\ closing'[n] = "no"
         /\ \A m \in Page : m # n => closing'[m] = closing[m]
         /\ native'.tabs = native.tabs \ {n} /\ native'.lost = native.lost
         /\ native'.views = native.views /\ native'.seen = native.seen
         /\ UNCHANGED <<session, page, panel, opening, flush, parting, leaving>>
BY DEF TabsTyped, Tabs!RemoveRecord

LEMMA CloseFields ==
  ASSUME TabsTyped, NEW t \in Page, Tabs!CloseTab(t)
  PROVE  /\ \A m \in Page : closing'[m] = IF m = page[t] THEN "asked" ELSE closing[m]
         /\ \A u \in Page : page'[u] = IF u = t THEN Unset ELSE page[u]
         /\ flush'.requests = flush.requests /\ flush'.managed = flush.managed
         /\ flush'.met = flush.met /\ flush'.sent = flush.sent
         /\ UNCHANGED <<opening, parting, native, leaving>>
<1>1. flush'.requests = flush.requests /\ flush'.managed = flush.managed
      /\ flush'.met = flush.met /\ flush'.sent = flush.sent
  BY ScheduleFields, Zenon DEF Tabs!CloseTab
<1> QED
  BY <1>1, Zenon DEF TabsTyped, Tabs!CloseTab

LEMMA RemoveSessionFields ==
  ASSUME TabsTyped, NEW c \in Thread, Tabs!RemoveSession(c)
  PROVE  /\ \A m \in Page : closing'[m] = IF \E t \in Tabs!TabsOf(c) : page[t] = m THEN "asked"
                                          ELSE closing[m]
         /\ leaving' = leaving \cup {c} /\ c \notin leaving
         /\ UNCHANGED <<session, page, panel, opening, flush, parting, native>>
BY DEF Tabs!RemoveSession

LEMMA DropFields ==
  ASSUME TabsTyped, NEW c \in Thread, Tabs!DropSession(c)
  PROVE  /\ c \in leaving /\ leaving' = leaving \ {c}
         /\ \A m \in Page : page'[m] = IF m \in Tabs!TabsOf(c) THEN Unset ELSE page[m]
         /\ Tabs!TabsOf(c)' = {} /\ \A d \in Thread : d # c => session'[d] = session[d]
         /\ flush'.requests = flush.requests /\ flush'.managed = flush.managed
         /\ flush'.met = flush.met /\ flush'.sent = flush.sent
         /\ UNCHANGED <<opening, parting, native, closing>>
<1>1. flush'.requests = flush.requests /\ flush'.managed = flush.managed
      /\ flush'.met = flush.met /\ flush'.sent = flush.sent
  BY ScheduleFields DEF Tabs!DropSession
<1>2. session'[c].tabs = <<>> /\ \A d \in Thread : d # c => session'[d] = session[d]
  BY DEF TabsTyped, Tabs!DropSession
<1>3. Tabs!TabsOf(c)' = {}
  BY <1>2 DEF Tabs!TabsOf
<1> QED
  BY <1>1, <1>2, <1>3 DEF Tabs!DropSession

\* A step that only schedules.
LEMMA OpenFields ==
  ASSUME TabsTyped, NEW c \in Thread, Tabs!OpenTab(c)
  PROVE  /\ flush'.requests = flush.requests /\ flush'.managed = flush.managed
         /\ flush'.met = flush.met /\ flush'.sent = flush.sent
         /\ UNCHANGED <<page, opening, parting, native, closing, leaving>>
BY ScheduleFields DEF Tabs!OpenTab

LEMMA SelectFields ==
  ASSUME TabsTyped, NEW t, Tabs!Select(t)
  PROVE  /\ flush'.requests = flush.requests /\ flush'.managed = flush.managed
         /\ flush'.met = flush.met /\ flush'.sent = flush.sent
         /\ UNCHANGED <<page, opening, parting, native, closing, leaving>>
BY ScheduleFields DEF Tabs!Select, Tabs!Move

LEMMA ShowFields ==
  ASSUME TabsTyped, NEW c \in Thread, Tabs!Show(c)
  PROVE  /\ flush'.requests = flush.requests /\ flush'.managed = flush.managed
         /\ flush'.met = flush.met /\ flush'.sent = flush.sent
         /\ UNCHANGED <<session, page, opening, parting, native, closing, leaving>>
BY ScheduleFields DEF Tabs!Show, Tabs!Move

LEMMA ToggleFields ==
  ASSUME TabsTyped, Tabs!Toggle
  PROVE  /\ flush'.requests = flush.requests /\ flush'.managed = flush.managed
         /\ flush'.met = flush.met /\ flush'.sent = flush.sent
         /\ UNCHANGED <<session, page, opening, parting, native, closing, leaving>>
BY ScheduleFields DEF Tabs!Toggle, Tabs!Move

-----------------------------------------------------------------------------
(* Pages that are being opened. *)

\* What is said of one page.
OpeningApart(n) ==
  Waits(n) =>
     /\ n \notin flush.met /\ closing[n] \in {"no", "reset"}
     /\ \A t \in Page : page[t] # n
     /\ opening[n].heard => /\ closing[n] = "no" /\ n \notin native.lost
                            /\ OpeningOf(n) # "refused" => n \in native.tabs
LostApart(n) == n \in native.lost => n \notin flush.met /\ \A t \in Page : page[t] # n

\* The openings are apart if each is.
LEMMA ApartByPage ==
  TabsTyped => (OpeningsApart <=> \A n \in Page : OpeningApart(n) /\ LostApart(n))
<1>1. TabsTyped => native.lost \subseteq Page
  BY DEF TabsTyped
<1> QED
  BY <1>1 DEF OpeningsApart, OpeningApart, LostApart

LEMMA ApartByPageThen ==
  TabsTyped' /\ (\A n \in Page : OpeningApart(n)' /\ LostApart(n)') => OpeningsApart'
<1>1. TabsTyped' => native'.lost \subseteq Page
  BY DEF TabsTyped
<1> QED
  BY <1>1 DEF OpeningsApart, OpeningApart, LostApart

\* Nothing that matters to it has changed, but that fewer pages are known.
LEMMA OpeningsRest ==
  ASSUME TabsTyped, OpeningsApart, UNCHANGED <<opening, native, closing>>, flush'.met = flush.met,
         \A t \in Page : page'[t] \in {page[t], Unset}
  PROVE  OpeningsApart'
BY BrowserAssumption DEF TabsTyped, OpeningsApart, Waits, OpeningOf

\* Each step that concerns them keeps the openings apart.
LEMMA OpeningsAfterUnmount ==
  ASSUME TabsTyped, OpeningsApart, Tabs!Unmount
  PROVE  OpeningsApart'
<1>1. TabsTyped'
  BY UnmountTyped
<1>2. ASSUME NEW n \in Page
      PROVE  OpeningApart(n)' /\ LostApart(n)'
  <2>1. OpeningApart(n) /\ LostApart(n)
    BY ApartByPage
  <2> QED
    BY <2>1, UnmountFields DEF OpeningApart, LostApart, Waits, OpeningOf
<1> QED
  BY <1>1, <1>2, ApartByPageThen

LEMMA OpeningsAfterReload ==
  ASSUME TabsTyped, OpeningsApart, Tabs!Reload
  PROVE  OpeningsApart'
<1>1. TabsTyped'
  BY ReloadTyped
<1>2. ASSUME NEW n \in Page
      PROVE  OpeningApart(n)' /\ LostApart(n)'
  <2>1. OpeningApart(n) /\ LostApart(n)
    BY ApartByPage
  <2>2. \A t \in Page : page'[t] # n
    BY ReloadFields, BrowserAssumption
  <2>3. opening'[n].stage = opening[n].stage
        /\ (opening[n].stage # "none" => opening'[n].heard = FALSE)
        /\ closing'[n] \in {"reset", closing[n]} /\ flush'.met = flush.met
        /\ (n \in native'.lost => n \in native.lost \/ opening[n].stage = "reserved")
    BY ReloadFields
  <2>4. Waits(n) => ~opening'[n].heard
    BY <2>3, Zenon DEF Waits
  <2> QED
    BY <2>1, <2>2, <2>3, <2>4 DEF OpeningApart, LostApart, Waits, OpeningOf
<1> QED
  BY <1>1, <1>2, ApartByPageThen

LEMMA OpeningsAfterAsk ==
  ASSUME TabsTyped, TabsApart, OpeningsApart, Tabs!AskOpen
  PROVE  OpeningsApart'
<1>1. TabsTyped'
  BY AskTyped
<1>2. PICK n \in Page : AskedFor(n)
  BY AskFacts
<1>3. ASSUME NEW m \in Page
      PROVE  OpeningApart(m)' /\ LostApart(m)'
  <2>1. OpeningApart(m) /\ LostApart(m)
    BY ApartByPage
  <2>2. CASE m = n
    BY <1>2, <2>2 DEF AskedFor, FreshPage, OpeningApart, LostApart, Waits, OpeningOf
  <2>3. CASE m # n
    BY <1>2, <2>1, <2>3 DEF AskedFor, FreshPage, OpeningApart, LostApart, Waits, OpeningOf
  <2> QED
    BY <2>2, <2>3
<1> QED
  BY <1>1, <1>3, ApartByPageThen

LEMMA OpeningsAfterAdd ==
  ASSUME TabsTyped, OpeningsApart, NEW n \in Page, Tabs!AddChild(n)
  PROVE  OpeningsApart'
<1>1. TabsTyped'
  BY AddTyped
<1>3. ASSUME NEW m \in Page
      PROVE  OpeningApart(m)' /\ LostApart(m)'
  <2>1. OpeningApart(m) /\ LostApart(m)
    BY ApartByPage
  <2>2. CASE m = n
    BY <2>1, <2>2, AddFields DEF OpeningApart, LostApart, Waits, OpeningOf
  <2>3. CASE m # n
    BY <2>1, <2>3, AddFields DEF OpeningApart, LostApart, Waits, OpeningOf
  <2> QED
    BY <2>2, <2>3
<1> QED
  BY <1>1, <1>3, ApartByPageThen

LEMMA OpeningsAfterFails ==
  ASSUME TabsTyped, OpeningsApart, NEW n \in Page, Tabs!AddFails(n)
  PROVE  OpeningsApart'
<1>1. TabsTyped'
  BY FailsTyped
<1>3. ASSUME NEW m \in Page
      PROVE  OpeningApart(m)' /\ LostApart(m)'
  <2>1. OpeningApart(m) /\ LostApart(m)
    BY ApartByPage
  <2>2. CASE m = n
    BY <2>1, <2>2, FailsFields DEF OpeningApart, LostApart, Waits, OpeningOf
  <2>3. CASE m # n
    BY <2>1, <2>3, FailsFields DEF OpeningApart, LostApart, Waits, OpeningOf
  <2> QED
    BY <2>2, <2>3
<1> QED
  BY <1>1, <1>3, ApartByPageThen

LEMMA OpeningsAfterAnswer ==
  ASSUME TabsTyped, OpeningsApart, NEW n \in Page, Tabs!Answer(n)
  PROVE  OpeningsApart'
<1>1. TabsTyped'
  BY AnswerTyped
<1>2. page' = page \/ (n \notin native.lost /\ page' = [page EXCEPT ![opening[n].tab] = n])
  BY AnswerFields DEF OpeningsApart, Waits
<1>3. ASSUME NEW m \in Page
      PROVE  OpeningApart(m)' /\ LostApart(m)'
  <2>1. OpeningApart(m) /\ LostApart(m)
    BY ApartByPage
  <2>2. CASE m = n
    <3>1. LostApart(m)'
      <4>1. CASE page' = page
        BY <2>1, <4>1, AnswerFields DEF LostApart
      <4>2. CASE n \notin native.lost
        BY <2>2, <4>2, AnswerFields DEF LostApart
      <4> QED
        BY <1>2, <4>1, <4>2
    <3> QED
      BY <2>2, <3>1, AnswerFields DEF OpeningApart, Waits
  <2>3. CASE m # n
    <3>1. \A t \in Page : page[t] # m => page'[t] # m
      BY <1>2, <2>3 DEF TabsTyped
    <3> QED
      BY <2>1, <2>3, <3>1, AnswerFields DEF OpeningApart, LostApart, Waits, OpeningOf
  <2> QED
    BY <2>2, <2>3
<1> QED
  BY <1>1, <1>3, ApartByPageThen

LEMMA OpeningsAfterRound ==
  ASSUME TabsTyped, OpeningsApart, Tabs!FlushBegin
  PROVE  OpeningsApart'
<1>1. TabsTyped'
  BY RoundTyped
<1>2. AskedRound
  BY RoundFacts
<1>3. \A n \in Page : (\A t \in Page : page[t] # n) => n \notin Known(panel.shown)
  BY TabsArePages DEF Known, TabsTyped
<1>4. ASSUME NEW m \in Page
      PROVE  OpeningApart(m)' /\ LostApart(m)'
  <2>1. OpeningApart(m) /\ LostApart(m)
    BY ApartByPage
  <2> QED
    BY <1>2, <1>3, <2>1 DEF AskedRound, OpeningApart, LostApart, Waits, OpeningOf
<1> QED
  BY <1>1, <1>4, ApartByPageThen

LEMMA OpeningsAfterSet ==
  ASSUME TabsTyped, OpeningsApart, NEW q, Tabs!SetBounds(q)
  PROVE  OpeningsApart'
<1>1. TabsTyped'
  BY SetTyped
<1>4. ASSUME NEW m \in Page
      PROVE  OpeningApart(m)' /\ LostApart(m)'
  <2>1. OpeningApart(m) /\ LostApart(m)
    BY ApartByPage
  <2> QED
    BY <2>1, SetFields DEF OpeningApart, LostApart, Waits, OpeningOf
<1> QED
  BY <1>1, <1>4, ApartByPageThen

LEMMA OpeningsAfterLate ==
  ASSUME TabsTyped, OpeningsApart, NEW l, NEW q, Tabs!LateBounds(l, q)
  PROVE  OpeningsApart'
<1>1. TabsTyped'
  BY LateTyped
<1>2. native'.tabs = native.tabs /\ native'.lost = native.lost
      /\ UNCHANGED <<page, opening, flush, closing>>
  BY LateFields
<1>3. ASSUME NEW m \in Page
      PROVE  OpeningApart(m)' /\ LostApart(m)'
  <2>1. OpeningApart(m) /\ LostApart(m)
    BY ApartByPage
  <2> QED
    BY <1>2, <2>1 DEF OpeningApart, LostApart, Waits, OpeningOf
<1> QED
  BY <1>1, <1>3, ApartByPageThen

LEMMA OpeningsAfterView ==
  ASSUME TabsTyped, OpeningsApart, NEW n \in Page, Tabs!CloseView(n)
  PROVE  OpeningsApart'
<1>1. TabsTyped'
  BY CloseViewTyped
<1>4. ASSUME NEW m \in Page
      PROVE  OpeningApart(m)' /\ LostApart(m)'
  <2>1. OpeningApart(m) /\ LostApart(m)
    BY ApartByPage
  <2>2. UNCHANGED <<session, page, panel, opening, flush, leaving>>
        /\ native'.tabs = native.tabs /\ native'.lost = native.lost
    BY CloseViewFields
  <2>3. CASE m = n
    <3>1. closing[n] \in {"asked", "reset"}
          /\ closing'[n] = IF closing[n] = "asked" /\ n \in native.tabs THEN "closed" ELSE "no"
      BY CloseViewFields
    <3> QED
      BY <2>1, <2>2, <2>3, <3>1 DEF OpeningApart, LostApart, Waits, OpeningOf
  <2>4. CASE m # n
    <3>1. closing'[m] = closing[m]
      BY <2>4, CloseViewFields
    <3> QED
      BY <2>1, <2>2, <3>1 DEF OpeningApart, LostApart, Waits, OpeningOf
  <2> QED
    BY <2>3, <2>4
<1> QED
  BY <1>1, <1>4, ApartByPageThen

LEMMA OpeningsAfterRecord ==
  ASSUME TabsTyped, OpeningsApart, NEW n \in Page, Tabs!RemoveRecord(n)
  PROVE  OpeningsApart'
<1>1. TabsTyped'
  BY RemoveRecordTyped
<1>4. ASSUME NEW m \in Page
      PROVE  OpeningApart(m)' /\ LostApart(m)'
  <2>1. OpeningApart(m) /\ LostApart(m)
    BY ApartByPage
  <2>3. CASE m = n
    BY <2>1, <2>3, RemoveRecordFields DEF OpeningApart, LostApart, Waits, OpeningOf
  <2>4. CASE m # n
    BY <2>1, <2>4, RemoveRecordFields DEF OpeningApart, LostApart, Waits, OpeningOf
  <2> QED
    BY <2>3, <2>4
<1> QED
  BY <1>1, <1>4, ApartByPageThen

LEMMA OpeningsAfterClose ==
  ASSUME TabsTyped, TabsApart, OpeningsApart, NEW t \in Page, Tabs!CloseTab(t)
  PROVE  OpeningsApart'
<1>1. TabsTyped'
  BY CloseTyped
<1>4. ASSUME NEW m \in Page
      PROVE  OpeningApart(m)' /\ LostApart(m)'
  <2>1. OpeningApart(m) /\ LostApart(m)
    BY ApartByPage
  <2>2. (\A u \in Page : page[u] # m) => closing'[m] = closing[m] /\ \A u \in Page : page'[u] # m
    BY CloseFields, BrowserAssumption
  <2>3. flush'.met = flush.met /\ UNCHANGED <<opening, native, leaving>>
    BY CloseFields
  <2> QED
    BY <2>1, <2>2, <2>3 DEF OpeningApart, LostApart, Waits, OpeningOf
<1> QED
  BY <1>1, <1>4, ApartByPageThen

LEMMA OpeningsAfterRemoval ==
  ASSUME TabsTyped, OpeningsApart, NEW c \in Thread, Tabs!RemoveSession(c)
  PROVE  OpeningsApart'
<1>1. TabsTyped'
  BY RemoveSessionTyped
<1>4. ASSUME NEW m \in Page
      PROVE  OpeningApart(m)' /\ LostApart(m)'
  <2>1. OpeningApart(m) /\ LostApart(m)
    BY ApartByPage
  <2>2. (\A u \in Page : page[u] # m) => closing'[m] = closing[m]
    BY RemoveSessionFields, TabsArePages
  <2>3. UNCHANGED <<session, page, panel, opening, flush, native>>
    BY RemoveSessionFields
  <2> QED
    BY <2>1, <2>2, <2>3 DEF OpeningApart, LostApart, Waits, OpeningOf
<1> QED
  BY <1>1, <1>4, ApartByPageThen

-----------------------------------------------------------------------------
(* The registry and the webviews. *)

\* Nothing of the page has changed.
LEMMA RegisteredRests ==
  ASSUME NEW n, Recorded(n), native' = native, closing'[n] = closing[n],
         opening'[n].stage = opening[n].stage
  PROVE  Recorded(n)'
BY DEF Recorded, OpeningOf

\* Each step keeps the registry and the webviews together.
LEMMA RegisteredAfterReload ==
  ASSUME TabsTyped, NEW n \in Page, Recorded(n), Tabs!Reload
  PROVE  Recorded(n)'
<1>1. opening'[n].stage = opening[n].stage
      /\ native'.tabs = {} /\ native'.views = native.views /\ native'.seen = native.seen
      /\ (n \in native'.lost <=> n \in native.lost \/ (n \in native.tabs /\ opening[n].stage = "reserved"))
      /\ closing'[n] = IF n \in native.tabs THEN "reset" ELSE closing[n]
  BY ReloadFields
<1> QED
  BY <1>1 DEF Recorded, OpeningOf

LEMMA RegisteredAfterAsk ==
  ASSUME TabsTyped, TabsApart, NEW n \in Page, Recorded(n), Tabs!AskOpen
  PROVE  Recorded(n)'
<1>1. PICK m \in Page : AskedFor(m)
  BY AskFacts
<1>2. CASE m = n
  BY <1>1, <1>2 DEF AskedFor, FreshPage, Recorded, OpeningOf
<1>3. CASE m # n
  BY <1>1, <1>3 DEF AskedFor, Recorded, OpeningOf
<1> QED
  BY <1>2, <1>3

LEMMA RegisteredAfterAdd ==
  ASSUME TabsTyped, OpeningsApart, NEW n \in Page, Recorded(n), NEW m \in Page, Tabs!AddChild(m)
  PROVE  Recorded(n)'
<1>1. opening[m].stage = "reserved" => closing[m] \in {"no", "reset"}
  BY DEF OpeningsApart, Waits
<1>2. CASE m = n
  BY <1>1, <1>2, AddFields DEF Recorded, OpeningOf
<1>3. CASE m # n
  BY <1>3, AddFields DEF Recorded, OpeningOf
<1> QED
  BY <1>2, <1>3

LEMMA RegisteredAfterFails ==
  ASSUME TabsTyped, OpeningsApart, NEW n \in Page, Recorded(n), NEW m \in Page, Tabs!AddFails(m)
  PROVE  Recorded(n)'
<1>1. opening[m].stage = "reserved" => closing[m] \in {"no", "reset"}
  BY DEF OpeningsApart, Waits
<1>2. CASE m = n
  BY <1>1, <1>2, FailsFields DEF Recorded, OpeningOf
<1>3. CASE m # n
  BY <1>3, FailsFields DEF Recorded, OpeningOf
<1> QED
  BY <1>2, <1>3

LEMMA RegisteredAfterAnswer ==
  ASSUME TabsTyped, NEW n \in Page, Recorded(n), NEW m \in Page, Tabs!Answer(m)
  PROVE  Recorded(n)'
<1>2. CASE m = n
  BY <1>2, AnswerFields DEF Recorded, OpeningOf
<1>3. CASE m # n
  BY <1>3, AnswerFields DEF Recorded, OpeningOf
<1> QED
  BY <1>2, <1>3

LEMMA RegisteredAfterSet ==
  ASSUME TabsTyped, NEW n \in Page, Recorded(n), NEW q, Tabs!SetBounds(q)
  PROVE  Recorded(n)'
<1>1. native'.tabs = native.tabs /\ native'.views = native.views /\ native'.lost = native.lost
      /\ UNCHANGED <<opening, closing>>
  BY SetFields
<1>2. n \in native'.seen => n \in native.views
  <2>1. native' = native \/ (q.visible /\ native'.seen = native.seen \cup {q.page} /\ q.page \in native.views)
        \/ (~q.visible /\ native'.seen = native.seen \ {q.page})
    BY SetFields DEF There
  <2> QED
    BY <2>1 DEF Recorded
<1> QED
  BY <1>1, <1>2 DEF Recorded, OpeningOf

LEMMA RegisteredAfterLate ==
  ASSUME TabsTyped, NEW n \in Page, Recorded(n), NEW l, NEW q, Tabs!LateBounds(l, q)
  PROVE  Recorded(n)'
<1>1. native'.tabs = native.tabs /\ native'.views = native.views /\ native'.lost = native.lost
      /\ UNCHANGED <<opening, closing>>
  BY LateFields
<1>2. n \in native'.seen => n \in native.views
  <2>1. native' = native \/ (q.visible /\ native'.seen = native.seen \cup {q.page} /\ q.page \in native.views)
        \/ (~q.visible /\ native'.seen = native.seen \ {q.page})
    BY LateFields DEF There
  <2> QED
    BY <2>1 DEF Recorded
<1> QED
  BY <1>1, <1>2 DEF Recorded, OpeningOf

LEMMA RegisteredAfterView ==
  ASSUME TabsTyped, NEW n \in Page, Recorded(n), NEW m \in Page, Tabs!CloseView(m)
  PROVE  Recorded(n)'
<1>1. UNCHANGED opening /\ native'.tabs = native.tabs /\ native'.lost = native.lost
  BY CloseViewFields
<1>2. native' = native \/ (native'.views = native.views \ {m} /\ native'.seen = native.seen \ {m})
  BY CloseViewFields
<1>3. CASE m = n
  <2>1. CASE closing[m] = "asked" /\ n \notin native.tabs
    <3>1. closing'[m] = "no" /\ native' = native
      BY <1>3, <2>1, CloseViewFields
    <3> QED
      BY <1>1, <1>3, <2>1, <3>1 DEF Recorded, OpeningOf
  <2>2. CASE ~(closing[m] = "asked" /\ n \notin native.tabs)
    <3>1. native'.views = native.views \ {m} /\ native'.seen = native.seen \ {m}
          /\ closing[m] \in {"asked", "reset"}
          /\ closing'[m] = IF closing[m] = "asked" THEN "closed" ELSE "no"
      BY <1>3, <2>2, CloseViewFields
    <3> QED
      BY <1>1, <1>3, <2>2, <3>1 DEF Recorded, OpeningOf
  <2> QED
    BY <2>1, <2>2
<1>4. CASE m # n
  <2>1. closing'[n] = closing[n]
    BY <1>4, CloseViewFields
  <2> QED
    BY <1>1, <1>2, <1>4, <2>1 DEF Recorded, OpeningOf
<1> QED
  BY <1>3, <1>4

LEMMA RegisteredAfterRecord ==
  ASSUME TabsTyped, OpeningsApart, NEW n \in Page, Recorded(n), NEW m \in Page, Tabs!RemoveRecord(m)
  PROVE  Recorded(n)'
<1>1. opening[m].stage # "none" => closing[m] \in {"no", "reset"}
  BY DEF OpeningsApart, Waits
<1>2. CASE m = n
  BY <1>1, <1>2, RemoveRecordFields DEF Recorded, OpeningOf
<1>3. CASE m # n
  BY <1>3, RemoveRecordFields DEF Recorded, OpeningOf
<1> QED
  BY <1>2, <1>3

\* A page that a tab of this Chat knows is open, and nobody closes it yet.
LEMMA RegisteredWhenAsked ==
  ASSUME OpeningsApart, KnownAreOpen, NEW n \in Page, Recorded(n), UNCHANGED <<opening, native>>,
         NEW c \in Thread, c \notin leaving, NEW t \in Tabs!TabsOf(c), t \in Page, page[t] = n,
         closing'[n] = "asked"
  PROVE  Recorded(n)'
<1>1. n # Unset
  BY BrowserAssumption
<1>2. closing[n] = "no"
  BY <1>1 DEF KnownAreOpen
<1>3. opening[n].stage = "none"
  BY DEF OpeningsApart, Waits
<1> QED
  BY <1>2, <1>3 DEF Recorded, OpeningOf

LEMMA RegisteredAfterClose ==
  ASSUME TabsTyped, TabsApart, OpeningsApart, KnownAreOpen, NEW n \in Page, Recorded(n),
         NEW t \in Page, Tabs!CloseTab(t)
  PROVE  Recorded(n)'
<1>1. UNCHANGED <<opening, native>> /\ closing'[n] = IF n = page[t] THEN "asked" ELSE closing[n]
  BY CloseFields
<1>2. panel.shown \in Thread /\ t \in Tabs!TabsOf(panel.shown) /\ panel.shown \notin leaving
  BY Zenon DEF Tabs!CloseTab, TabsTyped
<1>3. CASE n = page[t]
  BY <1>1, <1>2, <1>3, RegisteredWhenAsked
<1>4. CASE n # page[t]
  BY <1>1, <1>4, RegisteredRests
<1> QED
  BY <1>3, <1>4

LEMMA RegisteredAfterRemoval ==
  ASSUME TabsTyped, OpeningsApart, KnownAreOpen, NEW n \in Page, Recorded(n),
         NEW c \in Thread, Tabs!RemoveSession(c)
  PROVE  Recorded(n)'
<1>1. UNCHANGED <<opening, native>> /\ c \notin leaving
      /\ closing'[n] = IF \E t \in Tabs!TabsOf(c) : page[t] = n THEN "asked" ELSE closing[n]
  BY RemoveSessionFields
<1>3. CASE \E t \in Tabs!TabsOf(c) : page[t] = n
  <2>1. PICK t \in Tabs!TabsOf(c) : page[t] = n
    BY <1>3
  <2>2. t \in Page
    BY TabsArePages
  <2> QED
    BY <1>1, <1>3, <2>1, <2>2, RegisteredWhenAsked
<1>4. CASE ~\E t \in Tabs!TabsOf(c) : page[t] = n
  BY <1>1, <1>4, RegisteredRests
<1> QED
  BY <1>3, <1>4

-----------------------------------------------------------------------------
(* The pages that tabs know. *)

\* What is known, of one tab.
LEMMA KnownStay ==
  ASSUME NEW c \in Thread, NEW t \in Tabs!TabsOf(c), KnownAreOpen, c \notin leaving, page[t] # Unset
  PROVE  page[t] \in native.tabs /\ closing[page[t]] = "no"
BY DEF KnownAreOpen

\* The tabs, what they know and the registry are as they were.
LEMMA KnownRest ==
  ASSUME KnownAreOpen, native.tabs \subseteq native'.tabs, UNCHANGED <<page, closing, leaving>>,
         \A c \in Thread : session'[c].tabs = session[c].tabs
  PROVE  KnownAreOpen'
<1>1. \A c \in Thread : Tabs!TabsOf(c)' = Tabs!TabsOf(c)
  BY SameTabs
<1> QED
  BY <1>1 DEF KnownAreOpen

\* A step that changes what is known leaves it open.
LEMMA KnownAfterOpen ==
  ASSUME TabsTyped, TabsApart, KnownAreOpen, NEW c \in Thread, Tabs!OpenTab(c)
  PROVE  KnownAreOpen'
<1>1. PICK t \in Page : OpensTab(c, t)
  BY OpenFacts
<1>2. \A d \in Thread : d # c => Tabs!TabsOf(d)' = Tabs!TabsOf(d)
  BY <1>1, SameTabs DEF OpensTab
<1>3. Tabs!TabsOf(c)' = Tabs!TabsOf(c) \cup {t} /\ UNCHANGED <<page, native, closing, leaving>>
  BY <1>1 DEF OpensTab
<1>4. page[t] = Unset
  BY <1>1 DEF OpensTab, TabsApart
<1> QED
  BY <1>2, <1>3, <1>4 DEF KnownAreOpen

LEMMA KnownAfterSelect ==
  ASSUME TabsTyped, KnownAreOpen, NEW t, Tabs!Select(t)
  PROVE  KnownAreOpen'
<1>1. \A d \in Thread : session'[d].tabs = session[d].tabs
  BY DEF TabsTyped, Tabs!Select
<1> QED
  BY <1>1, SelectFields, KnownRest

LEMMA KnownAfterClose ==
  ASSUME TabsTyped, TabsApart, KnownAreOpen, NEW t \in Page, Tabs!CloseTab(t)
  PROVE  KnownAreOpen'
<1>1. PICK c \in Thread : c = panel.shown
  BY DEF TabsTyped
<1>2. panel'.shown = panel.shown
  BY Zenon DEF Tabs!CloseTab, TabsTyped
<1>3. Tabs!TabsOf(c)' = Tabs!TabsOf(c) \ {t}
  BY <1>1, <1>2, CloseTabs
<1>4. \A d \in Thread : d # c => Tabs!TabsOf(d)' = Tabs!TabsOf(d)
  BY <1>1, CloseTabs, SameTabs
<1> SUFFICES ASSUME NEW d \in Thread, d \notin leaving', NEW u \in Tabs!TabsOf(d)', page'[u] # Unset
             PROVE  page'[u] \in native'.tabs /\ closing'[page'[u]] = "no"
  BY DEF KnownAreOpen
<1>5. u \in Tabs!TabsOf(d) /\ d \notin leaving
  BY <1>3, <1>4, CloseFields
<1>6. u \in Page
  BY <1>5, TabsArePages
<1>7. u # t /\ page'[u] = page[u]
  BY <1>6, CloseFields
<1>8. page[u] # page[t] /\ page[u] \in Page
  BY <1>6, <1>7, ApartFacts DEF TabsTyped
<1>9. page[u] \in native.tabs /\ closing[page[u]] = "no"
  BY <1>5, <1>7, KnownStay
<1> QED
  BY <1>7, <1>8, <1>9, CloseFields

LEMMA KnownAfterRemoval ==
  ASSUME TabsTyped, TabsApart, KnownAreOpen, NEW c \in Thread, Tabs!RemoveSession(c)
  PROVE  KnownAreOpen'
<1>1. \A d \in Thread : Tabs!TabsOf(d)' = Tabs!TabsOf(d)
  BY RemoveSessionFields, SameTabs
<1> SUFFICES ASSUME NEW d \in Thread, d \notin leaving', NEW u \in Tabs!TabsOf(d)', page'[u] # Unset
             PROVE  page'[u] \in native'.tabs /\ closing'[page'[u]] = "no"
  BY DEF KnownAreOpen
<1>5. u \in Tabs!TabsOf(d) /\ d \notin leaving /\ d # c /\ page' = page /\ native' = native
  BY <1>1, RemoveSessionFields
<1>6. u \in Page /\ page[u] \in Page
  BY <1>5, TabsArePages DEF TabsTyped
<1>7. \A v \in Tabs!TabsOf(c) : page[v] # page[u]
  <2> SUFFICES ASSUME NEW v \in Tabs!TabsOf(c), page[v] = page[u] PROVE FALSE
    OBVIOUS
  <2>1. v \in Page
    BY TabsArePages
  <2>2. v = u
    BY <1>5, <1>6, <2>1, ApartFacts
  <2>3. Tabs!TabsOf(c) \cap Tabs!TabsOf(d) = {}
    BY <1>5, ApartFacts
  <2> QED
    BY <1>5, <2>2, <2>3
<1>9. page[u] \in native.tabs /\ closing[page[u]] = "no"
  BY <1>5, KnownStay
<1>10. closing'[page[u]] = closing[page[u]]
  BY <1>6, <1>7, RemoveSessionFields
<1> QED
  BY <1>5, <1>9, <1>10

LEMMA KnownAfterDrop ==
  ASSUME TabsTyped, TabsApart, KnownAreOpen, NEW c \in Thread, Tabs!DropSession(c)
  PROVE  KnownAreOpen'
<1>1. \A d \in Thread : d # c => Tabs!TabsOf(d)' = Tabs!TabsOf(d)
  BY DropFields, SameTabs
<1> SUFFICES ASSUME NEW d \in Thread, d \notin leaving', NEW u \in Tabs!TabsOf(d)', page'[u] # Unset
             PROVE  page'[u] \in native'.tabs /\ closing'[page'[u]] = "no"
  BY DEF KnownAreOpen
<1>2. d # c
  BY DropFields
<1>5. u \in Tabs!TabsOf(d) /\ d \notin leaving /\ closing' = closing /\ native' = native
  BY <1>1, <1>2, DropFields
<1>6. u \in Page
  BY <1>5, TabsArePages
<1>7. page'[u] = page[u]
  BY <1>6, DropFields
<1> QED
  BY <1>5, <1>7, KnownStay

LEMMA KnownAfterReload ==
  ASSUME TabsTyped, Tabs!Reload
  PROVE  KnownAreOpen'
<1>1. \A d \in Thread : Tabs!TabsOf(d)' = {}
  <2>1. \A d \in Thread : session'[d].tabs = <<>>
    BY Zenon DEF Tabs!Reload
  <2> QED
    BY <2>1 DEF Tabs!TabsOf
<1> QED
  BY <1>1 DEF KnownAreOpen

LEMMA KnownAfterAsk ==
  ASSUME TabsTyped, TabsApart, KnownAreOpen, Tabs!AskOpen
  PROVE  KnownAreOpen'
<1>1. PICK n \in Page : AskedFor(n)
  BY AskFacts
<1>2. native.tabs \subseteq native'.tabs /\ UNCHANGED <<session, page, closing, leaving>>
  BY <1>1 DEF AskedFor
<1> QED
  BY <1>2, KnownRest

LEMMA KnownAfterFails ==
  ASSUME TabsTyped, OpeningsApart, KnownAreOpen, NEW n \in Page, Tabs!AddFails(n)
  PROVE  KnownAreOpen'
<1>1. UNCHANGED <<session, page, closing, leaving>> /\ native'.tabs = native.tabs \ {n}
  BY FailsFields
<1>2. \A d \in Thread : Tabs!TabsOf(d)' = Tabs!TabsOf(d)
  BY <1>1, SameTabs
<1>3. \A t \in Page : page[t] # n
  BY FailsFields DEF OpeningsApart, Waits
<1> QED
  BY <1>1, <1>2, <1>3, TabsArePages DEF KnownAreOpen

LEMMA KnownAfterAnswer ==
  ASSUME TabsTyped, OpeningsApart, KnownAreOpen, NEW n \in Page, Tabs!Answer(n)
  PROVE  KnownAreOpen'
<1>1. UNCHANGED <<session, native, closing, leaving>>
  BY AnswerFields
<1>2. \A d \in Thread : Tabs!TabsOf(d)' = Tabs!TabsOf(d)
  BY <1>1, SameTabs
<1>3. CASE page' = page
  BY <1>1, <1>3, KnownRest
<1>4. CASE opening[n].stage = "added" /\ opening[n].heard /\ page' = [page EXCEPT ![opening[n].tab] = n]
  <2>1. closing[n] = "no" /\ n \in native.tabs
    BY <1>4 DEF OpeningsApart, Waits, OpeningOf
  <2> QED
    BY <1>1, <1>2, <1>4, <2>1, TabsArePages DEF KnownAreOpen, TabsTyped
<1> QED
  BY <1>3, <1>4, AnswerFields

LEMMA KnownAfterView ==
  ASSUME TabsTyped, KnownAreOpen, NEW n \in Page, Tabs!CloseView(n)
  PROVE  KnownAreOpen'
<1>1. UNCHANGED <<session, page, leaving>> /\ native'.tabs = native.tabs
      /\ closing[n] # "no" /\ \A m \in Page : m # n => closing'[m] = closing[m]
  BY CloseViewFields
<1>2. \A d \in Thread : Tabs!TabsOf(d)' = Tabs!TabsOf(d)
  BY <1>1, SameTabs
<1> QED
  BY <1>1, <1>2, TabsArePages DEF KnownAreOpen, TabsTyped

LEMMA KnownAfterRecord ==
  ASSUME TabsTyped, KnownAreOpen, NEW n \in Page, Tabs!RemoveRecord(n)
  PROVE  KnownAreOpen'
<1>1. UNCHANGED <<session, page, leaving>> /\ native'.tabs = native.tabs \ {n}
      /\ closing[n] # "no" /\ \A m \in Page : m # n => closing'[m] = closing[m]
  BY RemoveRecordFields
<1>2. \A d \in Thread : Tabs!TabsOf(d)' = Tabs!TabsOf(d)
  BY <1>1, SameTabs
<1> QED
  BY <1>1, <1>2, TabsArePages DEF KnownAreOpen, TabsTyped

-----------------------------------------------------------------------------
(* What was asked of the pages. *)

\* A page that is still to be hidden or to be shown.
Hidden(n) == \E q \in flush.requests : q.page = n /\ ~q.visible
Revealed(n) == \E q \in flush.requests : q.page = n /\ q.visible

\* What is said of one page, and of the account itself.
AskedSeen(n) ==
  n \in flush.met /\ n \in native.seen =>
     flush.sent[n] = {TRUE} \/ closing[n] # "no" \/ Hidden(n) \/ LateHidden(n)
AskedShown(n) ==
  flush.sent[n] = {TRUE} => n \in native.seen \/ ~There(n) \/ n \in parting.undone \/ Revealed(n)
Requests ==
  /\ flush.managed \subseteq flush.met
  /\ \A n \in Page : flush.sent[n] # {} => n \in flush.managed
  /\ \A q \in flush.requests :
        (q.visible => flush.sent[q.page] = {TRUE}) /\ (~q.visible => flush.sent[q.page] # {TRUE})
  /\ \A q, r \in flush.requests : q.page = r.page => q = r

LEMMA AskedByPage ==
  ASSUME TabsTyped
  PROVE  AsksFit <=> Requests /\ LateFit /\ \A n \in Page : AskedSeen(n) /\ AskedShown(n)
<1>1. flush.met \subseteq Page
  BY DEF TabsTyped
<1> QED
  BY <1>1, Zenon DEF AsksFit, Requests, AskedSeen, AskedShown, Hidden, Revealed

LEMMA AskedByPageThen ==
  ASSUME TabsTyped', Requests', LateFit', \A n \in Page : AskedSeen(n)' /\ AskedShown(n)'
  PROVE  AsksFit'
<1>1. flush'.met \subseteq Page
  BY DEF TabsTyped
<1> QED
  BY <1>1, Zenon DEF AsksFit, Requests, AskedSeen, AskedShown, Hidden, Revealed

\* A page that is met and seen has a record until it is being closed.
LEMMA SeenHasRecord ==
  ASSUME OpeningsApart, NEW n \in Page, Recorded(n), n \in flush.met, n \in native.seen,
         closing[n] \in {"no", "asked"}
  PROVE  n \in native.tabs /\ n \in native.views
<1>1. opening[n].stage = "none" /\ n \notin native.lost
  BY DEF OpeningsApart, Waits
<1> QED
  BY <1>1 DEF Recorded, OpeningOf

\* The panel's account is as it was.
LEMMA RequestsRest ==
  ASSUME flush'.requests = flush.requests, flush'.managed = flush.managed,
         flush'.met = flush.met, flush'.sent = flush.sent
  PROVE  /\ Requests => Requests'
         /\ \A n : (Hidden(n)' <=> Hidden(n)) /\ (Revealed(n)' <=> Revealed(n))
BY DEF Requests, Hidden, Revealed

\* What the panels that are gone still ask is as it was.
LEMMA LateRest ==
  ASSUME parting'.panels = parting.panels
  PROVE  (LateFit => LateFit') /\ \A n : LateHidden(n)' <=> LateHidden(n)
BY DEF LateFit, LateHidden

\* Nothing was asked and nothing shown, but pages may be closed.
LEMMA AskedRest ==
  ASSUME TabsTyped, TabsTyped', AsksFit, flush'.requests = flush.requests,
         flush'.managed = flush.managed, flush'.met = flush.met, flush'.sent = flush.sent,
         native' = native, parting' = parting, \A n \in Page : closing'[n] \in {closing[n], "asked"}
  PROVE  AsksFit'
<1>1. Requests /\ LateFit /\ \A n \in Page : AskedSeen(n) /\ AskedShown(n)
  BY AskedByPage
<1>2. Requests' /\ LateFit' /\ \A n : LateHidden(n)' <=> LateHidden(n)
  BY <1>1, RequestsRest, LateRest
<1>3. ASSUME NEW n \in Page
      PROVE  AskedSeen(n)' /\ AskedShown(n)'
  <2>1. There(n)' <=> There(n)
    BY DEF There
  <2>2. (Hidden(n)' <=> Hidden(n)) /\ (Revealed(n)' <=> Revealed(n))
    BY RequestsRest
  <2>3. closing[n] # "no" => closing'[n] # "no"
    OBVIOUS
  <2> QED
    BY <1>1, <1>2, <2>1, <2>2, <2>3 DEF AskedSeen, AskedShown
<1> QED
  BY <1>2, <1>3, AskedByPageThen

\* A panel that comes back has asked nothing yet.
LEMMA AskedAfterMount ==
  ASSUME TabsTyped, AsksFit, Tabs!Mount
  PROVE  AsksFit'
<1>1. TabsTyped'
  BY MountTyped
<1> QED
  BY <1>1, MountFields, AskedRest

\* A panel that goes is to hide what it showed.
LEMMA AskedAfterUnmount ==
  ASSUME TabsTyped, AsksFit, Tabs!Unmount
  PROVE  AsksFit'
<1>1. TabsTyped'
  BY UnmountTyped
<1>2. moves' \in Nat
  BY <1>1 DEF TabsTyped
<1>3. Requests /\ LateFit /\ \A n \in Page : AskedSeen(n) /\ AskedShown(n)
  BY AskedByPage
<1>4. PICK l \in LatePanel :
        /\ l.requests = flush.requests
        /\ \A n \in flush.managed : flush.sent[n] # {FALSE} => n \in l.hides
        /\ \/ parting' = [parting EXCEPT !.panels = @ \cup {l}]
           \/ parting' = parting /\ flush.requests = {} /\ l.hides = {}
  BY <1>2, LastFlush
<1>5. /\ \/ parting'.panels = parting.panels \cup {l}
         \/ parting'.panels = parting.panels /\ flush.requests = {} /\ l.hides = {}
      /\ parting'.undone = parting.undone
  BY <1>4 DEF TabsTyped
<1>6. {TRUE} # {FALSE} /\ {TRUE} # {}
  BY Zenon
<1>7. \A n \in Page : flush.sent[n] = {TRUE} => n \in l.hides
  BY <1>3, <1>4, <1>6 DEF Requests
<1>8. \A q \in l.requests : q.visible => q.page \in l.hides
  <2> SUFFICES ASSUME NEW q \in l.requests, q.visible PROVE q.page \in l.hides
    OBVIOUS
  <2>1. flush.sent[q.page] = {TRUE}
    BY <1>3, <1>4 DEF Requests
  <2>2. q.page \in Page
    BY <1>4 DEF TabsTyped
  <2> QED
    BY <1>7, <2>1, <2>2
<1>9. LateFit'
  BY <1>3, <1>5, <1>8 DEF LateFit
<1>10. Requests'
  BY UnmountFields DEF Requests
<1>11. \A n : LateHidden(n) => LateHidden(n)'
  BY <1>5 DEF LateHidden
<1>12. \A n : n \in l.hides => LateHidden(n)'
  BY <1>5 DEF LateHidden
<1>13. \A n : Hidden(n) => LateHidden(n)'
  BY <1>4, <1>5 DEF LateHidden, Hidden
<1>14. ASSUME NEW n \in Page
       PROVE  AskedSeen(n)' /\ AskedShown(n)'
  <2>1. flush'.sent[n] = {} /\ flush'.met = flush.met /\ UNCHANGED <<native, closing>>
    BY UnmountFields
  <2> QED
    BY <1>3, <1>6, <1>7, <1>11, <1>12, <1>13, <2>1 DEF AskedSeen, AskedShown
<1> QED
  BY <1>1, <1>9, <1>10, <1>14, AskedByPageThen

\* A page that is seen when the renderer begins again is being closed.
LEMMA AskedAfterReload ==
  ASSUME TabsTyped, OpeningsApart, \A n \in Page : Recorded(n), AsksFit, Tabs!Reload
  PROVE  AsksFit'
<1>1. TabsTyped'
  BY ReloadTyped
<1>5. Requests' /\ LateFit'
  BY ReloadFields DEF Requests, LateFit
<1>6. ASSUME NEW n \in Page
      PROVE  AskedSeen(n)' /\ AskedShown(n)'
  <2>1. flush'.sent[n] = {} /\ flush'.met = flush.met /\ native'.seen = native.seen
        /\ closing'[n] = IF n \in native.tabs THEN "reset" ELSE closing[n]
    BY ReloadFields
  <2>2. Recorded(n) /\ closing[n] \in {"no", "asked", "reset", "closed"}
    BY DEF TabsTyped
  <2>3. n \in flush.met /\ n \in native.seen => closing'[n] # "no"
    BY <2>1, <2>2, SeenHasRecord
  <2> QED
    BY <2>1, <2>3 DEF AskedSeen, AskedShown
<1> QED
  BY <1>1, <1>5, <1>6, AskedByPageThen

\* A new page was asked nothing.
LEMMA AskedAfterAsk ==
  ASSUME TabsTyped, TabsApart, AsksFit, Tabs!AskOpen
  PROVE  AsksFit'
<1>1. TabsTyped'
  BY AskTyped
<1>2. PICK m \in Page : AskedFor(m)
  BY AskFacts
<1>3. /\ m \notin native.views /\ m \notin flush.managed
      /\ flush'.met = flush.met \ {m} /\ flush'.requests = flush.requests
      /\ flush'.managed = flush.managed /\ flush'.sent = flush.sent
      /\ native'.views = native.views /\ native'.seen = native.seen
      /\ native'.tabs \in {native.tabs, native.tabs \cup {m}} /\ closing' = closing
      /\ parting'.panels = parting.panels /\ parting'.undone = parting.undone \ {m}
  BY <1>2 DEF AskedFor, FreshPage
<1>4. Requests /\ LateFit /\ \A n \in Page : AskedSeen(n) /\ AskedShown(n)
  BY AskedByPage
<1>20. LateFit' /\ \A n : LateHidden(n)' <=> LateHidden(n)
  BY <1>3, <1>4, LateRest
<1>21. flush.sent[m] = {}
  BY <1>3, <1>4 DEF Requests
<1>5. Requests'
  BY <1>3, <1>4 DEF Requests
<1>6. ASSUME NEW n \in Page
      PROVE  AskedSeen(n)' /\ AskedShown(n)'
  <2>1. There(n)' <=> There(n)
    BY <1>3 DEF There
  <2>2. (Hidden(n)' <=> Hidden(n)) /\ (Revealed(n)' <=> Revealed(n))
    BY <1>3 DEF Hidden, Revealed
  <2>3. AskedSeen(n)'
    BY <1>3, <1>4, <1>20, <2>2 DEF AskedSeen
  <2>4. AskedShown(n)'
    <3>1. CASE n = m
      <4>1. flush'.sent[n] = {} /\ {TRUE} # {}
        BY <1>3, <1>21, <3>1
      <4> QED
        BY <4>1 DEF AskedShown
    <3>2. CASE n # m
      BY <1>3, <1>4, <2>1, <2>2, <3>2 DEF AskedShown
    <3> QED
      BY <3>1, <3>2
  <2> QED
    BY <2>3, <2>4
<1> QED
  BY <1>1, <1>5, <1>6, <1>20, AskedByPageThen

LEMMA AskedAfterAdd ==
  ASSUME TabsTyped, OpeningsApart, AsksFit, NEW m \in Page, Tabs!AddChild(m)
  PROVE  AsksFit'
<1>1. TabsTyped'
  BY AddTyped
<1>2. m \notin flush.met
  BY AddFields DEF OpeningsApart, Waits
<1>3. /\ native'.tabs = native.tabs /\ native'.views = native.views \cup {m}
      /\ native'.seen \in {native.seen, native.seen \cup {m}}
      /\ UNCHANGED <<flush, closing>>
  BY AddFields
<1>4. Requests /\ LateFit /\ \A n \in Page : AskedSeen(n) /\ AskedShown(n)
  BY AskedByPage
<1>20. LateFit' /\ \A n : LateHidden(n)' <=> LateHidden(n)
  BY <1>4, LateRest, AddFields
<1>21. \A n \in Page : n \in parting.undone => n \in parting'.undone
  BY AddFields
<1>5. flush.sent[m] = {}
  BY <1>2, <1>4 DEF Requests
<1>6. ASSUME NEW n \in Page
      PROVE  AskedSeen(n)' /\ AskedShown(n)'
  <2>1. CASE n = m
    BY <1>20, <1>21, <1>2, <1>3, <1>5, <2>1 DEF AskedSeen, AskedShown
  <2>2. CASE n # m
    <3>1. There(n)' <=> There(n)
      BY <1>3, <2>2 DEF There
    <3>2. n \in native'.seen <=> n \in native.seen
      BY <1>3, <2>2
    <3>3. (Hidden(n)' <=> Hidden(n)) /\ (Revealed(n)' <=> Revealed(n))
      BY <1>3, RequestsRest
    <3> QED
      BY <1>20, <1>21, <1>3, <1>4, <3>1, <3>2, <3>3 DEF AskedSeen, AskedShown
  <2> QED
    BY <2>1, <2>2
<1>7. Requests'
  BY <1>3, <1>4, RequestsRest
<1> QED
  BY <1>1, <1>6, <1>7, <1>20, AskedByPageThen

LEMMA AskedAfterFails ==
  ASSUME TabsTyped, AsksFit, NEW m \in Page, Tabs!AddFails(m)
  PROVE  AsksFit'
<1>1. TabsTyped'
  BY FailsTyped
<1>3. /\ native'.tabs = native.tabs \ {m} /\ native'.views = native.views
      /\ native'.seen = native.seen /\ UNCHANGED <<flush, closing>>
  BY FailsFields
<1>4. Requests /\ LateFit /\ \A n \in Page : AskedSeen(n) /\ AskedShown(n)
  BY AskedByPage
<1>20. LateFit' /\ \A n : LateHidden(n)' <=> LateHidden(n)
  BY <1>4, LateRest, FailsFields
<1>21. \A n \in Page : n \in parting.undone => n \in parting'.undone
  BY FailsFields
<1>6. ASSUME NEW n \in Page
      PROVE  AskedSeen(n)' /\ AskedShown(n)'
  <2>1. There(n)' => There(n)
    BY <1>3 DEF There
  <2>2. (Hidden(n)' <=> Hidden(n)) /\ (Revealed(n)' <=> Revealed(n))
    BY <1>3, RequestsRest
  <2> QED
    BY <1>20, <1>21, <1>3, <1>4, <2>1, <2>2 DEF AskedSeen, AskedShown
<1>7. Requests'
  BY <1>3, <1>4, RequestsRest
<1> QED
  BY <1>1, <1>6, <1>7, <1>20, AskedByPageThen

\* A round asks of each page what the panel shows, unless it was asked before.
LEMMA AskedAfterRound ==
  ASSUME TabsTyped, AsksFit, Tabs!FlushBegin
  PROVE  AsksFit'
<1>1. TabsTyped'
  BY RoundTyped
<1>2. AskedRound /\ Known(panel.shown) \subseteq Page
  BY RoundFacts, KnownArePages DEF TabsTyped
<1>3. {TRUE} # {FALSE} /\ {TRUE} # {}
  BY Zenon
<1>4. Requests /\ LateFit /\ \A n \in Page : AskedSeen(n) /\ AskedShown(n)
  BY AskedByPage
<1>20. LateFit' /\ \A n : LateHidden(n)' <=> LateHidden(n)
  BY <1>4, LateRest, <1>2 DEF AskedRound
<1>21. \A n \in Page : n \in parting.undone => n \in parting'.undone
  BY <1>2 DEF AskedRound
<1>5. Requests'
  <2>1. flush'.managed \subseteq flush'.met
    BY <1>2 DEF AskedRound
  <2>2. \A n \in Page : flush'.sent[n] # {} => n \in flush'.managed
    <3>1. /\ flush'.managed = Known(panel.shown)
          /\ \A n \in Page : n \notin Known(panel.shown) => flush'.sent[n] = {}
      BY <1>2 DEF AskedRound
    <3> QED
      BY <3>1
  <2>3. \A q, r \in flush'.requests : q.page = r.page => q = r
    BY <1>2 DEF AskedRound
  <2>4. ASSUME NEW q \in flush'.requests
        PROVE  (q.visible => flush'.sent[q.page] = {TRUE}) /\ (~q.visible => flush'.sent[q.page] # {TRUE})
    BY <1>2, <1>3, Zenon DEF AskedRound
  <2> QED
    BY <2>1, <2>2, <2>3, <2>4 DEF Requests
<1>6. ASSUME NEW n \in Page
      PROVE  AskedSeen(n)' /\ AskedShown(n)'
  <2>1. flush.requests = {} /\ native' = native /\ closing' = closing
        /\ flush'.met = flush.met \cup Known(panel.shown)
    BY <1>2 DEF AskedRound
  <2>2. n \in flush.met /\ n \in native.seen =>
           flush.sent[n] = {TRUE} \/ closing[n] # "no" \/ LateHidden(n)
    BY <1>4, <2>1 DEF AskedSeen, Hidden
  <2>3. flush.sent[n] = {TRUE} => n \in native.seen \/ ~There(n) \/ n \in parting.undone
    BY <1>4, <2>1 DEF AskedShown, Revealed
  <2>4. flush.managed \subseteq flush.met /\ (flush.sent[n] # {} => n \in flush.managed)
    BY <1>4 DEF Requests
  <2>5. CASE n \in Known(panel.shown) /\ Front(n)
    <3>1. flush'.sent[n] = {TRUE}
      BY <1>2, <2>5 DEF AskedRound
    <3>2. flush.sent[n] # {TRUE} => Revealed(n)'
      BY <1>2, <2>5 DEF AskedRound, Revealed
    <3>3. There(n)' <=> There(n)
      BY <2>1 DEF There
    <3> QED
      BY <1>20, <1>21, <2>1, <2>3, <3>1, <3>2, <3>3 DEF AskedSeen, AskedShown
  <2>6. CASE n \in Known(panel.shown) /\ ~Front(n)
    <3>1. flush'.sent[n] = {FALSE}
      BY <1>2, <2>6 DEF AskedRound
    <3>2. flush.sent[n] # {FALSE} => Hidden(n)'
      BY <1>2, <2>6 DEF AskedRound, Hidden
    <3>3. flush.sent[n] = {FALSE} => n \in flush.met /\ flush.sent[n] # {TRUE}
      BY <1>3, <2>4
    <3>4. n \in native'.seen => closing'[n] # "no" \/ Hidden(n)' \/ LateHidden(n)'
      BY <1>20, <2>1, <2>2, <3>2, <3>3
    <3>5. flush'.sent[n] # {TRUE}
      BY <1>3, <3>1
    <3> QED
      BY <1>20, <1>21, <3>4, <3>5 DEF AskedSeen, AskedShown
  <2>7. CASE n \notin Known(panel.shown)
    <3>1. flush'.sent[n] = {}
      BY <1>2, <2>7 DEF AskedRound
    <3>2. n \in flush.managed /\ flush.sent[n] # {FALSE} => Hidden(n)'
      BY <1>2, <2>7 DEF AskedRound, Hidden
    <3>3. n \in flush'.met => n \in flush.met
      BY <2>1, <2>7
    <3>4. n \in flush'.met /\ n \in native'.seen =>
            closing'[n] # "no" \/ Hidden(n)' \/ LateHidden(n)'
      BY <1>3, <1>20, <2>1, <2>2, <2>4, <3>2, <3>3
    <3>5. flush'.sent[n] # {TRUE}
      BY <1>3, <3>1
    <3> QED
      BY <1>20, <1>21, <3>4, <3>5 DEF AskedSeen, AskedShown
  <2> QED
    BY <2>5, <2>6, <2>7
<1> QED
  BY <1>1, <1>5, <1>6, <1>20, AskedByPageThen

\* An answered request leaves the page as it was asked, or the page is gone.
LEMMA AskedAfterSet ==
  ASSUME TabsTyped, OpeningsApart, \A n \in Page : Recorded(n), AsksFit, NEW q, Tabs!SetBounds(q)
  PROVE  AsksFit'
<1>1. TabsTyped'
  BY SetTyped
<1> DEFINE p == q.page
<1>2. /\ q \in flush.requests /\ p \in Page
      /\ flush'.requests = flush.requests \ {q}
      /\ flush'.managed = flush.managed /\ flush'.met = flush.met
      /\ \A m \in Page : m # p => flush'.sent[m] = flush.sent[m]
      /\ There(p) => flush'.sent[p] = flush.sent[p]
      /\ ~There(p) => flush'.sent[p] = {} /\ native' = native
      /\ native'.tabs = native.tabs /\ native'.views = native.views
      /\ UNCHANGED closing
      /\ parting'.panels = parting.panels /\ parting'.undone = parting.undone \ {p}
  BY SetFields
<1>3. /\ There(p) /\ q.visible => native'.seen = native.seen \cup {p}
      /\ There(p) /\ ~q.visible => native'.seen = native.seen \ {p}
  BY SetFields
<1>4. Requests /\ LateFit /\ \A n \in Page : AskedSeen(n) /\ AskedShown(n)
  BY AskedByPage
<1>20. LateFit' /\ \A n : LateHidden(n)' <=> LateHidden(n)
  BY <1>2, <1>4, LateRest
<1>5. flush.requests \subseteq [page : Page, visible : BOOLEAN]
  BY DEF TabsTyped
<1>6. \A r \in flush'.requests : r \in flush.requests /\ r.page \in Page /\ r.page # p
  BY <1>2, <1>4, <1>5 DEF Requests
<1> HIDE DEF p
<1>7. Requests'
  <2>1. \A n \in Page : flush'.sent[n] # {} => n \in flush'.managed
    BY <1>2, <1>4 DEF Requests
  <2>2. \A r, t \in flush'.requests : r.page = t.page => r = t
    BY <1>4, <1>6 DEF Requests
  <2>3. ASSUME NEW r \in flush'.requests
        PROVE  (r.visible => flush'.sent[r.page] = {TRUE}) /\ (~r.visible => flush'.sent[r.page] # {TRUE})
    <3>1. flush'.sent[r.page] = flush.sent[r.page]
      BY <1>2, <1>6
    <3>2. (r.visible => flush.sent[r.page] = {TRUE}) /\ (~r.visible => flush.sent[r.page] # {TRUE})
      BY <1>4, <1>6, Zenon DEF Requests
    <3> QED
      BY <3>1, <3>2
  <2> QED
    BY <1>2, <1>4, <2>1, <2>2, <2>3 DEF Requests
<1>8. ASSUME NEW n \in Page
      PROVE  AskedSeen(n)' /\ AskedShown(n)'
  <2>1. There(n)' <=> There(n)
    BY <1>2 DEF There
  <2>2. AskedSeen(n) /\ AskedShown(n)
    BY <1>4
  <2>3. CASE n # p
    <3>1. flush'.sent[n] = flush.sent[n] /\ closing' = closing /\ flush'.met = flush.met
      BY <1>2, <2>3
    <3>2. n \in native'.seen <=> n \in native.seen
      <4>1. q.visible \/ ~q.visible
        OBVIOUS
      <4> QED
        BY <1>2, <1>3, <2>3, <4>1
    <3>3. Hidden(n) => Hidden(n)'
      BY <1>2, <2>3, Zenon DEF Hidden, p
    <3>4. Revealed(n) => Revealed(n)'
      BY <1>2, <2>3, Zenon DEF Revealed, p
    <3>5. n \in parting.undone => n \in parting'.undone
      BY <1>2, <2>3
    <3> QED
      BY <1>20, <2>1, <2>2, <3>1, <3>2, <3>3, <3>4, <3>5 DEF AskedSeen, AskedShown
  <2>4. CASE n = p /\ There(p) /\ q.visible
    <3>1. flush'.sent[n] = {TRUE} /\ n \in native'.seen
      <4>1. flush.sent[p] = {TRUE}
        BY <1>2, <1>4, <2>4 DEF Requests, p
      <4> QED
        BY <1>2, <1>3, <2>4, <4>1
    <3> QED
      BY <3>1 DEF AskedSeen, AskedShown
  <2>5. CASE n = p /\ There(p) /\ ~q.visible
    <3>1. flush'.sent[n] # {TRUE} /\ n \notin native'.seen
      <4>1. flush.sent[p] # {TRUE}
        BY <1>2, <1>4, <2>5 DEF Requests, p
      <4> QED
        BY <1>2, <1>3, <2>5, <4>1
    <3> QED
      BY <3>1 DEF AskedSeen, AskedShown
  <2>6. CASE n = p /\ ~There(p)
    <3>1. flush'.sent[n] # {TRUE}
      <4>1. flush'.sent[n] = {} /\ {TRUE} # {}
        BY <1>2, <2>6
      <4> QED
        BY <4>1
    <3>2. n \in flush.met /\ n \in native.seen => closing[n] # "no"
      BY <2>6, SeenHasRecord DEF There
    <3>3. flush'.met = flush.met /\ native' = native /\ closing' = closing
      BY <1>2, <2>6
    <3> QED
      BY <3>1, <3>2, <3>3 DEF AskedSeen, AskedShown
  <2> QED
    BY <2>3, <2>4, <2>5, <2>6
<1> QED
  BY <1>1, <1>7, <1>8, <1>20, AskedByPageThen

\* So does one of a panel that is gone, and of what it shows it is still to hide
\* the page.
LEMMA AskedAfterLate ==
  ASSUME TabsTyped, OpeningsApart, \A n \in Page : Recorded(n), AsksFit,
         NEW l, NEW q, Tabs!LateBounds(l, q)
  PROVE  AsksFit'
<1>1. TabsTyped'
  BY LateTyped
<1>2. Requests /\ LateFit /\ \A n \in Page : AskedSeen(n) /\ AskedShown(n)
  BY AskedByPage
<1>3. /\ native'.tabs = native.tabs /\ native'.views = native.views
      /\ ~There(q.page) => native' = native
      /\ UNCHANGED <<flush, closing>>
  BY LateFields
<1>11. IsLate(l, q) /\ parting'.undone = parting.undone \cup {q.page}
  BY LateAnswers
<1>4. /\ There(q.page) /\ q.visible => native'.seen = native.seen \cup {q.page}
      /\ There(q.page) /\ ~q.visible => native'.seen = native.seen \ {q.page}
  BY LateFields
<1>5. PICK rest \in LatePanel : Leaves(l, q, rest)
  BY LateAnswers
<1>6. Requests' /\ \A n : (Hidden(n)' <=> Hidden(n)) /\ (Revealed(n)' <=> Revealed(n))
  BY <1>2, <1>3, RequestsRest
<1>7. LateFit'
  <2>1. \A r \in rest.requests : r.visible => r.page \in rest.hides
    BY <1>2, <1>5, <1>11 DEF LateFit, IsLate, Leaves
  <2>2. \A p \in parting'.panels : p \in parting.panels \/ p = rest
    BY <1>5 DEF Leaves
  <2> QED
    BY <1>2, <2>1, <2>2 DEF LateFit
<1>8. \A n : LateHidden(n) /\ n # q.page => LateHidden(n)'
  <2> SUFFICES ASSUME NEW n, LateHidden(n), n # q.page PROVE LateHidden(n)'
    OBVIOUS
  <2>1. PICK p \in parting.panels : n \in p.hides \/ \E r \in p.requests : r.page = n /\ ~r.visible
    BY DEF LateHidden
  <2>2. CASE p # l
    BY <1>5, <2>1, <2>2 DEF LateHidden, Leaves
  <2>3. CASE p = l
    <3>1. n \in rest.hides \/ \E r \in rest.requests : r.page = n /\ ~r.visible
      BY <1>5, <1>11, <2>1, <2>3 DEF IsLate, Leaves
    <3> QED
      BY <1>5, <2>1, <3>1 DEF LateHidden, Leaves
  <2> QED
    BY <2>2, <2>3
<1>9. q.visible => LateHidden(q.page)'
  <2> SUFFICES ASSUME q.visible PROVE LateHidden(q.page)'
    OBVIOUS
  <2>1. q.page \in l.hides /\ l.requests # {}
    BY <1>2, <1>11 DEF LateFit, IsLate
  <2>2. q.page \in rest.hides
    BY <1>5, <2>1 DEF Leaves
  <2> QED
    BY <1>5, <2>1, <2>2 DEF LateHidden, Leaves
<1>10. ASSUME NEW n \in Page
       PROVE  AskedSeen(n)' /\ AskedShown(n)'
  <2>1. There(n)' <=> There(n)
    BY <1>3 DEF There
  <2>2. AskedSeen(n) /\ AskedShown(n)
    BY <1>2
  <2>3. CASE n # q.page
    <3>1. n \in native'.seen <=> n \in native.seen
      <4>1. q.visible \/ ~q.visible
        OBVIOUS
      <4> QED
        BY <1>3, <1>4, <2>3, <4>1
    <3>2. n \in parting.undone => n \in parting'.undone
      BY <1>11
    <3> QED
      BY <1>3, <1>6, <1>8, <2>1, <2>2, <2>3, <3>1, <3>2 DEF AskedSeen, AskedShown
  <2>4. CASE n = q.page
    <3>1. AskedShown(n)'
      BY <1>11, <2>4 DEF AskedShown
    <3>2. CASE q.visible
      BY <1>9, <2>4, <3>1, <3>2 DEF AskedSeen
    <3>3. CASE ~q.visible /\ There(n)
      BY <1>4, <2>4, <3>1, <3>3 DEF AskedSeen
    <3>4. CASE ~There(n)
      <4>1. n \in flush.met /\ n \in native.seen => closing[n] # "no"
        BY <3>4, SeenHasRecord DEF There
      <4> QED
        BY <1>3, <2>4, <3>1, <3>4, <4>1 DEF AskedSeen
    <3> QED
      BY <3>2, <3>3, <3>4
  <2> QED
    BY <2>3, <2>4
<1> QED
  BY <1>1, <1>6, <1>7, <1>10, AskedByPageThen

\* A page that is closed is not seen.
LEMMA AskedAfterView ==
  ASSUME TabsTyped, OpeningsApart, \A n \in Page : Recorded(n), AsksFit,
         NEW m \in Page, Tabs!CloseView(m)
  PROVE  AsksFit'
<1>1. TabsTyped'
  BY CloseViewTyped
<1>2. UNCHANGED flush /\ native'.tabs = native.tabs
      /\ \A n \in Page : n # m => closing'[n] = closing[n]
  BY CloseViewFields
<1>3. \/ closing[m] = "asked" /\ m \notin native.tabs /\ native' = native
      \/ native'.views = native.views \ {m} /\ native'.seen = native.seen \ {m}
  BY CloseViewFields
<1>4. Requests /\ LateFit /\ \A n \in Page : AskedSeen(n) /\ AskedShown(n)
  BY AskedByPage
<1>20. LateFit' /\ \A n : LateHidden(n)' <=> LateHidden(n)
  BY <1>4, LateRest, CloseViewFields
<1>21. \A n \in Page : n \in parting.undone => n \in parting'.undone
  BY CloseViewFields
<1>5. Requests'
  BY <1>2, <1>4, RequestsRest
<1>6. ASSUME NEW n \in Page
      PROVE  AskedSeen(n)' /\ AskedShown(n)'
  <2>1. (Hidden(n)' <=> Hidden(n)) /\ (Revealed(n)' <=> Revealed(n))
    BY <1>2, RequestsRest
  <2>2. There(n)' => There(n)
    BY <1>2, <1>3 DEF There
  <2>3. CASE n # m
    <3>1. n \in native'.seen <=> n \in native.seen
      BY <1>3, <2>3
    <3> QED
      BY <1>20, <1>21, <1>2, <1>4, <2>1, <2>2, <2>3, <3>1 DEF AskedSeen, AskedShown
  <2>4. CASE n = m
    <3>1. ~There(n)'
      BY <1>2, <1>3, <2>4 DEF There
    <3>2. ~(n \in flush.met /\ n \in native'.seen)
      <4>1. CASE closing[m] = "asked" /\ m \notin native.tabs /\ native' = native
        BY <2>4, <4>1, SeenHasRecord
      <4>2. CASE native'.views = native.views \ {m} /\ native'.seen = native.seen \ {m}
        BY <2>4, <4>2
      <4> QED
        BY <1>3, <4>1, <4>2
    <3> QED
      BY <1>20, <1>21, <1>2, <3>1, <3>2 DEF AskedSeen, AskedShown
  <2> QED
    BY <2>3, <2>4
<1> QED
  BY <1>1, <1>5, <1>6, <1>20, AskedByPageThen

LEMMA AskedAfterRecord ==
  ASSUME TabsTyped, \A n \in Page : Recorded(n), AsksFit,
         NEW m \in Page, Tabs!RemoveRecord(m)
  PROVE  AsksFit'
<1>1. TabsTyped'
  BY RemoveRecordTyped
<1>2. UNCHANGED flush /\ native'.tabs = native.tabs \ {m} /\ closing[m] = "closed"
      /\ native'.views = native.views /\ native'.seen = native.seen
      /\ \A n \in Page : n # m => closing'[n] = closing[n]
  BY RemoveRecordFields
<1>3. m \notin native.seen
  BY <1>2 DEF Recorded
<1>4. Requests /\ LateFit /\ \A n \in Page : AskedSeen(n) /\ AskedShown(n)
  BY AskedByPage
<1>20. LateFit' /\ \A n : LateHidden(n)' <=> LateHidden(n)
  BY <1>4, LateRest, RemoveRecordFields
<1>21. \A n \in Page : n \in parting.undone => n \in parting'.undone
  BY RemoveRecordFields
<1>5. Requests'
  BY <1>2, <1>4, RequestsRest
<1>6. ASSUME NEW n \in Page
      PROVE  AskedSeen(n)' /\ AskedShown(n)'
  <2>1. (Hidden(n)' <=> Hidden(n)) /\ (Revealed(n)' <=> Revealed(n))
    BY <1>2, RequestsRest
  <2>2. There(n)' => There(n)
    BY <1>2 DEF There
  <2>3. n \in native.seen => closing'[n] = closing[n]
    BY <1>2, <1>3
  <2> QED
    BY <1>20, <1>21, <1>2, <1>4, <2>1, <2>2, <2>3 DEF AskedSeen, AskedShown
<1> QED
  BY <1>1, <1>5, <1>6, <1>20, AskedByPageThen

-----------------------------------------------------------------------------
(* What was asked is what the panel shows. *)

FrontIs(n) ==
  /\ flush.sent[n] = {TRUE} => Front(n)
  /\ Front(n) => flush.sent[n] = {TRUE} \/ (flush.sent[n] = {} /\ ~There(n))

\* What is said of one page.
LEMMA FrontByPage == FrontAsked <=> (~flush.dirty => \A n \in Page : FrontIs(n))
BY DEF FrontAsked, FrontIs

\* Only the panel that is mounted has a page in front.
LEMMA FrontIsMounted ==
  ASSUME NEW n, Front(n)
  PROVE  panel.mounted /\ panel.open /\ session[panel.shown].active # Unset
         /\ n = page[session[panel.shown].active]
BY Zenon DEF Front, Tabs!Surface

LEMMA FrontThenMounted ==
  ASSUME NEW n, Front(n)'
  PROVE  panel'.mounted /\ panel'.open
BY Zenon DEF Front, Tabs!Surface

\* The page in front is one that a tab of the Chat knows.
LEMMA FrontIsKnown ==
  ASSUME TabsTyped, TabsApart, NEW n \in Page, Front(n)
  PROVE  n \in Known(panel.shown) /\ \E t \in Page : page[t] = n
<1>1. panel.shown \in Thread
  BY DEF TabsTyped
<1>2. session[panel.shown].active \in Tabs!TabsOf(panel.shown)
  BY <1>1, FrontIsMounted, ApartFacts
<1>3. session[panel.shown].active \in Page
  BY <1>1, <1>2, TabsArePages
<1> QED
  BY <1>2, <1>3, FrontIsMounted, BrowserAssumption DEF Known

\* Nothing that the panel shows has changed, and fewer pages are there.
LEMMA FrontRest ==
  ASSUME FrontAsked, flush'.sent = flush.sent, ~flush'.dirty => ~flush.dirty,
         \A n \in Page : ~flush'.dirty => (Front(n)' <=> Front(n)),
         \A n \in Page : ~flush'.dirty /\ Front(n) /\ There(n)' => There(n)
  PROVE  FrontAsked'
<1>1. SUFFICES ASSUME ~flush'.dirty, NEW n \in Page PROVE FrontIs(n)'
  BY FrontByPage DEF FrontAsked, FrontIs
<1>2. FrontIs(n)
  BY <1>1, FrontByPage
<1>3. (Front(n)' <=> Front(n)) /\ (Front(n) /\ There(n)' => There(n))
  BY <1>1
<1> QED
  BY <1>2, <1>3 DEF FrontIs

LEMMA FrontSame ==
  ASSUME UNCHANGED <<session, page, panel>>, NEW n
  PROVE  Front(n)' <=> Front(n)
BY DEF Front, Tabs!Surface

\* A new tab.
LEMMA FrontAfterOpen ==
  ASSUME TabsTyped, TabsApart, FrontAsked, NEW c \in Thread, Tabs!OpenTab(c)
  PROVE  FrontAsked'
<1>1. UNCHANGED <<page, native>> /\ flush'.sent = flush.sent
  BY OpenFields
<1>2. ~flush'.dirty => ~flush.dirty /\ ~((c = panel.shown \/ ~panel.open) /\ panel.mounted)
  BY Zenon, ScheduleDirty DEF Tabs!OpenTab
<1>3. /\ panel'.shown = panel.shown /\ panel'.mounted = panel.mounted /\ panel'.menu = panel.menu
      /\ panel'.open = TRUE
  BY DEF TabsTyped, Tabs!OpenTab
<1>4. \A d \in Thread : d # c => session'[d] = session[d]
  BY OpenFacts DEF OpensTab
<1>5. panel.shown \in Thread
  BY DEF TabsTyped
<1>6. ASSUME NEW n \in Page, ~flush'.dirty
      PROVE  Front(n)' <=> Front(n)
  <2>1. CASE panel.mounted
    <3>1. c # panel.shown /\ panel.open
      BY <1>2, <1>6, <2>1
    <3>2. session'[panel'.shown] = session[panel.shown] /\ page' = page
      BY <1>1, <1>3, <1>4, <1>5, <3>1
    <3>3. (Tabs!Surface)' <=> Tabs!Surface
      BY <1>3, <3>1, Zenon DEF Tabs!Surface
    <3> QED
      BY <3>2, <3>3 DEF Front
  <2>2. CASE ~panel.mounted
    <3>1. ~Front(n)
      BY <2>2, FrontIsMounted
    <3>2. ~panel'.mounted
      BY <1>3, <2>2, Zenon
    <3>3. ~Front(n)'
      BY <3>2, FrontThenMounted
    <3> QED
      BY <3>1, <3>3
  <2> QED
    BY <2>1, <2>2
<1>7. \A n : There(n)' <=> There(n)
  BY <1>1 DEF There
<1> QED
  BY <1>1, <1>2, <1>6, <1>7, FrontRest

\* The panel is to ask again.
LEMMA FrontWhenDirty == flush'.dirty => FrontAsked'
BY DEF FrontAsked

LEMMA MountedSchedules ==
  ASSUME TabsTyped, panel.mounted, Tabs!Schedule(TRUE)
  PROVE  flush'.dirty
BY Zenon, ScheduleDirty

\* The panel is not there, and shows nothing.
LEMMA FrontUnmounted ==
  ASSUME FrontAsked, ~panel.mounted, ~panel'.mounted, ~flush'.dirty => ~flush.dirty,
         flush'.sent = flush.sent
  PROVE  FrontAsked'
<1>1. \A n \in Page : ~Front(n) /\ ~Front(n)'
  BY FrontIsMounted, FrontThenMounted
<1> SUFFICES ASSUME ~flush'.dirty, NEW n \in Page PROVE FrontIs(n)'
  BY FrontByPage DEF FrontAsked, FrontIs
<1>2. FrontIs(n)
  BY FrontByPage
<1> QED
  BY <1>1, <1>2 DEF FrontIs

\* Each step that changes what the panel shows has it ask again.
LEMMA FrontAfterShow ==
  ASSUME TabsTyped, FrontAsked, NEW c \in Thread, Tabs!Show(c)
  PROVE  FrontAsked'
<1>1. flush'.sent = flush.sent
  BY ShowFields
<1>2. CASE panel.mounted
  BY <1>2, MountedSchedules, FrontWhenDirty DEF Tabs!Show
<1>3. CASE ~panel.mounted
  <2>1. panel'.mounted = panel.mounted
    BY DEF TabsTyped, Tabs!Show
  <2>2. ~panel'.mounted
    BY <1>3, <2>1, Zenon
  <2>3. ~flush'.dirty => ~flush.dirty
    BY ScheduleDirty, Zenon DEF Tabs!Show
  <2> QED
    BY <1>1, <1>3, <2>2, <2>3, FrontUnmounted
<1> QED
  BY <1>2, <1>3

LEMMA FrontAfterMounted ==
  ASSUME TabsTyped,
         Tabs!Toggle \/ (\E t : Tabs!Select(t)) \/ (\E t \in Page : Tabs!CloseTab(t))
  PROVE  FrontAsked'
<1>1. panel.mounted /\ Tabs!Schedule(TRUE)
  BY Zenon DEF Tabs!Toggle, Tabs!Select, Tabs!CloseTab
<1> QED
  BY <1>1, MountedSchedules, FrontWhenDirty

LEMMA FrontAfterUnmount ==
  ASSUME TabsTyped, Tabs!Unmount
  PROVE  FrontAsked'
<1>1. panel'.mounted = FALSE
  BY DEF TabsTyped, Tabs!Unmount
<1>2. \A n : ~Front(n)'
  <2>1. ~panel'.mounted
    BY <1>1, Zenon
  <2> QED
    BY <2>1, FrontThenMounted
<1>3. \A n \in Page : flush'.sent[n] # {TRUE}
  <2>1. {TRUE} # {}
    BY Zenon
  <2> QED
    BY <2>1, UnmountFields
<1> QED
  BY <1>2, <1>3 DEF FrontAsked

LEMMA FrontAfterMount ==
  ASSUME TabsTyped, Tabs!Mount
  PROVE  FrontAsked'
<1>1. flush'.dirty = TRUE
  BY DEF TabsTyped, Tabs!Mount
<1> QED
  BY <1>1, Zenon, FrontWhenDirty

LEMMA FrontAfterDrop ==
  ASSUME TabsTyped, TabsApart, FrontAsked, NEW c \in Thread, Tabs!DropSession(c)
  PROVE  FrontAsked'
<1>1. /\ UNCHANGED native /\ flush'.sent = flush.sent
      /\ \A d \in Thread : d # c => session'[d] = session[d]
      /\ \A m \in Page : page'[m] = IF m \in Tabs!TabsOf(c) THEN Unset ELSE page[m]
  BY DropFields
<1>2. ~flush'.dirty => ~flush.dirty /\ ~(panel.shown = c /\ panel.mounted)
  BY Zenon, ScheduleDirty DEF Tabs!DropSession
<1>3. /\ panel'.shown = panel.shown /\ panel'.mounted = panel.mounted /\ panel'.menu = panel.menu
      /\ panel'.open = (panel.open /\ panel.shown # c)
  BY DEF TabsTyped, Tabs!DropSession
<1>4. CASE ~panel.mounted
  <2>1. ~panel'.mounted
    BY <1>3, <1>4, Zenon
  <2> QED
    BY <1>1, <1>2, <1>4, <2>1, FrontUnmounted
<1>5. CASE panel.shown = c /\ panel.mounted
  <2>1. flush'.dirty
    BY <1>2, <1>5
  <2> QED
    BY <2>1, FrontWhenDirty
<1>6. CASE panel.shown # c
  <2>1. panel.shown \in Thread
    BY DEF TabsTyped
  <2>2. session'[panel'.shown] = session[panel.shown]
    BY <1>1, <1>3, <1>6, <2>1
  <2>3. (Tabs!Surface)' <=> Tabs!Surface
    BY <1>3, <1>6, Zenon DEF Tabs!Surface
  <2>4. session[panel.shown].active # Unset =>
           page'[session[panel.shown].active] = page[session[panel.shown].active]
    <3>1. SUFFICES ASSUME session[panel.shown].active # Unset
                   PROVE  page'[session[panel.shown].active] = page[session[panel.shown].active]
      OBVIOUS
    <3>2. session[panel.shown].active \in Tabs!TabsOf(panel.shown)
      BY <2>1, <3>1, ApartFacts
    <3>3. session[panel.shown].active \in Page
      BY <2>1, <3>2, TabsArePages
    <3>4. Tabs!TabsOf(panel.shown) \cap Tabs!TabsOf(c) = {}
      BY <1>6, <2>1, ApartFacts
    <3>5. \A t \in Page : t \in Tabs!TabsOf(panel.shown) => page'[t] = page[t]
      BY <1>1, <3>4
    <3> QED
      BY <3>2, <3>3, <3>5
  <2>5. \A n \in Page : Front(n)' <=> Front(n)
    BY <2>2, <2>3, <2>4 DEF Front
  <2>6. \A n : There(n)' <=> There(n)
    BY <1>1 DEF There
  <2> QED
    BY <1>1, <1>2, <2>5, <2>6, FrontRest
<1> QED
  BY <1>4, <1>5, <1>6

LEMMA FrontAfterReload ==
  ASSUME TabsTyped, Tabs!Reload
  PROVE  FrontAsked'
<1>1. panel'.open = FALSE
  BY Zenon DEF TabsTyped, Tabs!Reload
<1>2. \A n : ~Front(n)'
  <2>1. ~panel'.open
    BY <1>1, Zenon
  <2> QED
    BY <2>1, FrontThenMounted
<1>3. \A n \in Page : flush'.sent[n] # {TRUE}
  <2>1. {TRUE} # {}
    BY Zenon
  <2> QED
    BY <2>1, ReloadFields
<1> QED
  BY <1>2, <1>3 DEF FrontAsked

LEMMA FrontAfterAsk ==
  ASSUME TabsTyped, TabsApart, FrontAsked, Tabs!AskOpen
  PROVE  FrontAsked'
<1>1. PICK n \in Page : AskedFor(n)
  BY AskFacts
<1>2. UNCHANGED <<session, page, panel>> /\ flush'.sent = flush.sent
      /\ n \notin native.views /\ native'.views = native.views
      /\ native'.tabs \in {native.tabs, native.tabs \cup {n}}
  BY <1>1 DEF AskedFor, FreshPage
<1>3. flush'.dirty = flush.dirty
  BY DEF TabsTyped, Tabs!AskOpen
<1>4. ~flush'.dirty => ~flush.dirty
  BY <1>3, Zenon
<1>5. \A m \in Page : Front(m)' <=> Front(m)
  BY <1>2, FrontSame
<1>6. \A m \in Page : There(m)' => There(m)
  BY <1>2 DEF There
<1> QED
  BY <1>2, <1>4, <1>5, <1>6, FrontRest

LEMMA FrontAfterAdd ==
  ASSUME TabsTyped, TabsApart, OpeningsApart, FrontAsked, NEW n \in Page, Tabs!AddChild(n)
  PROVE  FrontAsked'
<1>1. UNCHANGED <<session, page, panel, flush>>
      /\ native'.views = native.views \cup {n} /\ native'.tabs = native.tabs
  BY AddFields
<1>2. \A t \in Page : page[t] # n
  BY AddFields DEF OpeningsApart, Waits
<1>3. ~Front(n)
  BY <1>2, FrontIsKnown
<1>4. \A m \in Page : Front(m)' <=> Front(m)
  BY <1>1, FrontSame
<1>5. \A m \in Page : Front(m) /\ There(m)' => There(m)
  BY <1>1, <1>3 DEF There
<1> QED
  BY <1>1, <1>4, <1>5, FrontRest

LEMMA FrontAfterFails ==
  ASSUME TabsTyped, FrontAsked, NEW n \in Page, Tabs!AddFails(n)
  PROVE  FrontAsked'
<1>1. UNCHANGED <<session, page, panel, flush>>
      /\ native'.views = native.views /\ native'.tabs = native.tabs \ {n}
  BY FailsFields
<1>4. \A m \in Page : Front(m)' <=> Front(m)
  BY <1>1, FrontSame
<1>5. \A m \in Page : There(m)' => There(m)
  BY <1>1 DEF There
<1> QED
  BY <1>1, <1>4, <1>5, FrontRest

LEMMA FrontAfterAnswer ==
  ASSUME TabsTyped, TabsApart, FrontAsked, NEW n \in Page, Tabs!Answer(n)
  PROVE  FrontAsked'
<1> DEFINE o == opening[n]
           changed == (o.heard /\ o.tab \in Tabs!AllTabs) /\ o.tab \in Tabs!TabsOf(panel.shown)
<1>1. UNCHANGED <<session, panel, native>> /\ flush'.sent = flush.sent
  BY AnswerFields
<1>2. ~flush'.dirty => ~flush.dirty /\ ~(changed /\ panel.mounted)
  <2>1. Tabs!Schedule(changed)
    BY DEF Tabs!Answer
  <2> HIDE DEF changed
  <2> QED
    BY <2>1, ScheduleDirty
<1>3. CASE ~panel.mounted
  <2>1. ~panel'.mounted
    BY <1>1, <1>3
  <2> QED
    BY <1>1, <1>2, <1>3, <2>1, FrontUnmounted
<1>4. CASE panel.mounted /\ changed
  BY <1>2, <1>4, FrontWhenDirty
<1>5. CASE ~changed
  <2>1. panel.shown \in Thread
    BY DEF TabsTyped
  <2>2. session[panel.shown].active # Unset =>
           page'[session[panel.shown].active] = page[session[panel.shown].active]
    <3>1. SUFFICES ASSUME session[panel.shown].active # Unset
                   PROVE  page'[session[panel.shown].active] = page[session[panel.shown].active]
      OBVIOUS
    <3>2. session[panel.shown].active \in Tabs!TabsOf(panel.shown)
      BY <2>1, <3>1, ApartFacts
    <3>3. page' = page \/ (o.heard /\ o.tab \in Tabs!AllTabs /\ page' = [page EXCEPT ![o.tab] = n])
      BY AnswerFields
    <3>4. page' = page \/ (o.tab \notin Tabs!TabsOf(panel.shown) /\ page' = [page EXCEPT ![o.tab] = n])
      BY <1>5, <3>3
    <3>5. \A t : t \in Tabs!TabsOf(panel.shown) => page'[t] = page[t]
      <4>1. Tabs!TabsOf(panel.shown) \subseteq Page
        BY <2>1, TabsArePages
      <4> QED
        BY <3>4, <4>1 DEF TabsTyped
    <3> QED
      BY <3>2, <3>5
  <2>3. \A m \in Page : Front(m)' <=> Front(m)
    <3>1. (Tabs!Surface)' <=> Tabs!Surface
      BY <1>1 DEF Tabs!Surface
    <3> QED
      BY <1>1, <2>2, <3>1 DEF Front
  <2>4. \A m : There(m)' <=> There(m)
    BY <1>1 DEF There
  <2> QED
    BY <1>1, <1>2, <2>3, <2>4, FrontRest
<1> QED
  BY <1>3, <1>4, <1>5

LEMMA FrontAfterRound ==
  ASSUME TabsTyped, TabsApart, Tabs!FlushBegin
  PROVE  FrontAsked'
<1>1. AskedRound
  BY RoundFacts
<1>2. UNCHANGED <<session, page, panel>>
  BY <1>1 DEF AskedRound
<1> SUFFICES ASSUME NEW n \in Page PROVE FrontIs(n)'
  BY DEF FrontAsked, FrontIs
<1>3. Front(n)' <=> Front(n)
  BY <1>2, FrontSame
<1>4. Front(n) => n \in Known(panel.shown)
  BY FrontIsKnown
<1>5. {TRUE} # {FALSE} /\ {TRUE} # {}
  OBVIOUS
<1>6. flush'.sent[n] = {TRUE} <=> Front(n)
  <2>1. Front(n) => flush'.sent[n] = {TRUE}
    BY <1>1, <1>4 DEF AskedRound
  <2>2. ~Front(n) => flush'.sent[n] \in {{FALSE}, {}}
    BY <1>1 DEF AskedRound
  <2> QED
    BY <1>5, <2>1, <2>2
<1> QED
  BY <1>3, <1>6 DEF FrontIs

LEMMA FrontAfterSet ==
  ASSUME TabsTyped, FrontAsked, NEW q, Tabs!SetBounds(q)
  PROVE  FrontAsked'
<1>1. /\ UNCHANGED <<session, page, panel>> /\ native'.tabs = native.tabs /\ native'.views = native.views
      /\ \A m \in Page : m # q.page => flush'.sent[m] = flush.sent[m]
      /\ There(q.page) => flush'.sent[q.page] = flush.sent[q.page]
      /\ ~There(q.page) => flush'.sent[q.page] = {}
  BY SetFields
<1>2. flush'.dirty = flush.dirty
  BY DEF TabsTyped, Tabs!SetBounds
<1> SUFFICES ASSUME ~flush'.dirty, NEW n \in Page PROVE FrontIs(n)'
  BY DEF FrontAsked, FrontIs
<1>3. ~flush.dirty
  BY <1>2, Zenon
<1>4. FrontIs(n)
  BY <1>3, FrontByPage
<1>5. Front(n)' <=> Front(n)
  BY <1>1, FrontSame
<1>6. There(n)' <=> There(n)
  BY <1>1 DEF There
<1>7. {TRUE} # {}
  OBVIOUS
<1>8. CASE n # q.page \/ There(n)
  <2>1. flush'.sent[n] = flush.sent[n]
    BY <1>1, <1>8
  <2> QED
    BY <1>4, <1>5, <1>6, <2>1 DEF FrontIs
<1>9. CASE n = q.page /\ ~There(n)
  <2>1. flush'.sent[n] = {}
    BY <1>1, <1>9
  <2> QED
    BY <1>6, <1>7, <1>9, <2>1 DEF FrontIs
<1> QED
  BY <1>8, <1>9

LEMMA FrontAfterLate ==
  ASSUME TabsTyped, FrontAsked, NEW l, NEW q, Tabs!LateBounds(l, q)
  PROVE  FrontAsked'
<1>1. UNCHANGED <<session, page, panel, flush>> /\ native'.tabs = native.tabs
      /\ native'.views = native.views
  BY LateFields
<1>2. \A n \in Page : Front(n)' <=> Front(n)
  BY <1>1, FrontSame
<1>3. \A n \in Page : There(n)' => There(n)
  BY <1>1 DEF There
<1> QED
  BY <1>1, <1>2, <1>3, FrontRest

LEMMA FrontAfterRemoval ==
  ASSUME TabsTyped, FrontAsked,
         \/ \E c \in Thread : Tabs!RemoveSession(c)
         \/ \E n \in Page : Tabs!CloseView(n) \/ Tabs!RemoveRecord(n)
  PROVE  FrontAsked'
<1>1. UNCHANGED <<session, page, panel, flush>>
  BY RemoveSessionFields, CloseViewFields, RemoveRecordFields
<1>2. native'.tabs \subseteq native.tabs /\ native'.views \subseteq native.views
  <2>1. CASE \E c \in Thread : Tabs!RemoveSession(c)
    BY <2>1, RemoveSessionFields
  <2>2. CASE \E n \in Page : Tabs!CloseView(n)
    <3>1. PICK n \in Page : Tabs!CloseView(n)
      BY <2>2
    <3>2. native'.tabs = native.tabs /\ (native' = native \/ native'.views = native.views \ {n})
      BY <3>1, CloseViewFields
    <3> QED
      BY <3>2
  <2>3. CASE \E n \in Page : Tabs!RemoveRecord(n)
    BY <2>3, RemoveRecordFields
  <2> QED
    BY <2>1, <2>2, <2>3
<1>3. \A m \in Page : There(m)' => There(m)
  BY <1>2 DEF There
<1>4. \A m \in Page : Front(m)' <=> Front(m)
  BY <1>1, FrontSame
<1> QED
  BY <1>1, <1>3, <1>4, FrontRest

-----------------------------------------------------------------------------
(* The registry's bound. *)

\* Only an opening adds to the registry, and it looks whether there is room.
LEMMA CountedStays ==
  ASSUME Bounded, native'.tabs \subseteq native.tabs
  PROVE  Bounded'
<1>1. native'.tabs \in SUBSET native.tabs
  OBVIOUS
<1>2. IsFiniteSet(native'.tabs) /\ Cardinality(native'.tabs) <= Cardinality(native.tabs)
  BY <1>1, FS_Subset DEF Bounded
<1>3. Cardinality(native'.tabs) \in Nat /\ Cardinality(native.tabs) \in Nat /\ MaxPages \in Nat
  BY <1>2, FS_CardinalityType, BrowserAssumption DEF Bounded
<1> QED
  BY <1>2, <1>3 DEF Bounded

LEMMA CountedAfterAsk ==
  ASSUME TabsTyped, TabsApart, Bounded, Tabs!AskOpen
  PROVE  Bounded'
<1>1. PICK n \in Page : AskedFor(n)
  BY AskFacts
<1>2. CASE opening'[n].stage = "reserved"
  <2>1. native'.tabs = native.tabs \cup {n} /\ n \notin native.tabs
        /\ Cardinality(native.tabs) < MaxPages
    BY <1>1, <1>2, PageCardinality DEF AskedFor, FreshPage
  <2>2. IsFiniteSet(native'.tabs) /\ Cardinality(native'.tabs) = Cardinality(native.tabs) + 1
    BY <2>1, FS_AddElement DEF Bounded
  <2>3. Cardinality(native.tabs) \in Nat /\ MaxPages \in Nat
    BY FS_CardinalityType, BrowserAssumption DEF Bounded
  <2> QED
    BY <2>1, <2>2, <2>3 DEF Bounded
<1>3. CASE opening'[n].stage = "refused"
  BY <1>1, <1>3, CountedStays DEF AskedFor
<1> QED
  BY <1>1, <1>2, <1>3 DEF AskedFor

\* Each step keeps the invariant.
LEMMA OpenKeeps ==
  ASSUME TabsInv, NEW c \in Thread, Tabs!OpenTab(c)
  PROVE  TabsInv'
<1> USE DEF TabsInv
<1>1. TabsTyped'
  BY OpenTyped
<1>2. TabsApart'
  BY OpenApart
<1>3. OpeningsApart'
  BY OpenFields, OpeningsRest
<1>4. \A n \in Page : Recorded(n)'
  BY OpenFields, RegisteredRests
<1>5. KnownAreOpen'
  BY KnownAfterOpen
<1>6. AsksFit'
  BY <1>1, OpenFields, AskedRest
<1>7. FrontAsked'
  BY FrontAfterOpen
<1>8. Bounded'
  BY OpenFields, CountedStays
<1> QED
  BY <1>1, <1>2, <1>3, <1>4, <1>5, <1>6, <1>7, <1>8

LEMMA SelectKeeps ==
  ASSUME TabsInv, NEW t, Tabs!Select(t)
  PROVE  TabsInv'
<1> USE DEF TabsInv
<1>1. TabsTyped'
  BY SelectTyped
<1>2. TabsApart'
  BY SelectApart
<1>3. OpeningsApart'
  BY SelectFields, OpeningsRest
<1>4. \A n \in Page : Recorded(n)'
  BY SelectFields, RegisteredRests
<1>5. KnownAreOpen'
  BY KnownAfterSelect
<1>6. AsksFit'
  BY <1>1, SelectFields, AskedRest
<1>7. FrontAsked'
  BY FrontAfterMounted
<1>8. Bounded'
  BY SelectFields, CountedStays
<1> QED
  BY <1>1, <1>2, <1>3, <1>4, <1>5, <1>6, <1>7, <1>8

LEMMA ShowKeeps ==
  ASSUME TabsInv, NEW c \in Thread, Tabs!Show(c)
  PROVE  TabsInv'
<1> USE DEF TabsInv
<1>1. TabsTyped'
  BY ShowTyped
<1>2. TabsApart'
  BY ShowFields, ApartStays
<1>3. OpeningsApart'
  BY ShowFields, OpeningsRest
<1>4. \A n \in Page : Recorded(n)'
  BY ShowFields, RegisteredRests
<1>5. KnownAreOpen'
  BY ShowFields, KnownRest
<1>6. AsksFit'
  BY <1>1, ShowFields, AskedRest
<1>7. FrontAsked'
  BY FrontAfterShow
<1>8. Bounded'
  BY ShowFields, CountedStays
<1> QED
  BY <1>1, <1>2, <1>3, <1>4, <1>5, <1>6, <1>7, <1>8

LEMMA ToggleKeeps ==
  ASSUME TabsInv, Tabs!Toggle
  PROVE  TabsInv'
<1> USE DEF TabsInv
<1>1. TabsTyped'
  BY ToggleTyped
<1>2. TabsApart'
  BY ToggleFields, ApartStays
<1>3. OpeningsApart'
  BY ToggleFields, OpeningsRest
<1>4. \A n \in Page : Recorded(n)'
  BY ToggleFields, RegisteredRests
<1>5. KnownAreOpen'
  BY ToggleFields, KnownRest
<1>6. AsksFit'
  BY <1>1, ToggleFields, AskedRest
<1>7. FrontAsked'
  BY FrontAfterMounted
<1>8. Bounded'
  BY ToggleFields, CountedStays
<1> QED
  BY <1>1, <1>2, <1>3, <1>4, <1>5, <1>6, <1>7, <1>8

LEMMA UnmountKeeps ==
  ASSUME TabsInv, Tabs!Unmount
  PROVE  TabsInv'
<1> USE DEF TabsInv
<1>1. TabsTyped'
  BY UnmountTyped
<1>2. TabsApart'
  BY UnmountFields, ApartStays
<1>3. OpeningsApart'
  BY OpeningsAfterUnmount
<1>4. \A n \in Page : Recorded(n)'
  BY UnmountFields, RegisteredRests
<1>5. KnownAreOpen'
  BY UnmountFields, KnownRest
<1>6. AsksFit'
  BY AskedAfterUnmount
<1>7. FrontAsked'
  BY FrontAfterUnmount
<1>8. Bounded'
  BY UnmountFields, CountedStays
<1> QED
  BY <1>1, <1>2, <1>3, <1>4, <1>5, <1>6, <1>7, <1>8

LEMMA MountKeeps ==
  ASSUME TabsInv, Tabs!Mount
  PROVE  TabsInv'
<1> USE DEF TabsInv
<1>1. TabsTyped'
  BY MountTyped
<1>2. TabsApart'
  BY MountFields, ApartStays
<1>3. OpeningsApart'
  BY MountFields, OpeningsRest
<1>4. \A n \in Page : Recorded(n)'
  BY MountFields, RegisteredRests
<1>5. KnownAreOpen'
  BY MountFields, KnownRest
<1>6. AsksFit'
  BY AskedAfterMount
<1>7. FrontAsked'
  BY FrontAfterMount
<1>8. Bounded'
  BY MountFields, CountedStays
<1> QED
  BY <1>1, <1>2, <1>3, <1>4, <1>5, <1>6, <1>7, <1>8

LEMMA CloseKeeps ==
  ASSUME TabsInv, NEW t \in Page, Tabs!CloseTab(t)
  PROVE  TabsInv'
<1> USE DEF TabsInv
<1>1. TabsTyped'
  BY CloseTyped
<1>2. TabsApart'
  BY CloseApart
<1>3. OpeningsApart'
  BY OpeningsAfterClose
<1>4. \A n \in Page : Recorded(n)'
  BY RegisteredAfterClose
<1>5. KnownAreOpen'
  BY KnownAfterClose
<1>6. AsksFit'
  BY <1>1, CloseFields, AskedRest
<1>7. FrontAsked'
  BY FrontAfterMounted
<1>8. Bounded'
  BY CloseFields, CountedStays
<1> QED
  BY <1>1, <1>2, <1>3, <1>4, <1>5, <1>6, <1>7, <1>8

LEMMA RemovalKeeps ==
  ASSUME TabsInv, NEW c \in Thread, Tabs!RemoveSession(c)
  PROVE  TabsInv'
<1> USE DEF TabsInv
<1>1. TabsTyped'
  BY RemoveSessionTyped
<1>2. TabsApart'
  BY RemoveSessionFields, ApartStays
<1>3. OpeningsApart'
  BY OpeningsAfterRemoval
<1>4. \A n \in Page : Recorded(n)'
  BY RegisteredAfterRemoval
<1>5. KnownAreOpen'
  BY KnownAfterRemoval
<1>6. AsksFit'
  BY <1>1, RemoveSessionFields, AskedRest
<1>7. FrontAsked'
  BY FrontAfterRemoval
<1>8. Bounded'
  BY RemoveSessionFields, CountedStays
<1> QED
  BY <1>1, <1>2, <1>3, <1>4, <1>5, <1>6, <1>7, <1>8

LEMMA DropKeeps ==
  ASSUME TabsInv, NEW c \in Thread, Tabs!DropSession(c)
  PROVE  TabsInv'
<1> USE DEF TabsInv
<1>1. TabsTyped'
  BY DropTyped
<1>2. TabsApart'
  BY DropApart
<1>3. OpeningsApart'
  BY DropFields, OpeningsRest
<1>4. \A n \in Page : Recorded(n)'
  BY DropFields, RegisteredRests
<1>5. KnownAreOpen'
  BY KnownAfterDrop
<1>6. AsksFit'
  BY <1>1, DropFields, AskedRest
<1>7. FrontAsked'
  BY FrontAfterDrop
<1>8. Bounded'
  BY DropFields, CountedStays
<1> QED
  BY <1>1, <1>2, <1>3, <1>4, <1>5, <1>6, <1>7, <1>8

LEMMA ReloadKeeps ==
  ASSUME TabsInv, Tabs!Reload
  PROVE  TabsInv'
<1> USE DEF TabsInv
<1>1. TabsTyped'
  BY ReloadTyped
<1>2. TabsApart'
  BY ReloadApart
<1>3. OpeningsApart'
  BY OpeningsAfterReload
<1>4. \A n \in Page : Recorded(n)'
  BY RegisteredAfterReload
<1>5. KnownAreOpen'
  BY KnownAfterReload
<1>6. AsksFit'
  BY AskedAfterReload
<1>7. FrontAsked'
  BY FrontAfterReload
<1>8. Bounded'
  BY ReloadFields, CountedStays
<1> QED
  BY <1>1, <1>2, <1>3, <1>4, <1>5, <1>6, <1>7, <1>8

LEMMA AskKeeps ==
  ASSUME TabsInv, Tabs!AskOpen
  PROVE  TabsInv'
<1> USE DEF TabsInv
<1>1. TabsTyped'
  BY AskTyped
<1>2. TabsApart'
  BY AskFacts, ApartStays DEF AskedFor
<1>3. OpeningsApart'
  BY OpeningsAfterAsk
<1>4. \A n \in Page : Recorded(n)'
  BY RegisteredAfterAsk
<1>5. KnownAreOpen'
  BY KnownAfterAsk
<1>6. AsksFit'
  BY AskedAfterAsk
<1>7. FrontAsked'
  BY FrontAfterAsk
<1>8. Bounded'
  BY CountedAfterAsk
<1> QED
  BY <1>1, <1>2, <1>3, <1>4, <1>5, <1>6, <1>7, <1>8

LEMMA AddKeeps ==
  ASSUME TabsInv, NEW m \in Page, Tabs!AddChild(m)
  PROVE  TabsInv'
<1> USE DEF TabsInv
<1>1. TabsTyped'
  BY AddTyped
<1>2. TabsApart'
  BY AddFields, ApartStays
<1>3. OpeningsApart'
  BY OpeningsAfterAdd
<1>4. \A n \in Page : Recorded(n)'
  BY RegisteredAfterAdd
<1>5. KnownAreOpen'
  BY AddFields, KnownRest
<1>6. AsksFit'
  BY AskedAfterAdd
<1>7. FrontAsked'
  BY FrontAfterAdd
<1>8. Bounded'
  BY AddFields, CountedStays
<1> QED
  BY <1>1, <1>2, <1>3, <1>4, <1>5, <1>6, <1>7, <1>8

LEMMA FailsKeeps ==
  ASSUME TabsInv, NEW m \in Page, Tabs!AddFails(m)
  PROVE  TabsInv'
<1> USE DEF TabsInv
<1>1. TabsTyped'
  BY FailsTyped
<1>2. TabsApart'
  BY FailsFields, ApartStays
<1>3. OpeningsApart'
  BY OpeningsAfterFails
<1>4. \A n \in Page : Recorded(n)'
  BY RegisteredAfterFails
<1>5. KnownAreOpen'
  BY KnownAfterFails
<1>6. AsksFit'
  BY AskedAfterFails
<1>7. FrontAsked'
  BY FrontAfterFails
<1>8. Bounded'
  BY FailsFields, CountedStays
<1> QED
  BY <1>1, <1>2, <1>3, <1>4, <1>5, <1>6, <1>7, <1>8

LEMMA AnswerKeeps ==
  ASSUME TabsInv, NEW m \in Page, Tabs!Answer(m)
  PROVE  TabsInv'
<1> USE DEF TabsInv
<1>1. TabsTyped'
  BY AnswerTyped
<1>2. TabsApart'
  BY AnswerApart
<1>3. OpeningsApart'
  BY OpeningsAfterAnswer
<1>4. \A n \in Page : Recorded(n)'
  BY RegisteredAfterAnswer
<1>5. KnownAreOpen'
  BY KnownAfterAnswer
<1>6. AsksFit'
  BY <1>1, AnswerFields, AskedRest
<1>7. FrontAsked'
  BY FrontAfterAnswer
<1>8. Bounded'
  BY AnswerFields, CountedStays
<1> QED
  BY <1>1, <1>2, <1>3, <1>4, <1>5, <1>6, <1>7, <1>8

LEMMA RoundKeeps ==
  ASSUME TabsInv, Tabs!FlushBegin
  PROVE  TabsInv'
<1> USE DEF TabsInv
<1>1. TabsTyped'
  BY RoundTyped
<1>2. TabsApart'
  BY RoundFacts, ApartStays DEF AskedRound
<1>3. OpeningsApart'
  BY OpeningsAfterRound
<1>4. \A n \in Page : Recorded(n)'
  BY RoundFacts, RegisteredRests DEF AskedRound
<1>5. KnownAreOpen'
  BY RoundFacts, KnownRest DEF AskedRound
<1>6. AsksFit'
  BY AskedAfterRound
<1>7. FrontAsked'
  BY FrontAfterRound
<1>8. Bounded'
  BY RoundFacts, CountedStays DEF AskedRound
<1> QED
  BY <1>1, <1>2, <1>3, <1>4, <1>5, <1>6, <1>7, <1>8

LEMMA SetKeeps ==
  ASSUME TabsInv, NEW q, Tabs!SetBounds(q)
  PROVE  TabsInv'
<1> USE DEF TabsInv
<1>1. TabsTyped'
  BY SetTyped
<1>2. TabsApart'
  BY SetFields, ApartStays
<1>3. OpeningsApart'
  BY OpeningsAfterSet
<1>4. \A n \in Page : Recorded(n)'
  BY RegisteredAfterSet
<1>5. KnownAreOpen'
  BY SetFields, KnownRest
<1>6. AsksFit'
  BY AskedAfterSet
<1>7. FrontAsked'
  BY FrontAfterSet
<1>8. Bounded'
  BY SetFields, CountedStays
<1> QED
  BY <1>1, <1>2, <1>3, <1>4, <1>5, <1>6, <1>7, <1>8

LEMMA LateKeeps ==
  ASSUME TabsInv, NEW l, NEW q, Tabs!LateBounds(l, q)
  PROVE  TabsInv'
<1> USE DEF TabsInv
<1>1. TabsTyped'
  BY LateTyped
<1>2. TabsApart'
  BY LateFields, ApartStays
<1>3. OpeningsApart'
  BY OpeningsAfterLate
<1>4. \A n \in Page : Recorded(n)'
  BY RegisteredAfterLate
<1>5. KnownAreOpen'
  BY LateFields, KnownRest
<1>6. AsksFit'
  BY AskedAfterLate
<1>7. FrontAsked'
  BY FrontAfterLate
<1>8. Bounded'
  BY LateFields, CountedStays
<1> QED
  BY <1>1, <1>2, <1>3, <1>4, <1>5, <1>6, <1>7, <1>8

LEMMA ViewKeeps ==
  ASSUME TabsInv, NEW m \in Page, Tabs!CloseView(m)
  PROVE  TabsInv'
<1> USE DEF TabsInv
<1>1. TabsTyped'
  BY CloseViewTyped
<1>2. TabsApart'
  BY CloseViewFields, ApartStays
<1>3. OpeningsApart'
  BY OpeningsAfterView
<1>4. \A n \in Page : Recorded(n)'
  BY RegisteredAfterView
<1>5. KnownAreOpen'
  BY KnownAfterView
<1>6. AsksFit'
  BY AskedAfterView
<1>7. FrontAsked'
  BY FrontAfterRemoval
<1>8. Bounded'
  BY CloseViewFields, CountedStays
<1> QED
  BY <1>1, <1>2, <1>3, <1>4, <1>5, <1>6, <1>7, <1>8

LEMMA RecordKeeps ==
  ASSUME TabsInv, NEW m \in Page, Tabs!RemoveRecord(m)
  PROVE  TabsInv'
<1> USE DEF TabsInv
<1>1. TabsTyped'
  BY RemoveRecordTyped
<1>2. TabsApart'
  BY RemoveRecordFields, ApartStays
<1>3. OpeningsApart'
  BY OpeningsAfterRecord
<1>4. \A n \in Page : Recorded(n)'
  BY RegisteredAfterRecord
<1>5. KnownAreOpen'
  BY KnownAfterRecord
<1>6. AsksFit'
  BY AskedAfterRecord
<1>7. FrontAsked'
  BY FrontAfterRemoval
<1>8. Bounded'
  BY RemoveRecordFields, CountedStays
<1> QED
  BY <1>1, <1>2, <1>3, <1>4, <1>5, <1>6, <1>7, <1>8

\* The other parts leave it alone.
LEMMA TabsStay ==
  ASSUME TabsInv, UNCHANGED browser
  PROVE  TabsInv'
<1> USE DEF TabsInv, browser
<1>1. TabsTyped'
  BY DEF TabsTyped
<1>2. TabsApart'
  BY ApartStays
<1>3. OpeningsApart'
  BY OpeningsRest
<1>4. \A n \in Page : Recorded(n)'
  BY RegisteredRests
<1>5. KnownAreOpen'
  BY KnownRest
<1>6. AsksFit'
  BY <1>1, AskedRest
<1>7. FrontAsked'
  <2>1. \A n \in Page : Front(n)' <=> Front(n)
    BY FrontSame
  <2>2. \A n \in Page : There(n)' <=> There(n)
    BY DEF There
  <2> QED
    BY <2>1, <2>2, FrontRest
<1>8. Bounded'
  BY CountedStays
<1> QED
  BY <1>1, <1>2, <1>3, <1>4, <1>5, <1>6, <1>7, <1>8

\* And every step of this one keeps it.
LEMMA TabsSteps ==
  ASSUME TabsInv, Tabs!BrowserNext
  PROVE  TabsInv'
<1>0. panel.shown \in Thread
  BY DEF TabsInv, TabsTyped
<1>1. CASE Tabs!OpenTab(panel.shown)
  BY <1>0, <1>1, OpenKeeps
<1>2. CASE \E n \in Page : Tabs!Popup(n)
  BY <1>2, OpenKeeps DEF Tabs!Popup
<1>3. CASE \E t \in Page : Tabs!CloseTab(t)
  BY <1>3, CloseKeeps
<1>4. CASE \E t \in Page \cup {Unset} : Tabs!Select(t)
  BY <1>4, SelectKeeps
<1>5. CASE \E c \in Thread : Tabs!Show(c) \/ Tabs!RemoveSession(c) \/ Tabs!DropSession(c)
  BY <1>5, ShowKeeps, RemovalKeeps, DropKeeps
<1>6. CASE Tabs!Toggle \/ Tabs!Unmount \/ Tabs!Mount \/ Tabs!Reload
  BY <1>6, ToggleKeeps, UnmountKeeps, MountKeeps, ReloadKeeps
<1>7. CASE Tabs!AskOpen
  BY <1>7, AskKeeps
<1>8. CASE \E n \in Page : Tabs!AddChild(n) \/ Tabs!AddFails(n) \/ Tabs!Answer(n)
  BY <1>8, AddKeeps, FailsKeeps, AnswerKeeps
<1>9. CASE Tabs!FlushBegin
  BY <1>9, RoundKeeps
<1>10. CASE \E q \in flush.requests : Tabs!SetBounds(q)
  BY <1>10, SetKeeps
<1>11. CASE \E n \in Page : Tabs!CloseView(n) \/ Tabs!RemoveRecord(n)
  BY <1>11, ViewKeeps, RecordKeeps
<1>12. CASE \E l \in parting.panels : \E q \in Tabs!LateAsks(l) : Tabs!LateBounds(l, q)
  BY <1>12, LateKeeps
<1> QED
  BY <1>12, <1>1, <1>2, <1>3, <1>4, <1>5, <1>6, <1>7, <1>8, <1>9, <1>10, <1>11 DEF Tabs!BrowserNext

-----------------------------------------------------------------------------
\* The composition.  A step of one part leaves the variables of the others alone.
LEMMA PartsStep ==
    ASSUME [Next]_vars
    PROVE  /\ [Market!ConnectorsNext]_market
           /\ [Market!McpGrantsNext]_grants
           /\ [Bench!WorkbenchNext]_bench
           /\ [Host!ComputeNext]_host
           /\ [Display!ProgressNext]_display
           /\ [Tabs!BrowserNext]_browser
           /\ ProviderNext \/ ProviderLost \/ UNCHANGED provider
BY DEF Next, vars, app, Provider, Update, Environment, Relaunch, Crash, Connect, AskServer,
   Edit, Compute, Stream, Browse, Rest, TurnsRest

\* A Guru uses a connector only as its provider accepted it, with the credential
\* and in the scope of now, and a session that is kept warm saw one authority
\* only, whatever commands, verifications and turns interleave and wherever the
\* application ends (marketplace.rs, commands.rs).
THEOREM Verified == Spec => []ConnectorsAsVerified
<1>1. Init => MarketInv
  BY MarketBegins DEF Init
<1>2. MarketInv /\ [Next]_vars => MarketInv'
  BY MarketStep, PartsStep
<1>3. MarketInv => ConnectorsAsVerified
  BY MarketHolds
<1> QED
  BY <1>1, <1>2, <1>3, PTL DEF Spec

\* Whatever a server lists and answers, it is asked by a provider that an enabled
\* entry grants and that is configured, a tool without a provider is one that the
\* manifest accounts for, and an answer is that of the provider asked
\* (mcp.rs, mcp_host.rs).
THEOREM AskedAsGranted == Spec => []CallsAreGranted
<1>1. Init => AskInv
  BY AskBegins DEF Init
<1>2. AskInv /\ [Next]_vars => AskInv'
  BY AskStep, PartsStep
<1>3. AskInv => CallsAreGranted
  BY AskHolds
<1> QED
  BY <1>1, <1>2, <1>3, PTL DEF Spec

\* A change of the workbench replaces exactly the revision that its turn named,
\* for any number of turns and of changes by the user (workbench.rs).
THEOREM Replacements == Spec => ReplacesWhatWasSeen
<1>1. Init => BenchInv
  BY BenchBegins DEF Init
<1>2. BenchInv /\ [Next]_vars => BenchInv'
  BY BenchStep, PartsStep
<1>3. BenchInv /\ [Next]_vars =>
        [\A t \in Turn : calls[t].step = "writes" /\ calls'[t].step = "idle" /\ file' # file =>
            \/ file = calls[t].expected
            \/ calls[t].disturbed /\ calls[t].expected # Absent]_(Bench!workbench)
  BY BenchReplaces, PartsStep DEF bench, Bench!workbench
<1> QED
  BY <1>1, <1>2, <1>3, PTL DEF Spec, ReplacesWhatWasSeen, Bench!ReplacesWhatWasSeen

\* Cells are answered by hosts that are theirs, however calls end, hosts die
\* and sessions are shut down (compute.rs).
THEOREM CleanHosts == Spec => []HostsAreClean
<1>1. Init => HostInv
  BY HostBegins DEF Init
<1>2. HostInv /\ [Next]_vars => HostInv'
  BY HostStep, PartsStep
<1>3. HostInv => HostsAreClean
  BY HostHolds
<1> QED
  BY <1>1, <1>2, <1>3, PTL DEF Spec

\* What is installed is the offer that the user confirmed, with no work under
\* way, and the schedule leaves the feed alone as agreed, across any number of
\* restarts (updater.rs).
THEOREM Agreed == Spec => UpdatesAsAgreed
<1>1. Init => UpdateInv
  BY UpdateBegins
<1>2. UpdateInv /\ [Next]_vars => UpdateInv'
  BY UpdateStep
<1>3. UpdateInv /\ [Next]_vars => [ChecksAreSpaced /\ InstallsAsConfirmed']_updater
  BY UpdateAgrees
<1> QED
  BY <1>1, <1>2, <1>3, PTL DEF Spec, UpdatesAsAgreed

\* A catalog that is shown without asking Pi holds the models of the credential
\* that is stored, however many Pi processes outlive their commands, unless one
\* of them brought back the key that a look at the models had begun from
\* (provider_connection.rs, settings.rs).
THEOREM Current == Spec => []FreshIsCurrent
<1>1. Init => ProviderInv
  BY ProviderBegins DEF Init
<1>2. ProviderInv /\ [Next]_vars => ProviderInv'
  <2> SUFFICES ASSUME ProviderInv, [Next]_vars
               PROVE  ProviderInv'
    OBVIOUS
  <2>1. CASE UNCHANGED provider
    BY <2>1 DEF provider, stored, slot, cancel, forgotten, ProviderInv, ProviderTypeOK, Outlive,
       TaskOK, Apart, Slotted,
                Asks, Probes, Pending
  <2> QED
    BY <2>1, ProviderStep, ProviderStarts, PartsStep
<1>3. ProviderInv => FreshIsCurrent
  BY ProviderHolds
<1> QED
  BY <1>1, <1>2, <1>3, PTL DEF Spec

\* What the renderer shows under the number of a patch is what the turn had when
\* it took that patch, in the same order, and once everything has arrived the turn
\* as it ended, whatever was missed before; and when all is still, a page that the
\* panel knows is seen only if it is the active tab's, and then it is, unless a
\* panel that is gone was answered last about it, and the registry holds the
\* webviews there are, within its bound.  For any number of items, deltas, missed
\* events, Chats, pages, panels that are gone and moves of the user
\* (chat_progress.rs, ai-sdk.ts, browser.rs, useNativeBrowserTabs.ts).
THEOREM Exact == Spec => []ViewIsExact
<1>1. Init => DisplayInv /\ TabsInv
  BY DisplayBegins, TabsBegin DEF Init
<1>2. DisplayInv /\ TabsInv /\ [Next]_vars => (DisplayInv /\ TabsInv)'
  <2> SUFFICES ASSUME DisplayInv, TabsInv, [Next]_vars
               PROVE  DisplayInv' /\ TabsInv'
    OBVIOUS
  <2>1. DisplayInv'
    BY PartsStep, DisplaySteps, DisplayStays
  <2>2. TabsInv'
    BY PartsStep, TabsSteps, TabsStay
  <2> QED
    BY <2>1, <2>2
<1>3. DisplayInv /\ TabsInv => ViewIsExact
  BY DisplayIsExact, PagesAreExact DEF ViewIsExact
<1> QED
  BY <1>1, <1>2, <1>3, PTL DEF Spec
=============================================================================
