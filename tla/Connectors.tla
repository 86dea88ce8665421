------------------------------ MODULE Connectors ------------------------------
(***************************************************************************)
(* First one Marketplace connector: its configuration file, its            *)
(* credentials in the keychain (one the provider accepted and one that     *)
(* waits to be verified), the bindings that let Gurus use it in SQLite,    *)
(* and the turns that seal an agent session under the authority they ran   *)
(* with (marketplace.rs, marketplace/*.rs, finance_credentials.rs,         *)
(* commands.rs).  A lifecycle mutex orders the commands; a verification    *)
(* lets it go while it asks the provider.  Every store may fail, and the   *)
(* process may end.  Then, below, what a turn may ask of a bundled MCP     *)
(* server by what is enabled and configured (mcp_host.rs, mcp.rs).         *)
(***************************************************************************)
EXTENDS Integers

CONSTANTS
    Guru, Probe, Turn,  \* verifications and turns in flight
    Scope,              \* values of the configuration fields credentials belong to
    None,
    MaxChanges          \* bound: revisions and time stamps

VARIABLES
    bindings,    \* per Guru: enabled, updated_at_ms
    config,      \* value (None: no file) and revision
    active,      \* the credential executions get, or None; `at`: the scope it was accepted in (history)
    candidate,   \* the revision of the staged credential, or None
    command,     \* what the holder of the lifecycle mutex still has to do
    probes,      \* verifications
    turns,       \* per turn: the authority it captured; `stale`: that changed since (history)
    changes      \* revisions and stamps used

connectors == <<bindings, config, active, candidate, command, probes, turns, changes>>

Free == [op |-> "free", left |-> {}, value |-> None]
Resting == [step |-> "none", revision |-> 0, scope |-> None, asked |-> None]
NoTurn  == [step |-> "none", guru |-> None, authority |-> None, stale |-> FALSE]

ConnectorsInit ==
    /\ bindings = [g \in Guru |-> [enabled |-> FALSE, stamp |-> 0]]
    /\ config = [value |-> None, revision |-> 0]
    /\ active = None /\ candidate = None /\ command = Free
    /\ probes = [v \in Probe |-> Resting] /\ turns = [t \in Turn |-> NoTurn]
    /\ changes = 0

Unlocked == command.op = "free"
Room     == changes < MaxChanges
Fresh    == changes + 1
Used     == Room /\ changes' = Fresh

\* The running turns of these Gurus see what they may use change.
Change(gurus) ==
    turns' = [t \in Turn |->
        [turns[t] EXCEPT !.stale = @ \/ (turns[t].step = "runs" /\ turns[t].guru \in gurus)]]
Users == {g \in Guru : bindings[g].enabled}
-----------------------------------------------------------------------------
\* stage: a new candidate replaces the one there is; the active one stays.
Save ==
    /\ Unlocked /\ Used /\ candidate' = Fresh
    /\ UNCHANGED <<bindings, config, active, command, probes, turns>>

\* The candidate and its scope are read under the mutex ...
BeginVerification(v) ==
    /\ Unlocked /\ probes[v].step = "none" /\ candidate # None
    /\ probes' = [probes EXCEPT ![v] = [Resting EXCEPT !.step = "asks", !.revision = candidate,
                                                       !.scope = config.value]]
    /\ UNCHANGED <<bindings, config, active, candidate, command, turns, changes>>

\* ... the provider is asked without it.  A native source uses what was read;
\* a bundled MCP server is started with the configuration of that moment.
Ask(v, scope) ==
    /\ probes[v].step = "asks" /\ scope \in {probes[v].scope, config.value}
    /\ probes' = [probes EXCEPT ![v].step = "answers", ![v].asked = scope]
    /\ UNCHANGED <<bindings, config, active, candidate, command, turns, changes>>

StillInScope(v) == config.value = probes[v].scope

\* Compare and swap: only the candidate that was asked about becomes active.
IsCurrent(v) == candidate = probes[v].revision

FinishVerification(v) ==
    /\ Unlocked /\ probes[v].step = "answers"
    /\ probes' = [probes EXCEPT ![v] = Resting]
    /\ \/ /\ StillInScope(v) /\ IsCurrent(v)
          /\ active' = [revision |-> candidate, at |-> probes[v].asked]
          /\ candidate' = None /\ Change(Users)
       \* The provider refuses or does not answer, or the keychain fails.
       \/ UNCHANGED <<active, candidate, turns>>
    /\ UNCHANGED <<bindings, config, command, changes>>
-----------------------------------------------------------------------------
Ready == config.value # None /\ active # None

SaveBinding(g, enabled) ==
    /\ Unlocked /\ (enabled => Ready) /\ Used
    /\ bindings' = [bindings EXCEPT ![g] = [enabled |-> enabled, stamp |-> Fresh]]
    /\ Change({g}) /\ UNCHANGED <<config, active, candidate, command, probes>>

\* Slip: the scope is compared after the new values replaced the old ones.
ScopeComparedLate(value) == value # value

\* Deleting the credentials, or configuring another scope: first every Guru's
\* binding is disabled, then the credentials go, then the file is written.
ScopeChanged(value) == value # config.value

Configure(value) ==
    /\ Unlocked
    /\ command' = [op |-> IF ScopeChanged(value) THEN "disable" ELSE "write",
                   left |-> Guru, value |-> value]
    /\ UNCHANGED <<bindings, config, active, candidate, probes, turns, changes>>

Delete ==
    /\ Unlocked /\ command' = [op |-> "disable", left |-> Guru, value |-> None]
    /\ UNCHANGED <<bindings, config, active, candidate, probes, turns, changes>>

DisableOne(g) ==
    /\ command.op = "disable" /\ g \in command.left
    /\ command' = [command EXCEPT !.left = @ \ {g}]
    /\ IF bindings[g].enabled
       THEN /\ Used
            /\ bindings' = [bindings EXCEPT ![g] = [enabled |-> FALSE, stamp |-> Fresh]]
            /\ Change({g})
       ELSE UNCHANGED <<bindings, turns, changes>>
    /\ UNCHANGED <<config, active, candidate, probes>>

DropCredentials ==
    /\ command.op = "disable" /\ command.left = {}
    /\ active' = None /\ candidate' = None
    /\ command' = IF command.value = None THEN Free ELSE [command EXCEPT !.op = "write"]
    /\ UNCHANGED <<bindings, config, probes, turns, changes>>

\* The revision stays only with the same content.
Rewritten(value) == value # config.value

WriteConfig ==
    /\ command.op = "write" /\ command' = Free
    /\ IF Rewritten(command.value)
       THEN Used /\ config' = [value |-> command.value, revision |-> Fresh] /\ Change(Guru)
       ELSE UNCHANGED <<config, turns, changes>>
    /\ UNCHANGED <<bindings, active, candidate, probes>>

\* A store refuses the next step of a command; a keychain that reports an
\* error may have deleted the entry.
CommandFails ==
    /\ ~Unlocked /\ command' = Free
    /\ \/ UNCHANGED <<active, candidate>>
       \/ /\ command.op = "disable" /\ command.left = {}
          /\ active' = None /\ candidate' = None
    /\ UNCHANGED <<bindings, config, probes, turns, changes>>

\* What is stored stays; commands, verifications and turns end.
Crash ==
    /\ command' = Free /\ probes' = [v \in Probe |-> Resting]
    /\ turns' = [t \in Turn |-> IF turns[t].step = "sealed" THEN turns[t] ELSE NoTurn]
    /\ UNCHANGED <<bindings, config, active, candidate, changes>>
-----------------------------------------------------------------------------
Revision == IF active = None THEN 0 ELSE active.revision
\* Slip: only what SQLite knows is sealed.
AuthorityOfBindings(g) == [binding |-> bindings[g], config |-> 0, credential |-> 0]
Authority(g) == [binding |-> bindings[g], config |-> config.revision, credential |-> Revision]

\* capture_chat_connector_authority, under the mutex.
BeginTurn(t, g) ==
    /\ Unlocked /\ turns[t].step # "runs"
    /\ turns' = [turns EXCEPT ![t] = [step |-> "runs", guru |-> g, authority |-> Authority(g),
                                      stale |-> FALSE]]
    /\ UNCHANGED <<bindings, config, active, candidate, command, probes, changes>>

Unchanged(t) == turns[t].authority = Authority(turns[t].guru)

\* Captured again, and compared; an unreadable store, at either time, or a turn
\* that did not complete makes the session unfit for a later warm start.
EndTurn(t) ==
    /\ Unlocked /\ turns[t].step = "runs"
    /\ \E fit \in BOOLEAN : turns' = [turns EXCEPT ![t] =
           IF fit /\ Unchanged(t)
           THEN [NoTurn EXCEPT !.step = "sealed", !.stale = turns[t].stale] ELSE NoTurn]
    /\ UNCHANGED <<bindings, config, active, candidate, command, probes, changes>>

ConnectorsNext ==
    \/ Save \/ Delete \/ \E value \in Scope : Configure(value)
    \/ \E v \in Probe :
        \/ BeginVerification(v) \/ FinishVerification(v)
        \/ \E scope \in Scope \cup {None} : Ask(v, scope)
    \/ \E g \in Guru : DisableOne(g) \/ \E enabled \in BOOLEAN : SaveBinding(g, enabled)
    \/ DropCredentials \/ WriteConfig \/ CommandFails \/ Crash
    \/ \E t \in Turn :
        EndTurn(t) \/ \E g \in Guru : BeginTurn(t, g)
-----------------------------------------------------------------------------
\* A Guru may use the connector only with a credential that its provider
\* accepted in the scope the connector is configured for, through every race
\* of a slow verification with saving, deleting and configuring and wherever
\* a store fails or the process ends (marketplace/credentials.rs:686).
ExecutableAsVerified ==
    \A g \in Guru : bindings[g].enabled => active # None /\ active.at = config.value

\* A session is kept for a warm start only when neither the Guru's binding nor
\* the configuration nor, while the Guru could use it, the active credential
\* changed at any time of its turn, not even there and back (commands.rs:412,
\* chat_runtime.rs:2881).
SealedUnderOneAuthority == \A t \in Turn : turns[t].step = "sealed" => ~turns[t].stale
-----------------------------------------------------------------------------
\* What a Chat turn may ask of one bundled MCP runtime: the providers that its
\* Guru's capabilities grant and whose configuration is complete, the server's
\* tools narrowed to them, a call checked against the narrowed tool, and its
\* result against the provider that was asked for.
\*
\* What the signed manifest says of the one tool that is followed, what the
\* Guru has enabled and what the server lists may be anything; the catalog's
\* entries are constants.

CONSTANTS
    Provider,    \* provider ids of the runtime
    Needs,       \* providers with manifest-declared config fields
    Entry,       \* Marketplace entries of this runtime
    Of,          \* Of[e]: the providers of an entry
    Configures   \* entries that collect their provider's config

VARIABLES
    manifest,    \* the tool is a control tool, is local, has an implicit provider
    capability,  \* the entries that the Guru has enabled
    filled,      \* entries whose config fields all have values
    granted,     \* enabled_provider_ids; {} until it is resolved
    listed,      \* a tool that the server lists
    offered,     \* the same in TurnMcpServer::tools, narrowed
    call,        \* the call that was let through: its argument and provider
    answer,      \* the provider that the result's receipt names
    verdict      \* "none", "taken" or "stopped" (the session is discarded)

grants == <<manifest, capability, filled, granted, listed, offered, call, answer, verdict>>

Nobody == "nobody"

\* A schema's provider property, or its absence: enum, const and default.  Of an
\* enum it is how often it names each provider that matters, and its order does
\* not; no enum names nobody.
Enum == [Provider -> 0 .. 2]
Only(q)  == [p \in Provider |-> IF p = q THEN 1 ELSE 0]
Names(e) == {p \in Provider : e[p] > 0}
Property ==
    [enum : Enum, const : Provider \cup {Nobody}, default : Provider \cup {Nobody}]
Plain == [const |-> Nobody, default |-> Nobody]
Schema == [readOnly : BOOLEAN, provider : Property \cup {Plain}, required : {FALSE}]
Aware(tool) == tool.provider # Plain

Manifest ==
    [control : BOOLEAN, local : BOOLEAN, implicit : Provider \cup {"stranger", Nobody}]

\* Slip: a tool may be accounted for twice.
ManifestIsTyped == manifest.implicit \in Provider \cup {Nobody}

\* validate_runtime_manifest; without it the runtime is not discovered.
ManifestIsValid ==
    /\ manifest.implicit \in Provider \cup {Nobody}
    /\ ~(manifest.local /\ manifest.implicit # Nobody)

McpGrantsInit ==
    /\ manifest \in Manifest
    /\ capability \in SUBSET Entry /\ filled \in SUBSET Configures
    /\ granted = {} /\ listed = <<>> /\ offered = <<>>
    /\ call = <<>> /\ answer = Nobody /\ verdict = "none"
-----------------------------------------------------------------------------
\* collect_server_provider_config: of all entries, enabled or not; an enabled
\* one must be complete, and one provider is not configured twice.
Collected == {e \in Configures : e \in filled}
Collectable ==
    /\ \A e \in Configures : e \in capability => e \in filled
    /\ \A e, f \in Collected : e # f => Of[e] # Of[f]
Configured == UNION {Of[e] : e \in Collected}

\* Slip: the entry's own setup is enough.
GrantedAsRequested == UNION {Of[e] : e \in capability}

\* configured_provider_ids
Granted ==
    {p \in UNION {Of[e] : e \in capability} : p \in Needs => p \in Configured}

\* mcp_run_authority, when the session is first asked for.
Resolve ==
    /\ granted = {} /\ ManifestIsValid /\ Collectable /\ Granted # {}
    /\ granted' = Granted
    /\ UNCHANGED <<manifest, capability, filled, listed, offered, call, answer, verdict>>
-----------------------------------------------------------------------------
\* filter_tool_providers.  What the server would accept: without an enum, the
\* constant or the default; without any, nothing.
Candidates(p) ==
    IF Names(p.enum) # {} THEN p.enum
    ELSE IF p.const # Nobody THEN Only(p.const) ELSE Only(p.default)
Available(tool) ==
    [p \in Provider |-> IF p \in granted THEN Candidates(tool.provider)[p] ELSE 0]

\* A tool is hidden that does not say that it only reads, has no granted
\* provider, or insists on another one.
Shown(tool) ==
    /\ manifest.control \/ tool.readOnly
    /\ Aware(tool) =>
         /\ Names(Available(tool)) # {}
         /\ tool.provider.const # Nobody => Available(tool) = Only(tool.provider.const)

\* Slip: the enum alone is narrowed.
NarrowedOptional(tool) ==
    IF ~Aware(tool) THEN tool
    ELSE [tool EXCEPT !.provider.enum = Available(tool)]

Narrowed(tool) ==
    IF ~Aware(tool) THEN tool
    ELSE [tool EXCEPT
            !.provider = [enum |-> Available(tool), const |-> @.const,
                          default |-> IF @.default \in Names(Available(tool)) THEN @.default ELSE Nobody],
            !.required = TRUE]

\* filter_inventory: a tool without a provider property is let through by the
\* signed manifest alone.
Authorized(tool) ==
    manifest.control \/ Aware(tool) \/ manifest.local \/ manifest.implicit \in granted

\* refresh_inventory, of a server that lists whatever it likes; that nothing is
\* left is an error.
Inventory ==
    /\ granted # {} /\ offered = <<>>
    /\ \E tool \in Schema :
         /\ Authorized(tool) /\ Shown(tool)
         /\ listed' = <<tool>> /\ offered' = <<Narrowed(tool)>>
    /\ UNCHANGED <<manifest, capability, filled, granted, call, answer, verdict>>
-----------------------------------------------------------------------------
\* validate_provider_argument
Allows(tool, provider) ==
    Aware(tool) =>
        /\ tool.required => provider # Nobody
        /\ provider # Nobody => provider \in granted /\ provider \in Names(tool.provider.enum)

\* mcp_call: the tool that is offered, with a provider or without, and what the
\* receipt is to name.
Requested(provider) == IF provider = Nobody THEN manifest.implicit ELSE provider

Call ==
    /\ offered # <<>> /\ call = <<>>
    /\ \E provider \in Provider \cup {Nobody} :
         /\ Allows(offered[1], provider)
         /\ call' = <<[argument |-> provider, provider |-> Requested(provider)]>>
    /\ UNCHANGED <<manifest, capability, filled, granted, listed, offered, answer, verdict>>

\* Slip: the receipt is to name some granted provider.
MatchesAny(requested, receipt) == requested # Nobody => receipt \in granted

\* validate_result_provider
Matches(requested, receipt) ==
    requested # Nobody => requested \in granted /\ receipt = requested /\ receipt \in granted

Received ==
    /\ call # <<>> /\ verdict = "none"
    /\ \E receipt \in Provider \cup {Nobody} :
         /\ answer' = receipt
         /\ verdict' = IF Matches(call[1].provider, receipt) THEN "taken" ELSE "stopped"
    /\ UNCHANGED <<manifest, capability, filled, granted, listed, offered, call>>

McpGrantsNext == Resolve \/ Inventory \/ Call \/ Received
-----------------------------------------------------------------------------
\* "A provider-aware OpenBB endpoint must never fall back to a server default
\* after Guru authorization narrowed its provider set" (mcp.rs): what such a
\* tool is asked for names a provider that an enabled entry grants, that is
\* configured, and that the server itself would have accepted.
AsksWhatIsGranted ==
    call # <<>> /\ Aware(offered[1]) =>
        LET p == call[1].argument IN
        /\ \E e \in capability : p \in Of[e]
        /\ p \in Needs => \E e \in filled : p \in Of[e]
        /\ p \in Names(Candidates(listed[1].provider))
        /\ listed[1].provider.const \in {Nobody, p}

\* A tool that names no provider is only called if the manifest accounts for
\* it, by a provider that was granted if it has one; and one that may write only
\* if it is a control tool.
UnnamedIsAccountedFor ==
    call # <<>> /\ ~manifest.control =>
        /\ listed[1].readOnly
        /\ ~Aware(listed[1]) =>
             manifest.implicit \in granted \/ (manifest.local /\ manifest.implicit = Nobody)

\* The answer that a turn takes is by the provider it asked, and never by one
\* that its Guru was not granted.
TakesWhatWasAsked ==
    verdict = "taken" /\ call[1].provider # Nobody =>
        answer = call[1].provider /\ \E e \in capability : answer \in Of[e]

CallsAreGranted == AsksWhatIsGranted /\ UnnamedIsAccountedFor /\ TakesWhatWasAsked
=============================================================================
