------------------------------- MODULE Services -------------------------------
(***************************************************************************)
(* The parts of one application that share the process and the maintenance *)
(* gate and nothing else: the provider commands and the updater, each      *)
(* composed with all that the other can do to it through the gate          *)
(* (installations that begin and end, work that comes and goes), the       *)
(* Marketplace connectors and what a turn may ask by them, and what a turn *)
(* has to itself: the file of the workbench that it changes, its compute   *)
(* host, the progress it shows and the pages beside it.  A behaviour       *)
(* follows one of them (focus), the rest stay as they begin.               *)
(***************************************************************************)
EXTENDS ProviderSupport, Updater

CONSTANTS
    Work, MaxCrashes,                    \* other work; bound
    Guru, Probe, Session, Scope, MaxChanges,  \* Connectors:
    Source, Needs, Entry, Of, Configures,     \* the connector, grants
    Turn, Content, Absent, MaxUser,      \* Workbench
    Cell, Packages(_), MaxHosts,         \* ComputeSession
    Tracked, MaxItems, MaxText, MaxMissed, \* TurnProgress
    Thread, Page, Unset, MaxPages, MaxMoves  \* BrowserTabs

ASSUME ServicesAssumption ==
    /\ None \notin Nat \cup Scope \cup [revision : Nat, at : Scope \cup {None}]
    /\ IsFiniteSet(Turn) /\ MaxHosts \in Nat

ASSUME BrowserAssumption ==
    MaxPages \in Nat /\ Unset \notin Page /\ Thread # {}

VARIABLES
    focus, crashes,
    bindings, config, active, candidate, command, probes, turns, changes,
    manifest, capability, filled, granted, listed, offered, call, answer, verdict,
    file, registered, calls, seen, edits,
    cells, worker, asked, answers, processes, spawned, ended,
    projection, channel, view, missed, taken,
    session, page, panel, opening, flush, parting, native, closing, leaving, moves

Market  == INSTANCE Connectors WITH Turn <- Session, Provider <- Source
Bench   == INSTANCE Workbench
Host    == INSTANCE ComputeSession
Display == INSTANCE TurnProgress
Tabs    == INSTANCE BrowserTabs

app     == <<gate, provider, updater, crashes>>
market  == <<bindings, config, active, candidate, command, probes, turns, changes>>
grants  == <<manifest, capability, filled, granted, listed, offered, call, answer, verdict>>
bench   == <<file, registered, calls, seen, edits>>
host    == <<cells, worker, asked, answers, processes, spawned, ended>>
display == <<projection, channel, view, missed, taken>>
browser == <<session, page, panel, opening, flush, parting, native, closing, leaving, moves>>
vars    == <<app, focus, market, grants, bench, host, display, browser>>

Init ==
    /\ focus \in {"provider", "updater", "connectors", "grants", "workbench", "compute", "progress", "browser"}
    /\ GateInit /\ ProviderInit /\ UpdaterInit /\ crashes = 0
    /\ Market!ConnectorsInit /\ Market!McpGrantsInit
    /\ Bench!WorkbenchInit /\ Host!ComputeInit /\ Display!ProgressInit
    /\ Tabs!BrowserInit
    \* What the behaviour does not follow begins in one way.
    /\ focus # "provider" => credential = None
    /\ focus # "workbench" => file = Absent
    /\ focus # "grants" => manifest.implicit = Market!Nobody /\ ~manifest.local /\ ~manifest.control
                           /\ capability = Entry /\ filled = Configures

TurnsRest == UNCHANGED <<grants, bench, host, display, browser>>
Rest      == TurnsRest /\ UNCHANGED market

Provider(step) == focus = "provider" /\ step /\ Rest /\ UNCHANGED <<updater, focus, crashes>>
Update(step)   == focus = "updater" /\ step /\ Rest /\ UNCHANGED <<provider, focus, crashes>>

Connect ==
    focus = "connectors" /\ Market!ConnectorsNext /\ TurnsRest /\ UNCHANGED <<app, focus>>
AskServer ==
    /\ focus = "grants" /\ Market!McpGrantsNext
    /\ UNCHANGED <<app, focus, market, bench, host, display, browser>>
Edit ==
    /\ focus = "workbench" /\ Bench!WorkbenchNext
    /\ UNCHANGED <<app, focus, market, grants, host, display, browser>>
Compute ==
    /\ focus = "compute" /\ Host!ComputeNext
    /\ UNCHANGED <<app, focus, market, grants, bench, display, browser>>
Stream ==
    /\ focus = "progress" /\ Display!ProgressNext
    /\ UNCHANGED <<app, focus, market, grants, bench, host, browser>>

Browse ==
    /\ focus = "browser" /\ Tabs!BrowserNext
    /\ UNCHANGED <<app, focus, market, grants, bench, host, display>>

Installation == CloseGate \/ (installing /\ OpenGate)
OtherWork    == Admit(Work) \/ Leave(Work)
Environment ==
    \/ Provider(Installation /\ UNCHANGED provider)
    \/ Update(OtherWork /\ UNCHANGED updater)

GateReset == installing' = FALSE /\ activities' = {}

\* The installation ends the process, and the new one begins.
Relaunch == Restart /\ ProviderLost /\ GateReset /\ Rest /\ UNCHANGED <<focus, crashes>>

Crash ==
    /\ crashes < MaxCrashes /\ crashes' = crashes + 1
    /\ focus \in {"provider", "updater"}
    /\ UpdaterLost /\ ProviderLost /\ GateReset /\ Rest /\ UNCHANGED focus

Next ==
    \/ Provider(ProviderNext) \/ Update(UpdaterNext) \/ Environment
    \/ Relaunch \/ Crash \/ Connect \/ AskServer \/ Edit \/ Compute \/ Stream \/ Browse

Spec == Init /\ [][Next]_vars

\* The application's own steps, which the runtime schedules, and the deadlines
\* of the updater's requests.  Neither Pi's answer, nor its timeout, nor the
\* user.
FairSpec ==
    /\ Spec
    /\ \A r \in Request : WF_vars(Provider(Proceed(r)))
    /\ WF_vars(Provider(NotifyWaiters))
    /\ WF_vars(Update(FinishCheck \/ FailCheck))
    /\ WF_vars(Update(Settle) \/ Relaunch)
-----------------------------------------------------------------------------
\* A cancelled sign-in ends although Pi never answers, and neither a check nor
\* an installation keeps the updater or the gate for ever.
RequestsEnd == CancelEnds /\ UpdaterReturns

\* A Guru uses a connector only as its provider accepted it, and a session is
\* kept warm only under one authority (marketplace.rs, commands.rs; see
\* Connectors).
ConnectorsAsVerified == Market!ExecutableAsVerified /\ Market!SealedUnderOneAuthority

\* A server is asked for what the Guru was granted (mcp.rs:1500; see Connectors).
CallsAreGranted == Market!CallsAreGranted

\* A turn's change of the workbench replaces what the turn saw (workbench.rs;
\* see Workbench).
ReplacesWhatWasSeen == Bench!ReplacesWhatWasSeen

\* Cells are answered by hosts that are theirs (compute.rs; see ComputeSession).
HostsAreClean == Host!HostsAreClean

\* The renderer shows what the turn did, and above it no page but the one the
\* user turned to (chat_progress.rs, browser.rs; see TurnProgress, BrowserTabs).
ViewIsExact == Display!ViewIsExact /\ Tabs!PagesAreShown
=============================================================================
