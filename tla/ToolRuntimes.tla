----------------------------- MODULE ToolRuntimes -----------------------------
(***************************************************************************)
(* What stands behind the tools of a turn: the session with a bundled MCP  *)
(* server and what a turn may ask of it; the search of the web, the        *)
(* request of one source, and the pages that a turn reads of it; financial *)
(* calculations, the reads of finance providers, and the search of the     *)
(* workbench's files.  McpPool takes a session's lists and calls as the    *)
(* steps that McpClient details, and the tools they list as those that the *)
(* grants have let through.  A behaviour follows one part (focus); the     *)
(* rest stay as they begin.                                                *)
(***************************************************************************)
EXTENDS Naturals

CONSTANTS
    Tool, MaxCalls, MaxToolPages, MaxChanges, MaxTrouble,  \* McpClient
    Elapsed, RetryAfter, Finds,                            \* WebResearch
    Fetch, Source, Unknown, Text, Nothing,
    HopTime, RetryAfters, MaxRedirects,
    MaxOperations, Deadline,                               \* Finance
    Reader, Credential, MaxTokens, Life,
    Node, Under(_), Root, Kinds(_), Named, MaxWalk, Limits, MaxOutput, MaxEdits
                                                           \* WorkbenchSearch

VARIABLES
    focus,
    request, result, slots, cancels, live, listing, inventory, changed, lost, reader,
    buffer, out, tools, open, alive, stop, lease, changes, trouble,
    query, at, turn_over, clock, index, budget, pause, asked, results, captured,
    sources, snapshots, fetch, read, together,
    official, rep, step, url, redirects, elapsed, limit, again, body, reached, page,
    operations, stage, doing, spent, outcome, ready, waits, heard, owes, half, ear,
    worker, recorded, upset,
    kind, reads, configured, profile, clearing, tokens, lock,
    tree, asks, phase, queue, visited, cut, output, count, skipped, said, kept, edits

Mcp    == INSTANCE McpClient
Web    == INSTANCE WebResearch
Money  == INSTANCE Finance
Files  == INSTANCE WorkbenchSearch

client   == <<request, result, slots, cancels, live, listing, inventory, changed, lost,
              reader, buffer, out, tools, open, alive, stop, lease, changes, trouble>>
search   == <<query, at, turn_over, clock, index, budget, pause, asked, results, captured>>
pages    == <<sources, snapshots, fetch, read, together>>
source   == <<official, rep, step, url, redirects, elapsed, limit, again, body, reached, page>>
web      == <<search, pages, source>>
batch    == <<operations, stage, doing, spent, outcome, ready, waits, heard, owes, half, ear,
              worker, recorded, upset>>
rows     == <<kind, reads, configured, profile, clearing, tokens, lock>>
finance  == <<batch, rows>>
look     == <<tree, asks, phase, queue, visited, cut, output, count, skipped, said, kept, edits>>
runtimes == <<focus, client, web, finance, look>>

RuntimesInit ==
    /\ focus \in {"client", "search", "pages", "source", "calculate", "finance", "files"}
    /\ Mcp!McpClientInit /\ (focus # "client" => changed = FALSE)
    /\ Money!FinanceInit
    /\ focus # "finance" => kind = "kis" /\ profile
                            /\ configured = CHOOSE key \in Money!Keys : TRUE
    /\ Money!CalculateInit /\ (focus # "calculate" => operations = <<"good">>)
    /\ Web!PagesInit
    /\ Web!RequestInit /\ (focus # "source" => official /\ url.host = "public")
    /\ Web!SearchInit
    /\ focus # "search" => query.policy = "exa_only" /\ query.provider = Web!Other
                           /\ ~query.narrow /\ ~query.cutoff
    /\ Files!LookInit
    /\ focus # "files" => /\ tree = [n \in Node |-> "gone"]
                         /\ asks = [kind |-> "list", limit |-> CHOOSE l \in Limits : TRUE]

Session(act)    == focus = "client" /\ act /\ UNCHANGED <<focus, web, finance, look>>
Asks(act)       == focus = "search" /\ act /\ UNCHANGED <<focus, client, pages, source, finance, look>>
Reads(act)      == focus = "pages" /\ act /\ UNCHANGED <<focus, client, search, source, finance, look>>
Gets(act)       == focus = "source" /\ act /\ UNCHANGED <<focus, client, search, pages, finance, look>>
Calculates(act) == focus = "calculate" /\ act /\ UNCHANGED <<focus, client, web, rows, look>>
Consults(act)   == focus = "finance" /\ act /\ UNCHANGED <<focus, client, web, batch, look>>
Looks(act)      == focus = "files" /\ act /\ UNCHANGED <<focus, client, web, finance>>

RuntimesNext ==
    \/ Session(Mcp!McpClientNext)
    \/ Asks(Web!SearchNext) \/ Reads(Web!PagesNext) \/ Gets(Web!RequestNext)
    \/ Calculates(Money!CalculateNext) \/ Consults(Money!FinanceNext)
    \/ Looks(Files!LookNext)

\* The fairness of the session and of the calculations, while they are followed.
RuntimesSpec ==
    /\ RuntimesInit /\ [][RuntimesNext]_runtimes
    /\ WF_runtimes(Session(Mcp!Caller)) /\ WF_runtimes(Session(Mcp!Shutdown))
    /\ WF_runtimes(Session(Mcp!Reaped)) /\ WF_runtimes(Calculates(Money!Host))
-----------------------------------------------------------------------------
\* What a tool answers is what was asked for.  Each MCP request has the answer
\* that was given to it, and no slot, change or process is forgotten (mcp.rs:578,
\* 798, 961).  A search asks whom the user's policy allows, in bounded time, and
\* what it shows is what can be fetched (search_provider.rs:13, research.rs:103).
\* The pages that a turn reads of a source are of one text (research.rs:345), and
\* that text is what it says it is, from public hosts (web.rs; see WebResearch).
\* Calculations have their own results, of a worker that is gone
\* (finance.rs:372), and reads of providers keep to the dates and credentials of
\* the turn (market.rs:145, kis.rs:165; see Finance).  A search of the
\* workbench shows all that it does not call truncated (workbench.rs:521).
AnswersAreOwn ==
    [][/\ focus = "client" => Mcp!OwnAnswers
       /\ focus = "search" => Web!SearchKeepsItsWord'
       /\ focus = "pages" => (Web!ReadsOn /\ Web!PagesAreWhole)'
       /\ focus = "source" => Web!FetchedAsNamed'
       /\ focus = "calculate" => Money!Calculated'
       /\ focus = "finance" => Money!ReadsAreSafe'
       /\ focus = "files" => (Files!SearchIsHonest /\ Files!SearchIsBounded)']_runtimes

\* A call returns and a session gives up its processes (mcp.rs:961; see
\* McpClient); calculations end (finance.rs:372; see Finance).
CallsReturn ==
    /\ (focus = "client") => Mcp!CallsReturn
    /\ (focus = "calculate") => Money!CalculationEnds
=============================================================================
