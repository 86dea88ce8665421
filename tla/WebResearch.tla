----------------------------- MODULE WebResearch ------------------------------
(***************************************************************************)
(* What a turn has from the web.                                           *)
(*                                                                         *)
(* One search (web/search_provider.rs): the providers that the user's      *)
(* policy and the Chat's model allow are asked one after the other, each   *)
(* twice at most, within one bounded operation that the end of the turn    *)
(* cancels; what one of them finds is filtered, answered, and captured to  *)
(* be fetched (tool_executor/research.rs).                                 *)
(*                                                                         *)
(* The pages of sources (web_fetch in tool_executor/research.rs): a source *)
(* is fetched once, its text is kept for the turn, and the agent reads on  *)
(* at the offsets that the pages name.  Calls run side by side; what a     *)
(* call captures is the turn's when its answer has been delivered          *)
(* (tool_executor.rs), and nothing of it if it was not.                    *)
(*                                                                         *)
(* The request of one source (web.rs), which the pages take as one step:   *)
(* the official representation of a source that has one first              *)
(* (web/official.rs), the page itself if that fails in a way that another  *)
(* representation may not; each is requested hop by hop, and once again if *)
(* the host limits the rate.                                               *)
(***************************************************************************)
EXTENDS Naturals, Sequences, FiniteSets, SequencesExt

\* The search.  Time is counted in quarters of a second.
CONSTANTS
    Elapsed,     \* how long an attempt may take, short of all its time
    RetryAfter,  \* what a provider may ask for before it is asked again
    Finds        \* what a provider may find: sequences of Results

VARIABLES
    query,       \* the user's policy, the Chat's provider, and the filters
    at,          \* where the operation is
    turn_over,   \* cancelled: the turn has ended
    clock,       \* since the operation began
    index,       \* the candidate that is asked
    budget,      \* what is left of its time
    pause,       \* how long to wait before it is asked again
    asked,       \* history: the attempts
    results,     \* what is answered
    captured     \* the sources that the turn may fetch by their ids

search == <<query, at, turn_over, clock, index, budget, pause, asked, results, captured>>

OperationTimeout == 240  \* SEARCH_OPERATION_TIMEOUT
NativeTimeout    == 156  \* NATIVE_SEARCH_TIMEOUT
AnonymousTimeout == 80   \* SEARCH_TIMEOUT
RetryDelay       == 3    \* SEARCH_RETRY_DELAY
MaxWait          == 12   \* clamp_retry_after
Limit            == 2

Codex == "openai-codex"
Xai   == "xai"
Exa   == "exa_public"
Other == "another provider"
Least(a, b) == IF a < b THEN a ELSE b

\* A result is what the filters tell apart: an URL that is not allowed, another
\* site than those asked for, a date before the period or after the turn's
\* as-of date; or none of these, with and without a date.
Results == {"dated", "undated", "denied", "elsewhere", "old", "late"}

SearchInit ==
    /\ query \in [policy : {"automatic", "model_only", "exa_only"},
                  provider : {Codex, Xai, Other}, narrow : BOOLEAN, cutoff : BOOLEAN]
    /\ at = "next" /\ turn_over = FALSE /\ clock = 0 /\ index = 1 /\ budget = 0 /\ pause = 0
    /\ asked = <<>> /\ results = <<>> /\ captured = {}

\* resolve_search_candidates
Candidates ==
    CASE query.policy = "model_only" ->
           IF query.provider \in {Codex, Xai} THEN <<query.provider>> ELSE <<>>
      [] query.policy = "exa_only" -> <<Exa>>
      [] query.policy = "automatic" ->
           IF query.provider = Codex THEN <<Codex, Exa>> ELSE <<Exa>>

\* Slip: a native search may take most of the operation.
AnyTime(p) == IF p = Exa THEN AnonymousTimeout ELSE OperationTimeout

Timeout(p) == IF p = Exa THEN AnonymousTimeout ELSE NativeTimeout
Candidate   == Candidates[index]
End(how)   == at' = how
Answer     == <<results, captured>>
-----------------------------------------------------------------------------
\* execute_search: the next candidate has what is left, up to its own time.
NextCandidate ==
    /\ at = "next"
    /\ IF Candidates = <<>> \/ turn_over \/ clock >= OperationTimeout
       THEN End("failed") /\ UNCHANGED budget
       ELSE at' = "ask" /\ budget' = Least(OperationTimeout - clock, Timeout(Candidate))
    /\ UNCHANGED <<query, turn_over, clock, index, pause, asked, Answer>>

\* Slip: only the next candidate is not asked once the turn is over.
AskAnyway(retry) ==
    /\ asked' = Append(asked, [provider |-> Candidate, again |-> retry, left |-> budget,
                               over |-> turn_over])
    /\ at' = "asking"

\* attempt_provider: the cancellation is looked at first.
Attempt(retry) ==
    IF turn_over THEN End("failed") /\ UNCHANGED asked
    ELSE /\ asked' = Append(asked, [provider |-> Candidate, again |-> retry, left |-> budget,
                                    over |-> turn_over])
         /\ at' = "asking"

Ask ==
    /\ at = "ask" /\ Attempt(FALSE)
    /\ UNCHANGED <<query, turn_over, clock, index, budget, pause, Answer>>
AskAgain ==
    /\ at = "wait" /\ Attempt(TRUE)
    /\ clock' = clock + pause /\ budget' = budget - pause /\ pause' = 0
    /\ UNCHANGED <<query, turn_over, index, Answer>>

\* retryable_search_error, and those that are left to another provider
\* (fallbackable_search_error); "denied" is the search's own fault.
Retryable    == {"limited", "timeout", "transport"}
Fallbackable == Retryable \cup {"provider"}
Errors       == Fallbackable \cup {"denied"}

\* run_native_web_search and search_exa_once: a hosted search may itself answer
\* that it took too long; the anonymous one is over when its time is.
Native(e, d)    == d = budget => e = "timeout"
Anonymous(e, d) == (d = budget) = (e = "timeout")
AnswersSo(e, d) == IF Candidate = Exa THEN Anonymous(e, d) ELSE Native(e, d)

\* Slip: a provider is asked again when it says.
WaitAsAsked(after, left) == IF after = <<>> THEN <<Least(RetryDelay, left)>> ELSE after

\* How long to wait; <<>> if that would be too long (clamp_retry_after).
Wait(after, left) ==
    IF after = <<>> THEN <<Least(RetryDelay, left)>>
    ELSE IF after[1] <= Least(MaxWait, left) THEN after ELSE <<>>

Again     == asked[Len(asked)].again
Passes(d) == clock' = clock + d /\ budget' = budget - d

\* An attempt fails or its time is over: the provider is asked again, or the
\* next one is, or the search has failed.
Fails ==
    /\ at = "asking" /\ ~turn_over
    /\ \E e \in Errors, after \in RetryAfter, d \in Elapsed \cup {budget} :
         /\ d <= budget /\ AnswersSo(e, d) /\ (e # "limited" => after = <<>>)
         /\ Passes(d)
         /\ LET wait == Wait(after, budget - d) IN
            IF ~Again /\ e \in Retryable /\ d < budget /\ wait # <<>>
            THEN at' = "wait" /\ pause' = wait[1] /\ UNCHANGED index
            ELSE IF e \in Fallbackable /\ index < Len(Candidates)
            THEN at' = "next" /\ index' = index + 1 /\ UNCHANGED pause
            ELSE End("failed") /\ UNCHANGED <<index, pause>>
    /\ UNCHANGED <<query, turn_over, asked, Answer>>
Cancelled ==
    /\ at = "asking" /\ turn_over /\ End("failed")
    /\ UNCHANGED <<query, turn_over, clock, index, budget, pause, asked, Answer>>
-----------------------------------------------------------------------------
\* apply_search_filters_counted
Passing(r) == r # "denied" /\ (query.narrow => r \notin {"elsewhere", "old"})
Filtered(found) ==
    LET passing == SelectSeq(found, Passing) IN
    SubSeq(passing, 1, Least(Len(passing), Limit))

\* The as-of date of the turn: what has no date is kept.
Dated(r) == query.cutoff => r # "late"

\* Slip: what is captured is what was found.
CapturesAll(found) == captured' = ToSet(Filtered(found))
Captures(found)    == captured' = ToSet(SelectSeq(Filtered(found), Dated))

Succeeds ==
    /\ at = "asking" /\ ~turn_over
    /\ \E found \in Finds, d \in Elapsed :
         /\ d < budget /\ Passes(d)
         /\ results' = SelectSeq(Filtered(found), Dated) /\ Captures(found)
    /\ End("answered") /\ UNCHANGED <<query, turn_over, index, pause, asked>>

TurnEnds ==
    /\ ~turn_over /\ at \notin {"answered", "failed"} /\ turn_over' = TRUE
    /\ UNCHANGED <<query, at, clock, index, budget, pause, asked, Answer>>

SearchNext ==
    \/ NextCandidate \/ Ask \/ AskAgain \/ Fails \/ Cancelled \/ Succeeds \/ TurnEnds
-----------------------------------------------------------------------------
\* "Keep native attempts short enough that Automatic still has one complete
\* anonymous-search window within the bounded operation" (search_provider.rs:13):
\* however the attempts before it went, the anonymous search has all its time,
\* and the operation ends within its own.
WithinBounds ==
    /\ clock <= OperationTimeout /\ clock + budget <= OperationTimeout
    /\ \A i \in DOMAIN asked :
         asked[i].provider = Exa /\ ~asked[i].again => asked[i].left = AnonymousTimeout

\* No provider is asked but those that the user's policy allows, each once and
\* once again, and none when the turn is over.
AsksOnly ==
    /\ \A i \in DOMAIN asked : ~asked[i].over /\ asked[i].provider \in
         (CASE query.policy = "exa_only" -> {Exa}
            [] query.policy = "model_only" -> {query.provider} \ {Other}
            [] OTHER -> {query.provider, Exa} \ {Xai, Other})
    /\ \A i, j \in DOMAIN asked :
         asked[i].provider = asked[j].provider /\ asked[i].again = asked[j].again => i = j

\* The agent can fetch exactly what it was shown, and it was shown nothing that
\* it must not see.
ShownIsCaptured ==
    /\ captured = ToSet(results)
    /\ "denied" \notin captured /\ (query.cutoff => "late" \notin captured)
    /\ query.narrow => captured \cap {"elsewhere", "old"} = {}

SearchKeepsItsWord == WithinBounds /\ AsksOnly /\ ShownIsCaptured
-----------------------------------------------------------------------------
\* The pages of the sources.
CONSTANTS
    Fetch,     \* calls of the turn
    Source,    \* sources that a search has found or an URL names
    Unknown,   \* those that only an URL names so far
    Text,      \* what a source may answer: the boundaries of its pages, 0 first
    Nothing

VARIABLES
    sources,   \* sources that are captured
    snapshots, \* for each source its text and the offsets that were issued
    fetch,     \* each call: where it is, its source, its offset, what it staged
    read,      \* history: the pages that the agent was given
    together   \* history: sources that two calls read at one time

pages == <<sources, snapshots, fetch, read, together>>

Offset == UNION Text \cup {99}
NoFetch == [at |-> "idle", source |-> Nothing, offset |-> 0, named |-> FALSE,
            staged |-> Nothing, page |-> Nothing]

PagesInit ==
    /\ sources = Source \ Unknown /\ snapshots = [s \in Source |-> Nothing]
    /\ fetch = [c \in Fetch |-> NoFetch] /\ read = {} /\ together = {}

Busy(s) == {c \in Fetch : fetch[c].at \in {"fetching", "staged"} /\ fetch[c].source = s}
Set(c, f) == fetch' = [fetch EXCEPT ![c] = f]
Failed(c) == Set(c, [NoFetch EXCEPT !.at = "done"]) /\ UNCHANGED together

\* Slip: any offset within the text is read.
AnyOffset(text, offset) == \E o \in text.cuts : offset <= o

\* require_issued_web_offset
Issued(text, offset) == offset \in text.issued

\* content_page: the offset of the next page, if there is one.
After(cuts, offset) == {o \in cuts : o > offset}
NextOf(cuts, offset) ==
    IF After(cuts, offset) = {} THEN Nothing
    ELSE CHOOSE o \in After(cuts, offset) : \A p \in After(cuts, offset) : o <= p

\* Slip: the offset that the page names is not remembered.
RemembersFirst(text, next) == text.issued
Remembers(text, next) == text.issued \cup ({next} \ {Nothing})

\* The page is cut from the turn's text, and the text is staged with the offset
\* that the page names.
Page(c, f, text) ==
    IF Issued(text, f.offset)
    THEN LET next == NextOf(text.cuts, f.offset) IN
         Set(c, [f EXCEPT !.at = "staged",
                          !.staged = [text EXCEPT !.issued = Remembers(text, next)],
                          !.page = [source |-> f.source, text |-> text.of,
                                    offset |-> f.offset, next |-> next]])
    ELSE Set(c, [NoFetch EXCEPT !.at = "done"])

\* web_fetch up to its first wait: by the id of a captured source, or by an URL,
\* whose source is staged as well.
Begin(c, s, offset, named) ==
    /\ fetch[c].at = "idle"
    /\ LET f == [NoFetch EXCEPT !.at = "fetching", !.source = s, !.offset = offset,
                                !.named = named] IN
       IF ~named /\ s \notin sources THEN Failed(c)
       ELSE IF snapshots[s] # Nothing
       THEN /\ Page(c, f, snapshots[s])
            /\ together' = together \cup (IF Busy(s) # {} THEN {s} ELSE {})
       ELSE IF offset # 0 THEN Failed(c)
       ELSE Set(c, f) /\ together' = together \cup (IF Busy(s) # {} THEN {s} ELSE {})
    /\ UNCHANGED <<sources, snapshots, read>>

\* crate::web::fetch: the source answers what it answers today, or nothing.
Fetched(c) ==
    /\ fetch[c].at = "fetching"
    /\ \/ \E cuts \in Text : Page(c, fetch[c], [of |-> c, cuts |-> cuts, issued |-> {0}])
       \/ Set(c, [NoFetch EXCEPT !.at = "done"])
    /\ UNCHANGED <<sources, snapshots, read, together>>

\* Slip: what was staged stays, delivered or not.
KeepDelivery(c) ==
    /\ fetch[c].at = "staged" /\ Set(c, [NoFetch EXCEPT !.at = "done"])
    /\ snapshots' = [snapshots EXCEPT ![fetch[c].source] = fetch[c].staged]
    /\ UNCHANGED <<sources, read, together>>

\* commit_delivery and discard_delivery
Commit(c) ==
    /\ fetch[c].at = "staged" /\ Set(c, [NoFetch EXCEPT !.at = "done"])
    /\ snapshots' = [snapshots EXCEPT ![fetch[c].source] = fetch[c].staged]
    /\ sources' = sources \cup (IF fetch[c].named THEN {fetch[c].source} ELSE {})
    /\ read' = read \cup {fetch[c].page}
    /\ UNCHANGED together
Discard(c) ==
    /\ fetch[c].at = "staged" /\ Set(c, [NoFetch EXCEPT !.at = "done"])
    /\ UNCHANGED <<sources, snapshots, read, together>>

PagesNext ==
    \E c \in Fetch :
      \/ \E s \in Source, o \in Offset, named \in BOOLEAN : Begin(c, s, o, named)
      \/ Fetched(c) \/ Commit(c) \/ Discard(c)
-----------------------------------------------------------------------------
\* The agent can read on from each page that it was given, in the same text:
\* what it has read of a source are the pages of one text, and the offsets that
\* they name, and no others, are accepted; unless it read that source in two
\* calls at one time (then the text of the later answer is what is left, with
\* the offsets that this call knew of).
ReadsOn ==
    \A s \in Source \ together :
      LET own == {p \in read : p.source = s} IN
      /\ own = {} => snapshots[s] = Nothing
      /\ own # {} => /\ snapshots[s] # Nothing
                     /\ \A p \in own : p.text = snapshots[s].of
                     /\ snapshots[s].issued = {0} \cup ({p.next : p \in own} \ {Nothing})

\* Even then a page starts where a page of its text starts.
PagesAreWhole ==
    \A c \in Fetch :
      fetch[c].at = "staged" =>
        fetch[c].page.offset \in fetch[c].staged.cuts
-----------------------------------------------------------------------------
\* The request of one source.  Time is counted in seconds.
CONSTANTS
    HopTime,       \* how long a hop may take, short of its whole time
    RetryAfters, \* what a host may ask for: <<>> or <<seconds>>
    MaxRedirects

VARIABLES
    official,  \* the source has an official representation
    rep,       \* the representation that is fetched: "official" or "page"
    step,      \* where the fetch is
    url,       \* what the next hop asks for
    redirects, \* hops that led to another
    elapsed,   \* since this representation was first requested
    limit,     \* the time of one hop
    again,     \* it is requested a second time
    body,      \* what was answered
    reached,   \* history: the hosts that were connected to
    page       \* what is kept for the turn, or why nothing is

requesting == <<official, rep, step, url, redirects, elapsed, limit, again, body, reached, page>>

FetchTimeout  == 15  \* FETCH_TIMEOUT
RetryAfterCap == 3   \* FETCH_RETRY_AFTER_CAP
Minus(a, b)   == IF a < b THEN 0 ELSE a - b

\* An URL is what the checks tell apart: whether its form is allowed, and what
\* its host resolves to: public addresses, one that is not, or none.
Urls == [allowed : BOOLEAN, host : {"public", "mixed", "none"}]
Home == [allowed |-> TRUE, host |-> "public"]

\* A body: what it is declared as, what it is, and whose record.
Bodies ==
    [declared : {"text", "document", "nothing", "other"},
     is : {"text", "html", "document", "scanned", "archive", "binary", "blank"},
     record : {"own", "another"}]

NoBody == [declared |-> "nothing", is |-> "nothing", record |-> "own"]
NoPage == [from |-> "none", fallback |-> FALSE, body |-> NoBody]

\* The form of the URL was checked when the source was captured, and is again.
RequestInit ==
    /\ official \in BOOLEAN /\ rep = (IF official THEN "official" ELSE "page")
    /\ step = "resolve" /\ url \in {u \in Urls : u.allowed}
    /\ (official => url = Home)
    /\ redirects = 0 /\ elapsed = 0 /\ limit = FetchTimeout /\ again = FALSE
    /\ body = NoBody /\ reached = {} /\ page = NoPage

\* official_allows_generic_fallback: not what would be the same again, or what
\* was refused.
Fallback == {"resolution", "timeout", "transport", "limited", "status", "provider",
             "invalid", "unsupported", "mismatch", "no_text"}

\* fetch: the page itself instead, from its beginning; or nothing.
Fail(e) ==
    IF rep = "official" /\ e \in Fallback
    THEN /\ rep' = "page" /\ step' = "resolve" /\ url' \in {u \in Urls : u.allowed}
         /\ redirects' = 0 /\ elapsed' = 0 /\ limit' = FetchTimeout /\ again' = FALSE
    ELSE step' = "failed" /\ UNCHANGED <<rep, url, redirects, elapsed, limit, again>>

Same == UNCHANGED <<official, body, reached, page>>
-----------------------------------------------------------------------------
\* Slip: one public address is enough.
SomePublic(u) == u.host \in {"public", "mixed"}

\* resolve_public, before each hop
Public(u) == u.host = "public"

Resolve ==
    /\ step = "resolve"
    /\ IF url.host = "none" THEN Fail("resolution")
       ELSE IF ~Public(url) THEN Fail("address_denied")
       ELSE step' = "connect" /\ UNCHANGED <<rep, url, redirects, elapsed, limit, again>>
    /\ Same

\* Slip: a redirection is followed without a look at its host.
FollowAtOnce(u) == u.allowed /\ url' = u /\ redirects' = redirects + 1 /\ step' = "connect"

\* request_bounded: a redirection is followed by hand, and checked as a new URL.
Follow(u) == u.allowed /\ url' = u /\ redirects' = redirects + 1 /\ step' = "resolve"

Redirected ==
    /\ step = "connect" /\ reached' = reached \cup {url.host}
    /\ \E d \in {t \in HopTime : t < limit}, u \in Urls :
         IF redirects = MaxRedirects THEN Fail("redirects")
         ELSE \/ Follow(u) /\ elapsed' = elapsed + d /\ UNCHANGED <<rep, limit, again>>
              \/ ~u.allowed /\ Fail("denied")
    /\ UNCHANGED <<official, body, page>>
HopFails ==
    /\ step = "connect" /\ reached' = reached \cup {url.host}
    /\ \E e \in {"timeout", "transport", "provider", "too_large"} : Fail(e)
    /\ UNCHANGED <<official, body, page>>

\* retry_after_delay: at most three seconds, and <<>> if there is no time.
Delay(after, left) ==
    LET wish == IF after = <<>> THEN 1 ELSE after[1] IN
    IF left = 0 \/ (wish > left /\ left < RetryAfterCap) THEN <<>>
    ELSE <<Least(Least(wish, RetryAfterCap), left)>>

\* get_with_429_retry: the whole request once more, in the time that is left.
Limited ==
    /\ step = "connect" /\ reached' = reached \cup {url.host}
    /\ \E d \in {t \in HopTime : t < limit}, after \in RetryAfters :
         LET spent == elapsed + d
             wait  == Delay(after, Minus(FetchTimeout, spent)) IN
         IF again \/ wait = <<>> THEN Fail("limited")
         ELSE IF spent + wait[1] >= FetchTimeout THEN Fail("timeout")
         ELSE /\ step' = "resolve" /\ again' = TRUE /\ redirects' = 0
              /\ elapsed' = spent + wait[1] /\ limit' = FetchTimeout - elapsed'
              /\ url' \in {u \in Urls : u.allowed} /\ UNCHANGED rep
    /\ UNCHANGED <<official, body, page>>
HasStatus ==
    /\ step = "connect" /\ reached' = reached \cup {url.host} /\ Fail("status")
    /\ UNCHANGED <<official, body, page>>

Answered ==
    /\ step = "connect" /\ reached' = reached \cup {url.host}
    /\ \E b \in Bodies : body' = b
    /\ step' = "read" /\ UNCHANGED <<official, rep, url, redirects, elapsed, limit, again, page>>
-----------------------------------------------------------------------------
\* Slip: what the official host answers is taken for the record that was asked for.
RecordOfHost(b) == b.is = "text"

\* verified_record_id: the record that was asked for is the one in the answer.
Verified(b) == b.is \in {"text", "blank"} /\ b.record = "own"

\* media_type_conflicts_with_pdf and _office: a document is declared as one, or
\* not at all.
Conflicts(b) == b.declared \notin {"document", "nothing"}

\* office_kind_from_zip: an archive may hold no document, or too much.
Archived == {"unsupported", "too_large"}

\* detect_kind: the bytes are looked at first, and must be what they are declared
\* as; a page may go by the names of the older formats.
Detected(b) ==
    CASE b.is \in {"document", "scanned"} -> IF Conflicts(b) THEN {"mismatch"} ELSE {b.is}
      [] b.is = "archive" -> Archived
      [] b.is = "html"    -> {"mismatch", "text"}
      [] OTHER            -> {"unsupported"}

\* document::extract: the pages of a scanned document hold no text.
Extracted(b) == {IF is = "scanned" THEN "no_text" ELSE is : is \in Detected(b)}

\* Slip: what is declared as text is text.
AsDeclared(b) ==
    IF b.declared = "document" THEN Extracted(b) ELSE IF b.is = "blank" THEN {"no_text"} ELSE {"text"}

\* decode_fetched_content
Decoded(b) ==
    IF b.is \in {"document", "scanned", "archive"} \/ b.declared = "document"
    THEN Extracted(b)
    ELSE IF b.declared = "other" \/ b.is = "binary" THEN {"unsupported"}
    ELSE IF b.is = "blank" THEN {"no_text"} ELSE {"text"}

Keep(from, b) ==
    /\ page' = [from |-> from, fallback |-> official /\ from = "page", body |-> b]
    /\ step' = "kept" /\ UNCHANGED <<rep, url, redirects, elapsed, limit, again>>

\* fetch_official and fetch_generic
Read ==
    /\ step = "read"
    /\ IF rep = "official"
       THEN IF ~Verified(body) THEN Fail("invalid") /\ UNCHANGED page
            ELSE IF body.is = "blank" THEN Fail("no_text") /\ UNCHANGED page
            ELSE Keep("official", body)
       ELSE \E result \in Decoded(body) \cup {"timeout"} :
              IF result \in {"text", "document"} THEN Keep("page", body)
              ELSE Fail(result) /\ UNCHANGED page
    /\ body' = NoBody /\ UNCHANGED <<official, reached>>

RequestNext ==
    Resolve \/ Redirected \/ HopFails \/ Limited \/ HasStatus \/ Answered \/ Read
-----------------------------------------------------------------------------
\* What is kept says where it is from: the record that was asked for, from its
\* official representation; or the page, and then it says so if there was an
\* official one; with text that the bytes have.
SaysWhatItIs ==
    step = "kept" =>
      /\ page.from = "official" => official /\ page.body.record = "own"
      /\ page.from = "page" /\ official => page.fallback
      /\ page.body.is \in {"text", "html", "document"}
      /\ page.body.is = "document" => page.body.declared \in {"document", "nothing"}

\* However often it is sent elsewhere, only hosts with none but public addresses
\* are connected to, and a host that limits the rate is asked once again, in the
\* time that is left.
StaysInside ==
    /\ reached \subseteq {"public"}
    /\ redirects <= MaxRedirects
    /\ limit <= FetchTimeout /\ (again => limit < FetchTimeout)
    /\ again /\ redirects = 0 /\ step = "resolve" => elapsed + limit <= FetchTimeout

FetchedAsNamed == SaysWhatItIs /\ StaysInside
===============================================================================
