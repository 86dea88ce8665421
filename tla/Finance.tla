------------------------------- MODULE Finance --------------------------------
(***************************************************************************)
(* What the finance tools of turns rest on.                                *)
(*                                                                         *)
(* One request for calculations (tool_executor/finance.rs): those that can *)
(* be read are given, in their order and within one time, to a worker      *)
(* process that is started for them and stopped before they are answered   *)
(* (finance.rs).  Requests are lines, answered by their ids; call 0 is the *)
(* handshake and call Last asks the worker to shut down.                   *)
(*                                                                         *)
(* The reads of providers (finance_data.rs): World Bank, OpenDART and KRX  *)
(* answer with dated rows, of which a turn that looks back in time sees    *)
(* the ones up to its date.  Korea Investment (KIS) is asked with an       *)
(* access token, which is issued for a credential in one of two            *)
(* environments and kept for the reads that follow, while the user may     *)
(* configure the connector anew.                                           *)
(***************************************************************************)
EXTENDS Integers, Sequences, FiniteSets

\* The calculations.
CONSTANTS
    MaxOperations,
    Deadline       \* FINANCE_CALCULATE_BATCH_TIMEOUT, in times of one write

VARIABLES
    operations, \* for each, whether it can be read
    stage,      \* where the request is
    doing,      \* the call that is made
    spent,      \* since the first operation was sent
    outcome,    \* the result of each operation
    ready,      \* the handshake was good
    waits,      \* pending: the calls that wait for an answer
    heard,      \* what the call that is made has been sent
    owes,       \* the lines that the worker has read and not answered
    half,       \* half a line lies before the worker
    ear,        \* the reader task runs
    worker,     \* its process group
    recorded,   \* the record by which the next start would find it
    upset       \* history: a write failed or the worker misbehaved

calculate == <<operations, stage, doing, spent, outcome, ready, waits, heard, owes, half,
               ear, worker, recorded, upset>>

Last == MaxOperations + 1

\* What becomes of an operation, or is heard of a call: the result of a call, or
\* why there is none.
Ends(how)  == [how |-> how, of |-> 0]
Result(c)  == [how |-> "result", of |-> c]
None       == Ends("none")

CalculateInit ==
    /\ operations \in UNION {[1..n -> {"good", "bad"}] : n \in 1..MaxOperations}
    /\ stage = "prepare" /\ doing = 0 /\ spent = 0 /\ ready = FALSE
    /\ outcome = [i \in DOMAIN operations |-> None]
    /\ waits = {} /\ heard = None /\ owes = {} /\ half = FALSE /\ ear = FALSE
    /\ worker = "none" /\ recorded = FALSE /\ upset = FALSE

Good == {i \in DOMAIN operations : operations[i] = "good"}

\* Results of those that cannot be read; nothing is started for them alone.
Prepare ==
    /\ stage = "prepare"
    /\ outcome' = [i \in DOMAIN operations |-> IF i \in Good THEN None ELSE Ends("refused")]
    /\ stage' = IF Good = {} THEN "answered" ELSE "spawn"
    /\ UNCHANGED <<operations, doing, spent, ready, waits, heard, owes, half, ear, worker,
                   recorded, upset>>

\* FinanceWorker::spawn: no worker is left if it could not be recorded.
Spawn ==
    /\ stage = "spawn"
    /\ \/ stage' = "failed" /\ UNCHANGED <<ear, worker, recorded>>
       \/ stage' = "call" /\ ear' = TRUE /\ worker' = "runs" /\ recorded' = TRUE
    /\ UNCHANGED <<operations, doing, spent, outcome, ready, waits, heard, owes, half, upset>>
-----------------------------------------------------------------------------
Batch == doing \in 1..MaxOperations

\* Slip: each operation has all the time of the request.
TimeOfItsOwn == Deadline

Left == IF Batch THEN Deadline - spent ELSE Deadline

\* The next operation that can be read, and then the end of the worker.
NextCall ==
    LET later == {i \in Good : i > doing} IN
    IF later = {} THEN Last ELSE CHOOSE i \in later : \A j \in later : i <= j

\* What a call comes to: the worker is known (validate_handshake), an operation
\* has its result, or the process is awaited.
Over(with) ==
    /\ waits' = waits \ {doing} /\ heard' = None
    /\ IF Batch THEN outcome' = [outcome EXCEPT ![doing] = with] ELSE UNCHANGED outcome
    /\ ready' = IF doing = 0 THEN with = Result(0) ELSE ready
    /\ doing' = IF doing = 0 /\ ~ready' THEN Last ELSE NextCall
    /\ stage' = IF doing = Last THEN "stop" ELSE "call"

\* write_worker_bytes: a line, half of one, or one that is whole too late; after
\* half a line the worker reads two as one.
Reaches == IF half \/ worker # "runs" THEN owes ELSE owes \cup {doing}

Write ==
    /\ stage = "call" /\ Left > 0
    /\ \/ /\ owes' = Reaches /\ half' = FALSE /\ upset' = (upset \/ half)
          /\ stage' = "wait" /\ waits' = waits \cup {doing}
          /\ UNCHANGED <<doing, spent, outcome, ready, heard>>
       \/ /\ \/ owes' = Reaches /\ half' = FALSE
             \/ UNCHANGED owes /\ half' = TRUE
          /\ upset' = TRUE
          /\ spent' = IF Batch THEN spent + 1 ELSE spent
          /\ Over(Ends("timeout"))
    /\ UNCHANGED <<operations, ear, worker, recorded>>

\* call_tools_ordered: no time is left for it.
Skip ==
    /\ stage = "call" /\ Left = 0 /\ Over(Ends("timeout"))
    /\ UNCHANGED <<operations, spent, owes, half, ear, worker, recorded, upset>>

Receive ==
    /\ stage = "wait" /\ heard # None /\ Over(heard)
    /\ \E d \in {0, 1} : /\ Batch => spent + d <= Deadline
                       /\ spent' = IF Batch THEN spent + d ELSE spent
    /\ UNCHANGED <<operations, owes, half, ear, worker, recorded, upset>>

\* The time is over; the worker is told (send_cancel), which may end in half a
\* line as well.
Timeout ==
    /\ stage = "wait" /\ heard = None /\ Over(Ends("timeout"))
    /\ spent' = IF Batch THEN Deadline ELSE spent
    /\ half' \in BOOLEAN /\ upset' = (upset \/ half')
    /\ UNCHANGED <<operations, owes, ear, worker, recorded>>
-----------------------------------------------------------------------------
\* Slip: an answer is for the call that waits.
TakesNext(c) == doing \in waits

\* dispatch_frame: an answer is for the call that has its id, if it still waits.
Takes(c) == c \in waits

Answer ==
    /\ worker = "runs" /\ ear
    /\ \E c \in owes :
         /\ owes' = owes \ {c}
         /\ IF Takes(c) THEN heard' \in {Result(c), Ends("error")} /\ waits' = waits \ {doing}
            ELSE UNCHANGED <<heard, waits>>
    /\ UNCHANGED <<operations, stage, doing, spent, outcome, ready, half, ear, worker,
                   recorded, upset>>

\* fail_pending: what waits has failed, and nobody reads any more.
FailPending ==
    /\ ear' = FALSE /\ waits' = {} /\ upset' = TRUE
    /\ heard' = IF waits = {} THEN heard ELSE Ends("error")

Nonsense ==
    /\ worker = "runs" /\ ear /\ FailPending
    /\ UNCHANGED <<operations, stage, doing, spent, outcome, ready, owes, half, worker, recorded>>
Exit ==
    /\ worker = "runs" /\ worker' = "exits" /\ upset' = TRUE
    /\ IF ear THEN FailPending ELSE UNCHANGED <<ear, waits, heard>>
    /\ UNCHANGED <<operations, stage, doing, spent, outcome, ready, owes, half, recorded>>
-----------------------------------------------------------------------------
\* Slip: the results are there, whether or not the worker is gone.
StopUnsure(gone) == IF ready THEN "answered" ELSE "failed"

Stopped(gone) == IF gone /\ ready THEN "answered" ELSE "failed"

\* shutdown: terminated, killed if need be, and its group confirmed to be gone;
\* the record is removed then.
Stop ==
    /\ stage = "stop" /\ ear' = FALSE
    /\ \/ worker' = "gone" /\ recorded' = FALSE /\ stage' = Stopped(TRUE)
       \/ worker' = "gone" /\ UNCHANGED recorded /\ stage' = "failed"
       \/ UNCHANGED <<worker, recorded>> /\ stage' = Stopped(FALSE)
    /\ UNCHANGED <<operations, doing, spent, outcome, ready, waits, heard, owes, half, upset>>

\* The call of the turn is given up.
Dropped ==
    /\ stage \in {"call", "wait", "stop"} /\ stage' = "failed" /\ ear' = FALSE
    /\ UNCHANGED <<operations, doing, spent, outcome, ready, waits, heard, owes, half, worker,
                   recorded, upset>>

\* FinanceWorker::drop: killed, and the record kept until it is gone.
Reaped ==
    /\ stage = "failed" /\ worker \in {"runs", "exits"}
    /\ worker' = "gone" /\ recorded' = FALSE
    /\ UNCHANGED <<operations, stage, doing, spent, outcome, ready, waits, heard, owes, half,
                   ear, upset>>

Host == Prepare \/ Spawn \/ Write \/ Skip \/ Receive \/ Timeout \/ Stop
CalculateNext == Host \/ Answer \/ Nonsense \/ Exit \/ Dropped \/ Reaped
-----------------------------------------------------------------------------
\* Each operation has its own result, and one that cannot be read does not spoil
\* the others: they fail only if the worker or the time did.
OwnResults ==
    /\ \A i \in DOMAIN operations :
         outcome[i].how = "result" => outcome[i] = Result(i)
    /\ stage = "answered" => \A i \in DOMAIN operations :
         /\ outcome[i] # None /\ (outcome[i].how = "refused") = (operations[i] = "bad")
         /\ outcome[i].how = "timeout" => upset \/ spent = Deadline

\* The results are not answered before the worker is known to be gone, and a
\* worker that may run can be found by the next start.
GoneOrRecorded ==
    /\ stage = "answered" => worker \in {"none", "gone"} /\ ~recorded
    /\ worker \in {"runs", "exits"} => recorded

Calculated == OwnResults /\ GoneOrRecorded /\ spent <= Deadline

\* Whatever the worker does, the request ends.
CalculationEnds == stage = "prepare" ~> stage \in {"answered", "failed"}
-----------------------------------------------------------------------------
\* The reads.
CONSTANTS
    Reader,
    Credential,
    MaxTokens,   \* MAX_KIS_TOKEN_CACHE_ENTRIES
    Life         \* for how long a token is issued, in margins of 30 seconds

VARIABLES
    kind,        \* the reads that are followed: of rows, or of KIS
    reads,       \* what each reader does
    configured,  \* the credential and environment that the user has set
    profile,     \* the credential has the values of the account
    clearing,    \* the tokens are to be dropped after a new configuration
    tokens,      \* kis_tokens, with the margins that each has left, or 1
    lock         \* who holds them

finance == <<kind, reads, configured, profile, clearing, tokens, lock>>

Environment == {"real", "demo"}
Keys        == [credential : Credential, environment : Environment]
Dates       == 0..2                     \* 0 stands for no date
Idle        == [at |-> "idle"]
Nobody      == "nobody"

FinanceInit ==
    /\ kind \in {"rows", "kis"} /\ reads = [r \in Reader |-> Idle]
    /\ configured \in Keys /\ profile \in BOOLEAN
    /\ clearing = FALSE /\ tokens = {} /\ lock = Nobody

\* Only a read that is under way is told apart.
Becomes(r, how) == reads' = [reads EXCEPT ![r] = how]
Begins(r)    == reads[r].at \in {"idle", "answered", "offered", "shown"}
-----------------------------------------------------------------------------
\* Slip: the date that the tool names goes before that of the turn.
AskedDate(turn, asked) == IF asked # 0 THEN asked ELSE turn

\* effective_as_of: the earlier of the dates that are named.
AsOf(turn, asked) ==
    IF turn # 0 /\ asked # 0 THEN IF turn < asked THEN turn ELSE asked ELSE turn + asked

\* A provider of dated rows is asked.
AskRows(r) ==
    /\ kind = "rows" /\ Begins(r)
    /\ \E turn, asked \in Dates :
         Becomes(r, [at |-> "rows", turn |-> turn, asked |-> asked])
    /\ UNCHANGED <<kind, configured, profile, clearing, tokens, lock>>

\* apply_as_of_cutoff: undated rows stay.
UpTo(cutoff, rows) == SelectSeq(rows, LAMBDA d : d <= cutoff)

\* What the providers answer, as the dates of the rows: of each year of an
\* indicator, of filings and of a bar.  The facts of a report and the text of a
\* filing have no date that is looked for.
Observations == {<<1>>, <<2>>, <<1, 2>>}
Facts        == {<<0>>, <<0, 0>>}
Filings      == {<<>>, <<1>>, <<2>>, <<2, 1>>}
Document     == {<<0>>}
Bars         == {<<1>>, <<2>>}

\* It answers of something else, too much or not at all.
Declined(r) ==
    /\ reads[r].at = "rows" /\ Becomes(r, Idle)
    /\ UNCHANGED <<kind, configured, profile, clearing, tokens, lock>>

\* If rows were looked through and none is left, that is an error.
Rowed(r) ==
    /\ reads[r].at = "rows"
    /\ \E rows \in Observations \cup Facts \cup Filings \cup Document \cup Bars :
         LET cutoff == AsOf(reads[r].turn, reads[r].asked)
             left   == IF cutoff = 0 THEN rows ELSE UpTo(cutoff, rows)
             excluded == Len(rows) - Len(left)
         IN Becomes(r, IF cutoff # 0 /\ left = <<>> THEN Idle
                    ELSE [at |-> "answered", turn |-> reads[r].turn, asked |-> reads[r].asked,
                          rows |-> left, returned |-> Len(rows) - excluded])
    /\ UNCHANGED <<kind, configured, profile, clearing, tokens, lock>>
-----------------------------------------------------------------------------
\* A reviewed read that anyone may ask for or that takes values of the account, or
\* one that the manifest leaves out.
Operation == {"public", "gated", "excluded"}

\* KisOperation::available_to_agent.
Available(operation, has) == operation = "public" \/ (operation = "gated" /\ has)

\* kis_operation_search: the reads that are there for the credential.
Search(r) ==
    /\ kind = "kis" /\ Begins(r)
    /\ Becomes(r, [at |-> "offered", offers |-> {o \in Operation : Available(o, profile)},
                profile |-> profile])
    /\ UNCHANGED <<kind, configured, profile, clearing, tokens, lock>>

\* finance_market_data: the credential is read, and the environment after it.
AskKis(r) ==
    /\ kind = "kis" /\ Begins(r)
    /\ \E operation \in Operation :
         Becomes(r, [at |-> "credential", operation |-> operation, profile |-> profile,
                  credential |-> configured.credential])
    /\ UNCHANGED <<kind, configured, profile, clearing, tokens, lock>>

\* Slip: it is enough that an operation is reviewed.
Reviews(q) == q.operation # "excluded"

\* prepare_kis_request.
Prepares(q) == Available(q.operation, q.profile)

PrepareKis(r) ==
    /\ reads[r].at = "credential"
    /\ Becomes(r, IF Prepares(reads[r])
               THEN [at |-> "token", operation |-> reads[r].operation, profile |-> reads[r].profile,
                     key |-> [credential |-> reads[r].credential,
                              environment |-> configured.environment]]
               ELSE Idle)
    /\ UNCHANGED <<kind, configured, profile, clearing, tokens, lock>>

\* Slip: the token of the environment, whoever it was issued for.
EnvironmentOf(key) == key.environment

\* kis_credential_fingerprint.
Fingerprint(key) == key

Kept(key) == {t \in tokens : Fingerprint(t.key) = Fingerprint(key)}

\* What is sent to the provider goes with the token and the keys of the read.
Sends(r, token) ==
    Becomes(r, IF Prepares(reads[r])
            THEN [at |-> "fetch", operation |-> reads[r].operation, profile |-> reads[r].profile,
                  key |-> reads[r].key, token |-> token]
            ELSE Idle)

\* Slip: a token is used until it expires.
Unexpired(t) == t.left > 0

\* Longer than the margin.
Fresh(t) == t.left > 1

\* kis_access_token: the lock is kept while a token is issued.
TakeToken(r) ==
    /\ reads[r].at = "token" /\ lock = Nobody
    /\ LET kept == Kept(reads[r].key) IN
       IF \E t \in kept : Fresh(t)
       THEN (\E t \in kept : Sends(r, t)) /\ UNCHANGED <<tokens, lock>>
       ELSE /\ tokens' = tokens \ kept /\ lock' = r
            /\ Becomes(r, [reads[r] EXCEPT !.at = "issue"])
    /\ UNCHANGED <<kind, configured, profile, clearing>>

\* Slip: one token more than there is room for.
OverFull == IF Cardinality(tokens) > MaxTokens THEN {} ELSE tokens

Room == IF Cardinality(tokens) >= MaxTokens THEN {} ELSE tokens

\* parse_kis_token_response: for a minute to two days.
Token(key) == {[key |-> key, left |-> left] : left \in Life}

\* issue_kis_token.
Issued(r) ==
    /\ reads[r].at = "issue" /\ lock' = Nobody
    /\ \/ Becomes(r, Idle) /\ UNCHANGED tokens
       \/ \E token \in Token(reads[r].key) : tokens' = Room \cup {token} /\ Sends(r, token)
    /\ UNCHANGED <<kind, configured, profile, clearing>>
-----------------------------------------------------------------------------
\* What KIS answers besides reviewed fields: a credential, a known value of the
\* account, a field that was not reviewed, one of a sensitive name besides, a
\* reviewed one of a sensitive name; or nothing at all.
Oddities ==
    {"none", "echo", "account", "unreviewed", "unreviewed name", "reviewed name", "empty"}

\* reject_kis_credential_echo: no name or value of a credential is repeated.
Repeats(body) == body = "echo"

\* validate_kis_success_shape.
Valid(body) == ~Repeats(body) /\ body # "unreviewed name"

\* Slip: what the reviewers listed is shown, whatever its name.
Reviewed(body) == IF body = "unreviewed" THEN "none" ELSE body

\* sanitize_kis_response: the reviewed fields of a harmless name stay.
Sanitized(body) ==
    IF body \in {"unreviewed", "unreviewed name", "reviewed name"} THEN "none" ELSE body

\* normalize_kis_market_response, normalize_kis_account_response: an answer that
\* still repeats a value of the account is refused, and one without records.
Shown(q, body) == Valid(body) /\ ~(q.profile /\ body = "account") /\ body # "empty"

Answered(r) ==
    /\ reads[r].at = "fetch"
    /\ \/ Becomes(r, Idle)
       \/ \E body \in Oddities :
            Becomes(r, IF Shown(reads[r], body)
                    THEN [at |-> "shown", shows |-> Sanitized(body), profile |-> reads[r].profile]
                    ELSE Idle)
    /\ UNCHANGED <<kind, configured, profile, clearing, tokens, lock>>

\* The call of the turn is given up; whoever holds the lock lets go of it.
Drop(r) ==
    /\ reads[r].at \in {"rows", "credential", "token", "issue", "fetch"}
    /\ Becomes(r, Idle) /\ lock' = IF lock = r THEN Nobody ELSE lock
    /\ UNCHANGED <<kind, configured, profile, clearing, tokens>>
-----------------------------------------------------------------------------
\* The user sets another credential or environment, and then the tokens are
\* dropped (connector_config.rs:270, credentials.rs:661).
Configure ==
    /\ ~clearing /\ clearing' = TRUE /\ configured' \in Keys \ {configured}
    /\ UNCHANGED <<kind, reads, profile, tokens, lock>>

Clear ==
    /\ clearing /\ lock = Nobody /\ clearing' = FALSE /\ tokens' = {}
    /\ UNCHANGED <<kind, reads, configured, profile, lock>>

Tick ==
    /\ \E t \in tokens : t.left > 1
    /\ tokens' = {[t EXCEPT !.left = IF @ = 1 THEN 1 ELSE @ - 1] : t \in tokens}
    /\ UNCHANGED <<kind, reads, configured, profile, clearing, lock>>

FinanceNext ==
    \/ \E r \in Reader :
         \/ AskRows(r) \/ Declined(r) \/ Rowed(r) \/ Search(r) \/ AskKis(r) \/ PrepareKis(r)
         \/ TakeToken(r) \/ Issued(r) \/ Answered(r) \/ Drop(r)
    \/ Configure \/ Clear \/ Tick
-----------------------------------------------------------------------------
\* No read of rows shows one after a date that the turn or the tool named, and it
\* counts the rows that it shows.
RowsInTime ==
    \A r \in Reader : reads[r].at = "answered" =>
        /\ Len(reads[r].rows) = reads[r].returned
        /\ \A d \in {reads[r].turn, reads[r].asked} \ {0}, i \in DOMAIN reads[r].rows :
             reads[r].rows[i] <= d

\* A request goes out with a token of its own credential and environment that
\* outlives the margin, whatever the user configures meanwhile; and nothing goes
\* out for an operation that is not reviewed or lacks its account.
TokensFit ==
    /\ \A r \in Reader : reads[r].at \in {"token", "issue", "fetch"} =>
         /\ reads[r].operation # "excluded" /\ (reads[r].operation = "gated" => reads[r].profile)
         /\ reads[r].at = "fetch" => /\ reads[r].token.key = reads[r].key
                                     /\ reads[r].token.left > 1
    /\ Cardinality(tokens) <= MaxTokens
    /\ \A t, u \in tokens : t.key = u.key => t = u

\* One token is issued at a time, and the lock is with whom it is issued for.
OneIssue == \A r \in Reader : (reads[r].at = "issue") = (lock = r)

\* What is shown holds reviewed fields of a harmless name, and no credential or
\* known value of the account; what is offered can be asked for.
Discreet ==
    \A r \in Reader :
        /\ reads[r].at = "shown" => \/ reads[r].shows = "none"
                                    \/ reads[r].shows = "account" /\ ~reads[r].profile
        /\ reads[r].at = "offered" => \A o \in reads[r].offers :
             Prepares([operation |-> o, profile |-> reads[r].profile])

ReadsAreSafe == RowsInTime /\ TokensFit /\ OneIssue /\ Discreet
===============================================================================
