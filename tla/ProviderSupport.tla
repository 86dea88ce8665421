--------------------------- MODULE ProviderSupport ---------------------------
(***************************************************************************)
(* The commands on one model provider (provider_connection.rs): sign-in    *)
(* and its cancellation, a new or a cleared API key, sign-out and the      *)
(* discovery of its models, one at a time (support_coordinator.rs), each   *)
(* in a Pi process of its own that works on the stored credential.  What   *)
(* was discovered is kept in the catalog and is fresh for as long as the   *)
(* cache names the credential's generation (settings.rs).                  *)
(*                                                                         *)
(* Pi is an external program: it changes the credential, or reads it, at   *)
(* any time between its prompt and its end.  A Chat's agent may rotate the *)
(* credential whenever it likes (an OAuth refresh).                        *)
(***************************************************************************)
EXTENDS Naturals, FiniteSets, Maintenance

CONSTANTS
    Request,        \* commands of the renderer
    NoRequest,
    None,           \* no credential, no models, no entry
    Key,            \* generations of the API keys that may be entered
    Token,          \* and of the OAuth tokens, each issued once
    MaxLate         \* bound on Pi processes that outlive their command

ASSUME ProviderAssumption ==
    /\ NoRequest \notin Request /\ MaxLate \in Nat
    /\ Key \cap Token = {} /\ None \notin Key \cup Token

VARIABLES
    credential,  \* the generation of the credential in auth.json, or None
    issued,      \* the tokens issued so far
    catalog,     \* the generation whose models the catalog holds, or None
    cache,       \* the generation that the cache entry names, or None
    occupied,    \* ProviderSupportCoordinator::occupied
    oauth,       \* the sign-in that can be cancelled
    cancelled,   \* the cancellation flags
    waking,      \* a cancellation between its flag and its notification
    late,        \* credentials that a forgotten Pi process may still store
    returned,    \* one of them brought the key back that a discovery began from
    task         \* the commands

stored   == <<credential, issued, catalog>>
slot     == <<occupied, oauth>>
cancel   == <<cancelled, waking>>
forgotten == <<late, returned>>
provider == <<stored, cache, slot, cancel, forgotten, task>>

Kind    == {"models", "key", "clear", "connect", "disconnect"}
Changes == Kind \ {"models"}

\* A command: the generation it read (or that its Pi is to store), the one
\* its Pi found models for, and whether its Notified exists and was notified.
NewTask == [pc |-> "new", kind |-> "models", seen |-> None, found |-> None,
            wants |-> None, wrote |-> FALSE, listens |-> FALSE, woken |-> FALSE]

\* An earlier command may have left a Pi process that still stores the key that
\* is there.
ProviderInit ==
    /\ credential \in Key \cup Token \cup {None} /\ issued = {credential} \cap Token
    /\ catalog = None /\ cache = None
    /\ occupied = FALSE /\ oauth = NoRequest
    /\ cancelled = {} /\ waking = NoRequest
    /\ late \in SUBSET {[by |-> NoRequest, wants |-> g] : g \in Key \cap {credential}}
    /\ returned = FALSE
    /\ task = [r \in Request |-> NewTask]

At(r, place) == task[r].pc = place
Go(r, place) == task' = [task EXCEPT ![r].pc = place]
\* A command with nothing left to remember.
End(r, place) == task' = [task EXCEPT ![r] = [NewTask EXCEPT !.pc = place]]

\* What a command may have Pi store: a key may be an old one, a token is new.
Wanted(kind) ==
    CASE kind = "connect" -> Token \ issued
      [] kind = "key"     -> Key
      [] OTHER            -> {None}
Store(g) == credential' = g /\ issued' = issued \cup ({g} \cap Token)
-----------------------------------------------------------------------------
\* A command of the renderer.  A look at the models first compares the cache
\* with the credential, in two steps, without the slot.
Ask(r, kind) ==
    /\ At(r, "new")
    /\ \E g \in Wanted(kind) :
        task' = [task EXCEPT ![r].kind = kind, ![r].wants = g,
                      ![r].seen = IF kind = "models" THEN credential ELSE None,
                      ![r].pc = IF kind = "models" THEN "look" ELSE "enter"]
    /\ issued' = IF kind = "connect" THEN issued \cup {task'[r].wants} ELSE issued
    /\ UNCHANGED <<gate, credential, catalog, cache, slot, cancel, forgotten>>

\* is_fresh forgets an entry of another generation.
IsFresh(g) == cache = g /\ g # None
Cached(r) ==
    /\ At(r, "look")
    /\ IF IsFresh(task[r].seen)
       THEN End(r, "done") /\ UNCHANGED cache
       ELSE cache' = None /\ task' = [task EXCEPT ![r].seen = None, ![r].pc = "enter"]
    /\ UNCHANGED <<gate, stored, slot, cancel, forgotten>>

Enter(r) ==
    /\ At(r, "enter")
    /\ \/ Admit(r) /\ Go(r, "occupy")
       \/ installing /\ End(r, "done") /\ UNCHANGED gate
    /\ UNCHANGED <<stored, cache, slot, cancel, forgotten>>

\* The slot; without it the error returns and drops the activity.  A sign-in
\* registers its cancellation.
Occupy(r) ==
    /\ At(r, "occupy")
    /\ \/ /\ ~occupied /\ occupied' = TRUE
          /\ oauth' = IF task[r].kind = "connect" THEN r ELSE oauth
          /\ Go(r, IF task[r].kind = "models" THEN "discover" ELSE "launch")
          /\ UNCHANGED gate
       \/ occupied /\ End(r, "done") /\ Leave(r) /\ UNCHANGED slot
    /\ UNCHANGED <<stored, cache, cancel, forgotten>>

\* discover_provider_models looks again, now that it has the slot.
Discover(r) ==
    /\ At(r, "discover")
    /\ cache' = IF credential = None \/ IsFresh(credential) THEN cache ELSE None
    /\ \/ (credential = None \/ IsFresh(credential)) /\ End(r, "release")
       \/ /\ credential # None /\ ~IsFresh(credential)
          /\ task' = [task EXCEPT ![r] =
                        [NewTask EXCEPT !.pc = "launch", !.seen = credential]]
    /\ UNCHANGED <<gate, stored, slot, cancel, forgotten>>
-----------------------------------------------------------------------------
\* Before a change: the entry must not outlive a credential that Pi changes and
\* never reports.
EntryLeft(r) == IF task[r].kind \in Changes THEN None ELSE cache

\* Slip: the flag is read once, and nothing waits for its notification.
LaunchUnheard(r) ==
    /\ At(r, "launch") /\ cache' = EntryLeft(r)
    /\ Go(r, "check") \/ End(r, "release")
    /\ UNCHANGED <<gate, stored, slot, cancel, forgotten>>

\* run_support_command: Pi is started and prompted, or that fails.  The
\* Notified is created before the cancellation flag is read.
Launch(r) ==
    /\ At(r, "launch") /\ cache' = EntryLeft(r)
    /\ \/ task' = [task EXCEPT ![r].listens = TRUE, ![r].pc = "check"]
       \/ End(r, "release")
    /\ UNCHANGED <<gate, stored, slot, cancel, forgotten>>

CheckFlag(r) ==
    /\ At(r, "check")
    /\ Go(r, IF r \in cancelled THEN "failed" ELSE "wait")
    /\ UNCHANGED <<gate, stored, cache, slot, cancel, forgotten>>

Woken(r) ==
    /\ At(r, "wait") /\ task[r].woken
    /\ Go(r, "failed")
    /\ UNCHANGED <<gate, stored, cache, slot, cancel, forgotten>>

\* Pi's work: it stores the credential, or finds the models of the one there is.
PiStores(r) ==
    /\ task[r].pc \in {"check", "wait", "failed"}
    /\ task[r].kind \in Changes /\ ~task[r].wrote
    /\ Store(task[r].wants)
    /\ task' = [task EXCEPT ![r].wrote = TRUE]
    /\ UNCHANGED <<gate, catalog, cache, slot, cancel, forgotten>>

PiFinds(r) ==
    /\ task[r].pc \in {"check", "wait"}
    /\ task[r].kind = "models" /\ ~task[r].wrote
    /\ task' = [task EXCEPT ![r].found = credential, ![r].wrote = TRUE]
    /\ UNCHANGED <<gate, stored, cache, slot, cancel, forgotten>>

\* Pi answers, exits, breaks the protocol or has taken five minutes.
Answer(r) ==
    /\ At(r, "wait")
    /\ \/ task[r].wrote /\ Go(r, "answered")
       \/ Go(r, "failed")
    /\ UNCHANGED <<gate, stored, cache, slot, cancel, forgotten>>

\* After that Pi is stopped.  If its stop is not confirmed the command fails,
\* and a Pi that had not stored its credential may still do so.
StopPi(r) ==
    /\ task[r].pc \in {"answered", "failed"}
    /\ \/ At(r, "answered") /\ Go(r, "took") /\ UNCHANGED late
       \/ At(r, "failed") /\ End(r, "release") /\ UNCHANGED late
       \/ /\ Cardinality(late) < MaxLate
          /\ End(r, "release")
          /\ late' = IF task[r].kind \in Changes /\ ~task[r].wrote
                     THEN late \cup {[by |-> r, wants |-> task[r].wants]} ELSE late
    /\ UNCHANGED <<gate, stored, cache, slot, cancel, returned>>

\* A discovery compares generations: it does not see a key that came back.
BringsBack(g) ==
    /\ g \in Key /\ credential # g
    /\ \E r \in Request : task[r].kind = "models" /\ ~At(r, "look") /\ task[r].seen = g

PiStoresLate ==
    /\ \E l \in late :
        /\ Store(l.wants) /\ late' = late \ {l}
        /\ returned' = (returned \/ BringsBack(l.wants))
    /\ UNCHANGED <<gate, catalog, cache, slot, cancel, task>>
-----------------------------------------------------------------------------
\* What Pi did is taken over: a sign-in or a key goes on to the models of the
\* new credential, a sign-out empties the catalog, models replace it.  Each
\* may fail (an event that cannot be sent, the store).
Take(r) ==
    /\ At(r, "took")
    /\ \/ /\ task[r].kind \in {"key", "connect"} /\ Go(r, "discover")
          /\ UNCHANGED catalog
       \/ task[r].kind = "clear" /\ End(r, "release") /\ UNCHANGED catalog
       \/ task[r].kind = "disconnect" /\ End(r, "release") /\ catalog' = None
       \/ task[r].kind = "models" /\ Go(r, "recheck") /\ catalog' = task[r].found
       \/ End(r, "release") /\ UNCHANGED catalog
    /\ UNCHANGED <<gate, credential, issued, cache, slot, cancel, forgotten>>

\* Slip: the generation is read once the models are there.
RecordLatest(r) ==
    /\ At(r, "recheck") /\ End(r, "release") /\ cache' = credential
    /\ UNCHANGED <<gate, stored, slot, cancel, forgotten>>

\* "Do not cache a catalog if the credential authority rotated while Pi was
\* discovering it."
Record(r) ==
    /\ At(r, "recheck") /\ End(r, "release")
    /\ cache' = IF credential = task[r].seen THEN credential ELSE cache
    /\ UNCHANGED <<gate, stored, slot, cancel, forgotten>>

\* The lease is dropped: first the sign-in and the slot, then the activity.
Release(r) ==
    /\ At(r, "release")
    /\ oauth' = IF oauth = r THEN NoRequest ELSE oauth
    /\ occupied' = FALSE /\ End(r, "leave")
    /\ UNCHANGED <<gate, stored, cache, cancel, forgotten>>

LeaveActivity(r) ==
    /\ At(r, "leave")
    /\ Leave(r) /\ End(r, "done")
    /\ UNCHANGED <<stored, cache, slot, cancel, forgotten>>

\* The user cancels the sign-in: the flag, then whoever listens.
CancelOauth ==
    /\ oauth # NoRequest /\ waking = NoRequest
    /\ cancelled' = cancelled \cup {oauth} /\ waking' = oauth
    /\ UNCHANGED <<gate, stored, cache, slot, forgotten, task>>

NotifyWaiters ==
    /\ waking # NoRequest
    /\ task' = [task EXCEPT ![waking].woken = @ \/ task[waking].listens]
    /\ waking' = NoRequest
    /\ UNCHANGED <<gate, stored, cache, slot, cancelled, forgotten>>

\* The entry's five minutes are over; a Chat's agent rotates the credential.
Expire ==
    /\ cache # None /\ cache' = None
    /\ UNCHANGED <<gate, stored, slot, cancel, forgotten, task>>
Rotate ==
    /\ credential \in Token /\ \E g \in Token \ issued : Store(g)
    /\ UNCHANGED <<gate, catalog, cache, slot, cancel, forgotten, task>>

\* What the application does by itself on behalf of a command.
Proceed(r) ==
    \/ Cached(r) \/ Enter(r) \/ Occupy(r) \/ Discover(r)
    \/ Launch(r) \/ CheckFlag(r) \/ Woken(r) \/ StopPi(r) \/ Take(r) \/ Record(r)
    \/ Release(r) \/ LeaveActivity(r)

ProviderNext ==
    \/ \E r \in Request :
        \/ \E kind \in Kind : Ask(r, kind)
        \/ Proceed(r) \/ PiStores(r) \/ PiFinds(r) \/ Answer(r)
    \/ PiStoresLate \/ CancelOauth \/ NotifyWaiters \/ Expire \/ Rotate

\* The application ends: its commands, slot and cache are gone.
ProviderLost ==
    /\ cache' = None /\ occupied' = FALSE /\ oauth' = NoRequest
    /\ waking' = NoRequest
    /\ task' = [r \in Request |-> IF At(r, "new") THEN NewTask
                                  ELSE [NewTask EXCEPT !.pc = "done"]]
    /\ returned' = FALSE
    /\ UNCHANGED <<stored, cancelled, late>>
-----------------------------------------------------------------------------
\* A catalog that is shown without asking Pi holds the models of the credential
\* that is stored now, whatever changed it and however its command ended, unless a
\* forgotten Pi process brought back the key that a discovery had begun from.
FreshIsCurrent == IsFresh(credential) /\ ~returned => catalog = cache

\* A sign-in that the user cancels ends, and with it the activity that keeps
\* updates out, even if Pi never answers and its five minutes never pass: again
\* and again all that were cancelled are over.
CancelEnds == []<>(\A r \in cancelled : At(r, "done"))
=============================================================================
