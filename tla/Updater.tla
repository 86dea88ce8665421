------------------------------- MODULE Updater -------------------------------
(***************************************************************************)
(* The updater (updater.rs): checks of the feed, by hand and on a schedule *)
(* that survives the process, and the installation of the offer that the   *)
(* user confirms, behind the maintenance gate.                             *)
(*                                                                         *)
(* The feed and the signed packages are external.  Time is a counter in    *)
(* the unit of the shortest delay; the jitter, which only lengthens a      *)
(* delay, is left out, and so is the clock that is set back.               *)
(***************************************************************************)
EXTENDS Integers, Maintenance

CONSTANTS
    Delay,        \* RETRY_DELAYS_MS: by the failures so far, 0 to 3
    Success,      \* SUCCESS_INTERVAL_MS
    MaxTime, MaxVersion, MaxChecks  \* bounds

ASSUME UpdaterAssumption ==
    /\ Delay \in [0..3 -> Nat \ {0}] /\ \A i \in 0..3 : Delay[0] <= Delay[i]
    /\ Success \in Nat /\ Delay[0] <= Success
    /\ {MaxTime, MaxVersion, MaxChecks} \subseteq Nat

VARIABLES
    now,
    version,    \* of the application that runs
    feed,       \* the version that the feed announces
    phase,      \* UpdatePhase, Restarting included in the end of the process
    offer,      \* the last check's offer
    schedule,   \* PersistedUpdateSchedule in memory
    saved,      \* and in the store
    checks,     \* checks so far: an offer's id
    install,    \* where update_install is
    chosen,     \* the offer that it installs
    target,     \* the version that it downloads
    shown,      \* the offer that the renderer shows
    last        \* history: the last check, when it began and, if so, succeeded

versions == <<version, feed>>
plan     == <<schedule, saved>>
work     == <<install, chosen, target>>
updater  == <<now, versions, phase, offer, plan, checks, work, shown, last>>

Never   == -1
NoOffer == [id |-> 0, version |-> 0]

UpdaterInit ==
    /\ now = 0 /\ version = 1 /\ feed = 1
    /\ phase = "idle" /\ offer = NoOffer /\ shown = NoOffer /\ checks = 0
    /\ schedule = [failures |-> 0, next |-> 0] /\ saved = schedule
    /\ install = "none" /\ chosen = NoOffer /\ target = 0
    /\ last = [automatic |-> FALSE, began |-> Never, passed |-> Never]

Due      == now >= schedule.next
Least(a, b) == IF a < b THEN a ELSE b

\* A schedule is saved before it is believed, or neither.
Plan(next) == schedule' = next /\ saved' = next
-----------------------------------------------------------------------------
\* Slip: the conservative retry boundary is kept in memory only.
BeginUnsaved(automatic) ==
    /\ phase = "idle" /\ (automatic => Due) /\ checks < MaxChecks
    /\ schedule' = [schedule EXCEPT !.next = now + Delay[0]]
    /\ phase' = "checking" /\ checks' = checks + 1
    /\ last' = [automatic |-> automatic, began |-> now, passed |-> Never]
    /\ UNCHANGED <<gate, now, versions, offer, saved, work, shown>>

\* begin_check, with its schedule on disk before the first request goes out;
\* a check whose schedule cannot be saved does not begin.
BeginCheck(automatic) ==
    /\ phase = "idle" /\ (automatic => Due) /\ checks < MaxChecks
    /\ Plan([schedule EXCEPT !.next = now + Delay[0]])
    /\ phase' = "checking" /\ checks' = checks + 1
    /\ last' = [automatic |-> automatic, began |-> now, passed |-> Never]
    /\ UNCHANGED <<gate, now, versions, offer, work, shown>>

\* finish_check: the feed has a newer version, or none.
FinishCheck ==
    /\ phase = "checking" /\ phase' = "idle"
    /\ \/ /\ Plan([failures |-> 0, next |-> now + Success])
          /\ offer' = IF feed > version THEN [id |-> checks, version |-> feed] ELSE NoOffer
          /\ last' = [last EXCEPT !.passed = now]
       \/ UNCHANGED <<plan, offer, last>>
    /\ UNCHANGED <<gate, now, versions, checks, work, shown>>

\* fail_check: the feed does not answer before its deadline, or not well.
FailCheck ==
    /\ phase = "checking" /\ phase' = "idle"
    /\ \/ Plan([failures |-> Least(schedule.failures + 1, 4),
                next |-> now + Delay[Least(schedule.failures, 3)]])
       \/ UNCHANGED plan
    /\ UNCHANGED <<gate, now, versions, offer, checks, work, shown, last>>

\* The renderer reads the state (update_status).
Show ==
    /\ shown # offer /\ shown' = offer
    /\ UNCHANGED <<gate, now, versions, phase, offer, plan, checks, work, last>>
-----------------------------------------------------------------------------
Step(place) == install' = place
Still == <<now, versions, plan, checks, shown, last>>

\* begin_install: only the offer that is current, by its id.
BeginInstall ==
    /\ phase = "idle" /\ install = "none"
    /\ offer # NoOffer /\ shown.id = offer.id
    /\ phase' = "confirming" /\ chosen' = offer /\ Step("gate")
    /\ UNCHANGED <<gate, offer, target, Still>>

\* Work that is under way blocks the installation.
EnterGate ==
    /\ install = "gate"
    /\ \/ CloseGate /\ Step("dialog") /\ UNCHANGED phase
       \/ /\ installing \/ activities # {}
          /\ phase' = "idle" /\ Step("none") /\ UNCHANGED gate
    /\ UNCHANGED <<offer, chosen, target, Still>>

Confirm ==
    /\ install = "dialog" /\ Step("verify")
    /\ UNCHANGED <<gate, phase, offer, chosen, target, Still>>

\* Slip: whatever the feed announces by now is installed.
VerifyNothing ==
    /\ install = "verify"
    /\ target' = feed /\ phase' = "downloading" /\ Step("download")
    /\ UNCHANGED <<gate, offer, chosen, Still>>

\* The feed is asked again: it must still announce the version confirmed.
Verify ==
    /\ install = "verify" /\ feed = chosen.version
    /\ target' = feed /\ phase' = "downloading" /\ Step("download")
    /\ UNCHANGED <<gate, offer, chosen, Still>>

Download ==
    /\ install = "download"
    /\ phase' = "installing" /\ Step("install")
    /\ UNCHANGED <<gate, offer, chosen, target, Still>>

\* The user declines, the feed cannot be read, the package cannot be fetched
\* in time or installed: the gate opens first, then the phase is idle.
GiveUp ==
    /\ install \in {"dialog", "verify", "download", "install"}
    /\ OpenGate /\ Step("given_up")
    /\ UNCHANGED <<phase, offer, chosen, target, Still>>

\* The offer changed: it is withdrawn as well.
Changed ==
    /\ install = "verify" /\ feed # chosen.version
    /\ OpenGate /\ Step("changed")
    /\ UNCHANGED <<phase, offer, chosen, target, Still>>

\* Then the phase.
BackIdle ==
    /\ install \in {"given_up", "changed"}
    /\ phase' = "idle" /\ offer' = IF install = "changed" THEN NoOffer ELSE offer
    /\ Step("none")
    /\ UNCHANGED <<gate, chosen, target, Still>>

\* The installed application starts anew.
Reset == phase' = "idle" /\ offer' = NoOffer /\ shown' = NoOffer /\ schedule' = saved
         /\ install' = "none" /\ chosen' = NoOffer /\ target' = 0
Restart ==
    /\ install = "install" /\ version' = target /\ Reset
    /\ UNCHANGED <<now, feed, saved, checks, last>>

\* The application ends at any point and is started again.
UpdaterLost == Reset /\ UNCHANGED <<now, versions, saved, checks, last>>

Tick ==
    /\ now < MaxTime /\ now' = now + 1
    /\ UNCHANGED <<gate, versions, phase, offer, plan, checks, work, shown, last>>
Publish ==
    /\ feed < MaxVersion /\ feed' = feed + 1
    /\ UNCHANGED <<gate, now, version, phase, offer, plan, checks, work, shown, last>>

\* An installation goes on by itself, once the dialog is answered.
Settle ==
    \/ EnterGate \/ Verify \/ Changed \/ Download \/ BackIdle
    \/ install # "dialog" /\ GiveUp

UpdaterNext ==
    \/ \E automatic \in BOOLEAN : BeginCheck(automatic)
    \/ FinishCheck \/ FailCheck \/ Show \/ BeginInstall \/ EnterGate \/ Confirm
    \/ Verify \/ Download \/ GiveUp \/ Changed \/ BackIdle \/ Tick \/ Publish
-----------------------------------------------------------------------------
\* What is downloaded and installed is the offer that the user confirmed, it
\* is still the current one, and no work is under way or can begin.
InstallsAsConfirmed ==
    install \in {"download", "install"} =>
        /\ target = chosen.version /\ chosen = offer
        /\ installing /\ activities = {}

\* The schedule leaves the feed alone for the shortest delay after any check
\* that began, and for a day after one that succeeded and could record it, even
\* if the application ends in between.
ChecksAreSpaced ==
    checks' # checks /\ last'.automatic =>
        /\ last.began  # Never => now >= last.began + Delay[0]
        /\ last.passed # Never => now >= last.passed + Success

\* Both: the updater does what the user and its schedule agreed to.
UpdatesAsAgreed == [][ChecksAreSpaced /\ InstallsAsConfirmed']_updater

\* No check and no installation keeps the updater or the gate for ever, once
\* the user has answered the dialog.  Before a first check there is nothing to
\* install, and a closed gate is somebody else's.
UpdaterReturns ==
    /\ []<>(phase = "idle" \/ install = "dialog")
    /\ []<>(checks = 0 \/ ~installing \/ install = "dialog")
=============================================================================
