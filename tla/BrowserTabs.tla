------------------------------ MODULE BrowserTabs ------------------------------
(***************************************************************************)
(* The pages of the in-app browser (browser.rs) and the panel that shows   *)
(* them (useWorkspacePanel.ts, useNativeBrowserTabs.ts).  A page is a      *)
(* native webview that lies above the window: what hides it when the user  *)
(* turns to another tab, Chat or view is a request of the panel, which     *)
(* keeps its own account of the pages, asks one batch at a time and learns *)
(* a page's identifier only when its opening is answered.                  *)
(*                                                                         *)
(* Each command runs on a task of its own.  A tab is here once it has an   *)
(* address; active = None stands for a tab of another kind.  The bounds,   *)
(* addresses and titles are left out.                                      *)
(***************************************************************************)
EXTENDS Naturals, FiniteSets, Sequences

CONSTANTS
    Thread,      \* Chats with a workspace session
    Page,        \* identifiers of tabs, and of native pages
    Unset,       \* 0: no tab, no page
    MaxPages,    \* MAX_BROWSER_TABS
    MaxMoves     \* bound: what the user does

VARIABLES
    session,     \* [Thread -> [tabs, active]]: ChatWorkspaceSession
    page,        \* [Page -> Page or Unset]: the native_id of a tab
    panel,       \* [shown, mounted, open, menu]: what App and the panel show
    opening,     \* [Page -> record]: browser_tab_open per native page
    flush,       \* [dirty, requests, managed, sent, met]: flushBounds and its refs
    parting,     \* [panels, undone]: last flushes of panels that are gone, and the
                 \* pages of which one of them was answered last
    native,      \* [tabs, views, seen, lost]: BrowserManager and the webviews
    closing,     \* [Page -> stage]: browser_tab_close and the end of a reset
    leaving,     \* Chats whose session is being removed
    moves

browser == <<session, page, panel, opening, flush, parting, native, closing, leaving, moves>>

NoOpening == [stage |-> "none"]

TabsOf(c) == {session[c].tabs[i] : i \in DOMAIN session[c].tabs}
AllTabs   == UNION {TabsOf(c) : c \in Thread}
InFlight  == {n \in Page : opening[n].stage # "none"}
Surface   == panel.mounted /\ panel.open /\ ~panel.menu

FreeTabs  == Page \ (AllTabs \cup {opening[n].tab : n \in InFlight})
PagesOf(Q) == {q.page : q \in Q}
StillAsked == PagesOf(flush.requests) \cup UNION {p.hides \cup PagesOf(p.requests) : p \in parting.panels}
FreePages  == {n \in Page \ (InFlight \cup native.tabs \cup native.views
                                \cup flush.managed \cup StillAsked) :
                  closing[n] = "no" /\ \A t \in AllTabs : page[t] # n}
First(S)  == CHOOSE s \in S : TRUE

BrowserInit ==
    /\ session = [c \in Thread |-> [tabs |-> <<>>, active |-> Unset]]
    /\ page = [t \in Page |-> Unset]
    /\ panel = [shown |-> CHOOSE c \in Thread : TRUE, mounted |-> TRUE, open |-> FALSE, menu |-> FALSE]
    /\ opening = [n \in Page |-> NoOpening]
    /\ flush = [dirty |-> FALSE, requests |-> {}, managed |-> {}, met |-> {},
                sent |-> [n \in Page |-> {}]]
    /\ parting = [panels |-> {}, undone |-> {}]
    /\ native = [tabs |-> {}, views |-> {}, seen |-> {}, lost |-> {}]
    /\ closing = [n \in Page |-> "no"]
    /\ leaving = {} /\ moves = 0

\* The layout effect asks for a flush when what the mounted panel shows changed.
Schedule(changed) ==
    flush' = [flush EXCEPT !.dirty = @ \/ (changed /\ panel.mounted)]
-----------------------------------------------------------------------------
(* The user and the panel.                                                 *)

Moves == moves < MaxMoves /\ moves' = moves + 1

\* activateTab and openBrowser: a new tab, shown at once.
OpenTab(c) ==
    /\ Moves /\ FreeTabs # {}
    /\ LET t == First(FreeTabs)
       IN  session' = [session EXCEPT ![c] = [tabs |-> Append(@.tabs, t), active |-> t]]
    /\ panel' = [panel EXCEPT !.open = TRUE]
    /\ Schedule(c = panel.shown \/ ~panel.open)
    /\ UNCHANGED <<page, opening, parting, native, closing, leaving>>

RoomForOne == Cardinality(native.tabs) <= MaxPages
Room       == Cardinality(native.tabs) < MaxPages

\* A page asks for another window: a new tab of its Chat, if there is room.
Popup(n) ==
    /\ n \in native.views /\ Room
    /\ \E c \in Thread : n \in {page[t] : t \in TabsOf(c)} /\ OpenTab(c)

Move  == Moves /\ UNCHANGED <<page, opening, parting, native, closing, leaving>>

Select(t) ==
    /\ Move /\ panel.mounted
    /\ t \in TabsOf(panel.shown) \cup {Unset} /\ t # session[panel.shown].active
    /\ session' = [session EXCEPT ![panel.shown].active = t]
    /\ Schedule(TRUE) /\ UNCHANGED panel

Show(c) ==
    /\ Move /\ c # panel.shown
    /\ panel' = [panel EXCEPT !.shown = c]
    /\ Schedule(TRUE) /\ UNCHANGED session

Toggle ==
    /\ Move /\ panel.mounted
    /\ \E field \in {"open", "menu"} : panel' = [panel EXCEPT ![field] = ~@]
    /\ Schedule(TRUE) /\ UNCHANGED session

\* The pages the tabs of the shown Chat know, and those of the last round that
\* are no longer among them.
Current == {page[t] : t \in TabsOf(panel.shown)} \ {Unset}

NoneRemoved(current) == {}
Removed(current)     == flush.managed \ current

\* The App leaves the Chat view.  The panel's last flush is to hide its pages
\* (as its tabs were when it was last drawn), once the requests of the round
\* under way have returned; nobody waits for it, and its references are gone.
Unmount ==
    LET hides == {n \in Current \cup Removed(Current) : flush.sent[n] # {FALSE}}
        last  == [since |-> moves', requests |-> flush.requests, hides |-> hides]
    IN  /\ Moves /\ panel.mounted
        /\ panel' = [panel EXCEPT !.mounted = FALSE, !.menu = FALSE]
        /\ flush' = [dirty |-> FALSE, requests |-> {}, managed |-> {}, met |-> flush.met,
                     sent |-> [n \in Page |-> {}]]
        /\ parting' = IF flush.requests = {} /\ hides = {} THEN parting
                      ELSE [parting EXCEPT !.panels = @ \cup {last}]
        /\ opening' = [n \in Page |-> IF n \in InFlight THEN [opening[n] EXCEPT !.noted = FALSE]
                                      ELSE opening[n]]
        /\ UNCHANGED <<session, page, native, closing, leaving>>

\* It returns, with references of its own, and flushes.
Mount ==
    /\ ~panel.mounted
    /\ panel' = [panel EXCEPT !.mounted = TRUE]
    /\ flush' = [flush EXCEPT !.dirty = TRUE]
    /\ UNCHANGED <<session, page, opening, parting, native, closing, leaving, moves>>

\* closeTab: the native page is closed if the tab knows it; the neighbour is
\* shown, and an empty panel closes.
CloseTab(t) ==
    LET c    == panel.shown
        at   == CHOOSE i \in DOMAIN session[c].tabs : session[c].tabs[i] = t
        rest == SubSeq(session[c].tabs, 1, at - 1)
                    \o SubSeq(session[c].tabs, at + 1, Len(session[c].tabs))
    IN  /\ Moves /\ panel.mounted /\ t \in TabsOf(c) /\ c \notin leaving
        /\ closing' = [n \in Page |-> IF n = page[t] THEN "asked" ELSE closing[n]]
        /\ session' = [session EXCEPT ![c] =
              [tabs   |-> rest,
               active |-> IF @.active # t THEN @.active
                          ELSE IF rest = <<>> THEN Unset
                          ELSE rest[IF at > Len(rest) THEN Len(rest) ELSE at]]]
        /\ page' = [page EXCEPT ![t] = Unset]
        /\ panel' = [panel EXCEPT !.open = @ /\ rest # <<>>]
        /\ Schedule(TRUE)
        /\ UNCHANGED <<opening, parting, native, leaving>>

\* removeSession: the pages known now are closed, and then the session is
\* dropped with what it knows by then.
RemoveSession(c) ==
    /\ Moves /\ c \notin leaving /\ TabsOf(c) # {}
    /\ leaving' = leaving \cup {c}
    /\ closing' = [n \in Page |-> IF \E t \in TabsOf(c) : page[t] = n THEN "asked"
                                  ELSE closing[n]]
    /\ UNCHANGED <<session, page, panel, opening, flush, parting, native>>

DropSession(c) ==
    /\ c \in leaving /\ \A n \in {page[t] : t \in TabsOf(c)} \ {Unset} : closing[n] = "no"
    /\ leaving' = leaving \ {c}
    /\ session' = [session EXCEPT ![c] = [tabs |-> <<>>, active |-> Unset]]
    /\ page' = [t \in Page |-> IF t \in TabsOf(c) THEN Unset ELSE page[t]]
    /\ panel' = [panel EXCEPT !.open = @ /\ panel.shown # c]
    /\ Schedule(panel.shown = c)
    /\ UNCHANGED <<opening, parting, native, closing, moves>>

\* The renderer begins again: browser_tabs_reset drains the registry and then
\* closes the webviews of what was in it.
Reload ==
    /\ Moves
    /\ session' = [c \in Thread |-> [tabs |-> <<>>, active |-> Unset]]
    /\ page' = [t \in Page |-> Unset]
    /\ panel' = [panel EXCEPT !.mounted = TRUE, !.open = FALSE, !.menu = FALSE]
    /\ flush' = [flush EXCEPT !.dirty = FALSE, !.requests = {}, !.managed = {},
                              !.sent = [n \in Page |-> {}]]
    /\ parting' = [parting EXCEPT !.panels = {}]
    /\ opening' = [n \in Page |-> IF n \in InFlight
                                  THEN [opening[n] EXCEPT !.noted = FALSE, !.heard = FALSE]
                                  ELSE opening[n]]
    /\ native' = [native EXCEPT !.tabs = {},
                    !.lost = @ \cup {n \in native.tabs : opening[n].stage = "reserved"}]
    /\ closing' = [n \in Page |-> IF n \in native.tabs THEN "reset" ELSE closing[n]]
    /\ leaving' = {}
-----------------------------------------------------------------------------
(* Opening a page.                                                         *)

\* The effect of an active tab without a page: a tab whose opening is under
\* way is left alone, as long as the panel that noted it is mounted.  The
\* command begins by reserving a record (BrowserManager::reserve), if there is
\* room.
AskOpen ==
    LET t == session[panel.shown].active
        n == First(FreePages)
    IN  /\ panel.mounted /\ panel.open /\ t # Unset /\ page[t] = Unset
        /\ \A o \in InFlight : ~(opening[o].tab = t /\ opening[o].noted)
        /\ FreePages # {}
        /\ opening' = [opening EXCEPT ![n] =
              [stage |-> IF Room THEN "reserved" ELSE "refused", tab |-> t,
               visible |-> ~panel.menu, noted |-> TRUE, heard |-> TRUE]]
        /\ flush' = [flush EXCEPT !.met = @ \ {n}]
        /\ native' = [native EXCEPT !.tabs = IF Room THEN @ \cup {n} ELSE @,
                                    !.lost = @ \ {n}]
        /\ parting' = [parting EXCEPT !.undone = @ \ {n}]
        /\ UNCHANGED <<session, page, panel, closing, leaving, moves>>

Advance(n, stage) ==
    /\ opening' = [opening EXCEPT ![n].stage = stage]
    /\ UNCHANGED <<session, page, panel, flush, closing, leaving, moves, parting>>

AddChild(n) ==
    /\ opening[n].stage = "reserved" /\ Advance(n, "added")
    /\ native' = [native EXCEPT !.views = @ \cup {n},
                                !.seen = IF opening[n].visible THEN @ \cup {n} ELSE @]

\* The webview cannot be made, or not be hidden: it and its record are removed.
AddFails(n) ==
    /\ opening[n].stage = "reserved" /\ Advance(n, "refused")
    /\ native' = [native EXCEPT !.tabs = @ \ {n}, !.lost = @ \ {n}]

\* The answer reaches the tab if it is still there: the page is its own now,
\* whichever it had.
Answer(n) ==
    LET o == opening[n]
        known == o.heard /\ o.tab \in AllTabs
    IN  /\ o.stage \in {"added", "refused"}
        /\ opening' = [opening EXCEPT ![n] = NoOpening]
        /\ page' = IF o.stage = "added" /\ known THEN [page EXCEPT ![o.tab] = n] ELSE page
        /\ Schedule(known /\ o.tab \in TabsOf(panel.shown))
        /\ UNCHANGED <<session, panel, parting, native, closing, leaving, moves>>
-----------------------------------------------------------------------------
(* Showing and hiding.                                                     *)

\* One round of flushBounds: what each page of the shown Chat should be, and
\* that the pages of the last round that are gone from it are hidden.  What
\* was sent before is not sent again.
FlushBegin ==
    LET active  == session[panel.shown].active
        wanted(n) == Surface /\ active # Unset /\ n = page[active]
        all     == {[page |-> n, visible |-> wanted(n)] : n \in Current}
                       \cup {[page |-> n, visible |-> FALSE] : n \in Removed(Current)}
    IN  /\ flush.dirty /\ flush.requests = {}
        /\ flush' = [dirty    |-> FALSE,
                     requests |-> {q \in all : flush.sent[q.page] # {q.visible}},
                     managed  |-> Current,
                     met      |-> flush.met \cup Current,
                     sent     |-> [n \in Page |-> IF n \in Current THEN {wanted(n)} ELSE {}]]
        /\ UNCHANGED <<session, page, panel, opening, parting, native, closing, leaving, moves>>

\* browser_tab_set_bounds: a page that is gone is forgotten.
IsThere(n) == n \in native.tabs /\ n \in native.views

SetBounds(q) ==
    /\ q \in flush.requests
    /\ flush' = [flush EXCEPT !.requests = @ \ {q},
                              !.sent[q.page] = IF IsThere(q.page) THEN @ ELSE {}]
    /\ native' = IF ~IsThere(q.page) THEN native
                 ELSE [native EXCEPT !.seen = IF q.visible THEN @ \cup {q.page} ELSE @ \ {q.page}]
    /\ parting' = [parting EXCEPT !.undone = @ \ {q.page}]
    /\ UNCHANGED <<session, page, panel, opening, closing, leaving, moves>>

\* The same for a panel that is gone: first the round that was under way, then
\* the last.  The panel that is mounted now knows nothing of it.
LateAsks(p) == IF p.requests # {} THEN p.requests
               ELSE {[page |-> n, visible |-> FALSE] : n \in p.hides}

LateBounds(p, q) ==
    LET rest == [since    |-> p.since,
                 requests |-> p.requests \ {q},
                 hides    |-> IF p.requests # {} THEN p.hides ELSE p.hides \ {q.page}]
        over == rest.requests = {} /\ rest.hides = {}
    IN  /\ p \in parting.panels /\ q \in LateAsks(p)
        /\ parting' = [panels |-> (parting.panels \ {p}) \cup (IF over THEN {} ELSE {rest}),
                       undone |-> parting.undone \cup {q.page}]
        /\ native' = IF ~IsThere(q.page) THEN native
                     ELSE [native EXCEPT !.seen = IF q.visible THEN @ \cup {q.page} ELSE @ \ {q.page}]
        /\ UNCHANGED <<session, page, panel, opening, flush, closing, leaving, moves>>

\* browser_tab_close: first the webview, then its record.
CloseView(n) ==
    /\ closing[n] \in {"asked", "reset"}
    /\ closing' = [closing EXCEPT ![n] = IF @ = "asked" /\ n \in native.tabs THEN "closed" ELSE "no"]
    /\ native' = IF closing[n] = "asked" /\ n \notin native.tabs THEN native
                 ELSE [native EXCEPT !.views = @ \ {n}, !.seen = @ \ {n}]
    /\ UNCHANGED <<session, page, panel, opening, flush, leaving, moves, parting>>

RemoveRecord(n) ==
    /\ closing[n] = "closed"
    /\ closing' = [closing EXCEPT ![n] = "no"]
    /\ native' = [native EXCEPT !.tabs = @ \ {n}]
    /\ UNCHANGED <<session, page, panel, opening, flush, leaving, moves, parting>>

BrowserNext ==
    \/ OpenTab(panel.shown)
    \/ \E n \in Page : Popup(n)
    \/ \E t \in Page : CloseTab(t)
    \/ \E t \in Page \cup {Unset} : Select(t)
    \/ \E c \in Thread : Show(c) \/ RemoveSession(c) \/ DropSession(c)
    \/ Toggle \/ Unmount \/ Mount \/ Reload
    \/ AskOpen
    \/ \E n \in Page : AddChild(n) \/ AddFails(n) \/ Answer(n)
    \/ FlushBegin
    \/ \E q \in flush.requests : SetBounds(q)
    \/ \E p \in parting.panels : \E q \in LateAsks(p) : LateBounds(p, q)
    \/ \E n \in Page : CloseView(n) \/ RemoveRecord(n)
-----------------------------------------------------------------------------
Settled ==
    /\ ~flush.dirty /\ flush.requests = {} /\ parting.panels = {} /\ leaving = {} /\ InFlight = {}
    /\ \A n \in Page : closing[n] = "no"

\* Nothing lies above the window that the user did not turn to: when all is
\* still, the page one sees is that of the active tab, whose panel is open and
\* has no menu above it, and it is seen (flushBounds).  A page whose opening
\* ended when its tab was closed or its Chat was not shown is unknown to the
\* panel, which hides only what it has met; and a page of which a panel that is
\* gone was answered last may be hidden, for nobody waits for that panel's
\* requests.
SeenIsActive ==
    LET active == session[panel.shown].active
        front  == IF Surface /\ active # Unset THEN {page[active]} ELSE {}
    IN  Settled => /\ native.seen \cap flush.met \subseteq front
                   /\ (front \cap native.views) \ parting.undone \subseteq native.seen

\* The registry counts the webviews there are, never more than its bound, and
\* the page a tab knows is one of them (browser_tab_open, browser_tab_close).
\* A page that was being opened while a reset drained the registry has no
\* record.
PagesAreCounted ==
    /\ Cardinality(native.tabs) <= MaxPages
    /\ Settled => /\ native.views \ native.lost = native.tabs
                  /\ \A t \in AllTabs : page[t] # Unset => page[t] \in native.tabs

PagesAreShown == SeenIsActive /\ PagesAreCounted
=============================================================================
