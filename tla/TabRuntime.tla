----------------------------- MODULE TabRuntime -----------------------------
(***************************************************************************)
(* HelloChromium's tabs: persisted TabRecords in a Session, the live web   *)
(* views of those that are awake, and the copying of each view into its    *)
(* record (TabRuntime.swift, with Session.swift, TabRecord.swift,          *)
(* ContentView.swift, TabRow.swift and AddressBar.swift), on top of the    *)
(* views themselves (NavigationMirror).                                    *)
(*                                                                         *)
(* A record's title travels as its url does and is left out.  SwiftData    *)
(* and SwiftUI are external: a deletion leaves session.tabs when the       *)
(* context saves, and the content view renders some time after a change.   *)
(***************************************************************************)
EXTENDS NavigationMirror, FiniteSets

CONSTANTS
    Tabs,     \* bound: the tabs there may ever be
    NoTab,    \* no selection
    NoView,   \* a hibernated tab
    FirstPage, \* the URL of the seeded tab and of new ones
    MaxMoves  \* bound: what the user, the pages and CEF do in a behaviour

ASSUME TabsAssumption == Tabs # {} /\ IsFiniteSet(Tabs)
ASSUME NoTabAssumption == NoTab \notin Tabs
ASSUME NoViewAssumption == NoView \notin Views
ASSUME FirstPageAssumption == FirstPage \in Pages
ASSUME MaxMovesAssumption == MaxMoves \in Nat

VARIABLES
    record,   \* the TabRecords
    tabs,     \* session.tabs
    selected, \* session.selectedTabID
    live,     \* the runtime's registry of live web views
    tracking, \* withObservationTracking has not fired yet
    shown,    \* the selection that ContentView last rendered
    slept,    \* ghost: the tabs the user hibernated and has not woken
    moves     \* ghost: how many moves the bound has counted

mirrorVars == <<browser, web, kit, downloads, reported, queue>>
tabVars == <<record, tabs, selected, live, tracking, shown, slept>>
vars == <<mirrorVars, tabVars, moves>>

Reconcile == [kind |-> "reconcile"]

TabRecord == [state : {"unused", "open", "deleted", "saved"}, url : Pages, icon : Icons,
              sortIndex : Nat]

TypeOK ==
    /\ MirrorTypeOK({Reconcile})
    /\ record \in [Tabs -> TabRecord]
    /\ tabs \subseteq Tabs
    /\ selected \in Tabs \cup {NoTab}
    /\ live \in [Tabs -> Views \cup {NoView}]
    /\ tracking \in BOOLEAN
    /\ shown \in Tabs \cup {NoTab}
    /\ slept \subseteq Tabs
    /\ moves \in 0 .. MaxMoves

UnusedTabs == {t \in Tabs : record[t].state = "unused"}
Opened(url, index) == [state |-> "open", url |-> url, icon |-> 0, sortIndex |-> index]

\* restoreOrSeedSession's seed, with reconcileLiveTabs armed by makeWindow and
\* nothing rendered.
Init ==
    /\ MirrorInit
    /\ LET seed == CHOOSE t \in Tabs : TRUE
       IN  /\ record = [t \in Tabs |->
                 [Opened(FirstPage, 0) EXCEPT !.state = IF t = seed THEN "open" ELSE "unused"]]
           /\ tabs = {seed}
           /\ selected = seed
    /\ live = [t \in Tabs |-> NoView]
    /\ tracking = TRUE
    /\ shown = NoTab
    /\ slept = {}
    /\ moves = 0

InSession(t) == t \in tabs
Awake(t) == live[t] # NoView

\* The last of the tabs, as orderedTabs sorts them.
LastTab(ts) == CHOOSE t \in ts : \A u \in ts : record[u].sortIndex <= record[t].sortIndex

-----------------------------------------------------------------------------
(***************************************************************************)
(* LiveTab: the KVO observations of a live view write into its record.     *)
(***************************************************************************)
\* Mutant: the image of a new favicon is observed without its initial value.
ObservedNew(r, w, w2) ==
    [r EXCEPT !.url = IF w2.URL # w.URL THEN w2.URL ELSE @,
              !.icon = IF w2.favicon.icon = w.favicon.icon /\ w2.favicon # w.favicon
                       THEN w2.favicon.image ELSE @]

\* url's observer, and bindFavicon, which observes a favicon's image from its
\* initial value on but leaves the record alone when there is no favicon.
Observed(r, w, w2) ==
    [r EXCEPT !.url = IF w2.URL # w.URL THEN w2.URL ELSE @,
              !.icon = IF w2.favicon # w.favicon /\ w2.favicon.icon # 0
                       THEN w2.favicon.image ELSE @]

\* What the views' changes do to the records.
Sync ==
    /\ record' = [t \in Tabs |->
          IF Awake(t) THEN Observed(record[t], web[live[t]], web'[live[t]]) ELSE record[t]]
    /\ UNCHANGED <<tabs, selected, live, tracking, shown, slept>>

-----------------------------------------------------------------------------
(***************************************************************************)
(* Waking and hibernating.                                                 *)
(***************************************************************************)
\* wake and register for a hibernated tab, whose view takes over the
\* record's url.
WakeWith(t, v) ==
    /\ NewWeb(v, record[t].url)
    /\ live' = [live EXCEPT ![t] = v]
    /\ slept' = slept \ {t}

\* TabRow's "Wake up".
Wake(t) ==
    /\ InSession(t) /\ ~Awake(t)
    /\ \E v \in Views : WakeWith(t, v)
    /\ UNCHANGED <<browser, kit, downloads, reported, queue,
                   record, tabs, selected, tracking, shown>>

\* TabRow's "Hibernate".
Hibernate(t) ==
    /\ InSession(t) /\ Awake(t)
    /\ Release({live[t]})
    /\ live' = [live EXCEPT ![t] = NoView]
    /\ slept' = slept \cup {t}
    /\ UNCHANGED <<reported, queue, record, tabs, selected, tracking, shown>>

\* ContentView mounts the live views of the session's tabs.
Mount(t) ==
    /\ InSession(t) /\ Awake(t)
    /\ CreateBrowser(live[t])
    /\ Sync

\* wakeSelected, when the view appears and when the selection has changed.
WakeSelected(t) ==
    IF t # NoTab /\ InSession(t) /\ ~Awake(t)
    THEN \E v \in Views : WakeWith(t, v)
    ELSE UNCHANGED <<web, live, slept>>

Render ==
    /\ shown # selected
    /\ shown' = selected
    /\ WakeSelected(selected)
    /\ UNCHANGED <<browser, kit, downloads, reported, queue, record, tabs, selected, tracking>>

-----------------------------------------------------------------------------
(***************************************************************************)
(* Opening, selecting and closing tabs.                                    *)
(***************************************************************************)
\* session.tabs changes: a tracking that has not fired yet posts its Task.
TabsChange(newTabs) ==
    /\ tabs' = newTabs
    /\ tracking' = FALSE
    /\ queue' = IF tracking THEN Append(queue, Reconcile) ELSE queue

NextIndex == IF tabs = {} THEN 0 ELSE record[LastTab(tabs)].sortIndex + 1

\* insertTab: a new record, to the right of the others.
InsertTab(t, url) ==
    /\ UnusedTabs # {} /\ t = CHOOSE x \in UnusedTabs : TRUE
    /\ record' = [record EXCEPT ![t] = Opened(url, NextIndex)]
    /\ TabsChange(tabs \cup {t})

\* newTab, with its default URL.
NewTab(t) ==
    /\ InsertTab(t, FirstPage)
    /\ selected' = t
    /\ UNCHANGED <<browser, web, kit, downloads, reported, live, shown, slept>>

Select(t) ==
    /\ InSession(t) /\ t # selected
    /\ selected' = t
    /\ UNCHANGED <<mirrorVars, record, tabs, live, tracking, shown, slept>>

\* requestsNewTabFor: a tab with a popup's shell, for whose browser CEF has
\* the popup's URL; a foreground one is selected.
RequestsNewTab(opener, v, t, url, foreground) ==
    /\ browser[opener].life = "live"
    /\ InsertTab(t, url)
    /\ NewWeb(v, NoPage)
    /\ browser' = [browser EXCEPT ![v].life = "creating", ![v].next = url]
    /\ live' = [live EXCEPT ![t] = v]
    /\ selected' = IF foreground THEN t ELSE selected
    /\ UNCHANGED <<kit, downloads, reported, shown, slept>>

\* AddressBar.navigate: wake the selected tab if need be, then load.
Navigate(url) ==
    /\ selected # NoTab /\ InSession(selected) /\ shown = selected
    /\ \/ /\ Awake(selected)
          /\ Load(live[selected], url)
          /\ Sync
       \/ /\ ~Awake(selected)
          /\ \E v \in Views :
              /\ NewWeb(v, url)
              /\ live' = [live EXCEPT ![selected] = v]
          /\ slept' = slept \ {selected}
          /\ record' = [record EXCEPT ![selected].url = url]
          /\ UNCHANGED <<browser, kit, downloads, reported, queue, tabs, selected, tracking, shown>>

\* "Close tab" deletes the record and nothing else.
CloseTab(t) ==
    /\ InSession(t) /\ record[t].state = "open"
    /\ record' = [record EXCEPT ![t].state = "deleted"]
    /\ UNCHANGED <<mirrorVars, tabs, selected, live, tracking, shown, slept>>

Deleted == {t \in Tabs : record[t].state = "deleted"}

\* The context saves, and the session's tabs lose the deleted ones.
Save ==
    /\ Deleted # {}
    /\ record' = [t \in Tabs |->
          IF t \in Deleted THEN [record[t] EXCEPT !.state = "saved"] ELSE record[t]]
    /\ TabsChange(tabs \ Deleted)
    /\ UNCHANGED <<browser, web, kit, downloads, reported, selected, live, shown, slept>>

-----------------------------------------------------------------------------
(***************************************************************************)
(* reconcileLiveTabs, and a new launch, which begins with it.              *)
(***************************************************************************)
\* The selection moves off a tab that is gone, to the last one.
Reselected(ts) ==
    IF selected # NoTab /\ selected \notin ts
    THEN IF ts = {} THEN NoTab ELSE LastTab(ts)
    ELSE selected

Gone == {t \in Tabs : Awake(t) /\ ~InSession(t)}

\* Mutant: the tracking is not armed again.
ReconcileOnce ==
    /\ queue # <<>> /\ Head(queue) = Reconcile
    /\ queue' = Tail(queue)
    /\ Release({live[t] : t \in Gone})
    /\ live' = [t \in Tabs |-> IF t \in Gone THEN NoView ELSE live[t]]
    /\ selected' = Reselected(tabs)
    /\ UNCHANGED <<reported, record, tabs, tracking, shown, slept>>

\* The Task that the tracking posted: arm it again, release the live views
\* whose records are gone, and move the selection.
ReconcileLiveTabs ==
    /\ queue # <<>> /\ Head(queue) = Reconcile
    /\ queue' = Tail(queue)
    /\ tracking' = TRUE
    /\ Release({live[t] : t \in Gone})
    /\ live' = [t \in Tabs |-> IF t \in Gone THEN NoView ELSE live[t]]
    /\ selected' = Reselected(tabs)
    /\ UNCHANGED <<reported, record, tabs, shown, slept>>

\* Mutant: a launch waits for the selection to change.
AppearAsleep(t, restored) ==
    /\ web' = [v \in Views |-> IF Alive(v) THEN [Unborn EXCEPT !.life = "dead"] ELSE web[v]]
    /\ live' = [x \in Tabs |-> NoView]

\* ContentView appears after a launch, and wakes the selected tab.
Appear(t, restored) ==
    LET old == [v \in Views |-> IF Alive(v) THEN [Unborn EXCEPT !.life = "dead"] ELSE web[v]]
    IN  IF t = NoTab
        THEN web' = old /\ live' = [x \in Tabs |-> NoView]
        ELSE \E v \in Views :
              /\ UnbornViews # {} /\ v = FreshView
              /\ web' = [old EXCEPT ![v] = [Unborn EXCEPT !.life = "alive", !.URL = restored[t].url]]
              /\ live' = [x \in Tabs |-> IF x = t THEN v ELSE NoView]

\* The program ends, or crashes with or without its deletions saved, and is
\* launched again: only the session is left.
Relaunch ==
    /\ \E state \in {"open", "saved"} :
        /\ record' = [t \in Tabs |->
              IF t \in Deleted THEN [record[t] EXCEPT !.state = state] ELSE record[t]]
        /\ tabs' = IF state = "saved" THEN tabs \ Deleted ELSE tabs
    /\ selected' = Reselected(tabs')
    /\ shown' = selected'
    /\ Appear(selected', record')
    /\ browser' = [v \in Views |-> IF Alive(v) THEN [NoBrowser EXCEPT !.life = "gone"]
                                   ELSE browser[v]]
    /\ kit' = [v \in Views |-> Unread]
    /\ downloads' = {}
    /\ queue' = <<>>
    /\ tracking' = TRUE
    /\ slept' = {}
    /\ UNCHANGED reported

-----------------------------------------------------------------------------
User ==
    \/ \E t \in Tabs : Wake(t) \/ Hibernate(t) \/ NewTab(t) \/ Select(t) \/ CloseTab(t)
    \/ \E p \in Pages : Navigate(p)
    \/ Relaunch

Cef ==
    \/ \E v \in Views :
        \/ OnAfterCreated(v) \/ OnLoadStart(v) \/ OnLoadingStops(v) \/ OnFaviconURLChange(v)
        \/ SamePageLoad(v)
        \/ \E p \in Pages : FollowLink(v, p) \/ SamePageNavigation(v, p)
    \/ \E d \in downloads : OnDownloadImageFinished(d)

SwiftUI == \E v \in Views : Observable(v)

Popup == \E opener, v \in Views, t \in Tabs, p \in Pages, f \in BOOLEAN :
             RequestsNewTab(opener, v, t, p, f)

\* What the program itself still has to do is never bounded.
Program ==
    \/ Render \/ Save \/ ReconcileLiveTabs
    \/ RunBlock /\ Sync
    \/ \E t \in Tabs : Mount(t)

Next ==
    \/ /\ moves < MaxMoves /\ moves' = moves + 1
       /\ User \/ Popup \/ ((Cef \/ SwiftUI) /\ Sync)
    \/ Program /\ UNCHANGED moves

Spec == Init /\ [][Next]_vars

-----------------------------------------------------------------------------
(***************************************************************************)
(* Properties.                                                             *)
(***************************************************************************)
\* While a tab is awake its record keeps up with its view: the url in every
\* state, and the image of the favicon as long as there is a favicon.  (A
\* page without one leaves the icon of the page before it in the record.)
RecordKeepsUp ==
    \A t \in Tabs :
        Awake(t) =>
            LET w == web[live[t]]
            IN  /\ w.URL # NoPage => record[t].url = w.URL
                /\ w.favicon.icon # 0 => record[t].icon = w.favicon.image

ReconcilePending == \E i \in DOMAIN queue : queue[i] = Reconcile

\* No change of the session's tabs is missed, however many come while the
\* Task of an earlier one waits: without a Task to come, every live view has
\* its tab and the selection is a tab, so that closing a tab by deleting its
\* record is enough ("there's no imperative release path a caller has to
\* remember", TabRuntime.swift:113-114).
NothingLeaks ==
    ~ReconcilePending =>
        /\ \A t \in Tabs : Awake(t) => InSession(t)
        /\ selected # NoTab => InSession(selected)

\* What the window shows is awake, unless the user put it to sleep.
SelectedIsAwake ==
    selected = shown /\ selected # NoTab /\ InSession(selected) =>
        Awake(selected) \/ selected \in slept

=============================================================================
