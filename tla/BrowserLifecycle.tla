-------------------------- MODULE BrowserLifecycle --------------------------
(***************************************************************************)
(* ChromiumViews, their _ChromiumClients and the CEF browsers behind them  *)
(* (ChromiumView.mm 546-624, 831-872, 939-1060, 1081-1095): deferred       *)
(* creation, popups adopted by shells, layout and zoom pushed to the child *)
(* view, and closing.                                                      *)
(*                                                                         *)
(* A view has at most one client, so the client carries the view's name.   *)
(* A browser keeps its client alive, also when the view is gone; owner_ is *)
(* a weak reference.  CEF creates and closes browsers asynchronously and   *)
(* is external.  What is dead or closed keeps no fields here.              *)
(*                                                                         *)
(* Three things take a view out of what the code guarantees: the host     *)
(* loads or drops it while its browser is being created (`hasty`), a       *)
(* page's popup is left to CEF's defaults and shares its client, or it is  *)
(* the shell of a modifier click, for which CEF has no popup (`astray`).   *)
(***************************************************************************)
EXTENDS Integers, Sequences

CONSTANTS
    Views, Browsers, \* bounds: the views and browsers there may ever be
    NoBrowser,       \* nullptr
    Sizes,           \* sizes of a view; 0 is a zero-sized one
    Urls,            \* what the host loads
    FirstUrl,        \* what views and popups begin with
    Zooms            \* zoom factors the host sets; 1 is the default

ASSUME ViewsAssumption == Views # {}
ASSUME SizesAssumption == Sizes \subseteq Nat
ASSUME ZoomsAssumption == Zooms \subseteq Nat
ASSUME NoBrowserAssumption == NoBrowser \notin Browsers
ASSUME FirstUrlAssumption == FirstUrl \in Urls

VARIABLES
    view,     \* the ChromiumView: life, _browserCreated, window, bounds, URL, _zoomFactor
    browserOf, \* client -> browser_
    owned,    \* client -> owner_ is not nil
    browser,  \* CEF's browsers: life, their client, child view size, URL, zoom
    queue,    \* the main dispatch queue
    hasty,    \* ghost: views loaded or dropped in creation
    astray    \* ghost: views that share their client, or wait for no popup

ghosts == <<hasty, astray>>
vars == <<view, browserOf, owned, browser, queue, ghosts>>

ViewRecord == [life : {"unborn", "alive", "dead"}, created : BOOLEAN, window : BOOLEAN,
               size : Sizes \cup {0}, url : Urls, zoom : Zooms \cup {1}]
BrowserRecord == [life : {"unused", "creating", "live", "closing", "closed"},
                  client : Views, size : Nat, url : Urls, zoom : Zooms \cup {1}]
Blocks == [kind : {"didCreate", "openTab"}, of : Views]

TypeOK ==
    /\ view \in [Views -> ViewRecord]
    /\ browserOf \in [Views -> Browsers \cup {NoBrowser}]
    /\ owned \in [Views -> BOOLEAN]
    /\ browser \in [Browsers -> BrowserRecord]
    /\ queue \in Seq(Blocks)
    /\ hasty \subseteq Views /\ astray \subseteq Views

\* Mutant: initWithFrame:URL: leaves _zoomFactor zero.
UnbornUnzoomed == [life |-> "unborn", created |-> FALSE, window |-> FALSE, size |-> 0,
                   url |-> FirstUrl, zoom |-> 0]

Unborn == [life |-> "unborn", created |-> FALSE, window |-> FALSE, size |-> 0,
           url |-> FirstUrl, zoom |-> 1]
Dead == [Unborn EXCEPT !.life = "dead"]

\* A browser that is not there, with the client it was made for.
Absent(life, c) == [life |-> life, client |-> c, size |-> 0, url |-> FirstUrl, zoom |-> 1]

Init ==
    /\ view = [v \in Views |-> Unborn]
    /\ browserOf = [v \in Views |-> NoBrowser]
    /\ owned = [v \in Views |-> FALSE]
    /\ browser = [b \in Browsers |-> Absent("unused", CHOOSE v \in Views : TRUE)]
    /\ queue = <<>>
    /\ hasty = {} /\ astray = {}

Alive(v) == view[v].life = "alive"
Attached(v) == browserOf[v] # NoBrowser
InCreation(v) == \E b \in Browsers : browser[b].life = "creating" /\ browser[b].client = v
Queued(kind, v) == \E i \in DOMAIN queue : queue[i].kind = kind /\ queue[i].of = v

\* Which unused view or browser comes next makes no difference.
IsFreshView(v) ==
    LET unborn == {x \in Views : view[x].life = "unborn"}
    IN  unborn # {} /\ v = CHOOSE x \in unborn : TRUE
IsFreshBrowser(b) ==
    LET unused == {x \in Browsers : browser[x].life = "unused"}
    IN  unused # {} /\ b = CHOOSE x \in unused : TRUE

\* CEF starts to create a browser for a client.
Creating(b, v, size, url) ==
    /\ IsFreshBrowser(b)
    /\ browser' = [browser EXCEPT ![b] =
          [life |-> "creating", client |-> v, size |-> size, url |-> url, zoom |-> 1]]

Haste(v) ==
    /\ hasty' = IF InCreation(v) THEN hasty \cup {v} ELSE hasty
    /\ UNCHANGED astray

-----------------------------------------------------------------------------
(***************************************************************************)
(* The host drives a view.                                                 *)
(***************************************************************************)
NewView(v) ==
    /\ IsFreshView(v)
    /\ view' = [view EXCEPT ![v] = [Unborn EXCEPT !.life = "alive"]]
    /\ UNCHANGED <<browserOf, owned, browser, queue, ghosts>>

\* Mutant: a view that has asked for its browser asks again.
ReadyAgain(w) == w.window /\ w.size >= 1

\* _createBrowserIfReady's early returns, on a view with its new geometry.
Ready(w) == ~w.created /\ w.window /\ w.size >= 1

\* _createBrowserIfReady: the new client is owned by the view at once, the
\* browser comes with OnAfterCreated.
CreateBrowser(v, w) ==
    /\ Ready(w)
    /\ view' = [view EXCEPT ![v] = [w EXCEPT !.created = TRUE]]
    /\ owned' = [owned EXCEPT ![v] = TRUE]
    /\ \E b \in Browsers : Creating(b, v, w.size, w.url)
    /\ UNCHANGED <<browserOf, queue, ghosts>>

ViewDidMoveToWindow(v) ==
    /\ Alive(v) /\ ~view[v].window
    /\ LET w == [view[v] EXCEPT !.window = TRUE]
       IN  \/ CreateBrowser(v, w)
           \/ /\ ~Ready(w)
              /\ view' = [view EXCEPT ![v] = w]
              /\ UNCHANGED <<browserOf, owned, browser, queue, ghosts>>

\* The child view CEF created follows the view's bounds.
SyncedChild(v, size) ==
    IF Attached(v) THEN [browser EXCEPT ![browserOf[v]].size = size] ELSE browser

\* setFrameSize:, layout and resizeSubviewsWithOldSize: -> _syncBrowserLayout
SetFrameSize(v, size) ==
    /\ Alive(v) /\ size # view[v].size
    /\ LET w == [view[v] EXCEPT !.size = size]
       IN  \/ CreateBrowser(v, w)
           \/ /\ ~Ready(w)
              /\ view' = [view EXCEPT ![v] = w]
              /\ browser' = SyncedChild(v, size)
              /\ UNCHANGED <<browserOf, owned, queue, ghosts>>

\* load: -- the URL is remembered, and loaded if there is a browser.
Loaded(v, url) ==
    /\ view' = [view EXCEPT ![v].url = url]
    /\ browser' = IF Attached(v) THEN [browser EXCEPT ![browserOf[v]].url = url] ELSE browser

Load(v, url) ==
    /\ Alive(v) /\ url # view[v].url
    /\ Loaded(v, url)
    /\ Haste(v)
    /\ UNCHANGED <<browserOf, owned, queue>>

\* setZoomFactor:
ZoomedChild(v, zoom) ==
    IF Attached(v) THEN [browser EXCEPT ![browserOf[v]].zoom = zoom] ELSE browser

SetZoomFactor(v, zoom) ==
    /\ Alive(v) /\ zoom # view[v].zoom
    /\ view' = [view EXCEPT ![v].zoom = zoom]
    /\ browser' = ZoomedChild(v, zoom)
    /\ UNCHANGED <<browserOf, owned, queue, ghosts>>

\* Mutant: the browser is left to itself.
DeallocOnly(v) ==
    /\ Alive(v) /\ ~Queued("openTab", v)
    /\ view' = [view EXCEPT ![v] = Dead]
    /\ Haste(v)
    /\ owned' = [owned EXCEPT ![v] = FALSE]
    /\ UNCHANGED <<browserOf, browser, queue>>

\* dealloc: the browser the view has by now is closed.  A block of
\* OnOpenURLFromTab retains its view.
Dealloc(v) ==
    /\ Alive(v) /\ ~Queued("openTab", v)
    /\ view' = [view EXCEPT ![v] = Dead]
    /\ Haste(v)
    /\ owned' = [owned EXCEPT ![v] = FALSE]
    /\ browser' = IF Attached(v) THEN [browser EXCEPT ![browserOf[v]].life = "closing"]
                  ELSE browser
    /\ UNCHANGED <<browserOf, queue>>

-----------------------------------------------------------------------------
(***************************************************************************)
(* CEF calls a client.                                                     *)
(***************************************************************************)
\* Mutant: browser_ is not set.
OnAfterCreatedUnset(b) ==
    /\ browser[b].life = "creating"
    /\ browser' = [browser EXCEPT ![b].life = "live"]
    /\ UNCHANGED <<view, browserOf, owned, queue, ghosts>>

\* OnAfterCreated: browser_ is set at once, the view is told by the queue.
OnAfterCreated(b) ==
    /\ browser[b].life = "creating"
    /\ LET c == browser[b].client
       IN  /\ browser' = [browser EXCEPT ![b].life = "live"]
           /\ browserOf' = [browserOf EXCEPT ![c] = b]
           /\ queue' = IF owned[c] THEN Append(queue, [kind |-> "didCreate", of |-> c]) ELSE queue
    /\ UNCHANGED <<view, owned, ghosts>>

\* CEF fails to create a browser; OnBeforePopupAborted is not overridden.
CreationAborted(b) ==
    /\ browser[b].life = "creating"
    /\ browser' = [browser EXCEPT ![b] = Absent("closed", @.client)]
    /\ UNCHANGED <<view, browserOf, owned, queue, ghosts>>

\* Mutant: browser_ is not cleared.
OnBeforeCloseKept(b) ==
    /\ browser[b].life \in {"live", "closing"}
    /\ browser' = [browser EXCEPT ![b] = Absent("closed", @.client)]
    /\ UNCHANGED <<view, browserOf, owned, queue, ghosts>>

\* OnBeforeClose: on a view's request, or because the page closed itself.
OnBeforeClose(b) ==
    /\ browser[b].life \in {"live", "closing"}
    /\ LET c == browser[b].client
       IN  /\ browserOf' = [browserOf EXCEPT ![c] = NoBrowser]
           /\ owned' = [owned EXCEPT ![c] = FALSE]
    /\ browser' = [browser EXCEPT ![b] = Absent("closed", @.client)]
    /\ UNCHANGED <<view, queue, ghosts>>

\* The delegate answers with a fresh +popupView, as its header comment asks.
NewShell(v) ==
    /\ IsFreshView(v)
    /\ view' = [view EXCEPT ![v] = [Unborn EXCEPT !.life = "alive", !.created = TRUE]]
    /\ owned' = [owned EXCEPT ![v] = TRUE]

\* OnBeforePopup: a tab disposition goes to the delegate, whose shell becomes
\* the popup's client.  For other dispositions, or if the delegate declines,
\* CEF goes on with its defaults, and its default client is the opener's
\* (cef_life_span_handler.h:71-72).
OnBeforePopup(opener, b) ==
    /\ browser[opener].life = "live"
    /\ LET c == browser[opener].client
       IN  \/ /\ owned[c]
              /\ \E v \in Views : NewShell(v) /\ Creating(b, v, 1, FirstUrl)
              /\ UNCHANGED astray
           \/ /\ Creating(b, c, 1, FirstUrl)
              /\ astray' = astray \cup {c}
              /\ UNCHANGED <<view, owned>>
    /\ UNCHANGED <<browserOf, queue, hasty>>

\* OnOpenURLFromTab: cmd+click and middle-click, deferred to the main queue.
\* Bound: one such click at a time.
OnOpenURLFromTab(opener) ==
    /\ browser[opener].life = "live"
    /\ LET c == browser[opener].client
       IN  /\ owned[c] /\ \A v \in Views : ~Queued("openTab", v)
           /\ queue' = Append(queue, [kind |-> "openTab", of |-> c])
    /\ UNCHANGED <<view, browserOf, owned, browser, ghosts>>

-----------------------------------------------------------------------------
(***************************************************************************)
(* The blocks of the main queue; a view that is gone by then is nil.       *)
(***************************************************************************)
\* Mutant: _browserDidCreate without the layout.
DidCreateNoLayout(v) == [browser EXCEPT ![browserOf[v]].zoom = view[v].zoom]

\* _browserDidCreate: layout first, then the zoom factor.
DidCreate(v) == [browser EXCEPT ![browserOf[v]].size = view[v].size,
                                ![browserOf[v]].zoom = view[v].zoom]

BrowserDidCreate ==
    /\ queue # <<>> /\ Head(queue).kind = "didCreate"
    /\ LET v == Head(queue).of
       IN  browser' = IF Alive(v) /\ Attached(v) THEN DidCreate(v) ELSE browser
    /\ queue' = Tail(queue)
    /\ UNCHANGED <<view, browserOf, owned, ghosts>>

\* The delegate's view loads the URL, or there is none; a fresh shell has no
\* browser to load it.
OpenTab ==
    /\ queue # <<>> /\ Head(queue).kind = "openTab"
    /\ \/ \E v \in Views : NewShell(v) /\ astray' = astray \cup {v}
       \/ UNCHANGED <<view, owned, astray>>
    /\ queue' = Tail(queue)
    /\ UNCHANGED <<browserOf, browser, hasty>>

Next ==
    \/ \E v \in Views :
        \/ NewView(v) \/ ViewDidMoveToWindow(v) \/ Dealloc(v)
        \/ \E u \in Urls : Load(v, u)
        \/ \E s \in Sizes : SetFrameSize(v, s)
        \/ \E z \in Zooms : SetZoomFactor(v, z)
    \/ \E b \in Browsers :
        \/ OnAfterCreated(b) \/ CreationAborted(b) \/ OnBeforeClose(b)
        \/ OnOpenURLFromTab(b)
        \/ \E p \in Browsers : OnBeforePopup(b, p)
    \/ BrowserDidCreate \/ OpenTab

\* The main queue drains; CEF finishes a creation one way or the other, and
\* closes what it was asked to close.  Nobody has to do anything else.
Fairness ==
    /\ WF_vars(BrowserDidCreate \/ OpenTab)
    /\ \A b \in Browsers :
        /\ WF_vars(OnAfterCreated(b) \/ CreationAborted(b))
        /\ WF_vars(browser[b].life = "closing" /\ OnBeforeClose(b))

Spec == Init /\ [][Next]_vars /\ Fairness

-----------------------------------------------------------------------------
(***************************************************************************)
(* Properties.                                                             *)
(***************************************************************************)
Present(b) == browser[b].life \in {"live", "closing"}

\* What a view calls is never a browser CEF has already closed, or one that
\* reports to another view: whatever pages, popups and the host do.
NoDanglingBrowser ==
    \A v \in Views : Attached(v) => Present(browserOf[v]) /\ browser[browserOf[v]].client = v

\* However creation, window, layout and adopted popups interleave, a view never
\* gets a second browser, and its client knows the one it has: what the view
\* does reaches it, and closing one browser leaves the others alone.  Only a
\* popup left to CEF's defaults breaks this.
OneBrowserPerView ==
    \A a, b \in Browsers : browser[a].client \notin astray =>
        /\ Present(a) => browserOf[browser[a].client] = a
        /\ browser[a].life \in {"creating", "live", "closing"}
           /\ browser[b].life \in {"creating", "live", "closing"}
           /\ browser[a].client = browser[b].client
           => a = b

Settled(v) == Alive(v) /\ Attached(v) /\ ~Queued("didCreate", v)

\* What the host asked for before, during or after the browser's creation
\* reaches it, all but a load: the child view ends up at the view's bounds ("or
\* it stays pinned tiny in the bottom-left"), the zoom factor is applied, and
\* the page is the URL the view was asked for last, unless that was while its
\* browser was being created (AddressBar.swift:84 relies on "loading the typed
\* URL right after just navigates it onward").
StateReachesBrowser ==
    \A v \in Views : Settled(v) /\ v \notin astray =>
        LET b == browser[browserOf[v]]
        IN  /\ b.size = view[v].size /\ b.zoom = view[v].zoom
            /\ v \notin hasty => b.url = view[v].url

\* A view that asked for a browser, or was made for a page's popup, gets it,
\* unless CEF gave the creation up or the host drops the view: "CEF will then
\* create the popup browser INSIDE the returned view" (ChromiumViewObjC.h:109).
\* Only the shell of a modifier click waits for ever.
TabGetsBrowser ==
    \A v \in Views :
        Alive(v) /\ view[v].created ~>
            \/ Attached(v) \/ view[v].life = "dead" \/ v \in astray
            \/ \E b \in Browsers : browser[b].life = "closed" /\ browser[b].client = v

\* Closing a view closes its browser, unless it was still being created.
DroppedViewsClose ==
    \A b \in Browsers :
        LET c == browser[b].client
        IN  view[c].life = "dead" /\ c \notin hasty \cup astray /\ Present(b)
            ~> browser[b].life = "closed"

=============================================================================
