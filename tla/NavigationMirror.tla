-------------------------- MODULE NavigationMirror --------------------------
(***************************************************************************)
(* What a ChromiumView shows of its browser: URL, isLoading and favicon,   *)
(* each a copy of CEF's that arrives through the main queue                *)
(* (ChromiumView.mm 236-267, 626-692, 1045-1050, 1390-1402), and the       *)
(* ChromiumWebViewObservable that copies the view once more.               *)
(*                                                                         *)
(* title, canGoBack and canGoForward travel exactly as isLoading does and  *)
(* are left out, and so are the delegate's calls, which change no state of *)
(* the view.  A view belongs to one tab and is dropped for good: TabRuntime*)
(* composes this module's actions with the tabs.                           *)
(***************************************************************************)
EXTENDS Naturals, Sequences

CONSTANTS
    Views,    \* bound: the views there may ever be
    Pages,    \* what can be loaded
    NoPage,   \* a nil URL; no document, no navigation under way
    MaxIcons, \* bound: the favicons that pages report in a behaviour
    MaxQueue  \* bound: CEF's events wait while so many blocks are queued

ASSUME NoPageAssumption == NoPage \notin Pages
ASSUME MaxIconsAssumption == MaxIcons \in Nat

VARIABLES
    browser,   \* CEF's side of a view: its document, navigation and icon
    web,       \* the ChromiumView
    kit,       \* its ChromiumWebViewObservable, once somebody has read it
    downloads, \* favicon downloads in flight
    reported,  \* how many favicons pages have reported, which numbers them
    queue      \* the main dispatch queue

Icons == 0 .. MaxIcons \* 0: none

NoFavicon == [icon |-> 0, image |-> 0]

\* CEFFaviconRef: the favicon it was made for and the image it has, if any.
FaviconRef == [icon : Icons, image : Icons]

\* missed (ghost): nothing tells the view the browser's URL, because the load it
\* was asked for last will not happen, or the page moved within itself since.
BrowserRecord == [life : {"none", "creating", "live", "gone"}, page : Pages \cup {NoPage},
                  next : Pages \cup {NoPage}, loading : BOOLEAN, icon : Icons, missed : BOOLEAN]
WebRecord == [life : {"unborn", "alive", "dead"}, URL : Pages \cup {NoPage},
              isLoading : BOOLEAN, favicon : FaviconRef]
KitRecord == [made : BOOLEAN, URL : Pages \cup {NoPage}, isLoading : BOOLEAN,
              favicon : FaviconRef]
Blocks == [kind : {"isLoading"}, of : Views, value : BOOLEAN]
          \cup [kind : {"loadStart"}, of : Views, url : Pages]
          \cup [kind : {"favicon"}, of : Views, icon : Icons]
          \cup [kind : {"image"}, of : Views, icon : Icons, image : Icons]

MirrorTypeOK(OtherBlocks) ==
    /\ browser \in [Views -> BrowserRecord]
    /\ web \in [Views -> WebRecord]
    /\ kit \in [Views -> KitRecord]
    /\ downloads \subseteq [of : Views, icon : Icons]
    /\ reported \in Icons
    /\ queue \in Seq(Blocks \cup OtherBlocks)

NoBrowser == [life |-> "none", page |-> NoPage, next |-> NoPage, loading |-> FALSE,
              icon |-> 0, missed |-> FALSE]
Unborn == [life |-> "unborn", URL |-> NoPage, isLoading |-> FALSE, favicon |-> NoFavicon]
Unread == [made |-> FALSE, URL |-> NoPage, isLoading |-> FALSE, favicon |-> NoFavicon]

MirrorInit ==
    /\ browser = [v \in Views |-> NoBrowser]
    /\ web = [v \in Views |-> Unborn]
    /\ kit = [v \in Views |-> Unread]
    /\ downloads = {}
    /\ reported = 0
    /\ queue = <<>>

Alive(v) == web[v].life = "alive"
Queued(v) == \E i \in DOMAIN queue : "of" \in DOMAIN queue[i] /\ queue[i].of = v
Post(block) == queue' = Append(queue, block)

-----------------------------------------------------------------------------
(***************************************************************************)
(* ChromiumWebViewObservable: the view's KVO callbacks are synchronous.    *)
(***************************************************************************)
\* Mutant: a Favicon that waits for the next image.
WrapEmpty(ref) == [ref EXCEPT !.image = 0]

\* Favicon.init seeds the image its ref has by now.
Wrap(ref) == ref

\* The observers of a view that goes from w to w2.
Republished(k, w, w2) ==
    [k EXCEPT !.URL = IF w2.URL # w.URL THEN w2.URL ELSE @,
              !.isLoading = IF w2.isLoading # w.isLoading THEN w2.isLoading ELSE @,
              !.favicon = IF w2.favicon.icon # w.favicon.icon THEN Wrap(w2.favicon)
                          ELSE IF w2.favicon.image # w.favicon.image
                          THEN [@ EXCEPT !.image = w2.favicon.image] ELSE @]

\* A view's properties change, and with them what its observable shows.
SetWeb(v, w) ==
    /\ web' = [web EXCEPT ![v] = w]
    /\ kit' = [kit EXCEPT ![v] = IF @.made THEN Republished(@, web[v], w) ELSE @]

\* ChromiumWebView.observable, read for the first time.
Observable(v) ==
    /\ Alive(v) /\ ~kit[v].made
    /\ kit' = [kit EXCEPT ![v] = [made |-> TRUE, URL |-> web[v].URL,
          isLoading |-> web[v].isLoading, favicon |-> Wrap(web[v].favicon)]]
    /\ UNCHANGED <<browser, web, downloads, reported, queue>>

-----------------------------------------------------------------------------
(***************************************************************************)
(* The host and the view.                                                  *)
(***************************************************************************)
\* A view is an object of its own each time, and which one does not matter.
UnbornViews == {v \in Views : web[v].life = "unborn"}
FreshView == CHOOSE v \in UnbornViews : TRUE

\* initWithFrame:URL:, for a tab's view and for a popup's shell.
NewWeb(v, url) ==
    /\ UnbornViews # {} /\ v = FreshView
    /\ web' = [web EXCEPT ![v] = [Unborn EXCEPT !.life = "alive", !.URL = url]]

\* _createBrowserIfReady, in a window: the browser is to load the view's URL.
CreateBrowser(v) ==
    /\ Alive(v) /\ browser[v].life = "none"
    /\ browser' = [browser EXCEPT ![v].life = "creating", ![v].next = web[v].URL]
    /\ UNCHANGED <<web, kit, downloads, reported, queue>>

\* A navigation starts, or replaces the one under way.
StartLoading(v, page) ==
    /\ browser' = [browser EXCEPT ![v].life = "live", ![v].next = page, ![v].loading = TRUE]
    /\ IF browser[v].loading THEN UNCHANGED queue
       ELSE Post([kind |-> "isLoading", of |-> v, value |-> TRUE])

\* load: -- the URL is set in every case; CEF hears of it if there is a
\* browser, and will read it if there is none yet.
Load(v, url) ==
    /\ Alive(v)
    /\ SetWeb(v, [web[v] EXCEPT !.URL = url])
    /\ CASE browser[v].life = "live" -> StartLoading(v, url)
         [] browser[v].life = "creating" ->
                browser' = [browser EXCEPT ![v].missed = TRUE] /\ UNCHANGED queue
         [] OTHER -> UNCHANGED <<browser, queue>>
    /\ UNCHANGED <<downloads, reported>>

\* The view is dropped: owner_ is nil from here on.
Release(dropped) ==
    /\ web' = [v \in Views |-> IF v \in dropped THEN [Unborn EXCEPT !.life = "dead"] ELSE web[v]]
    /\ kit' = [v \in Views |-> IF v \in dropped THEN Unread ELSE kit[v]]
    /\ browser' = [v \in Views |->
          IF v \in dropped THEN [NoBrowser EXCEPT !.life = "gone"] ELSE browser[v]]
    /\ downloads' = {d \in downloads : d.of \notin dropped}

-----------------------------------------------------------------------------
(***************************************************************************)
(* CEF: events of a browser, posted to the main queue in their order.      *)
(***************************************************************************)
Ready(v) == browser[v].life = "live" /\ Len(queue) < MaxQueue

OnAfterCreated(v) ==
    /\ browser[v].life = "creating" /\ Len(queue) < MaxQueue
    /\ StartLoading(v, browser[v].next)
    /\ UNCHANGED <<web, kit, downloads, reported>>

\* The page, or its history, navigates to another document.
FollowLink(v, page) ==
    /\ Ready(v) /\ browser[v].next = NoPage
    /\ StartLoading(v, page)
    /\ UNCHANGED <<web, kit, downloads, reported>>

\* OnLoadStart of the main frame: the navigation has committed.
OnLoadStart(v) ==
    /\ Ready(v) /\ browser[v].next # NoPage
    /\ browser' = [browser EXCEPT ![v].page = browser[v].next, ![v].next = NoPage,
                                  ![v].icon = 0, ![v].missed = FALSE]
    /\ Post([kind |-> "loadStart", of |-> v, url |-> browser[v].next])
    /\ UNCHANGED <<web, kit, downloads, reported>>

\* The page or its history navigates within the document (a fragment, pushState):
\* CEF calls no OnLoadStart, and the view has no OnAddressChange.
SamePageNavigation(v, page) ==
    /\ browser[v].life = "live" /\ browser[v].page # NoPage
    /\ browser' = [browser EXCEPT ![v].page = page, ![v].missed = TRUE]
    /\ UNCHANGED <<web, kit, downloads, reported, queue>>

\* The navigation under way, which may be the host's, turns out to be one.
SamePageLoad(v) ==
    /\ browser[v].life = "live" /\ browser[v].page # NoPage /\ browser[v].next # NoPage
    /\ browser' = [browser EXCEPT ![v].page = browser[v].next, ![v].next = NoPage, ![v].missed = TRUE]
    /\ UNCHANGED <<web, kit, downloads, reported, queue>>

\* OnLoadingStateChange: a document is complete, or a navigation was refused
\* or failed, which OnLoadError only tells the delegate.
OnLoadingStops(v) ==
    /\ Ready(v) /\ browser[v].loading
    /\ browser' = [browser EXCEPT ![v].loading = FALSE, ![v].next = NoPage,
                                  ![v].missed = @ \/ browser[v].next # NoPage]
    /\ Post([kind |-> "isLoading", of |-> v, value |-> FALSE])
    /\ UNCHANGED <<web, kit, downloads, reported>>

\* OnFaviconURLChange: a favicon, or none any more.  (One whose URL Foundation
\* cannot parse is ignored.)
OnFaviconURLChange(v) ==
    /\ Ready(v) /\ browser[v].page # NoPage
    /\ \E icon \in {0} \cup (Icons \cap {reported + 1}) :
        /\ browser' = [browser EXCEPT ![v].icon = icon]
        /\ reported' = IF icon = 0 THEN reported ELSE icon
        /\ Post([kind |-> "favicon", of |-> v, icon |-> icon])
    /\ UNCHANGED <<web, kit, downloads>>

\* OnDownloadImageFinished, with an image or without.
OnDownloadImageFinished(d) ==
    /\ d \in downloads /\ Len(queue) < MaxQueue
    /\ downloads' = downloads \ {d}
    /\ \E image \in {0, d.icon} :
        Post([kind |-> "image", of |-> d.of, icon |-> d.icon, image |-> image])
    /\ UNCHANGED <<browser, web, kit, reported>>

-----------------------------------------------------------------------------
(***************************************************************************)
(* The blocks of the main queue; a view that is gone by then is nil.       *)
(***************************************************************************)
\* Mutants: the old page's favicon stays, and an image goes to whatever
\* favicon the view has by now.
LoadStartedKeepsIcon(w, url) == [w EXCEPT !.URL = url]
ImageForCurrent(w, b) == [w EXCEPT !.favicon.image = b.image]

\* _onLoadStartURL:
LoadStarted(w, url) == [w EXCEPT !.favicon = NoFavicon, !.URL = url]

\* The block of OnDownloadImageFinished has a weak reference to its own
\* CEFFaviconRef, which only the view keeps alive.
ImageFor(w, b) == IF w.favicon.icon = b.icon THEN [w EXCEPT !.favicon.image = b.image] ELSE w

\* The view after a block.
After(w, b) ==
    CASE b.kind = "isLoading" -> [w EXCEPT !.isLoading = b.value]
      [] b.kind = "loadStart" -> LoadStarted(w, b.url)
      [] b.kind = "favicon" -> [w EXCEPT !.favicon = [icon |-> b.icon, image |-> 0]]
      [] b.kind = "image" -> ImageFor(w, b)

\* (DownloadImage for a view that is gone has nobody to answer to.)
RunBlock ==
    /\ queue # <<>> /\ "of" \in DOMAIN Head(queue)
    /\ LET b == Head(queue)
       IN  IF Alive(b.of)
           THEN /\ SetWeb(b.of, After(web[b.of], b))
                /\ downloads' = IF b.kind = "favicon" /\ b.icon # 0
                                THEN downloads \cup {[of |-> b.of, icon |-> b.icon]}
                                ELSE downloads
           ELSE UNCHANGED <<web, kit, downloads>>
    /\ queue' = Tail(queue)
    /\ UNCHANGED <<browser, reported>>

-----------------------------------------------------------------------------
(***************************************************************************)
(* Properties of the mirror.                                               *)
(***************************************************************************)
\* Once the queue has no block of a view, the view shows its browser: the
\* loading state, the favicon of the current document and no earlier one's, and
\* the URL of the last load, unless a load was refused or came before the browser,
\* or the page has moved within its document since: that the view never hears of.
CopiesConverge ==
    \A v \in Views :
        Alive(v) /\ browser[v].life = "live" /\ ~Queued(v) =>
            /\ web[v].isLoading = browser[v].loading
            /\ web[v].favicon.icon = browser[v].icon
            /\ browser[v].next = NoPage /\ ~browser[v].missed => web[v].URL = browser[v].page

\* However late a download ends, a favicon never gets another's image
\* (ChromiumView.mm 258-260: "no race guard needed").
ImageIsItsOwn == \A v \in Views : web[v].favicon.image \in {0, web[v].favicon.icon}

\* What SwiftUI reads is what the view has, whenever it began to read: the
\* observable seeds itself and each Favicon, and follows from there.
ObservableAgrees ==
    \A v \in Views :
        Alive(v) /\ kit[v].made =>
            /\ kit[v].URL = web[v].URL
            /\ kit[v].isLoading = web[v].isLoading
            /\ kit[v].favicon = web[v].favicon

=============================================================================
