-------------------------- MODULE TabRuntimeProofs --------------------------
(***************************************************************************)
(* Theorems about TabRuntime and the NavigationMirror below it, for every  *)
(* set of tabs, views and pages and every bound: what a view, its          *)
(* observable and its record show, that a view's copies converge on its    *)
(* browser, and which views are live.                                      *)
(***************************************************************************)
EXTENDS TabRuntime, FiniteSetTheorems, WellFoundedInduction, TLAPS

-----------------------------------------------------------------------------
(***************************************************************************)
(* The mirror's invariant, by the variables it is about: the views and     *)
(* their observables, the queue, and CEF's side.                           *)
(***************************************************************************)
\* An unborn view has no observable.
KitFresh == \A v \in Views : web[v].life = "unborn" => ~kit[v].made

WebInv ==
    /\ web \in [Views -> WebRecord] /\ kit \in [Views -> KitRecord]
    /\ KitFresh /\ ImageIsItsOwn /\ ObservableAgrees

\* A download brings the image of its own favicon.
OwnImages == \A i \in DOMAIN queue : queue[i].kind = "image" => queue[i].image \in {0, queue[i].icon}

QueueInv == queue \in Seq(Blocks \cup {Reconcile}) /\ OwnImages

CefInv ==
    /\ browser \in [Views -> BrowserRecord]
    /\ downloads \subseteq [of : Views, icon : Icons]
    /\ reported \in Icons

MirrorInv == WebInv /\ QueueInv /\ CefInv

LEMMA ZeroIcon == 0 \in Icons
BY MaxIconsAssumption DEF Icons

LEMMA Fresh ==
    /\ NoFavicon \in FaviconRef
    /\ Unborn \in WebRecord /\ Unread \in KitRecord /\ NoBrowser \in BrowserRecord
    /\ [NoBrowser EXCEPT !.life = "gone"] \in BrowserRecord
    /\ [Unborn EXCEPT !.life = "dead"] \in WebRecord
    /\ \A url \in Pages \cup {NoPage} : [Unborn EXCEPT !.life = "alive", !.URL = url] \in WebRecord
BY ZeroIcon DEF NoFavicon, FaviconRef, Unborn, Unread, NoBrowser, BrowserRecord, WebRecord, KitRecord

LEMMA MirrorInitInv == MirrorInit => MirrorInv
<1> SUFFICES ASSUME MirrorInit PROVE MirrorInv
  OBVIOUS
<1>1. CefInv
  BY Fresh, ZeroIcon DEF MirrorInit, CefInv
<1>2. queue = <<>>
  BY DEF MirrorInit
<1>3. QueueInv
  BY <1>2 DEF QueueInv, OwnImages
<1>4. \A v \in Views : web[v] = Unborn /\ kit[v] = Unread
  BY DEF MirrorInit
<1>5. WebInv
  BY <1>4, Fresh DEF MirrorInit, WebInv, KitFresh, ImageIsItsOwn, ObservableAgrees, Unborn, Unread,
                     NoFavicon, Alive
<1> QED
  BY <1>1, <1>3, <1>5 DEF MirrorInv

\* An observable that agrees with its view follows it.
LEMMA Follows ==
    ASSUME NEW k \in KitRecord, NEW w \in WebRecord, NEW w2 \in WebRecord
    PROVE  /\ Republished(k, w, w2) \in KitRecord
           /\ Republished(k, w, w2).made = k.made
           /\ k.URL = w.URL => Republished(k, w, w2).URL = w2.URL
           /\ k.isLoading = w.isLoading => Republished(k, w, w2).isLoading = w2.isLoading
           /\ k.favicon = w.favicon => Republished(k, w, w2).favicon = w2.favicon
<1> DEFINE url == IF w2.URL # w.URL THEN w2.URL ELSE k.URL
           loading == IF w2.isLoading # w.isLoading THEN w2.isLoading ELSE k.isLoading
           favicon == IF w2.favicon.icon # w.favicon.icon THEN w2.favicon
                      ELSE IF w2.favicon.image # w.favicon.image
                      THEN [k.favicon EXCEPT !.image = w2.favicon.image] ELSE k.favicon
<1>1. /\ url \in Pages \cup {NoPage} /\ loading \in BOOLEAN
      /\ k.URL = w.URL => url = w2.URL
      /\ k.isLoading = w.isLoading => loading = w2.isLoading
  BY DEF KitRecord, WebRecord
<1>2. favicon \in FaviconRef /\ (k.favicon = w.favicon => favicon = w2.favicon)
  <2>1. k.favicon \in FaviconRef /\ w.favicon \in FaviconRef /\ w2.favicon \in FaviconRef
    BY DEF KitRecord, WebRecord
  <2>2. \A f, g \in FaviconRef : f.icon = g.icon /\ f.image = g.image => f = g
    BY DEF FaviconRef
  <2>3. CASE w2.favicon.icon # w.favicon.icon
    <3>1. favicon = w2.favicon
      BY <2>3
    <3> HIDE DEF favicon
    <3> QED
      BY <2>1, <3>1
  <2>4. CASE w2.favicon.icon = w.favicon.icon /\ w2.favicon.image # w.favicon.image
    <3> DEFINE f == [k.favicon EXCEPT !.image = w2.favicon.image]
    <3>1. f \in FaviconRef /\ f.icon = k.favicon.icon /\ f.image = w2.favicon.image
      BY <2>1 DEF FaviconRef
    <3>2. favicon = f
      BY <2>4
    <3> HIDE DEF f, favicon
    <3> QED
      BY <2>1, <2>2, <2>4, <3>1, <3>2
  <2>5. CASE w2.favicon.icon = w.favicon.icon /\ w2.favicon.image = w.favicon.image
    <3>1. favicon = k.favicon
      BY <2>5
    <3> HIDE DEF favicon
    <3> QED
      BY <2>1, <2>2, <2>5, <3>1
  <2> QED
    BY <2>3, <2>4, <2>5
<1>3. Republished(k, w, w2) = [k EXCEPT !.URL = url, !.isLoading = loading, !.favicon = favicon]
  BY DEF Republished, Wrap
<1> HIDE DEF url, loading, favicon
<1> QED
  BY <1>1, <1>2, <1>3 DEF KitRecord

LEMMA SetWebInv ==
    ASSUME WebInv, NEW v, NEW w \in WebRecord, SetWeb(v, w), v \in Views => w.life = web[v].life,
           w.favicon.image \in {0, w.favicon.icon}
    PROVE  WebInv'
<1>1. CASE v \notin Views
  <2>1. web' = web /\ kit' = kit
    BY <1>1 DEF SetWeb, WebInv
  <2> QED
    BY <2>1 DEF WebInv, KitFresh, ImageIsItsOwn, ObservableAgrees, Alive
<1>2. CASE v \in Views
  <2> DEFINE k == IF kit[v].made THEN Republished(kit[v], web[v], w) ELSE kit[v]
  <2>1. web' = [web EXCEPT ![v] = w] /\ kit' = [kit EXCEPT ![v] = k]
    BY DEF SetWeb
  <2>2. kit[v] \in KitRecord /\ web[v] \in WebRecord
    BY <1>2 DEF WebInv
  <2>3. /\ k \in KitRecord /\ k.made = kit[v].made
        /\ Alive(v) /\ k.made => k.URL = w.URL /\ k.isLoading = w.isLoading /\ k.favicon = w.favicon
    <3>1. CASE kit[v].made
      BY <1>2, <2>2, <3>1, Follows DEF WebInv, ObservableAgrees
    <3>2. CASE ~kit[v].made
      BY <2>2, <3>2
    <3> QED
      BY <3>1, <3>2
  <2> HIDE DEF k
  <2>4. /\ web' \in [Views -> WebRecord] /\ kit' \in [Views -> KitRecord]
        /\ web'[v] = w /\ kit'[v] = k
        /\ \A u \in Views : u # v => web'[u] = web[u] /\ kit'[u] = kit[u]
    BY <1>2, <2>1, <2>3 DEF WebInv
  <2>5. KitFresh'
    BY <1>2, <2>3, <2>4 DEF WebInv, KitFresh
  <2>6. ImageIsItsOwn'
    BY <2>4 DEF WebInv, ImageIsItsOwn
  <2>7. ObservableAgrees'
    BY <1>2, <2>3, <2>4 DEF WebInv, ObservableAgrees, Alive
  <2> QED
    BY <2>4, <2>5, <2>6, <2>7 DEF WebInv
<1> QED
  BY <1>1, <1>2

\* A new view has neither an observable nor a favicon.
LEMMA NewWebInv ==
    ASSUME WebInv, NEW v, NEW url \in Pages \cup {NoPage}, NewWeb(v, url), UNCHANGED kit
    PROVE  /\ WebInv'
           /\ v \in Views /\ web[v].life = "unborn" /\ web'[v].life = "alive" /\ web'[v].URL = url
           /\ web'[v].favicon = NoFavicon
           /\ \A u \in Views : u # v => web'[u] = web[u]
<1> DEFINE w == [Unborn EXCEPT !.life = "alive", !.URL = url]
<1>1. v \in Views /\ web[v].life = "unborn"
  BY DEF NewWeb, FreshView, UnbornViews
<1>2. web' = [web EXCEPT ![v] = w]
  BY DEF NewWeb
<1>3. w \in WebRecord /\ w.life = "alive" /\ w.URL = url /\ w.favicon = NoFavicon
  BY Fresh DEF Unborn
<1> HIDE DEF w
<1>4. /\ web' \in [Views -> WebRecord] /\ web'[v] = w
      /\ \A u \in Views : u # v => web'[u] = web[u]
  BY <1>1, <1>2, <1>3 DEF WebInv
<1>5. ~kit[v].made
  BY <1>1 DEF WebInv, KitFresh
<1>6. KitFresh' /\ ImageIsItsOwn' /\ ObservableAgrees'
  BY <1>3, <1>4, <1>5 DEF WebInv, KitFresh, ImageIsItsOwn, ObservableAgrees, Alive, NoFavicon
<1> QED
  BY <1>1, <1>3, <1>4, <1>6 DEF WebInv

\* An observable begins with what the view has.
LEMMA ObservableInv ==
    ASSUME WebInv, NEW v \in Views, Observable(v)
    PROVE  WebInv'
<1> DEFINE k == [made |-> TRUE, URL |-> web[v].URL, isLoading |-> web[v].isLoading,
                 favicon |-> Wrap(web[v].favicon)]
<1>1. web' = web /\ kit' = [kit EXCEPT ![v] = k] /\ web[v].life = "alive"
  BY DEF Observable, Alive
<1>2. /\ k \in KitRecord /\ k.URL = web[v].URL /\ k.isLoading = web[v].isLoading
      /\ k.favicon = web[v].favicon
  BY DEF WebInv, WebRecord, KitRecord, Wrap
<1> HIDE DEF k
<1>3. kit' \in [Views -> KitRecord] /\ kit'[v] = k /\ \A u \in Views : u # v => kit'[u] = kit[u]
  BY <1>1, <1>2 DEF WebInv
<1> QED
  BY <1>1, <1>2, <1>3 DEF WebInv, KitFresh, ImageIsItsOwn, ObservableAgrees, Alive

\* A view that is dropped takes its observable with it.
LEMMA ReleaseInv ==
    ASSUME WebInv, CefInv, NEW dropped, Release(dropped), UNCHANGED reported
    PROVE  WebInv' /\ CefInv'
<1>1. /\ web' \in [Views -> WebRecord] /\ kit' \in [Views -> KitRecord]
      /\ browser' \in [Views -> BrowserRecord]
  BY Fresh DEF Release, WebInv, CefInv
<1>2. \A v \in Views :
          /\ v \in dropped => web'[v] = [Unborn EXCEPT !.life = "dead"] /\ kit'[v] = Unread
          /\ v \notin dropped => web'[v] = web[v] /\ kit'[v] = kit[v]
  BY DEF Release
<1>3. KitFresh' /\ ImageIsItsOwn' /\ ObservableAgrees'
  BY <1>2 DEF WebInv, KitFresh, ImageIsItsOwn, ObservableAgrees, Alive, Unborn, Unread, NoFavicon
<1> QED
  BY <1>1, <1>3 DEF WebInv, CefInv, Release

-----------------------------------------------------------------------------
(***************************************************************************)
(* The queue, and CEF.                                                     *)
(***************************************************************************)
LEMMA PostInv ==
    ASSUME QueueInv, NEW b \in Blocks \cup {Reconcile}, b.kind = "image" => b.image \in {0, b.icon},
           queue' = Append(queue, b)
    PROVE  QueueInv' /\ (ReconcilePending => ReconcilePending')
<1>1. /\ queue' \in Seq(Blocks \cup {Reconcile}) /\ DOMAIN queue' = 1..(Len(queue) + 1)
      /\ DOMAIN queue = 1..Len(queue) /\ Len(queue) \in Nat
      /\ \A i \in 1..Len(queue) : queue'[i] = queue[i]
      /\ queue'[Len(queue) + 1] = b
  BY DEF QueueInv
<1> QED
  BY <1>1 DEF QueueInv, OwnImages, ReconcilePending

LEMMA TailInv ==
    ASSUME QueueInv, queue # <<>>, queue' = Tail(queue)
    PROVE  /\ QueueInv'
           /\ Head(queue) \in Blocks \cup {Reconcile}
           /\ Head(queue).kind = "image" => Head(queue).image \in {0, Head(queue).icon}
           /\ Head(queue) # Reconcile => (ReconcilePending => ReconcilePending')
<1>1. /\ queue' \in Seq(Blocks \cup {Reconcile}) /\ DOMAIN queue' = 1..(Len(queue) - 1)
      /\ DOMAIN queue = 1..Len(queue) /\ Len(queue) \in Nat /\ Len(queue) > 0
      /\ \A i \in 1..(Len(queue) - 1) : queue'[i] = queue[i + 1]
      /\ Head(queue) = queue[1] /\ Head(queue) \in Blocks \cup {Reconcile}
  BY DEF QueueInv
<1>2. OwnImages'
  BY <1>1 DEF QueueInv, OwnImages
<1>3. Head(queue).kind = "image" => Head(queue).image \in {0, Head(queue).icon}
  BY <1>1 DEF QueueInv, OwnImages
<1>4. ASSUME Head(queue) # Reconcile, ReconcilePending PROVE ReconcilePending'
  <2>1. PICK i \in 1..Len(queue) : queue[i] = Reconcile
    BY <1>1, <1>4 DEF ReconcilePending
  <2>2. i - 1 \in 1..(Len(queue) - 1) /\ queue'[i - 1] = Reconcile
    BY <1>1, <1>4, <2>1
  <2> QED
    BY <1>1, <2>2 DEF ReconcilePending
<1> QED
  BY <1>1, <1>2, <1>3, <1>4 DEF QueueInv

\* The blocks CEF posts.
LEMMA BlockTypes ==
    ASSUME NEW v \in Views
    PROVE  /\ \A b \in BOOLEAN : /\ [kind |-> "isLoading", of |-> v, value |-> b] \in Blocks
                                 /\ [kind |-> "isLoading", of |-> v, value |-> b].kind # "image"
           /\ \A p \in Pages : /\ [kind |-> "loadStart", of |-> v, url |-> p] \in Blocks
                               /\ [kind |-> "loadStart", of |-> v, url |-> p].kind # "image"
           /\ \A n \in Icons : /\ [kind |-> "favicon", of |-> v, icon |-> n] \in Blocks
                               /\ [kind |-> "favicon", of |-> v, icon |-> n].kind # "image"
           /\ \A m, n \in Icons : [kind |-> "image", of |-> v, icon |-> m, image |-> n] \in Blocks
BY DEF Blocks

LEMMA StartLoadingInv ==
    ASSUME QueueInv, CefInv, NEW v, NEW page \in Pages \cup {NoPage}, StartLoading(v, page),
           v \in Views, UNCHANGED <<downloads, reported>>
    PROVE  QueueInv' /\ CefInv' /\ (ReconcilePending => ReconcilePending')
<1> DEFINE r == [browser[v] EXCEPT !.life = "live", !.next = page, !.loading = TRUE]
<1>1. browser' \in [Views -> BrowserRecord]
  <2>1. r \in BrowserRecord
    BY DEF CefInv, BrowserRecord
  <2>2. browser' = [browser EXCEPT ![v] = r]
    BY DEF StartLoading, CefInv
  <2> HIDE DEF r
  <2> QED
    BY <2>1, <2>2 DEF CefInv
<1>2. QueueInv' /\ (ReconcilePending => ReconcilePending')
  <2>1. CASE browser[v].loading
    BY <2>1 DEF StartLoading, QueueInv, OwnImages, ReconcilePending
  <2>2. CASE ~browser[v].loading
    <3>1. queue' = Append(queue, [kind |-> "isLoading", of |-> v, value |-> TRUE])
      BY <2>2 DEF StartLoading, Post
    <3> QED
      BY <3>1, PostInv, BlockTypes
  <2> QED
    BY <2>1, <2>2
<1> QED
  BY <1>1, <1>2 DEF CefInv

\* What a page that moves within its document does to its browser.
LEMMA MovedWithin ==
    ASSUME browser \in [Views -> BrowserRecord], NEW v \in Views,
           SamePageLoad(v) \/ \E p \in Pages : SamePageNavigation(v, p)
    PROVE  \E r \in BrowserRecord :
               /\ browser' = [browser EXCEPT ![v] = r]
               /\ r.life = "live" /\ browser[v].life = "live" /\ r.missed
               /\ r.loading = browser[v].loading /\ r.icon = browser[v].icon
<1>1. ASSUME SamePageLoad(v)
      PROVE  \E r \in BrowserRecord :
                 /\ browser' = [browser EXCEPT ![v] = r]
                 /\ r.life = "live" /\ browser[v].life = "live" /\ r.missed
                 /\ r.loading = browser[v].loading /\ r.icon = browser[v].icon
  <2> DEFINE r == [browser[v] EXCEPT !.page = browser[v].next, !.next = NoPage, !.missed = TRUE]
  <2>1. browser' = [browser EXCEPT ![v] = r] /\ browser[v].life = "live"
    BY <1>1 DEF SamePageLoad
  <2>2. /\ r \in BrowserRecord /\ r.life = browser[v].life /\ r.missed
        /\ r.loading = browser[v].loading /\ r.icon = browser[v].icon
    BY DEF BrowserRecord
  <2> HIDE DEF r
  <2> QED
    BY <2>1, <2>2
<1>2. ASSUME NEW p \in Pages, SamePageNavigation(v, p)
      PROVE  \E r \in BrowserRecord :
                 /\ browser' = [browser EXCEPT ![v] = r]
                 /\ r.life = "live" /\ browser[v].life = "live" /\ r.missed
                 /\ r.loading = browser[v].loading /\ r.icon = browser[v].icon
  <2> DEFINE r == [browser[v] EXCEPT !.page = p, !.missed = TRUE]
  <2>1. browser' = [browser EXCEPT ![v] = r] /\ browser[v].life = "live"
    BY <1>2 DEF SamePageNavigation
  <2>2. /\ r \in BrowserRecord /\ r.life = browser[v].life /\ r.missed
        /\ r.loading = browser[v].loading /\ r.icon = browser[v].icon
    BY DEF BrowserRecord
  <2> HIDE DEF r
  <2> QED
    BY <2>1, <2>2
<1> QED
  BY <1>1, <1>2

\* What CEF reports changes neither the views nor the tabs' Task.
LEMMA CefMirror ==
    ASSUME QueueInv, CefInv, Cef
    PROVE  QueueInv' /\ CefInv' /\ UNCHANGED <<web, kit>> /\ (ReconcilePending => ReconcilePending')
<1>1. ASSUME NEW v \in Views, OnAfterCreated(v)
      PROVE  QueueInv' /\ CefInv' /\ UNCHANGED <<web, kit>> /\ (ReconcilePending => ReconcilePending')
  <2>1. PICK page \in Pages \cup {NoPage} : page = browser[v].next
    BY DEF CefInv, BrowserRecord
  <2> QED
    BY <1>1, <2>1, StartLoadingInv DEF OnAfterCreated
<1>2. ASSUME NEW v \in Views, NEW p \in Pages, FollowLink(v, p)
      PROVE  QueueInv' /\ CefInv' /\ UNCHANGED <<web, kit>> /\ (ReconcilePending => ReconcilePending')
  BY <1>2, StartLoadingInv DEF FollowLink
<1>3. ASSUME NEW v \in Views, OnLoadStart(v)
      PROVE  QueueInv' /\ CefInv' /\ UNCHANGED <<web, kit>> /\ (ReconcilePending => ReconcilePending')
  <2> DEFINE r == [browser[v] EXCEPT !.page = browser[v].next, !.next = NoPage, !.icon = 0,
                                     !.missed = FALSE]
  <2>1. PICK p \in Pages : p = browser[v].next
    BY <1>3 DEF OnLoadStart, CefInv, BrowserRecord
  <2>2. r \in BrowserRecord
    BY ZeroIcon DEF CefInv, BrowserRecord
  <2>3. browser' = [browser EXCEPT ![v] = r]
    BY <1>3 DEF OnLoadStart, CefInv
  <2>4. queue' = Append(queue, [kind |-> "loadStart", of |-> v, url |-> p])
    BY <1>3, <2>1 DEF OnLoadStart, Post
  <2> HIDE DEF r
  <2>5. QueueInv' /\ (ReconcilePending => ReconcilePending')
    BY <2>4, PostInv, BlockTypes
  <2>6. UNCHANGED <<web, kit, downloads, reported>>
    BY <1>3 DEF OnLoadStart
  <2> QED
    BY <2>2, <2>3, <2>5, <2>6 DEF CefInv
<1>4. ASSUME NEW v \in Views, OnLoadingStops(v)
      PROVE  QueueInv' /\ CefInv' /\ UNCHANGED <<web, kit>> /\ (ReconcilePending => ReconcilePending')
  <2> DEFINE missed == browser[v].missed \/ browser[v].next # NoPage
             r == [browser[v] EXCEPT !.loading = FALSE, !.next = NoPage, !.missed = missed]
  <2>1. missed \in BOOLEAN
    OBVIOUS
  <2>2. browser' = [browser EXCEPT ![v] = r]
    BY <1>4 DEF OnLoadingStops, CefInv
  <2> HIDE DEF missed
  <2>3. r \in BrowserRecord
    BY <2>1 DEF CefInv, BrowserRecord
  <2>4. queue' = Append(queue, [kind |-> "isLoading", of |-> v, value |-> FALSE])
    BY <1>4 DEF OnLoadingStops, Post
  <2> HIDE DEF r
  <2>5. QueueInv' /\ (ReconcilePending => ReconcilePending')
    BY <2>4, PostInv, BlockTypes
  <2> QED
    BY <1>4, <2>2, <2>3, <2>5, ZenonT(60) DEF OnLoadingStops, CefInv
<1>5. ASSUME NEW v \in Views, OnFaviconURLChange(v)
      PROVE  QueueInv' /\ CefInv' /\ UNCHANGED <<web, kit>> /\ (ReconcilePending => ReconcilePending')
  <2>1. PICK icon \in {0} \cup (Icons \cap {reported + 1}) :
            /\ browser' = [browser EXCEPT ![v].icon = icon]
            /\ reported' = IF icon = 0 THEN reported ELSE icon
            /\ queue' = Append(queue, [kind |-> "favicon", of |-> v, icon |-> icon])
    BY <1>5 DEF OnFaviconURLChange, Post
  <2>2. icon \in Icons
    BY ZeroIcon
  <2>3. [browser[v] EXCEPT !.icon = icon] \in BrowserRecord
    BY <2>2 DEF CefInv, BrowserRecord
  <2>4. QueueInv' /\ (ReconcilePending => ReconcilePending')
    BY <2>1, <2>2, PostInv, BlockTypes
  <2> QED
    BY <1>5, <2>1, <2>2, <2>3, <2>4 DEF OnFaviconURLChange, CefInv
<1>6. ASSUME NEW d \in downloads, OnDownloadImageFinished(d)
      PROVE  QueueInv' /\ CefInv' /\ UNCHANGED <<web, kit>> /\ (ReconcilePending => ReconcilePending')
  <2>1. d.of \in Views /\ d.icon \in Icons
    BY DEF CefInv
  <2>2. PICK image \in {0, d.icon} :
            queue' = Append(queue, [kind |-> "image", of |-> d.of, icon |-> d.icon, image |-> image])
    BY <1>6 DEF OnDownloadImageFinished, Post
  <2> DEFINE b == [kind |-> "image", of |-> d.of, icon |-> d.icon, image |-> image]
  <2>3. b \in Blocks /\ b.image \in {0, b.icon}
    BY <2>1, ZeroIcon, BlockTypes
  <2> HIDE DEF b
  <2>4. QueueInv' /\ (ReconcilePending => ReconcilePending')
    BY <2>2, <2>3, PostInv DEF b
  <2> QED
    BY <1>6, <2>4 DEF OnDownloadImageFinished, CefInv
<1>7. ASSUME NEW v \in Views, \/ SamePageLoad(v) \/ \E p \in Pages : SamePageNavigation(v, p)
      PROVE  QueueInv' /\ CefInv' /\ UNCHANGED <<web, kit>> /\ (ReconcilePending => ReconcilePending')
  <2>1. PICK r \in BrowserRecord : browser' = [browser EXCEPT ![v] = r]
    BY <1>7, MovedWithin DEF CefInv
  <2>2. UNCHANGED <<web, kit, downloads, reported, queue>>
    BY <1>7 DEF SamePageLoad, SamePageNavigation
  <2>3. QueueInv' /\ (ReconcilePending => ReconcilePending')
    BY <2>2 DEF QueueInv, OwnImages, ReconcilePending
  <2> QED
    BY <2>1, <2>2, <2>3 DEF CefInv
<1> QED
  BY <1>1, <1>2, <1>3, <1>4, <1>5, <1>6, <1>7 DEF Cef

\* What a block makes of a view.
LEMMA AfterBlock ==
    ASSUME NEW w \in WebRecord, w.favicon.image \in {0, w.favicon.icon},
           NEW b \in Blocks, b.kind = "image" => b.image \in {0, b.icon}
    PROVE  /\ After(w, b) \in WebRecord /\ After(w, b).life = w.life
           /\ After(w, b).favicon.image \in {0, After(w, b).favicon.icon}
           /\ After(w, b).URL = w.URL \/ After(w, b).URL \in Pages
<1>1. CASE b \in [kind : {"isLoading"}, of : Views, value : BOOLEAN]
  <2>1. After(w, b) = [w EXCEPT !.isLoading = b.value]
    BY <1>1 DEF After
  <2> QED
    BY <1>1, <2>1 DEF WebRecord
<1>2. CASE b \in [kind : {"loadStart"}, of : Views, url : Pages]
  <2>1. After(w, b) = [w EXCEPT !.favicon = NoFavicon, !.URL = b.url]
    BY <1>2 DEF After, LoadStarted
  <2>2. NoFavicon \in FaviconRef /\ NoFavicon.image = 0
    BY Fresh DEF NoFavicon
  <2> QED
    BY <1>2, <2>1, <2>2 DEF WebRecord
<1>3. CASE b \in [kind : {"favicon"}, of : Views, icon : Icons]
  <2> DEFINE f == [icon |-> b.icon, image |-> 0]
  <2>1. After(w, b) = [w EXCEPT !.favicon = f]
    BY <1>3 DEF After
  <2>2. f \in FaviconRef /\ f.image = 0
    BY <1>3, ZeroIcon DEF FaviconRef
  <2> HIDE DEF f
  <2> QED
    BY <2>1, <2>2 DEF WebRecord
<1>4. CASE b \in [kind : {"image"}, of : Views, icon : Icons, image : Icons]
  <2>1. After(w, b) = ImageFor(w, b)
    BY <1>4 DEF After
  <2>2. CASE w.favicon.icon = b.icon
    <3> DEFINE f == [w.favicon EXCEPT !.image = b.image]
    <3>1. ImageFor(w, b) = [w EXCEPT !.favicon = f]
      BY <2>2 DEF ImageFor, WebRecord
    <3>2. f \in FaviconRef /\ f.image = b.image /\ f.icon = b.icon
      BY <1>4, <2>2 DEF WebRecord, FaviconRef
    <3> HIDE DEF f
    <3> QED
      BY <1>4, <2>1, <3>1, <3>2 DEF WebRecord
  <2>3. CASE w.favicon.icon # b.icon
    BY <2>1, <2>3 DEF ImageFor
  <2> QED
    BY <2>2, <2>3
<1> QED
  BY <1>1, <1>2, <1>3, <1>4 DEF Blocks

\* How the views change while the tabs do not.
Moved == \A v \in Views : web'[v].life = web[v].life /\ (web'[v].URL = web[v].URL \/ web'[v].URL \in Pages)

LEMMA RunBlockMirror ==
    ASSUME MirrorInv, RunBlock
    PROVE  MirrorInv' /\ Moved /\ (ReconcilePending => ReconcilePending')
<1> DEFINE b == Head(queue)
<1>1. /\ QueueInv' /\ b \in Blocks \cup {Reconcile}
      /\ b.kind = "image" => b.image \in {0, b.icon}
      /\ b # Reconcile => (ReconcilePending => ReconcilePending')
  BY TailInv DEF RunBlock, MirrorInv
<1>2. "of" \in DOMAIN b
  BY DEF RunBlock
<1>3. b # Reconcile
  <2>1. "of" \notin DOMAIN Reconcile
    BY DEF Reconcile
  <2> QED
    BY <1>2, <2>1
<1>4. b \in Blocks /\ b.of \in Views /\ (b.kind = "favicon" => b.icon \in Icons)
  <2>1. b \in Blocks
    BY <1>1, <1>3
  <2> QED
    BY <2>1 DEF Blocks
<1>5. browser' = browser /\ reported' = reported
  BY DEF RunBlock
<1>6. CASE Alive(b.of)
  <2>1. /\ SetWeb(b.of, After(web[b.of], b))
        /\ downloads' = IF b.kind = "favicon" /\ b.icon # 0
                        THEN downloads \cup {[of |-> b.of, icon |-> b.icon]} ELSE downloads
    BY <1>6 DEF RunBlock
  <2> DEFINE w == After(web[b.of], b)
  <2>2. /\ w \in WebRecord /\ w.life = web[b.of].life /\ w.favicon.image \in {0, w.favicon.icon}
        /\ w.URL = web[b.of].URL \/ w.URL \in Pages
    BY <1>1, <1>4, AfterBlock DEF MirrorInv, WebInv, ImageIsItsOwn
  <2> HIDE DEF w
  <2>3. WebInv'
    BY <2>1, <2>2, SetWebInv DEF MirrorInv, w
  <2>4. Moved
    BY <1>4, <2>1, <2>2 DEF SetWeb, MirrorInv, WebInv, Moved, w
  <2>5. CefInv'
    BY <1>4, <1>5, <2>1 DEF MirrorInv, CefInv
  <2> QED
    BY <1>1, <1>3, <2>3, <2>4, <2>5 DEF MirrorInv
<1>7. CASE ~Alive(b.of)
  <2>1. UNCHANGED <<web, kit, downloads>>
    BY <1>7 DEF RunBlock
  <2> QED
    BY <1>1, <1>3, <1>5, <2>1
       DEF MirrorInv, WebInv, CefInv, KitFresh, ImageIsItsOwn, ObservableAgrees, Alive, Moved
<1> QED
  BY <1>6, <1>7

\* load:
LEMMA LoadMirror ==
    ASSUME MirrorInv, NEW v \in Views, NEW url \in Pages, Load(v, url)
    PROVE  MirrorInv' /\ Moved /\ (ReconcilePending => ReconcilePending')
<1> DEFINE w == [web[v] EXCEPT !.URL = url]
<1>1. web[v] \in WebRecord /\ web[v].favicon.image \in {0, web[v].favicon.icon}
  BY DEF MirrorInv, WebInv, ImageIsItsOwn
<1>2. w \in WebRecord /\ w.life = web[v].life /\ w.favicon = web[v].favicon /\ w.URL = url
  BY <1>1 DEF WebRecord
<1>3. SetWeb(v, w) /\ UNCHANGED <<downloads, reported>>
  BY DEF Load
<1> HIDE DEF w
<1>4. WebInv'
  BY <1>1, <1>2, <1>3, SetWebInv DEF MirrorInv
<1>5. Moved
  BY <1>2, <1>3 DEF SetWeb, MirrorInv, WebInv, Moved
<1>6. CASE browser[v].life = "live"
  <2>1. StartLoading(v, url)
    BY <1>6 DEF Load
  <2> QED
    BY <1>3, <1>4, <1>5, <2>1, StartLoadingInv DEF MirrorInv
<1>7. CASE browser[v].life # "live"
  <2>1. queue' = queue /\ (browser' = browser \/ browser' = [browser EXCEPT ![v].missed = TRUE])
    BY <1>7 DEF Load
  <2>2. CefInv'
    <3>1. [browser[v] EXCEPT !.missed = TRUE] \in BrowserRecord
      BY DEF MirrorInv, CefInv, BrowserRecord
    <3> QED
      BY <1>3, <2>1, <3>1 DEF MirrorInv, CefInv
  <2> QED
    BY <1>4, <1>5, <2>1, <2>2 DEF MirrorInv, QueueInv, OwnImages, ReconcilePending
<1> QED
  BY <1>6, <1>7

LEMMA CreateBrowserMirror ==
    ASSUME MirrorInv, NEW v \in Views, CreateBrowser(v)
    PROVE  MirrorInv' /\ Moved /\ (ReconcilePending => ReconcilePending')
<1>1. UNCHANGED <<web, kit, downloads, reported, queue>>
  BY DEF CreateBrowser
<1>2. CefInv'
  <2> DEFINE r == [browser[v] EXCEPT !.life = "creating", !.next = web[v].URL]
  <2>1. r \in BrowserRecord
    BY DEF MirrorInv, WebInv, CefInv, WebRecord, BrowserRecord
  <2>2. browser' = [browser EXCEPT ![v] = r]
    BY DEF CreateBrowser, MirrorInv, CefInv
  <2> HIDE DEF r
  <2> QED
    BY <1>1, <2>1, <2>2 DEF MirrorInv, CefInv
<1> QED
  BY <1>1, <1>2 DEF MirrorInv, WebInv, KitFresh, ImageIsItsOwn, ObservableAgrees, Alive,
                    QueueInv, OwnImages, ReconcilePending, Moved

-----------------------------------------------------------------------------
(***************************************************************************)
(* The tabs' invariant.                                                    *)
(***************************************************************************)
\* A tab that is not used yet is nowhere.
UnusedIsNowhere ==
    \A t \in Tabs : record[t].state = "unused" => ~Awake(t) /\ t \notin tabs /\ t # selected /\ t # shown

LiveIsBorn == \A t \in Tabs : Awake(t) => web[live[t]].life # "unborn"

\* While the tracking is armed, live views and selection are the session's;
\* once it has fired, the reaction is on the queue.
Tracked ==
    /\ ~tracking => ReconcilePending
    /\ tracking => /\ \A t \in Tabs : Awake(t) => InSession(t)
                   /\ selected # NoTab => InSession(selected)

\* What has been shown is awake, selected or not.
ShownIsAwake == shown # NoTab /\ InSession(shown) => Awake(shown) \/ shown \in slept

TabTypes ==
    /\ record \in [Tabs -> TabRecord]
    /\ tabs \subseteq Tabs /\ selected \in Tabs \cup {NoTab} /\ shown \in Tabs \cup {NoTab}
    /\ live \in [Tabs -> Views \cup {NoView}]
    /\ tracking \in BOOLEAN /\ slept \subseteq Tabs

TabInv == TabTypes /\ UnusedIsNowhere /\ LiveIsBorn /\ Tracked /\ ShownIsAwake /\ RecordKeepsUp

IInv == MirrorInv /\ TabInv /\ moves \in 0 .. MaxMoves

LEMMA Implied == IInv => TypeOK /\ ImageIsItsOwn /\ ObservableAgrees /\ RecordKeepsUp /\ NothingLeaks
                         /\ SelectedIsAwake
BY DEF IInv, MirrorInv, WebInv, QueueInv, CefInv, TabInv, TabTypes, TypeOK, MirrorTypeOK, Tracked,
       NothingLeaks, ShownIsAwake, SelectedIsAwake

LEMMA InitIInv == Init => IInv
<1> SUFFICES ASSUME Init PROVE IInv
  OBVIOUS
<1> DEFINE seed == CHOOSE t \in Tabs : TRUE
           r(t) == [Opened(FirstPage, 0) EXCEPT !.state = IF t = seed THEN "open" ELSE "unused"]
<1>1. MirrorInv
  BY MirrorInitInv DEF Init
<1>2. seed \in Tabs
  BY TabsAssumption
<1>3. /\ record = [t \in Tabs |-> r(t)] /\ tabs = {seed} /\ selected = seed /\ shown = NoTab
      /\ live = [t \in Tabs |-> NoView] /\ tracking = TRUE /\ slept = {} /\ moves = 0
  BY DEF Init
<1>4. \A t \in Tabs : r(t) \in TabRecord /\ (r(t).state = "unused" => t # seed)
  BY FirstPageAssumption, ZeroIcon DEF Opened, TabRecord
<1> HIDE DEF seed, r
<1>5. TabTypes
  BY <1>2, <1>3, <1>4 DEF TabTypes
<1>6. \A t \in Tabs : ~Awake(t)
  BY <1>3 DEF Awake
<1>7. UnusedIsNowhere
  BY <1>3, <1>4, <1>6, NoTabAssumption DEF UnusedIsNowhere
<1>8. LiveIsBorn /\ Tracked /\ ShownIsAwake /\ RecordKeepsUp
  BY <1>3, <1>6 DEF LiveIsBorn, Tracked, InSession, ShownIsAwake, RecordKeepsUp
<1> QED
  BY <1>1, <1>3, <1>5, <1>7, <1>8, MaxMovesAssumption DEF IInv, TabInv

\* The records follow the views.
LEMMA SyncInv ==
    ASSUME MirrorInv, MirrorInv', TabInv, Moved, Sync, ReconcilePending => ReconcilePending'
    PROVE  TabInv'
<1> DEFINE r(t) == IF Awake(t) THEN Observed(record[t], web[live[t]], web'[live[t]]) ELSE record[t]
<1>1. /\ record' = [t \in Tabs |-> r(t)]
      /\ UNCHANGED <<tabs, selected, live, tracking, shown, slept>>
  BY DEF Sync
<1>2. ASSUME NEW t \in Tabs
      PROVE  /\ r(t) \in TabRecord /\ r(t).state = record[t].state
             /\ Awake(t) /\ web'[live[t]].URL # NoPage => r(t).url = web'[live[t]].URL
             /\ Awake(t) /\ web'[live[t]].favicon.icon # 0 => r(t).icon = web'[live[t]].favicon.image
  <2>1. record[t] \in TabRecord
    BY DEF TabInv, TabTypes
  <2>2. CASE ~Awake(t)
    BY <2>1, <2>2
  <2>3. CASE Awake(t)
    <3> DEFINE w == web[live[t]]
               w2 == web'[live[t]]
               url == IF w2.URL # w.URL THEN w2.URL ELSE record[t].url
               icon == IF w2.favicon # w.favicon /\ w2.favicon.icon # 0
                       THEN w2.favicon.image ELSE record[t].icon
    <3>1. live[t] \in Views
      BY <2>3 DEF TabInv, TabTypes, Awake
    <3>2. /\ w \in WebRecord /\ w2 \in WebRecord /\ (w2.URL = w.URL \/ w2.URL \in Pages)
          /\ w.URL # NoPage => record[t].url = w.URL
          /\ w.favicon.icon # 0 => record[t].icon = w.favicon.image
      BY <2>3, <3>1 DEF MirrorInv, WebInv, Moved, TabInv, RecordKeepsUp
    <3>3. r(t) = [record[t] EXCEPT !.url = url, !.icon = icon]
      BY <2>3 DEF Observed
    <3> HIDE DEF w, w2, r
    <3>4. /\ url \in Pages /\ icon \in Icons
          /\ w2.URL # NoPage => url = w2.URL
          /\ w2.favicon.icon # 0 => icon = w2.favicon.image
      BY <2>1, <3>2 DEF TabRecord, WebRecord, FaviconRef
    <3> HIDE DEF url, icon
    <3> QED
      BY <2>1, <3>3, <3>4 DEF TabRecord, w2
  <2> QED
    BY <2>2, <2>3
<1> HIDE DEF r
<1>3. TabTypes'
  BY <1>1, <1>2 DEF TabInv, TabTypes
<1>4. UnusedIsNowhere'
  BY <1>1, <1>2 DEF TabInv, UnusedIsNowhere, Awake
<1>5. LiveIsBorn'
  <2> SUFFICES ASSUME NEW t \in Tabs, Awake(t)' PROVE web'[live[t]].life # "unborn"
    BY <1>1 DEF LiveIsBorn
  <2>1. Awake(t) /\ live[t] \in Views
    BY <1>1 DEF Awake, TabInv, TabTypes
  <2> QED
    BY <2>1 DEF Moved, TabInv, LiveIsBorn
<1>6. Tracked' /\ ShownIsAwake'
  BY <1>1 DEF TabInv, Tracked, ShownIsAwake, Awake, InSession
<1>7. RecordKeepsUp'
  BY <1>1, <1>2 DEF RecordKeepsUp, Awake
<1> QED
  BY <1>3, <1>4, <1>5, <1>6, <1>7 DEF TabInv

-----------------------------------------------------------------------------
(***************************************************************************)
(* Finitely many tabs have a last one: of the sets of tabs further to the  *)
(* right, one is smallest.                                                 *)
(***************************************************************************)
LEMMA LastTabIn ==
    ASSUME record \in [Tabs -> TabRecord], NEW ts \in SUBSET Tabs, ts # {}
    PROVE  LastTab(ts) \in ts
<1> DEFINE index(t) == record[t].sortIndex
           right(t) == {u \in ts : index(u) > index(t)}
           rights == {right(t) : t \in ts}
<1>1. \A t \in ts : index(t) \in Nat
  BY DEF TabRecord
<1> HIDE DEF index
<1>2. rights \subseteq FiniteSubsetsOf(Tabs) /\ rights # {}
  <2>1. \A t \in ts : right(t) \subseteq Tabs
    OBVIOUS
  <2>2. \A t \in ts : IsFiniteSet(right(t))
    BY <2>1, TabsAssumption, FS_Subset
  <2> QED
    BY <2>1, <2>2 DEF FiniteSubsetsOf
<1>3. PICK least \in rights : \A r \in rights : <<r, least>> \notin StrictSubsetOrdering(Tabs)
  BY <1>2, FS_StrictSubsetOrderingWellFounded, WFMin
<1>4. PICK t \in ts : least = right(t)
  OBVIOUS
<1>5. ASSUME NEW u \in ts PROVE index(u) <= index(t)
  <2> SUFFICES ASSUME index(u) > index(t) PROVE FALSE
    BY <1>1
  <2>1. right(u) \subseteq right(t) /\ u \in right(t) /\ u \notin right(u)
    BY <1>1
  <2>2. <<right(u), least>> \in StrictSubsetOrdering(Tabs)
    BY <1>4, <2>1 DEF StrictSubsetOrdering
  <2> QED
    BY <1>3, <2>2
<1> QED
  BY <1>5 DEF LastTab, index

-----------------------------------------------------------------------------
(***************************************************************************)
(* A view for a tab.                                                       *)
(***************************************************************************)
LEMMA NewViewInv ==
    ASSUME MirrorInv, TabInv, NEW t \in Tabs, NEW v, NEW url \in Pages \cup {NoPage},
           NewWeb(v, url), live' = [live EXCEPT ![t] = v], UNCHANGED kit
    PROVE  /\ WebInv' /\ LiveIsBorn'
           /\ live' \in [Tabs -> Views \cup {NoView}] /\ Awake(t)'
           /\ web'[live'[t]].URL = url /\ web'[live'[t]].favicon.icon = 0
           /\ \A u \in Tabs : u # t =>
                 live'[u] = live[u] /\ (Awake(u) => web'[live'[u]] = web[live[u]])
<1>1. /\ WebInv'
      /\ v \in Views /\ web[v].life = "unborn" /\ web'[v].life = "alive" /\ web'[v].URL = url
      /\ web'[v].favicon = NoFavicon
      /\ \A u \in Views : u # v => web'[u] = web[u]
  BY NewWebInv DEF MirrorInv
<1>2. /\ live' \in [Tabs -> Views \cup {NoView}] /\ live'[t] = v
      /\ \A u \in Tabs : u # t => live'[u] = live[u]
  BY <1>1 DEF TabInv, TabTypes
<1>3. \A u \in Tabs : Awake(u) => live[u] \in Views /\ live[u] # v
  BY <1>1 DEF TabInv, TabTypes, LiveIsBorn, Awake
<1>4. Awake(t)'
  BY <1>1, <1>2, NoViewAssumption DEF Awake
<1>5. LiveIsBorn'
  BY <1>1, <1>2, <1>3 DEF TabInv, LiveIsBorn, Awake
<1> QED
  BY <1>1, <1>2, <1>3, <1>4, <1>5 DEF NoFavicon

LEMMA WakeWithInv ==
    ASSUME MirrorInv, TabInv, NEW t \in Tabs, InSession(t), NEW v, WakeWith(t, v),
           UNCHANGED <<browser, kit, downloads, reported, queue, record, tabs, selected, tracking>>,
           shown' = shown \/ shown' = t
    PROVE  MirrorInv' /\ TabInv'
<1>1. PICK url \in Pages : url = record[t].url
  BY DEF TabInv, TabTypes, TabRecord
<1>2. /\ WebInv' /\ LiveIsBorn'
      /\ live' \in [Tabs -> Views \cup {NoView}] /\ Awake(t)'
      /\ web'[live'[t]].URL = url /\ web'[live'[t]].favicon.icon = 0
      /\ \A u \in Tabs : u # t =>
            live'[u] = live[u] /\ (Awake(u) => web'[live'[u]] = web[live[u]])
  <2>1. NewWeb(v, url) /\ live' = [live EXCEPT ![t] = v] /\ UNCHANGED kit
    BY <1>1 DEF WakeWith
  <2> QED
    BY <2>1, NewViewInv
<1>3. MirrorInv'
  BY <1>2 DEF MirrorInv, QueueInv, OwnImages, CefInv
<1>4. slept' = slept \ {t}
  BY DEF WakeWith
<1>5. \A u \in Tabs : u # t => (Awake(u)' <=> Awake(u))
  BY <1>2 DEF Awake
<1>6. TabTypes'
  BY <1>2, <1>4 DEF TabInv, TabTypes
<1>7. UnusedIsNowhere'
  BY <1>5 DEF TabInv, UnusedIsNowhere, InSession
<1>8. Tracked'
  BY <1>5 DEF TabInv, Tracked, InSession, ReconcilePending
<1>9. ShownIsAwake'
  BY <1>2, <1>4, <1>5 DEF TabInv, TabTypes, ShownIsAwake, InSession
<1>10. RecordKeepsUp'
  BY <1>1, <1>2, <1>5 DEF TabInv, RecordKeepsUp
<1> QED
  BY <1>2, <1>3, <1>6, <1>7, <1>8, <1>9, <1>10 DEF TabInv

LEMMA WakeInv ==
    ASSUME MirrorInv, TabInv, NEW t \in Tabs, Wake(t)
    PROVE  MirrorInv' /\ TabInv'
BY WakeWithInv DEF Wake

LEMMA RenderInv ==
    ASSUME MirrorInv, TabInv, Render
    PROVE  MirrorInv' /\ TabInv'
<1>1. /\ shown' = selected
      /\ UNCHANGED <<browser, kit, downloads, reported, queue, record, tabs, selected, tracking>>
  BY DEF Render
<1>2. CASE selected # NoTab /\ InSession(selected) /\ ~Awake(selected)
  <2>1. PICK v \in Views : WakeWith(selected, v)
    BY <1>2 DEF Render, WakeSelected
  <2>2. selected \in Tabs
    BY <1>2 DEF TabInv, TabTypes
  <2> QED
    BY <1>1, <1>2, <2>1, <2>2, WakeWithInv
<1>3. CASE ~(selected # NoTab /\ InSession(selected) /\ ~Awake(selected))
  <2>1. UNCHANGED <<web, live, slept>>
    BY <1>3 DEF Render, WakeSelected
  <2>2. MirrorInv'
    BY <1>1, <2>1 DEF MirrorInv, WebInv, KitFresh, ImageIsItsOwn, ObservableAgrees, Alive,
                      QueueInv, OwnImages, CefInv
  <2>3. TabInv'
    BY <1>1, <1>3, <2>1 DEF TabInv, TabTypes, UnusedIsNowhere, LiveIsBorn, Tracked, ShownIsAwake,
                            RecordKeepsUp, Awake, InSession, ReconcilePending
  <2> QED
    BY <2>2, <2>3
<1> QED
  BY <1>2, <1>3

\* Steps that leave the views and the queue alone.
LEMMA MirrorStays ==
    ASSUME MirrorInv, UNCHANGED mirrorVars
    PROVE  MirrorInv' /\ (ReconcilePending => ReconcilePending')
BY DEF mirrorVars, MirrorInv, WebInv, KitFresh, ImageIsItsOwn, ObservableAgrees, Alive, QueueInv,
       OwnImages, CefInv, ReconcilePending

LEMMA SelectInv ==
    ASSUME MirrorInv, TabInv, NEW t \in Tabs, Select(t)
    PROVE  MirrorInv' /\ TabInv'
<1>1. MirrorInv'
  BY MirrorStays DEF Select
<1>2. TabInv'
  BY DEF Select, TabInv, TabTypes, UnusedIsNowhere, LiveIsBorn, Tracked, ShownIsAwake,
         RecordKeepsUp, Awake, InSession, ReconcilePending, mirrorVars
<1> QED
  BY <1>1, <1>2

\* What the store does to a record's state does not matter to its view.
LEMMA StatesInv ==
    ASSUME TabInv, record' \in [Tabs -> TabRecord],
           \A t \in Tabs : /\ record'[t].url = record[t].url /\ record'[t].icon = record[t].icon
                           /\ record'[t].state = "unused" => record[t].state = "unused",
           UNCHANGED <<web, live>>
    PROVE  RecordKeepsUp' /\ LiveIsBorn' /\ (UNCHANGED <<selected, shown>> /\ tabs' \subseteq tabs => UnusedIsNowhere')
BY DEF TabInv, RecordKeepsUp, LiveIsBorn, UnusedIsNowhere, Awake

LEMMA CloseTabInv ==
    ASSUME MirrorInv, TabInv, NEW t \in Tabs, CloseTab(t)
    PROVE  MirrorInv' /\ TabInv'
<1>1. MirrorInv'
  BY MirrorStays DEF CloseTab
<1> DEFINE r == [record[t] EXCEPT !.state = "deleted"]
<1>2. record' = [record EXCEPT ![t] = r] /\ r \in TabRecord
  BY DEF CloseTab, TabInv, TabTypes, TabRecord
<1>3. r.url = record[t].url /\ r.icon = record[t].icon /\ r.state = "deleted"
  BY DEF TabInv, TabTypes, TabRecord
<1> HIDE DEF r
<1>4. UNCHANGED <<mirrorVars, tabs, selected, live, tracking, shown, slept>>
  BY DEF CloseTab
<1>5. record' \in [Tabs -> TabRecord]
  BY <1>2 DEF TabInv, TabTypes
<1>6. RecordKeepsUp' /\ LiveIsBorn' /\ UnusedIsNowhere'
  BY <1>2, <1>3, <1>4, <1>5, StatesInv DEF mirrorVars, TabInv, TabTypes
<1>7. Tracked' /\ ShownIsAwake' /\ TabTypes'
  BY <1>4, <1>5 DEF TabInv, TabTypes, Tracked, ShownIsAwake, Awake, InSession, ReconcilePending, mirrorVars
<1> QED
  BY <1>1, <1>6, <1>7 DEF TabInv

\* Views that are dropped, and tabs that lose theirs.
LEMMA DroppedInv ==
    ASSUME MirrorInv, TabInv, NEW dropped, Release(dropped), UNCHANGED <<reported, record>>,
           live' \in [Tabs -> Views \cup {NoView}],
           \A t \in Tabs : live'[t] = live[t] \/ live'[t] = NoView
    PROVE  WebInv' /\ CefInv' /\ LiveIsBorn' /\ RecordKeepsUp'
<1>1. WebInv' /\ CefInv'
  BY ReleaseInv DEF MirrorInv
<1>2. \A v \in Views :
          \/ web'[v] = web[v]
          \/ web'[v].life = "dead" /\ web'[v].URL = NoPage /\ web'[v].favicon.icon = 0
  BY DEF Release, Unborn, NoFavicon
<1>3. ASSUME NEW t \in Tabs, Awake(t)'
      PROVE  Awake(t) /\ live'[t] = live[t] /\ live[t] \in Views
  BY <1>3 DEF Awake, TabInv, TabTypes
<1>4. LiveIsBorn'
  BY <1>2, <1>3 DEF LiveIsBorn, TabInv
<1>5. RecordKeepsUp'
  BY <1>2, <1>3 DEF RecordKeepsUp, TabInv
<1> QED
  BY <1>1, <1>4, <1>5

LEMMA HibernateInv ==
    ASSUME MirrorInv, TabInv, NEW t \in Tabs, Hibernate(t)
    PROVE  MirrorInv' /\ TabInv'
<1>1. /\ Release({live[t]}) /\ live' = [live EXCEPT ![t] = NoView] /\ slept' = slept \cup {t}
      /\ UNCHANGED <<reported, queue, record, tabs, selected, tracking, shown>>
  BY DEF Hibernate
<1>2. /\ live' \in [Tabs -> Views \cup {NoView}] /\ live'[t] = NoView
      /\ \A u \in Tabs : u # t => live'[u] = live[u]
  BY <1>1 DEF TabInv, TabTypes
<1>3. WebInv' /\ CefInv' /\ LiveIsBorn' /\ RecordKeepsUp'
  BY <1>1, <1>2, DroppedInv
<1>4. MirrorInv'
  BY <1>1, <1>3 DEF MirrorInv, QueueInv, OwnImages
<1>5. \A u \in Tabs : (Awake(u)' => Awake(u)) /\ (u # t /\ Awake(u) => Awake(u)')
  BY <1>2 DEF Awake
<1>6. TabTypes' /\ UnusedIsNowhere' /\ Tracked' /\ ShownIsAwake'
  BY <1>1, <1>2, <1>5
     DEF TabInv, TabTypes, UnusedIsNowhere, Tracked, ShownIsAwake, InSession, ReconcilePending
<1> QED
  BY <1>3, <1>4, <1>6 DEF TabInv

\* A change of the session's tabs has its Task.
LEMMA TabsChangeInv ==
    ASSUME QueueInv, Tracked, NEW newTabs, TabsChange(newTabs)
    PROVE  QueueInv' /\ ReconcilePending' /\ Tracked'
<1>1. CASE tracking
  <2>1. queue' = Append(queue, Reconcile) /\ Reconcile.kind # "image"
    BY <1>1 DEF TabsChange, Reconcile
  <2>2. QueueInv'
    BY <2>1, PostInv
  <2>3. Len(queue) + 1 \in DOMAIN queue' /\ queue'[Len(queue) + 1] = Reconcile
    BY <2>1 DEF QueueInv
  <2> QED
    BY <2>2, <2>3 DEF ReconcilePending, TabsChange, Tracked
<1>2. CASE ~tracking
  BY <1>2 DEF TabsChange, QueueInv, OwnImages, ReconcilePending, Tracked
<1> QED
  BY <1>1, <1>2

LEMMA InsertTabInv ==
    ASSUME QueueInv, TabInv, NEW t, NEW url \in Pages, InsertTab(t, url)
    PROVE  /\ QueueInv' /\ Tracked'
           /\ t \in Tabs /\ ~Awake(t) /\ t \notin tabs /\ t # shown
           /\ record' \in [Tabs -> TabRecord] /\ record'[t].state = "open"
           /\ \A u \in Tabs : u # t => record'[u] = record[u]
           /\ tabs' = tabs \cup {t} /\ tracking' = FALSE
<1>1. t \in Tabs /\ record[t].state = "unused"
  BY DEF InsertTab, UnusedTabs
<1>2. ~Awake(t) /\ t \notin tabs /\ t # shown
  BY <1>1 DEF TabInv, UnusedIsNowhere
<1>3. NextIndex \in Nat
  <2>1. tabs # {} => LastTab(tabs) \in Tabs
    BY LastTabIn DEF TabInv, TabTypes
  <2> QED
    BY <2>1 DEF NextIndex, TabInv, TabTypes, TabRecord
<1> DEFINE r == Opened(url, NextIndex)
<1>4. r \in TabRecord /\ r.state = "open"
  BY <1>3, ZeroIcon DEF Opened, TabRecord
<1>5. record' = [record EXCEPT ![t] = r] /\ TabsChange(tabs \cup {t})
  BY DEF InsertTab
<1> HIDE DEF r
<1>6. /\ record' \in [Tabs -> TabRecord] /\ record'[t].state = "open"
      /\ \A u \in Tabs : u # t => record'[u] = record[u]
  BY <1>1, <1>4, <1>5 DEF TabInv, TabTypes
<1>7. QueueInv' /\ Tracked' /\ tabs' = tabs \cup {t} /\ tracking' = FALSE
  BY <1>5, TabsChangeInv DEF TabsChange, TabInv
<1> QED
  BY <1>1, <1>2, <1>6, <1>7

LEMMA NewTabInv ==
    ASSUME MirrorInv, TabInv, NEW t \in Tabs, NewTab(t)
    PROVE  MirrorInv' /\ TabInv'
<1>1. /\ QueueInv' /\ Tracked'
      /\ t \in Tabs /\ ~Awake(t) /\ t \notin tabs /\ t # shown
      /\ record' \in [Tabs -> TabRecord] /\ record'[t].state = "open"
      /\ \A u \in Tabs : u # t => record'[u] = record[u]
      /\ tabs' = tabs \cup {t} /\ tracking' = FALSE
  BY InsertTabInv, FirstPageAssumption DEF NewTab, MirrorInv
<1>2. /\ selected' = t
      /\ UNCHANGED <<browser, web, kit, downloads, reported, live, shown, slept>>
  BY DEF NewTab
<1>3. MirrorInv'
  BY <1>1, <1>2 DEF MirrorInv, WebInv, KitFresh, ImageIsItsOwn, ObservableAgrees, Alive, CefInv
<1>4. TabTypes'
  BY <1>1, <1>2 DEF TabInv, TabTypes
<1>5. UnusedIsNowhere' /\ ShownIsAwake'
  BY <1>1, <1>2 DEF TabInv, TabTypes, UnusedIsNowhere, ShownIsAwake, InSession, Awake
<1>6. LiveIsBorn' /\ RecordKeepsUp'
  BY <1>1, <1>2 DEF TabInv, LiveIsBorn, RecordKeepsUp, Awake
<1> QED
  BY <1>1, <1>3, <1>4, <1>5, <1>6 DEF TabInv

LEMMA RequestsNewTabInv ==
    ASSUME MirrorInv, TabInv, NEW opener, NEW v \in Views, NEW t \in Tabs, NEW url \in Pages,
           NEW foreground \in BOOLEAN, RequestsNewTab(opener, v, t, url, foreground)
    PROVE  MirrorInv' /\ TabInv'
<1>1. /\ QueueInv' /\ Tracked'
      /\ ~Awake(t) /\ t \notin tabs /\ t # shown
      /\ record' \in [Tabs -> TabRecord] /\ record'[t].state = "open"
      /\ \A u \in Tabs : u # t => record'[u] = record[u]
      /\ tabs' = tabs \cup {t} /\ tracking' = FALSE
  BY InsertTabInv DEF RequestsNewTab, MirrorInv
<1>2. /\ NewWeb(v, NoPage) /\ live' = [live EXCEPT ![t] = v]
      /\ UNCHANGED <<kit, downloads, reported, shown, slept>>
      /\ selected' = t \/ selected' = selected
  BY DEF RequestsNewTab
<1>3. /\ WebInv' /\ LiveIsBorn'
      /\ live' \in [Tabs -> Views \cup {NoView}] /\ Awake(t)'
      /\ web'[live'[t]].URL = NoPage /\ web'[live'[t]].favicon.icon = 0
      /\ \A u \in Tabs : u # t =>
            live'[u] = live[u] /\ (Awake(u) => web'[live'[u]] = web[live[u]])
  BY <1>2, NewViewInv
<1>4. CefInv'
  <2> DEFINE r == [browser[v] EXCEPT !.life = "creating", !.next = url]
  <2>1. r \in BrowserRecord
    BY DEF MirrorInv, CefInv, BrowserRecord
  <2>2. browser' = [browser EXCEPT ![v] = r]
    BY DEF RequestsNewTab, MirrorInv, CefInv
  <2> HIDE DEF r
  <2> QED
    BY <1>2, <2>1, <2>2 DEF MirrorInv, CefInv
<1>5. \A u \in Tabs : u # t => (Awake(u)' <=> Awake(u))
  BY <1>3 DEF Awake
<1>6. TabTypes'
  BY <1>1, <1>2, <1>3 DEF TabInv, TabTypes
<1>7. UnusedIsNowhere' /\ ShownIsAwake'
  BY <1>1, <1>2, <1>5 DEF TabInv, TabTypes, UnusedIsNowhere, ShownIsAwake, InSession
<1>8. RecordKeepsUp'
  BY <1>1, <1>3, <1>5 DEF TabInv, RecordKeepsUp
<1> QED
  BY <1>1, <1>3, <1>4, <1>6, <1>7, <1>8 DEF MirrorInv, TabInv

LEMMA NavigateInv ==
    ASSUME MirrorInv, TabInv, NEW url \in Pages, Navigate(url)
    PROVE  MirrorInv' /\ TabInv'
<1>1. PICK t \in Tabs : t = selected /\ InSession(t)
  BY DEF Navigate, TabInv, TabTypes
<1>2. CASE Awake(t) /\ Load(live[t], url) /\ Sync
  <2>1. live[t] \in Views
    BY <1>2 DEF Awake, TabInv, TabTypes
  <2> QED
    BY <1>2, <2>1, LoadMirror, SyncInv
<1>3. ASSUME ~Awake(t), NEW v \in Views, NewWeb(v, url), live' = [live EXCEPT ![t] = v],
             slept' = slept \ {t}, record' = [record EXCEPT ![t].url = url],
             UNCHANGED <<browser, kit, downloads, reported, queue, tabs, selected, tracking, shown>>
      PROVE  MirrorInv' /\ TabInv'
  <2>1. /\ WebInv' /\ LiveIsBorn'
        /\ live' \in [Tabs -> Views \cup {NoView}] /\ Awake(t)'
        /\ web'[live'[t]].URL = url /\ web'[live'[t]].favicon.icon = 0
        /\ \A u \in Tabs : u # t =>
              live'[u] = live[u] /\ (Awake(u) => web'[live'[u]] = web[live[u]])
    BY <1>3, NewViewInv
  <2> DEFINE r == [record[t] EXCEPT !.url = url]
  <2>2. r \in TabRecord /\ r.url = url /\ r.state = record[t].state
    BY DEF TabInv, TabTypes, TabRecord
  <2>3. record' = [record EXCEPT ![t] = r]
    BY <1>3 DEF TabInv, TabTypes
  <2> HIDE DEF r
  <2>4. /\ record' \in [Tabs -> TabRecord] /\ record'[t] = r
        /\ \A u \in Tabs : u # t => record'[u] = record[u]
    BY <2>2, <2>3 DEF TabInv, TabTypes
  <2>5. \A u \in Tabs : u # t => (Awake(u)' <=> Awake(u))
    BY <2>1 DEF Awake
  <2>6. MirrorInv'
    BY <1>3, <2>1 DEF MirrorInv, QueueInv, OwnImages, CefInv
  <2>7. TabTypes'
    BY <1>3, <2>1, <2>4 DEF TabInv, TabTypes
  <2>8. UnusedIsNowhere' /\ Tracked' /\ ShownIsAwake'
    BY <1>1, <1>3, <2>1, <2>2, <2>4, <2>5
       DEF TabInv, TabTypes, UnusedIsNowhere, Tracked, ShownIsAwake, InSession, ReconcilePending
  <2>9. RecordKeepsUp'
    BY <2>1, <2>2, <2>4, <2>5 DEF TabInv, RecordKeepsUp
  <2> QED
    BY <2>1, <2>6, <2>7, <2>8, <2>9 DEF TabInv
<1> QED
  BY <1>1, <1>2, <1>3 DEF Navigate

\* Deleted records keep what their views' observers wrote.
LEMMA SavedRecords ==
    ASSUME TabInv, NEW state \in {"open", "saved"},
           record' = [t \in Tabs |->
               IF t \in Deleted THEN [record[t] EXCEPT !.state = state] ELSE record[t]]
    PROVE  /\ record' \in [Tabs -> TabRecord]
           /\ \A t \in Tabs : /\ record'[t].url = record[t].url /\ record'[t].icon = record[t].icon
                              /\ record'[t].state = "unused" => record[t].state = "unused"
<1> DEFINE r(t) == IF t \in Deleted THEN [record[t] EXCEPT !.state = state] ELSE record[t]
<1>1. record' = [t \in Tabs |-> r(t)]
  OBVIOUS
<1>2. \A t \in Tabs : /\ r(t) \in TabRecord
                      /\ r(t).url = record[t].url /\ r(t).icon = record[t].icon
                      /\ r(t).state = "unused" => record[t].state = "unused"
  BY DEF TabInv, TabTypes, TabRecord
<1> HIDE DEF r
<1> QED
  BY <1>1, <1>2

LEMMA SaveInv ==
    ASSUME MirrorInv, TabInv, Save
    PROVE  MirrorInv' /\ TabInv'
<1>1. /\ record' \in [Tabs -> TabRecord]
      /\ \A t \in Tabs : /\ record'[t].url = record[t].url /\ record'[t].icon = record[t].icon
                         /\ record'[t].state = "unused" => record[t].state = "unused"
  BY SavedRecords DEF Save
<1>2. /\ TabsChange(tabs \ Deleted)
      /\ UNCHANGED <<browser, web, kit, downloads, reported, selected, live, shown, slept>>
  BY DEF Save
<1>3. QueueInv' /\ Tracked' /\ tabs' = tabs \ Deleted /\ tracking' = FALSE
  BY <1>2, TabsChangeInv DEF TabsChange, MirrorInv, TabInv
<1>4. MirrorInv'
  BY <1>2, <1>3 DEF MirrorInv, WebInv, KitFresh, ImageIsItsOwn, ObservableAgrees, Alive, CefInv
<1>5. RecordKeepsUp' /\ LiveIsBorn' /\ UnusedIsNowhere'
  BY <1>1, <1>2, <1>3, StatesInv
<1>6. TabTypes' /\ ShownIsAwake'
  BY <1>1, <1>2, <1>3 DEF TabInv, TabTypes, ShownIsAwake, InSession, Awake
<1> QED
  BY <1>3, <1>4, <1>5, <1>6 DEF TabInv

\* The selection is a tab of the session, or none.
LEMMA ReselectedIn ==
    ASSUME TabInv, NEW ts \in SUBSET Tabs
    PROVE  /\ Reselected(ts) \in Tabs \cup {NoTab}
           /\ Reselected(ts) # NoTab => Reselected(ts) \in ts
BY LastTabIn DEF Reselected, TabInv, TabTypes

LEMMA ReconcileInv ==
    ASSUME MirrorInv, TabInv, ReconcileLiveTabs
    PROVE  MirrorInv' /\ TabInv'
<1>1. /\ queue # <<>> /\ queue' = Tail(queue) /\ tracking' = TRUE
      /\ Release({live[t] : t \in Gone})
      /\ live' = [t \in Tabs |-> IF t \in Gone THEN NoView ELSE live[t]]
      /\ selected' = Reselected(tabs)
      /\ UNCHANGED <<reported, record, tabs, shown, slept>>
  BY DEF ReconcileLiveTabs
<1>2. /\ live' \in [Tabs -> Views \cup {NoView}]
      /\ \A t \in Tabs : live'[t] = live[t] \/ live'[t] = NoView
      /\ \A t \in Tabs : InSession(t) => live'[t] = live[t]
      /\ \A t \in Tabs : ~InSession(t) => live'[t] = NoView
  BY <1>1 DEF TabInv, TabTypes, Gone, Awake
<1>3. WebInv' /\ CefInv' /\ LiveIsBorn' /\ RecordKeepsUp'
  <2> DEFINE dropped == {live[t] : t \in Gone}
  <2>1. Release(dropped)
    BY <1>1
  <2> HIDE DEF dropped
  <2> QED
    BY <1>1, <1>2, <2>1, DroppedInv
<1>4. MirrorInv'
  BY <1>1, <1>3, TailInv DEF MirrorInv
<1>5. selected' \in Tabs \cup {NoTab} /\ (selected' # NoTab => selected' \in tabs)
  BY <1>1, ReselectedIn DEF TabInv, TabTypes
<1>6. TabTypes'
  BY <1>1, <1>2, <1>5 DEF TabInv, TabTypes
<1>7. UnusedIsNowhere'
  BY <1>1, <1>2, <1>5, NoTabAssumption DEF TabInv, UnusedIsNowhere, Awake
<1>8. Tracked'
  BY <1>1, <1>2, <1>5 DEF Tracked, InSession, Awake
<1>9. ShownIsAwake'
  BY <1>1, <1>2 DEF TabInv, TabTypes, ShownIsAwake, InSession, Awake
<1> QED
  BY <1>3, <1>4, <1>6, <1>7, <1>8, <1>9 DEF TabInv

\* The views of a new launch: none, or one for the selected tab.
LEMMA AppearInv ==
    ASSUME MirrorInv, NEW t \in Tabs \cup {NoTab}, NEW restored \in [Tabs -> TabRecord],
           Appear(t, restored), kit' = [v \in Views |-> Unread]
    PROVE  /\ WebInv'
           /\ live' \in [Tabs -> Views \cup {NoView}]
           /\ \A u \in Tabs : u # t => live'[u] = NoView
           /\ t # NoTab => /\ live'[t] \in Views /\ web'[live'[t]].life = "alive"
                           /\ web'[live'[t]].URL = restored[t].url /\ web'[live'[t]].favicon.icon = 0
<1> DEFINE old == [v \in Views |-> IF Alive(v) THEN [Unborn EXCEPT !.life = "dead"] ELSE web[v]]
<1>1. /\ old \in [Views -> WebRecord]
      /\ \A v \in Views : old[v].life # "alive" /\ old[v].favicon.image \in {0, old[v].favicon.icon}
  <2>1. \A v \in Views : web[v] \in WebRecord /\ web[v].favicon.image \in {0, web[v].favicon.icon}
    BY DEF MirrorInv, WebInv, ImageIsItsOwn
  <2> QED
    BY <2>1, Fresh DEF Alive, Unborn, NoFavicon
<1>2. kit' \in [Views -> KitRecord] /\ \A v \in Views : ~kit'[v].made
  BY Fresh DEF Unread
<1>3. CASE t = NoTab
  <2>1. web' = old /\ live' = [x \in Tabs |-> NoView]
    BY <1>3 DEF Appear
  <2> HIDE DEF old
  <2>2. WebInv'
    BY <1>1, <1>2, <2>1 DEF WebInv, KitFresh, ImageIsItsOwn, ObservableAgrees, Alive
  <2> QED
    BY <1>3, <2>1, <2>2
<1>4. CASE t # NoTab
  <2>1. PICK v \in Views :
            /\ web' = [old EXCEPT ![v] = [Unborn EXCEPT !.life = "alive", !.URL = restored[t].url]]
            /\ live' = [x \in Tabs |-> IF x = t THEN v ELSE NoView]
    BY <1>4 DEF Appear
  <2> DEFINE w == [Unborn EXCEPT !.life = "alive", !.URL = restored[t].url]
  <2>2. /\ w \in WebRecord /\ w.life = "alive" /\ w.URL = restored[t].url /\ w.favicon.icon = 0
        /\ w.favicon.image = 0
    <3>1. restored[t].url \in Pages
      BY <1>4 DEF TabRecord
    <3> QED
      BY <3>1, Fresh DEF Unborn, NoFavicon
  <2> HIDE DEF w, old
  <2>3. /\ web' \in [Views -> WebRecord] /\ web'[v] = w
        /\ \A u \in Views : u # v => web'[u] = old[u]
    BY <1>1, <2>1, <2>2 DEF w
  <2>4. WebInv'
    BY <1>1, <1>2, <2>2, <2>3 DEF WebInv, KitFresh, ImageIsItsOwn, ObservableAgrees, Alive
  <2> QED
    BY <1>4, <2>1, <2>2, <2>3, <2>4
<1> QED
  BY <1>3, <1>4

LEMMA RelaunchInv ==
    ASSUME MirrorInv, TabInv, Relaunch
    PROVE  MirrorInv' /\ TabInv'
<1>1. PICK state \in {"open", "saved"} :
          /\ record' = [t \in Tabs |->
                IF t \in Deleted THEN [record[t] EXCEPT !.state = state] ELSE record[t]]
          /\ tabs' = IF state = "saved" THEN tabs \ Deleted ELSE tabs
  BY DEF Relaunch
<1>2. /\ selected' = Reselected(tabs') /\ shown' = selected'
      /\ Appear(selected', record')
      /\ browser' = [v \in Views |-> IF Alive(v) THEN [NoBrowser EXCEPT !.life = "gone"]
                                     ELSE browser[v]]
      /\ kit' = [v \in Views |-> Unread] /\ downloads' = {} /\ queue' = <<>>
      /\ tracking' = TRUE /\ slept' = {} /\ reported' = reported
  BY DEF Relaunch
<1>3. /\ record' \in [Tabs -> TabRecord]
      /\ \A t \in Tabs : record'[t].state = "unused" => record[t].state = "unused"
  BY <1>1, SavedRecords
<1>4. tabs' \subseteq tabs /\ tabs' \subseteq Tabs
  BY <1>1 DEF TabInv, TabTypes
<1>5. selected' \in Tabs \cup {NoTab} /\ (selected' # NoTab => selected' \in tabs')
  BY <1>2, <1>4, ReselectedIn
<1>6. /\ WebInv'
      /\ live' \in [Tabs -> Views \cup {NoView}]
      /\ \A u \in Tabs : u # selected' => live'[u] = NoView
      /\ selected' # NoTab =>
            /\ live'[selected'] \in Views /\ web'[live'[selected']].life = "alive"
            /\ web'[live'[selected']].URL = record'[selected'].url
            /\ web'[live'[selected']].favicon.icon = 0
  BY <1>2, <1>3, <1>5, AppearInv
<1>7. MirrorInv'
  <2>1. CefInv'
    BY <1>2, Fresh DEF MirrorInv, CefInv
  <2>2. QueueInv'
    BY <1>2 DEF QueueInv, OwnImages
  <2> QED
    BY <1>6, <2>1, <2>2 DEF MirrorInv
<1>8. TabTypes'
  BY <1>2, <1>3, <1>4, <1>5, <1>6 DEF TabTypes
<1>9. \A t \in Tabs : Awake(t)' => t = selected'
  BY <1>6 DEF Awake
<1>10. UnusedIsNowhere'
  BY <1>2, <1>3, <1>4, <1>5, <1>9, NoTabAssumption DEF TabInv, UnusedIsNowhere
<1>11. Tracked' /\ ShownIsAwake'
  BY <1>2, <1>5, <1>6, <1>9, NoTabAssumption, NoViewAssumption
     DEF Tracked, ShownIsAwake, InSession, Awake
<1>12. LiveIsBorn' /\ RecordKeepsUp'
  BY <1>6, <1>9, NoTabAssumption DEF LiveIsBorn, RecordKeepsUp
<1> QED
  BY <1>7, <1>8, <1>10, <1>11, <1>12 DEF TabInv

-----------------------------------------------------------------------------
LEMMA UserInv ==
    ASSUME MirrorInv, TabInv, User \/ Popup
    PROVE  MirrorInv' /\ TabInv'
<1>1. CASE User
  BY <1>1, WakeInv, HibernateInv, NewTabInv, SelectInv, CloseTabInv, NavigateInv, RelaunchInv DEF User
<1>2. CASE Popup
  BY <1>2, RequestsNewTabInv DEF Popup
<1> QED
  BY <1>1, <1>2

LEMMA SyncedInv ==
    ASSUME MirrorInv, TabInv, Sync, Cef \/ SwiftUI \/ RunBlock
    PROVE  MirrorInv' /\ TabInv'
<1>1. CASE Cef
  <2>1. MirrorInv' /\ Moved /\ (ReconcilePending => ReconcilePending')
    BY <1>1, CefMirror
       DEF MirrorInv, WebInv, KitFresh, ImageIsItsOwn, ObservableAgrees, Alive, Moved
  <2> QED
    BY <2>1, SyncInv
<1>2. CASE SwiftUI
  <2>1. PICK v \in Views : Observable(v)
    BY <1>2 DEF SwiftUI
  <2>2. UNCHANGED <<browser, web, downloads, reported, queue>>
    BY <2>1 DEF Observable
  <2>3. MirrorInv'
    BY <2>1, <2>2, ObservableInv DEF MirrorInv, QueueInv, OwnImages, CefInv
  <2>4. Moved /\ (ReconcilePending => ReconcilePending')
    BY <2>2 DEF Moved, ReconcilePending
  <2> QED
    BY <2>3, <2>4, SyncInv
<1>3. CASE RunBlock
  BY <1>3, RunBlockMirror, SyncInv
<1> QED
  BY <1>1, <1>2, <1>3

LEMMA MountInv ==
    ASSUME MirrorInv, TabInv, NEW t \in Tabs, Mount(t)
    PROVE  MirrorInv' /\ TabInv'
<1>1. live[t] \in Views
  BY DEF Mount, Awake, TabInv, TabTypes
<1> QED
  BY <1>1, CreateBrowserMirror, SyncInv DEF Mount

LEMMA StepIInv == IInv /\ [Next]_vars => IInv'
<1> SUFFICES ASSUME IInv, [Next]_vars PROVE IInv'
  OBVIOUS
<1>1. CASE moves < MaxMoves /\ moves' = moves + 1 /\ (User \/ Popup \/ ((Cef \/ SwiftUI) /\ Sync))
  BY <1>1, UserInv, SyncedInv, MaxMovesAssumption DEF IInv
<1>2. CASE Program /\ UNCHANGED moves
  BY <1>2, RenderInv, SaveInv, ReconcileInv, SyncedInv, MountInv DEF Program, IInv
<1>3. CASE UNCHANGED vars
  <2>1. UNCHANGED <<mirrorVars, tabVars, moves>>
    BY <1>3 DEF vars
  <2>2. MirrorInv'
    BY <2>1, MirrorStays DEF IInv
  <2>3. TabInv'
    BY <2>1 DEF IInv, TabInv, TabTypes, UnusedIsNowhere, LiveIsBorn, Tracked, ShownIsAwake,
                RecordKeepsUp, Awake, InSession, ReconcilePending, mirrorVars, tabVars
  <2> QED
    BY <2>1, <2>2, <2>3 DEF IInv
<1> QED
  BY <1>1, <1>2, <1>3 DEF Next

LEMMA Always == Spec => []IInv
BY InitIInv, StepIInv, PTL DEF Spec

\* Tabs, records, views and CEF's side of them keep their types.
THEOREM TypeCorrect == Spec => []TypeOK
BY Always, Implied, PTL

\* However late a favicon's download ends, no favicon gets another's image.
THEOREM ImagesMatch == Spec => []ImageIsItsOwn
BY Always, Implied, PTL

\* An observable shows what its view has, whenever it was read first and
\* whatever has happened since.
THEOREM ObservablesFollow == Spec => []ObservableAgrees
BY Always, Implied, PTL

\* A record has the url and the icon of its live view after every step of the
\* views, of CEF, of the user and of the session.
THEOREM RecordsFollow == Spec => []RecordKeepsUp
BY Always, Implied, PTL

\* Without a Task of the observation tracking to come, live views and the
\* selection belong to tabs of the session.
THEOREM NoTabLeaks == Spec => []NothingLeaks
BY Always, Implied, PTL

\* What the window shows is awake unless the user put it to sleep, after a
\* relaunch as well.
THEOREM ShownTabsAwake == Spec => []SelectedIsAwake
BY Always, Implied, PTL

-----------------------------------------------------------------------------
(***************************************************************************)
(* The copies converge.  For each field of a view that the queue's blocks  *)
(* write, the last block that waits for it carries what the browser has    *)
(* now; if none waits, the view has it.  The URL also may be ahead of the  *)
(* browser, when the view was asked for a load.                            *)
(***************************************************************************)
Fields == {"isLoading", "icon", "URL"}

\* A block of the view that writes the field, and what it writes.
Writes(b, v, f) ==
    /\ \/ f = "isLoading" /\ b.kind = "isLoading"
       \/ f = "icon" /\ b.kind \in {"loadStart", "favicon"}
       \/ f = "URL" /\ b.kind = "loadStart"
    /\ b.of = v
Written(b, f) ==
    CASE f = "isLoading" -> b.value
      [] f = "icon" -> IF b.kind = "loadStart" THEN 0 ELSE b.icon
      [] f = "URL" -> b.url

\* The field of a ChromiumView.
Field(w, f) ==
    CASE f = "isLoading" -> w.isLoading [] f = "icon" -> w.favicon.icon [] f = "URL" -> w.URL

None(q, v, f) == \A i \in DOMAIN q : ~Writes(q[i], v, f)

\* Once the blocks of q have run, the field of v, whose view is w, has the value x.
Ends(q, w, v, f, x) ==
    \/ None(q, v, f) /\ Field(w, f) = x
    \/ \E i \in DOMAIN q :
          /\ Writes(q[i], v, f) /\ Written(q[i], f) = x
          /\ \A j \in DOMAIN q : j > i => ~Writes(q[j], v, f)

\* A view whose browser has reported nothing so far.
Early(v) ==
    /\ \A f \in Fields : None(queue, v, f)
    /\ browser[v].page = NoPage /\ ~browser[v].loading /\ browser[v].icon = 0

UrlEnds(v) ==
    \/ Ends(queue, web[v], v, "URL", browser[v].page)
    \/ None(queue, v, "URL") /\ browser[v].next # NoPage
    \/ browser[v].missed

Mirrored(v) ==
    /\ web[v].life = "unborn" => browser[v] = NoBrowser /\ Early(v)
    /\ Alive(v) =>
        /\ browser[v].life # "gone"
        /\ browser[v].life \in {"none", "creating"} => Early(v)
        /\ Ends(queue, web[v], v, "isLoading", browser[v].loading)
        /\ Ends(queue, web[v], v, "icon", browser[v].icon)
        /\ browser[v].life # "none" => UrlEnds(v)

CInv == IInv /\ \A v \in Views : Mirrored(v)


LEMMA CTypes ==
    ASSUME IInv
    PROVE  /\ queue \in Seq(Blocks \cup {Reconcile})
           /\ browser \in [Views -> BrowserRecord] /\ web \in [Views -> WebRecord]
BY DEF IInv, MirrorInv, QueueInv, WebInv, CefInv

\* A block at the end of a queue settles the field it writes and no other.
LEMMA EndsAppend ==
    ASSUME NEW S, NEW q \in Seq(S), NEW b, NEW w, NEW v, NEW f, NEW x
    PROVE  /\ Writes(b, v, f) => Ends(Append(q, b), w, v, f, Written(b, f))
           /\ ~Writes(b, v, f) /\ Ends(q, w, v, f, x) => Ends(Append(q, b), w, v, f, x)
           /\ ~Writes(b, v, f) /\ None(q, v, f) => None(Append(q, b), v, f)
<1> DEFINE r == Append(q, b)
<1>1. /\ DOMAIN q = 1 .. Len(q) /\ DOMAIN r = 1 .. Len(q) + 1 /\ Len(q) \in Nat
      /\ r[Len(q) + 1] = b /\ \A i \in 1 .. Len(q) : r[i] = q[i]
  OBVIOUS
<1> HIDE DEF r
<1>2. Writes(b, v, f) => Ends(r, w, v, f, Written(b, f))
  BY <1>1 DEF Ends
<1>3. ASSUME ~Writes(b, v, f), None(q, v, f) PROVE None(r, v, f)
  BY <1>1, <1>3 DEF None
<1>4. ASSUME ~Writes(b, v, f), Ends(q, w, v, f, x) PROVE Ends(r, w, v, f, x)
  <2>1. CASE None(q, v, f) /\ Field(w, f) = x
    BY <1>3, <1>4, <2>1 DEF Ends
  <2>2. CASE ~(None(q, v, f) /\ Field(w, f) = x)
    <3>1. PICK i \in 1 .. Len(q) :
              /\ Writes(q[i], v, f) /\ Written(q[i], f) = x
              /\ \A j \in 1 .. Len(q) : j > i => ~Writes(q[j], v, f)
      BY <1>1, <1>4, <2>2 DEF Ends
    <3>2. \A j \in 1 .. Len(q) + 1 : j > i => ~Writes(r[j], v, f)
      BY <1>1, <1>4, <3>1
    <3> QED
      BY <1>1, <3>1, <3>2 DEF Ends
  <2> QED
    BY <2>1, <2>2
<1> QED
  BY <1>2, <1>3, <1>4 DEF r

\* The block that runs leaves its value to the view or does not matter.
LEMMA EndsTail ==
    ASSUME NEW S, NEW q \in Seq(S), q # <<>>, NEW w, NEW w2, NEW v, NEW f, NEW x
    PROVE  /\ None(q, v, f) => None(Tail(q), v, f)
           /\ /\ Ends(q, w, v, f, x)
              /\ Field(w2, f) = IF Writes(Head(q), v, f) THEN Written(Head(q), f) ELSE Field(w, f)
              => Ends(Tail(q), w2, v, f, x)
<1> DEFINE r == Tail(q)
<1>1. /\ DOMAIN q = 1 .. Len(q) /\ DOMAIN r = 1 .. Len(q) - 1 /\ Len(q) \in Nat /\ Len(q) # 0
      /\ Head(q) = q[1] /\ \A i \in 1 .. Len(q) - 1 : r[i] = q[i + 1]
  OBVIOUS
<1> HIDE DEF r
<1>2. ASSUME None(q, v, f) PROVE None(r, v, f)
  BY <1>1, <1>2 DEF None
<1>3. ASSUME Ends(q, w, v, f, x),
             Field(w2, f) = IF Writes(q[1], v, f) THEN Written(q[1], f) ELSE Field(w, f)
      PROVE  Ends(r, w2, v, f, x)
  <2>1. CASE None(q, v, f) /\ Field(w, f) = x
    <3>1. ~Writes(q[1], v, f)
      BY <1>1, <2>1 DEF None
    <3> QED
      BY <1>2, <1>3, <2>1, <3>1 DEF Ends
  <2>2. CASE ~(None(q, v, f) /\ Field(w, f) = x)
    <3>1. PICK i \in 1 .. Len(q) :
              /\ Writes(q[i], v, f) /\ Written(q[i], f) = x
              /\ \A j \in 1 .. Len(q) : j > i => ~Writes(q[j], v, f)
      BY <1>1, <1>3, <2>2 DEF Ends
    <3>2. \A j \in 1 .. Len(q) - 1 : j > i - 1 => ~Writes(r[j], v, f)
      BY <1>1, <3>1
    <3>3. CASE i = 1
      <4>1. None(r, v, f)
        BY <1>1, <3>2, <3>3 DEF None
      <4> QED
        BY <1>3, <3>1, <3>3, <4>1 DEF Ends
    <3>4. CASE i # 1
      <4>1. i - 1 \in 1 .. Len(q) - 1 /\ r[i - 1] = q[i]
        BY <1>1, <3>4
      <4> QED
        BY <1>1, <3>1, <3>2, <4>1 DEF Ends
    <3> QED
      BY <3>3, <3>4
  <2> QED
    BY <2>1, <2>2
<1> QED
  BY <1>1, <1>2, <1>3 DEF r

\* A step of the queue that is not about a view.
Passes(v) ==
    \A f \in Fields :
        /\ None(queue, v, f) => None(queue', v, f)
        /\ \A w, x : Ends(queue, w, v, f, x) => Ends(queue', w, v, f, x)

LEMMA PassesBy ==
    ASSUME queue \in Seq(Blocks \cup {Reconcile}), NEW v
    PROVE  /\ queue' = queue => Passes(v)
           /\ \A b : queue' = Append(queue, b) /\ (\A f \in Fields : ~Writes(b, v, f)) => Passes(v)
           /\ /\ queue # <<>> /\ queue' = Tail(queue)
              /\ \A f \in Fields : ~Writes(Head(queue), v, f)
              => Passes(v)
<1>1. queue' = queue => Passes(v)
  BY DEF Passes
<1>2. ASSUME NEW b, queue' = Append(queue, b), \A f \in Fields : ~Writes(b, v, f) PROVE Passes(v)
  BY <1>2, EndsAppend DEF Passes
<1>3. ASSUME queue # <<>>, queue' = Tail(queue), \A f \in Fields : ~Writes(Head(queue), v, f)
      PROVE  Passes(v)
  BY <1>3, EndsTail DEF Passes
<1> QED
  BY <1>1, <1>2, <1>3

\* A reconciliation writes to no view.
LEMMA ReconcileWrites == \A v, f : ~Writes(Reconcile, v, f)
BY DEF Reconcile, Writes

\* A view that is left alone, or dropped, stays what it was.
LEMMA MirroredStays ==
    ASSUME NEW v \in Views, Mirrored(v), Passes(v),
           \/ web'[v].life \notin {"unborn", "alive"}
           \/ web'[v] = web[v] /\ browser'[v] = browser[v]
    PROVE  Mirrored(v)'
<1>1. CASE web'[v].life \notin {"unborn", "alive"}
  BY <1>1 DEF Mirrored, Alive
<1>2. CASE web'[v] = web[v] /\ browser'[v] = browser[v]
  <2>1. "isLoading" \in Fields /\ "icon" \in Fields /\ "URL" \in Fields
    BY DEF Fields
  <2>2. Early(v) => Early(v)'
    BY <1>2 DEF Early, Passes
  <2>3. UrlEnds(v) => UrlEnds(v)'
    BY <1>2, <2>1 DEF UrlEnds, Passes
  <2>4. \A x : /\ Ends(queue, web[v], v, "isLoading", x) => Ends(queue', web[v], v, "isLoading", x)
               /\ Ends(queue, web[v], v, "icon", x) => Ends(queue', web[v], v, "icon", x)
    BY <2>1 DEF Passes
  <2> QED
    BY <1>2, <2>2, <2>3, <2>4 DEF Mirrored, Alive
<1> QED
  BY <1>1, <1>2

LEMMA InitCInv == Init => CInv
<1> SUFFICES ASSUME Init PROVE CInv
  OBVIOUS
<1>1. \A v \in Views : web[v] = Unborn /\ browser[v] = NoBrowser
  BY DEF Init, MirrorInit
<1>2. queue = <<>>
  BY DEF Init, MirrorInit
<1>3. \A v, f : None(queue, v, f)
  BY <1>2 DEF None
<1>4. ASSUME NEW v \in Views PROVE Mirrored(v)
  <2>1. web[v].life = "unborn"
    BY <1>1 DEF Unborn
  <2>2. browser[v].page = NoPage /\ browser[v].loading = FALSE /\ browser[v].icon = 0
    BY <1>1 DEF NoBrowser
  <2>3. Early(v)
    BY <1>3, <2>2 DEF Early
  <2> QED
    BY <1>1, <2>1, <2>3 DEF Mirrored, Alive
<1> QED
  BY <1>4, InitIInv DEF CInv

\* A new view is one of those that were not born, and shows nothing yet.
LEMMA NewWebMirrored ==
    ASSUME CInv, NEW v, NEW url, NewWeb(v, url), NEW x \in Views, Passes(x),
           x # v => browser'[x] = browser[x]
    PROVE  /\ v \in Views /\ browser[v] = NoBrowser
           /\ x = v /\ (browser'[v] = NoBrowser \/ \E p \in Pages :
                  browser'[v] = [NoBrowser EXCEPT !.life = "creating", !.next = p])
              => Mirrored(x)'
           /\ x # v => Mirrored(x)'
<1>1. v \in Views /\ web[v].life = "unborn"
  BY DEF NewWeb, FreshView, UnbornViews
<1>2. browser[v] = NoBrowser /\ Early(v)
  BY <1>1 DEF CInv, Mirrored
<1>3. ASSUME x # v PROVE Mirrored(x)'
  <2>1. web'[x] = web[x]
    BY <1>1, <1>3, CTypes DEF NewWeb, CInv
  <2> QED
    BY <1>3, <2>1, MirroredStays DEF CInv
<1>4. ASSUME x = v, browser'[v] = NoBrowser \/ \E p \in Pages :
                  browser'[v] = [NoBrowser EXCEPT !.life = "creating", !.next = p]
      PROVE  Mirrored(x)'
  <2>1. web'[v] = [Unborn EXCEPT !.life = "alive", !.URL = url]
    BY <1>1, CTypes DEF NewWeb, CInv
  <2>2. web'[v].life = "alive" /\ web'[v].isLoading = FALSE /\ web'[v].favicon.icon = 0
    BY <2>1 DEF Unborn, NoFavicon
  <2>3. /\ browser'[v].page = NoPage /\ browser'[v].loading = FALSE /\ browser'[v].icon = 0
        /\ browser'[v].life # "gone" /\ (browser'[v].life = "none" \/ browser'[v].next # NoPage)
    <3>1. CASE browser'[v] = NoBrowser
      BY <3>1 DEF NoBrowser
    <3>2. ASSUME NEW p \in Pages, browser'[v] = [NoBrowser EXCEPT !.life = "creating", !.next = p]
          PROVE  /\ browser'[v].page = NoPage /\ browser'[v].loading = FALSE
                 /\ browser'[v].icon = 0 /\ browser'[v].life = "creating"
                 /\ browser'[v].next # NoPage
      BY <3>2, NoPageAssumption DEF NoBrowser
    <3> QED
      BY <1>4, <3>1, <3>2
  <2>4. \A f \in Fields : None(queue', v, f)
    BY <1>2, <1>4 DEF Passes, Early
  <2>5. Early(v)'
    BY <2>3, <2>4 DEF Early
  <2>6. "isLoading" \in Fields /\ "icon" \in Fields /\ "URL" \in Fields
    BY DEF Fields
  <2>7. /\ Ends(queue', web'[v], v, "isLoading", browser'[v].loading)
        /\ Ends(queue', web'[v], v, "icon", browser'[v].icon)
    BY <2>2, <2>3, <2>4, <2>6 DEF Ends, Field
  <2>8. browser'[v].life # "none" => UrlEnds(v)'
    BY <2>3, <2>4, <2>6 DEF UrlEnds
  <2> QED
    BY <1>4, <2>2, <2>3, <2>5, <2>7, <2>8 DEF Mirrored
<1> QED
  BY <1>1, <1>2, <1>3, <1>4

\* A block for one view is none for another, and so is one about the tabs.
LEMMA OthersMirrored ==
    ASSUME CInv, NEW v \in Views, NEW b,
           queue' = queue \/ (b.of = v /\ queue' = Append(queue, b)),
           \A x \in Views : x # v => web'[x] = web[x] /\ browser'[x] = browser[x]
    PROVE  \A x \in Views : x # v => Mirrored(x)'
<1> SUFFICES ASSUME NEW x \in Views, x # v PROVE Mirrored(x)'
  OBVIOUS
<1>1. Passes(x)
  BY CTypes, PassesBy DEF CInv, Writes
<1> QED
  BY <1>1, MirroredStays DEF CInv

\* What a step posts to a view, and which fields it leaves as they are.
LEMMA PostEnds ==
    ASSUME CInv, NEW v \in Views, NEW b, NEW f,
           queue' = queue \/ (queue' = Append(queue, b) /\ ~Writes(b, v, f)),
           Field(web'[v], f) = Field(web[v], f)
    PROVE  /\ \A x : Ends(queue, web[v], v, f, x) => Ends(queue', web'[v], v, f, x)
           /\ None(queue, v, f) => None(queue', v, f)
<1>1. queue \in Seq(Blocks \cup {Reconcile})
  BY CTypes DEF CInv
<1>2. \A x : Ends(queue, web[v], v, f, x) => Ends(queue, web'[v], v, f, x)
  BY DEF Ends
<1>3. CASE queue' = queue
  BY <1>2, <1>3
<1>4. ASSUME queue' = Append(queue, b), ~Writes(b, v, f), NEW x
      PROVE  /\ Ends(queue, web[v], v, f, x) => Ends(queue', web'[v], v, f, x)
             /\ None(queue, v, f) => None(queue', v, f)
  BY <1>1, <1>2, <1>4, EndsAppend
<1> QED
  BY <1>3, <1>4

\* A navigation starts: the view hears that it is loading, and of the URL when
\* it commits.
LEMMA StartLoadingMirrored ==
    ASSUME CInv, NEW v \in Views, NEW page, StartLoading(v, page),
           browser[v].life \in {"creating", "live"},
           \A x \in Views : x # v => web'[x] = web[x],
           web'[v].life = web[v].life, web'[v].isLoading = web[v].isLoading,
           web'[v].favicon = web[v].favicon,
           page # NoPage \/ (page = browser[v].next /\ web'[v] = web[v])
    PROVE  \A x \in Views : Mirrored(x)'
<1> DEFINE b == [kind |-> "isLoading", of |-> v, value |-> TRUE]
<1>0. browser \in [Views -> BrowserRecord] /\ queue \in Seq(Blocks \cup {Reconcile})
  BY CTypes DEF CInv
<1>1. /\ browser'[v].life = "live" /\ browser'[v].next = page /\ browser'[v].loading = TRUE
      /\ browser'[v].page = browser[v].page /\ browser'[v].icon = browser[v].icon
      /\ browser'[v].missed = browser[v].missed
  BY <1>0 DEF StartLoading, BrowserRecord
<1>2. \A x \in Views : x # v => browser'[x] = browser[x]
  BY <1>0 DEF StartLoading
<1>3. /\ browser[v].loading => queue' = queue
      /\ ~browser[v].loading => queue' = Append(queue, b)
  BY DEF StartLoading, Post
<1>4. /\ Writes(b, v, "isLoading") /\ Written(b, "isLoading") = TRUE
      /\ ~Writes(b, v, "icon") /\ ~Writes(b, v, "URL") /\ b.of = v
  BY DEF Writes, Written
<1> HIDE DEF b
<1>5. web[v].life # "unborn"
  BY DEF CInv, Mirrored, NoBrowser
<1>6. \A x \in Views : x # v => Mirrored(x)'
  BY <1>2, <1>3, <1>4, OthersMirrored
<1>7. ASSUME Alive(v)' PROVE Mirrored(v)'
  <2>1. Alive(v)
    BY <1>7 DEF Alive
  <2>2. Ends(queue', web'[v], v, "isLoading", browser'[v].loading)
    <3>1. CASE browser[v].loading
      <4>1. browser[v].loading = TRUE
        BY <1>0, <3>1 DEF BrowserRecord
      <4>2. Ends(queue, web[v], v, "isLoading", TRUE)
        BY <2>1, <4>1 DEF CInv, Mirrored
      <4>3. Field(web'[v], "isLoading") = Field(web[v], "isLoading")
        BY DEF Field
      <4> QED
        BY <1>1, <1>3, <3>1, <4>2, <4>3, PostEnds
    <3>2. CASE ~browser[v].loading
      BY <1>0, <1>1, <1>3, <1>4, <3>2, EndsAppend, ZenonT(60)
    <3> QED
      BY <3>1, <3>2
  <2>3. Ends(queue', web'[v], v, "icon", browser'[v].icon)
    <3>1. Field(web'[v], "icon") = Field(web[v], "icon")
      BY DEF Field
    <3>2. Ends(queue, web[v], v, "icon", browser[v].icon)
      BY <2>1 DEF CInv, Mirrored
    <3> QED
      BY <1>1, <1>3, <1>4, <3>1, <3>2, PostEnds
  <2>4. UrlEnds(v)'
    <3>1. UrlEnds(v)
      BY <2>1 DEF CInv, Mirrored
    <3>2. None(queue, v, "URL") => None(queue', v, "URL")
      BY <1>0, <1>3, <1>4, EndsAppend
    <3>3. CASE page = browser[v].next /\ web'[v] = web[v]
      <4>1. \A x : Ends(queue, web[v], v, "URL", x) => Ends(queue', web'[v], v, "URL", x)
        BY <1>3, <1>4, <3>3, PostEnds
      <4> QED
        BY <1>1, <3>1, <3>2, <3>3, <4>1 DEF UrlEnds
    <3>4. CASE page # NoPage
      <4>1. CASE None(queue, v, "URL")
        BY <1>1, <3>2, <3>4, <4>1 DEF UrlEnds
      <4>2. CASE browser[v].missed
        BY <1>1, <4>2 DEF UrlEnds
      <4>3. CASE ~None(queue, v, "URL") /\ ~browser[v].missed
        <5>1. Ends(queue, web'[v], v, "URL", browser[v].page)
          BY <3>1, <4>3 DEF UrlEnds, Ends
        <5>2. Ends(queue', web'[v], v, "URL", browser[v].page)
          BY <1>0, <1>3, <1>4, <5>1, EndsAppend, ZenonT(60)
        <5> QED
          BY <1>1, <5>2 DEF UrlEnds
      <4> QED
        BY <4>1, <4>2, <4>3
    <3> QED
      BY <3>3, <3>4
  <2> QED
    BY <1>1, <1>5, <2>2, <2>3, <2>4 DEF Mirrored
<1>8. ASSUME ~Alive(v)' PROVE Mirrored(v)'
  BY <1>5, <1>8 DEF Mirrored
<1> QED
  BY <1>6, <1>7, <1>8

\* What a live browser reports: the view gets the value the browser has now.
LEMMA ReportMirrored ==
    ASSUME CInv, NEW v \in Views, browser[v].life = "live", web' = web, NEW b, b.of = v,
           NEW r, browser' = [browser EXCEPT ![v] = r], queue' = Append(queue, b),
           r.life = "live",
           IF Writes(b, v, "isLoading") THEN Written(b, "isLoading") = r.loading
           ELSE r.loading = browser[v].loading,
           IF Writes(b, v, "icon") THEN Written(b, "icon") = r.icon ELSE r.icon = browser[v].icon,
           IF Writes(b, v, "URL") THEN Written(b, "URL") = r.page
           ELSE /\ r.page = browser[v].page
                /\ browser[v].missed => r.missed
                /\ browser[v].next # NoPage => r.next # NoPage \/ r.missed
    PROVE  \A x \in Views : Mirrored(x)'
<1>1. browser \in [Views -> BrowserRecord] /\ queue \in Seq(Blocks \cup {Reconcile})
  BY CTypes DEF CInv
<1>2. browser'[v] = r /\ \A x \in Views : x # v => browser'[x] = browser[x]
  BY <1>1
<1>3. web[v].life # "unborn"
  BY DEF CInv, Mirrored, NoBrowser
<1>4. \A x \in Views : x # v => Mirrored(x)'
  BY <1>2, OthersMirrored
<1>5. ASSUME Alive(v)' PROVE Mirrored(v)'
  <2>1. Alive(v)
    BY <1>5 DEF Alive
  <2>2. /\ Ends(queue, web[v], v, "isLoading", browser[v].loading)
        /\ Ends(queue, web[v], v, "icon", browser[v].icon)
        /\ UrlEnds(v)
    BY <2>1 DEF CInv, Mirrored
  <2>3. Ends(queue', web'[v], v, "isLoading", browser'[v].loading)
    BY <1>1, <1>2, <2>2, EndsAppend
  <2>4. Ends(queue', web'[v], v, "icon", browser'[v].icon)
    BY <1>1, <1>2, <2>2, EndsAppend
  <2>5. UrlEnds(v)'
    <3>1. CASE Writes(b, v, "URL")
      BY <1>1, <1>2, <3>1, EndsAppend DEF UrlEnds
    <3>2. CASE ~Writes(b, v, "URL")
      <4>1. None(queue, v, "URL") => None(queue', v, "URL")
        BY <1>1, <3>2, EndsAppend
      <4>2. \A x : Ends(queue, web[v], v, "URL", x) => Ends(queue', web'[v], v, "URL", x)
        BY <1>1, <3>2, EndsAppend
      <4> QED
        BY <1>2, <2>2, <3>2, <4>1, <4>2 DEF UrlEnds
    <3> QED
      BY <3>1, <3>2
  <2> QED
    BY <1>2, <1>3, <2>3, <2>4, <2>5 DEF Mirrored
<1>6. ASSUME ~Alive(v)' PROVE Mirrored(v)'
  BY <1>3, <1>6 DEF Mirrored
<1> QED
  BY <1>4, <1>5, <1>6

\* The view misses a move within the document, and nothing else of it.
LEMMA WithinMirrored ==
    ASSUME CInv, NEW v \in Views, browser[v].life = "live", UNCHANGED <<web, queue>>,
           NEW r, browser' = [browser EXCEPT ![v] = r],
           r.life = "live", r.missed, r.loading = browser[v].loading, r.icon = browser[v].icon
    PROVE  \A x \in Views : Mirrored(x)'
<1>1. browser \in [Views -> BrowserRecord]
  BY CTypes DEF CInv
<1>2. browser'[v] = r /\ \A x \in Views : x # v => browser'[x] = browser[x]
  BY <1>1
<1>3. web[v].life # "unborn"
  BY DEF CInv, Mirrored, NoBrowser
<1>4. ASSUME NEW x \in Views, x # v PROVE Mirrored(x)'
  BY <1>2, <1>4 DEF CInv, Mirrored, Early, UrlEnds, Ends, None, Alive
<1>5. Mirrored(v)'
  BY <1>2, <1>3 DEF CInv, Mirrored, UrlEnds, Ends, None, Alive
<1> QED
  BY <1>4, <1>5

LEMMA CefMirrored ==
    ASSUME CInv, Cef
    PROVE  \A x \in Views : Mirrored(x)'
<1>0. browser \in [Views -> BrowserRecord] /\ queue \in Seq(Blocks \cup {Reconcile})
  BY CTypes DEF CInv
<1>1. ASSUME NEW v \in Views, OnAfterCreated(v) PROVE \A x \in Views : Mirrored(x)'
  BY <1>1, StartLoadingMirrored DEF OnAfterCreated
<1>2. ASSUME NEW v \in Views, NEW p \in Pages, FollowLink(v, p) PROVE \A x \in Views : Mirrored(x)'
  BY <1>2, StartLoadingMirrored, NoPageAssumption DEF FollowLink, Ready
<1>3. ASSUME NEW v \in Views, OnLoadStart(v) PROVE \A x \in Views : Mirrored(x)'
  <2> DEFINE b == [kind |-> "loadStart", of |-> v, url |-> browser[v].next]
             r == [browser[v] EXCEPT !.page = browser[v].next, !.next = NoPage,
                                     !.icon = 0, !.missed = FALSE]
  <2>1. browser' = [browser EXCEPT ![v] = r] /\ queue' = Append(queue, b) /\ web' = web
        /\ browser[v].life = "live"
    BY <1>0, <1>3 DEF OnLoadStart, Post, Ready
  <2>2. r.life = browser[v].life /\ r.loading = browser[v].loading /\ r.icon = 0
        /\ r.page = browser[v].next
    <3>1. browser[v] \in BrowserRecord
      BY <1>0
    <3> QED
      BY <3>1 DEF BrowserRecord
  <2>3. /\ ~Writes(b, v, "isLoading") /\ Writes(b, v, "icon") /\ Writes(b, v, "URL") /\ b.of = v
        /\ Written(b, "icon") = 0 /\ Written(b, "URL") = browser[v].next
    BY DEF Writes, Written
  <2> HIDE DEF b, r
  <2> QED
    BY <2>1, <2>2, <2>3, ReportMirrored
<1>4. ASSUME NEW v \in Views, OnLoadingStops(v) PROVE \A x \in Views : Mirrored(x)'
  <2> DEFINE b == [kind |-> "isLoading", of |-> v, value |-> FALSE]
             r == [browser[v] EXCEPT !.loading = FALSE, !.next = NoPage,
                                     !.missed = browser[v].missed \/ browser[v].next # NoPage]
  <2>1. browser' = [browser EXCEPT ![v] = r] /\ queue' = Append(queue, b) /\ web' = web
        /\ browser[v].life = "live"
    BY <1>0, <1>4 DEF OnLoadingStops, Post, Ready
  <2>2. r.life = browser[v].life /\ r.loading = FALSE /\ r.icon = browser[v].icon
        /\ r.page = browser[v].page /\ r.missed = (browser[v].missed \/ browser[v].next # NoPage)
    <3>1. browser[v] \in BrowserRecord
      BY <1>0
    <3> QED
      BY <3>1 DEF BrowserRecord
  <2>3. /\ Writes(b, v, "isLoading") /\ ~Writes(b, v, "icon") /\ ~Writes(b, v, "URL") /\ b.of = v
        /\ Written(b, "isLoading") = FALSE
    BY DEF Writes, Written
  <2> HIDE DEF b, r
  <2> QED
    BY <2>1, <2>2, <2>3, ReportMirrored
<1>5. ASSUME NEW v \in Views, OnFaviconURLChange(v) PROVE \A x \in Views : Mirrored(x)'
  <2>1. PICK icon \in {0} \cup (Icons \cap {reported + 1}) :
            /\ browser' = [browser EXCEPT ![v].icon = icon]
            /\ Post([kind |-> "favicon", of |-> v, icon |-> icon])
    BY <1>5 DEF OnFaviconURLChange
  <2> DEFINE b == [kind |-> "favicon", of |-> v, icon |-> icon]
             r == [browser[v] EXCEPT !.icon = icon]
  <2>2. browser' = [browser EXCEPT ![v] = r] /\ queue' = Append(queue, b) /\ web' = web
        /\ browser[v].life = "live"
    BY <1>0, <1>5, <2>1 DEF OnFaviconURLChange, Post, Ready
  <2>3. r.life = browser[v].life /\ r.loading = browser[v].loading /\ r.icon = icon
        /\ r.page = browser[v].page /\ r.missed = browser[v].missed /\ r.next = browser[v].next
    <3>1. browser[v] \in BrowserRecord
      BY <1>0
    <3> QED
      BY <3>1 DEF BrowserRecord
  <2>4. /\ ~Writes(b, v, "isLoading") /\ Writes(b, v, "icon") /\ ~Writes(b, v, "URL") /\ b.of = v
        /\ Written(b, "icon") = icon
    BY DEF Writes, Written
  <2> HIDE DEF b, r
  <2> QED
    BY <2>2, <2>3, <2>4, ReportMirrored
<1>6. ASSUME NEW d \in downloads, OnDownloadImageFinished(d), NEW x \in Views PROVE Mirrored(x)'
  <2>1. PICK image \in {0, d.icon} :
            Post([kind |-> "image", of |-> d.of, icon |-> d.icon, image |-> image])
    BY <1>6 DEF OnDownloadImageFinished
  <2> DEFINE b == [kind |-> "image", of |-> d.of, icon |-> d.icon, image |-> image]
  <2>2. queue' = Append(queue, b) /\ UNCHANGED <<web, browser>>
    BY <1>6, <2>1 DEF OnDownloadImageFinished, Post
  <2>3. \A f \in Fields : ~Writes(b, x, f)
    BY DEF Writes
  <2> HIDE DEF b
  <2>4. Passes(x)
    BY <1>0, <2>2, <2>3, PassesBy
  <2> QED
    BY <2>2, <2>4, MirroredStays DEF CInv
<1>7. ASSUME NEW v \in Views, \/ SamePageLoad(v) \/ \E p \in Pages : SamePageNavigation(v, p)
      PROVE  \A x \in Views : Mirrored(x)'
  <2>1. PICK r \in BrowserRecord :
            /\ browser' = [browser EXCEPT ![v] = r]
            /\ r.life = "live" /\ browser[v].life = "live" /\ r.missed
            /\ r.loading = browser[v].loading /\ r.icon = browser[v].icon
    BY <1>0, <1>7, MovedWithin
  <2>2. web' = web /\ queue' = queue
    BY <1>7 DEF SamePageLoad, SamePageNavigation
  <2> QED
    BY <2>1, <2>2, WithinMirrored
<1> QED
  BY <1>1, <1>2, <1>3, <1>4, <1>5, <1>6, <1>7 DEF Cef

\* The host loads a page, and ContentView mounts a view.
LEMMA LoadMirrored ==
    ASSUME CInv, NEW v \in Views, NEW url \in Pages, Load(v, url)
    PROVE  \A x \in Views : Mirrored(x)'
<1> DEFINE w == [web[v] EXCEPT !.URL = url]
<1>0. /\ browser \in [Views -> BrowserRecord] /\ web \in [Views -> WebRecord]
      /\ queue \in Seq(Blocks \cup {Reconcile})
  BY CTypes DEF CInv
<1>1. w.life = web[v].life /\ w.isLoading = web[v].isLoading /\ w.favicon = web[v].favicon
  <2>1. web[v] \in WebRecord
    BY <1>0
  <2> QED
    BY <2>1 DEF WebRecord
<1>2. web' = [web EXCEPT ![v] = w] /\ Alive(v)
  BY DEF Load, SetWeb
<1> HIDE DEF w
<1>3. web'[v] = w /\ \A x \in Views : x # v => web'[x] = web[x]
  BY <1>0, <1>2
<1>4. CASE browser[v].life = "live"
  <2>1. StartLoading(v, url)
    BY <1>4 DEF Load
  <2> QED
    BY <1>1, <1>3, <1>4, <2>1, NoPageAssumption, StartLoadingMirrored
<1>5. CASE browser[v].life # "live"
  <2>1. /\ queue' = queue
        /\ \A x \in Views : x # v => browser'[x] = browser[x]
        /\ browser'[v].life = browser[v].life /\ browser'[v].next = browser[v].next
        /\ browser'[v].page = browser[v].page /\ browser'[v].loading = browser[v].loading
        /\ browser'[v].icon = browser[v].icon
        /\ browser[v].life = "creating" => browser'[v].missed = TRUE
        /\ browser[v].life # "creating" => browser'[v] = browser[v]
    BY <1>0, <1>5 DEF Load, BrowserRecord
  <2>2. ASSUME NEW x \in Views, x # v PROVE Mirrored(x)'
    BY <1>3, <2>1, <2>2, OthersMirrored
  <2>3. Mirrored(v)
    BY DEF CInv
  <2>4. Early(v) => Early(v)'
    BY <2>1 DEF Early
  <2>5. /\ Ends(queue', web'[v], v, "isLoading", browser'[v].loading)
        /\ Ends(queue', web'[v], v, "icon", browser'[v].icon)
    BY <1>1, <1>2, <1>3, <2>1, <2>3 DEF Mirrored, Ends, Field
  <2>6. browser[v].life \in {"none", "creating"}
    BY <1>0, <1>2, <1>5, <2>3 DEF Mirrored, BrowserRecord
  <2>7. browser'[v].life # "none" => UrlEnds(v)'
    <3>1. None(queue, v, "URL")
      BY <1>2, <2>3, <2>6 DEF Mirrored, Early, Fields
    <3> QED
      BY <2>1, <2>6, <3>1 DEF UrlEnds
  <2> QED
    BY <1>1, <1>2, <1>3, <2>1, <2>2, <2>3, <2>4, <2>5, <2>6, <2>7 DEF Mirrored, Alive
<1> QED
  BY <1>4, <1>5

LEMMA CreateBrowserMirrored ==
    ASSUME CInv, NEW v \in Views, CreateBrowser(v)
    PROVE  \A x \in Views : Mirrored(x)'
<1>0. /\ browser \in [Views -> BrowserRecord] /\ web \in [Views -> WebRecord]
      /\ queue \in Seq(Blocks \cup {Reconcile})
  BY CTypes DEF CInv
<1>1. /\ web' = web /\ queue' = queue /\ Alive(v) /\ browser[v].life = "none"
      /\ \A x \in Views : x # v => browser'[x] = browser[x]
  BY <1>0 DEF CreateBrowser
<1>2. /\ browser'[v].life = "creating" /\ browser'[v].next = web[v].URL
      /\ browser'[v].page = browser[v].page /\ browser'[v].loading = browser[v].loading
      /\ browser'[v].icon = browser[v].icon
  BY <1>0 DEF CreateBrowser, BrowserRecord
<1>3. \A x \in Views : x # v => Mirrored(x)'
  BY <1>1, OthersMirrored
<1>4. Mirrored(v) /\ Early(v)
  BY <1>1 DEF CInv, Mirrored
<1>5. Early(v)'
  BY <1>1, <1>2, <1>4 DEF Early
<1>6. /\ Ends(queue', web'[v], v, "isLoading", browser'[v].loading)
      /\ Ends(queue', web'[v], v, "icon", browser'[v].icon)
  BY <1>1, <1>2, <1>4 DEF Mirrored
<1>7. UrlEnds(v)'
  <2>1. None(queue', v, "URL")
    BY <1>5 DEF Early, Fields
  <2>2. CASE web[v].URL = NoPage
    <3>1. browser'[v].page = NoPage
      BY <1>5 DEF Early
    <3>2. Field(web'[v], "URL") = NoPage
      BY <1>1, <2>2 DEF Field
    <3> QED
      BY <2>1, <3>1, <3>2 DEF UrlEnds, Ends
  <2>3. CASE web[v].URL # NoPage
    BY <1>2, <2>1, <2>3 DEF UrlEnds
  <2> QED
    BY <2>2, <2>3
<1>8. Mirrored(v)'
  BY <1>1, <1>2, <1>5, <1>6, <1>7 DEF Mirrored, Alive
<1> QED
  BY <1>3, <1>8

\* A block makes of a view what it writes, and nothing else.
LEMMA AfterWrites ==
    ASSUME NEW w \in WebRecord, NEW b \in Blocks, NEW f \in Fields
    PROVE  Field(After(w, b), f) = IF Writes(b, b.of, f) THEN Written(b, f) ELSE Field(w, f)
<1> USE DEF WebRecord, Fields, Field, Writes, Written
<1>1. CASE b \in [kind : {"isLoading"}, of : Views, value : BOOLEAN]
  <2>1. After(w, b) = [w EXCEPT !.isLoading = b.value] /\ b.kind = "isLoading"
    BY <1>1 DEF After
  <2> QED
    BY <2>1
<1>2. CASE b \in [kind : {"loadStart"}, of : Views, url : Pages]
  <2>1. After(w, b) = [w EXCEPT !.favicon = NoFavicon, !.URL = b.url] /\ b.kind = "loadStart"
    BY <1>2 DEF After, LoadStarted
  <2>2. NoFavicon.icon = 0
    BY DEF NoFavicon
  <2> QED
    BY <2>1, <2>2
<1>3. CASE b \in [kind : {"favicon"}, of : Views, icon : Icons]
  <2> DEFINE g == [icon |-> b.icon, image |-> 0]
  <2>1. After(w, b) = [w EXCEPT !.favicon = g] /\ b.kind = "favicon"
    BY <1>3 DEF After
  <2>2. g.icon = b.icon
    OBVIOUS
  <2> HIDE DEF g
  <2> QED
    BY <2>1, <2>2
<1>4. CASE b \in [kind : {"image"}, of : Views, icon : Icons, image : Icons]
  <2>1. After(w, b) = ImageFor(w, b) /\ b.kind = "image"
    BY <1>4 DEF After
  <2>2. CASE w.favicon.icon = b.icon
    <3> DEFINE g == [w.favicon EXCEPT !.image = b.image]
    <3>1. ImageFor(w, b) = [w EXCEPT !.favicon = g]
      BY <2>2 DEF ImageFor
    <3>2. g.icon = w.favicon.icon
      BY DEF FaviconRef
    <3> HIDE DEF g
    <3> QED
      BY <2>1, <3>1, <3>2
  <2>3. CASE w.favicon.icon # b.icon
    BY <2>1, <2>3 DEF ImageFor
  <2> QED
    BY <2>2, <2>3
<1> QED
  BY <1>1, <1>2, <1>3, <1>4 DEF Blocks

\* The main queue runs a view's block, if the view is still there.
LEMMA RunBlockMirrored ==
    ASSUME CInv, RunBlock
    PROVE  \A x \in Views : Mirrored(x)'
<1>0. /\ browser \in [Views -> BrowserRecord] /\ web \in [Views -> WebRecord]
      /\ queue \in Seq(Blocks \cup {Reconcile})
  BY CTypes DEF CInv
<1>1. /\ queue # <<>> /\ queue' = Tail(queue) /\ browser' = browser
      /\ "of" \in DOMAIN Head(queue)
  BY DEF RunBlock
<1>2. PICK b \in Blocks : b = Head(queue)
  <2>1. Head(queue) \in Blocks \cup {Reconcile}
    BY <1>0, <1>1
  <2>2. "of" \notin DOMAIN Reconcile
    BY DEF Reconcile
  <2> QED
    BY <1>1, <2>1, <2>2
<1>3. PICK v \in Views : v = b.of
  BY DEF Blocks
<1>4. /\ Alive(v) => web' = [web EXCEPT ![v] = After(web[v], b)]
      /\ ~Alive(v) => web' = web
  BY <1>2, <1>3 DEF RunBlock, SetWeb
<1>5. ASSUME NEW x \in Views, x # v PROVE Mirrored(x)'
  <2>1. \A f \in Fields : ~Writes(Head(queue), x, f)
    BY <1>2, <1>3, <1>5 DEF Writes
  <2>2. Passes(x)
    BY <1>0, <1>1, <2>1, PassesBy
  <2>3. web'[x] = web[x]
    BY <1>0, <1>4, <1>5
  <2> QED
    BY <1>1, <2>2, <2>3, MirroredStays DEF CInv
<1>6. CASE Alive(v)
  <2>1. web'[v] = After(web[v], b)
    BY <1>0, <1>4, <1>6
  <2>2. \A f \in Fields : Field(web'[v], f) =
            IF Writes(Head(queue), v, f) THEN Written(Head(queue), f) ELSE Field(web[v], f)
    BY <1>0, <1>2, <1>3, <2>1, AfterWrites
  <2>3. \A f \in Fields : None(queue, v, f) => None(queue', v, f)
    BY <1>0, <1>1, EndsTail
  <2>4. \A f \in Fields : \A y : Ends(queue, web[v], v, f, y) => Ends(queue', web'[v], v, f, y)
    BY <1>0, <1>1, <2>2, EndsTail
  <2>5. Mirrored(v)
    BY DEF CInv
  <2>6. Early(v) => Early(v)'
    BY <1>1, <2>3 DEF Early
  <2>7. "isLoading" \in Fields /\ "icon" \in Fields /\ "URL" \in Fields
    BY DEF Fields
  <2>8. UrlEnds(v) => UrlEnds(v)'
    BY <1>1, <2>3, <2>4, <2>7 DEF UrlEnds
  <2>9. web'[v].life = "alive"
    <3>1. /\ QueueInv /\ web[v].favicon.image \in {0, web[v].favicon.icon}
          /\ 1 \in DOMAIN queue /\ b = queue[1]
      BY <1>0, <1>1, <1>2 DEF CInv, IInv, MirrorInv, WebInv, ImageIsItsOwn
    <3>2. b.kind = "image" => b.image \in {0, b.icon}
      BY <3>1 DEF QueueInv, OwnImages
    <3> QED
      BY <1>0, <1>6, <2>1, <3>1, <3>2, AfterBlock DEF Alive
  <2>10. Mirrored(v)'
    <3>1. /\ Ends(queue', web'[v], v, "isLoading", browser[v].loading)
          /\ Ends(queue', web'[v], v, "icon", browser[v].icon)
      BY <1>6, <2>4, <2>5, <2>7 DEF Mirrored
    <3> QED
      BY <1>1, <1>6, <2>5, <2>6, <2>8, <2>9, <3>1 DEF Mirrored, Alive
  <2> QED
    BY <1>5, <2>10
<1>7. CASE ~Alive(v)
  <2>1. web'[v] = web[v] /\ browser'[v] = browser[v]
    BY <1>1, <1>4, <1>7
  <2>2. CASE web[v].life = "unborn"
    <3>1. \A f \in Fields : None(queue, v, f)
      BY <2>2 DEF CInv, Mirrored, Early
    <3>2. \A f \in Fields : ~Writes(Head(queue), v, f)
      <4>1. 1 \in DOMAIN queue /\ Head(queue) = queue[1]
        BY <1>0, <1>1
      <4> QED
        BY <3>1, <4>1 DEF None
    <3>3. Passes(v)
      BY <1>0, <1>1, <3>2, PassesBy
    <3> QED
      BY <1>5, <2>1, <3>3, MirroredStays DEF CInv
  <2>3. CASE web[v].life # "unborn"
    <3>1. Mirrored(v)'
      BY <1>7, <2>1, <2>3 DEF Mirrored, Alive
    <3> QED
      BY <1>5, <3>1
  <2> QED
    BY <2>2, <2>3
<1> QED
  BY <1>6, <1>7

\* A step that leaves each view alone or drops it.
LEMMA DropMirrored ==
    ASSUME CInv,
           queue' = queue \/ queue' = Append(queue, Reconcile)
           \/ (queue # <<>> /\ Head(queue) = Reconcile /\ queue' = Tail(queue)),
           \A x \in Views : \/ web'[x].life = "dead"
                            \/ web'[x] = web[x] /\ browser'[x] = browser[x]
    PROVE  \A x \in Views : Mirrored(x)'
<1> SUFFICES ASSUME NEW x \in Views PROVE Mirrored(x)'
  OBVIOUS
<1>1. Passes(x)
  BY CTypes, PassesBy, ReconcileWrites DEF CInv
<1> QED
  BY <1>1, MirroredStays DEF CInv

LEMMA ReleaseMirrored ==
    ASSUME CInv, NEW dropped, Release(dropped),
           queue' = queue \/ (queue # <<>> /\ Head(queue) = Reconcile /\ queue' = Tail(queue))
    PROVE  \A x \in Views : Mirrored(x)'
<1>1. \A x \in Views : \/ web'[x].life = "dead"
                       \/ web'[x] = web[x] /\ browser'[x] = browser[x]
  BY DEF Release, Unborn
<1> QED
  BY <1>1, DropMirrored

LEMMA TabsChangeMirrored ==
    ASSUME CInv, NEW newTabs, TabsChange(newTabs), UNCHANGED <<web, browser>>
    PROVE  \A x \in Views : Mirrored(x)'
<1>1. queue' = queue \/ queue' = Append(queue, Reconcile)
  BY DEF TabsChange
<1> QED
  BY <1>1, DropMirrored

\* A tab wakes with a new view.
LEMMA WakeMirrored ==
    ASSUME CInv, NEW v, NEW url, NewWeb(v, url), UNCHANGED <<browser, queue>>
    PROVE  \A x \in Views : Mirrored(x)'
<1> SUFFICES ASSUME NEW x \in Views PROVE Mirrored(x)'
  OBVIOUS
<1>1. Passes(x)
  BY CTypes, PassesBy DEF CInv
<1>2. browser[v] = NoBrowser /\ (x # v => Mirrored(x)')
  BY <1>1, NewWebMirrored
<1>3. x = v => Mirrored(x)'
  BY <1>1, <1>2, NewWebMirrored
<1> QED
  BY <1>2, <1>3

\* A popup's shell has its browser made for it at once.
LEMMA PopupMirrored ==
    ASSUME CInv, NEW o \in Views, NEW v \in Views, NEW t \in Tabs, NEW p \in Pages, NEW f \in BOOLEAN,
           RequestsNewTab(o, v, t, p, f)
    PROVE  \A x \in Views : Mirrored(x)'
<1> SUFFICES ASSUME NEW x \in Views PROVE Mirrored(x)'
  OBVIOUS
<1>1. /\ queue' = queue \/ queue' = Append(queue, Reconcile)
      /\ NewWeb(v, NoPage)
      /\ browser' = [browser EXCEPT ![v].life = "creating", ![v].next = p]
  BY DEF RequestsNewTab, InsertTab, TabsChange
<1>2. Passes(x)
  BY <1>1, CTypes, PassesBy, ReconcileWrites DEF CInv
<1>3. x # v => browser'[x] = browser[x]
  BY <1>1, CTypes DEF CInv
<1>4. browser[v] = NoBrowser /\ (x # v => Mirrored(x)')
  BY <1>1, <1>2, <1>3, NewWebMirrored
<1>5. browser'[v] = [NoBrowser EXCEPT !.life = "creating", !.next = p]
  BY <1>1, <1>4, CTypes DEF CInv
<1>6. x = v => Mirrored(x)'
  BY <1>1, <1>2, <1>3, <1>5, NewWebMirrored
<1> QED
  BY <1>4, <1>6

\* After a launch the old views are gone, and the selected tab has a new one.
LEMMA RelaunchMirrored ==
    ASSUME CInv, Relaunch
    PROVE  \A x \in Views : Mirrored(x)'
<1> SUFFICES ASSUME NEW x \in Views PROVE Mirrored(x)'
  OBVIOUS
<1> DEFINE old == [v \in Views |-> IF Alive(v) THEN [Unborn EXCEPT !.life = "dead"] ELSE web[v]]
<1>1. /\ queue' = <<>>
      /\ ~Alive(x) => browser'[x] = browser[x]
  BY DEF Relaunch
<1>2. old[x] = IF Alive(x) THEN [Unborn EXCEPT !.life = "dead"] ELSE web[x]
  OBVIOUS
<1>3. PICK t, restored : Appear(t, restored)
  BY DEF Relaunch
<1>4. \/ web' = old
      \/ \E v \in Views : /\ UnbornViews # {} /\ v = FreshView
                          /\ web' = [old EXCEPT ![v] = [Unborn EXCEPT !.life = "alive",
                                                                      !.URL = restored[t].url]]
  BY <1>3 DEF Appear
<1>5. \A f : None(queue', x, f)
  BY <1>1 DEF None
<1>6. ASSUME web'[x] = old[x] PROVE Mirrored(x)'
  <2>1. CASE Alive(x)
    <3>1. web'[x].life = "dead"
      BY <1>2, <1>6, <2>1 DEF Unborn
    <3> QED
      BY <3>1 DEF Mirrored, Alive
  <2>2. CASE ~Alive(x)
    BY <1>1, <1>2, <1>5, <1>6, <2>2 DEF CInv, Mirrored, Alive, Early
  <2> QED
    BY <2>1, <2>2
<1>7. ASSUME NEW v \in Views, UnbornViews # {}, v = FreshView,
             web' = [old EXCEPT ![v] = [Unborn EXCEPT !.life = "alive", !.URL = restored[t].url]]
      PROVE  Mirrored(x)'
  <2>1. CASE x # v
    BY <1>6, <1>7, <2>1
  <2>2. CASE x = v
    <3>1. web[x].life = "unborn"
      BY <1>7, <2>2 DEF FreshView, UnbornViews
    <3>2. browser'[x] = NoBrowser
      BY <1>1, <3>1 DEF CInv, Mirrored, Alive
    <3>3. /\ browser'[x].life = "none" /\ browser'[x].page = NoPage
          /\ browser'[x].loading = FALSE /\ browser'[x].icon = 0
      BY <3>2 DEF NoBrowser
    <3>4. web'[x] = [Unborn EXCEPT !.life = "alive", !.URL = restored[t].url]
      BY <1>7, <2>2
    <3>5. web'[x].life = "alive" /\ web'[x].isLoading = FALSE /\ web'[x].favicon.icon = 0
      BY <3>4 DEF Unborn, NoFavicon
    <3>6. Early(x)'
      BY <1>5, <3>3 DEF Early
    <3>7. /\ Ends(queue', web'[x], x, "isLoading", browser'[x].loading)
          /\ Ends(queue', web'[x], x, "icon", browser'[x].icon)
      BY <1>5, <3>3, <3>5 DEF Ends, Field
    <3> QED
      BY <3>3, <3>5, <3>6, <3>7 DEF Mirrored
  <2> QED
    BY <2>1, <2>2
<1> QED
  BY <1>4, <1>6, <1>7

LEMMA UserMirrored ==
    ASSUME CInv, User
    PROVE  \A x \in Views : Mirrored(x)'
<1>1. ASSUME NEW t \in Tabs, Wake(t) PROVE \A x \in Views : Mirrored(x)'
  BY <1>1, WakeMirrored DEF Wake, WakeWith
<1>2. ASSUME NEW t \in Tabs, Hibernate(t) PROVE \A x \in Views : Mirrored(x)'
  BY <1>2, ReleaseMirrored DEF Hibernate
<1>3. ASSUME NEW t \in Tabs, NewTab(t) PROVE \A x \in Views : Mirrored(x)'
  BY <1>3, TabsChangeMirrored DEF NewTab, InsertTab
<1>4. ASSUME NEW t \in Tabs, Select(t) \/ CloseTab(t) PROVE \A x \in Views : Mirrored(x)'
  BY <1>4, DropMirrored DEF Select, CloseTab, mirrorVars
<1>5. ASSUME NEW p \in Pages, Navigate(p) PROVE \A x \in Views : Mirrored(x)'
  <2>1. selected \in Tabs /\ live[selected] \in Views \cup {NoView}
    BY <1>5 DEF Navigate, CInv, IInv, TabInv, TabTypes
  <2>2. CASE Awake(selected) /\ Load(live[selected], p)
    <3>1. PICK v \in Views : v = live[selected]
      BY <2>1, <2>2 DEF Awake
    <3> QED
      BY <2>2, <3>1, LoadMirrored
  <2>3. ASSUME NEW v \in Views, NewWeb(v, p), UNCHANGED <<browser, queue>>
        PROVE  \A x \in Views : Mirrored(x)'
    BY <2>3, WakeMirrored
  <2> QED
    BY <1>5, <2>2, <2>3 DEF Navigate
<1> QED
  BY <1>1, <1>2, <1>3, <1>4, <1>5, RelaunchMirrored DEF User

LEMMA ProgramMirrored ==
    ASSUME CInv, Program
    PROVE  \A x \in Views : Mirrored(x)'
<1>1. CASE Render
  <2>1. UNCHANGED <<browser, queue>> /\ WakeSelected(selected)
    BY <1>1 DEF Render
  <2>2. ASSUME NEW v \in Views, WakeWith(selected, v) PROVE \A x \in Views : Mirrored(x)'
    BY <2>1, <2>2, WakeMirrored DEF WakeWith
  <2>3. CASE web' = web
    BY <2>1, <2>3, DropMirrored
  <2> QED
    BY <2>1, <2>2, <2>3 DEF WakeSelected
<1>2. CASE Save
  BY <1>2, TabsChangeMirrored DEF Save
<1>3. CASE ReconcileLiveTabs
  BY <1>3, ReleaseMirrored DEF ReconcileLiveTabs
<1>4. CASE RunBlock
  BY <1>4, RunBlockMirrored
<1>5. ASSUME NEW t \in Tabs, Mount(t) PROVE \A x \in Views : Mirrored(x)'
  <2>1. PICK v \in Views : v = live[t]
    BY <1>5 DEF Mount, Awake, CInv, IInv, TabInv, TabTypes
  <2> QED
    BY <1>5, <2>1, CreateBrowserMirrored DEF Mount
<1> QED
  BY <1>1, <1>2, <1>3, <1>4, <1>5 DEF Program

LEMMA StepCInv == CInv /\ [Next]_vars => CInv'
<1> SUFFICES ASSUME CInv, [Next]_vars PROVE CInv'
  OBVIOUS
<1>1. IInv'
  BY StepIInv DEF CInv
<1>2. ASSUME User PROVE \A x \in Views : Mirrored(x)'
  BY <1>2, UserMirrored
<1>3. ASSUME Popup PROVE \A x \in Views : Mirrored(x)'
  BY <1>3, PopupMirrored DEF Popup
<1>4. ASSUME Cef PROVE \A x \in Views : Mirrored(x)'
  BY <1>4, CefMirrored
<1>5. ASSUME SwiftUI PROVE \A x \in Views : Mirrored(x)'
  BY <1>5, DropMirrored DEF SwiftUI, Observable
<1>6. ASSUME Program PROVE \A x \in Views : Mirrored(x)'
  BY <1>6, ProgramMirrored
<1>7. ASSUME UNCHANGED vars PROVE \A x \in Views : Mirrored(x)'
  BY <1>7, DropMirrored DEF vars, mirrorVars
<1>8. \A x \in Views : Mirrored(x)'
  BY <1>2, <1>3, <1>4, <1>5, <1>6, <1>7 DEF Next
<1> QED
  BY <1>1, <1>8 DEF CInv

\* Once no block of a view waits, it shows its browser's loading state and favicon
\* and, unless a load of it was missed or the page moved within its document, which
\* CEF does not report to it, its URL: however loads, navigations, favicons, wakings
\* and hibernations interleave, the copies never settle on an old value.
THEOREM CopiesFollow == Spec => []CopiesConverge
<1>1. Spec => []CInv
  BY InitCInv, StepCInv, PTL DEF Spec
<1>2. CInv => CopiesConverge
  <2> SUFFICES ASSUME CInv, NEW v \in Views, Alive(v), browser[v].life = "live", ~Queued(v)
               PROVE  /\ web[v].isLoading = browser[v].loading
                      /\ web[v].favicon.icon = browser[v].icon
                      /\ browser[v].next = NoPage /\ ~browser[v].missed
                         => web[v].URL = browser[v].page
    BY DEF CopiesConverge
  <2>1. \A f : None(queue, v, f)
    <3> SUFFICES ASSUME NEW f, NEW i \in DOMAIN queue, Writes(queue[i], v, f) PROVE FALSE
      BY DEF None
    <3>1. queue[i] \in Blocks \cup {Reconcile}
      BY CTypes DEF CInv
    <3>2. queue[i] # Reconcile
      BY ReconcileWrites
    <3>3. "of" \in DOMAIN queue[i]
      BY <3>1, <3>2 DEF Blocks
    <3> QED
      BY <3>3 DEF Writes, Queued
  <2>2. /\ Field(web[v], "isLoading") = browser[v].loading
        /\ Field(web[v], "icon") = browser[v].icon
    BY <2>1 DEF CInv, Mirrored, Ends, None
  <2>3. Field(web[v], "URL") = browser[v].page \/ browser[v].next # NoPage \/ browser[v].missed
    BY <2>1 DEF CInv, Mirrored, UrlEnds, Ends, None
  <2> QED
    BY <2>2, <2>3 DEF Field
<1> QED
  BY <1>1, <1>2, PTL

=============================================================================
