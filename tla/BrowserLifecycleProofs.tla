----------------------- MODULE BrowserLifecycleProofs -----------------------
(***************************************************************************)
(* Theorems about BrowserLifecycle, for every set of views, browsers,      *)
(* sizes, URLs and zoom factors: types, that no view calls a browser that  *)
(* is closed or another view's, that a view gets one browser, and that     *)
(* what the host asks of a view reaches the browser it gets.               *)
(***************************************************************************)
EXTENDS BrowserLifecycle, TLAPS

IInv == TypeOK /\ NoDanglingBrowser

\* Appending a block to the queue, and taking one.
LEMMA QueueAppend ==
    ASSUME queue \in Seq(Blocks), NEW x \in Blocks
    PROVE  Append(queue, x) \in Seq(Blocks)
OBVIOUS

LEMMA QueueTail ==
    ASSUME queue \in Seq(Blocks), queue # <<>>
    PROVE  Head(queue) \in Blocks /\ Tail(queue) \in Seq(Blocks)
OBVIOUS

\* The records a view or a browser begins and ends with.
LEMMA Records ==
    /\ Unborn \in ViewRecord /\ Dead \in ViewRecord
    /\ [Unborn EXCEPT !.life = "alive"] \in ViewRecord
    /\ [Unborn EXCEPT !.life = "alive", !.created = TRUE] \in ViewRecord
    /\ \A c \in Views : \A l \in {"unused", "closed"} : Absent(l, c) \in BrowserRecord
BY FirstUrlAssumption DEF Unborn, Dead, ViewRecord, Absent, BrowserRecord

LEMMA InitIInv == Init => IInv
<1> SUFFICES ASSUME Init PROVE IInv
  OBVIOUS
<1> USE DEF Init
<1>1. (CHOOSE v \in Views : TRUE) \in Views
  BY ViewsAssumption
<1>2. view \in [Views -> ViewRecord] /\ browser \in [Browsers -> BrowserRecord]
  BY <1>1, Records
<1>3. queue \in Seq(Blocks)
  <2>1. queue = <<>>
    OBVIOUS
  <2> HIDE DEF Init
  <2> QED
    BY <2>1
<1>4. TypeOK
  BY <1>2, <1>3 DEF TypeOK
<1>5. NoDanglingBrowser
  BY DEF NoDanglingBrowser, Attached
<1> QED
  BY <1>4, <1>5 DEF IInv

\* What a step that replaces one browser's record has to show.
LEMMA OneBrowserChanges ==
    ASSUME IInv, NEW b \in Browsers, NEW r \in BrowserRecord,
           browser' = [browser EXCEPT ![b] = r],
           browserOf' = browserOf,
           browser[b].life \in {"live", "closing"}
               => r.life \in {"live", "closing"} /\ r.client = browser[b].client
    PROVE  browser' \in [Browsers -> BrowserRecord] /\ NoDanglingBrowser'
BY DEF IInv, TypeOK, NoDanglingBrowser, Attached, Present

\* The fields a view sets in its child keep a browser what it is.
Becomes(r, q) ==
    q \in BrowserRecord /\ q.client = r.client /\ q.life \in {r.life, "closing"}

LEMMA Fields ==
    ASSUME NEW r \in BrowserRecord
    PROVE  /\ \A n \in Nat : Becomes(r, [r EXCEPT !.size = n])
           /\ \A u \in Urls : Becomes(r, [r EXCEPT !.url = u])
           /\ \A z \in Zooms \cup {1} : Becomes(r, [r EXCEPT !.zoom = z])
           /\ \A n \in Nat, z \in Zooms \cup {1} : Becomes(r, [r EXCEPT !.size = n, !.zoom = z])
           /\ Becomes(r, [r EXCEPT !.life = "closing"])
BY DEF BrowserRecord, Becomes

\* A view's geometry and zoom are numbers.
LEMMA ViewFields ==
    ASSUME NEW w \in ViewRecord
    PROVE  w.size \in Nat /\ w.url \in Urls /\ w.zoom \in Zooms \cup {1}
<1>1. w.size \in Sizes \cup {0} /\ w.url \in Urls /\ w.zoom \in Zooms \cup {1}
  BY DEF ViewRecord
<1>2. \A x \in Sizes \cup {0} : x \in Nat
  BY SizesAssumption
<1> QED
  BY <1>1, <1>2

\* The browser a view has is there, and the view's own.
LEMMA Child ==
    ASSUME IInv, NEW v \in Views, Attached(v)
    PROVE  /\ browserOf[v] \in Browsers
           /\ browser[browserOf[v]] \in BrowserRecord
           /\ browser[browserOf[v]].life \in {"live", "closing"}
BY DEF IInv, TypeOK, NoDanglingBrowser, Attached, Present

\* A step that leaves CEF's browsers and the clients alone.
LEMMA NoBrowserChanges ==
    ASSUME IInv, browser' = browser, browserOf' = browserOf
    PROVE  browser' \in [Browsers -> BrowserRecord] /\ NoDanglingBrowser'
BY DEF IInv, TypeOK, NoDanglingBrowser, Attached, Present

\* A browser that CEF begins to create was nobody's.
LEMMA CreatingIInv ==
    ASSUME IInv, NEW b \in Browsers, NEW v \in Views, NEW size \in Nat, NEW url \in Urls,
           Creating(b, v, size, url), browserOf' = browserOf
    PROVE  browser' \in [Browsers -> BrowserRecord] /\ NoDanglingBrowser'
<1> DEFINE r == [life |-> "creating", client |-> v, size |-> size, url |-> url, zoom |-> 1]
<1>1. browser[b].life = "unused"
  BY DEF Creating, IsFreshBrowser
<1>2. r \in BrowserRecord
  BY DEF BrowserRecord
<1>3. browser' = [browser EXCEPT ![b] = r]
  BY DEF Creating
<1> QED
  BY <1>1, <1>2, <1>3, OneBrowserChanges

\* The view a step makes for a popup.
LEMMA NewShellTypes ==
    ASSUME IInv, NEW v \in Views, NewShell(v)
    PROVE  view' \in [Views -> ViewRecord] /\ owned' \in [Views -> BOOLEAN]
BY Records DEF NewShell, IInv, TypeOK

\* A view asks for its browser, with its new geometry.
LEMMA CreateBrowserIInv ==
    ASSUME IInv, NEW v \in Views, NEW w \in ViewRecord, CreateBrowser(v, w)
    PROVE  IInv'
<1>1. PICK b \in Browsers : Creating(b, v, w.size, w.url)
  BY DEF CreateBrowser
<1>2. w.size \in Nat /\ w.url \in Urls
  BY ViewFields
<1>3. [w EXCEPT !.created = TRUE] \in ViewRecord
  BY DEF ViewRecord
<1>4. view' \in [Views -> ViewRecord] /\ owned' \in [Views -> BOOLEAN]
  BY <1>3 DEF CreateBrowser, IInv, TypeOK
<1>5. browser' \in [Browsers -> BrowserRecord] /\ NoDanglingBrowser'
  BY <1>1, <1>2, CreatingIInv DEF CreateBrowser
<1> QED
  BY <1>4, <1>5 DEF CreateBrowser, IInv, TypeOK, ghosts

\* Views are made and moved into a window.
LEMMA MoveIInv ==
    ASSUME IInv, NEW v \in Views, NewView(v) \/ ViewDidMoveToWindow(v)
    PROVE  IInv'
<1>1. CASE NewView(v)
  <2>1. view' \in [Views -> ViewRecord]
    BY <1>1, Records DEF NewView, IInv, TypeOK
  <2> QED
    BY <1>1, <2>1 DEF NewView, IInv, TypeOK, NoDanglingBrowser, Attached, Present, ghosts
<1>2. CASE ViewDidMoveToWindow(v)
  <2> DEFINE w == [view[v] EXCEPT !.window = TRUE]
  <2>1. w \in ViewRecord
    BY ZenonT(60) DEF IInv, TypeOK, ViewRecord
  <2>2. CASE CreateBrowser(v, w)
    BY <2>1, <2>2, CreateBrowserIInv
  <2>3. CASE view' = [view EXCEPT ![v] = w] /\ UNCHANGED <<browserOf, owned, browser, queue, ghosts>>
    BY <2>1, <2>3 DEF IInv, TypeOK, NoDanglingBrowser, Attached, Present, ghosts
  <2> QED
    BY <1>2, <2>2, <2>3 DEF ViewDidMoveToWindow
<1> QED
  BY <1>1, <1>2

\* Views are resized, and their child with them.
LEMMA ResizeIInv ==
    ASSUME IInv, NEW v \in Views, NEW s \in Sizes, SetFrameSize(v, s)
    PROVE  IInv'
<1> DEFINE w == [view[v] EXCEPT !.size = s]
<1>1. w \in ViewRecord
  BY DEF IInv, TypeOK, ViewRecord
<1>2. CASE CreateBrowser(v, w)
  BY <1>1, <1>2, CreateBrowserIInv
<1>3. CASE view' = [view EXCEPT ![v] = w] /\ browser' = SyncedChild(v, s)
           /\ UNCHANGED <<browserOf, owned, queue, ghosts>>
  <2>1. browser' \in [Browsers -> BrowserRecord] /\ NoDanglingBrowser'
    <3>1. CASE Attached(v)
      <4> DEFINE r == [browser[browserOf[v]] EXCEPT !.size = s]
      <4>1. s \in Nat
        BY SizesAssumption
      <4>2. Becomes(browser[browserOf[v]], r)
        BY <3>1, <4>1, Child, Fields
      <4>3. browser' = [browser EXCEPT ![browserOf[v]] = r]
        BY <1>3, <3>1 DEF SyncedChild
      <4> HIDE DEF r
      <4> QED
        BY <1>3, <3>1, <4>2, <4>3, Child, OneBrowserChanges DEF Becomes
    <3>2. CASE ~Attached(v)
      BY <1>3, <3>2, NoBrowserChanges DEF SyncedChild
    <3> QED
      BY <3>1, <3>2
  <2> QED
    BY <1>1, <1>3, <2>1 DEF IInv, TypeOK, ghosts
<1> QED
  BY <1>2, <1>3 DEF SetFrameSize

\* Views load, zoom and are dropped.
LEMMA LoadIInv ==
    ASSUME IInv, NEW v \in Views, NEW u \in Urls, Load(v, u)
    PROVE  IInv'
<1>1. view' \in [Views -> ViewRecord]
  BY DEF Load, Loaded, IInv, TypeOK, ViewRecord
<1>2. browser' \in [Browsers -> BrowserRecord] /\ NoDanglingBrowser'
  <2>1. CASE Attached(v)
    <3> DEFINE r == [browser[browserOf[v]] EXCEPT !.url = u]
    <3>1. Becomes(browser[browserOf[v]], r)
      BY <2>1, Child, Fields
    <3>2. browser' = [browser EXCEPT ![browserOf[v]] = r]
      BY <2>1 DEF Load, Loaded
    <3>3. browserOf' = browserOf
      BY <2>1 DEF Load
    <3> HIDE DEF r
    <3> QED
      BY <2>1, <3>1, <3>2, <3>3, Child, OneBrowserChanges DEF Becomes
  <2>2. CASE ~Attached(v)
    BY <2>2, NoBrowserChanges DEF Load, Loaded
  <2> QED
    BY <2>1, <2>2
<1> QED
  BY <1>1, <1>2 DEF Load, Haste, IInv, TypeOK

LEMMA ZoomIInv ==
    ASSUME IInv, NEW v \in Views, NEW z \in Zooms, SetZoomFactor(v, z)
    PROVE  IInv'
<1>1. view' \in [Views -> ViewRecord]
  <2>1. [view[v] EXCEPT !.zoom = z] \in ViewRecord
    BY DEF IInv, TypeOK, ViewRecord
  <2> QED
    BY <2>1 DEF SetZoomFactor, IInv, TypeOK
<1>2. browser' \in [Browsers -> BrowserRecord] /\ NoDanglingBrowser'
  <2>1. CASE Attached(v)
    <3> DEFINE r == [browser[browserOf[v]] EXCEPT !.zoom = z]
    <3>1. Becomes(browser[browserOf[v]], r)
      BY <2>1, Child, Fields
    <3>2. browser' = [browser EXCEPT ![browserOf[v]] = r]
      BY <2>1 DEF SetZoomFactor, ZoomedChild
    <3>3. browserOf' = browserOf
      BY <2>1 DEF SetZoomFactor
    <3> HIDE DEF r
    <3> QED
      BY <2>1, <3>1, <3>2, <3>3, Child, OneBrowserChanges DEF Becomes
  <2>2. CASE ~Attached(v)
    BY <2>2, NoBrowserChanges DEF SetZoomFactor, ZoomedChild
  <2> QED
    BY <2>1, <2>2
<1> QED
  BY <1>1, <1>2 DEF SetZoomFactor, IInv, TypeOK, ghosts

LEMMA DeallocIInv ==
    ASSUME IInv, NEW v \in Views, Dealloc(v)
    PROVE  IInv'
<1>1. view' \in [Views -> ViewRecord] /\ owned' \in [Views -> BOOLEAN]
  BY Records DEF Dealloc, IInv, TypeOK
<1>2. browser' \in [Browsers -> BrowserRecord] /\ NoDanglingBrowser'
  <2>1. CASE Attached(v)
    <3> DEFINE r == [browser[browserOf[v]] EXCEPT !.life = "closing"]
    <3>1. Becomes(browser[browserOf[v]], r)
      BY <2>1, Child, Fields
    <3>2. browser' = [browser EXCEPT ![browserOf[v]] = r]
      BY <2>1 DEF Dealloc
    <3>3. browserOf' = browserOf
      BY <2>1 DEF Dealloc
    <3> HIDE DEF r
    <3> QED
      BY <2>1, <3>1, <3>2, <3>3, Child, OneBrowserChanges DEF Becomes
  <2>2. CASE ~Attached(v)
    BY <2>2, NoBrowserChanges DEF Dealloc
  <2> QED
    BY <2>1, <2>2
<1> QED
  BY <1>1, <1>2 DEF Dealloc, Haste, IInv, TypeOK

\* CEF finishes, gives up and closes browsers.
LEMMA CefIInv ==
    ASSUME IInv, NEW b \in Browsers,
           OnAfterCreated(b) \/ CreationAborted(b) \/ OnBeforeClose(b)
    PROVE  IInv'
<1> DEFINE c == browser[b].client
<1>1. c \in Views
  BY DEF IInv, TypeOK, BrowserRecord
<1>2. Absent("closed", c) \in BrowserRecord
  BY <1>1, Records
<1>3. CASE OnAfterCreated(b)
  <2>1. browser' \in [Browsers -> BrowserRecord]
    BY <1>3 DEF OnAfterCreated, IInv, TypeOK, BrowserRecord
  <2>2. [kind |-> "didCreate", of |-> c] \in Blocks
    BY <1>1 DEF Blocks
  <2>3. queue' \in Seq(Blocks)
    BY <1>3, <2>2, QueueAppend DEF OnAfterCreated, IInv, TypeOK
  <2>4. browserOf' \in [Views -> Browsers \cup {NoBrowser}]
    BY <1>3, <1>1 DEF OnAfterCreated, IInv, TypeOK
  <2>5. NoDanglingBrowser'
    BY <1>3, <1>1 DEF OnAfterCreated, IInv, TypeOK, NoDanglingBrowser, Attached, Present, BrowserRecord
  <2> QED
    BY <1>3, <2>1, <2>3, <2>4, <2>5 DEF OnAfterCreated, IInv, TypeOK, ghosts
<1>4. CASE CreationAborted(b)
  <2>1. browser' = [browser EXCEPT ![b] = Absent("closed", c)]
    BY <1>4 DEF CreationAborted, IInv, TypeOK
  <2>2. browser' \in [Browsers -> BrowserRecord] /\ NoDanglingBrowser'
    BY <1>4, <1>2, <2>1, OneBrowserChanges DEF CreationAborted
  <2> QED
    BY <1>4, <2>2 DEF CreationAborted, IInv, TypeOK, ghosts
<1>5. CASE OnBeforeClose(b)
  <2>1. browser' = [browser EXCEPT ![b] = Absent("closed", c)]
    BY <1>5 DEF OnBeforeClose, IInv, TypeOK
  <2>2. browser' \in [Browsers -> BrowserRecord]
    BY <1>2, <2>1 DEF IInv, TypeOK
  <2>3. /\ browserOf' \in [Views -> Browsers \cup {NoBrowser}]
        /\ owned' \in [Views -> BOOLEAN]
    BY <1>5 DEF OnBeforeClose, IInv, TypeOK
  <2>4. NoDanglingBrowser'
    BY <1>1, <1>5, <2>1 DEF OnBeforeClose, IInv, TypeOK, NoDanglingBrowser, Attached, Present
  <2> QED
    BY <1>5, <2>2, <2>3, <2>4 DEF OnBeforeClose, IInv, TypeOK, ghosts
<1> QED
  BY <1>3, <1>4, <1>5

\* Pages open tabs and popups.
LEMMA PopupIInv ==
    ASSUME IInv, NEW a \in Browsers, NEW b \in Browsers,
           OnBeforePopup(a, b) \/ OnOpenURLFromTab(a)
    PROVE  IInv'
<1> DEFINE c == browser[a].client
<1>1. c \in Views
  BY DEF IInv, TypeOK, BrowserRecord
<1>2. CASE OnOpenURLFromTab(a)
  <2>1. [kind |-> "openTab", of |-> c] \in Blocks
    BY <1>1 DEF Blocks
  <2>2. queue' \in Seq(Blocks)
    BY <1>2, <2>1, QueueAppend DEF OnOpenURLFromTab, IInv, TypeOK
  <2> QED
    BY <1>2, <2>2 DEF OnOpenURLFromTab, IInv, TypeOK, NoDanglingBrowser, Attached, Present, ghosts
<1>3. CASE OnBeforePopup(a, b)
  <2>1. /\ browserOf' = browserOf /\ queue' = queue /\ hasty' = hasty
    BY <1>3 DEF OnBeforePopup
  <2>2. ASSUME NEW v \in Views, NewShell(v), Creating(b, v, 1, FirstUrl), astray' = astray
        PROVE  IInv'
    <3>1. browser' \in [Browsers -> BrowserRecord] /\ NoDanglingBrowser'
      BY <2>1, <2>2, CreatingIInv, FirstUrlAssumption
    <3>2. view' \in [Views -> ViewRecord] /\ owned' \in [Views -> BOOLEAN]
      BY <2>2, NewShellTypes
    <3> QED
      BY <2>1, <2>2, <3>1, <3>2 DEF IInv, TypeOK
  <2>3. CASE Creating(b, c, 1, FirstUrl) /\ astray' = astray \cup {c} /\ UNCHANGED <<view, owned>>
    <3>1. browser' \in [Browsers -> BrowserRecord] /\ NoDanglingBrowser'
      BY <1>1, <2>1, <2>3, CreatingIInv, FirstUrlAssumption
    <3> QED
      BY <1>1, <2>1, <2>3, <3>1 DEF IInv, TypeOK
  <2> QED
    BY <1>3, <2>2, <2>3 DEF OnBeforePopup
<1> QED
  BY <1>2, <1>3

\* The blocks of the queue.
LEMMA BlocksIInv ==
    ASSUME IInv, BrowserDidCreate \/ OpenTab
    PROVE  IInv'
<1>1. queue' \in Seq(Blocks)
  BY QueueTail DEF BrowserDidCreate, OpenTab, IInv, TypeOK
<1>2. CASE BrowserDidCreate
  <2> DEFINE v == Head(queue).of
  <2>1. v \in Views
    BY <1>2, QueueTail DEF BrowserDidCreate, IInv, TypeOK, Blocks
  <2>2. view[v].size \in Nat /\ view[v].zoom \in Zooms \cup {1}
    BY <2>1, ViewFields DEF IInv, TypeOK
  <2>3. browser' \in [Browsers -> BrowserRecord] /\ NoDanglingBrowser'
    <3>1. CASE Alive(v) /\ Attached(v)
      <4> DEFINE r == [browser[browserOf[v]] EXCEPT !.size = view[v].size, !.zoom = view[v].zoom]
      <4>1. Becomes(browser[browserOf[v]], r)
        BY <2>1, <2>2, <3>1, Child, Fields
      <4>2. browser' = [browser EXCEPT ![browserOf[v]] = r]
        BY <1>2, <2>1, <3>1, Child DEF BrowserDidCreate, DidCreate, IInv, TypeOK
      <4> HIDE DEF r
      <4> QED
        BY <1>2, <2>1, <3>1, <4>1, <4>2, Child, OneBrowserChanges DEF BrowserDidCreate, Becomes
    <3>2. CASE ~(Alive(v) /\ Attached(v))
      BY <1>2, <3>2, NoBrowserChanges DEF BrowserDidCreate
    <3> QED
      BY <3>1, <3>2
  <2> QED
    BY <1>1, <1>2, <2>3 DEF BrowserDidCreate, IInv, TypeOK, ghosts
<1>3. CASE OpenTab
  <2>1. /\ view' \in [Views -> ViewRecord] /\ owned' \in [Views -> BOOLEAN]
        /\ astray' \subseteq Views
    BY <1>3, NewShellTypes DEF OpenTab, IInv, TypeOK
  <2> QED
    BY <1>1, <1>3, <2>1 DEF OpenTab, IInv, TypeOK, NoDanglingBrowser, Attached, Present
<1> QED
  BY <1>2, <1>3

\* Every step keeps the invariant.
LEMMA StepIInv == IInv /\ [Next]_vars => IInv'
<1> SUFFICES ASSUME IInv, [Next]_vars PROVE IInv'
  OBVIOUS
<1>1. ASSUME NEW v \in Views, NewView(v) \/ ViewDidMoveToWindow(v) \/ Dealloc(v) PROVE IInv'
  BY <1>1, MoveIInv, DeallocIInv
<1>2. ASSUME NEW v \in Views, NEW u \in Urls, Load(v, u) PROVE IInv'
  BY <1>2, LoadIInv
<1>3. ASSUME NEW v \in Views, NEW s \in Sizes, SetFrameSize(v, s) PROVE IInv'
  BY <1>3, ResizeIInv
<1>4. ASSUME NEW v \in Views, NEW z \in Zooms, SetZoomFactor(v, z) PROVE IInv'
  BY <1>4, ZoomIInv
<1>5. ASSUME NEW b \in Browsers, OnAfterCreated(b) \/ CreationAborted(b) \/ OnBeforeClose(b)
      PROVE IInv'
  BY <1>5, CefIInv
<1>6. ASSUME NEW b \in Browsers, OnOpenURLFromTab(b) PROVE IInv'
  BY <1>6, PopupIInv
<1>7. ASSUME NEW b \in Browsers, NEW p \in Browsers, OnBeforePopup(b, p) PROVE IInv'
  BY <1>7, PopupIInv
<1>8. CASE BrowserDidCreate \/ OpenTab
  BY <1>8, BlocksIInv
<1>9. CASE UNCHANGED vars
  BY <1>9 DEF IInv, TypeOK, NoDanglingBrowser, Attached, Present, vars, ghosts
<1> QED
  BY <1>1, <1>2, <1>3, <1>4, <1>5, <1>6, <1>7, <1>8, <1>9 DEF Next

LEMMA Inductive == Spec => []IInv
<1> QED
  BY InitIInv, StepIInv, PTL DEF Spec

\* Every variable keeps its type, for every set of views, browsers, sizes, URLs
\* and zoom factors.
THEOREM TypeCorrect == Spec => []TypeOK
<1>1. IInv => TypeOK
  BY DEF IInv
<1> QED
  BY <1>1, Inductive, PTL

\* browser_ never points to a browser that CEF has closed or that has another
\* client: OnAfterCreated sets it for the browser's own client and OnBeforeClose
\* clears it there, also when default popups share one client.
THEOREM NeverDangling == Spec => []NoDanglingBrowser
<1>1. IInv => NoDanglingBrowser
  BY DEF IInv
<1> QED
  BY <1>1, Inductive, PTL

-----------------------------------------------------------------------------
(***************************************************************************)
(* One browser per view.  A view that has a browser has asked for it or    *)
(* was made for it (CreatedOnce), and neither happens to it again.         *)
(***************************************************************************)
Exists(b) == browser[b].life \in {"creating", "live", "closing"}
Taken(v) == view[v].life = "dead" \/ (view[v].life = "alive" /\ view[v].created)

CreatedOnce == \A b \in Browsers : Exists(b) => Taken(browser[b].client)

OneInv == IInv /\ CreatedOnce /\ OneBrowserPerView

\* Present is Exists without those in creation.
LEMMA OneBrowser ==
    OneBrowserPerView <=>
        \A a, b \in Browsers : browser[a].client \notin astray =>
            /\ Present(a) => browserOf[browser[a].client] = a
            /\ Exists(a) /\ Exists(b) /\ browser[a].client = browser[b].client => a = b
BY DEF OneBrowserPerView, Exists

LEMMA InitOneInv == Init => OneInv
<1> SUFFICES ASSUME Init PROVE OneInv
  OBVIOUS
<1>1. \A b \in Browsers : browser[b].life = "unused"
  BY DEF Init, Absent
<1>2. CreatedOnce /\ OneBrowserPerView
  BY <1>1 DEF CreatedOnce, Exists, OneBrowserPerView, Present
<1> QED
  BY <1>2, InitIInv DEF OneInv

\* A step in which no browser comes or goes, and no view becomes untaken.
Quiet ==
    /\ browserOf' = browserOf /\ astray \subseteq astray'
    /\ \A b \in Browsers :
          /\ browser[b]'.client = browser[b].client
          /\ \/ browser[b]'.life = browser[b].life
             \/ browser[b].life = "live" /\ browser[b]'.life = "closing"
    /\ \A v \in Views : Taken(v) => Taken(v)'

LEMMA QuietOne ==
    ASSUME OneInv, Quiet
    PROVE  CreatedOnce' /\ OneBrowserPerView'
<1>1. \A b \in Browsers : /\ Exists(b)' => Exists(b)
                          /\ Present(b)' => Present(b)
                          /\ browser[b].client \in Views
  BY DEF Quiet, Exists, Present, OneInv, IInv, TypeOK, BrowserRecord
<1>2. CreatedOnce'
  BY <1>1 DEF CreatedOnce, Quiet, OneInv
<1>3. ASSUME NEW a \in Browsers, NEW b \in Browsers, browser[a]'.client \notin astray'
      PROVE  /\ Present(a)' => browserOf'[browser[a]'.client] = a
             /\ Exists(a)' /\ Exists(b)' /\ browser[a]'.client = browser[b]'.client => a = b
  BY <1>1, <1>3, OneBrowser DEF OneInv, Quiet
<1>4. OneBrowserPerView'
  BY <1>3 DEF OneBrowserPerView, Exists
<1> QED
  BY <1>2, <1>4

\* What a field of the child's record becomes comes and goes with nothing.
LEMMA ChildQuiet ==
    ASSUME IInv, NEW v \in Views, Attached(v), NEW q,
           Becomes(browser[browserOf[v]], q), browser' = [browser EXCEPT ![browserOf[v]] = q]
    PROVE  \A b \in Browsers :
               /\ browser[b]'.client = browser[b].client
               /\ \/ browser[b]'.life = browser[b].life
                  \/ browser[b].life = "live" /\ browser[b]'.life = "closing"
BY Child DEF IInv, TypeOK, Becomes

\* A view's record changes and its view does not become untaken.
LEMMA ViewQuiet ==
    ASSUME IInv, NEW v \in Views, NEW w, view' = [view EXCEPT ![v] = w],
           Taken(v) => w.life = "dead" \/ (w.life = "alive" /\ w.created)
    PROVE  \A x \in Views : Taken(x) => Taken(x)'
BY DEF IInv, TypeOK, Taken

\* Views are made, moved, resized, loaded and zoomed around their browser.
LEMMA HostQuiet ==
    ASSUME IInv, NEW v \in Views, NEW w \in ViewRecord,
           view' = [view EXCEPT ![v] = w], browserOf' = browserOf, UNCHANGED ghosts \/ Haste(v),
           Taken(v) => w.life = "dead" \/ (w.life = "alive" /\ w.created),
           \/ browser' = browser
           \/ /\ Attached(v)
              /\ \E q : /\ Becomes(browser[browserOf[v]], q)
                        /\ browser' = [browser EXCEPT ![browserOf[v]] = q]
    PROVE  Quiet
<1>1. \A x \in Views : Taken(x) => Taken(x)'
  BY ViewQuiet
<1>2. \A b \in Browsers :
          /\ browser[b]'.client = browser[b].client
          /\ \/ browser[b]'.life = browser[b].life
             \/ browser[b].life = "live" /\ browser[b]'.life = "closing"
  BY ChildQuiet
<1>3. astray' = astray
  BY DEF ghosts, Haste
<1> QED
  BY <1>1, <1>2, <1>3 DEF Quiet

LEMMA LoadQuiet ==
    ASSUME IInv, NEW v \in Views, NEW u \in Urls, Load(v, u)
    PROVE  Quiet
<1> DEFINE w == [view[v] EXCEPT !.url = u]
           q == [browser[browserOf[v]] EXCEPT !.url = u]
<1>1. w \in ViewRecord /\ view' = [view EXCEPT ![v] = w]
  BY DEF Load, Loaded, IInv, TypeOK, ViewRecord
<1>2. Taken(v) => w.life = "dead" \/ (w.life = "alive" /\ w.created)
  BY DEF Taken, IInv, TypeOK, ViewRecord
<1>3. CASE Attached(v)
  <2>1. Becomes(browser[browserOf[v]], q) /\ browser' = [browser EXCEPT ![browserOf[v]] = q]
    BY <1>3, Child, Fields DEF Load, Loaded
  <2> HIDE DEF w, q
  <2> QED
    BY <1>1, <1>2, <1>3, <2>1, HostQuiet DEF Load
<1>4. CASE ~Attached(v)
  BY <1>1, <1>2, <1>4, HostQuiet DEF Load, Loaded
<1> QED
  BY <1>3, <1>4

LEMMA ZoomQuiet ==
    ASSUME IInv, NEW v \in Views, NEW z \in Zooms, SetZoomFactor(v, z)
    PROVE  Quiet
<1> DEFINE w == [view[v] EXCEPT !.zoom = z]
           q == [browser[browserOf[v]] EXCEPT !.zoom = z]
<1>1. w \in ViewRecord
  BY DEF IInv, TypeOK, ViewRecord
<1>2. view' = [view EXCEPT ![v] = w]
  BY DEF SetZoomFactor
<1>3. Taken(v) => w.life = "dead" \/ (w.life = "alive" /\ w.created)
  BY DEF Taken, IInv, TypeOK, ViewRecord
<1>4. CASE Attached(v)
  <2>1. Becomes(browser[browserOf[v]], q) /\ browser' = [browser EXCEPT ![browserOf[v]] = q]
    BY <1>4, Child, Fields DEF SetZoomFactor, ZoomedChild
  <2> HIDE DEF w, q
  <2> QED
    BY <1>1, <1>2, <1>3, <1>4, <2>1, HostQuiet DEF SetZoomFactor
<1>5. CASE ~Attached(v)
  BY <1>1, <1>2, <1>3, <1>5, HostQuiet DEF SetZoomFactor, ZoomedChild
<1> QED
  BY <1>4, <1>5

LEMMA DeallocQuiet ==
    ASSUME IInv, NEW v \in Views, Dealloc(v)
    PROVE  Quiet
<1> DEFINE q == [browser[browserOf[v]] EXCEPT !.life = "closing"]
<1>1. view' = [view EXCEPT ![v] = Dead] /\ Dead \in ViewRecord /\ Dead.life = "dead"
  BY Records DEF Dealloc, Dead, Unborn
<1>2. CASE Attached(v)
  <2>1. Becomes(browser[browserOf[v]], q) /\ browser' = [browser EXCEPT ![browserOf[v]] = q]
    BY <1>2, Child, Fields DEF Dealloc
  <2> HIDE DEF q
  <2> QED
    BY <1>1, <1>2, <2>1, HostQuiet DEF Dealloc
<1>3. CASE ~Attached(v)
  BY <1>1, <1>3, HostQuiet DEF Dealloc
<1> QED
  BY <1>2, <1>3

\* Views that move or change size, without asking for a browser.
LEMMA LayoutQuiet ==
    ASSUME IInv, NEW v \in Views, NEW w \in ViewRecord, NEW s \in Nat,
           view' = [view EXCEPT ![v] = w], w.life = view[v].life, w.created = view[v].created,
           UNCHANGED <<browserOf, ghosts>>, browser' = browser \/ browser' = SyncedChild(v, s)
    PROVE  Quiet
<1> DEFINE q == [browser[browserOf[v]] EXCEPT !.size = s]
<1>1. Taken(v) => w.life = "dead" \/ (w.life = "alive" /\ w.created)
  BY DEF Taken
<1>2. CASE browser' = SyncedChild(v, s) /\ Attached(v)
  <2>1. Becomes(browser[browserOf[v]], q) /\ browser' = [browser EXCEPT ![browserOf[v]] = q]
    BY <1>2, Child, Fields DEF SyncedChild
  <2> HIDE DEF q
  <2> QED
    BY <1>1, <1>2, <2>1, HostQuiet
<1>3. CASE browser' = browser
  BY <1>1, <1>3, HostQuiet
<1> QED
  BY <1>2, <1>3 DEF SyncedChild

\* The blocks of the queue, and the click behind one of them.
LEMMA BlocksQuiet ==
    ASSUME IInv, BrowserDidCreate \/ OpenTab \/ (\E a \in Browsers : OnOpenURLFromTab(a))
    PROVE  Quiet
<1>1. CASE BrowserDidCreate
  <2> DEFINE v == Head(queue).of
             q == [browser[browserOf[v]] EXCEPT !.size = view[v].size, !.zoom = view[v].zoom]
  <2>1. v \in Views
    BY <1>1, QueueTail DEF BrowserDidCreate, IInv, TypeOK, Blocks
  <2>2. view[v].size \in Nat /\ view[v].zoom \in Zooms \cup {1}
    BY <2>1, ViewFields DEF IInv, TypeOK
  <2>3. CASE Alive(v) /\ Attached(v)
    <3>1. Becomes(browser[browserOf[v]], q)
      BY <2>1, <2>2, <2>3, Child, Fields
    <3>2. browser' = [browser EXCEPT ![browserOf[v]] = q]
      BY <1>1, <2>1, <2>3, Child DEF BrowserDidCreate, DidCreate, IInv, TypeOK
    <3> HIDE DEF q
    <3>3. \A b \in Browsers :
              /\ browser[b]'.client = browser[b].client
              /\ \/ browser[b]'.life = browser[b].life
                 \/ browser[b].life = "live" /\ browser[b]'.life = "closing"
      BY <2>1, <2>3, <3>1, <3>2, ChildQuiet
    <3> QED
      BY <1>1, <3>3 DEF BrowserDidCreate, Quiet, Taken, ghosts
  <2>4. CASE ~(Alive(v) /\ Attached(v))
    BY <1>1, <2>4 DEF BrowserDidCreate, Quiet, Taken, ghosts
  <2> QED
    BY <2>3, <2>4
<1>2. CASE OpenTab
  <2>1. ASSUME NEW v \in Views, NewShell(v) PROVE \A x \in Views : Taken(x) => Taken(x)'
    BY <2>1 DEF NewShell, IsFreshView, Taken, Unborn, IInv, TypeOK
  <2>2. \A x \in Views : Taken(x) => Taken(x)'
    BY <1>2, <2>1 DEF OpenTab, Taken
  <2> QED
    BY <1>2, <2>2 DEF OpenTab, Quiet
<1>3. CASE \E a \in Browsers : OnOpenURLFromTab(a)
  BY <1>3 DEF OnOpenURLFromTab, Quiet, Taken, ghosts
<1> QED
  BY <1>1, <1>2, <1>3

\* A browser comes to a view that is taken from now on, and was not before or
\* has gone astray.
LEMMA CreatingOne ==
    ASSUME OneInv, NEW b \in Browsers, NEW v \in Views, NEW size, NEW url,
           Creating(b, v, size, url), browserOf' = browserOf, astray \subseteq astray',
           \A x \in Views : Taken(x) => Taken(x)',
           Taken(v)', Taken(v) => v \in astray'
    PROVE  CreatedOnce' /\ OneBrowserPerView'
<1>1. browser[b].life = "unused" /\ b \in Browsers
  BY DEF Creating, IsFreshBrowser
<1>2. browser[b]'.life = "creating" /\ browser[b]'.client = v
  BY DEF Creating, OneInv, IInv, TypeOK
<1>3. \A a \in Browsers \ {b} : browser[a]' = browser[a]
  BY DEF Creating, OneInv, IInv, TypeOK
<1>4. \A a \in Browsers : browser[a].client \in Views
  BY DEF OneInv, IInv, TypeOK, BrowserRecord
<1>5. CreatedOnce'
  BY <1>2, <1>3, <1>4 DEF CreatedOnce, Exists, OneInv
<1>6. ASSUME NEW a \in Browsers, browser[a]'.client \notin astray', Present(a)'
      PROVE  browserOf'[browser[a]'.client] = a
  <2>1. a # b
    BY <1>2, <1>6 DEF Present
  <2> QED
    BY <1>3, <1>6, <2>1, OneBrowser DEF OneInv, Present
<1>7. ASSUME NEW a \in Browsers, NEW d \in Browsers, browser[a]'.client \notin astray',
             Exists(a)', Exists(d)', browser[a]'.client = browser[d]'.client
      PROVE  a = d
  <2>1. \A x \in Browsers : x # b /\ Exists(x)' => Exists(x) /\ Taken(browser[x].client)
    BY <1>3 DEF Exists, CreatedOnce, OneInv
  <2>2. \A x \in Browsers : x # b /\ Exists(x)' /\ v \notin astray' => browser[x]'.client # v
    BY <1>3, <2>1
  <2>3. CASE a # b /\ d # b
    BY <1>3, <1>7, <2>1, <2>3, OneBrowser DEF OneInv
  <2>4. CASE a = b \/ d = b
    BY <1>2, <1>7, <2>2, <2>4
  <2> QED
    BY <2>3, <2>4
<1>8. OneBrowserPerView'
  BY <1>6, <1>7 DEF OneBrowserPerView, Exists
<1> QED
  BY <1>5, <1>8

\* A view asks for its browser: it was not taken, and is now.
LEMMA CreateBrowserOne ==
    ASSUME OneInv, NEW v \in Views, NEW w \in ViewRecord, CreateBrowser(v, w),
           w.life = "alive", w.created = view[v].created, view[v].life = "alive"
    PROVE  CreatedOnce' /\ OneBrowserPerView'
<1>1. PICK b \in Browsers : Creating(b, v, w.size, w.url)
  BY DEF CreateBrowser
<1>2. view'[v].life = "alive" /\ view'[v].created
  BY DEF CreateBrowser, OneInv, IInv, TypeOK, ViewRecord
<1>3. \A x \in Views : x # v => view'[x] = view[x]
  BY DEF CreateBrowser, OneInv, IInv, TypeOK
<1>4. ~Taken(v)
  BY DEF CreateBrowser, Ready, Taken
<1>5. Taken(v)' /\ \A x \in Views : Taken(x) => Taken(x)'
  BY <1>2, <1>3, <1>4 DEF Taken
<1> QED
  BY <1>1, <1>4, <1>5, CreatingOne DEF CreateBrowser, ghosts

\* Views are made, moved and resized.
LEMMA GeometryOne ==
    ASSUME OneInv, NEW v \in Views,
           NewView(v) \/ ViewDidMoveToWindow(v) \/ (\E s \in Sizes : SetFrameSize(v, s))
    PROVE  CreatedOnce' /\ OneBrowserPerView'
<1>1. CASE NewView(v)
  <2>1. ~Taken(v)
    BY <1>1 DEF NewView, IsFreshView, Taken
  <2>2. \A x \in Views : Taken(x) => Taken(x)'
    BY <1>1, <2>1, Records, ViewQuiet DEF NewView, OneInv
  <2> QED
    BY <1>1, <2>2, QuietOne DEF NewView, Quiet, ghosts
<1>2. CASE ViewDidMoveToWindow(v)
  <2> DEFINE w == [view[v] EXCEPT !.window = TRUE]
  <2>1. w \in ViewRecord /\ w.life = view[v].life /\ w.created = view[v].created
    BY ZenonT(60) DEF OneInv, IInv, TypeOK, ViewRecord
  <2>2. view[v].life = "alive"
    BY <1>2 DEF ViewDidMoveToWindow, Alive
  <2>3. CreateBrowser(v, w) \/ (view' = [view EXCEPT ![v] = w]
                                /\ UNCHANGED <<browserOf, owned, browser, queue, ghosts>>)
    BY <1>2 DEF ViewDidMoveToWindow
  <2> HIDE DEF w
  <2>4. CASE CreateBrowser(v, w)
    BY <2>1, <2>2, <2>4, CreateBrowserOne
  <2>5. CASE view' = [view EXCEPT ![v] = w] /\ UNCHANGED <<browserOf, owned, browser, queue, ghosts>>
    BY <2>1, <2>5, LayoutQuiet, QuietOne DEF OneInv
  <2> QED
    BY <2>3, <2>4, <2>5
<1>3. ASSUME NEW s \in Sizes, SetFrameSize(v, s) PROVE CreatedOnce' /\ OneBrowserPerView'
  <2> DEFINE w == [view[v] EXCEPT !.size = s]
  <2>1. w \in ViewRecord /\ w.life = view[v].life /\ w.created = view[v].created
    BY DEF OneInv, IInv, TypeOK, ViewRecord
  <2>2. view[v].life = "alive" /\ s \in Nat
    BY <1>3, SizesAssumption DEF SetFrameSize, Alive
  <2>3. CreateBrowser(v, w) \/ (view' = [view EXCEPT ![v] = w] /\ browser' = SyncedChild(v, s)
                                /\ UNCHANGED <<browserOf, owned, queue, ghosts>>)
    BY <1>3 DEF SetFrameSize
  <2> HIDE DEF w
  <2>4. CASE CreateBrowser(v, w)
    BY <2>1, <2>2, <2>4, CreateBrowserOne
  <2>5. CASE view' = [view EXCEPT ![v] = w] /\ browser' = SyncedChild(v, s)
             /\ UNCHANGED <<browserOf, owned, queue, ghosts>>
    BY <2>1, <2>2, <2>5, LayoutQuiet, QuietOne DEF OneInv
  <2> QED
    BY <2>3, <2>4, <2>5
<1> QED
  BY <1>1, <1>2, <1>3

\* A popup comes to a new shell, or to its opener's client.
LEMMA PopupOne ==
    ASSUME OneInv, NEW a \in Browsers, NEW b \in Browsers, OnBeforePopup(a, b)
    PROVE  CreatedOnce' /\ OneBrowserPerView'
<1>1. PICK c \in Views : c = browser[a].client /\ Taken(c)
  BY DEF OnBeforePopup, OneInv, CreatedOnce, Exists, IInv, TypeOK, BrowserRecord
<1>2. browserOf' = browserOf
  BY DEF OnBeforePopup
<1>3. ASSUME NEW v \in Views, NewShell(v), Creating(b, v, 1, FirstUrl), astray' = astray
      PROVE  CreatedOnce' /\ OneBrowserPerView'
  <2>1. ~Taken(v)
    BY <1>3 DEF NewShell, IsFreshView, Taken
  <2>2. Taken(v)' /\ \A x \in Views : Taken(x) => Taken(x)'
    BY <1>3, <2>1 DEF NewShell, Taken, Unborn, OneInv, IInv, TypeOK
  <2> QED
    BY <1>2, <1>3, <2>1, <2>2, CreatingOne
<1>4. CASE Creating(b, c, 1, FirstUrl) /\ astray' = astray \cup {c} /\ UNCHANGED <<view, owned>>
  <2>1. Taken(c)' /\ \A x \in Views : Taken(x) => Taken(x)'
    BY <1>1, <1>4 DEF Taken
  <2> QED
    BY <1>1, <1>2, <1>4, <2>1, CreatingOne
<1> QED
  BY <1>1, <1>3, <1>4 DEF OnBeforePopup

\* CEF finishes, gives up or closes a browser, which was its client's only one.
LEMMA CefOne ==
    ASSUME OneInv, NEW b \in Browsers,
           OnAfterCreated(b) \/ CreationAborted(b) \/ OnBeforeClose(b)
    PROVE  CreatedOnce' /\ OneBrowserPerView'
<1> DEFINE c == browser[b].client
<1>1. Exists(b) /\ c \in Views
  BY DEF OnAfterCreated, CreationAborted, OnBeforeClose, Exists, OneInv, IInv, TypeOK, BrowserRecord
<1>2. \A x \in Browsers : /\ x # b => browser[x]' = browser[x]
                          /\ browser[x]'.client = browser[x].client
  BY DEF OnAfterCreated, CreationAborted, OnBeforeClose, Absent, OneInv, IInv, TypeOK, BrowserRecord
<1>3. view' = view /\ astray' = astray
  BY DEF OnAfterCreated, CreationAborted, OnBeforeClose, ghosts
<1>4. \A x \in Browsers : Exists(x)' => Exists(x)
  BY <1>1, <1>2 DEF Exists
<1>5. CreatedOnce'
  BY <1>2, <1>3, <1>4 DEF CreatedOnce, Taken, OneInv
<1>6. ASSUME NEW a \in Browsers, browser[a].client \notin astray, Present(a)'
      PROVE  browserOf'[browser[a].client] = a
  <2>1. CASE a = b
    BY <1>1, <1>6, <2>1
    DEF OnAfterCreated, CreationAborted, OnBeforeClose, Absent, Present, OneInv, IInv, TypeOK
  <2>2. CASE a # b
    <3>1. Present(a) /\ Exists(a)
      BY <1>2, <1>6, <2>2 DEF Present, Exists
    <3>2. browser[a].client # c
      BY <1>1, <1>6, <2>2, <3>1, OneBrowser DEF OneInv
    <3>3. browserOf[browser[a].client] = a
      BY <1>6, <3>1, OneBrowser DEF OneInv
    <3> QED
      BY <3>2, <3>3 DEF OnAfterCreated, CreationAborted, OnBeforeClose, OneInv, IInv, TypeOK, BrowserRecord
  <2> QED
    BY <2>1, <2>2
<1>7. ASSUME NEW a \in Browsers, NEW d \in Browsers, browser[a].client \notin astray,
             Exists(a)', Exists(d)', browser[a].client = browser[d].client
      PROVE  a = d
  BY <1>4, <1>7, OneBrowser DEF OneInv
<1>8. OneBrowserPerView'
  BY <1>2, <1>3, <1>6, <1>7 DEF OneBrowserPerView, Exists
<1> QED
  BY <1>5, <1>8

LEMMA StepOneInv == OneInv /\ [Next]_vars => OneInv'
<1> SUFFICES ASSUME OneInv, [Next]_vars PROVE CreatedOnce' /\ OneBrowserPerView'
  BY StepIInv DEF OneInv
<1> USE DEF OneInv
<1>1. ASSUME NEW v \in Views, NewView(v) \/ ViewDidMoveToWindow(v)
                              \/ (\E s \in Sizes : SetFrameSize(v, s))
      PROVE  CreatedOnce' /\ OneBrowserPerView'
  BY <1>1, GeometryOne
<1>2. ASSUME NEW v \in Views, Dealloc(v) \/ (\E u \in Urls : Load(v, u))
                              \/ (\E z \in Zooms : SetZoomFactor(v, z))
      PROVE  CreatedOnce' /\ OneBrowserPerView'
  BY <1>2, DeallocQuiet, LoadQuiet, ZoomQuiet, QuietOne
<1>3. ASSUME NEW b \in Browsers, OnAfterCreated(b) \/ CreationAborted(b) \/ OnBeforeClose(b)
      PROVE  CreatedOnce' /\ OneBrowserPerView'
  BY <1>3, CefOne
<1>4. ASSUME NEW b \in Browsers, NEW p \in Browsers, OnBeforePopup(b, p)
      PROVE  CreatedOnce' /\ OneBrowserPerView'
  BY <1>4, PopupOne
<1>5. CASE BrowserDidCreate \/ OpenTab \/ (\E b \in Browsers : OnOpenURLFromTab(b))
  BY <1>5, BlocksQuiet, QuietOne
<1>6. CASE UNCHANGED vars
  BY <1>6, QuietOne DEF Quiet, Taken, vars, ghosts
<1> QED
  BY <1>1, <1>2, <1>3, <1>4, <1>5, <1>6 DEF Next

\* A view that asked for a browser once does not get a second one, however its
\* window, its layout and the popups' shells interleave, and its client knows
\* the one it has; only a popup left to CEF's defaults shares a client.
THEOREM OnePerView == Spec => []OneBrowserPerView
<1>1. Spec => []OneInv
  BY InitOneInv, StepOneInv, PTL DEF Spec
<1>2. OneInv => OneBrowserPerView
  BY DEF OneInv
<1> QED
  BY <1>1, <1>2, PTL

-----------------------------------------------------------------------------
(***************************************************************************)
(* What the host asks for reaches the browser.  A browser in creation has  *)
(* an owner to be told about, so that its layout and zoom factor are       *)
(* outstanding as long as its didCreate block is queued; and its URL is    *)
(* the view's from the moment CEF starts to create it.                     *)
(***************************************************************************)
\* All there is to say of one view and the browsers made for it.
UrlAgrees(v) ==
    \A b \in Browsers : Exists(b) /\ browser[b].client = v =>
        /\ browser[b].life = "creating" => owned[v]
        /\ v \notin hasty => browser[b].url = view[v].url
LayoutAgrees(v) ==
    Settled(v) => /\ browser[browserOf[v]].size = view[v].size
                  /\ browser[browserOf[v]].zoom = view[v].zoom
Agreed(v) == Alive(v) /\ v \notin astray => UrlAgrees(v) /\ LayoutAgrees(v)

RInv == OneInv /\ \A v \in Views : Agreed(v)

\* The browser a view has exists.
LEMMA ChildExists ==
    ASSUME IInv, NEW v \in Views, Attached(v)
    PROVE  /\ browserOf[v] \in Browsers /\ Exists(browserOf[v])
           /\ browser[browserOf[v]].client = v
BY DEF IInv, TypeOK, NoDanglingBrowser, Attached, Present, Exists

\* A view that has not asked for a browser has none.
LEMMA NoBrowserYet ==
    ASSUME OneInv, NEW v \in Views, ~Taken(v)
    PROVE  ~Attached(v) /\ \A b \in Browsers : Exists(b) => browser[b].client # v
BY ChildExists DEF OneInv, CreatedOnce

\* A step that leaves a view, its client and its browsers alone.
Untouched(v) ==
    /\ view'[v] = view[v] /\ owned'[v] = owned[v] /\ browserOf'[v] = browserOf[v]
    /\ v \in astray => v \in astray'
    /\ v \in hasty => v \in hasty'
    /\ Queued("didCreate", v) => Queued("didCreate", v)'
    /\ \A b \in Browsers : Exists(b)' /\ browser'[b].client = v => browser'[b] = browser[b]

LEMMA UntouchedAgrees ==
    ASSUME OneInv, OneInv', NEW v \in Views, Agreed(v), Untouched(v)
    PROVE  Agreed(v)'
<1> SUFFICES ASSUME Alive(v)', v \notin astray' PROVE UrlAgrees(v)' /\ LayoutAgrees(v)'
  BY DEF Agreed
<1>1. Alive(v) /\ v \notin astray
  BY DEF Untouched, Alive
<1>2. UrlAgrees(v) /\ LayoutAgrees(v)
  BY <1>1 DEF Agreed
<1>3. \A b \in Browsers : Exists(b)' /\ browser'[b].client = v =>
          browser'[b] = browser[b] /\ Exists(b)
  BY DEF Untouched, Exists
<1>4. UrlAgrees(v)'
  BY <1>2, <1>3 DEF UrlAgrees, Untouched
<1>5. ASSUME Settled(v)' PROVE Settled(v) /\ browser'[browserOf'[v]] = browser[browserOf[v]]
  <2>1. Settled(v)
    BY <1>1, <1>5 DEF Settled, Attached, Untouched
  <2>2. Exists(browserOf[v]) /\ browserOf[v] \in Browsers /\ browser[browserOf[v]].client = v
    BY <2>1, ChildExists DEF Settled, OneInv
  <2>3. /\ browserOf'[v] \in Browsers /\ Present(browserOf[v])'
        /\ browser'[browserOf'[v]].client = v
    BY <1>5 DEF Settled, OneInv, IInv, TypeOK, NoDanglingBrowser, Attached, Present, Untouched
  <2>4. Exists(browserOf[v])'
    BY <2>3 DEF Present, Exists
  <2> QED
    BY <1>3, <2>1, <2>3, <2>4 DEF Untouched
<1>6. LayoutAgrees(v)'
  BY <1>2, <1>5 DEF LayoutAgrees, Untouched
<1> QED
  BY <1>4, <1>6

LEMMA InitRInv == Init => RInv
<1> SUFFICES ASSUME Init PROVE RInv
  OBVIOUS
<1>1. \A v \in Views : ~Alive(v)
  BY DEF Init, Alive, Unborn
<1> QED
  BY <1>1, InitOneInv DEF RInv, Agreed

\* A browser comes to a view that had none, with the URL the view has.
LEMMA CreatingAgrees ==
    ASSUME RInv, OneInv', NEW b \in Browsers, NEW v \in Views, NEW w, NEW size, NEW url,
           Creating(b, v, size, url), ~Taken(v),
           view' = [view EXCEPT ![v] = w], w.url = url, owned' = [owned EXCEPT ![v] = TRUE],
           UNCHANGED <<browserOf, queue, hasty, astray>>
    PROVE  \A x \in Views : Agreed(x)'
<1>1. b \in Browsers /\ browser[b].life = "unused"
  BY DEF Creating, IsFreshBrowser
<1>2. browser'[b].life = "creating" /\ browser'[b].client = v /\ browser'[b].url = url
  BY DEF Creating, RInv, OneInv, IInv, TypeOK
<1>3. \A a \in Browsers \ {b} : browser'[a] = browser[a]
  BY DEF Creating, RInv, OneInv, IInv, TypeOK
<1>4. ~Attached(v) /\ \A a \in Browsers : Exists(a) => browser[a].client # v
  BY NoBrowserYet DEF RInv
<1>5. view'[v] = w /\ owned'[v] = TRUE
  BY DEF RInv, OneInv, IInv, TypeOK
<1>6. \A x \in Views : x # v => view'[x] = view[x] /\ owned'[x] = owned[x]
  BY DEF RInv, OneInv, IInv, TypeOK
<1>7. Agreed(v)'
  <2>1. UrlAgrees(v)'
    BY <1>2, <1>3, <1>4, <1>5 DEF UrlAgrees, Exists
  <2>2. LayoutAgrees(v)'
    BY <1>4 DEF LayoutAgrees, Settled, Attached
  <2> QED
    BY <2>1, <2>2 DEF Agreed
<1>8. ASSUME NEW x \in Views, x # v PROVE Agreed(x)'
  <2>1. Untouched(x)
    BY <1>2, <1>3, <1>6, <1>8 DEF Untouched, Queued
  <2> QED
    BY <2>1, UntouchedAgrees DEF RInv
<1> QED
  BY <1>7, <1>8

LEMMA CreateBrowserAgrees ==
    ASSUME RInv, OneInv', NEW v \in Views, NEW w \in ViewRecord, CreateBrowser(v, w),
           w.created = view[v].created, view[v].life = "alive"
    PROVE  \A x \in Views : Agreed(x)'
<1>1. PICK b \in Browsers : Creating(b, v, w.size, w.url)
  BY DEF CreateBrowser
<1>2. ~Taken(v)
  BY DEF CreateBrowser, Ready, Taken
<1>3. [w EXCEPT !.created = TRUE].url = w.url
  BY DEF ViewRecord
<1>4. /\ view' = [view EXCEPT ![v] = [w EXCEPT !.created = TRUE]]
      /\ owned' = [owned EXCEPT ![v] = TRUE]
      /\ UNCHANGED <<browserOf, queue, hasty, astray>>
  BY DEF CreateBrowser, ghosts
<1> QED
  BY <1>1, <1>2, <1>3, <1>4, CreatingAgrees

\* A view changes, and at most the browser it has with it.
LEMMA ChildAgrees ==
    ASSUME RInv, OneInv', NEW v \in Views, NEW w, NEW q,
           view' = [view EXCEPT ![v] = w],
           browser' = IF Attached(v) THEN [browser EXCEPT ![browserOf[v]] = q] ELSE browser,
           Attached(v) => q.client = v, hasty \subseteq hasty', astray' = astray,
           \A x \in Views : x # v => owned'[x] = owned[x],
           UNCHANGED <<browserOf, queue>>,
           Agreed(v)'
    PROVE  \A x \in Views : Agreed(x)'
<1> SUFFICES ASSUME NEW x \in Views, x # v PROVE Agreed(x)'
  OBVIOUS
<1>1. view'[x] = view[x]
  BY DEF RInv, OneInv, IInv, TypeOK
<1>2. ASSUME NEW b \in Browsers, browser'[b].client = x PROVE browser'[b] = browser[b]
  BY <1>2 DEF RInv, OneInv, IInv, TypeOK
<1>3. Untouched(x)
  BY <1>1, <1>2 DEF Untouched, Queued
<1> QED
  BY <1>3, UntouchedAgrees DEF RInv

\* Views are made, moved and resized.
LEMMA GeometryAgrees ==
    ASSUME RInv, OneInv', NEW v \in Views,
           NewView(v) \/ ViewDidMoveToWindow(v) \/ (\E s \in Sizes : SetFrameSize(v, s))
    PROVE  \A x \in Views : Agreed(x)'
<1> USE DEF RInv, OneInv, IInv, TypeOK
<1>1. CASE NewView(v)
  <2>1. view[v].life = "unborn" /\ ~Taken(v)
    BY <1>1 DEF NewView, IsFreshView, Taken
  <2>2. ~Attached(v) /\ \A b \in Browsers : Exists(b) => browser[b].client # v
    BY <2>1, NoBrowserYet
  <2>3. UNCHANGED <<browserOf, owned, browser, queue, hasty, astray>>
    BY <1>1 DEF NewView, ghosts
  <2>4. Agreed(v)'
    BY <2>2, <2>3 DEF Agreed, UrlAgrees, LayoutAgrees, Settled, Attached, Exists
  <2>5. ASSUME NEW x \in Views, x # v PROVE Agreed(x)'
    <3>1. Untouched(x)
      BY <1>1, <2>3, <2>5 DEF NewView, Untouched, Queued
    <3> QED
      BY <3>1, UntouchedAgrees
  <2> QED
    BY <2>4, <2>5
<1>2. CASE ViewDidMoveToWindow(v)
  <2> DEFINE w == [view[v] EXCEPT !.window = TRUE]
  <2>1. w \in ViewRecord /\ w.created = view[v].created /\ w.life = view[v].life
        /\ w.url = view[v].url /\ w.size = view[v].size /\ w.zoom = view[v].zoom
    <3>1. view[v] \in ViewRecord
      OBVIOUS
    <3> QED
      BY <3>1 DEF ViewRecord
  <2>2. view[v].life = "alive"
    BY <1>2 DEF ViewDidMoveToWindow, Alive
  <2>3. CreateBrowser(v, w) \/ (view' = [view EXCEPT ![v] = w]
                                /\ UNCHANGED <<browserOf, owned, browser, queue, ghosts>>)
    BY <1>2 DEF ViewDidMoveToWindow
  <2> HIDE DEF w
  <2>4. CASE CreateBrowser(v, w)
    BY <2>1, <2>2, <2>4, CreateBrowserAgrees
  <2>5. CASE view' = [view EXCEPT ![v] = w] /\ UNCHANGED <<browserOf, owned, browser, queue, ghosts>>
    <3>1. Agreed(v)'
      BY <2>1, <2>5
      DEF Agreed, UrlAgrees, LayoutAgrees, Settled, Attached, Alive, Queued, Exists, ghosts
    <3>2. ASSUME NEW x \in Views, x # v PROVE Agreed(x)'
      <4>1. Untouched(x)
        BY <2>5, <3>2 DEF Untouched, Queued, ghosts
      <4> QED
        BY <4>1, UntouchedAgrees
    <3> QED
      BY <3>1, <3>2
  <2> QED
    BY <2>3, <2>4, <2>5
<1>3. ASSUME NEW s \in Sizes, SetFrameSize(v, s) PROVE \A x \in Views : Agreed(x)'
  <2> DEFINE w == [view[v] EXCEPT !.size = s]
             q == [browser[browserOf[v]] EXCEPT !.size = s]
  <2>1. w \in ViewRecord /\ w.created = view[v].created /\ w.life = view[v].life
        /\ w.url = view[v].url /\ w.size = s /\ w.zoom = view[v].zoom
    <3>1. view[v] \in ViewRecord
      OBVIOUS
    <3> QED
      BY <3>1 DEF ViewRecord
  <2>2. view[v].life = "alive"
    BY <1>3 DEF SetFrameSize, Alive
  <2>3. CreateBrowser(v, w) \/ (view' = [view EXCEPT ![v] = w] /\ browser' = SyncedChild(v, s)
                                /\ UNCHANGED <<browserOf, owned, queue, ghosts>>)
    BY <1>3 DEF SetFrameSize
  <2>4. browserOf[v] \in Browsers => q.life = browser[browserOf[v]].life
        /\ q.client = browser[browserOf[v]].client /\ q.url = browser[browserOf[v]].url
        /\ q.zoom = browser[browserOf[v]].zoom /\ q.size = s
    BY DEF BrowserRecord
  <2> HIDE DEF w
  <2>5. CASE CreateBrowser(v, w)
    BY <2>1, <2>2, <2>5, CreateBrowserAgrees
  <2>6. CASE view' = [view EXCEPT ![v] = w] /\ browser' = SyncedChild(v, s)
             /\ UNCHANGED <<browserOf, owned, queue, ghosts>>
    <3> HIDE DEF q
    <3>1. Attached(v) => browserOf[v] \in Browsers /\ browser[browserOf[v]].client = v
      BY ChildExists
    <3>2. browser' = IF Attached(v) THEN [browser EXCEPT ![browserOf[v]] = q] ELSE browser
      BY <2>6 DEF SyncedChild, q
    <3>3. Agreed(v)'
      BY <2>1, <2>4, <2>6, <3>1, <3>2
      DEF Agreed, UrlAgrees, LayoutAgrees, Settled, Attached, Alive, Queued, Exists, ghosts
    <3> QED
      BY <2>4, <2>6, <3>1, <3>2, <3>3, ChildAgrees DEF ghosts
  <2> QED
    BY <2>3, <2>5, <2>6
<1> QED
  BY <1>1, <1>2, <1>3

\* Views zoom, load and are dropped.
LEMMA ZoomAgrees ==
    ASSUME RInv, OneInv', NEW v \in Views, NEW z \in Zooms, SetZoomFactor(v, z)
    PROVE  \A x \in Views : Agreed(x)'
<1> USE DEF RInv, OneInv, IInv, TypeOK
<1> DEFINE w == [view[v] EXCEPT !.zoom = z]
           q == [browser[browserOf[v]] EXCEPT !.zoom = z]
<1>1. view[v] \in ViewRecord
  OBVIOUS
<1>2. w.life = view[v].life /\ w.url = view[v].url /\ w.size = view[v].size /\ w.zoom = z
  BY <1>1 DEF ViewRecord
<1>3. browserOf[v] \in Browsers => q.life = browser[browserOf[v]].life
      /\ q.client = browser[browserOf[v]].client /\ q.url = browser[browserOf[v]].url
      /\ q.size = browser[browserOf[v]].size /\ q.zoom = z
  BY DEF BrowserRecord
<1>4. /\ view' = [view EXCEPT ![v] = w]
      /\ browser' = IF Attached(v) THEN [browser EXCEPT ![browserOf[v]] = q] ELSE browser
      /\ UNCHANGED <<browserOf, owned, queue, ghosts>>
  BY DEF SetZoomFactor, ZoomedChild
<1> HIDE DEF w, q
<1>5. Attached(v) => browserOf[v] \in Browsers /\ browser[browserOf[v]].client = v
  BY ChildExists
<1>6. Agreed(v)'
  BY <1>2, <1>3, <1>4, <1>5
  DEF Agreed, UrlAgrees, LayoutAgrees, Settled, Attached, Alive, Queued, Exists, ghosts
<1> QED
  BY <1>3, <1>4, <1>5, <1>6, ChildAgrees DEF ghosts

\* A load during the creation makes the view hasty; otherwise the one browser
\* the view has by now is told.
LEMMA LoadAgrees ==
    ASSUME RInv, OneInv', NEW v \in Views, NEW u \in Urls, Load(v, u)
    PROVE  \A x \in Views : Agreed(x)'
<1> USE DEF RInv, OneInv, IInv, TypeOK
<1> DEFINE w == [view[v] EXCEPT !.url = u]
           q == [browser[browserOf[v]] EXCEPT !.url = u]
<1>1. view[v] \in ViewRecord
  OBVIOUS
<1>2. w.life = view[v].life /\ w.url = u /\ w.size = view[v].size /\ w.zoom = view[v].zoom
  BY <1>1 DEF ViewRecord
<1>3. browserOf[v] \in Browsers => q.life = browser[browserOf[v]].life
      /\ q.client = browser[browserOf[v]].client /\ q.url = u
      /\ q.size = browser[browserOf[v]].size /\ q.zoom = browser[browserOf[v]].zoom
  BY DEF BrowserRecord
<1>4. /\ view' = [view EXCEPT ![v] = w]
      /\ browser' = IF Attached(v) THEN [browser EXCEPT ![browserOf[v]] = q] ELSE browser
      /\ UNCHANGED <<browserOf, owned, queue, astray>>
      /\ hasty' = IF InCreation(v) THEN hasty \cup {v} ELSE hasty
  BY DEF Load, Loaded, Haste
<1> HIDE DEF w, q
<1>5. Attached(v) => browserOf[v] \in Browsers /\ browser[browserOf[v]].client = v
  BY ChildExists
<1>6. view'[v] = w
  BY <1>4
<1>7. ASSUME Alive(v)', v \notin astray' PROVE UrlAgrees(v)'
  <2>1. Alive(v) /\ v \notin astray /\ UrlAgrees(v)
    BY <1>2, <1>4, <1>6, <1>7 DEF Agreed, Alive
  <2>2. ASSUME NEW b \in Browsers, Exists(b)', browser'[b].client = v
        PROVE  Exists(b) /\ browser[b].client = v /\ browser'[b].life = browser[b].life
    BY <1>3, <1>4, <1>5, <2>2 DEF Exists
  <2>3. ASSUME NEW b \in Browsers, Exists(b)', browser'[b].client = v, v \notin hasty'
        PROVE  browser'[b].url = view'[v].url
    <3>1. ~InCreation(v)
      BY <1>4, <2>3
    <3>2. Present(b)
      BY <2>2, <2>3, <3>1 DEF InCreation, Exists, Present
    <3>3. browserOf[v] = b /\ Attached(v)
      BY <2>1, <2>2, <2>3, <3>2, NoBrowserAssumption DEF OneBrowserPerView, Attached
    <3>4. browser'[b] = q
      BY <1>4, <3>3
    <3> QED
      BY <1>2, <1>3, <1>6, <3>3, <3>4
  <2> QED
    BY <1>4, <2>1, <2>2, <2>3 DEF UrlAgrees
<1>8. ASSUME Alive(v)', v \notin astray' PROVE LayoutAgrees(v)'
  <2>1. LayoutAgrees(v)
    BY <1>2, <1>4, <1>6, <1>8 DEF Agreed, Alive
  <2> QED
    BY <1>2, <1>3, <1>4, <1>5, <1>6, <2>1 DEF LayoutAgrees, Settled, Attached, Alive, Queued
<1>9. Agreed(v)'
  BY <1>7, <1>8 DEF Agreed
<1> QED
  BY <1>3, <1>4, <1>5, <1>9, ChildAgrees

LEMMA DeallocAgrees ==
    ASSUME RInv, OneInv', NEW v \in Views, Dealloc(v)
    PROVE  \A x \in Views : Agreed(x)'
<1> USE DEF RInv, OneInv, IInv, TypeOK
<1> DEFINE q == [browser[browserOf[v]] EXCEPT !.life = "closing"]
<1>1. /\ view' = [view EXCEPT ![v] = Dead]
      /\ browser' = IF Attached(v) THEN [browser EXCEPT ![browserOf[v]] = q] ELSE browser
      /\ UNCHANGED <<browserOf, queue, astray>> /\ hasty \subseteq hasty'
      /\ owned' = [owned EXCEPT ![v] = FALSE]
  BY DEF Dealloc, Haste
<1>2. Attached(v) => q.client = v
  BY ChildExists DEF BrowserRecord
<1> HIDE DEF q
<1>3. Agreed(v)'
  BY <1>1 DEF Agreed, Alive, Dead, Unborn
<1> QED
  BY <1>1, <1>2, <1>3, ChildAgrees

\* CEF finishes a browser, whose owner will be told, or gives it up or closes it.
LEMMA CefAgrees ==
    ASSUME RInv, OneInv', NEW b \in Browsers,
           OnAfterCreated(b) \/ CreationAborted(b) \/ OnBeforeClose(b)
    PROVE  \A x \in Views : Agreed(x)'
<1> USE DEF RInv, OneInv, IInv, TypeOK
<1>0. PICK c \in Views : c = browser[b].client
  BY DEF BrowserRecord
<1>1. Exists(b) /\ browser[b].client = c
  BY <1>0 DEF OnAfterCreated, CreationAborted, OnBeforeClose, Exists
<1>2. UNCHANGED <<view, hasty, astray>>
  BY DEF OnAfterCreated, CreationAborted, OnBeforeClose, ghosts
<1>3. \A a \in Browsers \ {b} : browser'[a] = browser[a]
  BY DEF OnAfterCreated, CreationAborted, OnBeforeClose
<1>4. browser'[b].client = c
  BY <1>1 DEF OnAfterCreated, CreationAborted, OnBeforeClose, Absent, BrowserRecord
<1>5. \A x \in Views : Queued("didCreate", x) => Queued("didCreate", x)'
  <2>1. CASE OnAfterCreated(b)
    <3> DEFINE k == [kind |-> "didCreate", of |-> c]
    <3>1. queue' = queue \/ queue' = Append(queue, k)
      BY <1>1, <2>1 DEF OnAfterCreated
    <3> HIDE DEF k
    <3>2. ASSUME NEW x \in Views, Queued("didCreate", x), queue' = Append(queue, k)
          PROVE  Queued("didCreate", x)'
      BY <3>2 DEF Queued
    <3> QED
      BY <3>1, <3>2 DEF Queued
  <2>2. CASE CreationAborted(b) \/ OnBeforeClose(b)
    BY <2>2 DEF CreationAborted, OnBeforeClose, Queued
  <2> QED
    BY <2>1, <2>2
<1>6. ASSUME NEW x \in Views, x # c PROVE Agreed(x)'
  <2>1. browserOf'[x] = browserOf[x] /\ owned'[x] = owned[x]
    BY <1>1, <1>6 DEF OnAfterCreated, CreationAborted, OnBeforeClose
  <2>2. Untouched(x)
    BY <1>2, <1>3, <1>4, <1>5, <1>6, <2>1 DEF Untouched
  <2> QED
    BY <2>2, UntouchedAgrees
<1>7. ASSUME Alive(c)', c \notin astray' PROVE UrlAgrees(c)' /\ LayoutAgrees(c)'
  <2>1. Alive(c) /\ c \notin astray /\ UrlAgrees(c) /\ LayoutAgrees(c)
    BY <1>1, <1>2, <1>7 DEF Agreed, Alive
  <2>2. \A a \in Browsers \ {b} : Exists(a) => browser[a].client # c
    BY <1>1, <2>1, OneBrowser
  <2>3. \A a \in Browsers \ {b} : Exists(a)' => browser'[a].client # c
    BY <1>3, <2>2 DEF Exists
  <2>4. CASE OnAfterCreated(b)
    <3>1. owned[c] /\ (c \notin hasty => browser[b].url = view[c].url)
      BY <1>1, <2>1, <2>4 DEF OnAfterCreated, UrlAgrees
    <3>2. browser'[b].life = "live" /\ browser'[b].url = browser[b].url
      BY <2>4 DEF OnAfterCreated, BrowserRecord
    <3>3. UrlAgrees(c)'
      BY <1>2, <2>3, <3>1, <3>2 DEF UrlAgrees
    <3>4. Queued("didCreate", c)'
      <4> DEFINE k == [kind |-> "didCreate", of |-> c]
      <4>1. queue' = Append(queue, k)
        BY <1>1, <2>4, <3>1 DEF OnAfterCreated
      <4>2. k.kind = "didCreate" /\ k.of = c
        OBVIOUS
      <4> HIDE DEF k
      <4>3. Len(queue') = Len(queue) + 1 /\ queue'[Len(queue) + 1] = k
        BY <4>1
      <4> QED
        BY <4>1, <4>2, <4>3 DEF Queued
    <3> QED
      BY <3>3, <3>4 DEF LayoutAgrees, Settled
  <2>5. CASE CreationAborted(b) \/ OnBeforeClose(b)
    <3>1. browser'[b].life = "closed"
      BY <2>5 DEF CreationAborted, OnBeforeClose, Absent
    <3>2. UrlAgrees(c)'
      BY <2>3, <3>1 DEF UrlAgrees, Exists
    <3>3. ~Attached(c)'
      <4>1. SUFFICES ASSUME Attached(c)' PROVE FALSE
        OBVIOUS
      <4>2. browserOf'[c] \in Browsers /\ Present(browserOf[c])' /\ browser'[browserOf'[c]].client = c
        BY <1>1, <4>1 DEF NoDanglingBrowser, Attached
      <4> QED
        BY <2>3, <3>1, <4>2 DEF Present, Exists
    <3> QED
      BY <3>2, <3>3 DEF LayoutAgrees, Settled
  <2> QED
    BY <2>4, <2>5
<1>8. Agreed(c)'
  BY <1>7 DEF Agreed
<1> QED
  BY <1>6, <1>8

\* A popup comes to a new shell, which begins with the popup's URL, or to its
\* opener's client, which has gone astray.
LEMMA PopupAgrees ==
    ASSUME RInv, OneInv', NEW a \in Browsers, NEW b \in Browsers, OnBeforePopup(a, b)
    PROVE  \A x \in Views : Agreed(x)'
<1> USE DEF RInv, OneInv, IInv, TypeOK
<1>1. PICK c \in Views : c = browser[a].client
  BY DEF BrowserRecord
<1>2. UNCHANGED <<browserOf, queue, hasty>>
  BY DEF OnBeforePopup
<1>3. ASSUME NEW v \in Views, NewShell(v), Creating(b, v, 1, FirstUrl), astray' = astray
      PROVE  \A x \in Views : Agreed(x)'
  <2> DEFINE w == [Unborn EXCEPT !.life = "alive", !.created = TRUE]
  <2>1. ~Taken(v)
    BY <1>3 DEF NewShell, IsFreshView, Taken
  <2>2. w.url = FirstUrl
    BY DEF Unborn
  <2>3. view' = [view EXCEPT ![v] = w] /\ owned' = [owned EXCEPT ![v] = TRUE]
    BY <1>3 DEF NewShell
  <2> HIDE DEF w
  <2> QED
    BY <1>2, <1>3, <2>1, <2>2, <2>3, CreatingAgrees
<1>4. CASE Creating(b, c, 1, FirstUrl) /\ astray' = astray \cup {c} /\ UNCHANGED <<view, owned>>
  <2>1. browser'[b].client = c /\ \A d \in Browsers \ {b} : browser'[d] = browser[d]
    BY <1>4 DEF Creating
  <2>2. ASSUME NEW x \in Views, x # c PROVE Agreed(x)'
    <3>1. Untouched(x)
      BY <1>2, <1>4, <2>1, <2>2 DEF Untouched, Queued
    <3> QED
      BY <3>1, UntouchedAgrees
  <2>3. Agreed(c)'
    BY <1>4 DEF Agreed
  <2> QED
    BY <2>2, <2>3
<1> QED
  BY <1>1, <1>3, <1>4 DEF OnBeforePopup

\* Taking a block leaves the others queued.
LEMMA StillQueued ==
    ASSUME queue \in Seq(Blocks), queue # <<>>, queue' = Tail(queue), NEW v \in Views,
           Queued("didCreate", v), Head(queue).kind # "didCreate" \/ Head(queue).of # v
    PROVE  Queued("didCreate", v)'
<1>1. PICK i \in DOMAIN queue : queue[i].kind = "didCreate" /\ queue[i].of = v
  BY DEF Queued
<1>2. i # 1 /\ i \in 1..Len(queue)
  BY <1>1
<1>3. i - 1 \in DOMAIN Tail(queue) /\ Tail(queue)[i - 1] = queue[i]
  BY <1>2
<1> QED
  BY <1>1, <1>3 DEF Queued

\* The blocks of the queue, and the click behind one of them.
LEMMA BlocksAgree ==
    ASSUME RInv, OneInv', BrowserDidCreate \/ OpenTab \/ (\E a \in Browsers : OnOpenURLFromTab(a))
    PROVE  \A x \in Views : Agreed(x)'
<1> USE DEF RInv, OneInv, IInv, TypeOK
<1>1. CASE BrowserDidCreate
  <2>0. PICK v \in Views : v = Head(queue).of
    BY <1>1, QueueTail DEF BrowserDidCreate, Blocks
  <2> DEFINE q == [browser[browserOf[v]] EXCEPT !.size = view[v].size, !.zoom = view[v].zoom]
  <2>1. UNCHANGED <<view, browserOf, owned, hasty, astray>>
    BY <1>1 DEF BrowserDidCreate, ghosts
  <2>2. browserOf[v] \in Browsers => q.life = browser[browserOf[v]].life
        /\ q.client = browser[browserOf[v]].client /\ q.url = browser[browserOf[v]].url
        /\ q.size = view[v].size /\ q.zoom = view[v].zoom
    BY DEF BrowserRecord
  <2>3. browser' = IF Alive(v) /\ Attached(v) THEN [browser EXCEPT ![browserOf[v]] = q] ELSE browser
    BY <1>1, <2>0, ChildExists DEF BrowserDidCreate, DidCreate
  <2> HIDE DEF q
  <2>4. Attached(v) => browserOf[v] \in Browsers /\ browser[browserOf[v]].client = v
    BY ChildExists
  <2>5. ASSUME NEW x \in Views, x # v PROVE Agreed(x)'
    <3>1. Queued("didCreate", x) => Queued("didCreate", x)'
      BY <1>1, <2>0, <2>5, StillQueued DEF BrowserDidCreate
    <3>2. \A b \in Browsers : browser'[b].client = x => browser'[b] = browser[b]
      BY <2>2, <2>3, <2>4, <2>5
    <3>3. Untouched(x)
      BY <2>1, <3>1, <3>2 DEF Untouched
    <3> QED
      BY <3>3, UntouchedAgrees
  <2>6. ASSUME Alive(v)', v \notin astray' PROVE UrlAgrees(v)' /\ LayoutAgrees(v)'
    <3>1. UrlAgrees(v)
      BY <2>1, <2>6 DEF Agreed, Alive
    <3>2. UrlAgrees(v)'
      BY <2>1, <2>2, <2>3, <2>4, <3>1 DEF UrlAgrees, Exists
    <3>3. LayoutAgrees(v)'
      BY <2>1, <2>2, <2>3, <2>4, <2>6 DEF LayoutAgrees, Settled, Attached, Alive
    <3> QED
      BY <3>2, <3>3
  <2>7. Agreed(v)'
    BY <2>6 DEF Agreed
  <2> QED
    BY <2>5, <2>7
<1>2. CASE OpenTab
  <2>1. /\ queue' = Tail(queue) /\ queue # <<>> /\ Head(queue).kind = "openTab"
        /\ UNCHANGED <<browserOf, browser, hasty>>
    BY <1>2 DEF OpenTab
  <2>2. \A x \in Views : Queued("didCreate", x) => Queued("didCreate", x)'
    BY <2>1, StillQueued
  <2>3. ASSUME NEW v \in Views, NewShell(v), astray' = astray \cup {v} PROVE \A x \in Views : Agreed(x)'
    <3>1. ASSUME NEW x \in Views, x # v PROVE Agreed(x)'
      <4>1. Untouched(x)
        BY <2>1, <2>2, <2>3, <3>1 DEF Untouched, NewShell
      <4> QED
        BY <4>1, UntouchedAgrees
    <3>2. Agreed(v)'
      BY <2>3 DEF Agreed
    <3> QED
      BY <3>1, <3>2
  <2>4. ASSUME UNCHANGED <<view, owned, astray>>, NEW x \in Views PROVE Agreed(x)'
    <3>1. Untouched(x)
      BY <2>1, <2>2, <2>4 DEF Untouched
    <3> QED
      BY <3>1, UntouchedAgrees
  <2> QED
    BY <1>2, <2>3, <2>4 DEF OpenTab
<1>3. ASSUME NEW a \in Browsers, OnOpenURLFromTab(a), NEW x \in Views PROVE Agreed(x)'
  <2> DEFINE k == [kind |-> "openTab", of |-> browser[a].client]
  <2>1. queue' = Append(queue, k) /\ UNCHANGED <<view, browserOf, owned, browser, hasty, astray>>
    BY <1>3 DEF OnOpenURLFromTab, ghosts
  <2> HIDE DEF k
  <2>2. Queued("didCreate", x) => Queued("didCreate", x)'
    BY <2>1 DEF Queued
  <2>3. Untouched(x)
    BY <2>1, <2>2 DEF Untouched
  <2> QED
    BY <2>3, UntouchedAgrees
<1> QED
  BY <1>1, <1>2, <1>3

LEMMA StepRInv == RInv /\ [Next]_vars => RInv'
<1> SUFFICES ASSUME RInv, [Next]_vars PROVE RInv'
  OBVIOUS
<1>1. OneInv'
  BY StepOneInv DEF RInv
<1>2. ASSUME NEW v \in Views, NewView(v) \/ ViewDidMoveToWindow(v)
                              \/ (\E s \in Sizes : SetFrameSize(v, s))
      PROVE  \A x \in Views : Agreed(x)'
  BY <1>1, <1>2, GeometryAgrees
<1>3. ASSUME NEW v \in Views, Dealloc(v) \/ (\E u \in Urls : Load(v, u))
                              \/ (\E z \in Zooms : SetZoomFactor(v, z))
      PROVE  \A x \in Views : Agreed(x)'
  BY <1>1, <1>3, DeallocAgrees, LoadAgrees, ZoomAgrees
<1>4. ASSUME NEW b \in Browsers, OnAfterCreated(b) \/ CreationAborted(b) \/ OnBeforeClose(b)
      PROVE  \A x \in Views : Agreed(x)'
  BY <1>1, <1>4, CefAgrees
<1>5. ASSUME NEW b \in Browsers, NEW p \in Browsers, OnBeforePopup(b, p)
      PROVE  \A x \in Views : Agreed(x)'
  BY <1>1, <1>5, PopupAgrees
<1>6. ASSUME BrowserDidCreate \/ OpenTab \/ (\E b \in Browsers : OnOpenURLFromTab(b))
      PROVE  \A x \in Views : Agreed(x)'
  BY <1>1, <1>6, BlocksAgree
<1>7. ASSUME UNCHANGED vars, NEW x \in Views PROVE Agreed(x)'
  BY <1>1, <1>7, UntouchedAgrees DEF RInv, Untouched, Queued, vars, ghosts
<1>8. \A x \in Views : Agreed(x)'
  BY <1>2, <1>3, <1>4, <1>5, <1>6, <1>7 DEF Next
<1> QED
  BY <1>1, <1>8 DEF RInv

\* A view whose browser is there, and whose didCreate block has run, is laid out
\* and zoomed as the host asked for last; and its page is the URL asked for last
\* unless that was asked for in the middle of the creation.
THEOREM StateReaches == Spec => []StateReachesBrowser
<1>1. Spec => []RInv
  BY InitRInv, StepRInv, PTL DEF Spec
<1>2. RInv => StateReachesBrowser
  <2> SUFFICES ASSUME RInv, NEW v \in Views, Settled(v), v \notin astray
               PROVE  LayoutAgrees(v) /\ (v \notin hasty => browser[browserOf[v]].url = view[v].url)
    BY DEF StateReachesBrowser, LayoutAgrees
  <2>1. UrlAgrees(v) /\ LayoutAgrees(v)
    BY DEF RInv, Agreed, Settled
  <2>2. /\ browserOf[v] \in Browsers /\ Exists(browserOf[v])
        /\ browser[browserOf[v]].client = v
    BY ChildExists DEF RInv, OneInv, Settled
  <2> QED
    BY <2>1, <2>2 DEF UrlAgrees
<1> QED
  BY <1>1, <1>2, PTL

=============================================================================
