# ChromiumKit in TLA+

ChromiumKit wraps the Chromium Embedded Framework (CEF) in an AppKit view with
a WKWebView-like interface.  Almost everything it does is a hop between
threads and queues: CEF calls back on its own threads or on its UI thread (the
main thread), the wrapper snapshots what it was told and posts a block to the
main dispatch queue, and by the time the block runs the view, the browser or
the page may be another one.  The modules here model those hops and check what
must hold in spite of them.

Source paths below are relative to the repository; `ChromiumView.mm` and
`ChromiumApplication.mm` are in `Sources/ChromiumViewObjC/`.

## 1. The system

| Part | State | Operations | Talks to | Hard parts | What makes it correct |
|---|---|---|---|---|---|
| External message pump (`ChromiumApplication.mm:119-249`) | pump flags, timer generation, pending flag | `OnScheduleMessagePumpWork`, timer blocks, `PumpDoWork` | CEF (any thread), main queue, `dispatch_after` | reentrancy, superseded timers, time | pumps never nest, the heartbeat never stops |
| Start and termination (`ChromiumApplication.mm:11-112, 250-354`) | setup block, deferred-termination flag, run-loop mode | run, `terminate:`, `replyToApplicationShouldTerminate:` | AppKit, the host's delegate, CEF | asynchronous answer of the delegate, two loop modes, modal panels with loops of their own | the loop is unwound, and `CefShutdown` called, exactly once per accepted quit |
| DevTools bridge (`ChromiumView.mm:269-298, 1134-1390`) | message ids, callback tables, handlers, scripts, identifiers, domain flag | evaluate, add/remove handler, add/remove scripts, results, events | DevTools agent of the browser, the page | results out of order, calls before and during creation, navigation, closing, popups that take the client over | own answer to every evaluation, everything registered is installed |
| Browser lifecycle (`ChromiumView.mm:546-624, 831-872, 939-1060, 1081-1095`) | `_browserCreated`, `_client`, `browser_`, `owner_`, URL, zoom, bounds | window/size changes, `load:`, zoom, popups, dealloc | CEF, the host, the navigation delegate | asynchronous creation and closing, weak owner, popups that share a client | one browser per view, none without its view, pushed state reaches it |
| Downloads (`ChromiumView.mm:109-166, 491-544, 874-937`) | `_downloads`, handles with a late item callback and a pending cancel | question, reports, cancel, pause, resume, answer | CEF, the download delegate | asynchronous answer, cancel before the callback is there, late and repeated reports | no false or withdrawn end, no leak, rejected downloads stop |
| Navigation mirror and favicons (`ChromiumView.mm:243-267, 626-698, 1394-1414`) | URL, title, loading flags, favicon | CEF's load and display callbacks | KVO observers, the navigation delegate | copies that lag behind, a favicon that arrives after the next page, navigations CEF does not report | copies converge, a stale favicon is never shown |
| Synchronous hooks (`ChromiumView.mm:387-489`) | handler blocks of the view | `OnBeforeBrowse`, `OnBeforeResourceLoad`, `OnKeyEvent`, `OnFindResult` | CEF's UI and IO threads | block property set on one thread, read on another | verdict of the installed handler, allow without one |
| Data stores (`ChromiumView.mm:713-793`) | request context, cache path, `g_root_cache_path` | default, non-persistent and named stores | CEF, views, the configuration | creation on first use, popups without a store, relaunch | stores are isolated, and keep what they were given |
| Cookie store (`ChromiumCookieStore.mm`) | collector, callbacks | set, visit, delete | CEF's cookie manager | no "done" signal for a visit | every completion called exactly once |
| ChromiumKit (Swift) | observable copies of the KVO state | observation, SwiftUI wrapper | ChromiumView, SwiftUI | copies of copies | converges with the view |
| CEF's reference counting (`libcef_dll/cpptoc`, `ctocpp`) | a count for the object, its C struct and CEF's proxy | copy, drop, pass across, call, on any thread | every CefRefPtr holder | three counts taken one after the other | nothing used after its deletion, everything deleted in the end |
| HelloChromium tabs (`Examples/HelloChromium`) | tab records, live tabs, sessions | wake, hibernate, reconcile, new tab | views, session file | records and live views drift apart | one view per live tab, none for closed ones |

Left aside: the rest of the vendored CEF wrapper (`Sources/ChromiumWrapper`,
generated argument conversion), SwiftUI layout, configuration values, the helper's single call, build and signing.

### How the modelled parts interact

All modelled parts share the FIFO main dispatch queue, which each module has
as a sequence of blocks.  `OnAfterCreated` is the point where they meet: it
sets `browser_` at once (from then on DevTools commands are sent, loads go
through, closing closes something) and posts `_browserDidCreate`, which
re-applies what was asked for earlier: layout, handlers, scripts, zoom.  The
time in between is the hazard that both `BrowserLifecycle` and
`DevToolsBridge` are about; each of them models its own part of
`_browserDidCreate`.

`TabRuntime` extends `NavigationMirror`: its steps create, load and release the
views whose copies the mirror models, and every step of the mirror may change a
record in the same transition, as KVO does.  `CookieStore` has a listing's
completion run when the last reference to its collector has gone; that this
happens, once and not early, is what `RefBridge` shows.  `DataStore` has the
views and popups of `BrowserLifecycle` once more, for the context each browser
works on.

## 2. Modules

| Module | Models |
|---|---|
| `PumpContract` | what the pump promises CEF: calls never nest, once woken it stays woken, a pump takes all progress |
| `MessagePump` | the pump: queue, timers, generation, reentrancy, clock |
| `QuitContract` | what quitting promises the host: the delegate decides, an accepted quit is announced, never taken back, and ends the process unless a modal panel holds it up |
| `Termination` | start, both run loops, `terminate:` and the delegate's answers, `CefShutdown` |
| `DevToolsBridge` | evaluation, message handlers and user scripts over the DevTools agent |
| `BrowserLifecycle` | views, clients, browsers and popups |
| `Download` | download handles of a view |
| `SharedObject` | a shared object: there while somebody has it, destroyed once after that |
| `RefBridge` | the three reference counts of an object that crosses CEF's C interface |
| `DataStore` | stores, the contexts of their views' browsers, and what a relaunch leaves |
| `CookieStore` | setting, listing and deleting cookies, and their completions |
| `NavigationMirror` | URL, loading state and favicon of views, and the Swift observable |
| `TabRuntime` | HelloChromium's tabs, session and records over those views |
| `*Proofs` | theorems about the module of that name; `TabRuntimeProofs` has those about `NavigationMirror`, `StoreProofs` those about `CookieStore` and `DataStore` |
| `MC*` | constants for TLC, nothing else |

**MessagePump.** `active`, `reentrancy`, `timerPending` are the `g_pump_*`
flags.  The generation counter is only compared with captured values, so
a `dispatch_after` block carries a bit that says whether its capture is still
current, and `SupersedeArmed`/`SupersedeQueued` are `++g_pump_timer_generation`.
`armed` holds the blocks the clock still has, `queue` the main queue, `stack`
the number of `CefDoMessageLoopWork()` frames.  `KeepTimer`, `ScheduleNow`,
`ScheduleLater` are the three ways through `PumpOnScheduleWork`, `TimerFires`
and `TimerSuperseded` those of the timer block; `PumpBegin`/`PumpFinish` are
the two halves of `PumpDoWork` around `CefDoMessageLoopWork()`, and
`PumpDiscard` is a nested `PumpDoWork`.  While `stack` is 1, blocks may run,
because the pump may spin the run loop.  `woken` remembers that CEF has asked for
a first pump, before which there is no heartbeat.

**Termination.** `applicationShouldTerminate:` is host code that may run a modal
panel, so `-terminate:` is two steps: `Terminate` asks, and `TerminateCancel`,
`TerminateLater` or `TerminateNow` is the verdict; another `-terminate:` may come
in between.  `Reply` and `ReplyToSuper` are the two ways through
`replyToApplicationShouldTerminate:`.  `CefUnwindRunLoop` is `stop:` with a
wake-up event in `[NSApp run]`, and `CefQuitMessageLoop()` in the other loop.
`EarlyReply` says whether a delegate may reply before it has returned Later.
A panel is known by the `applicationShouldTerminate:` it runs in (`panels`, 0 for one
of the host's elsewhere) and has its own event loop.  `Stop` ends the innermost loop,
that is the panel's if there is one (`broken`), and the events behind it, the wake-up
event included, go to the panel (`PanelEvent`) as long as it runs.  A quit accepted
while a panel is there, or followed by one before the loop is left, is `held`: the
contract (`Hold`) does not ask that it end the process, because the code does nothing
to make it.

**DevToolsBridge.** `Send` is `_sendDevToolsMethod:`; ids are taken in order.
The agent executes commands in FIFO order and answers by a block of the main
queue, except that an evaluation answers when its promise settles.
`OnAfterCreated` and `BrowserDidCreate` are separate steps; `Installs` is what the
second one sends, for the handlers in any order and then for the scripts.  Of what
every new document runs, `agent.shims` are the handlers' shims and `agent.scripts`
the user scripts, in order.  `live` counts the browsers of the client: a popup that CEF
opens with its defaults has its opener's client, so `OnAfterCreated` may come again,
and takes `browser_` and the observer's registration over; `OnBeforeClose` of any of
them clears both and `owner_`, after which a further popup's browser is `unowned`: commands
reach it, but nothing comes back.  `agent` and `page` are those of the browser that has
the observer, as the view hears nothing of the others.  The ghost `lost` has the calls whose observer went
before their answer was on the queue.  A reply is the
dictionary CEF's observer hands over (`cef_devtools_message_observer.h:85-86`
says it is the contents of "result"), and `RawResult` looks in it what the code
looks up.  A message of the page is an event block that `OnDevToolsEvent` hands
to the handler that is registered by then.

**BrowserLifecycle.** A view has at most one client, so clients carry the
view's name; `browserOf` is `browser_`, `owned` says that `owner_` is not nil.
`CreateBrowser` is the tail of `_createBrowserIfReady`, reached from
`ViewDidMoveToWindow` and `SetFrameSize` (which stands for the three layout
hooks).  `OnBeforePopup` covers adoption by a shell and CEF's default, where
the popup inherits the opener's client (`cef_life_span_handler.h:71-72`).
`OpenTab` is the deferred block of `OnOpenURLFromTab`, one at a time.  `Dealloc`
waits for such a block, which retains the view.  The ghosts `hasty` and `astray`
name the views past what the code guarantees: those the host loads or drops while
their browser is in creation, and those whose client a default popup shares or
whose shell waits for a popup that never comes.

**Download.** `BeforeDownload` is `_onBeforeDownloadId:`, the three updates
(`UntrackedUpdate`, `DeferredCancel`, `DownloadUpdated`) are the paths of
`_onDownloadUpdatedId:`, and `ChooseDestination`/`ChooseNil` are the delegate's
answer, which comes when it likes, also after the view is gone.

**RefBridge.** A call of a thread is the sequence of count operations it consists
of, and `steps` is what is left of it: each is atomic, everything may happen
between two.  An operation names the cells that are read on the way to its
count, which `NoUseAfterFree` wants alive.  A thread has at most one CefRefPtr to
each thing, and none is on its way to it while it has one (`Vacant`): a second one
counts as another thread's would.  Where `PassToClient` did not ask for that, two
references became one element of `refs`, and the object's count stayed above
zero for ever; the attempt at the proof showed it, with more calls than the run has.

**DataStore.** A store's `path` is `_cachePath`, `Component` reduces an identifier
to it, and a context is known by the view it was created for
(`EnsureRequestContext`).  Data are told apart by author, that is by the store the
host believes it wrote to.  CEF's part is taken from its headers: a context
without a cache path is in memory, the global one has none because only
`root_cache_path` is set (`cef_types.h:283-296`), and a popup works on its
opener's context (`cef_request_context.h:97-100`).  `Relaunch` is an orderly end
and a new start with the same configuration.

**CookieStore.** The host's three calls with their early returns (no manager, a
refusal), CEF's work in order (`Execute`, or `GiveUp`), and what comes back:
`Visit` per cookie and `CollectorGoes` for a listing, `OnComplete` for the others,
each posting to the main queue where `Completion` runs.

**NavigationMirror.** `browser` is CEF's side, `web` the view, `kit` its
observable.  CEF's callbacks post blocks, `RunBlock` applies them, `Load` sets the
URL at once.  A favicon is a number, and a `CEFFaviconRef` the pair of that number
and the image it has got.  `title`, `canGoBack` and `canGoForward` are copied as
`isLoading` is and left out.  `FollowLink` is a
navigation of the page or the history to another document, `SamePageNavigation` one
within the document (a fragment, `pushState`, same-document history), and `SamePageLoad`
a load that turns out to be one: for these CEF calls no `OnLoadStart`
(`cef_load_handler.h:76-78`), and the view has no `OnAddressChange`.
`missed` remembers that nothing told the view the browser's URL: a load it was asked
for was refused or lost, or the page has moved within its document since.

**TabRuntime.** User steps are `Wake`, `Hibernate`, `NewTab`, `Select`, `Navigate`,
`CloseTab`; `RequestsNewTab` is a popup; `Save` is SwiftData taking a deleted
record out of the session (`tabs`, a set: a record's `sortIndex` is its place),
`Render` is `ContentView` following the selection,
`ReconcileLiveTabs` the task that observation tracking posts when the tabs
change.  `Relaunch` is a normal or abnormal end and a new launch: only the
session survives, with or without the unsaved deletions.  `moves` bounds what
the user, the pages and CEF do; the program's own steps are never bounded.

## 3. Runs

| Run | Question | Bounds |
|---|---|---|
| `pump` | Do pumps nest, does the pending flag agree with the timer, is an idle main thread without a heartbeat's timer ever, does the pump implement `PumpContract`, is unasked-for progress delivered? | heartbeat of 2 ticks; delays 0, 1, 2, 3 (immediate, before, at and beyond the heartbeat); CEF asks while fewer than 2 blocks are queued, so that two requests, a timer block, the heartbeat and a re-post meet on the queue |
| `devtools` | Are scripts and handlers installed and removed, do a page's messages arrive, and does each completion get its own answer, unless its browser's observer went first? | 3 API calls, 2 script sources, 1 handler name, scripts that return `undefined` or throw: enough to add before, between and after creation, to remove and add again, and for a popup that takes the client over (it counts as a call) |
| `browsers` | Does a view ever call a closed browser, does what the host asks for reach a browser that is created asynchronously, is there one browser per view, do tabs get browsers, do dropped views close theirs? | 2 views, 2 browsers, so that a browser opens another, adopted or not; sizes 0 and 1, two URLs, a zoom besides the default; any host, any verdict |
| `download_handles` | Are handles truthful, `_downloads` exact, rejected downloads stopped? | 2 downloads, reports up to 2 blocks ahead; cancel, pause and close at any time |
| `termination` | Does quitting implement `QuitContract`, are quit hooks run once, is a deferral always answerable? | 3 quits, so that one overlaps a deferred one and another follows; 1 user event; modal panels at any time; delegates that reply after they returned |
| `data_stores` | Are stores isolated, is their data there for later views, popups and launches? | 2 stores, 3 views in each launch: a view, its popup and a view that might see what they wrote; 3 identifiers, of which two have the same component and one is empty; with and without a root path |
| `ref_bridge` | Is an object used after its deletion or leaked, and is it one `SharedObject` to its users? | 3 threads, 2 crossings, 6 calls: two threads in one wrapper's counts while a third has the object, and a second crossing after the first was released |
| `cookies` | Is each completion called, once, with what CEF did? | 3 calls on 2 cookies: all kinds of call, before and after CEF is ready, and a set between two others |
| `tabs` | Do views, observables and records converge on their browsers, do live views and the selection follow the session, is the selected tab awake? | 2 tabs, 3 views (one is woken again), 2 pages, 2 favicons, CEF at most 2 blocks ahead, 7 moves: hibernate, wake, load, favicon, image, close and a relaunch fit in one behaviour |

Three more runs are expected to end in a violation; each is a disagreement
between the code and what the repository says of it.

| Run | What the counterexample shows |
|---|---|
| `devtools_scripts_gone` | `removeAllUserScripts` sends nothing: `_onDevToolsResult` (`ChromiumView.mm:1168`) looks for `result` inside the result, so no identifier is kept: the removal comes when new documents run the host's scripts and the result of each script has been handled, and still asks for none. |
| `download_cancel_silent` | a cancel was asked for before there was a callback; the next report, of a download that still runs, carries it out and drops the handle (`ChromiumView.mm:922-925`).  CEF's later report of the cancellation finds no handle, which stays `inProgress` and never becomes `canceled`. |
| `data_store_relaunch` | the default store says that it is persistent (`ChromiumView.mm:735`, `ChromiumViewObjC.h:279`), but its context has no cache path, and a relaunch finds nothing of what was written through it. |

Where `TypeOK` is a theorem and says no more than the types, no run repeats it.  `NoNestedPump`,
`HeartbeatNeverStops` and `ShutdownIsAnnounced` are theorems only, because
`Implements` of their runs already covers them.

Every property of the passing runs has
a mutant of the code's definition that breaks it; the mutated operators stand
before the definition they mutate, marked `Mutant:`.

### Observations without a run

Seen while modelling, visible in the modules, and not among the runs:

- a script added after `OnAfterCreated` and before `_browserDidCreate` is
  installed twice (`ScriptsInstalled` therefore speaks of a suffix);
- `removeMessageHandlerName:` leaves the new-document shim registered, although
  the comment at `ChromiumView.mm:1278` speaks of tearing it down;
- a script added before a handler runs before the handler's shim;
- a string body that parses as JSON reaches its handler as the JSON value;
- an evaluation in flight is never completed when a browser of the client closes, and
  neither when a popup left to CEF's defaults takes the client over
  (`ChromiumView.mm:576-578` replaces the registration), although the browser it was
  sent to is still open; a popup that comes after a close is called without ever
  answering (`EvalCompletesWhileOpen` excludes these calls, `lost`);
- `load:` between `CreateBrowser` and `OnAfterCreated` only changes `URL`; the
  browser shows the earlier page (`AddressBar.swift:84` relies on the contrary);
- an accepted quit goes from the unwound loop to `CefShutdown` without closing a
  browser (`ChromiumApplication.mm:315`), so the open views' clients still hold
  theirs, which `shutdown_checker.cc:31` asserts against in debug builds;
- identifiers with the same path component (`a-b` and `a.b`, or empty and
  `profile`) share their data, although `ChromiumViewObjC.h:276` says "separate
  from ... every other identifier" (`MayShare` in `DataStore`);
- a store made for an identifier before `runWithConfiguration:` has set the root
  path is in memory for good;
- a view released while its browser is created leaves a browser nobody closes;
- the shell that a cmd+click opens never gets a browser: `+popupView` marks it as
  created, and on this path CEF creates no popup for it;
- a popup left to CEF's defaults shares the opener's client and overwrites its
  `browser_`;
- `pause` before the first report is dropped, where `cancel` is deferred;
- a `nil` destination given after the view is gone cancels nothing;
- every delayed request replaces the armed timer, so a stream of them puts the
  next pump off beyond the heartbeat that `ChromiumApplication.mm:144` calls the
  maximum wait (`ProgressIsPumped` has CEF stop at some point);
- a delegate that replies before it returns `NSTerminateLater` is not heard, and
  the flag it then leaves waits for an answer that was already given
  (`EarlyReply`); two deferred quits share one flag, so one answer settles both;
- a quit accepted while a modal panel runs ends the panel, not `[NSApp run]`: its
  `stop:` and the wake-up event go to the panel's loop, and the process goes on until
  somebody quits again; a panel opened between an accepted quit and the next event can eat the
  wake-up, and the loop then ends with the user's next event;
- a quit accepted during `CefInitialize` is lost, because neither loop has
  started; overlapping quits may post `NSApplicationWillTerminate` twice;
- a set or delete whose callback CEF drops is never completed, and a listing it
  gives up half-way is completed with the cookies visited so far;
- a record keeps the favicon of the page before when the new one has none:
  `bindFavicon(nil)` (`TabRuntime.swift:217-222`) leaves `faviconPNG` alone;
- a navigation within the document (a fragment, `pushState`, same-document history)
  leaves the view's `URL` where it was, since only `OnLoadStart` sets it; the observable
  and the record have the old one too, and a tab that wakes again loads that
  (`CopiesConverge` asks for the URL only where `missed` is not set);
- a load that fails or is refused leaves the view's `URL` at a page that was
  never shown, and the record with it;
- `resourceRequestBlocker` set after the first load races with CEF's IO thread;
  `ChromiumViewObjC.h:323` asks for it to be set before.

## 4. Fairness

- **Pump**: the main thread runs its queue while no pump blocks it, a pump
  returns, libdispatch delivers expired timers.  Time goes on (strongly fair:
  an instant holds finitely many blocks in a real run, because running them
  takes time).  CEF owes nothing.
- **DevTools**: the main queue drains, the agent of the browser that is attached executes
  what it was sent and promises settle (a page whose promise never settles owes no completion).
- **Browsers**: the main queue drains; CEF finishes a creation or gives it up;
  it closes what it was asked to close.  The host and pages owe nothing.
- **Downloads**: the main queue drains; CEF keeps reporting a download that
  runs and is not paused, and carries out `Cancel()`.  The delegate need not
  answer, the host need not act.

- **Termination**: the main thread's loop turns, `applicationShouldTerminate:`
  returns unless it runs a modal panel, and a delegate that returned Later answers in the
  end.  Nobody has to close a panel, and the user owes no event.
- **RefBridge**: a thread finishes the call it is in.  Nobody need drop a
  reference.
- **CookieStore**: CEF carries out or gives up what it accepted, the main thread
  runs.
- **Tabs, data stores**: none.  Their properties are invariants, and those of the tabs speak
  of the blocks and the task that are still to come.

## 5. Proofs

TLAPS checks these for every value of the constants under the modules' named
assumptions (`HeartbeatAssumption`, `PlaceholderAssumption`, ... in
`MessagePump`; `HostAssumption`, `MaxQueueAssumption` in `Download`; `MissingAssumption`
in `CookieStore`: what stands for "no answer" is no listing; `TabsAssumption` in
`TabRuntime`: a finite set of tabs that is not empty; `ProgramsAssumption` and
`MaxCallsAssumption` in `DevToolsBridge`; `MaxCallsAssumption` in `RefBridge`, whose
threads need not be finitely many; `IdentifiersAssumption` and `NoneAssumption` in
`DataStore`).

**`MessagePumpProofs`**: `TypeCorrect`, `NeverNested`, `PendingReal`,
`Reposted`, `IdleBounded`, `NeverSilent` and `Refinement` (the pump implements
`PumpContract`).  The inductive invariant `IInv` is
`TypeOK /\ NoNestedPump /\ PendingIsReal /\ DiscardedIsReposted`: `PendingIsReal`
is not inductive without `NoNestedPump` and the types of the queue's blocks, and
the heartbeat rests on all of them, since a pump that returns leaves a re-post
(`reentrancy`), arms nothing because a real timer is pending, or posts the
placeholder.  `HeartbeatNeverStops` follows from it step by step.
`IdleWaitIsBounded` says that an idle main thread has a live timer, once CEF has asked for
a pump; it rests on `AlwaysAwake`: since then there is always a request, a
live timer, a timer's block or a pump on the stack, and of these an idle thread can have the timer
only.  Lemmas say what appending to, taking from and superseding a queue does to
the blocks it holds; the step lemma has one case per action.
The refinement needs `NeverNested` (the contract's `Begin` wants an empty
stack) and `NeverSilent` (its `scheduled` never becomes false).

**`DownloadProofs`**: `TypeCorrect`, `EndsAreNeverFalse`, `NoLeak`,
`NoEarlyDrop` and `EndsAreFinal`.  The invariant that carries them is about
the queue: a download's question is on it at most once and only before the
download has a handle; a report of an end is true; no report of a running
download that ended comes after the report of its end (`QueueOk`).  Only this
order rules out that a handle's end is taken back.

**`TerminationProofs`**: `TypeCorrect`, `QuitHooksRunOnce`, `ShutdownIsLast`,
`DeferralIsAnswerable` (for delegates without `EarlyReply`, the theorem's
assumption) and `Refinement`, for the safety part of `QuitContract`.  `IInv` is
`TypeOK /\ AskingInHost /\ StoppedIsAccepted /\ Settled`: the delegate is asked
only while the host runs, a loop that was told to stop was told so by an accepted
quit, and what has been posted agrees with what is pending.  `StoppedIsAccepted`
is what makes the end of the loop an `End` of the contract.  Modal panels take `stop:`
away from the loop, never give it one, so that they add the contract's `Hold` and stutters.

**`BrowserLifecycleProofs`**: `TypeCorrect`, `NeverDangling`, `OnePerView` and
`StateReaches`.
`IInv` is `TypeOK /\ NoDanglingBrowser`, and inductive: what a client has as
`browser_` is present and names that client, and `OnBeforeClose` clears it in
the step that closes the browser.  `OneBrowserPerView` is not inductive, because
it says nothing of creations that are under way; `OneInv` adds `CreatedOnce`: a
view that has had a browser made for it is taken, that is gone or `_browserCreated`,
and CEF makes a browser only for a view that is not taken, or is astray.
`StateReachesBrowser` speaks of views that have nothing on the queue, so `RInv` adds
`Agreed`, which speaks of all: the browser's URL is the view's unless
the host was hasty, from the moment the browser is in creation, which is also when
the view must still own it; its size and zoom are, once `_browserDidCreate` has run.

**`StoreProofs`**, for the cookie store: `CompletesOnce`, `AnswersTrue` and
`TypeCorrect`.  A call is in one place at
a time (`OnePlace`): a request of CEF's, a reply on its way, a block of the main queue,
or completed; and it is there once (`Singles`).  With that, each step moves one
call and leaves the others alone.  `Truth` says what the things on their way carry:
a block a true answer, a reply what CEF did, where the results of a listing
together with the cookies still to be visited are the jar of the moment CEF
took it.  For the types, `Fitting` has each request, reply, block and answer be of
the kind its call was, which needs `OnePlace` again: a listing's reply is what
`OnComplete` must never see.

For the data stores: `StoresIsolated`, `DataStays` and `DataTypeCorrect`; `DataStore` names its
initial predicate and next-state relation `DataInit` and `DataNext` so that one module can speak of both.  The first two follow from `StorageInv`: each author (the
default store, an identifier, or a memory store's object) has one storage (`Fits`), and
so has each view the one of its author (`Good`), whether it came from a store or as a popup;
a memory store's context is named after a view of the store's own, so that two stores never share one
(`OwnContexts`); what is written is in its author's place (`WrittenInPlace`), and what
was written in this launch, or promised to survive, is still there (`Kept`).  Isolation then is that two authors with one
storage are those that may share (`SharedStorage`), and keeping the data that an author
has one storage only (`OneStorage`).

**`TabRuntimeProofs`**: `TypeCorrect`, `ImagesMatch`, `ObservablesFollow`,
`RecordsFollow`, `NoTabLeaks`, `ShownTabsAwake` and `CopiesFollow`, for `TabRuntime`
and the `NavigationMirror` below it.  `IInv` has a part for each group of variables: the
views with their observables, the queue, CEF's side, the tabs.  A step of the
mirror is dealt with once, for the mirror's part, and `SyncInv` adds what KVO
makes of it in the records.  `ImageIsItsOwn` needs that each image on the queue
is its favicon's (`OwnImages`).  `ObservableAgrees` has to know that a view which
is not born has no observable (`KitFresh`).  `NothingLeaks` follows from
`Tracked`: while the observation tracking is armed nothing has changed, and once it
has fired, the reaction is on the queue.  `ShownIsAwake` is stronger than
`SelectedIsAwake`, because the selection may come back to what is shown without a
`Render` in between.  `UnusedIsNowhere` lets `NewTab` start from a tab nobody
refers to.  That the session's tabs have a last one, which the reaction selects,
is `LastTabIn`, by the well-foundedness of strict inclusion on finite sets.

`CopiesConverge` speaks of an empty queue; its invariant speaks of a full one: of each
field, the last block that waits carries what the browser has, and where none waits
the view has it.  The URL alone may differ, while a load of the host's is
under way (`next`), or when the view was not told of the last navigation, which was
refused or lost or stayed within the document (`missed`).

**`RefBridgeProofs`**: `Safety` (`NoUseAfterFree`), `Reclamation`
(`ReclaimedExactly`), `Refinement` (the initial state and every step of
`SharedObject`; its liveness stays with TLC) and `TypeCorrect`.  No count has a meaning by itself, since
calls of other threads are under way in the middle of theirs.  `CountsAgree` gives it one:
a cell's count is the number of references that keep it, plus what each call under
way has added and not yet taken away, both counted as cardinalities, so that a step
changes one of the two by one.  `CallsAreSafe` says why each operation that is left
in a call finds its cells: the thread has a reference that keeps them, or the call
made or counted them itself.  With `CountsAgree` the count of such a cell is not zero, and `LivesAgree`
says that a cell is there exactly while its count is above zero, or its call has yet
to count it for the first time.  `GainsAreNew` (a call ends in one reference nobody
else is about to get) keeps the count of references honest when it ends, and `BornIsPrivate`
keeps other threads away from a wrapper before its first count.

**`DevToolsBridgeProofs`**: `OwnAnswers`, `Messages`, `Handlers`, `Scripts`,
`TypeCorrect`, `CompletionsCalledOnce`, `AnswersAreComing`, `MessagesHandledOnce` and
`MessagesInOrder`; the first five are the invariants of the run.  `IInv`
has a part for each, about the commands that are still to be executed:

- `AnswerInv`: an id is with one command all its life.  Wherever it is (a command, a
  promise, a result on the queue), it is about the script of the callback that waits for
  it, and ids of other commands have no callback, so that no order of
  answers, and no stale one after a navigation, reaches another's completion.
- `DomainsInv`: a binding is executed after `Runtime.enable`, a script after
  `Page.enable`, and a handler's shim is there for new documents before it is evaluated in the present one.
  `Before` says that the agent is so already, or a command before makes it so.
- `EnabledInv`: outside creation, `_runtimeDomainsEnabled` means that `Page.enable` was executed
  or is under way, also when a popup's new agent has taken the place of the enabled one.
- `HandlersInv`: of the commands that add and remove a name's binding, and of those that
  put its shim into the page and take it out, the last one decides (`EndsOn`), and it
  agrees with the handlers.  While `_browserDidCreate` is still to come nothing
  is claimed of the names it will install.
- `ScriptsInv`: the first `m` scripts of the host are the last ones the agent has, and the others
  are among the commands, in order, at the places `p` (`Underway`).  That a script may be
  installed twice is why these are the last ones and not all.  `identifiers` stays
  empty, so `removeAllUserScripts` sends nothing, and a suffix of nothing is what it leaves.

A navigation while commands are under way does no harm to this, as it only touches the page, and
`agent.shims` has what a new page gets.

The other four rest on two more invariants, `CallsInv` and `EventsInv`.  A call of `evaluateJavaScript` that
is not over has exactly one callback (`OneCallback`), and what
will answer it is a command, an open promise or a result on the queue (`OnItsWay`), unless it
is `lost`: when a browser closes or another takes the client over, the calls without a
result on the queue are exactly those that become so (`BrowserLoses`).  This is the
safety half of `EvalCompletesWhileOpen`, whose liveness half is that the three are served.  A callback
that is called is taken out, so the answer of an id that has none changes nothing.  The
messages that are not over are exactly the events on the queue, and in
the order in which the page posted them; what the queue loses at its head and gains at its end
keeps that (`Shifted`).

Only model-checked, because the prover cannot do it: all liveness properties
(`ProgressIsPumped`, `EvalCompletesWhileOpen`, `RejectedStops`,
`TabGetsBrowser`, `DroppedViewsClose`, `EveryCallCompletes`) and the liveness parts of
the refinements.  Every invariant of a passing run is a theorem.

## 6. Not modelled

- **Synchronous hooks** (`OnBeforeBrowse`, `OnBeforeResourceLoad`, `OnKeyEvent`,
  `OnFindResult`): one call of the host's block and its verdict, no state.  The one
  hazard, `resourceRequestBlocker`, is a race the code does nothing about.
- **Find, audio, the DevTools window, reload and history**: calls handed to CEF.
- **Configuration, helper, build, packaging**: values, one call, scripts.
- **User interface**: SwiftUI views and menus; what they do to tabs is in
  `TabRuntime`.
- **The rest of the vendored CEF wrapper**, most of the repository's lines:
  headers, constants and generated conversions, call by call and without state,
  and helper classes ChromiumKit does not use.

## 7. Plan

The modelled parts are complete in the sense of the table above, and their
invariants are proved.  Left for proof: for `TabRuntime`, that a view is released
only when its tab is closed or put to sleep; for `BrowserLifecycle`, the safety halves of
`TabGetsBrowser` and `DroppedViewsClose`, as `AnswersAreComing` is that of `EvalCompletesWhileOpen`.
