----------------------------- MODULE Termination ----------------------------
(***************************************************************************)
(* Start and end of the process, ChromiumApplication.mm: CefInitialize,    *)
(* the setup block, [NSApp run] or CefRunMessageLoop(), -terminate: with   *)
(* the delegate's immediate or late answer, unwinding the loop, and        *)
(* CefShutdown().                                                          *)
(*                                                                         *)
(* The delegate's applicationShouldTerminate: is arbitrary host code, so   *)
(* -terminate: is two steps, Terminate and one of the verdicts, and        *)
(* another -terminate: may come in between.  The delegate, and the host    *)
(* elsewhere, may run a modal panel, which has an event loop of its own.   *)
(*                                                                         *)
(* External, and modelled from how the code uses it: [NSApp stop:] ends    *)
(* the innermost loop, that is [NSApp run] or the panel that is running,   *)
(* when this loop has processed one more event ("-stop: only takes effect  *)
(* after the loop processes one more event"), CefQuitMessageLoop() ends    *)
(* CefRunMessageLoop() by itself, and neither does anything to a loop that *)
(* has not started.                                                        *)
(***************************************************************************)
EXTENDS Naturals

CONSTANTS
    MaxQuits,     \* bound: calls of -terminate:
    MaxEvents,    \* bound: the user's events waiting in the event queue
    EarlyReply    \* may the delegate reply before it has returned Later?

ASSUME BoundsAssumption ==
    MaxQuits \in Nat /\ MaxEvents \in Nat
ASSUME EarlyReplyAssumption == EarlyReply \in BOOLEAN

VARIABLES
    life,      \* where runWithConfiguration:setup: is
    hostLoop,  \* g_external_message_pump: [NSApp run] is the loop
    setup,     \* g_setup_block is set
    ready,     \* the setup block has run: there is a host to ask
    deferred,  \* cefTerminationDeferred_
    asking,    \* applicationShouldTerminate: calls on the stack
    panels,    \* modal panels: n for one run inside the n-th of these calls
    broken,    \* the panels whose loop stop: has told to end
    stopping,  \* the application's loop has been told to end
    events,    \* events in the NSApplication's queue
    quits,     \* calls of -terminate: so far
    owed,      \* replies the delegate still owes
    posted,    \* NSApplicationWillTerminate notifications
    accepted,  \* the delegate accepted a quit while the loop was running
    held,      \* a panel was there when it last did, or has opened since
    overlap    \* a -terminate: came before an earlier one was settled

loopVars == <<life, hostLoop, setup, ready>>
panelVars == <<panels, broken>>
quitVars == <<deferred, asking, panels, broken, stopping, events>>
ghosts == <<quits, owed, posted, accepted, held, overlap>>
vars == <<life, hostLoop, setup, ready, deferred, asking, panels, broken,
          stopping, events, quits, owed, posted, accepted, held, overlap>>

Lives == {"launch", "initializing", "loop", "unwound", "shutdown", "failed"}

TypeOK ==
    /\ life \in Lives
    /\ hostLoop \in BOOLEAN /\ setup \in BOOLEAN /\ ready \in BOOLEAN
    /\ deferred \in BOOLEAN
    /\ asking \in Nat
    /\ panels \subseteq Nat /\ broken \subseteq Nat
    /\ stopping \in BOOLEAN
    /\ events \in Nat
    /\ quits \in Nat /\ owed \in Nat /\ posted \in Nat
    /\ accepted \in BOOLEAN /\ held \in BOOLEAN /\ overlap \in BOOLEAN

Init ==
    /\ life = "launch" /\ hostLoop = FALSE
    /\ setup = FALSE /\ ready = FALSE
    /\ deferred = FALSE /\ asking = 0 /\ stopping = FALSE /\ events = 0
    /\ panels = {} /\ broken = {}
    /\ quits = 0 /\ owed = 0 /\ posted = 0
    /\ accepted = FALSE /\ held = FALSE /\ overlap = FALSE

-----------------------------------------------------------------------------
(***************************************************************************)
(* runWithConfiguration:setup: (and runWithSetup:argc:argv:, which leaves  *)
(* the external pump off).                                                 *)
(***************************************************************************)
\* loader.LoadInMain() fails.
LoadFails ==
    /\ life = "launch"
    /\ life' = "failed"
    /\ UNCHANGED <<hostLoop, setup, ready, quitVars, ghosts>>

\* The configuration is stored and CefInitialize called.
Initialize(external) ==
    /\ life = "launch"
    /\ life' = "initializing"
    /\ hostLoop' = external
    /\ setup' = TRUE
    /\ UNCHANGED <<ready, quitVars, ghosts>>

InitializeFails ==
    /\ life = "initializing" /\ asking = 0 /\ panels = {}
    /\ life' = "failed"
    /\ UNCHANGED <<hostLoop, setup, ready, quitVars, ghosts>>

\* CefInitialize returned true: [NSApp run] or CefRunMessageLoop().
RunLoop ==
    /\ life = "initializing" /\ asking = 0 /\ panels = {}
    /\ life' = "loop"
    /\ stopping' = FALSE
    /\ UNCHANGED <<hostLoop, setup, ready, deferred, asking, panelVars, events, ghosts>>

\* _CEFApp::OnContextInitialized, during CefInitialize or in the loop.
OnContextInitialized ==
    /\ life \in {"initializing", "loop"}
    /\ setup
    /\ setup' = FALSE
    /\ ready' = TRUE
    /\ UNCHANGED <<life, hostLoop, quitVars, ghosts>>

\* [NSApp run] processes an event; a requested stop takes effect after it.
ProcessEvent ==
    /\ life = "loop" /\ hostLoop /\ asking = 0 /\ panels = {}
    /\ events > 0
    /\ events' = events - 1
    /\ life' = IF stopping THEN "unwound" ELSE life
    /\ UNCHANGED <<hostLoop, setup, ready, deferred, asking, panelVars, stopping, ghosts>>

\* CefRunMessageLoop() returns after CefQuitMessageLoop().
CefLoopQuits ==
    /\ life = "loop" /\ ~hostLoop /\ asking = 0 /\ panels = {}
    /\ stopping
    /\ life' = "unwound"
    /\ UNCHANGED <<hostLoop, setup, ready, quitVars, ghosts>>

\* CefShutdown(), from where on no CEF object may be used.
CefShutdown ==
    /\ life = "unwound"
    /\ life' = "shutdown"
    /\ UNCHANGED <<hostLoop, setup, ready, quitVars, ghosts>>

-----------------------------------------------------------------------------
(***************************************************************************)
(* -terminate: and the delegate.                                           *)
(***************************************************************************)
\* The main thread runs host code.
HostRuns == life \in {"initializing", "loop"} /\ ready

Innermost == {n \in panels : \A k \in panels : k <= n}

\* [NSApp stop:]
Stop ==
    /\ broken' = broken \cup Innermost
    /\ stopping' = (stopping \/ panels = {})

\* Mutant: no wake-up event after stop:.
UnwindWithoutWake ==
    \/ hostLoop /\ Stop /\ UNCHANGED events
    \/ ~hostLoop /\ stopping' = TRUE /\ UNCHANGED <<broken, events>>

\* _cefUnwindRunLoop: stop: and an event, or CefQuitMessageLoop().
CefUnwindRunLoop ==
    \/ hostLoop /\ Stop /\ events' = events + 1
    \/ ~hostLoop /\ stopping' = TRUE /\ UNCHANGED <<broken, events>>

\* NSApplicationWillTerminate is posted and the loop unwound.
Quit ==
    /\ posted' = posted + 1
    /\ CefUnwindRunLoop
    /\ IF life = "loop" THEN accepted' = TRUE /\ held' = (panels # {})
                        ELSE UNCHANGED <<accepted, held>>
    /\ UNCHANGED panels

Stay == UNCHANGED <<posted, stopping, events, accepted, held, panelVars>>

\* The innermost applicationShouldTerminate: can return: its panel is closed.
MayDecide == asking > 0 /\ asking \notin panels

\* -terminate: asks the delegate.
Terminate ==
    /\ HostRuns
    /\ quits < MaxQuits
    /\ quits' = quits + 1
    /\ asking' = asking + 1
    /\ IF asking > 0 \/ deferred \/ posted > 0 THEN overlap' = TRUE ELSE UNCHANGED overlap
    /\ Stay
    /\ UNCHANGED <<loopVars, deferred, owed>>

\* NSTerminateCancel.
TerminateCancel ==
    /\ MayDecide
    /\ asking' = asking - 1
    /\ Stay
    /\ UNCHANGED <<loopVars, deferred, quits, owed, overlap>>

\* Mutant: the notification is posted before the reply is looked at.
TerminateLaterPosts ==
    /\ MayDecide
    /\ asking' = asking - 1
    /\ deferred' = TRUE
    /\ owed' = owed + 1
    /\ posted' = posted + 1
    /\ UNCHANGED <<loopVars, panelVars, stopping, events, accepted, held, quits, overlap>>

\* NSTerminateLater: the delegate now owes a reply.
TerminateLater ==
    /\ MayDecide
    /\ asking' = asking - 1
    /\ deferred' = TRUE
    /\ owed' = owed + 1
    /\ Stay
    /\ UNCHANGED <<loopVars, quits, overlap>>

\* NSTerminateNow, or a delegate that does not implement the method.
TerminateNow ==
    /\ MayDecide
    /\ asking' = asking - 1
    /\ Quit
    /\ UNCHANGED <<loopVars, deferred, quits, owed, overlap>>

\* The delegate calls -replyToApplicationShouldTerminate: once for every
\* Later it returned or, with EarlyReply, is about to return.
MayReply == HostRuns /\ (owed > 0 \/ (EarlyReply /\ asking > 0))

Owes == owed' = IF owed > 0 THEN owed - 1 ELSE 0

\* Mutant: the flag survives a "no".
ReplyKeepsFlag(shouldTerminate) ==
    /\ MayReply /\ deferred
    /\ deferred' = ~shouldTerminate
    /\ IF shouldTerminate THEN Quit ELSE Stay
    /\ Owes
    /\ UNCHANGED <<loopVars, asking, quits, overlap>>

Reply(shouldTerminate) ==
    /\ MayReply /\ deferred
    /\ deferred' = FALSE
    /\ IF shouldTerminate THEN Quit ELSE Stay
    /\ Owes
    /\ UNCHANGED <<loopVars, asking, quits, overlap>>

\* No termination is deferred: [super reply...], which has none either.
ReplyToSuper ==
    /\ MayReply /\ ~deferred
    /\ Owes
    /\ Stay
    /\ UNCHANGED <<loopVars, deferred, asking, quits, overlap>>

-----------------------------------------------------------------------------
(***************************************************************************)
(* The user and the host's modal panels.                                   *)
(***************************************************************************)
UserEvent ==
    /\ life = "loop" /\ events < MaxEvents
    /\ events' = events + 1
    /\ UNCHANGED <<loopVars, deferred, asking, panelVars, stopping, ghosts>>

\* The host code that runs now, the innermost applicationShouldTerminate: if
\* there is one, runs a modal panel (one at a time).
OpenPanel ==
    /\ HostRuns /\ asking \notin panels
    /\ panels' = panels \cup {asking}
    /\ held' = (held \/ accepted)
    /\ UNCHANGED <<loopVars, deferred, asking, broken, stopping, events,
                   quits, owed, posted, accepted, overlap>>

Leave ==
    /\ panels' = panels \ {asking}
    /\ broken' = broken \ {asking}

\* The user closes the panel.
ClosePanel ==
    /\ asking \in panels
    /\ Leave
    /\ UNCHANGED <<loopVars, deferred, asking, stopping, events, ghosts>>

\* The panel's loop processes an event; it ends after it if stop: said so.
PanelEvent ==
    /\ asking \in panels /\ hostLoop
    /\ events > 0
    /\ events' = events - 1
    /\ IF asking \in broken THEN Leave ELSE UNCHANGED panelVars
    /\ UNCHANGED <<loopVars, deferred, asking, stopping, ghosts>>

Start == LoadFails \/ (\E b \in BOOLEAN : Initialize(b)) \/ InitializeFails \/ RunLoop
Verdict == TerminateCancel \/ TerminateLater \/ TerminateNow
Answer == (\E b \in BOOLEAN : Reply(b)) \/ ReplyToSuper

Next ==
    \/ Start
    \/ OnContextInitialized
    \/ ProcessEvent \/ CefLoopQuits \/ CefShutdown
    \/ Terminate \/ Verdict \/ Answer
    \/ UserEvent
    \/ OpenPanel \/ ClosePanel \/ PanelEvent

\* The main thread's loop turns, applicationShouldTerminate: returns unless it
\* runs a panel, and the delegate answers in the end.  Nobody has to close a
\* panel.
Fairness ==
    /\ WF_vars(Start) /\ WF_vars(ProcessEvent) /\ WF_vars(CefLoopQuits)
    /\ WF_vars(CefShutdown)
    /\ WF_vars(Verdict) /\ WF_vars(Answer)

Spec == Init /\ [][Next]_vars /\ Fairness

-----------------------------------------------------------------------------
(***************************************************************************)
(* Properties.                                                             *)
(***************************************************************************)
Phase ==
    CASE life = "shutdown" -> "ended"
      [] life # "shutdown" /\ accepted /\ held -> "held"
      [] life # "shutdown" /\ accepted /\ ~held -> "quitting"
      [] life # "shutdown" /\ ~accepted /\ deferred -> "deferred"
      [] OTHER -> "running"

\* The two entry points keep AppKit's termination contract, in both kinds of
\* loop, with overlapping quits, late answers and modal panels: what the
\* delegate accepted while the loop runs is announced, never taken back by
\* another verdict or a late "no", and ends in CefShutdown() unless a panel is
\* there to hold it up, and nothing else ends the process.
Contract == INSTANCE QuitContract
    WITH phase <- Phase, announced <- accepted /\ posted > 0
Implements == Contract!Spec
ImplementsSafely == Contract!Safe

\* A quit is never left waiting for an answer that nobody is going to give:
\* while cefTerminationDeferred_ is set the delegate owes a reply.
DeferredIsOwed == deferred => owed > 0

\* The host's quit hooks run once: a -terminate: that overlaps no other one
\* posts NSApplicationWillTerminate at most once, whenever the answer comes.
AnnouncedOnce == ~overlap => posted <= 1

\* CEF is shut down only after the loop was unwound for a quit that the
\* delegate accepted and heard of.
ShutdownIsAnnounced == life = "shutdown" => accepted /\ posted > 0

=============================================================================
