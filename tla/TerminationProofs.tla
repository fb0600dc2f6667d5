------------------------- MODULE TerminationProofs --------------------------
(***************************************************************************)
(* Theorems about Termination, for every number of quits and events:       *)
(* types, the invariants of the run, and that the two loops and the        *)
(* deferred flag implement the safety part of QuitContract.                *)
(***************************************************************************)
EXTENDS Termination, TLAPS

USE DEF Lives

Over == {"unwound", "shutdown"}

\* Host code is on the stack only while the main thread runs it.
AskingInHost == asking > 0 => life \in {"initializing", "loop"}

\* The loop ends only for a stop, and a running loop is stopped only for an
\* accepted quit; every accepted quit was posted.
StoppedIsAccepted ==
    /\ life = "loop" /\ stopping => accepted
    /\ life \in Over => accepted
    /\ accepted => posted > 0

\* While no quit overlapped another: at most one is being decided, and nothing
\* has been posted as long as it is undecided.
Settled ==
    ~overlap =>
        /\ asking <= 1
        /\ asking = 1 => ~deferred /\ posted = 0
        /\ deferred => posted = 0
        /\ posted <= 1

IInv == TypeOK /\ AskingInHost /\ StoppedIsAccepted /\ Settled

\* The initial state satisfies the invariant.
LEMMA InitIInv == Init => IInv
<1> SUFFICES ASSUME Init PROVE IInv
  OBVIOUS
<1> USE DEF Init
<1>1. TypeOK
  BY DEF TypeOK, Lives
<1>2. AskingInHost /\ StoppedIsAccepted
  BY DEF AskingInHost, StoppedIsAccepted, Over
<1>3. Settled
  BY DEF Settled
<1> QED
  BY <1>1, <1>2, <1>3 DEF IInv

\* Starting up and the setup block keep it.
LEMMA StartIInv ==
    ASSUME IInv, Start \/ OnContextInitialized
    PROVE  IInv'
<1>1. CASE LoadFails
  BY <1>1 DEF LoadFails, IInv, TypeOK, AskingInHost, StoppedIsAccepted, Settled,
              Over, quitVars, panelVars, ghosts
<1>2. ASSUME NEW b \in BOOLEAN, Initialize(b) PROVE IInv'
  BY <1>2 DEF Initialize, IInv, TypeOK, AskingInHost, StoppedIsAccepted, Settled,
              Over, quitVars, panelVars, ghosts
<1>3. CASE InitializeFails
  BY <1>3 DEF InitializeFails, IInv, TypeOK, AskingInHost, StoppedIsAccepted,
              Settled, Over, quitVars, panelVars, ghosts
<1>4. CASE RunLoop
  BY <1>4 DEF RunLoop, IInv, TypeOK, AskingInHost, StoppedIsAccepted, Settled,
              Over, panelVars, ghosts
<1>5. CASE OnContextInitialized
  BY <1>5 DEF OnContextInitialized, IInv, TypeOK, AskingInHost, StoppedIsAccepted,
              Settled, Over, quitVars, panelVars, ghosts
<1> QED
  BY <1>1, <1>2, <1>3, <1>4, <1>5 DEF Start

\* The end of the loop and CefShutdown() keep it.
LEMMA LoopIInv ==
    ASSUME IInv, ProcessEvent \/ CefLoopQuits \/ CefShutdown
    PROVE  IInv'
<1>1. CASE ProcessEvent
  BY <1>1 DEF ProcessEvent, panelVars, IInv, TypeOK, AskingInHost, StoppedIsAccepted, Settled,
              Over, ghosts
<1>2. CASE CefLoopQuits
  BY <1>2 DEF CefLoopQuits, IInv, TypeOK, AskingInHost, StoppedIsAccepted, Settled,
              Over, quitVars, panelVars, ghosts
<1>3. CASE CefShutdown
  BY <1>3 DEF CefShutdown, IInv, TypeOK, AskingInHost, StoppedIsAccepted, Settled,
              Over, quitVars, panelVars, ghosts
<1> QED
  BY <1>1, <1>2, <1>3

\* Asking the delegate and its three verdicts keep it.
LEMMA QuitIInv ==
    ASSUME IInv, Terminate \/ Verdict
    PROVE  IInv'
<1>1. CASE Terminate
  <2> USE <1>1 DEF Terminate, HostRuns, Stay, panelVars, loopVars, IInv
  <2>2. TypeOK'
    <3>1. /\ life' \in Lives /\ hostLoop' \in BOOLEAN
          /\ setup' \in BOOLEAN /\ ready' \in BOOLEAN
      BY DEF TypeOK
    <3>2. /\ deferred' \in BOOLEAN /\ stopping' \in BOOLEAN
          /\ accepted' \in BOOLEAN /\ held' \in BOOLEAN /\ overlap' \in BOOLEAN
          /\ panels' \subseteq Nat /\ broken' \subseteq Nat
      BY DEF TypeOK
    <3>3. /\ asking' \in Nat /\ events' \in Nat
          /\ quits' \in Nat /\ owed' \in Nat /\ posted' \in Nat
      BY DEF TypeOK
    <3> QED
      BY <3>1, <3>2, <3>3 DEF TypeOK
  <2>3. AskingInHost' /\ StoppedIsAccepted'
    BY DEF AskingInHost, StoppedIsAccepted, Over
  <2>4. Settled'
    BY DEF Settled, TypeOK
  <2> QED
    BY <2>2, <2>3, <2>4
<1>2. CASE TerminateCancel
  BY <1>2 DEF TerminateCancel, MayDecide, Stay, panelVars, IInv, TypeOK, AskingInHost,
              StoppedIsAccepted, Settled, Over, loopVars
<1>3. CASE TerminateLater
  BY <1>3 DEF TerminateLater, MayDecide, Stay, panelVars, IInv, TypeOK, AskingInHost,
              StoppedIsAccepted, Settled, Over, loopVars
<1>4. CASE TerminateNow
  <2> USE <1>4 DEF TerminateNow, MayDecide, Quit, CefUnwindRunLoop, Stop, Innermost, loopVars, IInv
  <2>2. TypeOK'
    <3>1. /\ life' \in Lives /\ hostLoop' \in BOOLEAN
          /\ setup' \in BOOLEAN /\ ready' \in BOOLEAN
      BY DEF TypeOK
    <3>2. /\ deferred' \in BOOLEAN /\ stopping' \in BOOLEAN
          /\ accepted' \in BOOLEAN /\ held' \in BOOLEAN /\ overlap' \in BOOLEAN
          /\ panels' \subseteq Nat /\ broken' \subseteq Nat
      BY DEF TypeOK
    <3>3. /\ asking' \in Nat /\ events' \in Nat
          /\ quits' \in Nat /\ owed' \in Nat /\ posted' \in Nat
      BY DEF TypeOK
    <3> QED
      BY <3>1, <3>2, <3>3 DEF TypeOK
  <2>3. AskingInHost' /\ StoppedIsAccepted'
    BY DEF AskingInHost, StoppedIsAccepted, Over, TypeOK
  <2>4. Settled'
    BY DEF Settled, TypeOK
  <2> QED
    BY <2>2, <2>3, <2>4
<1> QED
  BY <1>1, <1>2, <1>3, <1>4 DEF Verdict

\* The delegate's late answer keeps it.
LEMMA AnswerIInv ==
    ASSUME IInv, Answer
    PROVE  IInv'
<1>1. ASSUME Reply(TRUE) PROVE IInv'
  <2> USE <1>1, EarlyReplyAssumption DEF Reply, MayReply, HostRuns, Owes, Quit, CefUnwindRunLoop, Stop, Innermost,
                  loopVars, IInv
  <2>2. TypeOK'
    <3>1. /\ life' \in Lives /\ hostLoop' \in BOOLEAN
          /\ setup' \in BOOLEAN /\ ready' \in BOOLEAN
      BY DEF TypeOK
    <3>2. /\ deferred' \in BOOLEAN /\ stopping' \in BOOLEAN
          /\ accepted' \in BOOLEAN /\ held' \in BOOLEAN /\ overlap' \in BOOLEAN
          /\ panels' \subseteq Nat /\ broken' \subseteq Nat
      BY DEF TypeOK
    <3>3. /\ asking' \in Nat /\ events' \in Nat
          /\ quits' \in Nat /\ owed' \in Nat /\ posted' \in Nat
      BY DEF TypeOK
    <3> QED
      BY <3>1, <3>2, <3>3 DEF TypeOK
  <2>3. AskingInHost' /\ StoppedIsAccepted'
    BY DEF AskingInHost, StoppedIsAccepted, Over, TypeOK
  <2>4. Settled'
    BY DEF Settled, TypeOK
  <2> QED
    BY <2>2, <2>3, <2>4
<1>2. ASSUME Reply(FALSE) PROVE IInv'
  <2> USE <1>2, EarlyReplyAssumption DEF Reply, MayReply, HostRuns, Owes, Stay, panelVars, loopVars,
                  IInv
  <2>1. TypeOK'
    <3>1. /\ life' \in Lives /\ hostLoop' \in BOOLEAN
          /\ setup' \in BOOLEAN /\ ready' \in BOOLEAN
      BY DEF TypeOK
    <3>2. /\ deferred' \in BOOLEAN /\ stopping' \in BOOLEAN
          /\ accepted' \in BOOLEAN /\ held' \in BOOLEAN /\ overlap' \in BOOLEAN
          /\ panels' \subseteq Nat /\ broken' \subseteq Nat
      BY DEF TypeOK
    <3>3. /\ asking' \in Nat /\ events' \in Nat
          /\ quits' \in Nat /\ owed' \in Nat /\ posted' \in Nat
      BY DEF TypeOK
    <3> QED
      BY <3>1, <3>2, <3>3 DEF TypeOK
  <2>2. AskingInHost' /\ StoppedIsAccepted'
    BY DEF AskingInHost, StoppedIsAccepted, Over
  <2>3. Settled'
    BY DEF Settled, TypeOK
  <2> QED
    BY <2>1, <2>2, <2>3
<1>3. CASE ReplyToSuper
  BY <1>3 DEF ReplyToSuper, MayReply, HostRuns, Owes, Stay, panelVars, IInv, TypeOK,
              AskingInHost, StoppedIsAccepted, Settled, Over, loopVars
<1> QED
  BY <1>1, <1>2, <1>3 DEF Answer

\* The user's events and the panels have nothing to do with it.
LEMMA UserIInv ==
    ASSUME IInv, UserEvent \/ OpenPanel \/ ClosePanel \/ PanelEvent
    PROVE  IInv'
<1> USE DEF IInv, AskingInHost, StoppedIsAccepted, Settled, Over, loopVars,
            panelVars, ghosts
<1>1. CASE UserEvent
  BY <1>1 DEF UserEvent, TypeOK
<1>2. CASE OpenPanel
  BY <1>2 DEF OpenPanel, TypeOK
<1>3. CASE ClosePanel
  BY <1>3 DEF ClosePanel, Leave, TypeOK
<1>4. CASE PanelEvent
  <2>1. events' \in Nat
    BY <1>4 DEF PanelEvent, TypeOK
  <2>2. panels' \subseteq Nat /\ broken' \subseteq Nat
    BY <1>4 DEF PanelEvent, Leave, TypeOK
  <2>3. UNCHANGED <<life, hostLoop, setup, ready, deferred, asking, stopping,
                    quits, owed, posted, accepted, held, overlap>>
    BY <1>4 DEF PanelEvent
  <2> QED
    BY <2>1, <2>2, <2>3 DEF TypeOK
<1> QED
  BY <1>1, <1>2, <1>3, <1>4

\* Every step keeps the invariant.
LEMMA StepIInv == IInv /\ [Next]_vars => IInv'
<1> SUFFICES ASSUME IInv, [Next]_vars PROVE IInv'
  OBVIOUS
<1>1. CASE UNCHANGED vars
  BY <1>1 DEF vars, IInv, TypeOK, AskingInHost, StoppedIsAccepted, Settled, Over
<1>2. CASE Next
  BY <1>2, StartIInv, LoopIInv, QuitIInv, AnswerIInv, UserIInv DEF Next
<1> QED
  BY <1>1, <1>2

\* The invariant holds in every state of the specification.
LEMMA Invariance == Spec => []IInv
<1> QED
  BY InitIInv, StepIInv, PTL DEF Spec

\* Every variable keeps its type.
THEOREM TypeCorrect == Spec => []TypeOK
<1>1. IInv => TypeOK
  BY DEF IInv
<1> QED
  BY <1>1, Invariance, PTL

\* The host's quit hooks run at most once for a quit that no other overlaps,
\* whether the delegate answered at once or later.
THEOREM QuitHooksRunOnce == Spec => []AnnouncedOnce
<1>1. IInv => AnnouncedOnce
  BY DEF IInv, Settled, AnnouncedOnce
<1> QED
  BY <1>1, Invariance, PTL

\* CefShutdown() comes only after a quit was accepted and announced.
THEOREM ShutdownIsLast == Spec => []ShutdownIsAnnounced
<1>1. IInv => ShutdownIsAnnounced
  BY DEF IInv, StoppedIsAccepted, ShutdownIsAnnounced, Over
<1> QED
  BY <1>1, Invariance, PTL

-----------------------------------------------------------------------------
\* One step keeps DeferredIsOwed, for a delegate that does not answer before
\* it has returned Later.
LEMMA StepOwed ==
    ASSUME ~EarlyReply, TypeOK, DeferredIsOwed, [Next]_vars
    PROVE  DeferredIsOwed'
<1> USE DEF DeferredIsOwed, TypeOK
<1>1. CASE Start \/ OnContextInitialized
  BY <1>1 DEF Start, LoadFails, Initialize, InitializeFails, RunLoop,
              OnContextInitialized, quitVars, panelVars, ghosts
<1>2. CASE ProcessEvent \/ CefLoopQuits \/ CefShutdown
  BY <1>2 DEF ProcessEvent, panelVars, CefLoopQuits, CefShutdown, quitVars, panelVars, ghosts
<1>3. CASE Terminate \/ TerminateCancel \/ TerminateNow
  BY <1>3 DEF Terminate, TerminateCancel, TerminateNow
<1>7. CASE TerminateLater
  BY <1>7 DEF TerminateLater
<1>4. CASE Answer
  BY <1>4 DEF Answer, Reply, ReplyToSuper
<1>5. CASE UserEvent \/ OpenPanel \/ ClosePanel \/ PanelEvent
  BY <1>5 DEF UserEvent, OpenPanel, ClosePanel, PanelEvent, ghosts
<1>6. CASE UNCHANGED vars
  BY <1>6 DEF vars
<1> QED
  BY <1>1, <1>2, <1>3, <1>4, <1>5, <1>6, <1>7 DEF Next, Verdict

\* Nobody waits for an answer that will not come, if the delegate answers
\* only after it has returned Later.
THEOREM DeferralIsAnswerable == ~EarlyReply /\ Spec => []DeferredIsOwed
<1>1. Init => DeferredIsOwed
  BY DEF Init, DeferredIsOwed
<1>2. CASE ~EarlyReply
  <2>1. TypeOK /\ DeferredIsOwed /\ [Next]_vars => DeferredIsOwed'
    BY <1>2, StepOwed
  <2> QED
    BY <1>1, <2>1, TypeCorrect, PTL DEF Spec
<1>3. CASE EarlyReply
  BY <1>3
<1> QED
  BY <1>2, <1>3, EarlyReplyAssumption

-----------------------------------------------------------------------------
\* The initial state is one of the contract.
LEMMA InitRefines == Init => Contract!Init
BY DEF Init, Contract!Init, Phase

\* Every step is a step of the contract or leaves its state alone.
LEMMA StepRefines ==
    ASSUME IInv, [Next]_vars
    PROVE  [Contract!Next]_(Contract!contractVars)
<1> USE DEF IInv, TypeOK, AskingInHost, StoppedIsAccepted, Over, Phase,
            Contract!Next, Contract!contractVars, Contract!Undecided
<1>1. CASE Start \/ OnContextInitialized
  BY <1>1 DEF Start, LoadFails, Initialize, InitializeFails, RunLoop,
              OnContextInitialized, quitVars, panelVars, ghosts
<1>2. CASE ProcessEvent \/ CefLoopQuits
  BY <1>2 DEF ProcessEvent, panelVars, CefLoopQuits, quitVars, panelVars, ghosts
<1>3. CASE CefShutdown
  BY <1>3 DEF CefShutdown, Contract!End, quitVars, panelVars, ghosts
<1>4. CASE Terminate \/ TerminateCancel \/ TerminateLater
  BY <1>4 DEF Terminate, TerminateCancel, TerminateLater, HostRuns, Stay, panelVars,
              Contract!Decline, loopVars
<1>5. CASE TerminateNow
  BY <1>5 DEF TerminateNow, MayDecide, Quit, Contract!Accept, loopVars
<1>6. ASSUME Reply(TRUE) PROVE [Contract!Next]_(Contract!contractVars)
  BY <1>6 DEF Reply, MayReply, HostRuns, Quit, Contract!Accept,
              loopVars
<1>7. ASSUME Reply(FALSE) PROVE [Contract!Next]_(Contract!contractVars)
  BY <1>7 DEF Reply, MayReply, HostRuns, Stay, panelVars, Contract!Decline, loopVars
<1>8. CASE ReplyToSuper
  BY <1>8 DEF ReplyToSuper, MayReply, HostRuns, Stay, panelVars, loopVars
<1>9. CASE UserEvent \/ ClosePanel \/ PanelEvent
  BY <1>9 DEF UserEvent, ClosePanel, PanelEvent, loopVars, ghosts
<1>10. CASE OpenPanel
  BY <1>10 DEF OpenPanel, HostRuns, loopVars, Contract!Hold
<1>11. CASE UNCHANGED vars
  BY <1>11 DEF vars
<1> QED
  BY <1>1, <1>2, <1>3, <1>4, <1>5, <1>6, <1>7, <1>8, <1>9, <1>10, <1>11
     DEF Next, Verdict, Answer

\* The deferred flag and the two loops implement the safety part of AppKit's
\* termination contract, with overlapping quits, modal panels and replies at any
\* time.
THEOREM Refinement == Spec => ImplementsSafely
<1> QED
  BY InitRefines, StepRefines, Invariance, PTL
     DEF Spec, ImplementsSafely, Contract!Safe

=============================================================================
