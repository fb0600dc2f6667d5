---------------------------- MODULE MessagePump -----------------------------
(***************************************************************************)
(* The external message pump of ChromiumApplication.mm (lines 119-225):    *)
(* the host owns [NSApp run], CEF asks for pumps from any thread with      *)
(* OnScheduleMessagePumpWork, and every request hops to the FIFO main      *)
(* dispatch queue, where PumpOnScheduleWork arms a timer or calls          *)
(* CefDoMessageLoopWork().                                                 *)
(*                                                                         *)
(* Time is discrete.  g_pump_timer_generation is a 64-bit counter that is  *)
(* only ever compared with the value a dispatch_after block captured: a    *)
(* block is `live` while the two are equal, and every bump makes all the   *)
(* older blocks stale for ever, so a block carries that bit instead of the *)
(* number.                                                                 *)
(*                                                                         *)
(* CefDoMessageLoopWork() is external.  As the comment at line 133 says it *)
(* may spin the native run loop, which may drain the main queue: a block   *)
(* may run while `stack` is 1, or it may not.                              *)
(***************************************************************************)
EXTENDS Integers, Sequences

CONSTANTS
    Heartbeat,    \* kPumpMaxTimerDelayMs, in ticks
    Placeholder,  \* kPumpTimerPlaceholder
    Delays,       \* the delays CEF asks for
    MaxQueue      \* bound: CEF asks only while the main queue is shorter

ASSUME HeartbeatAssumption == Heartbeat \in Nat \ {0}
ASSUME PlaceholderAssumption == Placeholder \in Nat /\ Placeholder > Heartbeat
ASSUME DelaysAssumption == Delays \subseteq Int
ASSUME MaxQueueAssumption == MaxQueue \in Nat

VARIABLES
    active,        \* g_pump_is_active
    reentrancy,    \* g_pump_reentrancy_detected
    timerPending,  \* g_pump_timer_pending
    armed,         \* dispatch_after blocks the clock still holds
    queue,         \* the main dispatch queue
    stack,         \* CefDoMessageLoopWork() frames on the stack
    work,          \* progress inside CEF that CEF does not ask a pump for
    woken          \* history: CEF has asked for a pump; only properties read it

pumpVars == <<active, reentrancy, timerPending, armed, queue, stack>>
vars == <<active, reentrancy, timerPending, armed, queue, stack, work, woken>>

Schedule(delay) == [op |-> "schedule", delay |-> delay]
Timeout(isLive) == [op |-> "timeout", live |-> isLive]

Requests == {Schedule(d) : d \in Delays \cup {0, Placeholder}}
Timeouts == {Timeout(b) : b \in BOOLEAN}
Timers == [live : BOOLEAN, left : 0..Heartbeat]

TypeOK ==
    /\ active \in BOOLEAN
    /\ reentrancy \in BOOLEAN
    /\ timerPending \in BOOLEAN
    /\ armed \in SUBSET Timers
    /\ queue \in Seq(Requests \cup Timeouts)
    /\ stack \in Nat
    /\ work \in BOOLEAN
    /\ woken \in BOOLEAN

Init ==
    /\ active = FALSE /\ reentrancy = FALSE /\ timerPending = FALSE
    /\ armed = {} /\ queue = <<>> /\ stack = 0
    /\ work = FALSE /\ woken = FALSE

-----------------------------------------------------------------------------
(***************************************************************************)
(* The timer.  SupersedeArmed and SupersedeQueued are the effect of        *)
(* ++g_pump_timer_generation on the blocks captured before it.             *)
(***************************************************************************)
SupersedeArmed(timers) == {[live |-> FALSE, left |-> t.left] : t \in timers}

SupersedeQueued(blocks) ==
    [i \in DOMAIN blocks |->
        IF blocks[i].op = "timeout" THEN Timeout(FALSE) ELSE blocks[i]]

Clamped(delay) == IF delay > Heartbeat THEN Heartbeat ELSE delay

\* Mutant: g_pump_timer_pending is left set.
PumpKillTimerKeepsFlag ==
    /\ timerPending' = timerPending
    /\ armed' = SupersedeArmed(armed)

\* On top of this, the main queue is superseded in the actions below, whose
\* `rest` is the queue without the block that is running.
PumpKillTimer ==
    /\ timerPending' = FALSE
    /\ armed' = SupersedeArmed(armed)

PumpSetTimer(rest, delay) ==
    /\ timerPending' = TRUE
    /\ armed' = SupersedeArmed(armed) \cup {[live |-> TRUE, left |-> delay]}
    /\ queue' = SupersedeQueued(rest)

\* Mutant: no reentrancy guard.
PumpBeginNested(rest) ==
    /\ PumpKillTimer
    /\ queue' = SupersedeQueued(rest)
    /\ reentrancy' = FALSE /\ active' = TRUE
    /\ stack' = stack + 1
    /\ work' = FALSE
    /\ UNCHANGED woken

\* PumpKillTimer; PumpDoWork with no pump on the stack: enter
\* CefDoMessageLoopWork().  What PumpDoWork does after it is PumpFinish.
PumpBegin(rest) ==
    /\ ~active
    /\ PumpKillTimer
    /\ queue' = SupersedeQueued(rest)
    /\ reentrancy' = FALSE
    /\ active' = TRUE
    /\ stack' = stack + 1
    /\ work' = FALSE
    /\ UNCHANGED woken

\* PumpKillTimer; PumpDoWork while a pump is on the stack: PumpPerformWork
\* only notes it and returns false, so the nested PumpDoWork, whose timer was
\* just killed, posts the heartbeat.
PumpDiscard(rest) ==
    /\ active
    /\ PumpKillTimer
    /\ queue' = Append(SupersedeQueued(rest), Schedule(Placeholder))
    /\ reentrancy' = TRUE
    /\ UNCHANGED <<active, stack, work, woken>>

PumpNow(rest) == PumpBegin(rest) \/ PumpDiscard(rest)

-----------------------------------------------------------------------------
(***************************************************************************)
(* The blocks of the main queue.                                           *)
(***************************************************************************)
\* PumpOnScheduleWork: the placeholder does not override a real timer.
KeepTimer ==
    /\ queue # <<>>
    /\ Head(queue) = Schedule(Placeholder)
    /\ timerPending
    /\ queue' = Tail(queue)
    /\ UNCHANGED <<active, reentrancy, timerPending, armed, stack, work, woken>>

\* PumpOnScheduleWork with delay_ms <= 0.
ScheduleNow ==
    /\ queue # <<>>
    /\ Head(queue).op = "schedule" /\ Head(queue).delay <= 0
    /\ PumpNow(Tail(queue))

\* PumpOnScheduleWork with delay_ms > 0.
ScheduleLater ==
    /\ queue # <<>>
    /\ Head(queue).op = "schedule" /\ Head(queue).delay > 0
    /\ ~(Head(queue).delay = Placeholder /\ timerPending)
    /\ PumpSetTimer(Tail(queue), Clamped(Head(queue).delay))
    /\ UNCHANGED <<active, reentrancy, stack, work, woken>>

\* The dispatch_after block: its generation is still the current one.
TimerFires ==
    /\ queue # <<>> /\ Head(queue) = Timeout(TRUE)
    /\ PumpNow(Tail(queue))

\* The dispatch_after block: superseded or killed.
TimerSuperseded ==
    /\ queue # <<>> /\ Head(queue) = Timeout(FALSE)
    /\ queue' = Tail(queue)
    /\ UNCHANGED <<active, reentrancy, timerPending, armed, stack, work, woken>>

RunBlock ==
    KeepTimer \/ ScheduleNow \/ ScheduleLater \/ TimerFires \/ TimerSuperseded

\* Mutant: a discarded pump is only worth a heartbeat.
PumpFinishLate ==
    /\ stack > 0
    /\ stack' = stack - 1
    /\ active' = FALSE
    /\ queue' = IF reentrancy \/ ~timerPending THEN Append(queue, Schedule(Placeholder))
                ELSE queue
    /\ UNCHANGED <<reentrancy, timerPending, armed, work, woken>>

\* Mutant: the heartbeat is not posted when no timer is pending.
PumpFinishSilent ==
    /\ stack > 0
    /\ stack' = stack - 1
    /\ active' = FALSE
    /\ queue' = IF reentrancy THEN Append(queue, Schedule(0)) ELSE queue
    /\ UNCHANGED <<reentrancy, timerPending, armed, work, woken>>

\* CefDoMessageLoopWork() returns: the rest of PumpPerformWork and PumpDoWork.
PumpFinish ==
    /\ stack > 0
    /\ stack' = stack - 1
    /\ active' = FALSE
    /\ queue' = IF reentrancy THEN Append(queue, Schedule(0))
                ELSE IF ~timerPending THEN Append(queue, Schedule(Placeholder))
                ELSE queue
    /\ UNCHANGED <<reentrancy, timerPending, armed, work, woken>>

-----------------------------------------------------------------------------
(***************************************************************************)
(* CEF and the clock.                                                      *)
(***************************************************************************)
\* OnScheduleMessagePumpWork on any thread, also from inside a pump.
OnScheduleMessagePumpWork(delay) ==
    /\ Len(queue) < MaxQueue
    /\ queue' = Append(queue, Schedule(delay))
    /\ woken' = TRUE
    /\ UNCHANGED <<active, reentrancy, timerPending, armed, stack, work>>

\* "CEF does NOT re-request a pump for every unit of in-flight async progress."
CefProgress ==
    /\ ~work
    /\ work' = TRUE
    /\ UNCHANGED <<active, reentrancy, timerPending, armed, queue, stack, woken>>

\* libdispatch hands an expired dispatch_after block to the main queue.
TimerExpires ==
    \E t \in armed :
        /\ t.left = 0
        /\ armed' = armed \ {t}
        /\ queue' = Append(queue, Timeout(t.live))
        /\ UNCHANGED <<active, reentrancy, timerPending, stack, work, woken>>

\* Time passes.  A block of the idle main thread takes no time, a pump may.
Tick ==
    /\ active \/ queue = <<>>
    /\ \A t \in armed : t.left > 0
    /\ armed' = {[live |-> t.live, left |-> t.left - 1] : t \in armed}
    /\ UNCHANGED <<active, reentrancy, timerPending, queue, stack, work, woken>>

Next ==
    \/ RunBlock
    \/ PumpFinish
    \/ \E d \in Delays : OnScheduleMessagePumpWork(d)
    \/ CefProgress
    \/ TimerExpires
    \/ Tick

\* The main thread runs its queue whenever no pump blocks it, a pump returns,
\* libdispatch delivers expired timers, and time goes on.
Fairness ==
    /\ WF_vars(~active /\ RunBlock)
    /\ WF_vars(PumpFinish)
    /\ WF_vars(TimerExpires)
    /\ SF_vars(Tick)

Spec == Init /\ [][Next]_vars /\ Fairness

-----------------------------------------------------------------------------
(***************************************************************************)
(* Properties.                                                             *)
(***************************************************************************)
LiveArmed == {t \in armed : t.live}

Holds(blocks, block) == \E i \in DOMAIN blocks : blocks[i] = block
HoldsSchedule(blocks) == \E i \in DOMAIN blocks : blocks[i].op = "schedule"

\* What will bring CefDoMessageLoopWork() back: it is running, a request is on
\* the main queue, or the timer of the current generation is on its way.
WakeUp ==
    \/ active
    \/ HoldsSchedule(queue)
    \/ LiveArmed # {}
    \/ Holds(queue, Timeout(TRUE))

\* CefDoMessageLoopWork() is never nested, and g_pump_is_active says exactly
\* whether it is on the stack (PumpPerformWork's guard).
NoNestedPump == stack = IF active THEN 1 ELSE 0

\* g_pump_timer_pending, which KeepTimer and PumpFinish trust, is set exactly
\* while a block of the current generation is still to come: a flag left set
\* after its block was superseded would swallow the heartbeat for ever.
PendingIsReal == timerPending <=> (LiveArmed # {} \/ Holds(queue, Timeout(TRUE)))

\* A nested pump that was discarded is owed to CEF at once: after the outer
\* pump, and until the next one begins, an immediate request is on the queue.
DiscardedIsReposted ==
    reentrancy /\ ~active => Holds(queue, Schedule(0))

\* From CEF's first request on, whenever the main thread has gone idle the
\* clock holds a block of the current generation that is due within one
\* heartbeat: no order of pumps, discarded pumps, kept placeholders and killed
\* timers ends without one (PumpDoWork: "Keep the heartbeat alive so in-flight
\* async work keeps progressing"; "never wait longer than the heartbeat").
IdleWaitIsBounded ==
    woken /\ ~active /\ queue = <<>> =>
        \E t \in armed : t.live /\ t.left <= Heartbeat

\* Once CEF asked for a first pump the heartbeat never goes silent: "Without
\* the heartbeat CEF ... went idle, and a browser created later never even
\* started its navigation".
HeartbeatNeverStops == [][WakeUp => WakeUp']_vars

\* The pump implements its contract.
Contract == INSTANCE PumpContract WITH scheduled <- WakeUp
Implements == Contract!Spec

\* Progress that CEF asks no pump for is delivered, provided the pump has been
\* woken once and CEF stops re-requesting delayed pumps: every delayed request
\* replaces the armed timer (PumpOnScheduleWork kills it first), so a stream of
\* them, each sooner than its predecessor is due, puts the next pump off for as
\* long as it lasts.
DelayedRequest == \E d \in Delays : d > 0 /\ OnScheduleMessagePumpWork(d)
ProgressIsPumped ==
    <>[][~DelayedRequest]_vars => ((work /\ WakeUp) ~> ~work)

=============================================================================
