------------------------- MODULE MessagePumpProofs --------------------------
(***************************************************************************)
(* Proofs about the external message pump, for every heartbeat, every set  *)
(* of delays CEF may ask for and every length of the main queue.           *)
(***************************************************************************)
EXTENDS MessagePump, SequenceTheorems, TLAPS

Blocks == Requests \cup Timeouts

\* The inductive invariant.  PendingIsReal is what makes the heartbeat hold:
\* KeepTimer drops a request, and PumpFinish posts none, only because the
\* flag they read stands for a block that is really still to come.
IInv == TypeOK /\ NoNestedPump /\ PendingIsReal /\ DiscardedIsReposted

USE HeartbeatAssumption, PlaceholderAssumption, DelaysAssumption

-----------------------------------------------------------------------------
(***************************************************************************)
(* The main queue.                                                         *)
(***************************************************************************)
\* What Append does to the blocks a queue holds.
LEMMA AppendHolds ==
    ASSUME NEW q \in Seq(Blocks), NEW b \in Blocks
    PROVE  /\ Append(q, b) \in Seq(Blocks)
           /\ \A c : Holds(Append(q, b), c) <=> Holds(q, c) \/ c = b
           /\ HoldsSchedule(Append(q, b)) <=> HoldsSchedule(q) \/ b.op = "schedule"
<1> DEFINE r == Append(q, b)
<1>1. Len(q) \in Nat /\ DOMAIN q = 1..Len(q)
  OBVIOUS
<1>2. /\ r \in Seq(Blocks)
      /\ DOMAIN r = 1..(Len(q) + 1)
      /\ r[Len(q) + 1] = b
      /\ \A i \in 1..Len(q) : r[i] = q[i]
  OBVIOUS
<1>3. \A i \in DOMAIN r : i = Len(q) + 1 \/ i \in DOMAIN q
  BY <1>1, <1>2
<1>4. DOMAIN q \subseteq DOMAIN r /\ Len(q) + 1 \in DOMAIN r
  BY <1>1, <1>2
<1> HIDE DEF r
<1>5. \A c : Holds(r, c) <=> Holds(q, c) \/ c = b
  BY <1>1, <1>2, <1>3, <1>4 DEF Holds
<1>6. HoldsSchedule(r) <=> HoldsSchedule(q) \/ b.op = "schedule"
  BY <1>1, <1>2, <1>3, <1>4 DEF HoldsSchedule
<1> QED BY <1>2, <1>5, <1>6 DEF r

\* A queue holds its head and what its tail holds, and nothing else.
LEMMA TailHolds ==
    ASSUME NEW q \in Seq(Blocks), q # <<>>
    PROVE  /\ Head(q) \in Blocks
           /\ Tail(q) \in Seq(Blocks)
           /\ \A c : Holds(q, c) <=> Head(q) = c \/ Holds(Tail(q), c)
           /\ HoldsSchedule(q) <=> Head(q).op = "schedule" \/ HoldsSchedule(Tail(q))
<1>1. Len(q) \in Nat \ {0} /\ DOMAIN q = 1..Len(q)
  OBVIOUS
<1>2. Head(q) = q[1] /\ Head(q) \in Blocks
  BY <1>1
<1>3. /\ Tail(q) \in Seq(Blocks)
      /\ DOMAIN Tail(q) = 1..(Len(q) - 1)
      /\ \A i \in DOMAIN Tail(q) : Tail(q)[i] = q[i + 1]
  BY <1>1
<1>4. \A i \in DOMAIN q :
        i = 1 \/ (i - 1 \in DOMAIN Tail(q) /\ q[i] = Tail(q)[i - 1])
  BY <1>1, <1>3
<1>5. \A i \in DOMAIN Tail(q) : i + 1 \in DOMAIN q
  BY <1>1, <1>3
<1> DEFINE h == Head(q)
           t == Tail(q)
<1>6. /\ 1 \in DOMAIN q /\ h = q[1]
      /\ \A i \in DOMAIN q : i = 1 \/ (\E j \in DOMAIN t : q[i] = t[j])
      /\ \A j \in DOMAIN t : \E i \in DOMAIN q : q[i] = t[j]
  BY <1>1, <1>2, <1>3, <1>4, <1>5
<1>7. h \in Blocks /\ t \in Seq(Blocks)
  BY <1>2, <1>3
<1> HIDE DEF h, t
<1>8. \A c : Holds(q, c) <=> h = c \/ Holds(t, c)
  BY <1>6, SMTT(30) DEF Holds
<1>9. HoldsSchedule(q) <=> h.op = "schedule" \/ HoldsSchedule(t)
  BY <1>6, Zenon DEF HoldsSchedule
<1> QED BY <1>7, <1>8, <1>9 DEF h, t

\* Bumping the generation leaves no live block on the queue and every request
\* where it was.
LEMMA SupersedeHolds ==
    ASSUME NEW q \in Seq(Blocks)
    PROVE  /\ SupersedeQueued(q) \in Seq(Blocks)
           /\ ~Holds(SupersedeQueued(q), Timeout(TRUE))
           /\ \A d : Holds(SupersedeQueued(q), Schedule(d)) <=> Holds(q, Schedule(d))
           /\ HoldsSchedule(SupersedeQueued(q)) <=> HoldsSchedule(q)
<1> DEFINE r == SupersedeQueued(q)
<1>1. DOMAIN q = 1..Len(q) /\ Len(q) \in Nat
  OBVIOUS
<1>2. /\ DOMAIN r = 1..Len(q)
      /\ \A i \in 1..Len(q) :
            r[i] = IF q[i].op = "timeout" THEN Timeout(FALSE) ELSE q[i]
  BY <1>1 DEF SupersedeQueued
<1>3. \A i \in 1..Len(q) : q[i] \in Blocks
  BY <1>1
<1>4. \A b \in Blocks : IF b.op = "timeout" THEN b \in Timeouts ELSE b \in Requests
  BY DEF Blocks, Requests, Timeouts, Schedule, Timeout
<1>5. \A i \in 1..Len(q) : r[i] \in Blocks /\ r[i] # Timeout(TRUE)
  <2> TAKE i \in 1..Len(q)
  <2>1. CASE q[i].op = "timeout"
    <3>1. r[i] = Timeout(FALSE) /\ Timeout(FALSE) \in Blocks
      BY <2>1, <1>2 DEF Blocks, Timeouts
    <3>2. Timeout(FALSE).live # Timeout(TRUE).live
      BY DEF Timeout
    <3> QED BY <3>1, <3>2, Zenon
  <2>2. CASE q[i].op # "timeout"
    <3>1. r[i] = q[i] /\ r[i].op # "timeout"
      BY <2>2, <1>2
    <3>2. Timeout(TRUE).op = "timeout"
      BY DEF Timeout
    <3>3. r[i] # Timeout(TRUE)
      BY <3>1, <3>2, Zenon
    <3> QED BY <3>1, <3>3, <1>3
  <2> QED BY <2>1, <2>2
<1>6. r \in Seq(Blocks)
  <2>1. r \in [1..Len(q) -> Blocks]
    BY <1>1, <1>2, <1>5 DEF SupersedeQueued
  <2> QED BY <2>1, <1>1, SeqDef
<1>7. \A i \in 1..Len(q) : \A d : r[i] = Schedule(d) <=> q[i] = Schedule(d)
  BY <1>2 DEF Schedule, Timeout
<1>8. \A i \in 1..Len(q) : r[i].op = "schedule" <=> q[i].op = "schedule"
  BY <1>2 DEF Timeout
<1>9. ~Holds(r, Timeout(TRUE))
  BY <1>2, <1>5 DEF Holds
<1>10. \A d : Holds(r, Schedule(d)) <=> Holds(q, Schedule(d))
  BY <1>1, <1>2, <1>7 DEF Holds
<1>11. HoldsSchedule(r) <=> HoldsSchedule(q)
  BY <1>1, <1>2, <1>8 DEF HoldsSchedule
<1> QED BY <1>6, <1>9, <1>10, <1>11

-----------------------------------------------------------------------------
(***************************************************************************)
(* Type correctness.                                                       *)
(***************************************************************************)
\* The blocks the code posts are blocks of the queue.
LEMMA BlockTypes ==
    /\ \A d \in Delays \cup {0, Placeholder} : Schedule(d) \in Blocks
    /\ \A b \in BOOLEAN : Timeout(b) \in Blocks
    /\ \A d : Schedule(d).op = "schedule" /\ Schedule(d).delay = d
    /\ \A b : Timeout(b).op = "timeout" /\ Timeout(b).live = b
    /\ \A c \in Blocks : c.op = "schedule" =>
            c.delay \in Delays \cup {0, Placeholder} /\ c = Schedule(c.delay)
    /\ \A d, b : Schedule(d) # Timeout(b)
<1>1. \A d : Schedule(d).op = "schedule" /\ Schedule(d).delay = d
  BY DEF Schedule
<1>2. \A b : Timeout(b).op = "timeout" /\ Timeout(b).live = b
  BY DEF Timeout
<1>3. \A d, b : Schedule(d) # Timeout(b)
  <2> TAKE d, b
  <2> QED BY <1>1, <1>2, "schedule" # "timeout", Zenon
<1>4. \A d \in Delays \cup {0, Placeholder} : Schedule(d) \in Blocks
  BY DEF Blocks, Requests
<1>5. \A b \in BOOLEAN : Timeout(b) \in Blocks
  BY DEF Blocks, Timeouts
<1>6. ASSUME NEW c \in Blocks, c.op = "schedule"
      PROVE  c.delay \in Delays \cup {0, Placeholder} /\ c = Schedule(c.delay)
  <2>1. c \in Requests
    BY <1>6, <1>2, "schedule" # "timeout" DEF Blocks, Timeouts
  <2> PICK d \in Delays \cup {0, Placeholder} : c = Schedule(d)
    BY <2>1 DEF Requests
  <2> QED BY <1>1
<1> QED BY <1>1, <1>2, <1>3, <1>4, <1>5, <1>6

\* Superseding keeps the timers' type and leaves none of them live.
LEMMA SupersedeTimers ==
    ASSUME armed \in SUBSET Timers
    PROVE  /\ SupersedeArmed(armed) \in SUBSET Timers
           /\ \A t \in SupersedeArmed(armed) : ~t.live
<1>1. \A t \in Timers : t.left \in 0..Heartbeat
  BY DEF Timers
<1>2. \A t \in Timers : [live |-> FALSE, left |-> t.left] \in Timers
  BY <1>1 DEF Timers
<1>3. \A t \in SupersedeArmed(armed) : t \in Timers
  BY <1>2 DEF SupersedeArmed
<1>4. \A t \in SupersedeArmed(armed) : t.live = FALSE
  BY DEF SupersedeArmed
<1> QED BY <1>3, <1>4

\* Type correctness is preserved by every step.
LEMMA TypeStep == TypeOK /\ [Next]_vars => TypeOK'
<1> SUFFICES ASSUME TypeOK, [Next]_vars PROVE TypeOK'
  OBVIOUS
<1> USE DEF TypeOK
<1>0. queue \in Seq(Blocks) /\ (queue' \in Seq(Blocks) => queue' \in Seq(Requests \cup Timeouts))
  BY DEF Blocks
<1>1. ASSUME queue # <<>>
      PROVE  /\ Tail(queue) \in Seq(Blocks)
             /\ Head(queue) \in Blocks
             /\ SupersedeQueued(Tail(queue)) \in Seq(Blocks)
  BY <1>0, <1>1, TailHolds, SupersedeHolds
<1>2. ASSUME queue # <<>>, PumpNow(Tail(queue))
      PROVE  TypeOK'
  <2>1. CASE PumpBegin(Tail(queue))
    <3>1. stack' \in Nat
      BY <2>1 DEF PumpBegin
    <3>2. armed' \in SUBSET Timers /\ queue' \in Seq(Blocks)
      BY <2>1, <1>1, <1>2, SupersedeTimers DEF PumpBegin, PumpKillTimer
    <3> QED BY <2>1, <3>1, <3>2, <1>0 DEF PumpBegin, PumpKillTimer
  <2>2. CASE PumpDiscard(Tail(queue))
    <3>1. queue' \in Seq(Blocks)
      BY <2>2, <1>1, <1>2, AppendHolds, BlockTypes DEF PumpDiscard
    <3> QED BY <2>2, <3>1, <1>0, SupersedeTimers DEF PumpDiscard, PumpKillTimer
  <2> QED BY <1>2, <2>1, <2>2 DEF PumpNow
<1>3. CASE KeepTimer
  BY <1>3, <1>0, <1>1 DEF KeepTimer
<1>4. CASE ScheduleNow
  BY <1>4, <1>2 DEF ScheduleNow
<1>5. CASE ScheduleLater
  <2> DEFINE delay == Head(queue).delay
             timer == [live |-> TRUE, left |-> Clamped(delay)]
  <2>1. delay \in Delays \cup {0, Placeholder} /\ delay > 0
    BY <1>5, <1>1, BlockTypes DEF ScheduleLater
  <2>2. \A d \in Delays \cup {0, Placeholder} : d > 0 => Clamped(d) \in 0..Heartbeat
    BY DEF Clamped
  <2>3. timer \in Timers
    BY <2>1, <2>2, Zenon DEF Timers
  <2>4. armed' = SupersedeArmed(armed) \cup {timer}
    BY <1>5 DEF ScheduleLater, PumpSetTimer
  <2>5. armed' \in SUBSET Timers
    BY <2>3, <2>4, SupersedeTimers
  <2> QED BY <1>5, <2>5, <1>0, <1>1 DEF ScheduleLater, PumpSetTimer
<1>6. CASE TimerFires
  BY <1>6, <1>2 DEF TimerFires
<1>7. CASE TimerSuperseded
  BY <1>7, <1>0, <1>1 DEF TimerSuperseded
<1>8. CASE PumpFinish
  <2>1. queue' \in Seq(Blocks)
    BY <1>8, <1>0, AppendHolds, BlockTypes DEF PumpFinish
  <2>2. stack' \in Nat
    BY <1>8 DEF PumpFinish
  <2> QED BY <1>8, <2>1, <2>2, <1>0 DEF PumpFinish
<1>9. ASSUME NEW d \in Delays, OnScheduleMessagePumpWork(d)
      PROVE  TypeOK'
  <2>1. queue' \in Seq(Blocks)
    BY <1>9, <1>0, AppendHolds, BlockTypes DEF OnScheduleMessagePumpWork
  <2> QED BY <1>9, <2>1, <1>0 DEF OnScheduleMessagePumpWork
<1>10. CASE CefProgress
  BY <1>10 DEF CefProgress
<1>11. CASE TimerExpires
  <2> PICK t \in armed : /\ armed' = armed \ {t}
                         /\ queue' = Append(queue, Timeout(t.live))
                         /\ UNCHANGED <<active, reentrancy, timerPending, stack, work, woken>>
    BY <1>11 DEF TimerExpires
  <2>1. t.live \in BOOLEAN
    BY DEF Timers
  <2>2. queue' \in Seq(Blocks)
    BY <2>1, <1>0, AppendHolds, BlockTypes
  <2> QED BY <2>2, <1>0
<1>12. CASE Tick
  <2>1. \A t \in armed : [live |-> t.live, left |-> t.left - 1] \in Timers
    BY <1>12 DEF Tick, Timers
  <2> QED BY <1>12, <2>1 DEF Tick
<1>13. CASE UNCHANGED vars
  BY <1>13 DEF vars
<1> QED
  BY <1>3, <1>4, <1>5, <1>6, <1>7, <1>8, <1>9, <1>10, <1>11, <1>12, <1>13
  DEF Next, RunBlock

\* The initial state is well typed.
LEMMA TypeInit == Init => TypeOK
<1> SUFFICES ASSUME Init PROVE TypeOK
  OBVIOUS
<1>1. queue \in Seq(Requests \cup Timeouts)
  <2>1. <<>> \in Seq(Blocks)
    OBVIOUS
  <2> QED BY <2>1 DEF Init, Blocks
<1> QED BY <1>1 DEF Init, TypeOK

\* Every reachable state of the pump is well typed: in particular no timer is
\* ever armed for longer than the heartbeat.
THEOREM TypeCorrect == Spec => []TypeOK
BY TypeInit, TypeStep, PTL DEF Spec

-----------------------------------------------------------------------------
(***************************************************************************)
(* The inductive invariant.                                                *)
(***************************************************************************)
\* What a pump, started or discarded, does to the parts of the invariant.
LEMMA PumpNowStep ==
    ASSUME TypeOK, NoNestedPump, queue # <<>>, PumpNow(Tail(queue))
    PROVE  NoNestedPump' /\ PendingIsReal' /\ DiscardedIsReposted'
<1>1. Tail(queue) \in Seq(Blocks)
  BY TailHolds DEF TypeOK, Blocks
<1>2. ~timerPending' /\ LiveArmed' = {}
  <2>1. armed' = SupersedeArmed(armed) /\ timerPending' = FALSE
    BY DEF PumpNow, PumpBegin, PumpDiscard, PumpKillTimer
  <2>2. \A t \in armed' : ~t.live
    BY <2>1, SupersedeTimers DEF TypeOK
  <2> QED BY <2>1, <2>2 DEF LiveArmed
<1> DEFINE q == SupersedeQueued(Tail(queue))
<1>3. q \in Seq(Blocks) /\ ~Holds(q, Timeout(TRUE))
  BY <1>1, SupersedeHolds
<1>4. Schedule(Placeholder) \in Blocks /\ Schedule(Placeholder) # Timeout(TRUE)
  BY BlockTypes
<1> HIDE DEF q
<1>5. CASE PumpBegin(Tail(queue))
  <2>1. queue' = q /\ active' = TRUE /\ ~active /\ stack' = stack + 1
    BY <1>5 DEF PumpBegin, q
  <2>2. PendingIsReal'
    BY <2>1, <1>2, <1>3 DEF PendingIsReal
  <2> QED BY <2>1, <2>2 DEF NoNestedPump, DiscardedIsReposted
<1>6. CASE PumpDiscard(Tail(queue))
  <2>1. queue' = Append(q, Schedule(Placeholder)) /\ active /\ UNCHANGED <<active, stack>>
    BY <1>6 DEF PumpDiscard, q
  <2>2. ~Holds(queue', Timeout(TRUE))
    BY <2>1, <1>3, <1>4, AppendHolds
  <2>3. PendingIsReal'
    BY <2>2, <1>2 DEF PendingIsReal
  <2> QED BY <2>1, <2>3 DEF NoNestedPump, DiscardedIsReposted
<1> QED BY <1>5, <1>6 DEF PumpNow

\* The invariant is preserved by every step.
LEMMA InvStep == IInv /\ [Next]_vars => IInv'
<1> SUFFICES ASSUME IInv, [Next]_vars PROVE IInv'
  OBVIOUS
<1> USE DEF IInv
<1>0. TypeOK'
  BY TypeStep
<1>1. queue \in Seq(Blocks)
  BY DEF TypeOK, Blocks
<1>2. /\ \A b : Schedule(0) # Timeout(b) /\ Schedule(Placeholder) # Timeout(b)
      /\ Schedule(0) # Schedule(Placeholder)
      /\ Timeout(FALSE) # Timeout(TRUE)
      /\ Schedule(0) \in Blocks /\ Schedule(Placeholder) \in Blocks
      /\ Placeholder # 0 /\ \A b \in BOOLEAN : Timeout(b) \in Blocks
  <2>1. Placeholder # 0
    OBVIOUS
  <2>2. Schedule(0).delay # Schedule(Placeholder).delay
    BY <2>1, BlockTypes
  <2>3. Timeout(FALSE).live # Timeout(TRUE).live
    BY BlockTypes, ZenonT(60)
  <2>4. Schedule(0) # Schedule(Placeholder) /\ Timeout(FALSE) # Timeout(TRUE)
    BY <2>2, <2>3, Zenon
  <2>5. \A b : Schedule(0) # Timeout(b) /\ Schedule(Placeholder) # Timeout(b)
    BY BlockTypes
  <2>6. /\ Schedule(0) \in Blocks /\ Schedule(Placeholder) \in Blocks
        /\ \A b \in BOOLEAN : Timeout(b) \in Blocks
    BY BlockTypes
  <2> QED BY <2>1, <2>4, <2>5, <2>6
<1>3. ASSUME queue # <<>>
      PROVE  /\ Tail(queue) \in Seq(Blocks)
             /\ \A c : Holds(queue, c) <=> Head(queue) = c \/ Holds(Tail(queue), c)
  BY <1>1, <1>3, TailHolds
<1>4. CASE KeepTimer
  <2>1. /\ Holds(queue', Timeout(TRUE)) <=> Holds(queue, Timeout(TRUE))
        /\ Holds(queue', Schedule(0)) <=> Holds(queue, Schedule(0))
    BY <1>4, <1>2, <1>3, Zenon DEF KeepTimer
  <2>2. UNCHANGED <<active, reentrancy, timerPending, armed, stack>>
    BY <1>4 DEF KeepTimer
  <2> QED BY <2>1, <2>2, <1>0
      DEF NoNestedPump, PendingIsReal, DiscardedIsReposted, LiveArmed
<1>5. CASE ScheduleNow
  BY <1>5, <1>0, PumpNowStep DEF ScheduleNow
<1>6. CASE ScheduleLater
  <2> DEFINE timer == [live |-> TRUE, left |-> Clamped(Head(queue).delay)]
             q == SupersedeQueued(Tail(queue))
  <2>1. /\ armed' = SupersedeArmed(armed) \cup {timer}
        /\ timerPending' = TRUE /\ queue' = q
        /\ UNCHANGED <<active, reentrancy, stack>>
    BY <1>6 DEF ScheduleLater, PumpSetTimer
  <2>2. timer.live
    OBVIOUS
  <2>3. PendingIsReal'
    BY <2>1, <2>2 DEF PendingIsReal, LiveArmed
  <2>4. Head(queue) # Schedule(0) /\ queue # <<>>
    BY <1>6, BlockTypes DEF ScheduleLater
  <2>5. Holds(queue, Schedule(0)) => Holds(Tail(queue), Schedule(0))
    BY <2>4, <1>3
  <2>6. Holds(queue, Schedule(0)) => Holds(q, Schedule(0))
    BY <2>4, <2>5, <1>3, SupersedeHolds
  <2>7. DiscardedIsReposted'
    BY <2>1, <2>6 DEF DiscardedIsReposted
  <2> QED BY <2>1, <2>3, <2>7, <1>0 DEF NoNestedPump
<1>7. CASE TimerFires
  BY <1>7, <1>0, PumpNowStep DEF TimerFires
<1>8. CASE TimerSuperseded
  <2>1. /\ Holds(queue', Timeout(TRUE)) <=> Holds(queue, Timeout(TRUE))
        /\ Holds(queue', Schedule(0)) <=> Holds(queue, Schedule(0))
    BY <1>8, <1>2, <1>3, Zenon DEF TimerSuperseded
  <2>2. UNCHANGED <<active, reentrancy, timerPending, armed, stack>>
    BY <1>8 DEF TimerSuperseded
  <2> QED BY <2>1, <2>2, <1>0
      DEF NoNestedPump, PendingIsReal, DiscardedIsReposted, LiveArmed
<1>9. CASE PumpFinish
  <2>1. /\ active /\ stack = 1 /\ stack' = 0 /\ active' = FALSE
        /\ UNCHANGED <<reentrancy, timerPending, armed>>
    BY <1>9 DEF PumpFinish, NoNestedPump
  <2>2. Holds(queue', Timeout(TRUE)) <=> Holds(queue, Timeout(TRUE))
    BY <1>9, <1>1, <1>2, AppendHolds DEF PumpFinish
  <2>3. reentrancy => Holds(queue', Schedule(0))
    BY <1>9, <1>1, <1>2, AppendHolds DEF PumpFinish
  <2> QED BY <2>1, <2>2, <2>3, <1>0
      DEF NoNestedPump, PendingIsReal, DiscardedIsReposted, LiveArmed
<1>10. ASSUME NEW d \in Delays, OnScheduleMessagePumpWork(d)
       PROVE  IInv'
  <2>1. Schedule(d) \in Blocks /\ Schedule(d) # Timeout(TRUE)
    BY BlockTypes
  <2>2. queue' = Append(queue, Schedule(d))
    BY <1>10 DEF OnScheduleMessagePumpWork
  <2>3. /\ Holds(queue', Timeout(TRUE)) <=> Holds(queue, Timeout(TRUE))
        /\ Holds(queue, Schedule(0)) => Holds(queue', Schedule(0))
    BY <2>1, <2>2, <1>1, AppendHolds
  <2>4. UNCHANGED <<active, reentrancy, timerPending, armed, stack>>
    BY <1>10 DEF OnScheduleMessagePumpWork
  <2> QED BY <2>3, <2>4, <1>0
      DEF NoNestedPump, PendingIsReal, DiscardedIsReposted, LiveArmed
<1>11. CASE CefProgress
  BY <1>11, <1>0
  DEF CefProgress, NoNestedPump, PendingIsReal, DiscardedIsReposted, LiveArmed
<1>12. CASE TimerExpires
  <2> PICK t \in armed : /\ armed' = armed \ {t}
                         /\ queue' = Append(queue, Timeout(t.live))
                         /\ UNCHANGED <<active, reentrancy, timerPending, stack, work, woken>>
    BY <1>12 DEF TimerExpires
  <2>1. t.live \in BOOLEAN
    BY DEF TypeOK, Timers
  <2>2. Timeout(t.live) \in Blocks /\ (Timeout(t.live) = Timeout(TRUE) <=> t.live)
    BY <2>1, <1>2, Zenon
  <2>3. /\ Holds(queue', Timeout(TRUE)) <=> Holds(queue, Timeout(TRUE)) \/ t.live
        /\ Holds(queue, Schedule(0)) => Holds(queue', Schedule(0))
    BY <2>2, <1>1, AppendHolds
  <2>4. LiveArmed' = LiveArmed \ {t} /\ (t.live <=> t \in LiveArmed)
    BY DEF LiveArmed
  <2>5. PendingIsReal'
    BY <2>3, <2>4 DEF PendingIsReal
  <2> QED BY <2>3, <2>5, <1>0 DEF NoNestedPump, DiscardedIsReposted
<1>13. CASE Tick
  <2>1. UNCHANGED <<active, reentrancy, timerPending, queue, stack>>
    BY <1>13 DEF Tick
  <2>2. armed' = {[live |-> t.live, left |-> t.left - 1] : t \in armed}
    BY <1>13 DEF Tick
  <2> DEFINE older(t) == [live |-> t.live, left |-> t.left - 1]
  <2>3. LiveArmed' # {} <=> LiveArmed # {}
    <3>1. ASSUME NEW t \in LiveArmed PROVE LiveArmed' # {}
      <4>1. older(t) \in armed' /\ older(t).live
        BY <2>2, <3>1 DEF LiveArmed
      <4> QED BY <4>1 DEF LiveArmed
    <3>2. ASSUME NEW u \in LiveArmed' PROVE LiveArmed # {}
      <4> PICK t \in armed : u = older(t)
        BY <2>2 DEF LiveArmed
      <4>1. t.live
        BY DEF LiveArmed
      <4> QED BY <4>1 DEF LiveArmed
    <3> QED BY <3>1, <3>2
  <2> QED BY <2>1, <2>3, <1>0 DEF NoNestedPump, PendingIsReal, DiscardedIsReposted
<1>14. CASE UNCHANGED vars
  BY <1>14, <1>0
  DEF vars, NoNestedPump, PendingIsReal, DiscardedIsReposted, LiveArmed
<1> QED
  BY <1>4, <1>5, <1>6, <1>7, <1>8, <1>9, <1>10, <1>11, <1>12, <1>13, <1>14
  DEF Next, RunBlock

\* The inductive invariant holds in every reachable state.
THEOREM Invariant == Spec => []IInv
<1>1. Init => IInv
  <2> SUFFICES ASSUME Init PROVE NoNestedPump /\ PendingIsReal /\ DiscardedIsReposted
    BY TypeInit DEF IInv
  <2> QED BY DEF Init, NoNestedPump, PendingIsReal, DiscardedIsReposted, LiveArmed, Holds
<1> QED BY <1>1, InvStep, PTL DEF Spec

\* CefDoMessageLoopWork() is never nested.
THEOREM NeverNested == Spec => []NoNestedPump
<1>1. IInv => NoNestedPump
  BY DEF IInv
<1> QED BY <1>1, Invariant, PTL

\* g_pump_timer_pending is set exactly while a live timer block is to come.
THEOREM PendingReal == Spec => []PendingIsReal
<1>1. IInv => PendingIsReal
  BY DEF IInv
<1> QED BY <1>1, Invariant, PTL

\* A discarded nested pump is on the queue again when the outer pump is over.
THEOREM Reposted == Spec => []DiscardedIsReposted
<1>1. IInv => DiscardedIsReposted
  BY DEF IInv
<1> QED BY <1>1, Invariant, PTL

-----------------------------------------------------------------------------
(***************************************************************************)
(* The heartbeat and the contract.                                         *)
(***************************************************************************)
\* With the invariant, the flag says whether a timer will wake the pump.
LEMMA WakeUpIs ==
    ASSUME PendingIsReal
    PROVE  WakeUp <=> active \/ HoldsSchedule(queue) \/ timerPending
BY DEF PendingIsReal, WakeUp

\* No step takes the last wake-up away.
LEMMA WakeUpStep ==
    ASSUME IInv, IInv', [Next]_vars, WakeUp
    PROVE  WakeUp'
<1>1. active \/ HoldsSchedule(queue) \/ timerPending
  BY WakeUpIs DEF IInv
<1> SUFFICES active' \/ HoldsSchedule(queue') \/ timerPending'
  BY DEF IInv, PendingIsReal, WakeUp
<1>2. queue \in Seq(Blocks)
  BY DEF IInv, TypeOK, Blocks
<1>3. ASSUME PumpNow(Tail(queue)) PROVE active'
  BY <1>3 DEF PumpNow, PumpBegin, PumpDiscard
<1>4. CASE KeepTimer
  BY <1>4 DEF KeepTimer
<1>5. CASE ScheduleNow
  BY <1>5, <1>3 DEF ScheduleNow
<1>6. CASE ScheduleLater
  BY <1>6 DEF ScheduleLater, PumpSetTimer
<1>7. CASE TimerFires
  BY <1>7, <1>3 DEF TimerFires
<1>8. CASE TimerSuperseded
  <2>1. Head(queue).op # "schedule" /\ queue # <<>>
    BY <1>8, BlockTypes, "schedule" # "timeout" DEF TimerSuperseded
  <2>2. HoldsSchedule(queue) <=> HoldsSchedule(Tail(queue))
    BY <2>1, <1>2, TailHolds
  <2> QED BY <1>1, <1>8, <2>2 DEF TimerSuperseded
<1>9. CASE PumpFinish
  <2>1. /\ Schedule(0) \in Blocks /\ Schedule(0).op = "schedule"
        /\ Schedule(Placeholder) \in Blocks /\ Schedule(Placeholder).op = "schedule"
    BY BlockTypes
  <2>2. ASSUME ~timerPending PROVE HoldsSchedule(queue')
    BY <1>2, <1>9, <2>1, <2>2, AppendHolds DEF PumpFinish
  <2> QED BY <1>9, <2>2 DEF PumpFinish
<1>10. ASSUME NEW d \in Delays, OnScheduleMessagePumpWork(d)
       PROVE  HoldsSchedule(queue')
  BY <1>2, <1>10, BlockTypes, AppendHolds DEF OnScheduleMessagePumpWork
<1>11. CASE CefProgress
  BY <1>1, <1>11 DEF CefProgress
<1>12. CASE TimerExpires
  <2> PICK t \in armed : queue' = Append(queue, Timeout(t.live))
    BY <1>12 DEF TimerExpires
  <2>1. Timeout(t.live) \in Blocks
    BY BlockTypes DEF IInv, TypeOK, Timers
  <2>2. HoldsSchedule(queue) => HoldsSchedule(queue')
    BY <2>1, <1>2, AppendHolds
  <2> QED BY <1>1, <1>12, <2>2 DEF TimerExpires
<1>13. CASE Tick
  BY <1>1, <1>13 DEF Tick
<1>14. CASE UNCHANGED vars
  BY <1>1, <1>14 DEF vars
<1> QED
  BY <1>4, <1>5, <1>6, <1>7, <1>8, <1>9, <1>10, <1>11, <1>12, <1>13, <1>14
  DEF Next, RunBlock

\* From CEF's first request on the pump has something that will wake it: every
\* step hands the wake-up on, the request itself being the first.
Awake == woken => WakeUp

THEOREM AlwaysAwake == Spec => []Awake
<1>1. Init => Awake
  BY DEF Init, Awake
<1>2. IInv /\ IInv' /\ [Next]_vars /\ Awake => Awake'
  <2> SUFFICES ASSUME IInv, IInv', [Next]_vars, Awake, woken' PROVE WakeUp'
    BY DEF Awake
  <2>1. CASE woken
    BY <2>1, WakeUpStep DEF Awake
  <2>2. CASE ~woken
    <3> PICK d \in Delays : OnScheduleMessagePumpWork(d)
      BY <2>2
      DEF Next, vars, RunBlock, KeepTimer, ScheduleNow, ScheduleLater, TimerFires,
          TimerSuperseded, PumpNow, PumpBegin, PumpDiscard, PumpFinish,
          CefProgress, TimerExpires, Tick
    <3>1. queue \in Seq(Blocks) /\ queue' = Append(queue, Schedule(d))
      BY DEF IInv, TypeOK, Blocks, OnScheduleMessagePumpWork
    <3>2. HoldsSchedule(queue')
      BY <3>1, AppendHolds, BlockTypes
    <3> QED BY <3>2 DEF WakeUp
  <2> QED BY <2>1, <2>2
<1> QED BY <1>1, <1>2, Invariant, PTL DEF Spec

\* Once CEF has asked, an idle main thread has a live timer due within the
\* heartbeat: it is awake (AlwaysAwake), and with nothing on the queue and no
\* pump running only a timer can be what it waits for.
THEOREM IdleBounded == Spec => []IdleWaitIsBounded
<1>1. IInv /\ Awake => IdleWaitIsBounded
  <2> SUFFICES ASSUME IInv, Awake, woken, ~active, queue = <<>>
               PROVE  \E t \in armed : t.live /\ t.left <= Heartbeat
    BY DEF IdleWaitIsBounded
  <2>1. ~HoldsSchedule(queue) /\ ~Holds(queue, Timeout(TRUE))
    BY DEF HoldsSchedule, Holds
  <2>2. PICK t \in armed : t.live
    BY <2>1 DEF Awake, WakeUp, LiveArmed
  <2>3. t \in Timers
    BY DEF IInv, TypeOK
  <2>4. \A u \in Timers : u.left \in 0..Heartbeat
    BY DEF Timers
  <2>5. \A n \in 0..Heartbeat : n <= Heartbeat
    OBVIOUS
  <2> QED BY <2>2, <2>3, <2>4, <2>5
<1> QED BY <1>1, Invariant, AlwaysAwake, PTL

\* The heartbeat never goes silent.
THEOREM NeverSilent == Spec => HeartbeatNeverStops
<1>1. IInv /\ IInv' /\ [Next]_vars => [WakeUp => WakeUp']_vars
  BY WakeUpStep
<1> QED BY <1>1, Invariant, PTL DEF Spec, HeartbeatNeverStops

\* The pump implements the contract it owes CEF.
THEOREM Refinement == Spec => Implements
<1>1. Init => Contract!Init
  BY DEF Init, Contract!Init, WakeUp, LiveArmed, Holds, HoldsSchedule
<1>2. IInv /\ IInv' /\ [Next]_vars => [Contract!Next]_(Contract!contractVars)
  <2> SUFFICES ASSUME IInv, IInv', [Next]_vars
               PROVE  [Contract!Next]_(Contract!contractVars)
    OBVIOUS
  <2> USE DEF Contract!Next, Contract!contractVars
  <2>1. WakeUp => WakeUp'
    BY WakeUpStep
  <2>2. ASSUME UNCHANGED <<stack, work>>
        PROVE  [Contract!Next]_(Contract!contractVars)
    <3>1. CASE WakeUp'
      BY <2>2, <3>1 DEF Contract!Request
    <3>2. CASE ~WakeUp'
      <4>1. WakeUp' = WakeUp
        BY <2>1, <3>2 DEF WakeUp
      <4> QED BY <2>2, <4>1
    <3> QED BY <3>1, <3>2
  <2>3. ASSUME queue # <<>>, WakeUp, PumpNow(Tail(queue))
        PROVE  [Contract!Next]_(Contract!contractVars)
    <3>1. CASE PumpBegin(Tail(queue))
      <4>1. /\ stack = 0 /\ stack' = 1 /\ work' = FALSE /\ WakeUp /\ WakeUp'
        BY <2>3, <3>1 DEF PumpBegin, IInv, NoNestedPump, WakeUp
      <4>2. WakeUp' = WakeUp
        BY <4>1 DEF WakeUp
      <4> QED BY <4>1, <4>2 DEF Contract!Begin
    <3>2. CASE PumpDiscard(Tail(queue))
      BY <3>2, <2>2 DEF PumpDiscard
    <3> QED BY <2>3, <3>1, <3>2 DEF PumpNow
  <2>4. CASE KeepTimer
    BY <2>4, <2>2 DEF KeepTimer
  <2>5. queue \in Seq(Blocks)
    BY DEF IInv, TypeOK, Blocks
  <2>6. CASE ScheduleNow
    <3>1. HoldsSchedule(queue)
      BY <2>5, <2>6, TailHolds DEF ScheduleNow
    <3> QED BY <2>3, <2>6, <3>1 DEF ScheduleNow, WakeUp
  <2>7. CASE ScheduleLater
    BY <2>7, <2>2 DEF ScheduleLater
  <2>8. CASE TimerFires
    <3>1. Holds(queue, Timeout(TRUE))
      BY <2>5, <2>8, TailHolds DEF TimerFires
    <3> QED BY <2>3, <2>8, <3>1 DEF TimerFires, WakeUp
  <2>9. CASE TimerSuperseded
    BY <2>9, <2>2 DEF TimerSuperseded
  <2>10. CASE PumpFinish
    <3>1. stack = 1 /\ stack' = 0 /\ UNCHANGED work /\ WakeUp /\ WakeUp'
      <4>1. active /\ stack = 1 /\ stack' = 0 /\ UNCHANGED work
        BY <2>10 DEF PumpFinish, IInv, NoNestedPump
      <4>2. WakeUp
        BY <4>1 DEF WakeUp
      <4> QED BY <2>1, <4>1, <4>2
    <3>2. WakeUp' = WakeUp
      BY <3>1 DEF WakeUp
    <3> QED BY <3>1, <3>2 DEF Contract!End
  <2>11. ASSUME NEW d \in Delays, OnScheduleMessagePumpWork(d)
         PROVE  [Contract!Next]_(Contract!contractVars)
    BY <2>11, <2>2 DEF OnScheduleMessagePumpWork
  <2>12. CASE CefProgress
    <3>1. WakeUp' = WakeUp
      BY <2>12 DEF CefProgress, WakeUp, LiveArmed
    <3> QED BY <2>12, <3>1 DEF CefProgress, Contract!Progress
  <2>13. CASE TimerExpires
    BY <2>13, <2>2 DEF TimerExpires
  <2>14. CASE Tick
    BY <2>14, <2>2 DEF Tick
  <2>15. CASE UNCHANGED vars
    BY <2>15, <2>2 DEF vars
  <2> QED
    BY <2>4, <2>6, <2>7, <2>8, <2>9, <2>10, <2>11, <2>12, <2>13, <2>14, <2>15
    DEF Next, RunBlock
<1> QED BY <1>1, <1>2, Invariant, PTL DEF Spec, Implements, Contract!Spec

=============================================================================
