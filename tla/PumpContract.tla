---------------------------- MODULE PumpContract ----------------------------
(***************************************************************************)
(* What the external message pump of ChromiumApplication.mm promises CEF,  *)
(* without a word about timers or dispatch queues:                         *)
(*                                                                         *)
(*   - CefDoMessageLoopWork() is entered only while no other call of it is *)
(*     on the stack ("Nesting CefDoMessageLoopWork() is illegal");         *)
(*   - it is entered only on behalf of a wake-up, and once there is one    *)
(*     there is one for ever: the heartbeat never goes silent;             *)
(*   - entering it takes all the progress CEF has made in the meantime.    *)
(***************************************************************************)
EXTENDS Naturals

VARIABLES
    stack,      \* CefDoMessageLoopWork() frames on the main thread's stack
    scheduled,  \* a wake-up is outstanding or the pump is running
    work        \* CEF made progress that only a pump can deliver

contractVars == <<stack, scheduled, work>>

Init == stack = 0 /\ scheduled = FALSE /\ work = FALSE

\* CEF makes progress (network, renderer IPC, compositor frames).
Progress == work' = TRUE /\ UNCHANGED <<stack, scheduled>>

\* CEF asks for a pump.
Request == scheduled' = TRUE /\ UNCHANGED <<stack, work>>

Begin ==
    /\ scheduled /\ stack = 0
    /\ stack' = 1
    /\ work' = FALSE
    /\ UNCHANGED scheduled

End == stack = 1 /\ stack' = 0 /\ UNCHANGED <<scheduled, work>>

Next == Progress \/ Request \/ Begin \/ End

Spec == Init /\ [][Next]_contractVars

=============================================================================
