---------------------------- MODULE QuitContract ----------------------------
(***************************************************************************)
(* What -terminate: and -replyToApplicationShouldTerminate: of             *)
(* ChromiumApplication.mm promise the host, whichever loop runs (the       *)
(* comment at lines 54-60: "We override to unwind CEF instead of taking    *)
(* AppKit's default exit path -- but we MUST still run that contract"):    *)
(*                                                                         *)
(*   - the delegate decides, at once or later, and may change its mind     *)
(*     until it has accepted a quit;                                       *)
(*   - an accepted quit is announced (NSApplicationWillTerminate) in the   *)
(*     same breath and is never taken back;                                *)
(*   - it ends the process, unless a modal panel is there to hold it up;   *)
(*   - nothing else ends it.                                               *)
(*                                                                         *)
(* A quit is "held" when a panel is running as the delegate accepts it, or *)
(* opens before the loop is left: AppKit's stop: and the event that wakes  *)
(* the loop go to the panel's own loop.  The host may then have to quit    *)
(* again.                                                                  *)
(***************************************************************************)
VARIABLES
    phase,     \* "running", "deferred", "quitting", "held" or "ended"
    announced  \* NSApplicationWillTerminate has been posted

contractVars == <<phase, announced>>

Init == phase = "running" /\ announced = FALSE

Undecided == {"running", "deferred"}

\* The delegate cancels, puts the answer off, or answers "no" later.
Decline ==
    /\ phase \in Undecided
    /\ phase' \in Undecided
    /\ UNCHANGED announced

\* Also while an accepted quit is still on its way.
Accept ==
    /\ phase # "ended"
    /\ phase' \in {"quitting", "held"}
    /\ announced' = TRUE

\* A panel opens before the loop is left.
Hold == phase = "quitting" /\ phase' = "held" /\ UNCHANGED announced

\* The loop is unwound and CEF shut down.
End ==
    /\ phase \in {"quitting", "held"}
    /\ phase' = "ended"
    /\ UNCHANGED announced

Next == Decline \/ Accept \/ Hold \/ End

Safe == Init /\ [][Next]_contractVars
Spec == Safe /\ WF_contractVars(phase = "quitting" /\ End)

=============================================================================
