------------------------------ MODULE RefBridge -----------------------------
(***************************************************************************)
(* A reference-counted client object behind CEF's C interface.  Every      *)
(* object the application hands to CEF (clients, the cookie collector,     *)
(* callbacks, observers) crosses the boundary like this:                   *)
(*                                                                         *)
(*    CEF's CefRefPtr -> CefCToCppRefCounted -> C struct                   *)
(*                    -> CefCppToCRefCounted -> the object                 *)
(*                                                                         *)
(* Each of the three has a count, and AddRef and Release of an outer one   *)
(* go through to the inner ones first, one atomic operation after the      *)
(* other (cpptoc_ref_counted.h, ctocpp_ref_counted.h, cef_base.h).  Any    *)
(* thread may copy, drop, pass or call through a reference it has.         *)
(*                                                                         *)
(* A thread's call is the sequence of operations on counts that is left of *)
(* it; an operation names the cells it reads on its way to the count.      *)
(***************************************************************************)
EXTENDS Integers, Sequences, FiniteSets

CONSTANTS
    Threads,
    Wraps,     \* bound: the times the object crosses to CEF
    MaxCalls   \* bound: the calls all threads make

ASSUME MaxCallsAssumption == MaxCalls \in Nat

VARIABLES
    count,   \* cell -> ref_count_
    life,    \* cell -> "unborn", "alive" or "freed"
    refs,    \* thread -> the CefRefPtrs it has
    steps,   \* thread -> the operations left of its call
    gains,   \* thread -> whose CefRefPtr the call ends in, {} if nobody's
    calls    \* number of calls so far

vars == <<count, life, refs, steps, gains, calls>>

\* The client's object, the CppToC wrapper with its struct, and CEF's CToCpp.
Object == <<"object">>
Wrapper(w) == <<"wrapper", w>>
Remote(w) == <<"remote", w>>
Cells == {Object} \cup {Wrapper(w) : w \in Wraps} \cup {Remote(w) : w \in Wraps}

\* What a CefRefPtr points at: the object on its own side, a CToCpp on CEF's.
Pointers == {Object} \cup {Remote(w) : w \in Wraps}

Operations == [op : {"inc", "dec"}, cell : Cells, reads : SUBSET Cells]

TypeOK ==
    /\ count \in [Cells -> Nat]
    /\ life \in [Cells -> {"unborn", "alive", "freed"}]
    /\ refs \in [Threads -> SUBSET Pointers]
    /\ steps \in [Threads -> Seq(Operations)]
    /\ gains \in [Threads -> SUBSET (Threads \X Pointers)]
    /\ calls \in 0..MaxCalls

\* new, and the creator's CefRefPtr.
Init ==
    /\ count = [c \in Cells |-> IF c = Object THEN 1 ELSE 0]
    /\ life = [c \in Cells |-> IF c = Object THEN "alive" ELSE "unborn"]
    /\ refs \in {[t \in Threads |-> IF t = creator THEN {Object} ELSE {}] : creator \in Threads}
    /\ steps = [t \in Threads |-> <<>>]
    /\ gains = [t \in Threads |-> {}]
    /\ calls = 0

-----------------------------------------------------------------------------
(***************************************************************************)
(* What the classes' operations do to the counts.                          *)
(***************************************************************************)
Inc(cell, reads) == [op |-> "inc", cell |-> cell, reads |-> reads]
Dec(cell, reads) == [op |-> "dec", cell |-> cell, reads |-> reads]

\* IMPLEMENT_REFCOUNTING, reached through the cells of "via".
AddRefObject(via) == <<Inc(Object, via)>>
ReleaseObject(via) == <<Dec(Object, via)>>

\* CefCppToCRefCounted::AddRef and Release: UnderlyingAddRef/Release first.
AddRefWrapper(w, via) == AddRefObject(via \cup {Wrapper(w)}) \o <<Inc(Wrapper(w), {})>>

\* Mutant: the wrapper's own count goes first.
ReleaseWrapperFirst(w, via) == <<Dec(Wrapper(w), via)>> \o ReleaseObject({Wrapper(w)})

ReleaseWrapper(w, via) == ReleaseObject(via \cup {Wrapper(w)}) \o <<Dec(Wrapper(w), {})>>

\* CefCToCppRefCounted::AddRef and Release, through the struct's add_ref and
\* release.
AddRefRemote(w) == AddRefWrapper(w, {Remote(w)}) \o <<Inc(Remote(w), {})>>
ReleaseRemote(w) == ReleaseWrapper(w, {Remote(w)}) \o <<Dec(Remote(w), {})>>

AddRef(p) == IF p = Object THEN AddRefObject({}) ELSE AddRefRemote(p[2])
Release(p) == IF p = Object THEN ReleaseObject({}) ELSE ReleaseRemote(p[2])

\* Mutant: no reference travels with the struct.
WrapForCefUncounted(w) == <<>>

\* CefCppToCRefCounted::Wrap: the reference that travels with the struct.
WrapForCef(w) == AddRefWrapper(w, {})

\* Mutant: the reference that travelled is kept.
WrapStructKept(w) == AddRefRemote(w)

\* CefCToCppRefCounted::Wrap: a CefRefPtr, then UnderlyingRelease() of the
\* reference that travelled.
WrapStruct(w) == AddRefRemote(w) \o ReleaseWrapper(w, {Remote(w)})

\* CefCToCppRefCounted::Unwrap, to give the object back.
UnwrapStruct(w) == AddRefWrapper(w, {Remote(w)})

\* CefCppToCRefCounted::Unwrap: a CefRefPtr to the object, then Release().
UnwrapObject(w) == AddRefObject({Wrapper(w)}) \o ReleaseWrapper(w, {})

-----------------------------------------------------------------------------
(***************************************************************************)
(* Calls.                                                                  *)
(***************************************************************************)
Begins(t, sequence, gained) ==
    /\ steps[t] = <<>> /\ gains[t] = {} /\ calls < MaxCalls
    /\ calls' = calls + 1
    /\ steps' = [steps EXCEPT ![t] = sequence]
    /\ gains' = [gains EXCEPT ![t] = gained]

\* A thread has one CefRefPtr to a thing at most: another one counts like that
\* of another thread.
Vacant(u, p) == p \notin refs[u] /\ \A s \in Threads : <<u, p>> \notin gains[s]

\* A new wrapper or CToCpp has count zero.
Born(cells) ==
    /\ \A c \in cells : life[c] = "unborn"
    /\ life' = [c \in Cells |-> IF c \in cells THEN "alive" ELSE life[c]]

\* The object is passed to CEF: VisitAllCookies(visitor), CreateBrowser(client).
PassToCef(t, w) ==
    /\ Object \in refs[t]
    /\ Born({Wrapper(w), Remote(w)})
    /\ Begins(t, WrapForCef(w) \o WrapStruct(w), {<<t, Remote(w)>>})
    /\ UNCHANGED <<count, refs>>

\* CEF passes the object back, as CefBrowserHost::GetClient() does.
PassToClient(t, w) ==
    /\ Remote(w) \in refs[t] /\ Vacant(t, Object)
    /\ Begins(t, UnwrapStruct(w) \o UnwrapObject(w), {<<t, Object>>})
    /\ UNCHANGED <<count, life, refs>>

\* CEF calls a method: Get() keeps the object while the method runs.
Invoke(t, w) ==
    /\ Remote(w) \in refs[t]
    /\ Begins(t, AddRefObject({Remote(w), Wrapper(w)}) \o ReleaseObject({}), {})
    /\ UNCHANGED <<count, life, refs>>

\* A CefRefPtr is copied for another thread, as tasks bound to it do.
Copy(t, u, p) ==
    /\ p \in refs[t] /\ Vacant(u, p) /\ t # u
    /\ Begins(t, AddRef(p), {<<u, p>>})
    /\ UNCHANGED <<count, life, refs>>

\* A CefRefPtr goes out of scope.
DropRef(t, p) ==
    /\ p \in refs[t]
    /\ Begins(t, Release(p), {})
    /\ refs' = [refs EXCEPT ![t] = @ \ {p}]
    /\ UNCHANGED <<count, life>>

\* One atomic operation; a count that reaches zero deletes its owner.
Step(t) ==
    /\ steps[t] # <<>>
    /\ LET s == Head(steps[t])
           n == IF s.op = "inc" THEN count[s.cell] + 1 ELSE count[s.cell] - 1
       IN  /\ count' = [count EXCEPT ![s.cell] = n]
           /\ life' = IF s.op = "dec" /\ n = 0 THEN [life EXCEPT ![s.cell] = "freed"] ELSE life
    /\ steps' = [steps EXCEPT ![t] = Tail(@)]
    /\ UNCHANGED <<refs, gains, calls>>

\* The call is over.
Return(t) ==
    /\ steps[t] = <<>> /\ gains[t] # {}
    /\ refs' = [u \in Threads |-> refs[u] \cup {p \in Pointers : <<u, p>> \in gains[t]}]
    /\ gains' = [gains EXCEPT ![t] = {}]
    /\ UNCHANGED <<count, life, steps, calls>>

Next ==
    \E t \in Threads :
        \/ \E w \in Wraps : PassToCef(t, w) \/ PassToClient(t, w) \/ Invoke(t, w)
        \/ \E p \in Pointers : DropRef(t, p) \/ \E u \in Threads : Copy(t, u, p)
        \/ Step(t) \/ Return(t)

\* Threads run; nobody has to call anything.
Fairness == \A t \in Threads : WF_vars(Step(t)) /\ WF_vars(Return(t))

Spec == Init /\ [][Next]_vars /\ Fairness

-----------------------------------------------------------------------------
(***************************************************************************)
(* Properties.                                                             *)
(***************************************************************************)
\* No operation reads or counts on a wrapper or an object that another
\* thread's Release has deleted in the meantime.
NoUseAfterFree ==
    \A t \in Threads : steps[t] # <<>> =>
        \A c \in {Head(steps[t]).cell} \cup Head(steps[t]).reads : life[c] = "alive"

Quiet == \A t \in Threads : steps[t] = <<>> /\ gains[t] = {}

\* The cells a CefRefPtr keeps alive.
Kept(p) == IF p = Object THEN {Object} ELSE {p, Wrapper(p[2]), Object}

\* When no call is on the way, exactly what a CefRefPtr can reach is there:
\* nothing leaks, on either side of the boundary, and nothing went early.
ReclaimedExactly ==
    Quiet => {c \in Cells : life[c] = "alive"} = UNION {Kept(p) : p \in UNION {refs[t] : t \in Threads}}

\* To its users all of this is one shared object: its destructor runs once,
\* after the last CefRefPtr on either side has gone, and then it does run.
\* That is what the cookie collector's completion rests on.
Shared == INSTANCE SharedObject
    WITH Holders <- Threads \X Pointers,
         held <- {h \in Threads \X Pointers : h[2] \in refs[h[1]]},
         exists <- life[Object] = "alive"
Implements == Shared!Spec

=============================================================================
