----------------------------- MODULE CookieStore ----------------------------
(***************************************************************************)
(* ChromiumCookieStore: setting, listing and deleting cookies over CEF's   *)
(* cookie manager, each with a completion on the main queue                *)
(* (ChromiumCookieStore.mm).                                               *)
(*                                                                         *)
(* The host calls on the main thread, which is CEF's UI thread too.  CEF   *)
(* (external) carries accepted requests out in their order and comes back  *)
(* with a reply, or gives a request up; either way it then lets go of the  *)
(* visitor or callback.  A listing has no "done" signal: its completion is *)
(* posted by the collector's destructor, which runs when the last          *)
(* reference has gone (RefBridge).                                         *)
(***************************************************************************)
EXTENDS Integers, Sequences, FiniteSets

CONSTANTS
    MaxCalls, \* bound: the calls the host may make
    Cookies,  \* cookies by name, domain and path
    Missing   \* no answer, no effect

ASSUME MaxCallsAssumption == MaxCalls \in Nat
ASSUME CookiesAssumption == IsFiniteSet(Cookies)

\* Calls are numbered as they are made.
Calls == 1..MaxCalls

VARIABLES
    valid,    \* CEF's context is valid: GetGlobalManager() is not null
    jar,      \* the cookies CEF has
    call,     \* call -> what was asked and whether there is a completion
    results,  \* listing -> results_
    requests, \* CEF: requests it accepted
    replies,  \* CEF: replies on their way to the UI thread
    queue,    \* the main dispatch queue
    answer,   \* call -> what its completion was called with last
    times,    \* call -> how often its completion was called
    effect,   \* ghost: what CEF did for a call
    lost      \* ghost: the calls CEF gave up

done == <<answer, times>>
vars == <<valid, jar, call, results, requests, replies, queue, done, effect, lost>>

Kinds == {"unmade", "set", "list", "delete"}

Success(ok) == [success |-> ok]
Listed(cookies) == [cookies |-> cookies]
Deleted(n) == [deletedCount |-> n]

ASSUME MissingAssumption == \A s \in SUBSET Cookies : Missing # Listed(s)

\* What the completion of a call takes.
Answers(c) ==
    CASE call[c].kind = "set" -> {Success(b) : b \in BOOLEAN}
      [] call[c].kind = "list" -> {Listed(s) : s \in SUBSET Cookies}
      [] OTHER -> {Deleted(n) : n \in 0..Cardinality(Cookies)}

TypeOK ==
    /\ valid \in BOOLEAN /\ jar \subseteq Cookies
    /\ call \in [Calls -> [kind : Kinds, completes : BOOLEAN]]
    /\ results \in [Calls -> SUBSET Cookies]
    /\ requests \in Seq([of : Calls, cookie : Cookies \cup {Missing}])
    /\ \A i \in DOMAIN replies : replies[i].of \in Calls /\ replies[i].unvisited \subseteq Cookies
    /\ \A i \in DOMAIN queue : queue[i].of \in Calls /\ queue[i].with \in Answers(queue[i].of)
    /\ times \in [Calls -> Nat]
    /\ \A c \in Calls : answer[c] \in Answers(c) \cup {Missing}
    /\ \A c \in Calls : effect[c] \in Answers(c) \cup {Missing}
    /\ lost \subseteq Calls

Init ==
    /\ valid = FALSE /\ jar \in SUBSET Cookies
    /\ call = [c \in Calls |-> [kind |-> "unmade", completes |-> FALSE]]
    /\ results = [c \in Calls |-> {}]
    /\ requests = <<>> /\ replies = <<>> /\ queue = <<>>
    /\ answer = [c \in Calls |-> Missing]
    /\ times = [c \in Calls |-> 0]
    /\ effect = [c \in Calls |-> Missing] /\ lost = {}

-----------------------------------------------------------------------------
(***************************************************************************)
(* The host's calls.                                                       *)
(***************************************************************************)
Post(c, value) == queue' = Append(queue, [of |-> c, with |-> value])

Made(c, kind, completes) ==
    /\ call[c].kind = "unmade" /\ \A d \in 1..(c - 1) : call[d].kind # "unmade"
    /\ call' = [call EXCEPT ![c] = [kind |-> kind, completes |-> completes]]
    /\ UNCHANGED <<valid, jar, results, replies, done, effect, lost>>

\* CEF accepts the request; without a context there is nobody to ask.
Accepted(c, cookie) ==
    /\ valid
    /\ requests' = Append(requests, [of |-> c, cookie |-> cookie])
    /\ UNCHANGED queue

\* Mutant: an answer of nothing.
RefusedNil(c, completes, value) ==
    /\ UNCHANGED requests
    /\ IF completes THEN Post(c, Missing) ELSE UNCHANGED queue

\* There is no manager, or CEF returns false and will not call back.
Refused(c, completes, value) ==
    /\ UNCHANGED requests
    /\ IF completes THEN Post(c, value) ELSE UNCHANGED queue

SetCookie(c, cookie, completes) ==
    /\ Made(c, "set", completes)
    /\ Accepted(c, cookie) \/ Refused(c, completes, Success(FALSE))

\* Mutant: a failure is reported here as well.
GetAllCookiesReported(c) ==
    /\ Made(c, "list", TRUE)
    /\ \/ Accepted(c, Missing)
       \/ /\ UNCHANGED requests
          /\ queue' = queue \o <<[of |-> c, with |-> Listed({})], [of |-> c, with |-> Listed({})]>>

\* VisitAllCookies takes a new collector; if it fails, the collector goes at
\* once and its destructor posts the empty results.
GetAllCookies(c) ==
    /\ Made(c, "list", TRUE)
    /\ Accepted(c, Missing) \/ Refused(c, TRUE, Listed({}))

\* Mutant: a failure is not reported.
DeleteAllCookiesTrusting(c, completes) ==
    /\ Made(c, "delete", completes)
    /\ Accepted(c, Missing) \/ (UNCHANGED <<requests, queue>>)

DeleteAllCookies(c, completes) ==
    /\ Made(c, "delete", completes)
    /\ Accepted(c, Missing) \/ Refused(c, completes, Deleted(0))

-----------------------------------------------------------------------------
(***************************************************************************)
(* CEF (external).                                                         *)
(***************************************************************************)
\* CefInitialize; before it every call is refused.
Initialized ==
    /\ ~valid
    /\ valid' = TRUE
    /\ UNCHANGED <<jar, call, results, requests, replies, queue, done, effect, lost>>

Reply(c, value, unvisited) ==
    replies' = Append(replies, [of |-> c, with |-> value, unvisited |-> unvisited])

\* The store carries the next request out; a malformed cookie is not set.
Execute ==
    /\ requests # <<>>
    /\ LET c == Head(requests).of
           cookie == Head(requests).cookie
       IN  \/ /\ call[c].kind = "set"
              /\ \E ok \in BOOLEAN :
                    /\ jar' = IF ok THEN jar \cup {cookie} ELSE jar
                    /\ Reply(c, Success(ok), {})
                    /\ effect' = [effect EXCEPT ![c] = Success(ok)]
           \/ /\ call[c].kind = "list"
              /\ UNCHANGED jar
              /\ Reply(c, Missing, jar)
              /\ effect' = [effect EXCEPT ![c] = Listed(jar)]
           \/ /\ call[c].kind = "delete"
              /\ jar' = {}
              /\ Reply(c, Deleted(Cardinality(jar)), {})
              /\ effect' = [effect EXCEPT ![c] = Deleted(Cardinality(jar))]
    /\ requests' = Tail(requests)
    /\ UNCHANGED <<valid, call, results, queue, done, lost>>

-----------------------------------------------------------------------------
(***************************************************************************)
(* CEF calls the visitor or callback, on the UI thread.                    *)
(***************************************************************************)
\* Mutant: the visit ends with the first cookie ("return false").
VisitOne(c, cookie) ==
    /\ results' = [results EXCEPT ![c] = @ \cup {cookie}]
    /\ replies' = [replies EXCEPT ![1].unvisited = {}]

\* _CookieCollector::Visit, which asks for more.
Visited(c, cookie) ==
    /\ results' = [results EXCEPT ![c] = @ \cup {cookie}]
    /\ replies' = [replies EXCEPT ![1].unvisited = @ \ {cookie}]

Visit(cookie) ==
    /\ replies # <<>> /\ cookie \in Head(replies).unvisited
    /\ Visited(Head(replies).of, cookie)
    /\ UNCHANGED <<valid, jar, call, requests, queue, done, effect, lost>>

\* ~_CookieCollector
CollectorGoes ==
    /\ replies # <<>> /\ call[Head(replies).of].kind = "list"
    /\ Head(replies).unvisited = {}
    /\ Post(Head(replies).of, Listed(results[Head(replies).of]))
    /\ replies' = Tail(replies)
    /\ UNCHANGED <<valid, jar, call, results, requests, done, effect, lost>>

\* OnComplete of the two callbacks.
OnComplete ==
    /\ replies # <<>> /\ call[Head(replies).of].kind \in {"set", "delete"}
    /\ IF call[Head(replies).of].completes
       THEN Post(Head(replies).of, Head(replies).with) ELSE UNCHANGED queue
    /\ replies' = Tail(replies)
    /\ UNCHANGED <<valid, jar, call, results, requests, done, effect, lost>>

Abandon(c) ==
    /\ lost' = lost \cup {c}
    /\ IF call[c].kind = "list" THEN Post(c, Listed(results[c])) ELSE UNCHANGED queue

\* CEF gives up a request or its reply: a callback is let go and never called,
\* a collector's destructor posts what there is.
GiveUp ==
    /\ \/ /\ requests # <<>> /\ Abandon(Head(requests).of)
          /\ requests' = Tail(requests)
          /\ UNCHANGED replies
       \/ /\ replies # <<>> /\ Abandon(Head(replies).of)
          /\ replies' = Tail(replies)
          /\ UNCHANGED requests
    /\ UNCHANGED <<valid, jar, call, results, done, effect>>

\* A block of the main queue calls a completion.
Completion ==
    /\ queue # <<>>
    /\ answer' = [answer EXCEPT ![Head(queue).of] = Head(queue).with]
    /\ times' = [times EXCEPT ![Head(queue).of] = @ + 1]
    /\ queue' = Tail(queue)
    /\ UNCHANGED <<valid, jar, call, results, requests, replies, effect, lost>>

HostCalls ==
    \E c \in Calls :
        \/ \E cookie \in Cookies, b \in BOOLEAN : SetCookie(c, cookie, b)
        \/ GetAllCookies(c)
        \/ \E b \in BOOLEAN : DeleteAllCookies(c, b)

UiThread == (\E cookie \in Cookies : Visit(cookie)) \/ CollectorGoes \/ OnComplete

Next == HostCalls \/ Initialized \/ Execute \/ UiThread \/ GiveUp \/ Completion

\* CEF carries out or gives up what it accepted, and the main thread runs.
Fairness == WF_vars(Execute) /\ WF_vars(UiThread) /\ WF_vars(Completion)

Spec == Init /\ [][Next]_vars /\ Fairness

-----------------------------------------------------------------------------
(***************************************************************************)
(* Properties.                                                             *)
(***************************************************************************)
Posted(c) == Cardinality({i \in DOMAIN queue : queue[i].of = c})

\* A completion is called once at most, whichever of its paths (no manager, a
\* refusal, a callback, a destructor, a request given up) the call takes.
CompletedOnce == \A c \in Calls : times[c] + Posted(c) <= IF call[c].completes THEN 1 ELSE 0

\* What CEF did, or that nothing was done if CEF refused or gave up the call.
TrueAnswer(c, value) ==
    \/ value = effect[c]
    \/ /\ effect[c] = Missing \/ c \in lost
       /\ call[c].kind = "set" => value = Success(FALSE)
       /\ call[c].kind = "list" /\ effect[c] = Missing => value = Listed({})
       /\ call[c].kind = "delete" => value = Deleted(0)

\* A completion is told what CEF did: a listing is complete and taken at one
\* moment, however many visits it took, and success is never made up for a call
\* that CEF refused or gave up.
AnswersAreTrue == \A c \in Calls : answer[c] # Missing => TrueAnswer(c, answer[c])

\* "... so `completion` always fires": every completion is called in the end,
\* also for an empty store, a refusal or a missing manager, unless CEF gives up
\* a request to set or delete and drops the callback uncalled.
EveryCallCompletes ==
    \A c \in Calls :
        call[c].completes ~> times[c] > 0 \/ (c \in lost /\ call[c].kind \in {"set", "delete"})

=============================================================================
